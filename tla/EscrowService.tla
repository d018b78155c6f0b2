---------------------------- MODULE EscrowService ----------------------------
(***************************************************************************)
(* Escrow: the buyer funds a trade once, under an idempotency key; release *)
(* hands the hold to the seller inside the caller's transaction.           *)
(***************************************************************************)
EXTENDS PassportService

(* fundEscrow *)

\* Mutant: the stored request hash is not compared.
FundEscrowAnyBody(r, t, user, key, body) ==
    LET call == [Idle EXCEPT !.op = "FUND_ESCROW", !.tradeId = t,
                             !.user = user, !.key = key, !.body = body]
    IN  /\ MayStart(r, t)
        /\ \/ records[key] = NULL /\ Become(r, [call EXCEPT !.pc = "loadTrade"])
           \/ /\ records[key] # NULL
              /\ Refuse(call, IF records[key].tradeId = t THEN "replay"
                                                          ELSE "rejected")
        /\ UNCHANGED <<tables, clock>>

\* The key's record is looked up before anything else, the trade and its
\* buyer included: a match replays, a mismatch is a 409.
FundEscrow(r, t, user, key, body) ==
    LET call == [Idle EXCEPT !.op = "FUND_ESCROW", !.tradeId = t,
                             !.user = user, !.key = key, !.body = body]
        record == records[key]
    IN  /\ MayStart(r, t)
        /\ \/ /\ record = NULL
              /\ Become(r, [call EXCEPT !.pc = "loadTrade"])
           \/ /\ record # NULL
              /\ record = [ tradeId |-> t,
                            requestHash |-> computeRequestHash(t, body) ]
              /\ Refuse(call, "replay")
           \/ /\ record # NULL
              /\ record # [ tradeId |-> t,
                            requestHash |-> computeRequestHash(t, body) ]
              /\ Refuse(call, "rejected")
        /\ UNCHANGED <<tables, clock>>

\* Mutant: the funding deadline is not checked.
FundableAnyTime(trade, user) ==
    trade # NULL /\ trade.buyerId = user /\ trade.state = "AUTH_PASSED"

Fundable(trade, user) ==
    /\ trade # NULL
    /\ trade.buyerId = user
    /\ trade.state = "AUTH_PASSED"
    /\ ~Passed(trade.escrowDeadline, clock)

FundLoadTrade(r) ==
    LET trade == trades[req[r].tradeId] IN
    /\ req[r].pc = "loadTrade"
    /\ \/ /\ Fundable(trade, req[r].user)
          /\ Become(r, [req[r] EXCEPT !.pc = "findHold", !.mem = trade])
       \/ ~Fundable(trade, req[r].user) /\ Finish(r, "rejected")
    /\ UNCHANGED <<tables, clock>>

\* Mutant: the hold is locked when it is looked up, before the trade.
FundFindHoldLocked(r) ==
    /\ req[r].op = "FUND_ESCROW"
    /\ req[r].pc = "findHold"
    /\ holds[req[r].tradeId] = NULL
    /\ Become(r, [req[r] EXCEPT
                    !.pc = "selectTrade", !.locks = {"hold"},
                    !.mem = applyTransition(@, "FUND_ESCROW", clock)])
    /\ UNCHANGED <<tables, clock>>

\* No hold yet: the transaction starts with the transition, in memory.
FundFindHold(r) ==
    /\ req[r].op = "FUND_ESCROW"
    /\ req[r].pc = "findHold"
    /\ \/ /\ holds[req[r].tradeId] = NULL
          /\ Become(r, [req[r] EXCEPT
                          !.pc = "selectTrade",
                          !.mem = applyTransition(@, "FUND_ESCROW", clock)])
       \/ holds[req[r].tradeId] # NULL /\ Finish(r, "rejected")
    /\ UNCHANGED <<tables, clock>>

\* Mutant: the trade is saved with the repository, not with the manager.
FundSaveTradeAlone(r) ==
    /\ req[r].op = "FUND_ESCROW"
    /\ Saves(r)
    /\ trades' = [trades EXCEPT ![req[r].tradeId] = Updated(r)]
    /\ Goto(r, "insertHold")
    /\ UNCHANGED <<holds, reports, records, ledger, clock>>

\* The UPDATE of the trade keeps its row locked until the transaction ends.
FundSaveTrade(r) ==
    /\ req[r].op = "FUND_ESCROW"
    /\ Saves(r)
    /\ Become(r, [req[r] EXCEPT !.pc = "insertHold", !.locks = {"trade"}])
    /\ UNCHANGED <<tables, clock>>

\* Mutant: no UNIQUE (trade_id) on escrow_holds.
FundInsertAnyHold(r) ==
    /\ req[r].pc = "insertHold"
    /\ Become(r, [req[r] EXCEPT !.pc = "insertRecord",
                                !.locks = {"trade", "hold"}])
    /\ UNCHANGED <<tables, clock>>

\* UNIQUE (trade_id); the 23505 of a second hold is not caught.
FundInsertHold(r) ==
    /\ req[r].pc = "insertHold"
    /\ ~Blocked(r)
    /\ \/ /\ holds[req[r].tradeId] = NULL
          /\ Become(r, [req[r] EXCEPT !.pc = "insertRecord",
                                      !.locks = {"trade", "hold"}])
       \/ holds[req[r].tradeId] # NULL /\ Finish(r, "error")
    /\ UNCHANGED <<tables, clock>>

\* Mutant: the record is kept as it is when the key exists already, and the rest
\* is committed (INSERT ... ON CONFLICT DO NOTHING).
FundInsertRecordKeepsKey(r) ==
    LET t == req[r].tradeId
        key == req[r].key
    IN  /\ req[r].pc = "insertRecord"
        /\ trades' = [trades EXCEPT ![t] = Updated(r)]
        /\ holds' = [holds EXCEPT ![t] = "HELD"]
        /\ records' = IF records[key] # NULL THEN records
              ELSE [records EXCEPT ![key] =
                    [ tradeId |-> t,
                      requestHash |-> computeRequestHash(t, req[r].body) ]]
        /\ Finish(r, "ok")
        /\ UNCHANGED <<reports, ledger, clock>>

\* UNIQUE (idempotency_key), likewise not caught; then COMMIT publishes the
\* trade, the hold and the record together.
FundInsertRecord(r) ==
    LET t == req[r].tradeId
        key == req[r].key
    IN  /\ req[r].pc = "insertRecord"
        /\ \/ /\ records[key] = NULL
              /\ trades' = [trades EXCEPT ![t] = Updated(r)]
              /\ holds' = [holds EXCEPT ![t] = "HELD"]
              /\ records' = [records EXCEPT ![key] =
                    [ tradeId |-> t,
                      requestHash |-> computeRequestHash(t, req[r].body) ]]
              /\ Finish(r, "ok")
           \/ /\ records[key] # NULL
              /\ Finish(r, "error")
              /\ UNCHANGED <<trades, holds, records>>
        /\ UNCHANGED <<reports, ledger, clock>>

(* releaseToSeller, in the transaction of TradeTransitionService.release *)

ReleaseFindHold(r) ==
    LET status == holds[req[r].tradeId] IN
    /\ req[r].op = "RELEASE"
    /\ req[r].pc = "findHold"
    /\ \/ status = "HELD" /\ Goto(r, "selectHold")
       \/ status # "HELD" /\ Finish(r, "rejected")
    /\ UNCHANGED <<tables, clock>>

\* save(hold) compares its RELEASED with the row as it is by now: when that
\* says RELEASED already there is nothing to update.
ReleaseSelectHold(r) ==
    /\ req[r].pc = "selectHold"
    /\ \/ holds[req[r].tradeId] = "RELEASED" /\ Goto(r, "appendEntry")
       \/ holds[req[r].tradeId] # "RELEASED" /\ Goto(r, "updateHold")
    /\ UNCHANGED <<tables, clock>>

\* Mutant: the hold is saved with the repository, not with the manager.
ReleaseUpdateHoldAlone(r) ==
    /\ req[r].pc = "updateHold"
    /\ ~Blocked(r)
    /\ holds' = [holds EXCEPT ![req[r].tradeId] = "RELEASED"]
    /\ Goto(r, "appendEntry")
    /\ UNCHANGED <<trades, reports, records, ledger, clock>>

ReleaseUpdateHold(r) ==
    /\ req[r].pc = "updateHold"
    /\ ~Blocked(r)
    /\ Become(r, [req[r] EXCEPT !.pc = "appendEntry", !.locks = {"hold"}])
    /\ UNCHANGED <<tables, clock>>
=============================================================================
