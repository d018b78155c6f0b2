------------------------ MODULE TradeTransitionService ------------------------
(***************************************************************************)
(* The trade's lifecycle: every call loads the trade, checks it, changes   *)
(* the entity in memory and saves it, some of them with other rows in one  *)
(* transaction.  No row is locked between the load and the save.           *)
(***************************************************************************)
EXTENDS EscrowService

Call(op, t) == [Idle EXCEPT !.op = op, !.tradeId = t]

\* A call that loads its trade and, when ok, goes on at pc with the entity mem;
\* otherwise it is answered 403, 404 or 409 at once.
Load(r, call, ok, pc, mem) ==
    /\ MayStart(r, call.tradeId)
    /\ \/ ok /\ Become(r, [call EXCEPT !.pc = pc, !.mem = mem])
       \/ ~ok /\ Refuse(call, "rejected")

Exists(t) == trades[t] # NULL
InState(t, states) == Exists(t) /\ trades[t].state \in states
SoldBy(t, user) == Exists(t) /\ SellerOf[trades[t].watchId] = user
BoughtBy(t, user) == Exists(t) /\ trades[t].buyerId = user
HasPassport(t) == Exists(t) /\ trades[t].watchId \in Linked

(* createTrade *)

\* Mutant: a state that the state machine does not know.
DraftUnknown(w, buyer) ==
    [ watchId |-> w, buyerId |-> buyer, state |-> "INITIATED",
      escrowDeadline |-> NULL, shipmentSlaDeadline |-> NULL,
      disputeWindowEnds |-> NULL, trackingNumber |-> NULL,
      disputeReason |-> NULL ]

Draft(w, buyer) ==
    [ watchId |-> w, buyerId |-> buyer, state |-> "DRAFT",
      escrowDeadline |-> NULL, shipmentSlaDeadline |-> NULL,
      disputeWindowEnds |-> NULL, trackingNumber |-> NULL,
      disputeReason |-> NULL ]

\* Bound: Trades holds an id for every trade that may still be inserted.
RoomForTrade ==
    Cardinality({r \in Requests : req[r].op = "CREATE"})
        < Cardinality({t \in Trades : trades[t] = NULL})

\* Mutant: sellers may buy what they sell.
CreateTradeWithOneself(r, buyer, w) ==
    /\ ~InFlight(r) /\ RoomForTrade
    /\ w \in Listed /\ ActiveOn(w) = {}
    /\ Become(r, [Idle EXCEPT !.op = "CREATE", !.pc = "insertTrade",
                              !.mem = Draft(w, buyer)])
    /\ UNCHANGED <<tables, clock>>

CreateTrade(r, buyer, w) ==
    LET call == [Idle EXCEPT !.op = "CREATE"]
        ok == w \in Listed /\ SellerOf[w] # buyer /\ ActiveOn(w) = {}
    IN  /\ ~InFlight(r)
        /\ RoomForTrade
        /\ \/ ok /\ Become(r, [call EXCEPT !.pc = "insertTrade",
                                           !.mem = Draft(w, buyer)])
           \/ ~ok /\ Refuse(call, "rejected")
        /\ UNCHANGED <<tables, clock>>

\* The check above has raced: the unique index decides, and its 23505 is
\* turned into the same 409.
CreateInsert(r, t) ==
    LET row == req[r].mem IN
    /\ req[r].pc = "insertTrade"
    /\ ~Blocked(r)
    /\ trades[t] = NULL
    /\ \/ /\ ~OneActiveViolated(t, row)
          /\ trades' = [trades EXCEPT ![t] = row]
          /\ Finish(r, "ok")
       \/ /\ OneActiveViolated(t, row)
          /\ Finish(r, "rejected")
          /\ UNCHANGED trades
    /\ UNCHANGED <<holds, reports, records, ledger, clock>>

(* submitForAuth, markShipped, markDelivered, dispute: load, change, save *)

SubmitForAuth(r, t, user) ==
    /\ Load(r, Call("SUBMIT_FOR_AUTH", t),
            SoldBy(t, user) /\ InState(t, {"DRAFT"}),
            "selectTrade", applyTransition(trades[t], "SUBMIT_FOR_AUTH", clock))
    /\ UNCHANGED <<tables, clock>>

MarkShipped(r, t, user) ==
    /\ Load(r, Call("MARK_SHIPPED", t),
            /\ SoldBy(t, user) /\ InState(t, {"ESCROW_FUNDED"})
            /\ ~Passed(trades[t].shipmentSlaDeadline, clock),
            "selectTrade",
            [applyTransition(trades[t], "MARK_SHIPPED", clock)
                EXCEPT !.trackingNumber = "text"])
    /\ UNCHANGED <<tables, clock>>

\* Mutant: a parcel handed over before the seller marked it shipped counts too.
MarkDeliveredEarly(r, t) ==
    /\ Load(r, Call("MARK_DELIVERED", t),
            InState(t, {"ESCROW_FUNDED", "SHIPPED"}),
            "selectTrade", [trades[t] EXCEPT !.state = "DELIVERED"])
    /\ UNCHANGED <<tables, clock>>

\* Mutant: the state is set without applyTransition, so no window is.
MarkDeliveredWithoutWindow(r, t) ==
    /\ Load(r, Call("MARK_DELIVERED", t), InState(t, {"SHIPPED"}),
            "selectTrade", [trades[t] EXCEPT !.state = "DELIVERED"])
    /\ UNCHANGED <<tables, clock>>

MarkDelivered(r, t) ==
    /\ Load(r, Call("MARK_DELIVERED", t), InState(t, {"SHIPPED"}),
            "selectTrade", applyTransition(trades[t], "MARK_DELIVERED", clock))
    /\ UNCHANGED <<tables, clock>>

Dispute(r, t, user) ==
    /\ Load(r, Call("DISPUTE", t),
            /\ BoughtBy(t, user) /\ InState(t, {"DELIVERED"})
            /\ ~Passed(trades[t].disputeWindowEnds, clock),
            "selectTrade",
            [applyTransition(trades[t], "DISPUTE", clock)
                EXCEPT !.disputeReason = "text"])
    /\ UNCHANGED <<tables, clock>>

SaveOnly == {"SUBMIT_FOR_AUTH", "MARK_SHIPPED", "MARK_DELIVERED", "DISPUTE"}

CommitSave(r) ==
    /\ req[r].op \in SaveOnly
    /\ Saves(r)
    /\ trades' = [trades EXCEPT ![req[r].tradeId] = Updated(r)]
    /\ Finish(r, "ok")
    /\ UNCHANGED <<holds, reports, records, ledger, clock>>

(* recordAuthenticationVerdict *)

RecordVerdict(r, t, verdict) ==
    /\ Load(r, [Call("VERDICT", t) EXCEPT !.verdict = verdict],
            InState(t, {"PENDING_AUTH"}), "findReport", trades[t])
    /\ UNCHANGED <<tables, clock>>

VerdictFindReport(r) ==
    LET ok == reports[req[r].tradeId] = NULL /\ req[r].mem.watchId \in Linked IN
    /\ req[r].pc = "findReport"
    /\ \/ ok /\ Goto(r, "insertReport")
       \/ ~ok /\ Finish(r, "rejected")
    /\ UNCHANGED <<tables, clock>>

\* Mutant: INCONCLUSIVE is taken for a pass.
VerdictInsertReportLenient(r) ==
    LET action == IF req[r].verdict = "FAIL" THEN "AUTH_FAIL" ELSE "AUTH_PASS" IN
    /\ req[r].pc = "insertReport"
    /\ ~Blocked(r)
    /\ reports[req[r].tradeId] = NULL
    /\ Become(r, [req[r] EXCEPT
                    !.pc = "appendEntry", !.locks = {"report"},
                    !.mem = applyTransition(@, action, clock)])
    /\ UNCHANGED <<tables, clock>>

\* Mutant: no UNIQUE (trade_id) on authentication_reports.
VerdictInsertAnyReport(r) ==
    LET action == IF req[r].verdict = "PASS" THEN "AUTH_PASS" ELSE "AUTH_FAIL" IN
    /\ req[r].pc = "insertReport"
    /\ Become(r, [req[r] EXCEPT
                    !.pc = "appendEntry", !.locks = {"report"},
                    !.mem = applyTransition(@, action, clock)])
    /\ UNCHANGED <<tables, clock>>

\* UNIQUE (trade_id), with 23505 turned into a 409; then the transition.
VerdictInsertReport(r) ==
    LET action == IF req[r].verdict = "PASS" THEN "AUTH_PASS" ELSE "AUTH_FAIL" IN
    /\ req[r].pc = "insertReport"
    /\ ~Blocked(r)
    /\ \/ /\ reports[req[r].tradeId] = NULL
          /\ Become(r, [req[r] EXCEPT
                          !.pc = "appendEntry", !.locks = {"report"},
                          !.mem = applyTransition(@, action, clock)])
       \/ reports[req[r].tradeId] # NULL /\ Finish(r, "rejected")
    /\ UNCHANGED <<tables, clock>>

\* Mutant: appendEntry is called without the manager, outside the transaction.
VerdictAppendAlone(r) ==
    LET entry == NewEntry(req[r].mem.watchId,
                          IF req[r].verdict = "PASS" THEN "AUTHENTICATED"
                                                     ELSE "RE_AUTHENTICATED",
                          req[r].tradeId)
    IN  /\ req[r].op = "VERDICT" /\ req[r].pc = "appendEntry"
        /\ ledger' = ledger \cup {entry}
        /\ Become(r, [req[r] EXCEPT !.pc = "selectTrade", !.entry = entry])
        /\ UNCHANGED <<trades, holds, reports, records, clock>>

VerdictAppend(r) ==
    /\ req[r].op = "VERDICT"
    /\ AppendEntry(r, IF req[r].verdict = "PASS" THEN "AUTHENTICATED"
                                                 ELSE "RE_AUTHENTICATED")

CommitVerdict(r) ==
    LET t == req[r].tradeId IN
    /\ req[r].op = "VERDICT"
    /\ Saves(r)
    /\ trades' = [trades EXCEPT ![t] = Updated(r)]
    /\ reports' = [reports EXCEPT ![t] = req[r].verdict]
    /\ ledger' = ledger \cup {req[r].entry}
    /\ Finish(r, "ok")
    /\ UNCHANGED <<holds, records, clock>>

(* release *)

Release(r, t, user) ==
    /\ Load(r, Call("RELEASE", t),
            /\ BoughtBy(t, user) /\ InState(t, {"DELIVERED", "DISPUTED"})
            /\ trades[t].state = "DELIVERED"
                   => ~Passed(trades[t].disputeWindowEnds, clock)
            /\ HasPassport(t),
            "findHold", applyTransition(trades[t], "RELEASE", clock))
    /\ UNCHANGED <<tables, clock>>

ReleaseAppend(r) ==
    /\ req[r].op = "RELEASE"
    /\ AppendEntry(r, "TRANSFERRED")

CommitRelease(r) ==
    LET t == req[r].tradeId IN
    /\ req[r].op = "RELEASE"
    /\ Saves(r)
    /\ trades' = [trades EXCEPT ![t] = Updated(r)]
    /\ holds' = [holds EXCEPT ![t] = "RELEASED"]
    /\ ledger' = ledger \cup {req[r].entry}
    /\ Finish(r, "ok")
    /\ UNCHANGED <<reports, records, clock>>
=============================================================================
