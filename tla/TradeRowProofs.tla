---------------------------- MODULE TradeRowProofs ----------------------------
(***************************************************************************)
(* What the steps of the pipeline do to the rows of trades: which requests *)
(* write a row, what they have checked before, why a watch never has two   *)
(* trades under way, and what no call ever does to a row.                  *)
(***************************************************************************)
EXTENDS TradePipelineProofs, FiniteSetTheorems

USE DEF TradeTable, HoldTable, ReportTable, RecordTable

\* The calls of fundEscrow's transaction after its UPDATE of the trade.
TxPc == {"insertHold", "insertRecord"}

NoRow == {"idle", "insertTrade", "loadTrade"}

\* r puts row in the table, under t, and ends.
Puts(r, t, row) ==
    /\ \/ req[r].pc = "insertTrade" /\ trades[t] = NULL /\ row = req[r].mem
       \/ /\ req[r].pc \in {"saveTrade", "insertRecord"}
          /\ t = req[r].tradeId /\ row = Updated(r)
    /\ req[r].pc # "insertRecord" => ~Blocked(r) /\ ~OneActiveViolated(t, row)

WritesRow(r) ==
    /\ \E t \in Trades : \E row \in TradeRow :
          Puts(r, t, row) /\ trades' = [trades EXCEPT ![t] = row]
    /\ req' = [req EXCEPT ![r] = Idle]

\* The entity in memory and the row it was loaded from are of one watch; a new
\* one is nobody's own.
MemOK(q) ==
    /\ q.pc \notin NoRow => q.mem.watchId = trades[q.tradeId].watchId
    /\ q.pc = "insertTrade" => q.mem.buyerId # SellerOf[q.mem.watchId]

\* r moves on and leaves the rows alone.
Moves(r) ==
    /\ UNCHANGED trades
    /\ \E q \in Request : req' = [req EXCEPT ![r] = q] /\ MemOK(q)
                          /\ q.pc \notin TxPc

\* r moves on inside fundEscrow's transaction, or enters it.
MovesInTx(r) ==
    /\ UNCHANGED trades
    /\ \E pc \in TxPc, locks \in SUBSET {"trade", "hold", "report"} :
          req' = [req EXCEPT ![r].pc = pc, ![r].locks = locks]
    /\ \/ req[r].op = "FUND_ESCROW" /\ Saves(r)
       \/ req[r].pc = "insertHold"

-----------------------------------------------------------------------------
(* Every step is one of these. *)

LEMMA MergeKeepsBuyer ==
    ASSUME NEW row \in TradeRow, NEW entity, NEW dirty
    PROVE  Merge(row, entity, dirty).buyerId = row.buyerId
  BY DEF Merge, TradeRow

LEMMA ArriveMoves ==
    ASSUME Inv, NEW r \in Requests, Arrive(r), Inv'
    PROVE  Moves(r) \/ UNCHANGED <<trades, req>>
  <1> SUFFICES ASSUME ~UNCHANGED <<trades, req>> PROVE Moves(r)
    OBVIOUS
  <1>1. ASSUME NEW buyer \in Users, NEW w \in Watches, CreateTrade(r, buyer, w)
        PROVE  Moves(r)
    <2> DEFINE q == [Idle EXCEPT !.op = "CREATE", !.pc = "insertTrade",
                                 !.mem = Draft(w, buyer)]
    <2>1. req' = [req EXCEPT ![r] = q] /\ UNCHANGED trades
      BY <1>1 DEF CreateTrade, Become, Refuse, tables, Idle
    <2>2. q \in Request
      BY <2>1 DEF Inv, TypeOK
    <2>3. SellerOf[w] # buyer
      BY <1>1 DEF CreateTrade, Refuse, tables
    <2>4. q.pc = "insertTrade" /\ q.mem = Draft(w, buyer)
      BY DEF Idle
    <2>5. Draft(w, buyer).watchId = w /\ Draft(w, buyer).buyerId = buyer
      BY DEF Draft
    <2> HIDE DEF q
    <2>6. QED  BY <2>1, <2>2, <2>3, <2>4, <2>5 DEF Moves, MemOK, NoRow, TxPc
  <1>2. ASSUME NEW q, Become(r, q), UNCHANGED tables,
               q.pc \notin TxPc \cup {"insertTrade"},
               q.mem.watchId = trades[q.tradeId].watchId
        PROVE  Moves(r)
    <2>1. req' = [req EXCEPT ![r] = q] /\ UNCHANGED trades
      BY <1>2 DEF Become, tables
    <2>2. q \in Request
      BY <2>1 DEF Inv, TypeOK
    <2>3. QED
      BY <1>2, <2>1, <2>2 DEF Moves, MemOK
  <1>4. ASSUME NEW t \in Trades, MarkDelivered(r, t) PROVE Moves(r)
    <2> DEFINE call == Call("MARK_DELIVERED", t)
               mem == applyTransition(trades[t], "MARK_DELIVERED", clock)
               q == [call EXCEPT !.pc = "selectTrade", !.mem = mem]
    <2>1. call \in Request /\ call.tradeId = t
      BY CallType DEF Operation
    <2>2. trades[t] \in TradeRow /\ UNCHANGED tables /\ Become(r, q)
      BY <1>4 DEF MarkDelivered, Load, Refuse, tables, InState, Exists, Inv, TypeOK
    <2>3. mem.watchId = trades[t].watchId
      BY <2>2 DEF applyTransition, TradeRow
    <2> HIDE DEF call, mem
    <2>4. q.pc = "selectTrade" /\ q.mem = mem /\ q.tradeId = t
      BY <2>1 DEF Request
    <2> HIDE DEF q
    <2>5. QED
      BY <1>2, <2>2, <2>3, <2>4 DEF TxPc
  <1>5. ASSUME NEW t \in Trades, NEW user \in Users, SubmitForAuth(r, t, user) PROVE Moves(r)
    <2> DEFINE call == Call("SUBMIT_FOR_AUTH", t)
               mem == applyTransition(trades[t], "SUBMIT_FOR_AUTH", clock)
               q == [call EXCEPT !.pc = "selectTrade", !.mem = mem]
    <2>1. call \in Request /\ call.tradeId = t
      BY CallType DEF Operation
    <2>2. trades[t] \in TradeRow /\ UNCHANGED tables /\ Become(r, q)
      BY <1>5 DEF SubmitForAuth, Load, Refuse, tables, InState, Exists, Inv, TypeOK
    <2>3. mem.watchId = trades[t].watchId
      BY <2>2 DEF applyTransition, TradeRow
    <2> HIDE DEF call, mem
    <2>4. q.pc = "selectTrade" /\ q.mem = mem /\ q.tradeId = t
      BY <2>1 DEF Request
    <2> HIDE DEF q
    <2>5. QED
      BY <1>2, <2>2, <2>3, <2>4 DEF TxPc
  <1>6. ASSUME NEW t \in Trades, NEW user \in Users, Release(r, t, user) PROVE Moves(r)
    <2> DEFINE call == Call("RELEASE", t)
               mem == applyTransition(trades[t], "RELEASE", clock)
               q == [call EXCEPT !.pc = "findHold", !.mem = mem]
    <2>1. call \in Request /\ call.tradeId = t
      BY CallType DEF Operation
    <2>2. trades[t] \in TradeRow /\ UNCHANGED tables /\ Become(r, q)
      BY <1>6 DEF Release, Load, Refuse, tables, InState, Exists, Inv, TypeOK
    <2>3. mem.watchId = trades[t].watchId
      BY <2>2 DEF applyTransition, TradeRow
    <2> HIDE DEF call, mem
    <2>4. q.pc = "findHold" /\ q.mem = mem /\ q.tradeId = t
      BY <2>1 DEF Request
    <2> HIDE DEF q
    <2>5. QED
      BY <1>2, <2>2, <2>3, <2>4 DEF TxPc
  <1>7. ASSUME NEW t \in Trades, NEW user \in Users, MarkShipped(r, t, user) PROVE Moves(r)
    <2> DEFINE call == Call("MARK_SHIPPED", t)
               mem == [applyTransition(trades[t], "MARK_SHIPPED", clock)
                          EXCEPT !.trackingNumber = "text"]
               q == [call EXCEPT !.pc = "selectTrade", !.mem = mem]
    <2>1. call \in Request /\ call.tradeId = t
      BY CallType DEF Operation
    <2>2. trades[t] \in TradeRow /\ UNCHANGED tables /\ Become(r, q)
      BY <1>7 DEF MarkShipped, Load, Refuse, tables, InState, Exists, Inv, TypeOK
    <2>3. mem.watchId = trades[t].watchId
      BY <2>2 DEF applyTransition, TradeRow
    <2> HIDE DEF call, mem
    <2>4. q.pc = "selectTrade" /\ q.mem = mem /\ q.tradeId = t
      BY <2>1 DEF Request
    <2> HIDE DEF q
    <2>5. QED
      BY <1>2, <2>2, <2>3, <2>4 DEF TxPc
  <1>8. ASSUME NEW t \in Trades, NEW user \in Users, Dispute(r, t, user) PROVE Moves(r)
    <2> DEFINE call == Call("DISPUTE", t)
               mem == [applyTransition(trades[t], "DISPUTE", clock)
                          EXCEPT !.disputeReason = "text"]
               q == [call EXCEPT !.pc = "selectTrade", !.mem = mem]
    <2>1. call \in Request /\ call.tradeId = t
      BY CallType DEF Operation
    <2>2. trades[t] \in TradeRow /\ UNCHANGED tables /\ Become(r, q)
      BY <1>8 DEF Dispute, Load, Refuse, tables, InState, Exists, Inv, TypeOK
    <2>3. mem.watchId = trades[t].watchId
      BY <2>2 DEF applyTransition, TradeRow
    <2> HIDE DEF call, mem
    <2>4. q.pc = "selectTrade" /\ q.mem = mem /\ q.tradeId = t
      BY <2>1 DEF Request
    <2> HIDE DEF q
    <2>5. QED
      BY <1>2, <2>2, <2>3, <2>4 DEF TxPc
  <1>9. ASSUME NEW t \in Trades, NEW verdict \in AuthVerdict,
               RecordVerdict(r, t, verdict)
        PROVE  Moves(r)
    <2> DEFINE call == [Call("VERDICT", t) EXCEPT !.verdict = verdict]
    <2>1. call \in Request /\ call.tradeId = t
      BY CallType DEF Operation, Request
    <2>2. UNCHANGED tables
          /\ Become(r, [call EXCEPT !.pc = "findReport", !.mem = trades[t]])
      BY <1>9 DEF RecordVerdict, Load, Refuse, tables
    <2> HIDE DEF call
    <2> DEFINE q == [call EXCEPT !.pc = "findReport", !.mem = trades[t]]
    <2>3. q.pc = "findReport" /\ q.mem = trades[t] /\ q.tradeId = t
      BY <2>1 DEF Request
    <2>4. Become(r, q)
      BY <2>2
    <2> HIDE DEF q
    <2>5. QED
      BY <1>2, <2>2, <2>3, <2>4 DEF TxPc
  <1>10. ASSUME NEW t \in Trades, NEW user \in Users, NEW key \in Keys,
                NEW body \in Bodies, FundEscrow(r, t, user, key, body)
         PROVE  Moves(r)
    <2> DEFINE call == [Idle EXCEPT !.op = "FUND_ESCROW", !.tradeId = t,
                                    !.user = user, !.key = key, !.body = body]
               q == [call EXCEPT !.pc = "loadTrade"]
    <2>1. req' = [req EXCEPT ![r] = q] /\ UNCHANGED trades
      BY <1>10 DEF FundEscrow, Become, Refuse, tables
    <2>2. q \in Request
      BY <2>1 DEF Inv, TypeOK
    <2>3. q.pc = "loadTrade"
      BY DEF Idle
    <2>4. QED  BY <2>1, <2>2, <2>3 DEF Moves, MemOK, NoRow, TxPc
  <1>11. QED
    BY <1>1, <1>4, <1>5, <1>6, <1>7, <1>8, <1>9, <1>10 DEF Arrive

LEMMA EndMoves ==
    ASSUME Inv, NEW r \in Requests, NEW status, Finish(r, status),
           UNCHANGED trades
    PROVE  Moves(r)
  <1>1. Idle \in Request /\ Idle.pc = "idle"
    BY IdleOK DEF Idle
  <1>2. QED  BY <1>1 DEF Finish, Moves, MemOK, NoRow, TxPc

\* A request goes on with the entity it has, or another of the same watch.
LEMMA StepMoves ==
    ASSUME Inv, Inv', NEW r \in Requests, MemOK(req[r]), NEW q,
           Become(r, q), UNCHANGED trades, req[r].pc \notin NoRow,
           q.pc \notin TxPc \cup NoRow, q.tradeId = req[r].tradeId,
           q.mem.watchId = req[r].mem.watchId
    PROVE  Moves(r)
  <1>1. req' = [req EXCEPT ![r] = q] /\ q \in Request
    BY DEF Become, Inv, TypeOK
  <1>2. QED  BY <1>1 DEF Moves, MemOK, NoRow

LEMMA ServeMoves ==
    ASSUME Inv, Inv', NEW r \in Requests, MemOK(req[r]), Serve(r)
    PROVE  Moves(r) \/ MovesInTx(r) \/ WritesRow(r)
  <1> DEFINE Goal == Moves(r) \/ MovesInTx(r) \/ WritesRow(r)
  <1>0. req[r] \in Request
    BY DEF Inv, TypeOK
  <1>1. ASSUME NEW t \in Trades, CreateInsert(r, t) PROVE Goal
    <2>1. CASE Finish(r, "rejected") /\ UNCHANGED trades
      BY <2>1, EndMoves
    <2>2. CASE /\ ~OneActiveViolated(t, req[r].mem)
               /\ trades' = [trades EXCEPT ![t] = req[r].mem]
               /\ Finish(r, "ok")
      <3>1. req[r].mem \in TradeRow
        BY <1>1, AtPc, OpAt DEF CreateInsert, RequestOK, CreateOK
      <3>2. Puts(r, t, req[r].mem)
        BY <1>1, <2>2 DEF CreateInsert, Puts
      <3>3. QED  BY <2>2, <3>1, <3>2 DEF WritesRow, Finish
    <2>3. QED  BY <1>1, <2>1, <2>2 DEF CreateInsert
  <1>2. ASSUME SelectTrade(r) PROVE Goal
    <2> DEFINE q == [req[r] EXCEPT !.pc = "saveTrade",
                        !.dirty = Dirty(trades[req[r].tradeId], req[r].mem)]
    <2>1. q.pc = "saveTrade" /\ q.mem = req[r].mem /\ q.tradeId = req[r].tradeId
      BY <1>0 DEF Request
    <2>2. Become(r, q) /\ UNCHANGED trades /\ req[r].pc = "selectTrade"
      BY <1>2 DEF SelectTrade, tables
    <2> HIDE DEF q
    <2>3. QED  BY <2>1, <2>2, StepMoves DEF NoRow, TxPc
  <1>3. ASSUME \/ SaveRefused(r)
               \/ Finish(r, "rejected") /\ UNCHANGED tables
               \/ Finish(r, "error") /\ UNCHANGED tables
        PROVE  Goal
    BY <1>3, EndMoves DEF SaveRefused, tables
  <1>4. ASSUME Saves(r), trades' = [trades EXCEPT ![req[r].tradeId] = Updated(r)],
               NEW status, Finish(r, status)
        PROVE  Goal
    <2>1. req[r].pc = "saveTrade"
      BY <1>4 DEF Saves
    <2>2. req[r].tradeId \in Trades /\ Updated(r) \in TradeRow
      BY <2>1, SavedRow
    <2>3. Puts(r, req[r].tradeId, Updated(r))
      BY <1>4, <2>1 DEF Puts, Saves
    <2>4. QED  BY <1>4, <2>2, <2>3 DEF WritesRow, Finish
  <1>5. ASSUME NEW pc, Goto(r, pc), UNCHANGED tables, req[r].pc \notin NoRow,
               pc \notin TxPc \cup NoRow
        PROVE  Goal
    <2> DEFINE q == [req[r] EXCEPT !.pc = pc]
    <2>1. q.pc = pc /\ q.mem = req[r].mem /\ q.tradeId = req[r].tradeId
      BY <1>0 DEF Request
    <2>2. Become(r, q) /\ UNCHANGED trades
      BY <1>5 DEF Goto, tables
    <2> HIDE DEF q
    <2>3. QED  BY <1>5, <2>1, <2>2, StepMoves
  <1>6. ASSUME VerdictInsertReport(r) PROVE Goal
    <2> DEFINE action == IF req[r].verdict = "PASS" THEN "AUTH_PASS"
                                                   ELSE "AUTH_FAIL"
               mem == applyTransition(req[r].mem, action, clock)
               q == [req[r] EXCEPT !.pc = "appendEntry", !.locks = {"report"},
                                   !.mem = applyTransition(@, action, clock)]
    <2>1. CASE Become(r, q)
      <3>1. req[r].mem \in TradeRow /\ req[r].pc = "insertReport"
        BY <1>6, AtPc DEF VerdictInsertReport, RequestOK
      <3>2. mem.watchId = req[r].mem.watchId
        BY <3>1 DEF applyTransition, TradeRow
      <3>3. q.pc = "appendEntry" /\ q.mem = mem /\ q.tradeId = req[r].tradeId
        BY <1>0 DEF Request
      <3> HIDE DEF q, mem
      <3>4. QED
        BY <1>6, <2>1, <3>1, <3>2, <3>3, StepMoves
        DEF VerdictInsertReport, tables, NoRow, TxPc
    <2>2. CASE Finish(r, "rejected")
      BY <1>6, <2>2, <1>3 DEF VerdictInsertReport
    <2>3. QED  BY <1>6, <2>1, <2>2 DEF VerdictInsertReport
  <1>7. ASSUME VerdictAppend(r) \/ ReleaseAppend(r) PROVE Goal
    <2>1. PICK type : AppendEntry(r, type)
      BY <1>7 DEF VerdictAppend, ReleaseAppend
    <2> DEFINE q == [req[r] EXCEPT !.pc = "selectTrade",
                        !.entry = NewEntry(req[r].mem.watchId, type, req[r].tradeId)]
    <2>2. q.pc = "selectTrade" /\ q.mem = req[r].mem /\ q.tradeId = req[r].tradeId
      BY <1>0 DEF Request
    <2>3. Become(r, q) /\ UNCHANGED trades /\ req[r].pc = "appendEntry"
      BY <2>1 DEF AppendEntry, tables
    <2> HIDE DEF q
    <2>4. QED  BY <2>2, <2>3, StepMoves DEF NoRow, TxPc
  <1>8. ASSUME FundLoadTrade(r) PROVE Goal
    <2> DEFINE trade == trades[req[r].tradeId]
               q == [req[r] EXCEPT !.pc = "findHold", !.mem = trade]
    <2>1. CASE Become(r, q)
      <3>1. q.pc = "findHold" /\ q.mem = trade /\ q.tradeId = req[r].tradeId
        BY <1>0 DEF Request
      <3>2. q \in Request /\ req' = [req EXCEPT ![r] = q]
        BY <2>1 DEF Become, Inv, TypeOK
      <3>3. UNCHANGED trades
        BY <1>8 DEF FundLoadTrade, tables
      <3> HIDE DEF q
      <3>4. QED  BY <3>1, <3>2, <3>3 DEF Moves, MemOK, TxPc
    <2>2. CASE Finish(r, "rejected")
      BY <1>8, <2>2, <1>3 DEF FundLoadTrade
    <2>3. QED  BY <1>8, <2>1, <2>2 DEF FundLoadTrade
  <1>9. ASSUME FundFindHold(r) PROVE Goal
    <2> DEFINE mem == applyTransition(req[r].mem, "FUND_ESCROW", clock)
               q == [req[r] EXCEPT !.pc = "selectTrade",
                                   !.mem = applyTransition(@, "FUND_ESCROW", clock)]
    <2>1. CASE Become(r, q)
      <3>1. req[r].mem \in TradeRow /\ req[r].pc = "findHold"
        BY <1>9, AtPc DEF FundFindHold, RequestOK
      <3>2. mem.watchId = req[r].mem.watchId
        BY <3>1 DEF applyTransition, TradeRow
      <3>3. q.pc = "selectTrade" /\ q.mem = mem /\ q.tradeId = req[r].tradeId
        BY <1>0 DEF Request
      <3> HIDE DEF q, mem
      <3>4. QED
        BY <1>9, <2>1, <3>1, <3>2, <3>3, StepMoves
        DEF FundFindHold, tables, NoRow, TxPc
    <2>2. CASE Finish(r, "rejected")
      BY <1>9, <2>2, <1>3 DEF FundFindHold
    <2>3. QED  BY <1>9, <2>1, <2>2 DEF FundFindHold
  <1>10. ASSUME FundSaveTrade(r) PROVE Goal
    <2>1. req' = [req EXCEPT ![r].pc = "insertHold", ![r].locks = {"trade"}]
      BY <1>10 DEF FundSaveTrade, Become
    <2>2. QED
      BY <1>10, <2>1 DEF FundSaveTrade, MovesInTx, Saves, tables, TxPc
  <1>11. ASSUME FundInsertHold(r) PROVE Goal
    <2>1. CASE Become(r, [req[r] EXCEPT !.pc = "insertRecord",
                                        !.locks = {"trade", "hold"}])
      <3>1. req' = [req EXCEPT ![r].pc = "insertRecord",
                               ![r].locks = {"trade", "hold"}]
        BY <2>1 DEF Become
      <3>2. QED
        BY <1>11, <3>1 DEF FundInsertHold, MovesInTx, tables, TxPc
    <2>2. CASE Finish(r, "error")
      BY <1>11, <2>2, <1>3 DEF FundInsertHold
    <2>3. QED  BY <1>11, <2>1, <2>2 DEF FundInsertHold
  <1>12. ASSUME FundInsertRecord(r) PROVE Goal
    <2>1. CASE Finish(r, "error") /\ UNCHANGED trades
      BY <2>1, EndMoves
    <2>2. CASE Finish(r, "ok")
               /\ trades' = [trades EXCEPT ![req[r].tradeId] = Updated(r)]
      <3>1. /\ req[r].pc = "insertRecord" /\ req[r].tradeId \in Trades
            /\ trades[req[r].tradeId] \in TradeRow /\ req[r].mem \in TradeRow
        BY <1>12, AtPc DEF FundInsertRecord, RequestOK, Inv, TypeOK
      <3>2. Updated(r) \in TradeRow
        BY <3>1, MergeType DEF Updated
      <3>3. Puts(r, req[r].tradeId, Updated(r))
        BY <3>1 DEF Puts
      <3>4. QED  BY <2>2, <3>1, <3>2, <3>3 DEF WritesRow, Finish
    <2>3. QED  BY <1>12, <2>1, <2>2 DEF FundInsertRecord
  <1>13. ASSUME \/ VerdictFindReport(r) \/ ReleaseFindHold(r)
                \/ ReleaseSelectHold(r)
         PROVE  Goal
    BY <1>13, <1>3, <1>5
    DEF VerdictFindReport, ReleaseFindHold, ReleaseSelectHold, NoRow, TxPc
  <1>14. ASSUME ReleaseUpdateHold(r) PROVE Goal
    <2> DEFINE q == [req[r] EXCEPT !.pc = "appendEntry", !.locks = {"hold"}]
    <2>1. q.pc = "appendEntry" /\ q.mem = req[r].mem /\ q.tradeId = req[r].tradeId
      BY <1>0 DEF Request
    <2>2. Become(r, q) /\ UNCHANGED trades /\ req[r].pc = "updateHold"
      BY <1>14 DEF ReleaseUpdateHold, tables
    <2> HIDE DEF q
    <2>3. QED  BY <2>1, <2>2, StepMoves DEF NoRow, TxPc
  <1>15. ASSUME CommitSave(r) \/ CommitVerdict(r) \/ CommitRelease(r) PROVE Goal
    BY <1>15, <1>4 DEF CommitSave, CommitVerdict, CommitRelease
  <1>16. QED
    BY <1>1, <1>2, <1>3, <1>6, <1>7, <1>8, <1>9, <1>10, <1>11, <1>12, <1>13,
       <1>14, <1>15 DEF Serve

-----------------------------------------------------------------------------
(* One active trade per watch. *)

\* The UPDATE that r has made and not committed was allowed, and still is.
TxAllowed(r) ==
    req[r].pc \in TxPc => ~OneActiveViolated(req[r].tradeId, Updated(r))

\* Of two such UPDATEs on one watch, at most one changes a state.
OneClaim(r, s) ==
    r # s /\ req[r].pc \in TxPc /\ req[s].pc \in TxPc
        /\ "state" \in req[r].dirty \cap req[s].dirty
      => req[r].mem.watchId # req[s].mem.watchId

\* Nobody buys their own watch.
NotOwn(row) == row.buyerId # SellerOf[row.watchId]

RowInv ==
    /\ \A r \in Requests : MemOK(req[r])
    /\ \A r \in Requests : TxAllowed(r)
    /\ \A r, s \in Requests : OneClaim(r, s)
    /\ \A w \in Watches : \A t, u \in ActiveOn(w) : t = u
    /\ \A t \in Trades : trades[t] # NULL => NotOwn(trades[t])

LEMMA TxLock ==
    ASSUME Inv, NEW r \in Requests, req[r].pc \in TxPc
    PROVE  /\ "trade" \in req[r].locks /\ req[r].tradeId \in Trades
           /\ trades[req[r].tradeId] \in TradeRow
           /\ req[r].mem \in TradeRow
  <1>1. RequestOK(req[r]) /\ req[r].op = "FUND_ESCROW"
    BY AtPc, OpAt DEF TxPc
  <1>2. QED
    BY <1>1 DEF RequestOK, FundOK, TxPc, Inv, TypeOK

LEMMA MovesRow ==
    ASSUME Inv, RowInv, NEW r \in Requests, Moves(r)
    PROVE  RowInv'
  <1>1. PICK q \in Request : /\ req' = [req EXCEPT ![r] = q] /\ MemOK(q)
                             /\ q.pc \notin TxPc
    BY DEF Moves
  <1>2. \A s \in Requests : req'[s] = IF s = r THEN q ELSE req[s]
    BY <1>1 DEF Inv, TypeOK
  <1>3. UNCHANGED trades /\ \A w : ActiveOn(w)' = ActiveOn(w)
    BY DEF Moves, ActiveOn
  <1>4. \A s \in Requests : MemOK(req[s])'
    BY <1>1, <1>2, <1>3 DEF RowInv, MemOK
  <1>5. ASSUME NEW s \in Requests PROVE TxAllowed(s)'
    <2>1. CASE s = r
      BY <1>1, <1>2, <2>1 DEF TxAllowed
    <2>2. CASE s # r
      BY <1>2, <1>3, <2>2 DEF RowInv, TxAllowed, OneActiveViolated, Updated
    <2>3. QED  BY <2>1, <2>2
  <1>6. \A s, u \in Requests : OneClaim(s, u)'
    BY <1>1, <1>2 DEF RowInv, OneClaim
  <1>7. QED  BY <1>3, <1>4, <1>5, <1>6 DEF RowInv, NotOwn

LEMMA MovesInTxRow ==
    ASSUME Inv, RowInv, NEW r \in Requests, MovesInTx(r)
    PROVE  RowInv'
  <1>1. PICK pc \in TxPc, locks \in SUBSET {"trade", "hold", "report"} :
            req' = [req EXCEPT ![r].pc = pc, ![r].locks = locks]
    BY DEF MovesInTx
  <1>2. UNCHANGED trades /\ \A w : ActiveOn(w)' = ActiveOn(w)
    BY DEF MovesInTx, ActiveOn
  <1>3. \A s \in Requests : /\ req'[s].mem = req[s].mem
                            /\ req'[s].dirty = req[s].dirty
                            /\ req'[s].tradeId = req[s].tradeId
                            /\ s # r => req'[s] = req[s]
                            /\ s = r => req'[s].pc \in TxPc
    BY <1>1 DEF Inv, TypeOK, Request
  <1>4. req[r].pc \in TxPc \cup {"saveTrade"} /\ req[r].pc \notin NoRow
    BY DEF MovesInTx, Saves, TxPc, NoRow
  <1>5. \A s \in Requests : MemOK(req[s])'
    BY <1>2, <1>3, <1>4 DEF RowInv, MemOK, TxPc
  <1>6. ASSUME NEW s \in Requests PROVE TxAllowed(s)'
    <2>1. Updated(s)' = Updated(s)
      BY <1>2, <1>3 DEF Updated
    <2>2. OneActiveViolated(req[s].tradeId, Updated(s))'
            = OneActiveViolated(req[s].tradeId, Updated(s))
      BY <1>2, <1>3, <2>1 DEF OneActiveViolated
    <2>3. CASE s = r
      BY <2>2, <2>3 DEF MovesInTx, TxPc, Saves, RowInv, TxAllowed
    <2>4. CASE s # r
      BY <1>3, <2>2, <2>4 DEF RowInv, TxAllowed
    <2>5. QED  BY <2>3, <2>4
  <1>7. ASSUME NEW s \in Requests \ {r}, req[s].pc \in TxPc,
               "state" \in req[r].dirty \cap req[s].dirty
        PROVE  req[r].mem.watchId # req[s].mem.watchId
    <2>1. CASE req[r].op = "FUND_ESCROW" /\ Saves(r)
      <3>1. req[r].pc = "saveTrade" /\ req[r].mem.state = "ESCROW_FUNDED"
        BY <2>1, AtPc DEF Saves, RequestOK, FundOK
      <3>2. isActiveTradeState(req[r].mem.state)
        BY <3>1 DEF isActiveTradeState, TERMINAL_STATES
      <3>3. ~IndexBusy(r, s)
        BY <2>1, <1>7 DEF Saves, Blocked, WaitsFor
      <3>4. QED  BY <1>7, <3>1, <3>2, <3>3, TxLock DEF IndexBusy
    <2>2. CASE req[r].pc = "insertHold"
      BY <1>7, <2>2 DEF RowInv, OneClaim, TxPc
    <2>3. QED  BY <2>1, <2>2 DEF MovesInTx
  <1>8. \A s, u \in Requests : OneClaim(s, u)'
    BY <1>3, <1>7 DEF RowInv, OneClaim
  <1>9. QED  BY <1>2, <1>5, <1>6, <1>8 DEF RowInv, NotOwn

\* What a request knows of the row it is about to put in the table.
LEMMA PutRow ==
    ASSUME Inv, RowInv, NEW r \in Requests, NEW t \in Trades,
           NEW row \in TradeRow, Puts(r, t, row)
    PROVE  /\ ~OneActiveViolated(t, row) /\ NotOwn(row)
           /\ trades[t] # NULL => row.watchId = trades[t].watchId
           /\ req[r].mem \in TradeRow /\ row.watchId = req[r].mem.watchId
           /\ req[r].pc # "insertTrade" =>
                /\ trades[t] \in TradeRow
                /\ row.state = IF "state" \in req[r].dirty
                                    THEN req[r].mem.state ELSE trades[t].state
  <1>1. CASE req[r].pc = "insertTrade"
    BY <1>1 DEF Puts, RowInv, MemOK, NotOwn
  <1>2. CASE req[r].pc \in {"saveTrade", "insertRecord"}
    <2>1. /\ trades[t] \in TradeRow /\ req[r].mem \in TradeRow
          /\ t = req[r].tradeId /\ row = Merge(trades[t], req[r].mem, req[r].dirty)
      BY <1>2, AtPc DEF Puts, RequestOK, Updated, Inv, TypeOK
    <2>2. ~OneActiveViolated(t, row)
      BY <1>2 DEF Puts, RowInv, TxAllowed, TxPc
    <2>3. req[r].mem.watchId = trades[t].watchId
      BY <1>2, <2>1 DEF RowInv, MemOK, NoRow
    <2>4. NotOwn(trades[t])
      BY <1>2, <2>1, AtPc DEF RowInv, RequestOK
    <2>5. NotOwn(row)
      BY <2>1, <2>4, MergeType, MergeKeepsBuyer DEF NotOwn
    <2>6. QED  BY <1>2, <2>1, <2>2, <2>3, <2>5, MergeType
  <1>3. QED  BY <1>1, <1>2 DEF Puts

\* Nobody writes the row that a transaction has updated and not committed.
LEMMA PutElsewhere ==
    ASSUME Inv, NEW r \in Requests, NEW t \in Trades, NEW row \in TradeRow,
           Puts(r, t, row), NEW s \in Requests \ {r}, req[s].pc \in TxPc
    PROVE  req[s].tradeId # t
  <1>1. CASE req[r].pc = "insertTrade"
    BY <1>1, TxLock, StoreAssumption DEF Puts
  <1>2. CASE req[r].pc = "saveTrade"
    <2>1. Needs(r) = {"trade"}
      BY <1>2 DEF Needs
    <2>2. QED  BY <1>2, <2>1, TxLock, LockFree DEF Puts
  <1>3. CASE req[r].pc = "insertRecord"
    BY <1>3, TxLock DEF Puts, Inv, LocksExclusive, TxPc
  <1>4. QED  BY <1>1, <1>2, <1>3 DEF Puts

\* ... nor makes a second trade active on the watch of that row.
LEMMA PutNoRival ==
    ASSUME Inv, RowInv, NEW r \in Requests, NEW t \in Trades,
           NEW row \in TradeRow, Puts(r, t, row),
           NEW s \in Requests \ {r}, req[s].pc \in TxPc,
           isActiveTradeState(row.state),
           isActiveTradeState(Updated(s).state),
           row.watchId = Updated(s).watchId
    PROVE  FALSE
  <1>1. PICK u \in Trades : u = req[s].tradeId
    BY TxLock
  <1>2. /\ trades[u] \in TradeRow /\ req[s].mem \in TradeRow /\ u # t
        /\ "trade" \in req[s].locks
    BY <1>1, TxLock, PutElsewhere
  <1>3. /\ Updated(s).watchId = trades[u].watchId
        /\ Updated(s).state = IF "state" \in req[s].dirty
                                THEN req[s].mem.state ELSE trades[u].state
    BY <1>1, <1>2, MergeType DEF Updated
  <1>4. req[s].mem.watchId = trades[u].watchId
    BY <1>1 DEF RowInv, MemOK, NoRow, TxPc
  <1>5. ~OneActiveViolated(u, Updated(s))
    BY <1>1 DEF RowInv, TxAllowed
  <1>6. CASE "state" \notin req[s].dirty
    <2>1. u \in ActiveOn(row.watchId)
      BY <1>2, <1>3, <1>6, StoreAssumption DEF ActiveOn
    <2>2. QED  BY <1>2, <2>1, PutRow DEF OneActiveViolated
  <1>7. CASE "state" \in req[s].dirty /\ req[r].pc # "insertTrade"
               /\ "state" \notin req[r].dirty
    <2>1. t \in ActiveOn(row.watchId)
      BY <1>7, PutRow, StoreAssumption DEF ActiveOn
    <2>2. QED  BY <1>2, <1>5, <2>1 DEF OneActiveViolated
  <1>8. CASE /\ "state" \in req[s].dirty
             /\ req[r].pc = "insertTrade" \/ "state" \in req[r].dirty
    <2>1. /\ isActiveTradeState(req[r].mem.state)
          /\ req[s].mem.watchId = req[r].mem.watchId
      BY <1>3, <1>4, <1>8, PutRow DEF Puts
    <2>2. CASE req[r].pc \in {"insertTrade", "saveTrade"}
      <3>1. ~IndexBusy(r, s)
        BY <2>2 DEF Puts, Blocked, WaitsFor
      <3>2. QED  BY <1>2, <1>8, <2>1, <2>2, <3>1 DEF IndexBusy
    <2>3. CASE req[r].pc = "insertRecord"
      BY <1>8, <2>1, <2>3 DEF RowInv, OneClaim, TxPc
    <2>4. QED  BY <2>2, <2>3 DEF Puts
  <1>9. QED  BY <1>6, <1>7, <1>8

LEMMA WritesRowRow ==
    ASSUME Inv, RowInv, NEW r \in Requests, WritesRow(r)
    PROVE  RowInv'
  <1>1. PICK t \in Trades, row \in TradeRow :
            Puts(r, t, row) /\ trades' = [trades EXCEPT ![t] = row]
    BY DEF WritesRow
  <1>2. /\ req'[r].pc = "idle"
        /\ \A s \in Requests \ {r} : req'[s] = req[s]
    BY DEF WritesRow, Inv, TypeOK, Idle
  <1>3. \A u \in Trades : trades'[u] = IF u = t THEN row ELSE trades[u]
    BY <1>1 DEF Inv, TypeOK
  <1>4. ~OneActiveViolated(t, row) /\ NotOwn(row)
        /\ (trades[t] # NULL => row.watchId = trades[t].watchId)
    BY <1>1, PutRow
  <1>5. ASSUME NEW w, NEW u \in ActiveOn(w)'
        PROVE  \/ u \in ActiveOn(w) /\ u # t
               \/ u = t /\ isActiveTradeState(row.state) /\ row.watchId = w
    BY <1>3, <1>5 DEF ActiveOn
  <1>6. \A s \in Requests : MemOK(req[s])'
    <2>1. TAKE s \in Requests
    <2>2. CASE s = r
      BY <1>2, <2>2 DEF MemOK, NoRow
    <2>3. CASE s # r /\ req[s].pc \notin NoRow
      <3>1. req[s].tradeId \in Trades /\ trades[req[s].tradeId] # NULL
        BY <2>3, AtPc DEF NoRow, RequestOK
      <3>2. req'[s] = req[s] /\ MemOK(req[s])
        BY <1>2, <2>3 DEF RowInv
      <3>3. QED  BY <1>3, <1>4, <2>3, <3>1, <3>2 DEF MemOK
    <2>4. CASE s # r /\ req[s].pc \in NoRow
      <3>1. req'[s] = req[s] /\ MemOK(req[s])
        BY <1>2, <2>4 DEF RowInv
      <3>2. QED  BY <2>4, <3>1 DEF MemOK
    <2>5. QED  BY <2>2, <2>3, <2>4
  <1>7. ASSUME NEW s \in Requests PROVE TxAllowed(s)'
    <2>1. CASE s = r \/ req[s].pc \notin TxPc
      BY <1>2, <2>1 DEF TxAllowed, TxPc
    <2>2. CASE s # r /\ req[s].pc \in TxPc
      <3>1. PICK u \in Trades : u = req[s].tradeId /\ u # t
        BY <1>1, <2>2, TxLock, PutElsewhere
      <3>2. req'[s] = req[s] /\ Updated(s)' = Updated(s)
        BY <1>2, <1>3, <2>2, <3>1 DEF Updated
      <3>3. ~OneActiveViolated(u, Updated(s))
        BY <2>2, <3>1 DEF RowInv, TxAllowed
      <3>4. PICK w, state : /\ w = Updated(s).watchId
                            /\ state = Updated(s).state
        OBVIOUS
      <3>5. ASSUME isActiveTradeState(state), NEW x \in ActiveOn(w)', x # u
            PROVE  FALSE
        <4>1. CASE x \in ActiveOn(w)
          BY <3>3, <3>4, <3>5, <4>1 DEF OneActiveViolated
        <4>2. CASE isActiveTradeState(row.state) /\ row.watchId = w
          BY <1>1, <2>2, <3>4, <3>5, <4>2, PutNoRival
        <4>3. QED  BY <1>5, <3>5, <4>1, <4>2
      <3>6. ~OneActiveViolated(u, Updated(s))'
        BY <3>2, <3>4, <3>5 DEF OneActiveViolated
      <3>7. QED  BY <3>1, <3>2, <3>6 DEF TxAllowed
    <2>3. QED  BY <2>1, <2>2
  <1>8. \A s, u \in Requests : OneClaim(s, u)'
    BY <1>2 DEF RowInv, OneClaim, TxPc
  <1>9. \A w \in Watches : \A u, v \in ActiveOn(w)' : u = v
    BY <1>4, <1>5 DEF RowInv, OneActiveViolated
  <1>10. \A u \in Trades : trades'[u] # NULL => NotOwn(trades'[u])
    BY <1>3, <1>4 DEF RowInv, NotOwn
  <1>11. QED  BY <1>6, <1>7, <1>8, <1>9, <1>10 DEF RowInv, NotOwn

LEMMA InitRow == Init => RowInv
  <1> SUFFICES ASSUME Init PROVE RowInv
    OBVIOUS
  <1>1. \A r \in Requests : req[r].pc = "idle"
    BY DEF Init, Idle
  <1>2. \A w : ActiveOn(w) = {}
    BY DEF Init, ActiveOn
  <1>3. QED
    BY <1>1, <1>2 DEF Init, RowInv, MemOK, TxAllowed, OneClaim, NoRow, TxPc

\* Every step: one request moves, moves inside a transaction or writes a row,
\* or none does.
LEMMA RowSteps ==
    ASSUME Inv, RowInv, [Next]_vars
    PROVE  \/ UNCHANGED <<trades, req>>
           \/ \E r \in Requests : Moves(r) \/ MovesInTx(r) \/ WritesRow(r)
  <1>0. Inv' /\ \A r \in Requests : MemOK(req[r])
    BY NextInv DEF RowInv
  <1>1. CASE Tick \/ UNCHANGED vars
    BY <1>1 DEF Tick, tables, vars
  <1>2. ASSUME NEW r \in Requests, Arrive(r)
        PROVE  Moves(r) \/ UNCHANGED <<trades, req>>
    BY <1>0, <1>2, ArriveMoves
  <1>3. ASSUME NEW r \in Requests, Serve(r)
        PROVE  Moves(r) \/ MovesInTx(r) \/ WritesRow(r)
    BY <1>0, <1>3, ServeMoves
  <1>4. ASSUME NEW r \in Requests, DeadlockVictim(r) \/ Fail(r)
        PROVE  Moves(r)
    BY <1>4, EndMoves DEF DeadlockVictim, Fail, tables
  <1>5. QED  BY <1>1, <1>2, <1>3, <1>4 DEF Next

LEMMA NextRow ==
    ASSUME Inv, RowInv, [Next]_vars
    PROVE  RowInv'
  <1>1. CASE UNCHANGED <<trades, req>>
    <2>1. \A w : ActiveOn(w)' = ActiveOn(w)
      BY <1>1 DEF ActiveOn
    <2>2. ASSUME NEW s \in Requests PROVE TxAllowed(s)'
      <3>1. Updated(s)' = Updated(s)
        BY <1>1 DEF Updated
      <3>2. QED  BY <1>1, <2>1, <3>1 DEF RowInv, TxAllowed, OneActiveViolated
    <2>3. QED  BY <1>1, <2>1, <2>2 DEF RowInv, MemOK, OneClaim, NotOwn
  <1>2. QED  BY <1>1, RowSteps, MovesRow, MovesInTxRow, WritesRowRow

\* With Inv, RowInv holds in every reachable state: what the transactions in
\* flight have claimed of the index stays theirs until they end.
THEOREM RowInvariance == Spec => []RowInv
  <1>1. Inv /\ RowInv /\ [Next]_vars => RowInv'
    BY NextRow
  <1>2. QED  BY <1>1, InitRow, Invariance, PTL DEF Spec

\* However createTrade calls race, and whatever stale saves come late, a watch
\* never has two trades under way: the index is checked against committed rows
\* and makes a statement wait for the uncommitted ones that it would meet.
THEOREM OneTradeAtATime == Spec => []OneActiveTradePerWatch
  <1>1. TypeOK /\ RowInv => OneActiveTradePerWatch
    <2> SUFFICES ASSUME TypeOK, RowInv, NEW w \in Watches
                 PROVE  Cardinality(ActiveOn(w)) <= 1
      BY DEF OneActiveTradePerWatch
    <2>1. CASE ActiveOn(w) = {}
      BY <2>1, FS_EmptySet
    <2>2. CASE \E t : ActiveOn(w) = {t}
      <3>1. Cardinality(ActiveOn(w)) = 1
        BY <2>2, FS_Singleton
      <3>2. QED  BY <3>1
    <2>3. QED  BY <2>1, <2>2 DEF RowInv
  <1>2. QED  BY <1>1, RowInvariance, TypeCorrect, PTL

-----------------------------------------------------------------------------
(* What the services never do. *)

Served == { "DRAFT", "PENDING_AUTH", "AUTH_PASSED", "AUTH_FAILED",
            "ESCROW_FUNDED", "SHIPPED", "DELIVERED", "DISPUTED", "RELEASED" }

\* No hold is refunded, no trade cancelled, expired, refunded or lost.
NothingIsUndone ==
    \A t \in Trades : /\ holds[t] # "REFUNDED"
                      /\ trades[t] # NULL => trades[t].state \in Served

LEMMA MemServed ==
    ASSUME Inv, NEW r \in Requests,
           req[r].pc \in {"insertTrade", "saveTrade", "insertRecord"}
    PROVE  req[r].mem.state \in Served
  <1>1. RequestOK(req[r]) /\ req[r].op \in Operation
    BY AtPc
  <1>2. QED
    BY <1>1 DEF Operation, RequestOK, CreateOK, SubmitOK, ProgressOK, FundOK,
       VerdictOK, ReleaseOK, Served

LEMMA StepUndoesNothing ==
    ASSUME Inv, RowInv, NothingIsUndone, [Next]_vars
    PROVE  NothingIsUndone'
  <1>1. ASSUME NEW t \in Trades PROVE holds'[t] # "REFUNDED"
    <2>1. CASE UNCHANGED holds
      BY <2>1 DEF NothingIsUndone
    <2>2. ASSUME NEW r \in Requests, FundInsertRecord(r) \/ CommitRelease(r)
          PROVE  holds'[t] # "REFUNDED"
      BY <2>2 DEF FundInsertRecord, CommitRelease, NothingIsUndone, Inv, TypeOK
    <2>3. QED
      BY <2>1, <2>2, ServeCommits, OthersCommitNothing
      DEF Next, Tick, tables, vars, CommitVerdict
  <1>2. ASSUME NEW t \in Trades, trades'[t] # NULL
        PROVE  trades'[t].state \in Served
    <2>1. CASE UNCHANGED trades
      BY <1>2, <2>1 DEF NothingIsUndone
    <2>2. ASSUME NEW r \in Requests, WritesRow(r)
          PROVE  trades'[t].state \in Served
      <3>1. PICK u \in Trades, row \in TradeRow :
                Puts(r, u, row) /\ trades' = [trades EXCEPT ![u] = row]
        BY <2>2 DEF WritesRow
      <3>2. req[r].mem.state \in Served
        BY <3>1, MemServed DEF Puts
      <3>3. row.state \in Served
        <4>1. CASE req[r].pc = "insertTrade"
          BY <3>1, <3>2, <4>1 DEF Puts
        <4>2. CASE req[r].pc # "insertTrade"
          BY <3>1, <3>2, <4>2, PutRow, StoreAssumption DEF NothingIsUndone
        <4>3. QED  BY <4>1, <4>2
      <3>4. QED
        BY <1>2, <3>1, <3>3 DEF NothingIsUndone, Inv, TypeOK
    <2>3. QED  BY <2>1, <2>2, RowSteps DEF Moves, MovesInTx
  <1>3. QED  BY <1>1, <1>2 DEF NothingIsUndone

\* The state machine knows CANCEL, EXPIRE, LOST_IN_TRANSIT and two REFUNDs, but
\* no sequence of calls performs one, and money once taken is only ever paid
\* out.
THEOREM NothingIsEverUndone == Spec => []NothingIsUndone
  <1>1. Init => NothingIsUndone
    BY StoreAssumption DEF Init, NothingIsUndone, EscrowHoldStatus
  <1>2. Inv /\ RowInv /\ NothingIsUndone /\ [Next]_vars => NothingIsUndone'
    BY StepUndoesNothing
  <1>3. QED  BY <1>1, <1>2, Invariance, RowInvariance, PTL DEF Spec

-----------------------------------------------------------------------------
(* Overdue trades. *)

\* Between its arrival and its end a request stays with its trade.
LEMMA ServeKeepsTrade ==
    ASSUME Inv, NEW r \in Requests, Serve(r) \/ DeadlockVictim(r) \/ Fail(r)
    PROVE  /\ req'[r].tradeId \in {req[r].tradeId, NULL}
           /\ \A s \in Requests \ {r} : req'[s] = req[s]
           /\ UNCHANGED clock
  <1>0. req \in [Requests -> Request] /\ Idle.tradeId = NULL
    BY DEF Inv, TypeOK, Idle
  <1>1. ASSUME NEW status, Finish(r, status)
        PROVE  /\ req'[r].tradeId \in {req[r].tradeId, NULL}
               /\ \A s \in Requests \ {r} : req'[s] = req[s]
    BY <1>0, <1>1 DEF Finish
  <1>2. ASSUME NEW q, q.tradeId = req[r].tradeId, Become(r, q)
        PROVE  /\ req'[r].tradeId \in {req[r].tradeId, NULL}
               /\ \A s \in Requests \ {r} : req'[s] = req[s]
    BY <1>0, <1>2 DEF Become
  <1>3. ASSUME NEW t \in Trades, CreateInsert(r, t)
        PROVE  UNCHANGED clock /\ \E status : Finish(r, status)
    BY <1>3 DEF CreateInsert
  <1>4. CASE \/ SaveRefused(r) \/ CommitSave(r) \/ CommitVerdict(r)
             \/ CommitRelease(r) \/ FundInsertRecord(r) \/ DeadlockVictim(r)
             \/ Fail(r)
    <2>1. UNCHANGED clock /\ \E status : Finish(r, status)
      BY <1>4 DEF SaveRefused, CommitSave, CommitVerdict, CommitRelease,
         FundInsertRecord, DeadlockVictim, Fail
    <2>2. QED  BY <1>1, <2>1
  <1>5. CASE \/ SelectTrade(r) \/ VerdictFindReport(r) \/ VerdictInsertReport(r)
             \/ VerdictAppend(r) \/ FundLoadTrade(r) \/ FundFindHold(r)
             \/ FundSaveTrade(r) \/ FundInsertHold(r) \/ ReleaseFindHold(r)
             \/ ReleaseSelectHold(r) \/ ReleaseUpdateHold(r) \/ ReleaseAppend(r)
    <2>1. UNCHANGED clock
      BY <1>5 DEF SelectTrade, VerdictFindReport, VerdictInsertReport,
         VerdictAppend, FundLoadTrade, FundFindHold, FundSaveTrade,
         FundInsertHold, ReleaseFindHold, ReleaseSelectHold, ReleaseUpdateHold,
         ReleaseAppend, AppendEntry
    <2>2. req[r] \in Request
      BY <1>0
    <2>3. SUFFICES ASSUME ~ \E status : Finish(r, status)
                   PROVE  /\ req'[r].tradeId = req[r].tradeId
                          /\ \A s \in Requests \ {r} : req'[s] = req[s]
      BY <1>1, <2>1
    <2>4. CASE SelectTrade(r)
      BY <1>0, <2>2, <2>4 DEF SelectTrade, Become, Request
    <2>5. CASE VerdictFindReport(r) \/ ReleaseFindHold(r) \/ ReleaseSelectHold(r)
      <3>1. PICK pc : Goto(r, pc)
        BY <2>3, <2>5 DEF VerdictFindReport, ReleaseFindHold, ReleaseSelectHold
      <3>2. QED  BY <1>0, <2>2, <3>1 DEF Goto, Become, Request
    <2>6. CASE VerdictInsertReport(r)
      <3>1. PICK mem : Become(r, [req[r] EXCEPT !.pc = "appendEntry",
                                    !.locks = {"report"}, !.mem = mem])
        BY <2>2, <2>3, <2>6 DEF VerdictInsertReport, Request
      <3>2. QED  BY <1>0, <2>2, <3>1 DEF Become, Request
    <2>7. CASE VerdictAppend(r) \/ ReleaseAppend(r)
      <3>1. PICK entry : Become(r, [req[r] EXCEPT !.pc = "selectTrade",
                                                  !.entry = entry])
        BY <2>7 DEF VerdictAppend, ReleaseAppend, AppendEntry
      <3>2. QED  BY <1>0, <2>2, <3>1 DEF Become, Request
    <2>8. CASE FundLoadTrade(r) \/ FundFindHold(r)
      <3>1. PICK pc, mem : Become(r, [req[r] EXCEPT !.pc = pc, !.mem = mem])
        BY <2>2, <2>3, <2>8 DEF FundLoadTrade, FundFindHold, Request
      <3>2. QED  BY <1>0, <2>2, <3>1 DEF Become, Request
    <2>9. CASE FundSaveTrade(r) \/ FundInsertHold(r) \/ ReleaseUpdateHold(r)
      <3>1. PICK pc, locks : Become(r, [req[r] EXCEPT !.pc = pc, !.locks = locks])
        BY <2>3, <2>9 DEF FundSaveTrade, FundInsertHold, ReleaseUpdateHold
      <3>2. QED  BY <1>0, <2>2, <3>1 DEF Become, Request
    <2>10. QED  BY <1>5, <2>4, <2>5, <2>6, <2>7, <2>8, <2>9
  <1>6. QED  BY <1>1, <1>3, <1>4, <1>5 DEF Serve

\* No call gets past its check of a deadline that has passed.
LEMMA ArriveLate ==
    ASSUME Inv, NEW t \in Trades, Overdue(t), NEW r \in Requests, Arrive(r),
           req' # req
    PROVE  \E q \in Request : /\ req' = [req EXCEPT ![r] = q]
                              /\ q.tradeId = t => q.pc = "loadTrade"
  <1> DEFINE Goal == \E q \in Request :
                        /\ req' = [req EXCEPT ![r] = q]
                        /\ q.tradeId = t => q.pc = "loadTrade"
  <1>0. /\ Inv' /\ Idle \in Request
        /\ \A u \in Trades : Exists(u) => trades[u] \in TradeRow
    BY ArriveStep, IdleOK DEF Exists, Inv, TypeOK
  <1>1. /\ State(t) \in {"AUTH_PASSED", "ESCROW_FUNDED", "DELIVERED"}
        /\ State(t) = "AUTH_PASSED" => Passed(trades[t].escrowDeadline, clock)
        /\ State(t) = "ESCROW_FUNDED" => Passed(trades[t].shipmentSlaDeadline, clock)
        /\ State(t) = "DELIVERED" => Passed(trades[t].disputeWindowEnds, clock)
    BY DEF Overdue
  <1>2. ASSUME NEW q, Become(r, q), q.tradeId = t => q.pc = "loadTrade"
        PROVE  Goal
    BY <1>0, <1>2 DEF Become, Inv, TypeOK
  <1>3. ASSUME NEW buyer \in Users, NEW w \in Watches, CreateTrade(r, buyer, w)
        PROVE  Goal
    <2> DEFINE q == [Idle EXCEPT !.op = "CREATE", !.pc = "insertTrade",
                                 !.mem = Draft(w, buyer)]
    <2>1. q.tradeId # t
      BY StoreAssumption DEF Idle
    <2>2. Become(r, q)
      BY <1>3 DEF CreateTrade, Refuse, Idle, Become
    <2> HIDE DEF q
    <2>3. QED  BY <1>2, <2>1, <2>2
  <1>4. ASSUME NEW u \in Trades, MarkDelivered(r, u)
        PROVE  Goal
    <2> DEFINE call == Call("MARK_DELIVERED", u)
               mem == applyTransition(trades[u], "MARK_DELIVERED", clock)
               q == [call EXCEPT !.pc = "selectTrade", !.mem = mem]
    <2>1. call \in Request /\ call.tradeId = u
      BY CallType DEF Operation
    <2>2. Become(r, q) /\ u # t
      BY <1>1, <1>4 DEF MarkDelivered, Load, Refuse, InState, Exists, State
    <2> HIDE DEF call, mem
    <2>3. q.tradeId = u
      BY <2>1 DEF Request
    <2> HIDE DEF q
    <2>4. QED  BY <1>2, <2>2, <2>3
  <1>5. ASSUME NEW u \in Trades, NEW user \in Users, SubmitForAuth(r, u, user)
        PROVE  Goal
    <2> DEFINE call == Call("SUBMIT_FOR_AUTH", u)
               mem == applyTransition(trades[u], "SUBMIT_FOR_AUTH", clock)
               q == [call EXCEPT !.pc = "selectTrade", !.mem = mem]
    <2>1. call \in Request /\ call.tradeId = u
      BY CallType DEF Operation
    <2>2. Become(r, q) /\ u # t
      BY <1>1, <1>5 DEF SubmitForAuth, Load, Refuse, InState, Exists, State
    <2> HIDE DEF call, mem
    <2>3. q.tradeId = u
      BY <2>1 DEF Request
    <2> HIDE DEF q
    <2>4. QED  BY <1>2, <2>2, <2>3
  <1>6. ASSUME NEW u \in Trades, NEW user \in Users, Release(r, u, user)
        PROVE  Goal
    <2> DEFINE call == Call("RELEASE", u)
               mem == applyTransition(trades[u], "RELEASE", clock)
               q == [call EXCEPT !.pc = "findHold", !.mem = mem]
    <2>1. call \in Request /\ call.tradeId = u
      BY CallType DEF Operation
    <2>2. Become(r, q) /\ u # t
      BY <1>1, <1>6 DEF Release, Load, Refuse, InState, Exists, State
    <2> HIDE DEF call, mem
    <2>3. q.tradeId = u
      BY <2>1 DEF Request
    <2> HIDE DEF q
    <2>4. QED  BY <1>2, <2>2, <2>3
  <1>7. ASSUME NEW u \in Trades, NEW user \in Users, MarkShipped(r, u, user)
        PROVE  Goal
    <2> DEFINE call == Call("MARK_SHIPPED", u)
               mem == [applyTransition(trades[u], "MARK_SHIPPED", clock)
                          EXCEPT !.trackingNumber = "text"]
               q == [call EXCEPT !.pc = "selectTrade", !.mem = mem]
    <2>1. call \in Request /\ call.tradeId = u
      BY CallType DEF Operation
    <2>2. Become(r, q) /\ u # t
      BY <1>1, <1>7 DEF MarkShipped, Load, Refuse, InState, Exists, State
    <2> HIDE DEF call, mem
    <2>3. q.tradeId = u
      BY <2>1 DEF Request
    <2> HIDE DEF q
    <2>4. QED  BY <1>2, <2>2, <2>3
  <1>8. ASSUME NEW u \in Trades, NEW user \in Users, Dispute(r, u, user)
        PROVE  Goal
    <2> DEFINE call == Call("DISPUTE", u)
               mem == [applyTransition(trades[u], "DISPUTE", clock)
                          EXCEPT !.disputeReason = "text"]
               q == [call EXCEPT !.pc = "selectTrade", !.mem = mem]
    <2>1. call \in Request /\ call.tradeId = u
      BY CallType DEF Operation
    <2>2. Become(r, q) /\ u # t
      BY <1>1, <1>8 DEF Dispute, Load, Refuse, InState, Exists, State
    <2> HIDE DEF call, mem
    <2>3. q.tradeId = u
      BY <2>1 DEF Request
    <2> HIDE DEF q
    <2>4. QED  BY <1>2, <2>2, <2>3
  <1>9. ASSUME NEW u \in Trades, NEW verdict \in AuthVerdict, RecordVerdict(r, u, verdict)
        PROVE  Goal
    <2> DEFINE call == [Call("VERDICT", u) EXCEPT !.verdict = verdict]
               mem == trades[u]
               q == [call EXCEPT !.pc = "findReport", !.mem = mem]
    <2>1. call \in Request /\ call.tradeId = u
      BY CallType DEF Operation, Request
    <2>2. Become(r, q) /\ u # t
      BY <1>1, <1>9 DEF RecordVerdict, Load, Refuse, InState, Exists, State
    <2> HIDE DEF call, mem
    <2>3. q.tradeId = u
      BY <2>1 DEF Request
    <2> HIDE DEF q
    <2>4. QED  BY <1>2, <2>2, <2>3
  <1>10. ASSUME NEW u \in Trades, NEW user \in Users, NEW key \in Keys,
                NEW body \in Bodies, FundEscrow(r, u, user, key, body)
         PROVE  Goal
    <2> DEFINE call == [Idle EXCEPT !.op = "FUND_ESCROW", !.tradeId = u,
                                    !.user = user, !.key = key, !.body = body]
               q == [call EXCEPT !.pc = "loadTrade"]
    <2>1. Become(r, q) /\ q.pc = "loadTrade"
      BY <1>10 DEF FundEscrow, Refuse, Idle
    <2> HIDE DEF q
    <2>2. QED  BY <1>2, <2>1
  <1>11. QED
    BY <1>3, <1>4, <1>5, <1>6, <1>7, <1>8, <1>9, <1>10 DEF Arrive

LEMMA ArriveClock ==
    ASSUME NEW r \in Requests, Arrive(r)
    PROVE  UNCHANGED clock
  <1>1. \A buyer \in Users, w \in Watches : CreateTrade(r, buyer, w) => UNCHANGED clock
    BY DEF CreateTrade
  <1>2. \A t \in Trades, verdict \in AuthVerdict :
            MarkDelivered(r, t) \/ RecordVerdict(r, t, verdict) => UNCHANGED clock
    BY DEF MarkDelivered, RecordVerdict
  <1>3. \A t \in Trades, user \in Users :
            \/ SubmitForAuth(r, t, user) \/ MarkShipped(r, t, user)
            \/ Release(r, t, user) \/ Dispute(r, t, user)
            => UNCHANGED clock
    BY DEF SubmitForAuth, MarkShipped, Release, Dispute
  <1>4. \A t \in Trades, user \in Users, key \in Keys, body \in Bodies :
            FundEscrow(r, t, user, key, body) => UNCHANGED clock
    BY DEF FundEscrow
  <1>5. AuthVerdict # {}
    BY DEF AuthVerdict
  <1>6. QED  BY <1>1, <1>2, <1>3, <1>4, <1>5 DEF Arrive

\* What a stranded trade needs to stay one.
LEMMA StaysStranded ==
    ASSUME NEW t \in Trades, Stranded(t), Inv, Inv',
           trades'[t] = trades[t], clock' >= clock,
           \A r \in Requests : req'[r].tradeId = t => req'[r].pc = "loadTrade"
    PROVE  Stranded(t)'
  <1>1. trades[t] \in TradeRow /\ clock \in Nat /\ clock' \in Nat
    BY HoursAssumption, StatesOf DEF Stranded, Overdue, State, Inv, TypeOK
  <1>2. \A deadline \in Deadline :
            Passed(deadline, clock) => Passed(deadline, clock')
    BY <1>1, HoursAssumption DEF Passed, Deadline
  <1>3. Overdue(t)'
    BY <1>1, <1>2 DEF Stranded, Overdue, State, TradeRow
  <1>4. QED  BY <1>3 DEF Stranded

LEMMA NextStranded ==
    ASSUME Inv, RowInv, [Next]_vars, NEW t \in Trades, Stranded(t)
    PROVE  Stranded(t)' /\ trades'[t] = trades[t]
  <1>0. /\ Inv' /\ req \in [Requests -> Request] /\ trades[t] # NULL
        /\ NULL \notin Trades /\ clock \in Nat
    BY NextInv, StoreAssumption, HoursAssumption, StatesOf
    DEF Stranded, Overdue, State, Inv, TypeOK
  <1>1. \A r \in Requests : req[r].tradeId = t => req[r].pc = "loadTrade"
    BY DEF Stranded
  <1>2. trades'[t] = trades[t]
    <2>1. ASSUME NEW r \in Requests, WritesRow(r) PROVE trades'[t] = trades[t]
      <3>1. PICK u \in Trades, row \in TradeRow :
                Puts(r, u, row) /\ trades' = [trades EXCEPT ![u] = row]
        BY <2>1 DEF WritesRow
      <3>2. u # t
        BY <1>0, <1>1, <3>1 DEF Puts
      <3>3. QED  BY <3>1, <3>2 DEF Inv, TypeOK
    <2>2. QED  BY <2>1, RowSteps DEF Moves, MovesInTx
  <1>3. CASE Tick \/ UNCHANGED vars
    <2>1. UNCHANGED req /\ clock' >= clock
      BY <1>0, <1>3 DEF Tick, vars
    <2>2. QED  BY <1>0, <1>1, <1>2, <2>1, StaysStranded
  <1>4. ASSUME NEW r \in Requests, Arrive(r) PROVE Stranded(t)'
    <2>1. clock' >= clock
      BY <1>0, <1>4, ArriveClock
    <2>2. Overdue(t)
      BY DEF Stranded
    <2>3. CASE req' = req
      BY <1>0, <1>1, <1>2, <2>1, <2>3, StaysStranded
    <2>4. CASE req' # req
      <3>1. PICK q \in Request : /\ req' = [req EXCEPT ![r] = q]
                                 /\ q.tradeId = t => q.pc = "loadTrade"
        BY <1>4, <2>2, <2>4, ArriveLate
      <3>2. \A s \in Requests : req'[s].tradeId = t => req'[s].pc = "loadTrade"
        BY <1>0, <1>1, <3>1
      <3>3. QED  BY <1>0, <1>2, <2>1, <3>2, StaysStranded
    <2>5. QED  BY <2>3, <2>4
  <1>5. ASSUME NEW r \in Requests, Serve(r) \/ DeadlockVictim(r) \/ Fail(r)
        PROVE  Stranded(t)'
    <2>1. clock' >= clock /\ \A s \in Requests \ {r} : req'[s] = req[s]
      BY <1>0, <1>5, ServeKeepsTrade
    <2>2. req'[r].tradeId # t
      <3>1. CASE req[r].tradeId # t
        BY <1>0, <1>5, <3>1, ServeKeepsTrade
      <3>2. CASE req[r].tradeId = t /\ (DeadlockVictim(r) \/ Fail(r))
        BY <1>0, <3>2 DEF DeadlockVictim, Fail, Finish, Idle
      <3>3. CASE req[r].tradeId = t /\ Serve(r)
        <4>1. req[r].pc = "loadTrade" /\ req[r].op = "FUND_ESCROW"
          BY <1>1, <3>3, AtPc DEF RequestOK, CreateOK, SubmitOK, ProgressOK,
             VerdictOK, ReleaseOK, SavePc, Request, Operation
        <4>2. FundLoadTrade(r)
          BY <3>3, <4>1
          DEF Serve, CreateInsert, SelectTrade, SaveRefused, CommitSave, Saves,
              VerdictFindReport, VerdictInsertReport, VerdictAppend, AppendEntry,
              CommitVerdict, FundFindHold, FundSaveTrade, FundInsertHold,
              FundInsertRecord, ReleaseFindHold, ReleaseSelectHold,
              ReleaseUpdateHold, ReleaseAppend, CommitRelease
        <4>3. ~Fundable(trades[t], req[r].user)
          BY DEF Stranded, Overdue, State, Fundable
        <4>4. QED
          BY <1>0, <3>3, <4>2, <4>3 DEF FundLoadTrade, Finish, Idle
      <3>4. QED  BY <1>5, <3>1, <3>2, <3>3
    <2>3. QED  BY <1>0, <1>1, <1>2, <2>1, <2>2, StaysStranded
  <1>6. QED  BY <1>2, <1>3, <1>4, <1>5 DEF Next

\* A trade nobody works on whose deadline has passed keeps its row for good:
\* every call checks the deadline of the state it starts from, and nothing else
\* ever writes the row.
THEOREM OverdueIsFinal == Spec => StrandedForGood
  <1>1. Inv /\ RowInv /\ [Next]_vars =>
            [\A t \in Trades : Stranded(t) =>
                Stranded(t)' /\ trades'[t] = trades[t]]_vars
    BY NextStranded
  <1>2. QED
    BY <1>1, Invariance, RowInvariance, PTL DEF Spec, StrandedForGood
=============================================================================
