-------------------------- MODULE TradeSerialProofs ---------------------------
(***************************************************************************)
(* The order of ledger entries, for any overlap; and what clients get who  *)
(* wait for the answer to one call on a trade before they make the next:   *)
(* states follow the table, the money is where the state says, retries     *)
(* replay, every passport verifies, and the sale is that of Lifecycle.     *)
(***************************************************************************)
EXTENDS TradeRowProofs, TradeLifecycle, WellFoundedInduction

USE DEF TradeTable, HoldTable, ReportTable, RecordTable

-----------------------------------------------------------------------------
(* The newest entry. *)

LEMMA MaxExists ==
    ASSUME NEW S, S \subseteq Nat, S # {}, NEW B \in Nat, \A s \in S : s <= B
    PROVE  \E m \in S : \A s \in S : s <= m
  <1> DEFINE T == {B - s : s \in S}
             R == OpToRel(<, Nat)
  <1>1. T \subseteq Nat
    OBVIOUS
  <1>2. T # {}
    OBVIOUS
  <1>3. PICK x \in T : \A y \in T : ~ (<<y, x>> \in R)
    <2> HIDE DEF T
    <2>1. IsWellFoundedOn(R, Nat)
      BY NatLessThanWellFounded
    <2> HIDE DEF R
    <2>2. QED  BY <1>1, <1>2, <2>1, WFMin
  <1>4. \A y \in T : ~(y < x)
    BY <1>1, <1>3 DEF OpToRel
  <1>5. PICK m \in S : x = B - m
    OBVIOUS
  <1>6. ASSUME NEW s \in S PROVE s <= m
    <2>1. B - s \in T /\ ~(B - s < B - m)
      BY <1>4, <1>5
    <2>2. s \in Nat /\ m \in Nat
      OBVIOUS
    <2> HIDE DEF T
    <2>3. QED  BY <2>1, <2>2
  <1>7. QED  BY <1>6

\* The newest of entries below some bound is the latest of their time stamps.
LEMMA NewestIsLast ==
    ASSUME NEW entries, entries \subseteq LedgerEntry, NEW B \in Nat,
           \A e \in entries : e.createdAt <= B
    PROVE  /\ \A e \in entries : e.createdAt <= Newest(entries)
           /\ \/ Newest(entries) = 0 /\ entries = {}
              \/ \E e \in entries : Newest(entries) = e.createdAt
  <1>1. CASE entries = {}
    BY <1>1 DEF Newest
  <1>2. CASE entries # {}
    <2> DEFINE S == {e.createdAt : e \in entries}
    <2>1. S \subseteq Nat /\ S # {} /\ \A s \in S : s <= B
      BY <1>2 DEF LedgerEntry
    <2>2. \E m \in S : \A s \in S : s <= m
      <3> HIDE DEF S
      <3>1. QED  BY <2>1, MaxExists
    <2>3. PICK last \in entries : IsLast(last, entries)
      BY <2>2 DEF IsLast
    <2> DEFINE chosen == CHOOSE e \in entries : IsLast(e, entries)
    <2>4. chosen \in entries /\ IsLast(chosen, entries)
      BY <2>3
    <2>5. Newest(entries) = chosen.createdAt
      BY <2>3 DEF Newest
    <2> HIDE DEF chosen
    <2>6. QED  BY <2>4, <2>5 DEF IsLast
  <1>3. QED  BY <1>1, <1>2

-----------------------------------------------------------------------------
(* What steps do to entries, in the table and in flight. *)

\* An entry in flight stays or goes; an append brings a new one.
Appends(r) ==
    /\ UNCHANGED tables
    /\ req[r].pc = "appendEntry" /\ req[r].op \in {"VERDICT", "RELEASE"}
    /\ req[r].mem.watchId \in Watches /\ req[r].tradeId \in Trades
    /\ \E type \in LedgerEntryType :
          req'[r].entry = NewEntry(req[r].mem.watchId, type, req[r].tradeId)
    /\ \A s \in Requests \ {r} : req'[s] = req[s]

LEMMA ServeEntry ==
    ASSUME Inv, NEW r \in Requests,
           Serve(r) \/ DeadlockVictim(r) \/ Fail(r)
    PROVE  \/ Appends(r)
           \/ /\ req'[r].entry \in {req[r].entry, NULL}
              /\ \A s \in Requests \ {r} : req'[s] = req[s]
  <1> DEFINE Goal == /\ req'[r].entry \in {req[r].entry, NULL}
                     /\ \A s \in Requests \ {r} : req'[s] = req[s]
  <1>0. req \in [Requests -> Request] /\ Idle.entry = NULL /\ req[r] \in Request
    BY DEF Inv, TypeOK, Idle
  <1>1. ASSUME NEW status, Finish(r, status) PROVE Goal
    BY <1>0, <1>1 DEF Finish
  <1>2. ASSUME NEW q, q.entry = req[r].entry, Become(r, q) PROVE Goal
    BY <1>0, <1>2 DEF Become
  <1>3. ASSUME NEW t \in Trades, CreateInsert(r, t) PROVE Goal
    BY <1>1, <1>3 DEF CreateInsert
  <1>4. CASE \/ SaveRefused(r) \/ CommitSave(r) \/ CommitVerdict(r)
             \/ CommitRelease(r) \/ FundInsertRecord(r) \/ DeadlockVictim(r)
             \/ Fail(r)
    BY <1>1, <1>4 DEF SaveRefused, CommitSave, CommitVerdict, CommitRelease,
       FundInsertRecord, DeadlockVictim, Fail
  <1>5. CASE SelectTrade(r)
    BY <1>0, <1>5 DEF SelectTrade, Become, Request
  <1>6. CASE VerdictFindReport(r) \/ ReleaseFindHold(r) \/ ReleaseSelectHold(r)
    <2>1. (\E status : Finish(r, status)) \/ (\E pc : Goto(r, pc))
      BY <1>6 DEF VerdictFindReport, ReleaseFindHold, ReleaseSelectHold
    <2>2. ASSUME NEW pc, Goto(r, pc) PROVE Goal
      BY <1>0, <2>2 DEF Goto, Become, Request
    <2>3. QED  BY <1>1, <2>1, <2>2
  <1>7. CASE VerdictInsertReport(r)
    <2>1. \/ \E status : Finish(r, status)
          \/ \E mem : Become(r, [req[r] EXCEPT !.pc = "appendEntry",
                                    !.locks = {"report"}, !.mem = mem])
      BY <1>0, <1>7 DEF VerdictInsertReport, Request
    <2>2. ASSUME NEW mem, Become(r, [req[r] EXCEPT !.pc = "appendEntry",
                                        !.locks = {"report"}, !.mem = mem])
          PROVE  Goal
      BY <1>0, <2>2 DEF Become, Request
    <2>3. QED  BY <1>1, <2>1, <2>2
  <1>8. CASE FundLoadTrade(r) \/ FundFindHold(r)
    <2>1. \/ \E status : Finish(r, status)
          \/ \E pc, mem : Become(r, [req[r] EXCEPT !.pc = pc, !.mem = mem])
      BY <1>0, <1>8 DEF FundLoadTrade, FundFindHold, Request
    <2>2. ASSUME NEW pc, NEW mem, Become(r, [req[r] EXCEPT !.pc = pc, !.mem = mem])
          PROVE  Goal
      BY <1>0, <2>2 DEF Become, Request
    <2>3. QED  BY <1>1, <2>1, <2>2
  <1>9. CASE FundSaveTrade(r) \/ FundInsertHold(r) \/ ReleaseUpdateHold(r)
    <2>1. \/ \E status : Finish(r, status)
          \/ \E pc, locks : Become(r, [req[r] EXCEPT !.pc = pc, !.locks = locks])
      BY <1>9 DEF FundSaveTrade, FundInsertHold, ReleaseUpdateHold
    <2>2. ASSUME NEW pc, NEW locks,
                 Become(r, [req[r] EXCEPT !.pc = pc, !.locks = locks])
          PROVE  Goal
      BY <1>0, <2>2 DEF Become, Request
    <2>3. QED  BY <1>1, <2>1, <2>2
  <1>10. CASE VerdictAppend(r) \/ ReleaseAppend(r)
    <2>1. PICK type \in LedgerEntryType : AppendEntry(r, type)
      BY <1>10 DEF VerdictAppend, ReleaseAppend, LedgerEntryType
    <2>2. /\ req[r].tradeId \in Trades /\ req[r].mem \in TradeRow
          /\ req[r].pc = "appendEntry" /\ req[r].op \in {"VERDICT", "RELEASE"}
      BY <1>10, <2>1, AtPc DEF AppendEntry, RequestOK, VerdictAppend, ReleaseAppend
    <2>3. req[r].mem.watchId \in Watches
      BY <2>2 DEF TradeRow
    <2> DEFINE e == NewEntry(req[r].mem.watchId, type, req[r].tradeId)
    <2>4. req' = [req EXCEPT ![r] = [req[r] EXCEPT !.pc = "selectTrade", !.entry = e]]
          /\ UNCHANGED tables
      BY <2>1 DEF AppendEntry, Become
    <2>5. req'[r].entry = e /\ \A s \in Requests \ {r} : req'[s] = req[s]
      <3> HIDE DEF e
      <3>1. QED  BY <1>0, <2>4 DEF Request
    <2>6. QED  BY <2>2, <2>3, <2>4, <2>5 DEF Appends
  <1>11. QED
    BY <1>3, <1>4, <1>5, <1>6, <1>7, <1>8, <1>9,
       <1>10 DEF Serve

-----------------------------------------------------------------------------
(* What a call knows of its trade while no other call works on it. *)

\* The states in which op is accepted, and the one to which op alone leads.
Source(op) ==
    CASE op = "SUBMIT_FOR_AUTH" -> {"DRAFT"}
      [] op = "VERDICT"         -> {"PENDING_AUTH"}
      [] op = "FUND_ESCROW"     -> {"AUTH_PASSED"}
      [] op = "MARK_SHIPPED"    -> {"ESCROW_FUNDED"}
      [] op = "MARK_DELIVERED"  -> {"SHIPPED"}
      [] op = "DISPUTE"         -> {"DELIVERED"}
      [] op = "RELEASE"         -> {"DELIVERED", "DISPUTED"}
      [] OTHER                  -> {}

Target(op) ==
    CASE op = "SUBMIT_FOR_AUTH" -> "PENDING_AUTH"
      [] op = "MARK_SHIPPED"    -> "SHIPPED"
      [] op = "MARK_DELIVERED"  -> "DELIVERED"
      [] op = "DISPUTE"         -> "DISPUTED"
      [] OTHER                  -> NULL

Writing == {"saveTrade", "insertHold", "insertRecord"}

\* Writing the dirty columns makes the row what the entity is.
Whole(q) ==
    \A c \in MutableColumn \ q.dirty : q.mem[c] = trades[q.tradeId][c]

\* The calls of an operation once it has changed its entity.
Changed == SavePc \cup Writing \cup {"appendEntry"}

\* The row is still in the state it was loaded in, and the save will change it,
\* to all that the operation has made of the entity.
CallOK(q) ==
    q.pc \notin NoRow =>
        /\ trades[q.tradeId].state \in Source(q.op)
        /\ q.op \in SaveOnly => q.mem.state = Target(q.op)
        /\ q.pc \in Changed => Dated(q.mem)
        /\ q.pc \in Writing => "state" \in q.dirty /\ Whole(q)

LEMMA ApplyDated ==
    ASSUME NEW trade \in TradeRow, NEW action, NEW now \in Nat,
           getNextState(trade.state, action) \in TradeState
    PROVE  Dated(applyTransition(trade, action, now))
  <1>1. \A hours \in Nat : now + hours \in Nat /\ now + hours # NULL
    BY HoursAssumption
  <1>2. QED
    BY <1>1, HoursAssumption DEF applyTransition, Due, Dated, TradeRow

\* No record answers the funding in flight.
RecordFree(q) ==
    q.op = "FUND_ESCROW" =>
        records[q.key] = NULL \/ records[q.key].tradeId # q.tradeId

\* What ReplayPromise says of a step.
ReplayKept ==
    LET done == records'[answer'.key]
        same == [ tradeId |-> answer'.tradeId,
                  requestHash |->
                     computeRequestHash(answer'.tradeId, answer'.body) ]
    IN  answer' # NULL /\ answer'.op = "FUND_ESCROW" =>
          /\ done = same => answer'.status \in {"ok", "replay", "lost"}
          /\ done # NULL /\ done # same
                 => answer'.status \notin {"ok", "replay"}

\* r takes the call q.
Takes(r, q) ==
    /\ req' = [req EXCEPT ![r] = q] /\ answer' = NULL
    /\ q.entry = NULL
    /\ q.tradeId # NULL => MayStart(r, q.tradeId)
    /\ CallOK(q) /\ RecordFree(q)

LEMMA LoadTakes ==
    ASSUME Inv, NEW r \in Requests, NEW t \in Trades, NEW op \in Operation,
           NEW call \in Request, call.op = op, call.tradeId = t,
           call.entry = NULL,
           op # "FUND_ESCROW",
           NEW ok, NEW pc \in {"selectTrade", "findHold", "findReport"}, NEW mem,
           ok => /\ trades[t].state \in Source(op)
                 /\ op \in SaveOnly => mem.state = Target(op)
                 /\ pc = "selectTrade" => Dated(mem),
           Load(r, call, ok, pc, mem), UNCHANGED <<tables, clock>>
    PROVE  \/ UNCHANGED req /\ ReplayKept
           \/ \E q : Takes(r, q)
  <1> DEFINE q == [call EXCEPT !.pc = pc, !.mem = mem]
  <1>1. CASE ok /\ Become(r, q)
    <2>1. /\ q.op = op /\ q.tradeId = t /\ q.entry = NULL /\ q.pc = pc
          /\ q.mem = mem
      BY DEF Request
    <2>2. req' = [req EXCEPT ![r] = q] /\ answer' = NULL /\ MayStart(r, t)
      BY <1>1 DEF Become, Load
    <2> HIDE DEF q
    <2>3. CallOK(q) /\ RecordFree(q)
      BY <1>1, <2>1 DEF CallOK, RecordFree, Writing, Changed, SavePc
    <2>4. QED  BY <2>1, <2>2, <2>3 DEF Takes
  <1>2. CASE Refuse(call, "rejected")
    <2>1. answer'.op = op /\ UNCHANGED req
      BY <1>2 DEF Refuse, Reply
    <2>2. QED  BY <2>1 DEF ReplayKept
  <1>3. QED  BY <1>1, <1>2 DEF Load

LEMMA ArriveTakes ==
    ASSUME Inv, NEW r \in Requests, Arrive(r)
    PROVE  \/ UNCHANGED req /\ ReplayKept
           \/ \E q : Takes(r, q)
  <1> DEFINE Goal == \/ UNCHANGED req /\ ReplayKept
                     \/ \E q : Takes(r, q)
  <1>0. Idle \in Request /\ Idle.entry = NULL /\ clock \in Nat
    BY IdleOK DEF Idle, Inv, TypeOK
  <1>c. ASSUME NEW op \in Operation, NEW t \in Trades
        PROVE  /\ Call(op, t) \in Request /\ Call(op, t).op = op
               /\ Call(op, t).tradeId = t /\ Call(op, t).entry = NULL
    BY CallType DEF Call, Idle
  <1>s. ASSUME NEW t \in Trades, NEW states, InState(t, states)
        PROVE  trades[t] \in TradeRow /\ trades[t].state \in states
    BY <1>s DEF InState, Exists, Inv, TypeOK
  <1>l. ASSUME NEW op \in Operation \ {"FUND_ESCROW"}, NEW t \in Trades,
               NEW ok, NEW pc \in {"selectTrade", "findHold"}, NEW mem,
               ok => /\ trades[t].state \in Source(op)
                     /\ op \in SaveOnly => mem.state = Target(op)
                     /\ pc = "selectTrade" => Dated(mem),
               Load(r, Call(op, t), ok, pc, mem), UNCHANGED <<tables, clock>>
        PROVE  Goal
    BY <1>c, <1>l, LoadTakes
  <1>1. ASSUME NEW buyer \in Users, NEW w \in Watches, CreateTrade(r, buyer, w)
        PROVE  Goal
    <2> DEFINE q == [Idle EXCEPT !.op = "CREATE", !.pc = "insertTrade",
                                 !.mem = Draft(w, buyer)]
    <2>1. CASE Become(r, q)
      <3>1. /\ q.op = "CREATE" /\ q.pc = "insertTrade" /\ q.entry = NULL
            /\ q.tradeId = NULL
        BY DEF Idle
      <3>2. req' = [req EXCEPT ![r] = q] /\ answer' = NULL
        BY <2>1 DEF Become
      <3> HIDE DEF q
      <3>3. QED  BY <3>1, <3>2 DEF Takes, CallOK, NoRow, RecordFree
    <2>2. CASE Refuse([Idle EXCEPT !.op = "CREATE"], "rejected")
      <3>1. answer'.op = "CREATE" /\ UNCHANGED req
        BY <2>2 DEF Refuse, Reply, Idle
      <3>2. QED  BY <3>1 DEF ReplayKept
    <2>3. QED  BY <1>1, <2>1, <2>2 DEF CreateTrade, Idle
  <1>2. ASSUME NEW t \in Trades, MarkDelivered(r, t) PROVE Goal
    <2> DEFINE mem == applyTransition(trades[t], "MARK_DELIVERED", clock)
               ok == InState(t, {"SHIPPED"})
    <2>1. ASSUME ok
          PROVE  /\ mem.state = "DELIVERED" /\ trades[t].state = "SHIPPED"
                 /\ Dated(mem)
      BY <1>0, <1>s, <2>1, ApplyType, ApplyDated, NextStates, StatesOf
    <2>2. Load(r, Call("MARK_DELIVERED", t), ok, "selectTrade", mem)
          /\ UNCHANGED <<tables, clock>>
      BY <1>2 DEF MarkDelivered
    <2> HIDE DEF mem, ok
    <2>3. ok => trades[t].state \in Source("MARK_DELIVERED")
                /\ mem.state = Target("MARK_DELIVERED") /\ Dated(mem)
      BY <2>1 DEF Source, Target
    <2>4. QED  BY <1>l, <2>2, <2>3 DEF Operation
  <1>3. ASSUME NEW t \in Trades, NEW verdict \in AuthVerdict,
               RecordVerdict(r, t, verdict)
        PROVE  Goal
    <2> DEFINE call == [Call("VERDICT", t) EXCEPT !.verdict = verdict]
               ok == InState(t, {"PENDING_AUTH"})
    <2>1. ok => trades[t].state = "PENDING_AUTH"
      BY <1>s
    <2>2. /\ call \in Request /\ call.op = "VERDICT" /\ call.tradeId = t
          /\ call.entry = NULL
      BY <1>c DEF Operation, Request
    <2>3. Load(r, call, ok, "findReport", trades[t]) /\ UNCHANGED <<tables, clock>>
      BY <1>3 DEF RecordVerdict
    <2> HIDE DEF call, ok
    <2>4. QED
      BY <2>1, <2>2, <2>3, LoadTakes DEF Source, SaveOnly, Operation
  <1>4. ASSUME NEW t \in Trades, NEW user \in Users, SubmitForAuth(r, t, user)
        PROVE  Goal
    <2> DEFINE mem == applyTransition(trades[t], "SUBMIT_FOR_AUTH", clock)
               ok == SoldBy(t, user) /\ InState(t, {"DRAFT"})
    <2>1. ASSUME ok PROVE mem.state = "PENDING_AUTH" /\ trades[t].state = "DRAFT"
      BY <1>0, <1>s, <2>1, ApplyType, NextStates, StatesOf
    <2>2. Load(r, Call("SUBMIT_FOR_AUTH", t), ok, "selectTrade", mem)
          /\ UNCHANGED <<tables, clock>>
      BY <1>4 DEF SubmitForAuth
    <2> HIDE DEF mem, ok
    <2>3. ok => trades[t].state \in Source("SUBMIT_FOR_AUTH")
                /\ mem.state = Target("SUBMIT_FOR_AUTH") /\ Dated(mem)
      BY <2>1 DEF Source, Target, Dated
    <2>4. QED  BY <1>l, <2>2, <2>3 DEF Operation
  <1>5. ASSUME NEW t \in Trades, NEW user \in Users, MarkShipped(r, t, user)
        PROVE  Goal
    <2> DEFINE new == applyTransition(trades[t], "MARK_SHIPPED", clock)
               mem == [new EXCEPT !.trackingNumber = "text"]
               ok == /\ SoldBy(t, user) /\ InState(t, {"ESCROW_FUNDED"})
                     /\ ~Passed(trades[t].shipmentSlaDeadline, clock)
    <2>1. ASSUME ok
          PROVE  mem.state = "SHIPPED" /\ trades[t].state = "ESCROW_FUNDED"
      <3>1. /\ new \in TradeRow /\ new.state = "SHIPPED"
            /\ trades[t].state = "ESCROW_FUNDED"
        BY <1>0, <1>s, <2>1, ApplyType, NextStates, StatesOf
      <3> HIDE DEF new
      <3>2. QED  BY <3>1 DEF TradeRow
    <2>2. Load(r, Call("MARK_SHIPPED", t), ok, "selectTrade", mem)
          /\ UNCHANGED <<tables, clock>>
      BY <1>5 DEF MarkShipped
    <2> HIDE DEF mem, ok
    <2>3. ok => trades[t].state \in Source("MARK_SHIPPED")
                /\ mem.state = Target("MARK_SHIPPED") /\ Dated(mem)
      BY <2>1 DEF Source, Target, Dated
    <2>4. QED  BY <1>l, <2>2, <2>3 DEF Operation
  <1>6. ASSUME NEW t \in Trades, NEW user \in Users, Dispute(r, t, user)
        PROVE  Goal
    <2> DEFINE new == applyTransition(trades[t], "DISPUTE", clock)
               mem == [new EXCEPT !.disputeReason = "text"]
               ok == /\ BoughtBy(t, user) /\ InState(t, {"DELIVERED"})
                     /\ ~Passed(trades[t].disputeWindowEnds, clock)
    <2>1. ASSUME ok
          PROVE  mem.state = "DISPUTED" /\ trades[t].state = "DELIVERED"
      <3>1. /\ new \in TradeRow /\ new.state = "DISPUTED"
            /\ trades[t].state = "DELIVERED"
        BY <1>0, <1>s, <2>1, ApplyType, NextStates, StatesOf
      <3> HIDE DEF new
      <3>2. QED  BY <3>1 DEF TradeRow
    <2>2. Load(r, Call("DISPUTE", t), ok, "selectTrade", mem)
          /\ UNCHANGED <<tables, clock>>
      BY <1>6 DEF Dispute
    <2> HIDE DEF mem, ok
    <2>3. ok => trades[t].state \in Source("DISPUTE")
                /\ mem.state = Target("DISPUTE") /\ Dated(mem)
      BY <2>1 DEF Source, Target, Dated
    <2>4. QED  BY <1>l, <2>2, <2>3 DEF Operation
  <1>7. ASSUME NEW t \in Trades, NEW user \in Users, Release(r, t, user)
        PROVE  Goal
    <2> DEFINE mem == applyTransition(trades[t], "RELEASE", clock)
               ok == /\ BoughtBy(t, user) /\ InState(t, {"DELIVERED", "DISPUTED"})
                     /\ trades[t].state = "DELIVERED"
                            => ~Passed(trades[t].disputeWindowEnds, clock)
                     /\ HasPassport(t)
    <2>1. ok => trades[t].state \in {"DELIVERED", "DISPUTED"}
      BY <1>s
    <2>2. Load(r, Call("RELEASE", t), ok, "findHold", mem)
          /\ UNCHANGED <<tables, clock>>
      BY <1>7 DEF Release
    <2> HIDE DEF mem, ok
    <2>3. ok => trades[t].state \in Source("RELEASE")
      BY <2>1 DEF Source
    <2>4. "RELEASE" \in Operation \ {"FUND_ESCROW"} /\ "RELEASE" \notin SaveOnly
      BY DEF Operation, SaveOnly
    <2>5. QED  BY <1>l, <2>2, <2>3, <2>4
  <1>8. ASSUME NEW t \in Trades, NEW user \in Users, NEW key \in Keys,
               NEW body \in Bodies, FundEscrow(r, t, user, key, body)
        PROVE  Goal
    <2> DEFINE call == [Idle EXCEPT !.op = "FUND_ESCROW", !.tradeId = t,
                                    !.user = user, !.key = key, !.body = body]
               q == [call EXCEPT !.pc = "loadTrade"]
    <2>1. CASE records[key] = NULL /\ Become(r, q)
      <3>1. /\ q.op = "FUND_ESCROW" /\ q.pc = "loadTrade" /\ q.entry = NULL
            /\ q.tradeId = t /\ q.key = key
        BY DEF Idle
      <3>2. req' = [req EXCEPT ![r] = q] /\ answer' = NULL /\ MayStart(r, t)
        BY <1>8, <2>1 DEF Become, FundEscrow
      <3> HIDE DEF q
      <3>3. QED
        BY <2>1, <3>1, <3>2 DEF Takes, CallOK, NoRow, RecordFree
    <2>2. ASSUME NEW status \in {"replay", "rejected"}, Refuse(call, status),
                 records[key] # NULL,
                 status = "replay" <=>
                    records[key] = [ tradeId |-> t,
                                     requestHash |-> computeRequestHash(t, body) ]
          PROVE  Goal
      <3>1. /\ answer'.tradeId = t /\ answer'.key = key /\ answer'.body = body
            /\ answer'.status = status /\ UNCHANGED req
        BY <2>2 DEF Refuse, Reply, Idle
      <3>2. UNCHANGED records
        BY <1>8 DEF FundEscrow, tables
      <3> HIDE DEF call
      <3>3. QED  BY <2>2, <3>1, <3>2 DEF ReplayKept
    <2> HIDE DEF q, Goal
    <2>3. QED  BY <1>8, <2>1, <2>2 DEF FundEscrow, q
  <1>9. QED
    BY <1>1, <1>2, <1>3, <1>4, <1>5, <1>6, <1>7, <1>8 DEF Arrive

\* r goes on with its call as q.
Proceeds(r, q) ==
    /\ req' = [req EXCEPT ![r] = q] /\ answer' = NULL
    /\ q.tradeId = req[r].tradeId /\ q.op = req[r].op /\ q.key = req[r].key
    /\ CallOK(q)

\* r ends and has changed nothing.
Stops(r) ==
    \E status \in {"rejected", "error", "lost"} :
        Finish(r, status) /\ UNCHANGED tables

\* r commits, and with it the row of its trade, t.
SavesRow(r, t) ==
    /\ t = req[r].tradeId /\ req[r].pc \in Writing
    /\ trades' = [trades EXCEPT ![t] = Updated(r)]
    /\ Finish(r, "ok")

Commits(r, t) ==
    \/ /\ req[r].pc = "insertTrade" /\ trades[t] = NULL /\ Finish(r, "ok")
       /\ trades' = [trades EXCEPT ![t] = req[r].mem]
       /\ UNCHANGED <<holds, reports, records, ledger>>
    \/ CommitSave(r) /\ SavesRow(r, t)
    \/ CommitVerdict(r) /\ SavesRow(r, t)
    \/ FundInsertRecord(r) /\ SavesRow(r, t) /\ records[req[r].key] = NULL
    \/ CommitRelease(r) /\ SavesRow(r, t)

\* What the entity of a call that saves says of the row.
LEMMA MemAhead ==
    ASSUME Inv, NEW r \in Requests, CallOK(req[r]),
           req[r].pc \in SavePc \cup Writing
    PROVE  /\ req[r].tradeId \in Trades /\ trades[req[r].tradeId] \in TradeRow
           /\ trades[req[r].tradeId] # NULL
           /\ req[r].mem \in TradeRow
           /\ trades[req[r].tradeId].state \in Source(req[r].op)
           /\ req[r].op \in SaveOnly \cup {"VERDICT", "FUND_ESCROW", "RELEASE"}
           /\ req[r].op \in SaveOnly => req[r].mem.state = Target(req[r].op)
           /\ req[r].op = "VERDICT" =>
                    req[r].mem.state = IF req[r].verdict = "PASS"
                                          THEN "AUTH_PASSED" ELSE "AUTH_FAILED"
           /\ req[r].op = "FUND_ESCROW" => req[r].mem.state = "ESCROW_FUNDED"
           /\ req[r].op = "RELEASE" => req[r].mem.state = "RELEASED"
           /\ req[r].mem.state # trades[req[r].tradeId].state
  <1>1. /\ RequestOK(req[r]) /\ req[r].op \in Operation
        /\ req[r].pc \notin NoRow
    BY AtPc DEF SavePc, Writing, NoRow
  <1>2. /\ req[r].tradeId \in Trades /\ trades[req[r].tradeId] \in TradeRow
        /\ trades[req[r].tradeId] # NULL /\ req[r].mem \in TradeRow
    BY <1>1 DEF RequestOK, NoRow, Inv, TypeOK
  <1>3. /\ trades[req[r].tradeId].state \in Source(req[r].op)
        /\ req[r].op \in SaveOnly => req[r].mem.state = Target(req[r].op)
    BY <1>1 DEF CallOK
  <1>4. req[r].op # "CREATE"
    BY <1>1 DEF RequestOK, CreateOK, NoRow
  <1>5. req[r].op \in SaveOnly \cup {"VERDICT", "FUND_ESCROW", "RELEASE"}
    BY <1>1, <1>4 DEF Operation, SaveOnly
  <1>6. /\ req[r].op = "VERDICT" =>
                req[r].mem.state = IF req[r].verdict = "PASS"
                                      THEN "AUTH_PASSED" ELSE "AUTH_FAILED"
        /\ req[r].op = "FUND_ESCROW" => req[r].mem.state = "ESCROW_FUNDED"
        /\ req[r].op = "RELEASE" => req[r].mem.state = "RELEASED"
    BY <1>1 DEF RequestOK, VerdictOK, FundOK, ReleaseOK, SavePc, Writing
  <1>7. req[r].mem.state # trades[req[r].tradeId].state
    BY <1>3, <1>5, <1>6 DEF Source, Target, SaveOnly
  <1>8. QED  BY <1>2, <1>3, <1>5, <1>6, <1>7

\* A call goes on with the same trade, operation and key.
LEMMA GoesOn ==
    ASSUME Inv, NEW r \in Requests, CallOK(req[r]), req[r].pc \notin NoRow,
           NEW q, Become(r, q), q.tradeId = req[r].tradeId, q.op = req[r].op,
           q.key = req[r].key, q.op \in SaveOnly => q.mem = req[r].mem,
           q.pc \in Changed => Dated(q.mem),
           q.pc \in Writing => "state" \in q.dirty /\ Whole(q)
    PROVE  Proceeds(r, q)
  BY DEF Become, Proceeds, CallOK

\* Before the verdict is in and until a release saves, no deadline is due.
LEMMA WaitingDated ==
    ASSUME Inv, NEW r \in Requests,
           \/ req[r].pc \in {"findReport", "insertReport", "selectHold", "updateHold"}
           \/ req[r].op = "RELEASE" /\ req[r].pc = "findHold"
    PROVE  Dated(req[r].mem)
  <1>1. RequestOK(req[r]) /\ req[r].op \in {"VERDICT", "RELEASE"}
    BY AtPc, OpAt
  <1>2. QED  BY <1>1 DEF RequestOK, VerdictOK, ReleaseOK, Dated

LEMMA ServeForms ==
    ASSUME Inv, NEW r \in Requests, CallOK(req[r]),
           Serve(r) \/ DeadlockVictim(r) \/ Fail(r)
    PROVE  \/ Stops(r)
           \/ UNCHANGED tables /\ \E q : Proceeds(r, q)
           \/ \E t \in Trades : Commits(r, t)
  <1> DEFINE Goal == \/ Stops(r)
                     \/ UNCHANGED tables /\ \E q : Proceeds(r, q)
                     \/ \E t \in Trades : Commits(r, t)
  <1>0. req[r] \in Request
    BY DEF Inv, TypeOK
  <1>1. ASSUME NEW t \in Trades, CreateInsert(r, t) PROVE Goal
    BY <1>1 DEF CreateInsert, Commits, Stops, tables
  <1>2. CASE SaveRefused(r) \/ DeadlockVictim(r) \/ Fail(r)
    BY <1>2 DEF SaveRefused, DeadlockVictim, Fail, Stops
  <1>3. CASE SelectTrade(r)
    <2> DEFINE d == Dirty(trades[req[r].tradeId], req[r].mem)
               q == [req[r] EXCEPT !.pc = "saveTrade", !.dirty = d]
    <2>1. req[r].pc = "selectTrade" /\ Become(r, q) /\ UNCHANGED tables
      BY <1>3 DEF SelectTrade
    <2>2. "state" \in d
      BY <2>1, MemAhead DEF Dirty, SavePc, MutableColumn
    <2>3. /\ q.tradeId = req[r].tradeId /\ q.op = req[r].op
          /\ q.key = req[r].key /\ q.mem = req[r].mem /\ q.dirty = d
      BY <1>0 DEF Request
    <2>4. Dated(q.mem)
      BY <2>1, <2>3 DEF CallOK, NoRow, Changed, SavePc
    <2>5. Whole(q)
      BY <2>3 DEF Whole, Dirty
    <2> HIDE DEF q, d
    <2>6. QED  BY <2>1, <2>2, <2>3, <2>4, <2>5, GoesOn DEF NoRow
  <1>4. ASSUME NEW pc, pc \notin Writing, Goto(r, pc), UNCHANGED tables,
               req[r].pc \notin NoRow, pc \in Changed => Dated(req[r].mem)
        PROVE  Goal
    <2> DEFINE q == [req[r] EXCEPT !.pc = pc]
    <2>1. /\ q.tradeId = req[r].tradeId /\ q.op = req[r].op /\ q.pc = pc
          /\ q.key = req[r].key /\ q.mem = req[r].mem
      BY <1>0 DEF Request
    <2>2. Become(r, q)
      BY <1>4 DEF Goto
    <2> HIDE DEF q
    <2>3. QED  BY <1>4, <2>1, <2>2, GoesOn
  <1>5. CASE VerdictFindReport(r) \/ ReleaseFindHold(r) \/ ReleaseSelectHold(r)
    <2>1. /\ Stops(r) \/ \E pc \in {"insertReport", "selectHold", "updateHold",
                                    "appendEntry"} : Goto(r, pc)
          /\ UNCHANGED tables
          /\ req[r].pc \notin NoRow
      BY <1>5
      DEF VerdictFindReport, ReleaseFindHold, ReleaseSelectHold, Stops, NoRow
    <2>2. Dated(req[r].mem)
      BY <1>5, WaitingDated
      DEF VerdictFindReport, ReleaseFindHold, ReleaseSelectHold
    <2>3. QED  BY <1>4, <2>1, <2>2 DEF Writing
  <1>6. CASE VerdictInsertReport(r)
    <2>1. UNCHANGED tables /\ req[r].pc = "insertReport"
      BY <1>6 DEF VerdictInsertReport
    <2>2. CASE Finish(r, "rejected")
      BY <2>1, <2>2 DEF Stops
    <2>3. CASE ~Finish(r, "rejected")
      <3> DEFINE action == IF req[r].verdict = "PASS" THEN "AUTH_PASS"
                                                     ELSE "AUTH_FAIL"
                 mem == applyTransition(req[r].mem, action, clock)
      <3>1. Become(r, [req[r] EXCEPT !.pc = "appendEntry",
                                     !.locks = {"report"}, !.mem = mem])
        BY <1>0, <1>6, <2>3 DEF VerdictInsertReport, Request
      <3>d. Dated(mem)
        <4>1. req[r].mem \in TradeRow /\ req[r].mem.state = "PENDING_AUTH"
          BY <2>1, AtPc, OpAt DEF RequestOK, VerdictOK
        <4>2. getNextState("PENDING_AUTH", action) \in TradeState /\ clock \in Nat
          BY NextStates, StatesOf DEF Inv, TypeOK
        <4> HIDE DEF action
        <4>3. QED  BY <4>1, <4>2, ApplyDated
      <3> HIDE DEF mem
      <3> DEFINE q == [req[r] EXCEPT !.pc = "appendEntry",
                                     !.locks = {"report"}, !.mem = mem]
      <3>2. /\ q.tradeId = req[r].tradeId /\ q.op = req[r].op
            /\ q.key = req[r].key /\ q.pc = "appendEntry" /\ q.mem = mem
        BY <1>0 DEF Request
      <3>3. req[r].op = "VERDICT"
        BY <2>1, AtPc, OpAt
      <3> HIDE DEF q
      <3>4. Become(r, q)
        BY <3>1 DEF q
      <3>5. QED
        BY <2>1, <3>d, <3>2, <3>3, <3>4, GoesOn DEF NoRow, SaveOnly, Writing
    <2>4. QED  BY <2>2, <2>3
  <1>7. CASE VerdictAppend(r) \/ ReleaseAppend(r)
    <2>1. PICK entry : Become(r, [req[r] EXCEPT !.pc = "selectTrade",
                                                !.entry = entry])
      BY <1>7 DEF VerdictAppend, ReleaseAppend, AppendEntry
    <2>2. UNCHANGED tables /\ req[r].pc = "appendEntry"
      BY <1>7 DEF VerdictAppend, ReleaseAppend, AppendEntry
    <2> DEFINE q == [req[r] EXCEPT !.pc = "selectTrade", !.entry = entry]
    <2>3. /\ q.tradeId = req[r].tradeId /\ q.op = req[r].op
          /\ q.key = req[r].key /\ q.pc = "selectTrade" /\ q.mem = req[r].mem
      BY <1>0 DEF Request
    <2>4. Become(r, q)
      BY <2>1
    <2>5. Dated(q.mem)
      BY <2>2, <2>3 DEF CallOK, NoRow, Changed
    <2> HIDE DEF q
    <2>6. QED  BY <2>2, <2>3, <2>4, <2>5, GoesOn DEF NoRow, Writing
  <1>8. CASE FundLoadTrade(r)
    <2> DEFINE trade == trades[req[r].tradeId]
               q == [req[r] EXCEPT !.pc = "findHold", !.mem = trade]
    <2>1. UNCHANGED tables /\ req[r].pc = "loadTrade"
      BY <1>8 DEF FundLoadTrade
    <2>2. CASE Finish(r, "rejected")
      BY <2>1, <2>2 DEF Stops
    <2>3. CASE Fundable(trade, req[r].user) /\ Become(r, q)
      <3>1. /\ q.tradeId = req[r].tradeId /\ q.op = req[r].op
            /\ q.key = req[r].key /\ q.pc = "findHold" /\ q.mem = trade
        BY <1>0 DEF Request
      <3>2. req[r].op = "FUND_ESCROW"
        BY <2>1, AtPc DEF RequestOK, CreateOK, SubmitOK, ProgressOK, VerdictOK,
           ReleaseOK, SavePc, Operation
      <3>3. trade.state = "AUTH_PASSED"
        BY <2>3 DEF Fundable
      <3>4. req' = [req EXCEPT ![r] = q] /\ answer' = NULL
        BY <2>3 DEF Become
      <3> HIDE DEF q
      <3>5. CallOK(q)
        BY <3>1, <3>2, <3>3 DEF CallOK, Source, SaveOnly, Writing, Changed, SavePc
      <3>6. QED  BY <2>1, <3>1, <3>4, <3>5 DEF Proceeds
    <2> HIDE DEF q, Goal
    <2>4. QED  BY <1>8, <2>2, <2>3 DEF FundLoadTrade, q
  <1>9. CASE FundFindHold(r)
    <2> DEFINE mem == applyTransition(req[r].mem, "FUND_ESCROW", clock)
               q == [req[r] EXCEPT !.pc = "selectTrade", !.mem = mem]
    <2>1. UNCHANGED tables /\ req[r].pc = "findHold" /\ req[r].op = "FUND_ESCROW"
      BY <1>9 DEF FundFindHold
    <2>2. CASE Finish(r, "rejected")
      BY <2>1, <2>2 DEF Stops
    <2>3. CASE Become(r, q)
      <3>1. /\ q.tradeId = req[r].tradeId /\ q.op = req[r].op
            /\ q.key = req[r].key /\ q.pc = "selectTrade" /\ q.mem = mem
        BY <1>0 DEF Request
      <3>2. Dated(mem)
        <4>1. req[r].mem \in TradeRow /\ req[r].mem.state = "AUTH_PASSED"
          BY <2>1, AtPc DEF RequestOK, FundOK
        <4>2. QED
          BY <4>1, ApplyDated, NextStates, StatesOf DEF Inv, TypeOK
      <3> HIDE DEF q, mem
      <3>3. QED  BY <2>1, <2>3, <3>1, <3>2, GoesOn DEF NoRow, SaveOnly, Writing
    <2>4. QED  BY <1>9, <2>2, <2>3 DEF FundFindHold
  <1>10. ASSUME NEW pc, NEW locks, UNCHANGED tables,
                Become(r, [req[r] EXCEPT !.pc = pc, !.locks = locks]),
                req[r].pc \notin NoRow, pc \in Writing => req[r].pc \in Writing,
                pc \in Changed => Dated(req[r].mem)
         PROVE  Goal
    <2> DEFINE q == [req[r] EXCEPT !.pc = pc, !.locks = locks]
    <2>1. /\ q.tradeId = req[r].tradeId /\ q.op = req[r].op /\ q.pc = pc
          /\ q.key = req[r].key /\ q.mem = req[r].mem /\ q.dirty = req[r].dirty
      BY <1>0 DEF Request
    <2>2. pc \in Writing => "state" \in q.dirty /\ Whole(q)
      BY <1>10, <2>1 DEF CallOK, Whole
    <2>3. Become(r, q)
      BY <1>10
    <2> HIDE DEF q
    <2>4. QED  BY <1>10, <2>1, <2>2, <2>3, GoesOn
  <1>11. CASE FundSaveTrade(r)
    <2>1. /\ Become(r, [req[r] EXCEPT !.pc = "insertHold", !.locks = {"trade"}])
          /\ UNCHANGED tables /\ req[r].pc = "saveTrade"
      BY <1>11 DEF FundSaveTrade, Saves
    <2>2. Dated(req[r].mem)
      BY <2>1 DEF CallOK, NoRow, Changed, Writing
    <2>3. QED  BY <1>10, <2>1, <2>2 DEF NoRow, Writing
  <1>12. CASE FundInsertHold(r)
    <2>1. UNCHANGED tables /\ req[r].pc = "insertHold"
      BY <1>12 DEF FundInsertHold
    <2>2. CASE Finish(r, "error")
      BY <2>1, <2>2 DEF Stops
    <2>3. CASE Become(r, [req[r] EXCEPT !.pc = "insertRecord",
                                        !.locks = {"trade", "hold"}])
      <3>1. Dated(req[r].mem)
        BY <2>1 DEF CallOK, NoRow, Changed, Writing
      <3>2. QED  BY <1>10, <2>1, <2>3, <3>1 DEF NoRow, Writing
    <2>4. QED  BY <1>12, <2>2, <2>3 DEF FundInsertHold
  <1>13. CASE ReleaseUpdateHold(r)
    <2>1. /\ Become(r, [req[r] EXCEPT !.pc = "appendEntry", !.locks = {"hold"}])
          /\ UNCHANGED tables /\ req[r].pc = "updateHold"
      BY <1>13 DEF ReleaseUpdateHold
    <2>2. Dated(req[r].mem)
      BY <2>1, WaitingDated
    <2>3. QED  BY <1>10, <2>1, <2>2 DEF NoRow, Writing
  <1>14. CASE CommitSave(r) \/ CommitVerdict(r) \/ CommitRelease(r)
    <2>1. PICK t \in Trades : t = req[r].tradeId
      BY <1>14, SavedRow DEF CommitSave, CommitVerdict, CommitRelease, Saves
    <2>2. SavesRow(r, t)
      BY <1>14, <2>1
      DEF CommitSave, CommitVerdict, CommitRelease, Saves, SavesRow, Writing
    <2>3. QED  BY <1>14, <2>2 DEF Commits
  <1>15. CASE FundInsertRecord(r)
    <2>1. CASE records[req[r].key] # NULL
      BY <1>15, <2>1 DEF FundInsertRecord, Stops, tables
    <2>2. CASE records[req[r].key] = NULL
      <3>1. PICK t \in Trades : t = req[r].tradeId
        BY <1>15, AtPc DEF FundInsertRecord, RequestOK
      <3>2. SavesRow(r, t)
        BY <1>15, <2>2, <3>1 DEF FundInsertRecord, SavesRow, Writing
      <3>3. QED  BY <1>15, <2>2, <3>2 DEF Commits
    <2>3. QED  BY <2>1, <2>2
  <1>16. QED
    BY <1>1, <1>2, <1>3, <1>5, <1>6, <1>7, <1>8, <1>9, <1>11, <1>12, <1>13,
       <1>14, <1>15 DEF Serve

-----------------------------------------------------------------------------
(* Clients who wait. *)

\* No two calls in flight are for one trade.
OneCallPerTrade ==
    \A r, s \in Requests :
        r # s /\ req[r].tradeId # NULL => req[s].tradeId # req[r].tradeId

SerialInv ==
    /\ OneCallPerTrade
    /\ \A r \in Requests : CallOK(req[r]) /\ RecordFree(req[r])
    /\ FundsMatchState
    /\ DeadlinesAreSet

LEMMA IdleCall ==
    CallOK(Idle) /\ RecordFree(Idle) /\ Idle.tradeId = NULL /\ Idle.entry = NULL
  BY StoreAssumption DEF CallOK, RecordFree, Idle, NoRow, Operation

LEMMA InitSerial == Init => SerialInv
  <1> SUFFICES ASSUME Init PROVE SerialInv
    OBVIOUS
  <1>1. \A t \in Trades : State(t) = NULL /\ holds[t] = NULL
    BY DEF Init, State
  <1>2. FundsMatchState
    BY <1>1, StoreAssumption, HoursAssumption, StatesOf
    DEF FundsMatchState, Funded, EscrowHoldStatus
  <1>3. QED
    BY <1>2, IdleCall DEF Init, SerialInv, OneCallPerTrade, DeadlinesAreSet

\* A step of one request that leaves the tables alone.
LEMMA QuietSerial ==
    ASSUME Inv, SerialInv, NEW r \in Requests, NEW q,
           req' = [req EXCEPT ![r] = q], UNCHANGED tables,
           \/ q.tradeId \in {NULL, req[r].tradeId}
           \/ \A s \in Requests : req[s].tradeId # q.tradeId,
           CallOK(q), RecordFree(q)
    PROVE  SerialInv'
  <1>1. \A s \in Requests : req'[s] = IF s = r THEN q ELSE req[s]
    BY DEF Inv, TypeOK
  <1>2. OneCallPerTrade'
    BY <1>1 DEF SerialInv, OneCallPerTrade
  <1>3. ASSUME NEW s \in Requests PROVE CallOK(req[s])' /\ RecordFree(req[s])'
    <2>1. CASE s = r
      <3>1. req'[s] = q
        BY <1>1, <2>1
      <3>2. QED  BY <3>1 DEF CallOK, Whole, RecordFree, tables
    <2>2. CASE s # r
      <3>1. req'[s] = req[s] /\ CallOK(req[s]) /\ RecordFree(req[s])
        BY <1>1, <2>2 DEF SerialInv
      <3>2. QED  BY <3>1 DEF CallOK, Whole, RecordFree, tables
    <2>3. QED  BY <2>1, <2>2
  <1>4. FundsMatchState'
    BY DEF SerialInv, FundsMatchState, State, tables
  <1>5. DeadlinesAreSet'
    BY DEF SerialInv, DeadlinesAreSet, tables
  <1>6. QED  BY <1>2, <1>3, <1>4, <1>5 DEF SerialInv

\* A request ends and writes the row of its own trade, or a new one.
LEMMA CommitSerial ==
    ASSUME Inv, SerialInv, NEW r \in Requests, NEW t \in Trades, NEW row,
           trades' = [trades EXCEPT ![t] = row],
           req' = [req EXCEPT ![r] = Idle],
           t = req[r].tradeId \/ trades[t] = NULL,
           \/ UNCHANGED records
           \/ \E k, record : /\ records' = [records EXCEPT ![k] = record]
                             /\ record.tradeId = req[r].tradeId
                             /\ req[r].tradeId # NULL,
           FundsMatchState', DeadlinesAreSet'
    PROVE  SerialInv'
  <1>1. \A s \in Requests : req'[s] = IF s = r THEN Idle ELSE req[s]
    BY DEF Inv, TypeOK
  <1>2. OneCallPerTrade'
    BY <1>1, IdleCall DEF SerialInv, OneCallPerTrade
  <1>3. ASSUME NEW s \in Requests PROVE CallOK(req[s])' /\ RecordFree(req[s])'
    <2>1. CASE s = r
      <3>1. req'[s] = Idle
        BY <1>1, <2>1
      <3>2. QED
        BY <3>1, StoreAssumption DEF CallOK, RecordFree, Idle, NoRow, Operation
    <2>2. CASE s # r
      <3>1. req'[s] = req[s] /\ CallOK(req[s]) /\ RecordFree(req[s])
        BY <1>1, <2>2 DEF SerialInv
      <3>2. req[s].pc \notin NoRow =>
                req[s].tradeId \in Trades /\ trades[req[s].tradeId] # NULL
        BY AtPc DEF NoRow, RequestOK
      <3>3. req[s].pc \notin NoRow => req[s].tradeId # t
        BY <2>2, <3>2, StoreAssumption DEF SerialInv, OneCallPerTrade
      <3>4. CallOK(req[s])'
        BY <3>1, <3>2, <3>3 DEF CallOK, Whole, Inv, TypeOK
      <3>5. req[s].op = "FUND_ESCROW" => req[s].key \in Keys
        BY DEF Inv, RequestOK, FundOK
      <3>6. RecordFree(req[s])'
        <4>1. CASE UNCHANGED records
          BY <3>1, <4>1 DEF RecordFree
        <4>2. ASSUME NEW k, NEW record,
                     records' = [records EXCEPT ![k] = record],
                     record.tradeId = req[r].tradeId, req[r].tradeId # NULL
              PROVE  RecordFree(req[s])'
          <5>1. req[s].tradeId # req[r].tradeId
            BY <2>2, <4>2 DEF SerialInv, OneCallPerTrade
          <5>2. QED
            BY <3>1, <3>5, <4>2, <5>1 DEF RecordFree, Inv, TypeOK
        <4>3. QED  BY <4>1, <4>2
      <3>7. QED  BY <3>4, <3>6
    <2>3. QED  BY <2>1, <2>2
  <1>4. QED  BY <1>2, <1>3 DEF SerialInv

\* r ends and has written one row, that of its own trade or a new one, and at
\* most a record of its own.
WritesOne(r, t) ==
    /\ \E row : trades' = [trades EXCEPT ![t] = row]
    /\ req' = [req EXCEPT ![r] = Idle]
    /\ t = req[r].tradeId \/ trades[t] = NULL
    /\ \/ UNCHANGED records
       \/ \E k, record : /\ records' = [records EXCEPT ![k] = record]
                         /\ record.tradeId = req[r].tradeId
                         /\ req[r].tradeId # NULL
    /\ \A u \in Trades \ {t} : State(u)' = State(u) /\ holds'[u] = holds[u]

\* The trade takes a step of the table and the hold follows.
MovesTo(t, from, to) == State(t) = from /\ State(t)' = to

Advances(t) ==
    \/ /\ UNCHANGED holds
       /\ \/ MovesTo(t, NULL, "DRAFT")
          \/ MovesTo(t, "DRAFT", "PENDING_AUTH")
          \/ MovesTo(t, "PENDING_AUTH", "AUTH_PASSED")
          \/ MovesTo(t, "PENDING_AUTH", "AUTH_FAILED")
          \/ MovesTo(t, "ESCROW_FUNDED", "SHIPPED")
          \/ MovesTo(t, "SHIPPED", "DELIVERED")
          \/ MovesTo(t, "DELIVERED", "DISPUTED")
    \/ holds'[t] = "HELD" /\ MovesTo(t, "AUTH_PASSED", "ESCROW_FUNDED")
    \/ /\ holds'[t] = "RELEASED"
       /\ \/ MovesTo(t, "DELIVERED", "RELEASED")
          \/ MovesTo(t, "DISPUTED", "RELEASED")

LEMMA SavesMove ==
    ASSUME Inv, SerialInv, NEW r \in Requests, NEW t \in Trades, SavesRow(r, t)
    PROVE  /\ State(t) = trades[t].state
           /\ State(t)' = req[r].mem.state
           /\ \A u \in Trades \ {t} : State(u)' = State(u)
           /\ t = req[r].tradeId /\ t # NULL
           /\ \E row : trades' = [trades EXCEPT ![t] = row]
           /\ req' = [req EXCEPT ![r] = Idle]
  <1>1. /\ t = req[r].tradeId /\ req[r].pc \in Writing /\ CallOK(req[r])
        /\ trades' = [trades EXCEPT ![t] = Updated(r)] /\ Finish(r, "ok")
    BY DEF SavesRow, SerialInv
  <1>2. /\ trades[t] \in TradeRow /\ trades[t] # NULL /\ req[r].mem \in TradeRow
    BY <1>1, MemAhead
  <1>3. "state" \in req[r].dirty
    BY <1>1 DEF CallOK, NoRow, Writing
  <1>4. Updated(r).state = req[r].mem.state /\ Updated(r) \in TradeRow
        /\ Updated(r) # NULL
    BY <1>1, <1>2, <1>3, MergeType, StoreAssumption DEF Updated
  <1>5. \A u \in Trades : trades'[u] = IF u = t THEN Updated(r) ELSE trades[u]
    BY <1>1 DEF Inv, TypeOK
  <1>6. State(t) = trades[t].state /\ State(t)' = req[r].mem.state
    BY <1>2, <1>4, <1>5 DEF State
  <1>7. \A u \in Trades \ {t} : State(u)' = State(u)
    BY <1>5 DEF State
  <1>8. QED
    BY <1>1, <1>6, <1>7, StoreAssumption DEF Finish

LEMMA CommitMoves ==
    ASSUME Inv, SerialInv, NEW r \in Requests, NEW t \in Trades, Commits(r, t)
    PROVE  WritesOne(r, t) /\ Advances(t)
  <1>1. CASE /\ req[r].pc = "insertTrade" /\ trades[t] = NULL /\ Finish(r, "ok")
             /\ trades' = [trades EXCEPT ![t] = req[r].mem]
             /\ UNCHANGED <<holds, reports, records, ledger>>
    <2>1. req[r].mem \in TradeRow /\ req[r].mem.state = "DRAFT"
      BY <1>1, AtPc, OpAt DEF RequestOK, CreateOK
    <2>2. req[r].mem # NULL
      BY <2>1, StoreAssumption
    <2>3. \A u \in Trades : trades'[u] = IF u = t THEN req[r].mem ELSE trades[u]
      BY <1>1 DEF Inv, TypeOK
    <2>4. MovesTo(t, NULL, "DRAFT") /\ \A u \in Trades \ {t} : State(u)' = State(u)
      BY <1>1, <2>1, <2>2, <2>3 DEF MovesTo, State
    <2>5. QED  BY <1>1, <2>4 DEF Finish, WritesOne, Advances
  <1>2. CASE CommitSave(r) /\ SavesRow(r, t)
    <2>1. /\ req[r].op \in SaveOnly /\ UNCHANGED <<holds, records>>
          /\ CallOK(req[r]) /\ req[r].pc \in Writing /\ t = req[r].tradeId
      BY <1>2 DEF CommitSave, SavesRow, SerialInv
    <2>2. /\ trades[t].state \in Source(req[r].op)
          /\ req[r].mem.state = Target(req[r].op)
      BY <2>1, MemAhead
    <2>3. State(t) = trades[t].state /\ State(t)' = req[r].mem.state
      BY <1>2, SavesMove
    <2>4. \/ MovesTo(t, "DRAFT", "PENDING_AUTH")
          \/ MovesTo(t, "ESCROW_FUNDED", "SHIPPED")
          \/ MovesTo(t, "SHIPPED", "DELIVERED")
          \/ MovesTo(t, "DELIVERED", "DISPUTED")
      BY <2>1, <2>2, <2>3 DEF MovesTo, Source, Target, SaveOnly
    <2>5. WritesOne(r, t)
      BY <1>2, <2>1, SavesMove DEF WritesOne
    <2>6. QED  BY <2>1, <2>4, <2>5 DEF Advances
  <1>3. CASE CommitVerdict(r) /\ SavesRow(r, t)
    <2>1. /\ req[r].op = "VERDICT" /\ UNCHANGED <<holds, records>>
          /\ CallOK(req[r]) /\ req[r].pc \in Writing /\ t = req[r].tradeId
      BY <1>3 DEF CommitVerdict, SavesRow, SerialInv
    <2>2. /\ trades[t].state \in Source("VERDICT")
          /\ req[r].mem.state \in {"AUTH_PASSED", "AUTH_FAILED"}
      BY <2>1, MemAhead
    <2>3. State(t) = trades[t].state /\ State(t)' = req[r].mem.state
      BY <1>3, SavesMove
    <2>4. \/ MovesTo(t, "PENDING_AUTH", "AUTH_PASSED")
          \/ MovesTo(t, "PENDING_AUTH", "AUTH_FAILED")
      BY <2>2, <2>3 DEF MovesTo, Source
    <2>5. WritesOne(r, t)
      BY <1>3, <2>1, SavesMove DEF WritesOne
    <2>6. QED  BY <2>1, <2>4, <2>5 DEF Advances
  <1>4. CASE /\ FundInsertRecord(r) /\ SavesRow(r, t)
             /\ records[req[r].key] = NULL
    <2> DEFINE hash == computeRequestHash(t, req[r].body)
               record == [tradeId |-> t, requestHash |-> hash]
    <2>0. /\ CallOK(req[r]) /\ req[r].pc \in Writing /\ t = req[r].tradeId
          /\ holds' = [holds EXCEPT ![t] = "HELD"]
          /\ records' = [records EXCEPT ![req[r].key] = record]
      BY <1>4 DEF FundInsertRecord, SavesRow, SerialInv
    <2>1. /\ CallOK(req[r]) /\ req[r].pc \in Writing /\ t = req[r].tradeId
          /\ holds' = [holds EXCEPT ![t] = "HELD"]
          /\ \E k, rec : /\ records' = [records EXCEPT ![k] = rec]
                         /\ rec.tradeId = t
      <3>1. record.tradeId = t
        OBVIOUS
      <3> HIDE DEF record
      <3>2. QED  BY <2>0, <3>1
    <2>2. req[r].op = "FUND_ESCROW"
      BY <1>4, AtPc, OpAt DEF FundInsertRecord
    <2>3. /\ trades[t].state \in Source("FUND_ESCROW")
          /\ req[r].mem.state = "ESCROW_FUNDED"
      BY <2>1, <2>2, MemAhead
    <2>4. State(t) = trades[t].state /\ State(t)' = req[r].mem.state
      BY <1>4, SavesMove
    <2>5. MovesTo(t, "AUTH_PASSED", "ESCROW_FUNDED")
      BY <2>3, <2>4 DEF MovesTo, Source
    <2>6. holds'[t] = "HELD" /\ \A u \in Trades \ {t} : holds'[u] = holds[u]
      BY <2>1 DEF Inv, TypeOK
    <2>7. WritesOne(r, t)
      BY <1>4, <2>1, <2>6, SavesMove DEF WritesOne
    <2>8. QED  BY <2>5, <2>6, <2>7 DEF Advances
  <1>5. CASE CommitRelease(r) /\ SavesRow(r, t)
    <2>1. /\ req[r].op = "RELEASE" /\ UNCHANGED records
          /\ holds' = [holds EXCEPT ![t] = "RELEASED"]
          /\ CallOK(req[r]) /\ req[r].pc \in Writing /\ t = req[r].tradeId
      BY <1>5 DEF CommitRelease, SavesRow, SerialInv
    <2>2. /\ trades[t].state \in Source("RELEASE")
          /\ req[r].mem.state = "RELEASED"
      BY <2>1, MemAhead
    <2>3. State(t) = trades[t].state /\ State(t)' = req[r].mem.state
      BY <1>5, SavesMove
    <2>4. \/ MovesTo(t, "DELIVERED", "RELEASED")
          \/ MovesTo(t, "DISPUTED", "RELEASED")
      BY <2>2, <2>3 DEF MovesTo, Source
    <2>5. holds'[t] = "RELEASED" /\ \A u \in Trades \ {t} : holds'[u] = holds[u]
      BY <2>1 DEF Inv, TypeOK
    <2>6. WritesOne(r, t)
      BY <1>5, <2>1, <2>5, SavesMove DEF WritesOne
    <2>7. QED  BY <2>4, <2>5, <2>6 DEF Advances
  <1>6. QED  BY <1>1, <1>2, <1>3, <1>4, <1>5 DEF Commits

LEMMA AdvanceFunds ==
    ASSUME Inv, SerialInv, NEW r \in Requests, NEW t \in Trades,
           WritesOne(r, t), Advances(t)
    PROVE  FundsMatchState'
  <1> SUFFICES ASSUME NEW u \in Trades
               PROVE  /\ holds'[u] = "HELD"
                            <=> State(u)' \in Funded \ {"RELEASED"}
                      /\ holds'[u] = "RELEASED" <=> State(u)' = "RELEASED"
    BY DEF FundsMatchState
  <1>1. /\ holds[u] = "HELD" <=> State(u) \in Funded \ {"RELEASED"}
        /\ holds[u] = "RELEASED" <=> State(u) = "RELEASED"
    BY DEF SerialInv, FundsMatchState
  <1>2. CASE u # t
    BY <1>1, <1>2 DEF WritesOne
  <1>3. CASE u = t
    <2>1. NULL \notin Funded
      BY HoursAssumption, StatesOf DEF Funded
    <2>2. QED
      BY <1>1, <1>3, <2>1 DEF Advances, MovesTo, Funded
  <1>4. QED  BY <1>2, <1>3

\* No update is lost: the save leaves in the table what the operation has made
\* of the entity, deadline included.
LEMMA SaveIsWhole ==
    ASSUME Inv, SerialInv, NEW r \in Requests, req[r].pc \in Writing
    PROVE  Dated(Updated(r))
  <1>1. CallOK(req[r])
    BY DEF SerialInv
  <1>2. Dated(req[r].mem) /\ Whole(req[r])
    BY <1>1 DEF CallOK, NoRow, Writing, Changed
  <1>3. trades[req[r].tradeId] \in TradeRow
    BY <1>1, MemAhead
  <1> DEFINE new == Updated(r)
  <1>4. /\ new.state = req[r].mem.state
        /\ new.escrowDeadline = req[r].mem.escrowDeadline
        /\ new.shipmentSlaDeadline = req[r].mem.shipmentSlaDeadline
        /\ new.disputeWindowEnds = req[r].mem.disputeWindowEnds
    BY <1>2, <1>3 DEF Updated, Merge, Whole, MutableColumn, TradeRow
  <1> HIDE DEF new
  <1>5. QED  BY <1>2, <1>4 DEF Dated, new

LEMMA CommitDates ==
    ASSUME Inv, SerialInv, NEW r \in Requests, NEW t \in Trades, Commits(r, t)
    PROVE  DeadlinesAreSet'
  <1>1. ASSUME NEW row, trades' = [trades EXCEPT ![t] = row], Dated(row)
        PROVE  DeadlinesAreSet'
    <2>1. \A u \in Trades : trades'[u] # NULL => Dated(trades'[u])
      BY <1>1 DEF SerialInv, DeadlinesAreSet, Inv, TypeOK
    <2>2. QED  BY <2>1 DEF DeadlinesAreSet, Dated
  <1>2. CASE req[r].pc = "insertTrade" /\ trades' = [trades EXCEPT ![t] = req[r].mem]
    <2>1. req[r].mem.state = "DRAFT"
      BY <1>2, AtPc, OpAt DEF RequestOK, CreateOK
    <2>2. QED  BY <1>1, <1>2, <2>1 DEF Dated
  <1>3. CASE SavesRow(r, t)
    BY <1>1, <1>3, SaveIsWhole DEF SavesRow
  <1>4. QED  BY <1>2, <1>3 DEF Commits

LEMMA NextSerial ==
    ASSUME ~Overlap, Inv, SerialInv, [Next]_vars
    PROVE  SerialInv'
  <1>1. CASE Tick \/ UNCHANGED vars
    <2>1. UNCHANGED <<tables, req>>
      BY <1>1 DEF Tick, tables, vars
    <2>2. QED
      BY <2>1 DEF SerialInv, OneCallPerTrade, CallOK, Whole, RecordFree,
         FundsMatchState, State, DeadlinesAreSet, tables
  <1>2. ASSUME NEW r \in Requests, Arrive(r) PROVE SerialInv'
    <2>1. UNCHANGED tables
      <3>1. UNCHANGED <<holds, reports, records, ledger>>
        BY <1>2, OthersCommitNothing
      <3>2. Inv'
        BY NextInv
      <3>3. UNCHANGED trades
        BY <1>2, <3>2, ArriveMoves DEF Moves
      <3>4. QED  BY <3>1, <3>3 DEF tables
    <2>2. CASE UNCHANGED req
      BY <2>1, <2>2 DEF SerialInv, OneCallPerTrade, CallOK, Whole, RecordFree,
         FundsMatchState, State, DeadlinesAreSet, tables
    <2>3. ASSUME NEW q, Takes(r, q) PROVE SerialInv'
      <3>1. q.tradeId # NULL => \A s \in Requests : req[s].tradeId # q.tradeId
        BY <2>3 DEF Takes, MayStart
      <3>2. QED  BY <2>1, <2>3, <3>1, QuietSerial DEF Takes
    <2>4. QED  BY <1>2, <2>2, <2>3, ArriveTakes
  <1>3. ASSUME NEW r \in Requests, Serve(r) \/ DeadlockVictim(r) \/ Fail(r)
        PROVE  SerialInv'
    <2>0. CallOK(req[r]) /\ RecordFree(req[r])
      BY DEF SerialInv
    <2>1. CASE Stops(r)
      BY <2>1, IdleCall, QuietSerial DEF Stops, Finish
    <2>2. ASSUME NEW q, Proceeds(r, q), UNCHANGED tables PROVE SerialInv'
      BY <2>0, <2>2, QuietSerial DEF Proceeds, RecordFree
    <2>3. ASSUME NEW t \in Trades, Commits(r, t) PROVE SerialInv'
      <3>1. WritesOne(r, t) /\ Advances(t)
        BY <2>3, CommitMoves
      <3>2. FundsMatchState'
        BY <3>1, AdvanceFunds
      <3>3. DeadlinesAreSet'
        BY <2>3, CommitDates
      <3>4. QED  BY <3>1, <3>2, <3>3, CommitSerial DEF WritesOne
    <2>4. QED  BY <1>3, <2>0, <2>1, <2>2, <2>3, ServeForms
  <1>4. QED  BY <1>1, <1>2, <1>3 DEF Next

LEMMA SerialInvariance == ~Overlap => (Spec => []SerialInv)
  <1> SUFFICES ASSUME ~Overlap PROVE Spec => []SerialInv
    OBVIOUS
  <1>1. Inv /\ SerialInv /\ [Next]_vars => SerialInv'
    BY NextSerial
  <1>2. QED  BY <1>1, InitSerial, Invariance, PTL DEF Spec

\* Clients who make one call on a trade at a time: the hold is HELD exactly
\* from ESCROW_FUNDED on until the release and RELEASED exactly in RELEASED,
\* crashes inside fundEscrow and release included.
THEOREM MoneyFollowsState ==
    ASSUME ~Overlap
    PROVE  Spec => []FundsMatchState
  <1>1. SerialInv => FundsMatchState
    BY DEF SerialInv
  <1>2. QED  BY <1>1, SerialInvariance, PTL

\* One call on a trade at a time: a trade in AUTH_PASSED, ESCROW_FUNDED or
\* DELIVERED has the deadline that its next step is held to.
THEOREM DeadlinesGoWithStates ==
    ASSUME ~Overlap
    PROVE  Spec => []DeadlinesAreSet
  <1>1. SerialInv => DeadlinesAreSet
    BY DEF SerialInv
  <1>2. QED  BY <1>1, SerialInvariance, PTL

-----------------------------------------------------------------------------
(* Steps of the table. *)

LEMMA Edges ==
    /\ "SUBMIT_FOR_AUTH" \in DOMAIN TRANSITIONS["DRAFT"]
    /\ "AUTH_PASS" \in DOMAIN TRANSITIONS["PENDING_AUTH"]
    /\ "AUTH_FAIL" \in DOMAIN TRANSITIONS["PENDING_AUTH"]
    /\ "FUND_ESCROW" \in DOMAIN TRANSITIONS["AUTH_PASSED"]
    /\ "MARK_SHIPPED" \in DOMAIN TRANSITIONS["ESCROW_FUNDED"]
    /\ "MARK_DELIVERED" \in DOMAIN TRANSITIONS["SHIPPED"]
    /\ "DISPUTE" \in DOMAIN TRANSITIONS["DELIVERED"]
    /\ "RELEASE" \in DOMAIN TRANSITIONS["DELIVERED"]
    /\ "RELEASE" \in DOMAIN TRANSITIONS["DISPUTED"]
  BY DEF TRANSITIONS

\* Every step is an arrival or a step of the server that changes nothing in the
\* tables, or a commit that takes one trade one step further.
LEMMA SerialSteps ==
    ASSUME Inv, SerialInv, Next
    PROVE  \/ UNCHANGED tables
           \/ \E r \in Requests, t \in Trades :
                Commits(r, t) /\ WritesOne(r, t) /\ Advances(t)
  <1>1. CASE Tick
    BY <1>1 DEF Tick
  <1>2. ASSUME NEW r \in Requests, Arrive(r) PROVE UNCHANGED tables
    <2>1. UNCHANGED <<holds, reports, records, ledger>>
      BY <1>2, OthersCommitNothing
    <2>2. Inv'
      BY NextInv
    <2>3. UNCHANGED trades
      BY <1>2, <2>2, ArriveMoves DEF Moves
    <2>4. QED  BY <2>1, <2>3 DEF tables
  <1>3. ASSUME NEW r \in Requests, Serve(r) \/ DeadlockVictim(r) \/ Fail(r)
        PROVE  UNCHANGED tables \/ \E t \in Trades : Commits(r, t)
    <2>1. CallOK(req[r])
      BY DEF SerialInv
    <2>2. QED  BY <1>3, <2>1, ServeForms DEF Stops
  <1>4. QED  BY <1>1, <1>2, <1>3, CommitMoves DEF Next

\* One call on a trade at a time: its state changes only along TRANSITIONS.
THEOREM TableIsKept ==
    ASSUME ~Overlap
    PROVE  Spec => LegalTransitions
  <1> DEFINE Legal == \A t \in Trades :
                  State(t) # NULL /\ State(t)' # State(t) =>
                    \E a \in DOMAIN TRANSITIONS[State(t)] :
                        State(t)' = getNextState(State(t), a)
  <1>1. ASSUME Inv, SerialInv, [Next]_vars PROVE Legal
    <2> SUFFICES ASSUME NEW t \in Trades, State(t) # NULL, State(t)' # State(t)
                 PROVE  \E a \in DOMAIN TRANSITIONS[State(t)] :
                            State(t)' = getNextState(State(t), a)
      OBVIOUS
    <2>1. ~UNCHANGED tables
      BY DEF State, tables
    <2>2. PICK r \in Requests, u \in Trades : WritesOne(r, u) /\ Advances(u)
      BY <1>1, <2>1, SerialSteps DEF vars, tables
    <2>3. u = t
      BY <2>2 DEF WritesOne
    <2>4. \/ State(t) = "DRAFT" /\ State(t)' = "PENDING_AUTH"
          \/ /\ State(t) = "PENDING_AUTH"
             /\ State(t)' \in {"AUTH_PASSED", "AUTH_FAILED"}
          \/ State(t) = "AUTH_PASSED" /\ State(t)' = "ESCROW_FUNDED"
          \/ State(t) = "ESCROW_FUNDED" /\ State(t)' = "SHIPPED"
          \/ State(t) = "SHIPPED" /\ State(t)' = "DELIVERED"
          \/ State(t) = "DELIVERED" /\ State(t)' \in {"DISPUTED", "RELEASED"}
          \/ State(t) = "DISPUTED" /\ State(t)' = "RELEASED"
      BY <2>2, <2>3 DEF Advances, MovesTo
    <2>5. QED  BY <2>4, Edges, NextStates
  <1>2. QED
    BY <1>1, SerialInvariance, Invariance, PTL DEF Spec, LegalTransitions

-----------------------------------------------------------------------------
(* The sale that the parties understand: one call on a trade at a time. *)

\* One trade takes a stage, all others stay in theirs.
LEMMA StageMoves ==
    ASSUME NEW t \in Trades, \A u \in Trades \ {t} : State(u)' = State(u)
    PROVE  Stages' = [Stages EXCEPT ![t] = State(t)']
  BY DEF Stages

\* A save never changes what is sold, and to whom.
LEMMA SaveKeepsSales ==
    ASSUME Inv, SerialInv, NEW r \in Requests, NEW t \in Trades, SavesRow(r, t)
    PROVE  Sales' = Sales
  <1>1. /\ t = req[r].tradeId /\ req[r].pc \in Writing /\ CallOK(req[r])
        /\ trades' = [trades EXCEPT ![t] = Updated(r)]
    BY DEF SavesRow, SerialInv
  <1>2. trades[t] \in TradeRow /\ trades[t] # NULL /\ req[r].mem \in TradeRow
    BY <1>1, MemAhead
  <1>3. /\ Updated(r).watchId = trades[t].watchId
        /\ Updated(r).buyerId = trades[t].buyerId
        /\ Updated(r) # NULL
    BY <1>1, <1>2, MergeType, MergeKeepsBuyer, StoreAssumption DEF Updated
  <1>4. \A u \in Trades : trades'[u] = IF u = t THEN Updated(r) ELSE trades[u]
    BY <1>1 DEF Inv, TypeOK
  <1>5. \A u \in Trades : Sale(u)' = Sale(u)
    BY <1>2, <1>3, <1>4 DEF Sale
  <1>6. QED  BY <1>5 DEF Sales

\* The unique index has no other trade under way on the watch, and createTrade
\* no seller for a buyer.
LEMMA InsertOpens ==
    ASSUME Inv, RowInv', Inv', NEW r \in Requests, NEW t \in Trades,
           req[r].pc = "insertTrade", trades[t] = NULL,
           trades' = [trades EXCEPT ![t] = req[r].mem],
           UNCHANGED <<holds, reports>>
    PROVE  Parties!Next
  <1> DEFINE row == req[r].mem
  <1>1. row \in TradeRow /\ row.state = "DRAFT" /\ row # NULL
    BY AtPc, OpAt, StoreAssumption DEF RequestOK, CreateOK
  <1>2. PICK w \in Watches, buyer \in Users : row.watchId = w /\ row.buyerId = buyer
    BY <1>1 DEF TradeRow
  <1>3. \A u \in Trades : trades'[u] = IF u = t THEN row ELSE trades[u]
    BY DEF Inv, TypeOK
  <1> HIDE DEF row
  <1>4. buyer # SellerOf[w]
    BY <1>1, <1>2, <1>3 DEF RowInv, NotOwn
  <1>5. \A x, y \in ActiveOn(w)' : x = y
    BY DEF RowInv
  <1>6. t \in ActiveOn(w)'
    BY <1>1, <1>2, <1>3 DEF ActiveOn, isActiveTradeState, TERMINAL_STATES
  <1>7. ASSUME NEW u \in Trades, Stages[u] \in Parties!UnderWay
        PROVE  Sales[u][1] # w
    <2>1. trades[u] # NULL /\ trades[u].state \in Parties!UnderWay
      BY <1>7, HoursAssumption, StatesOf DEF Stages, State, Parties!UnderWay
    <2>2. isActiveTradeState(trades[u].state)
      BY <2>1 DEF Parties!UnderWay, isActiveTradeState, TERMINAL_STATES
    <2>3. u # t /\ trades'[u] = trades[u]
      BY <1>3, <2>1
    <2>4. trades[u].watchId # w
      BY <1>5, <1>6, <2>1, <2>2, <2>3 DEF ActiveOn
    <2>5. QED  BY <2>1, <2>4 DEF Sales, Sale
  <1>8. /\ State(t) = NULL /\ State(t)' = "DRAFT"
        /\ \A u \in Trades \ {t} : State(u)' = State(u)
    BY <1>1, <1>3 DEF State
  <1>9. Stages[t] = NULL /\ Stages' = [Stages EXCEPT ![t] = "DRAFT"]
    BY <1>8, StageMoves DEF Stages
  <1>10. Sale(t)' = <<w, buyer>> /\ \A u \in Trades \ {t} : Sale(u)' = Sale(u)
    BY <1>1, <1>2, <1>3 DEF Sale
  <1>11. Sales' = [Sales EXCEPT ![t] = <<w, buyer>>]
    BY <1>10 DEF Sales
  <1>12. Parties!Open(t, w, buyer)
    BY <1>4, <1>7, <1>9, <1>11 DEF Parties!Open, Parties!Moves
  <1>13. QED  BY <1>12 DEF Parties!Next

\* What a call that saves does to the state of its trade.
LEMMA SaveStages ==
    ASSUME Inv, SerialInv, NEW r \in Requests, NEW t \in Trades, SavesRow(r, t)
    PROVE  /\ Stages[t] \in Source(req[r].op)
           /\ Stages' = [Stages EXCEPT ![t] = req[r].mem.state]
           /\ Sales' = Sales
  <1>1. CallOK(req[r]) /\ req[r].pc \in Writing /\ t = req[r].tradeId
    BY DEF SavesRow, SerialInv
  <1>2. trades[t].state \in Source(req[r].op)
    BY <1>1, MemAhead
  <1>3. /\ State(t) = trades[t].state /\ State(t)' = req[r].mem.state
        /\ \A u \in Trades \ {t} : State(u)' = State(u)
    BY SavesMove
  <1>4. QED  BY <1>2, <1>3, StageMoves, SaveKeepsSales DEF Stages

LEMMA SaveHandles ==
    ASSUME Inv, SerialInv, NEW r \in Requests, NEW t \in Trades,
           SavesRow(r, t), CommitSave(r)
    PROVE  Parties!Next
  <1>1. /\ CallOK(req[r]) /\ req[r].pc \in Writing /\ req[r].op \in SaveOnly
        /\ UNCHANGED <<holds, reports>>
    BY DEF SavesRow, SerialInv, CommitSave
  <1>2. req[r].mem.state = Target(req[r].op)
    BY <1>1, MemAhead
  <1>3. /\ Stages[t] \in Source(req[r].op) /\ Sales' = Sales
        /\ Stages' = [Stages EXCEPT ![t] = Target(req[r].op)]
    BY <1>2, SaveStages
  <1>4. \/ Parties!Moves(t, "DRAFT", "PENDING_AUTH")
        \/ Parties!Moves(t, "ESCROW_FUNDED", "SHIPPED")
        \/ Parties!Moves(t, "SHIPPED", "DELIVERED")
        \/ Parties!Moves(t, "DELIVERED", "DISPUTED")
    BY <1>1, <1>3 DEF Parties!Moves, Source, Target, SaveOnly
  <1>5. Parties!Handle(t)
    BY <1>1, <1>3, <1>4 DEF Parties!Handle
  <1>6. QED  BY <1>5 DEF Parties!Next

LEMMA VerdictJudgesSale ==
    ASSUME Inv, SerialInv, NEW r \in Requests, NEW t \in Trades,
           SavesRow(r, t), CommitVerdict(r)
    PROVE  Parties!Next
  <1>1. /\ CallOK(req[r]) /\ req[r].pc \in Writing /\ req[r].op = "VERDICT"
        /\ t = req[r].tradeId /\ req[r].pc = "saveTrade"
        /\ UNCHANGED holds
        /\ reports' = [reports EXCEPT ![t] = req[r].verdict]
    BY DEF SavesRow, SerialInv, CommitVerdict, Saves
  <1>2. req[r].mem.state = IF req[r].verdict = "PASS" THEN "AUTH_PASSED"
                                                      ELSE "AUTH_FAILED"
    BY <1>1, MemAhead
  <1>3. reports[t] = NULL /\ req[r].verdict \in AuthVerdict
    BY <1>1, AtPc DEF RequestOK, VerdictOK
  <1>4. /\ Stages[t] = "PENDING_AUTH" /\ Sales' = Sales
        /\ Stages' = [Stages EXCEPT ![t] =
               IF req[r].verdict = "PASS" THEN "AUTH_PASSED" ELSE "AUTH_FAILED"]
    BY <1>1, <1>2, SaveStages DEF Source
  <1>5. Parties!Judge(t, req[r].verdict)
    BY <1>1, <1>3, <1>4 DEF Parties!Judge, Parties!Moves
  <1>6. QED  BY <1>3, <1>5 DEF Parties!Next, AuthVerdict

LEMMA FundingPaysSale ==
    ASSUME Inv, SerialInv, NEW r \in Requests, NEW t \in Trades,
           SavesRow(r, t), FundInsertRecord(r), records[req[r].key] = NULL
    PROVE  Parties!Next
  <1>1. /\ CallOK(req[r]) /\ req[r].pc \in Writing /\ t = req[r].tradeId
        /\ req[r].pc = "insertRecord" /\ UNCHANGED reports
        /\ holds' = [holds EXCEPT ![t] = "HELD"]
    BY DEF SavesRow, SerialInv, FundInsertRecord
  <1>2. req[r].op = "FUND_ESCROW"
    BY <1>1, AtPc, OpAt
  <1>3. req[r].mem.state = "ESCROW_FUNDED"
    BY <1>1, <1>2, MemAhead
  <1>4. holds[t] = NULL
    BY <1>1, <1>2, AtPc DEF RequestOK, FundOK
  <1>5. /\ Stages[t] = "AUTH_PASSED" /\ Sales' = Sales
        /\ Stages' = [Stages EXCEPT ![t] = "ESCROW_FUNDED"]
    BY <1>2, <1>3, SaveStages DEF Source
  <1>6. Parties!PayIn(t)
    BY <1>1, <1>4, <1>5 DEF Parties!PayIn, Parties!Moves
  <1>7. QED  BY <1>6 DEF Parties!Next

LEMMA ReleasePaysSale ==
    ASSUME Inv, SerialInv, NEW r \in Requests, NEW t \in Trades,
           SavesRow(r, t), CommitRelease(r)
    PROVE  Parties!Next
  <1>1. /\ CallOK(req[r]) /\ req[r].pc \in Writing /\ req[r].op = "RELEASE"
        /\ t = req[r].tradeId /\ UNCHANGED reports
        /\ holds' = [holds EXCEPT ![t] = "RELEASED"]
    BY DEF SavesRow, SerialInv, CommitRelease
  <1>2. req[r].mem.state = "RELEASED"
    BY <1>1, MemAhead
  <1>3. /\ Stages[t] \in {"DELIVERED", "DISPUTED"} /\ Sales' = Sales
        /\ Stages' = [Stages EXCEPT ![t] = "RELEASED"]
    BY <1>1, <1>2, SaveStages DEF Source
  <1>4. holds[t] = "HELD"
    BY <1>3 DEF SerialInv, FundsMatchState, Funded, Stages
  <1>5. \/ Parties!Moves(t, "DELIVERED", "RELEASED")
        \/ Parties!Moves(t, "DISPUTED", "RELEASED")
    BY <1>3 DEF Parties!Moves
  <1>6. Parties!PayOut(t)
    BY <1>1, <1>3, <1>4, <1>5 DEF Parties!PayOut
  <1>7. QED  BY <1>6 DEF Parties!Next

LEMMA StepSells ==
    ASSUME Inv, RowInv, SerialInv, [Next]_vars
    PROVE  [Parties!Next]_(Parties!vars)
  <1>0. Inv' /\ RowInv'
    BY NextInv, NextRow
  <1>1. CASE UNCHANGED tables
    <2>1. UNCHANGED <<trades, reports, holds>>
      BY <1>1 DEF tables
    <2>2. QED  BY <2>1 DEF Parties!vars, Sales, Sale, Stages, State
  <1>2. ASSUME NEW r \in Requests, NEW t \in Trades, Commits(r, t)
        PROVE  Parties!Next
    BY <1>0, <1>2, InsertOpens, SaveHandles, VerdictJudgesSale, FundingPaysSale,
       ReleasePaysSale DEF Commits
  <1>3. QED  BY <1>1, <1>2, SerialSteps DEF vars, tables

LEMMA InitSells == Init => Parties!Init
  <1> SUFFICES ASSUME Init PROVE Parties!Init
    OBVIOUS
  <1>1. \A t \in Trades : Sale(t) = NULL /\ State(t) = NULL
    BY DEF Init, Sale, State
  <1>2. QED  BY <1>1 DEF Init, Parties!Init, Sales, Stages

\* For clients who wait, every call takes effect at one instant and on one
\* trade, with its verdict or its money, or not at all: the services, with their
\* unlocked loads, partial updates and crashes between two statements, implement
\* the sale that the parties understand.
THEOREM LifecycleImplemented ==
    ASSUME ~Overlap
    PROVE  Spec => ImplementsLifecycle
  <1>1. Inv /\ RowInv /\ SerialInv /\ [Next]_vars
            => [Parties!Next]_(Parties!vars)
    BY StepSells
  <1>2. QED
    BY <1>1, InitSells, Invariance, RowInvariance, SerialInvariance, PTL
    DEF Spec, ImplementsLifecycle, Parties!Spec

-----------------------------------------------------------------------------
(* What the documents say and concurrent calls refute. *)

\* A step of clients who wait adds no second transfer of a trade: whoever
\* commits a release finds its trade not released yet.
LEMMA TransferStep ==
    ASSUME Inv, SerialInv, TransferredOnce, [Next]_vars
    PROVE  TransferredOnce'
  <1>1. CASE UNCHANGED ledger
    BY <1>1 DEF TransferredOnce
  <1>2. ASSUME NEW r \in Requests, CommitVerdict(r) PROVE TransferredOnce'
    <2>1. req[r].entry.type # "TRANSFERRED" /\ ledger' = ledger \cup {req[r].entry}
      BY <1>2, AtPc
      DEF CommitVerdict, Saves, RequestOK, VerdictOK, EntryOK, SavePc
    <2>2. QED  BY <2>1 DEF TransferredOnce
  <1>3. ASSUME NEW r \in Requests, CommitRelease(r) PROVE TransferredOnce'
    <2>1. PICK t \in Trades : t = req[r].tradeId
      BY <1>3, SavedRow DEF CommitRelease, Saves
    <2>2. req[r].entry.tradeId = t /\ ledger' = ledger \cup {req[r].entry}
      BY <1>3, <2>1, AtPc
      DEF CommitRelease, Saves, RequestOK, ReleaseOK, EntryOK, SavePc
    <2>3. State(t) \in {"DELIVERED", "DISPUTED"}
      <3>1. CallOK(req[r]) /\ req[r].op = "RELEASE" /\ req[r].pc = "saveTrade"
        BY <1>3 DEF SerialInv, CommitRelease, Saves
      <3>2. trades[t].state \in Source("RELEASE")
        BY <2>1, <3>1 DEF CallOK, NoRow
      <3>3. trades[t] # NULL
        BY <1>3, <2>1, SavedRow, StoreAssumption DEF CommitRelease, Saves
      <3>4. QED  BY <3>2, <3>3 DEF Source, State
    <2>4. holds[t] = "HELD"
      BY <2>3 DEF SerialInv, FundsMatchState, Funded
    <2>5. \A e \in ledger : e.type = "TRANSFERRED" => e.tradeId # t
      BY <2>4 DEF Inv, TablesOK, PayoutMatchesTransfer
    <2>6. QED  BY <2>2, <2>5 DEF TransferredOnce
  <1>4. ASSUME NEW r \in Requests,
               Arrive(r) \/ Serve(r) \/ DeadlockVictim(r) \/ Fail(r)
        PROVE  TransferredOnce'
    BY <1>1, <1>2, <1>3, <1>4, ServeCommits, OthersCommitNothing
    DEF FundInsertRecord
  <1>5. CASE Tick \/ UNCHANGED vars
    BY <1>1, <1>5 DEF Tick, tables, vars
  <1>6. QED  BY <1>4, <1>5 DEF Next

\* docs/domain/state-machine.md, "DISPUTED | Buyer disputed; funds held",
\* "PENDING_AUTH | Queued for authentication; no funds held" and "Release |
\* DELIVERED -> RELEASED (or DISPUTED -> RELEASED) | ... | TRANSFERRED": all
\* true of clients who make one call on a trade at a time, so that it takes an
\* overlap of calls to refute them.
THEOREM DocumentsHold ==
    ASSUME ~Overlap
    PROVE  Spec => [](/\ DisputedKeepsFunds
                      /\ PendingAuthHoldsNoFunds
                      /\ TransferredOnce)
  <1>1. ASSUME TypeOK, NothingIsUndone, FundsMatchState
        PROVE  DisputedKeepsFunds /\ PendingAuthHoldsNoFunds
    BY <1>1 DEF TypeOK, NothingIsUndone, FundsMatchState, DisputedKeepsFunds,
       PendingAuthHoldsNoFunds, Funded, EscrowHoldStatus
  <1>2. Init => TransferredOnce
    BY DEF Init, TransferredOnce
  <1>3. Inv /\ SerialInv /\ TransferredOnce /\ [Next]_vars => TransferredOnce'
    BY TransferStep
  <1>4. QED
    BY <1>1, <1>2, <1>3, Invariance, SerialInvariance, MoneyFollowsState,
       NothingIsEverUndone, TypeCorrect, PTL DEF Spec

-----------------------------------------------------------------------------
(* Retries. *)

\* The answer of a funding that ends without a commit: no record is its own.
LEMMA StopReplays ==
    ASSUME Inv, NEW r \in Requests, RecordFree(req[r]), InFlight(r),
           UNCHANGED records,
           NEW status \in {"rejected", "error", "lost"}, Finish(r, status)
    PROVE  ReplayKept
  <1> DEFINE t == req[r].tradeId
             hash == computeRequestHash(t, req[r].body)
             same == [tradeId |-> t, requestHash |-> hash]
  <1>1. /\ answer'.op = req[r].op /\ answer'.tradeId = t
        /\ answer'.key = req[r].key /\ answer'.body = req[r].body
        /\ answer'.status = status
    BY DEF Finish, Reply
  <1>2. CASE req[r].op = "FUND_ESCROW"
    <2>1. t \in Trades /\ req[r].body \in Body
      BY <1>2, AtPc DEF InFlight, RequestOK, FundOK
    <2>2. same \in IdempotencyRecord
      BY <2>1, HashType DEF IdempotencyRecord
    <2>3. same # NULL /\ same.tradeId = t
      BY <2>2, StoreAssumption
    <2> HIDE DEF same
    <2>4. records[req[r].key] # same
      BY <1>2, <2>3 DEF RecordFree
    <2>5. records'[answer'.key] # [ tradeId |-> answer'.tradeId,
            requestHash |-> computeRequestHash(answer'.tradeId, answer'.body) ]
      BY <1>1, <2>4 DEF same
    <2>6. QED  BY <1>1, <2>5 DEF ReplayKept
  <1>3. CASE req[r].op # "FUND_ESCROW"
    BY <1>1, <1>3 DEF ReplayKept
  <1>4. QED  BY <1>2, <1>3

LEMMA CommitReplays ==
    ASSUME Inv, NEW r \in Requests, NEW t \in Trades, Commits(r, t)
    PROVE  ReplayKept
  <1>1. /\ answer'.op = req[r].op /\ answer'.tradeId = req[r].tradeId
        /\ answer'.key = req[r].key /\ answer'.body = req[r].body
        /\ answer'.status = "ok"
    BY DEF Commits, SavesRow, Finish, Reply
  <1>2. CASE req[r].op # "FUND_ESCROW"
    BY <1>1, <1>2 DEF ReplayKept
  <1>3. CASE req[r].op = "FUND_ESCROW"
    <2>1. /\ FundInsertRecord(r) /\ records[req[r].key] = NULL
          /\ t = req[r].tradeId
      <3>1. req[r].pc # "insertTrade"
        BY <1>3, AtPc, OpAt
      <3>2. QED
        BY <1>3, <3>1 DEF Commits, CommitSave, CommitVerdict, CommitRelease,
           SaveOnly, SavesRow
    <2>2. req[r].key \in Keys
      BY <1>3, <2>1, AtPc DEF FundInsertRecord, RequestOK, FundOK
    <2>3. records'[req[r].key] = [ tradeId |-> t,
              requestHash |-> computeRequestHash(t, req[r].body) ]
      BY <2>1, <2>2 DEF FundInsertRecord, Inv, TypeOK
    <2>4. QED  BY <1>1, <2>1, <2>3 DEF ReplayKept
  <1>4. QED  BY <1>2, <1>3

LEMMA ServeInFlight ==
    ASSUME Inv, NEW r \in Requests, Serve(r) \/ DeadlockVictim(r) \/ Fail(r)
    PROVE  InFlight(r)
  <1>1. CASE DeadlockVictim(r)
    <2>1. PICK s \in Requests : WaitsFor(r, s)
      BY <1>1 DEF DeadlockVictim
    <2>2. Needs(r) # {} \/ req[r].pc \in {"insertTrade", "saveTrade"}
      BY <2>1 DEF WaitsFor, IndexBusy
    <2>3. QED  BY <2>2 DEF Needs, InFlight
  <1>2. CASE Serve(r) \/ Fail(r)
    <2>1. ASSUME req[r].pc = "idle" PROVE ~Serve(r)
      <3>1. req[r].op = NULL
        BY <2>1 DEF Inv, RequestOK
      <3>2. QED
        BY <2>1, <3>1, StoreAssumption
        DEF Serve, CreateInsert, SelectTrade, SaveRefused, CommitSave,
            VerdictFindReport, VerdictInsertReport, VerdictAppend, AppendEntry,
            CommitVerdict, FundLoadTrade, FundFindHold, FundSaveTrade,
            FundInsertHold, FundInsertRecord, ReleaseFindHold, ReleaseSelectHold,
            ReleaseUpdateHold, ReleaseAppend, CommitRelease, Saves
    <2>2. QED  BY <1>2, <2>1 DEF Fail, InFlight
  <1>3. QED  BY <1>1, <1>2

LEMMA StepReplays ==
    ASSUME Inv, SerialInv, Next
    PROVE  ReplayKept
  <1>1. CASE Tick
    BY <1>1 DEF Tick, ReplayKept
  <1>2. ASSUME NEW r \in Requests, Arrive(r) PROVE ReplayKept
    <2>1. ASSUME NEW q, Takes(r, q) PROVE ReplayKept
      BY <2>1 DEF Takes, ReplayKept
    <2>2. QED  BY <1>2, <2>1, ArriveTakes
  <1>3. ASSUME NEW r \in Requests, Serve(r) \/ DeadlockVictim(r) \/ Fail(r)
        PROVE  ReplayKept
    <2>0. CallOK(req[r]) /\ RecordFree(req[r])
      BY DEF SerialInv
    <2>1. CASE Stops(r)
      <3>1. InFlight(r)
        BY <1>3, ServeInFlight
      <3>2. QED  BY <2>0, <2>1, <3>1, StopReplays DEF Stops, tables
    <2>2. ASSUME NEW q, Proceeds(r, q) PROVE ReplayKept
      BY <2>2 DEF Proceeds, ReplayKept
    <2>3. QED  BY <1>3, <2>0, <2>1, <2>2, ServeForms, CommitReplays
  <1>4. QED  BY <1>1, <1>2, <1>3 DEF Next

\* One call on a trade at a time: once a funding is on record, the same key,
\* trade and body are answered with it, and the key with anything else is
\* refused, whatever other trades the key is used for meanwhile.
THEOREM RetriesReplay ==
    ASSUME ~Overlap
    PROVE  Spec => ReplayPromise
  <1>1. Inv /\ SerialInv /\ [Next]_vars => [ReplayKept]_vars
    BY StepReplays
  <1>2. [][ReplayKept]_vars <=> ReplayPromise
    BY DEF ReplayKept, ReplayPromise
  <1>3. QED
    BY <1>1, <1>2, SerialInvariance, Invariance, PTL DEF Spec
-----------------------------------------------------------------------------
(* Links: however calls overlap. *)

Written == ledger \cup Uncommitted

OnCommitted(e) ==
    \/ e.prevHash = 0
    \/ \E f \in EntriesOf(e.passport, ledger) :
          f.createdAt = e.prevHash /\ f.createdAt < e.createdAt

\* Every entry, committed or in flight, is linked to a committed one, and
\* their time stamps have a bound, so that there always is a newest one.
LinkInv ==
    \E B \in Nat : \A e \in Written : e.createdAt <= B /\ OnCommitted(e)

LEMMA LedgerCommits ==
    ASSUME Inv, NEW r \in Requests, CommitVerdict(r) \/ CommitRelease(r)
    PROVE  /\ req[r].op \in {"VERDICT", "RELEASE"}
           /\ req[r].entry \in LedgerEntry /\ req[r].entry # NULL
           /\ ledger' = ledger \cup {req[r].entry}
           /\ req' = [req EXCEPT ![r] = Idle]
  <1>1. req[r].pc = "saveTrade" /\ req[r].op \in {"VERDICT", "RELEASE"}
    BY DEF CommitVerdict, CommitRelease, Saves
  <1>2. req[r].entry \in LedgerEntry
    BY <1>1, AtPc DEF RequestOK, VerdictOK, ReleaseOK, EntryOK, SavePc
  <1>3. QED
    BY <1>1, <1>2, StoreAssumption DEF CommitVerdict, CommitRelease, Finish

LEMMA WrittenType ==
    ASSUME Inv
    PROVE  Written \subseteq LedgerEntry
  BY DEF Inv, TypeOK, Written, Uncommitted, Request

\* A step commits nothing but entries in flight, and writes at most one entry.
LEMMA StepWrites ==
    ASSUME Inv, [Next]_vars
    PROVE  /\ ledger \subseteq ledger' /\ ledger' \subseteq Written
           /\ \/ Written' \subseteq Written
              \/ \E p \in Watches, type \in LedgerEntryType, t \in Trades :
                    Written' \subseteq Written \cup {NewEntry(p, type, t)}
  <1>1. ledger \subseteq ledger'
    BY StepBooks DEF BooksGrow, vars
  <1>2. CASE Tick \/ UNCHANGED vars
    BY <1>2 DEF Tick, tables, vars, Written, Uncommitted
  <1>3. ASSUME NEW r \in Requests, Arrive(r)
        PROVE  ledger' = ledger /\ Written' \subseteq Written
    <2>1. ledger' = ledger
      BY <1>3, OthersCommitNothing
    <2>2. ASSUME NEW q, Takes(r, q) PROVE Uncommitted' \subseteq Uncommitted
      <3>1. \A s \in Requests : req'[s] = IF s = r THEN q ELSE req[s]
        BY <2>2 DEF Takes, Inv, TypeOK
      <3>2. QED  BY <2>2, <3>1 DEF Takes, Uncommitted
    <2>3. CASE UNCHANGED req
      BY <2>1, <2>3 DEF Written, Uncommitted
    <2>4. QED  BY <1>3, <2>1, <2>2, <2>3, ArriveTakes DEF Written
  <1>4. ASSUME NEW r \in Requests, Serve(r) \/ DeadlockVictim(r) \/ Fail(r)
        PROVE  /\ ledger' \subseteq Written
               /\ \/ Written' \subseteq Written
                  \/ \E p \in Watches, type \in LedgerEntryType, t \in Trades :
                        Written' \subseteq Written \cup {NewEntry(p, type, t)}
    <2>1. CASE Appends(r)
      <3>1. PICK type \in LedgerEntryType :
                req'[r].entry = NewEntry(req[r].mem.watchId, type, req[r].tradeId)
        BY <2>1 DEF Appends
      <3> DEFINE e == NewEntry(req[r].mem.watchId, type, req[r].tradeId)
      <3>2. /\ req'[r].entry = e /\ ledger' = ledger
            /\ \A s \in Requests \ {r} : req'[s] = req[s]
        BY <2>1, <3>1 DEF Appends, tables
      <3>3. \E p \in Watches, ty \in LedgerEntryType, t \in Trades :
                NewEntry(p, ty, t) = e
        BY <2>1 DEF Appends
      <3> HIDE DEF e
      <3>4. Written' \subseteq Written \cup {e}
        BY <3>2 DEF Written, Uncommitted
      <3>5. QED  BY <3>2, <3>3, <3>4 DEF Written
    <2>2. CASE /\ req'[r].entry \in {req[r].entry, NULL}
               /\ \A s \in Requests \ {r} : req'[s] = req[s]
      <3>1. Uncommitted' \subseteq Uncommitted
        BY <2>2 DEF Uncommitted
      <3>2. ledger' \subseteq Written
        <4>1. CASE ledger' = ledger
          BY <4>1 DEF Written
        <4>2. CASE CommitVerdict(r) \/ CommitRelease(r)
          BY <4>2, LedgerCommits DEF Written, Uncommitted
        <4>3. QED
          BY <1>4, <4>1, <4>2, ServeCommits, OthersCommitNothing
          DEF FundInsertRecord
      <3>3. QED  BY <3>1, <3>2 DEF Written
    <2>3. QED  BY <1>4, <2>1, <2>2, ServeEntry
  <1>5. QED  BY <1>1, <1>2, <1>3, <1>4 DEF Next, Written

\* The entry that appendEntry builds is later than all of its passport, and
\* linked to the newest committed one.
LEMMA NewEntryLinks ==
    ASSUME Inv, NEW B \in Nat, \A e \in Written : e.createdAt <= B,
           NEW p \in Watches, NEW type \in LedgerEntryType, NEW t \in Trades
    PROVE  LET e == NewEntry(p, type, t) IN
           /\ e.createdAt \in Nat /\ e.createdAt <= B + 1 /\ e.passport = p
           /\ e.prevHash = Newest(EntriesOf(p, ledger))
           /\ \A f \in EntriesOf(p, Written) : f.createdAt < e.createdAt
           /\ OnCommitted(e)
  <1> DEFINE all == EntriesOf(p, Written)
             old == EntriesOf(p, ledger)
             e == NewEntry(p, type, t)
  <1>1. all \subseteq LedgerEntry /\ old \subseteq all
    BY WrittenType DEF EntriesOf, Written
  <1>2. /\ \A f \in all : f.createdAt <= B
        /\ \A f \in old : f.createdAt <= B
    BY DEF EntriesOf, Written
  <1>3. /\ e.createdAt = Newest(all) + 1 /\ e.prevHash = Newest(old)
        /\ e.passport = p
    BY DEF NewEntry, Written
  <1>4. Newest(all) \in Nat /\ Newest(old) \in Nat
    <2> HIDE DEF all, old
    <2>1. QED  BY <1>1, NewestType
  <1> HIDE DEF all, old, e
  <1>5. /\ \A f \in all : f.createdAt <= Newest(all)
        /\ Newest(all) <= B
    BY <1>1, <1>2, <1>4, NewestIsLast DEF LedgerEntry
  <1>6. \A f \in all : f.createdAt \in Nat
    BY <1>1 DEF LedgerEntry
  <1>7. \A f \in all : f.createdAt < e.createdAt
    BY <1>3, <1>4, <1>5, <1>6
  <1>8. e.prevHash = 0 \/ \E f \in old : f.createdAt = e.prevHash
    BY <1>1, <1>2, <1>3, NewestIsLast
  <1>9. OnCommitted(e)
    <2>1. old = EntriesOf(e.passport, ledger)
      BY <1>3 DEF old
    <2>2. QED  BY <1>1, <1>7, <1>8, <2>1 DEF OnCommitted
  <1>10. e.createdAt \in Nat /\ e.createdAt <= B + 1
    BY <1>3, <1>4, <1>5
  <1>11. QED
    BY <1>3, <1>7, <1>9, <1>10 DEF all, old, e

LEMMA NextLink ==
    ASSUME Inv, LinkInv, [Next]_vars
    PROVE  LinkInv'
  <1>1. PICK B \in Nat : \A e \in Written : e.createdAt <= B /\ OnCommitted(e)
    BY DEF LinkInv
  <1>2. ledger \subseteq ledger'
    BY StepWrites
  <1>3. \A e : OnCommitted(e) => OnCommitted(e)'
    BY <1>2 DEF OnCommitted, EntriesOf
  <1>4. CASE Written' \subseteq Written
    BY <1>1, <1>3, <1>4 DEF LinkInv
  <1>5. ASSUME NEW p \in Watches, NEW type \in LedgerEntryType, NEW t \in Trades,
               Written' \subseteq Written \cup {NewEntry(p, type, t)}
        PROVE  LinkInv'
    <2> DEFINE e == NewEntry(p, type, t)
    <2>1. e.createdAt <= B + 1 /\ OnCommitted(e)
      BY <1>1, NewEntryLinks
    <2>2. \A f \in Written : f.createdAt \in Nat
      BY WrittenType DEF LedgerEntry
    <2>3. Written' \subseteq Written \cup {e}
      BY <1>5
    <2> HIDE DEF e
    <2>4. \A f \in Written' : f.createdAt <= B + 1 /\ OnCommitted(f)'
      BY <1>1, <1>3, <2>1, <2>2, <2>3
    <2>5. B + 1 \in Nat
      OBVIOUS
    <2>6. QED  BY <2>4, <2>5 DEF LinkInv
  <1>6. QED  BY <1>4, <1>5, StepWrites

LEMMA InitLink == Init => LinkInv
  <1> SUFFICES ASSUME Init PROVE LinkInv
    OBVIOUS
  <1>1. Written = {}
    BY IdleCall DEF Init, Written, Uncommitted
  <1>2. QED  BY <1>1 DEF LinkInv

LEMMA LinkInvariance == Spec => []LinkInv
  <1>1. Inv /\ LinkInv /\ [Next]_vars => LinkInv'
    BY NextLink
  <1>2. QED  BY <1>1, InitLink, Invariance, PTL DEF Spec

\* However appends overlap and whichever transactions roll back, no committed
\* entry hangs on one that was not committed, or on a later one.
THEOREM NoLinkDangles == Spec => []LinksAreCommitted
  <1>1. LinkInv => LinksAreCommitted
    BY DEF LinkInv, LinksAreCommitted, OnCommitted, Written
  <1>2. QED  BY <1>1, LinkInvariance, PTL
-----------------------------------------------------------------------------
(* The chain: one call on a trade at a time. *)

\* An entry in flight is that of its trade's passport, follows every committed
\* entry of it, and is linked to the newest.
PendingOK(q) ==
    q.entry # NULL =>
        /\ q.op \in {"VERDICT", "RELEASE"}
        /\ q.entry.passport = trades[q.tradeId].watchId
        /\ q.entry.prevHash = Newest(EntriesOf(q.entry.passport, ledger))
        /\ \A f \in EntriesOf(q.entry.passport, ledger) :
              f.createdAt < q.entry.createdAt

ChainInv ==
    /\ ChainVerifies
    /\ \A r \in Requests : PendingOK(req[r])

\* The trade of an entry in flight is under way.
LEMMA PendingActive ==
    ASSUME Inv, NEW r \in Requests, CallOK(req[r]),
           req[r].op \in {"VERDICT", "RELEASE"}
    PROVE  /\ req[r].tradeId \in Trades /\ trades[req[r].tradeId] \in TradeRow
           /\ req[r].tradeId \in ActiveOn(trades[req[r].tradeId].watchId)
           /\ req[r].pc \notin NoRow
  <1>1. req[r].op # NULL
    BY StoreAssumption DEF Operation
  <1>2. RequestOK(req[r]) /\ req[r].pc # "idle"
    BY <1>1 DEF Inv, RequestOK
  <1>3. req[r].pc \notin NoRow
    BY <1>2 DEF RequestOK, VerdictOK, ReleaseOK, NoRow
  <1>4. /\ req[r].tradeId \in Trades /\ trades[req[r].tradeId] # NULL
        /\ trades[req[r].tradeId] \in TradeRow
    BY <1>2, <1>3 DEF RequestOK, NoRow, Inv, TypeOK
  <1>5. trades[req[r].tradeId].state \in {"PENDING_AUTH", "DELIVERED", "DISPUTED"}
    BY <1>3 DEF CallOK, Source
  <1>6. isActiveTradeState(trades[req[r].tradeId].state)
    BY <1>5 DEF isActiveTradeState, TERMINAL_STATES
  <1>7. QED  BY <1>3, <1>4, <1>6 DEF ActiveOn

\* Of two entries in flight, each is for a passport of its own.
LEMMA OnePending ==
    ASSUME Inv, RowInv, SerialInv, ChainInv,
           NEW r \in Requests, NEW s \in Requests \ {r},
           req[r].entry # NULL, req[s].entry # NULL
    PROVE  req[r].entry.passport # req[s].entry.passport
  <1>1. /\ req[r].op \in {"VERDICT", "RELEASE"}
        /\ req[s].op \in {"VERDICT", "RELEASE"}
        /\ req[r].entry.passport = trades[req[r].tradeId].watchId
        /\ req[s].entry.passport = trades[req[s].tradeId].watchId
    BY DEF ChainInv, PendingOK
  <1>2. CallOK(req[r]) /\ CallOK(req[s])
    BY DEF SerialInv
  <1>3. /\ req[r].tradeId \in Trades /\ trades[req[r].tradeId] \in TradeRow
        /\ req[r].tradeId \in ActiveOn(trades[req[r].tradeId].watchId)
        /\ req[s].tradeId \in ActiveOn(trades[req[s].tradeId].watchId)
    BY <1>1, <1>2, PendingActive
  <1>4. req[s].tradeId # req[r].tradeId
    BY <1>3, StoreAssumption DEF SerialInv, OneCallPerTrade
  <1>5. trades[req[r].tradeId].watchId \in Watches
    BY <1>3 DEF TradeRow
  <1>6. QED  BY <1>1, <1>3, <1>4, <1>5 DEF RowInv

\* A step of one request that leaves the tables alone.
LEMMA QuietChain ==
    ASSUME Inv, ChainInv, NEW r \in Requests, UNCHANGED tables,
           \A s \in Requests \ {r} : req'[s] = req[s],
           NEW q, req'[r] = q, PendingOK(q)
    PROVE  ChainInv'
  <1>1. ChainVerifies'
    BY DEF ChainInv, ChainVerifies, VerifyChain, EntriesOf, tables
  <1>2. \A s \in Requests : PendingOK(req'[s])
    BY DEF ChainInv
  <1>3. \A s \in Requests : PendingOK(req[s])'
    BY <1>2 DEF PendingOK, EntriesOf, tables
  <1>4. QED  BY <1>1, <1>3 DEF ChainInv

\* The newest entry of a passport becomes the one before the committed entry.
LEMMA CommitChain ==
    ASSUME Inv, RowInv, SerialInv, ChainInv, NEW r \in Requests,
           req[r].entry \in LedgerEntry, req[r].entry # NULL,
           ledger' = ledger \cup {req[r].entry}
    PROVE  /\ ChainVerifies'
           /\ \A s \in Requests \ {r} : req[s].entry # NULL =>
                 EntriesOf(req[s].entry.passport, ledger')
                    = EntriesOf(req[s].entry.passport, ledger)
  <1> DEFINE e == req[r].entry
  <1>1. /\ e.prevHash = Newest(EntriesOf(e.passport, ledger))
        /\ \A f \in EntriesOf(e.passport, ledger) : f.createdAt < e.createdAt
        /\ e.createdAt \in Nat
    BY DEF ChainInv, PendingOK, LedgerEntry
  <1>2. ASSUME NEW w \in Watches PROVE VerifyChain(w)'
    <2> DEFINE old == EntriesOf(w, ledger)
    <2>1. VerifyChain(w)
      BY DEF ChainInv, ChainVerifies
    <2>2. CASE e.passport # w
      <3>1. EntriesOf(w, ledger)' = old
        BY <2>2 DEF EntriesOf
      <3>2. QED  BY <2>1, <3>1 DEF VerifyChain
    <2>3. CASE e.passport = w
      <3>1. EntriesOf(w, ledger)' = old \cup {e}
        BY <2>3 DEF EntriesOf
      <3>2. \A f \in old : f.createdAt < e.createdAt /\ f.createdAt \in Nat
        BY <1>1, <2>3 DEF EntriesOf, Inv, TypeOK, LedgerEntry
      <3>3. \A d \in old :
                {f \in old \cup {e} : f.createdAt < d.createdAt}
                    = {f \in old : f.createdAt < d.createdAt}
        BY <1>1, <3>2
      <3>4. {f \in old \cup {e} : f.createdAt < e.createdAt} = old
        BY <1>1, <3>2
      <3>5. \A d \in old : d.prevHash = Newest({f \in old : f.createdAt < d.createdAt})
        BY <2>1 DEF VerifyChain
      <3>6. e.prevHash = Newest(old)
        BY <1>1, <2>3
      <3> HIDE DEF old, e
      <3>7. \A d \in old \cup {e} :
                d.prevHash = Newest({f \in old \cup {e} : f.createdAt < d.createdAt})
        BY <3>3, <3>4, <3>5, <3>6
      <3> DEFINE new == EntriesOf(w, ledger')
      <3>8. new = old \cup {e}
        BY <3>1 DEF EntriesOf
      <3> HIDE DEF new
      <3>9. \A d \in new :
                d.prevHash = Newest({f \in new : f.createdAt < d.createdAt})
        BY <3>7, <3>8
      <3>10. QED  BY <3>9 DEF VerifyChain, new, EntriesOf, Newest, IsLast
    <2>4. QED  BY <2>2, <2>3
  <1>3. ASSUME NEW s \in Requests \ {r}, req[s].entry # NULL
        PROVE  EntriesOf(req[s].entry.passport, ledger')
                    = EntriesOf(req[s].entry.passport, ledger)
    BY <1>3, OnePending DEF EntriesOf
  <1>4. QED  BY <1>2, <1>3 DEF ChainVerifies

LEMMA NextChain ==
    ASSUME ~Overlap, Inv, RowInv, LinkInv, SerialInv, ChainInv, [Next]_vars
    PROVE  ChainInv'
  <1>1. CASE Tick \/ UNCHANGED vars
    <2>1. UNCHANGED <<tables, req>>
      BY <1>1 DEF Tick, tables, vars
    <2>2. QED
      BY <2>1 DEF ChainInv, ChainVerifies, VerifyChain, PendingOK, EntriesOf,
         tables
  <1>2. ASSUME NEW r \in Requests, Arrive(r) PROVE ChainInv'
    <2>1. UNCHANGED tables
      <3>1. UNCHANGED <<holds, reports, records, ledger>>
        BY <1>2, OthersCommitNothing
      <3>2. Inv'
        BY NextInv
      <3>3. UNCHANGED trades
        BY <1>2, <3>2, ArriveMoves DEF Moves
      <3>4. QED  BY <3>1, <3>3 DEF tables
    <2>2. CASE UNCHANGED req
      <3>1. PendingOK(req[r])
        BY DEF ChainInv
      <3>2. QED  BY <2>1, <2>2, <3>1, QuietChain
    <2>3. ASSUME NEW q, Takes(r, q) PROVE ChainInv'
      <3>1. PendingOK(q)
        BY <2>3 DEF Takes, PendingOK
      <3>2. req'[r] = q /\ \A s \in Requests \ {r} : req'[s] = req[s]
        BY <2>3 DEF Takes, Inv, TypeOK
      <3>3. QED  BY <2>1, <3>1, <3>2, QuietChain
    <2>4. QED  BY <1>2, <2>2, <2>3, ArriveTakes
  <1>3. ASSUME NEW r \in Requests, Serve(r) \/ DeadlockVictim(r) \/ Fail(r)
        PROVE  ChainInv'
    <2>0. CallOK(req[r]) /\ PendingOK(req[r]) /\ MemOK(req[r])
      BY DEF SerialInv, ChainInv, RowInv
    <2>1. CASE Stops(r)
      <3>1. req'[r] = Idle /\ \A s \in Requests \ {r} : req'[s] = req[s]
        BY <2>1 DEF Stops, Finish, Inv, TypeOK
      <3>2. PendingOK(Idle)
        BY IdleCall DEF PendingOK
      <3>3. QED  BY <2>1, <3>1, <3>2, QuietChain DEF Stops
    <2>2. ASSUME NEW q, Proceeds(r, q), UNCHANGED tables PROVE ChainInv'
      <3>1. req'[r] = q /\ \A s \in Requests \ {r} : req'[s] = req[s]
        BY <2>2 DEF Proceeds, Inv, TypeOK
      <3>2. q.tradeId = req[r].tradeId /\ q.op = req[r].op
        BY <2>2 DEF Proceeds
      <3>3. CASE q.entry \in {req[r].entry, NULL}
        <4>1. PendingOK(q)
          BY <2>0, <3>2, <3>3 DEF PendingOK
        <4>2. QED  BY <2>2, <3>1, <4>1, QuietChain
      <3>4. CASE Appends(r)
        <4>1. PICK B \in Nat : \A e \in Written : e.createdAt <= B
          BY DEF LinkInv
        <4>2. PICK type \in LedgerEntryType :
                q.entry = NewEntry(req[r].mem.watchId, type, req[r].tradeId)
          BY <3>1, <3>4 DEF Appends
        <4> DEFINE p == req[r].mem.watchId
                   e == NewEntry(p, type, req[r].tradeId)
        <4>3. /\ p \in Watches /\ req[r].tradeId \in Trades
              /\ req[r].op \in {"VERDICT", "RELEASE"}
              /\ p = trades[req[r].tradeId].watchId
          BY <2>0, <3>4 DEF Appends, MemOK, NoRow
        <4>4. /\ e.passport = p /\ e.prevHash = Newest(EntriesOf(p, ledger))
              /\ \A f \in EntriesOf(p, Written) : f.createdAt < e.createdAt
          BY <4>1, <4>3, NewEntryLinks
        <4>5. q.entry = e
          BY <4>2
        <4> HIDE DEF e, p
        <4>6. EntriesOf(p, ledger) \subseteq EntriesOf(p, Written)
          BY DEF EntriesOf, Written
        <4>7. PendingOK(q)
          BY <3>2, <4>3, <4>4, <4>5, <4>6 DEF PendingOK
        <4>8. QED  BY <2>2, <3>1, <4>7, QuietChain
      <3>5. QED  BY <1>3, <3>1, <3>3, <3>4, ServeEntry
    <2>3. ASSUME NEW t \in Trades, Commits(r, t) PROVE ChainInv'
      <3>1. WritesOne(r, t)
        BY <2>3, CommitMoves
      <3>2. \A s \in Requests : req'[s] = IF s = r THEN Idle ELSE req[s]
        BY <3>1 DEF WritesOne, Inv, TypeOK
      <3>3. /\ ChainVerifies'
            /\ \A s \in Requests \ {r} : req[s].entry # NULL =>
                 EntriesOf(req[s].entry.passport, ledger')
                    = EntriesOf(req[s].entry.passport, ledger)
        <4>1. CASE ledger' = ledger
          BY <4>1 DEF ChainInv, ChainVerifies, VerifyChain, EntriesOf
        <4>2. CASE CommitVerdict(r) \/ CommitRelease(r)
          BY <4>2, LedgerCommits, CommitChain
        <4>3. QED
          BY <2>3, <4>1, <4>2
          DEF Commits, CommitSave, FundInsertRecord
      <3>4. ASSUME NEW s \in Requests, req'[s].entry # NULL
            PROVE  /\ s # r /\ req'[s] = req[s] /\ req[s].entry # NULL
                   /\ trades'[req[s].tradeId] = trades[req[s].tradeId]
                   /\ req[s].op \in {"VERDICT", "RELEASE"}
        <4>1. s # r /\ req'[s] = req[s] /\ req[s].entry # NULL
          BY <3>2, <3>4, IdleCall
        <4>2. req[s].op \in {"VERDICT", "RELEASE"} /\ CallOK(req[s])
          BY <4>1 DEF ChainInv, PendingOK, SerialInv
        <4>3. req[s].tradeId \in Trades /\ trades[req[s].tradeId] \in TradeRow
          BY <4>2, PendingActive
        <4>4. req[s].tradeId # t
          BY <3>1, <4>1, <4>3, StoreAssumption
          DEF WritesOne, SerialInv, OneCallPerTrade
        <4>5. trades'[req[s].tradeId] = trades[req[s].tradeId]
          BY <3>1, <4>3, <4>4 DEF WritesOne, Inv, TypeOK
        <4>6. QED  BY <4>1, <4>2, <4>5
      <3>5. ASSUME NEW s \in Requests PROVE PendingOK(req[s])'
        <4>1. CASE req'[s].entry = NULL
          BY <4>1 DEF PendingOK
        <4>2. CASE req'[s].entry # NULL
          <5>1. PendingOK(req[s])
            BY DEF ChainInv
          <5>2. EntriesOf(req[s].entry.passport, ledger')
                    = EntriesOf(req[s].entry.passport, ledger)
            BY <3>3, <3>4, <4>2 DEF EntriesOf
          <5>3. PendingOK(req'[s])
            BY <3>4, <4>2, <5>1
          <5>4. QED
            BY <3>4, <4>2, <5>1, <5>2 DEF PendingOK
        <4>3. QED  BY <4>1, <4>2
      <3>6. QED  BY <3>3, <3>5 DEF ChainInv
    <2>4. QED  BY <1>3, <2>0, <2>1, <2>2, <2>3, ServeForms
  <1>4. QED  BY <1>1, <1>2, <1>3 DEF Next

LEMMA InitChain == Init => ChainInv
  <1> SUFFICES ASSUME Init PROVE ChainInv
    OBVIOUS
  <1>1. ChainVerifies
    BY DEF Init, ChainVerifies, VerifyChain, EntriesOf
  <1>2. QED  BY <1>1, IdleCall DEF Init, ChainInv, PendingOK

\* One call on a trade at a time, trades of a watch one after the other: every
\* passport verifies, for two entries of one passport are never in flight at
\* once.
THEOREM PassportsVerify ==
    ASSUME ~Overlap
    PROVE  Spec => []ChainVerifies
  <1>1. Inv /\ RowInv /\ LinkInv /\ SerialInv /\ ChainInv /\ [Next]_vars
            => ChainInv'
    BY NextChain
  <1>2. ChainInv => ChainVerifies
    BY DEF ChainInv
  <1>3. QED
    BY <1>1, <1>2, InitChain, Invariance, RowInvariance, LinkInvariance,
       SerialInvariance, PTL DEF Spec
=============================================================================
