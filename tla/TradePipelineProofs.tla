------------------------- MODULE TradePipelineProofs -------------------------
(***************************************************************************)
(* Inv is inductive, for any numbers of trades, watches, keys and requests *)
(* in flight; the properties of TradePipeline that follow, and which calls *)
(* can wait for each other.                                                *)
(*                                                                         *)
(* One lemma per action.  Three carry them: Quiet for the steps that move  *)
(* a request and leave the tables alone, Commit for those that change the  *)
(* tables, SavedRow for what save(trade) leaves in a row.                  *)
(***************************************************************************)
EXTENDS TradePipelineInv, TLAPS

USE DEF TradeTable, HoldTable, ReportTable, RecordTable

(* Operators. *)

LEMMA StatesOf ==
    TradeState = { "DRAFT", "PENDING_AUTH", "AUTH_PASSED", "ESCROW_FUNDED",
                   "SHIPPED", "DELIVERED", "DISPUTED", "AUTH_FAILED",
                   "RELEASED", "REFUNDED_PRE_SHIP", "REFUNDED_POST_DELIVERY",
                   "EXPIRED", "CANCELLED", "LOST_IN_TRANSIT" }
  BY DEF TradeState, TRANSITIONS

LEMMA NextStates ==
    /\ getNextState("DRAFT", "SUBMIT_FOR_AUTH") = "PENDING_AUTH"
    /\ getNextState("PENDING_AUTH", "AUTH_PASS") = "AUTH_PASSED"
    /\ getNextState("PENDING_AUTH", "AUTH_FAIL") = "AUTH_FAILED"
    /\ getNextState("AUTH_PASSED", "FUND_ESCROW") = "ESCROW_FUNDED"
    /\ getNextState("ESCROW_FUNDED", "MARK_SHIPPED") = "SHIPPED"
    /\ getNextState("SHIPPED", "MARK_DELIVERED") = "DELIVERED"
    /\ getNextState("DELIVERED", "DISPUTE") = "DISPUTED"
    /\ getNextState("DELIVERED", "RELEASE") = "RELEASED"
    /\ getNextState("DISPUTED", "RELEASE") = "RELEASED"
  BY DEF getNextState, TRANSITIONS

LEMMA ApplyType ==
    ASSUME NEW trade \in TradeRow, NEW action, NEW now \in Nat,
           getNextState(trade.state, action) \in TradeState
    PROVE  LET new == applyTransition(trade, action, now) IN
           /\ new \in TradeRow
           /\ new.state = getNextState(trade.state, action)
           /\ new.watchId = trade.watchId
  <1>1. ASSUME NEW next, NEW state, NEW hours \in Nat, NEW d \in Deadline
        PROVE  Due(next, state, hours, now, d) \in Deadline
    BY <1>1 DEF Due, Deadline
  <1>2. QED  BY <1>1, HoursAssumption DEF applyTransition, TradeRow

LEMMA MergeType ==
    ASSUME NEW row \in TradeRow, NEW entity \in TradeRow, NEW dirty
    PROVE  LET new == Merge(row, entity, dirty) IN
           /\ new \in TradeRow
           /\ new.state = IF "state" \in dirty THEN entity.state ELSE row.state
           /\ new.watchId = row.watchId
  BY DEF Merge, TradeRow

LEMMA HashType ==
    ASSUME NEW t \in Trades, NEW body \in Body
    PROVE  computeRequestHash(t, body) \in Body
  BY DEF computeRequestHash, Body

LEMMA NewestType ==
    ASSUME NEW entries, entries \subseteq LedgerEntry
    PROVE  Newest(entries) \in Nat
  <1>1. CASE \E e \in entries : IsLast(e, entries)
    <2>1. (CHOOSE e \in entries : IsLast(e, entries)) \in entries
      BY <1>1
    <2>2. QED  BY <1>1, <2>1 DEF Newest, LedgerEntry
  <1>2. CASE ~ \E e \in entries : IsLast(e, entries)
    BY <1>2 DEF Newest
  <1>3. QED  BY <1>1, <1>2

LEMMA NewEntryType ==
    ASSUME TypeOK, NEW p \in Watches, NEW type \in LedgerEntryType,
           NEW t \in Trades
    PROVE  LET entry == NewEntry(p, type, t) IN
           /\ entry \in LedgerEntry
           /\ entry.tradeId = t
           /\ entry.type = type
  <1>1. Uncommitted \subseteq LedgerEntry
    BY DEF Uncommitted, TypeOK, Request
  <1>2. EntriesOf(p, ledger \cup Uncommitted) \subseteq LedgerEntry
    BY <1>1 DEF EntriesOf, TypeOK
  <1>3. EntriesOf(p, ledger) \subseteq LedgerEntry
    BY DEF EntriesOf, TypeOK
  <1>4. /\ Newest(EntriesOf(p, ledger \cup Uncommitted)) \in Nat
        /\ Newest(EntriesOf(p, ledger)) \in Nat
    BY <1>2, <1>3, NewestType
  <1>5. QED  BY <1>4 DEF NewEntry, LedgerEntry

-----------------------------------------------------------------------------
(* The tables. *)

LEMMA TablesSame ==
    ASSUME TablesOK, UNCHANGED tables
    PROVE  TablesOK'
  BY DEF TablesOK, ShippedOnlyIfFunded, ProgressOnlyIfPassed,
     PayoutMatchesTransfer, VerdictOnLedger, FundedExactlyOnce, State, tables

-----------------------------------------------------------------------------
(* Requests. *)

LEMMA IdleOK == Idle \in Request /\ RequestOK(Idle) /\ Idle.locks = {}
  <1>1. Idle \in Request
    BY DEF Idle, Request, Pc
  <1>2. CreateOK(Idle) /\ SubmitOK(Idle) /\ ProgressOK(Idle) /\ FundOK(Idle)
        /\ VerdictOK(Idle) /\ ReleaseOK(Idle)
    BY StoreAssumption DEF Idle, Operation, CreateOK, SubmitOK, ProgressOK,
       FundOK, VerdictOK, ReleaseOK
  <1>3. QED  BY <1>1, <1>2 DEF Idle, RequestOK

\* A step that only moves one request, to one that is well formed and takes no
\* lock another request for the same trade holds, preserves the invariant.
LEMMA Quiet ==
    ASSUME Inv, NEW r \in Requests, NEW q \in Request,
           RequestOK(q),
           \A s \in Requests \ {r} :
              req[s].tradeId = q.tradeId => req[s].locks \cap q.locks = {},
           req' = [req EXCEPT ![r] = q],
           answer' \in Answer \cup {NULL},
           UNCHANGED <<tables, clock>>
    PROVE  Inv'
  <1>1. TypeOK'
    BY DEF Inv, TypeOK, tables
  <1>2. \A s \in Requests : RequestOK(req[s])'
    <2>1. TAKE s \in Requests
    <2>2. CASE s = r
      <3>1. req'[s] = q
        BY <2>2 DEF Inv, TypeOK
      <3>2. QED
        BY <3>1 DEF RequestOK, CreateOK, SubmitOK, ProgressOK, FundOK,
           VerdictOK, ReleaseOK, EntryOK, Paid, tables
    <2>3. CASE s # r
      <3>1. req'[s] = req[s] /\ RequestOK(req[s])
        BY <2>3 DEF Inv, TypeOK
      <3>2. QED
        BY <3>1 DEF RequestOK, CreateOK, SubmitOK, ProgressOK, FundOK,
           VerdictOK, ReleaseOK, EntryOK, Paid, tables
    <2>4. QED  BY <2>2, <2>3
  <1>3. LocksExclusive'
    BY DEF Inv, TypeOK, LocksExclusive
  <1>4. TablesOK'
    BY TablesSame DEF Inv
  <1>5. QED  BY <1>1, <1>2, <1>3, <1>4 DEF Inv

\* The reply of a call that was accepted is well formed.
LEMMA ReplyType ==
    ASSUME NEW q \in Request, q.op \in Operation, NEW status \in Status
    PROVE  Reply(q, status) \in Answer
  BY DEF Reply, Answer, Request

LEMMA FinishQuiet ==
    ASSUME Inv, NEW r \in Requests, InFlight(r), NEW status \in Status,
           Finish(r, status), UNCHANGED <<tables, clock>>
    PROVE  Inv'
  <1>1. req[r] \in Request /\ req[r].op \in Operation
    BY DEF Inv, TypeOK, InFlight, RequestOK, Request
  <1>2. answer' \in Answer \cup {NULL}
    BY <1>1, ReplyType DEF Finish
  <1>3. QED
    BY <1>2, IdleOK, Quiet DEF Finish

\* A step of r that leaves the tables alone and gives it the contents q.
LEMMA BecomeQuiet ==
    ASSUME Inv, NEW r \in Requests, NEW q \in Request, RequestOK(q),
           \A s \in Requests \ {r} :
              req[s].tradeId = q.tradeId => req[s].locks \cap q.locks = {},
           Become(r, q), UNCHANGED <<tables, clock>>
    PROVE  Inv'
  BY Quiet DEF Become

\* The same when q takes no lock, or none that req[r] does not hold already.
LEMMA BecomeSameLocks ==
    ASSUME Inv, NEW r \in Requests, NEW q \in Request, RequestOK(q),
           \/ q.locks = {}
           \/ q.locks = req[r].locks /\ q.tradeId = req[r].tradeId,
           Become(r, q), UNCHANGED <<tables, clock>>
    PROVE  Inv'
  <1>1. \A s \in Requests \ {r} :
            req[s].tradeId = q.tradeId => req[s].locks \cap q.locks = {}
    BY DEF Inv, LocksExclusive
  <1>2. QED  BY <1>1, BecomeQuiet

-----------------------------------------------------------------------------
(* Arrivals. *)

LEMMA RefuseQuiet ==
    ASSUME Inv, NEW q \in Request, q.op \in Operation, NEW status \in Status,
           Refuse(q, status), UNCHANGED <<tables, clock>>
    PROVE  Inv'
  <1>1. answer' \in Answer \cup {NULL}
    BY ReplyType DEF Refuse
  <1>2. TypeOK'
    BY <1>1 DEF Refuse, Inv, TypeOK, tables
  <1>3. (\A r \in Requests : RequestOK(req[r]))' /\ LocksExclusive'
    BY DEF Refuse, Inv, LocksExclusive, RequestOK, CreateOK, SubmitOK,
       ProgressOK, FundOK, VerdictOK, ReleaseOK, EntryOK, Paid, tables
  <1>4. TablesOK'
    BY TablesSame DEF Inv
  <1>5. QED  BY <1>2, <1>3, <1>4 DEF Inv

LEMMA CallType ==
    ASSUME NEW op \in Operation, NEW t \in Trades
    PROVE  Call(op, t) \in Request /\ Call(op, t).op = op
           /\ Call(op, t).tradeId = t /\ Call(op, t).locks = {}
  BY IdleOK DEF Call, Idle, Request

LEMMA CreateTradeStep ==
    ASSUME Inv, NEW r \in Requests, NEW buyer \in Users, NEW w \in Watches,
           CreateTrade(r, buyer, w)
    PROVE  Inv'
  <1> DEFINE call == [Idle EXCEPT !.op = "CREATE"]
             next == [call EXCEPT !.pc = "insertTrade", !.mem = Draft(w, buyer)]
  <1>1. call \in Request /\ call.op \in Operation
    BY IdleOK DEF Idle, Request, Operation
  <1>2. Draft(w, buyer) \in TradeRow /\ Draft(w, buyer).state = "DRAFT"
    BY StatesOf DEF Draft, TradeRow, Deadline
  <1>3. next \in Request
    BY <1>1, <1>2 DEF Request, Pc
  <1>4. RequestOK(next) /\ next.locks = {}
    BY <1>2, StoreAssumption DEF Idle, Operation, RequestOK, CreateOK, SubmitOK,
       ProgressOK, FundOK, VerdictOK, ReleaseOK
  <1>5. CASE Become(r, next)
    BY <1>3, <1>4, <1>5, BecomeSameLocks DEF CreateTrade
  <1>6. CASE Refuse(call, "rejected")
    BY <1>1, <1>6, RefuseQuiet DEF CreateTrade, Status
  <1>7. QED  BY <1>5, <1>6 DEF CreateTrade

\* An arrival that loads its trade: what must be shown of the entity it keeps.
LEMMA LoadStep ==
    ASSUME Inv, NEW r \in Requests, NEW call \in Request, call.op \in Operation,
           NEW ok, NEW pc, NEW mem,
           ok => [call EXCEPT !.pc = pc, !.mem = mem] \in Request,
           ok => RequestOK([call EXCEPT !.pc = pc, !.mem = mem]),
           call.locks = {},
           Load(r, call, ok, pc, mem), UNCHANGED <<tables, clock>>
    PROVE  Inv'
  <1>1. CASE ok /\ Become(r, [call EXCEPT !.pc = pc, !.mem = mem])
    <2>1. [call EXCEPT !.pc = pc, !.mem = mem].locks = {}
      BY DEF Request
    <2>2. QED  BY <1>1, <2>1, BecomeSameLocks
  <1>2. CASE Refuse(call, "rejected")
    BY <1>2, RefuseQuiet DEF Status
  <1>3. QED  BY <1>1, <1>2 DEF Load

LEMMA SubmitForAuthStep ==
    ASSUME Inv, NEW r \in Requests, NEW t \in Trades, NEW user \in Users,
           SubmitForAuth(r, t, user)
    PROVE  Inv'
  <1> DEFINE call == Call("SUBMIT_FOR_AUTH", t)
             ok == SoldBy(t, user) /\ InState(t, {"DRAFT"})
             mem == applyTransition(trades[t], "SUBMIT_FOR_AUTH", clock)
             next == [call EXCEPT !.pc = "selectTrade", !.mem = mem]
  <1>1. call \in Request /\ call.op = "SUBMIT_FOR_AUTH" /\ call.tradeId = t /\ call.locks = {}
        /\ call.op \in Operation
    BY CallType DEF Operation
  <1>2. ASSUME ok PROVE next \in Request /\ RequestOK(next)
    <2>1. trades[t] \in TradeRow /\ trades[t].state = "DRAFT"
      BY <1>2 DEF Inv, TypeOK, InState, Exists, SoldBy, BoughtBy
    <2>2. mem \in TradeRow /\ mem.state = getNextState("DRAFT", "SUBMIT_FOR_AUTH")
      BY <2>1, ApplyType, NextStates, StatesOf DEF Inv, TypeOK
    <2>3. next \in Request
      BY <1>1, <2>2 DEF Request, Pc
    <2>4. trades[t] # NULL
      BY <1>2 DEF InState, Exists
    <2>5. QED
      BY <1>1, <2>1, <2>2, <2>3, <2>4, NextStates, StoreAssumption
      DEF Request, Operation, RequestOK, CreateOK, SubmitOK, ProgressOK, FundOK,
          VerdictOK, ReleaseOK, SavePc
  <1> HIDE DEF call, ok, mem
  <1>3. Load(r, call, ok, "selectTrade", mem) /\ UNCHANGED <<tables, clock>>
    BY DEF SubmitForAuth, call, ok, mem
  <1>4. QED  BY <1>1, <1>2, <1>3, LoadStep

LEMMA MarkShippedStep ==
    ASSUME Inv, NEW r \in Requests, NEW t \in Trades, NEW user \in Users,
           MarkShipped(r, t, user)
    PROVE  Inv'
  <1> DEFINE call == Call("MARK_SHIPPED", t)
             ok == /\ SoldBy(t, user) /\ InState(t, {"ESCROW_FUNDED"})
                   /\ ~Passed(trades[t].shipmentSlaDeadline, clock)
             mem == [applyTransition(trades[t], "MARK_SHIPPED", clock)
                       EXCEPT !.trackingNumber = "text"]
             next == [call EXCEPT !.pc = "selectTrade", !.mem = mem]
  <1>1. call \in Request /\ call.op = "MARK_SHIPPED" /\ call.tradeId = t /\ call.locks = {}
        /\ call.op \in Operation
    BY CallType DEF Operation
  <1>2. ASSUME ok PROVE next \in Request /\ RequestOK(next)
    <2>1. trades[t] \in TradeRow /\ trades[t].state = "ESCROW_FUNDED"
      BY <1>2 DEF Inv, TypeOK, InState, Exists, SoldBy, BoughtBy
    <2>2. mem \in TradeRow /\ mem.state = getNextState("ESCROW_FUNDED", "MARK_SHIPPED")
      <3>1. /\ applyTransition(trades[t], "MARK_SHIPPED", clock) \in TradeRow
            /\ applyTransition(trades[t], "MARK_SHIPPED", clock).state
                  = getNextState("ESCROW_FUNDED", "MARK_SHIPPED")
        BY <2>1, ApplyType, NextStates, StatesOf DEF Inv, TypeOK
      <3>2. QED  BY <3>1 DEF TradeRow
    <2>3. next \in Request
      BY <1>1, <2>2 DEF Request, Pc
    <2>4. trades[t] # NULL /\ Paid(t)
      BY <1>2, <2>1 DEF InState, Exists, SoldBy, BoughtBy, Inv, TablesOK,
         ShippedOnlyIfFunded, ProgressOnlyIfPassed, State, Funded, Paid
    <2>5. QED
      BY <1>1, <2>1, <2>2, <2>3, <2>4, NextStates, StoreAssumption
      DEF Request, Operation, RequestOK, CreateOK, SubmitOK, ProgressOK, FundOK,
          VerdictOK, ReleaseOK, SavePc
  <1> HIDE DEF call, ok, mem
  <1>3. Load(r, call, ok, "selectTrade", mem) /\ UNCHANGED <<tables, clock>>
    BY DEF MarkShipped, call, ok, mem
  <1>4. QED  BY <1>1, <1>2, <1>3, LoadStep

LEMMA MarkDeliveredStep ==
    ASSUME Inv, NEW r \in Requests, NEW t \in Trades, 
           MarkDelivered(r, t)
    PROVE  Inv'
  <1> DEFINE call == Call("MARK_DELIVERED", t)
             ok == InState(t, {"SHIPPED"})
             mem == applyTransition(trades[t], "MARK_DELIVERED", clock)
             next == [call EXCEPT !.pc = "selectTrade", !.mem = mem]
  <1>1. call \in Request /\ call.op = "MARK_DELIVERED" /\ call.tradeId = t /\ call.locks = {}
        /\ call.op \in Operation
    BY CallType DEF Operation
  <1>2. ASSUME ok PROVE next \in Request /\ RequestOK(next)
    <2>1. trades[t] \in TradeRow /\ trades[t].state = "SHIPPED"
      BY <1>2 DEF Inv, TypeOK, InState, Exists, SoldBy, BoughtBy
    <2>2. mem \in TradeRow /\ mem.state = getNextState("SHIPPED", "MARK_DELIVERED")
      BY <2>1, ApplyType, NextStates, StatesOf DEF Inv, TypeOK
    <2>3. next \in Request
      BY <1>1, <2>2 DEF Request, Pc
    <2>4. trades[t] # NULL /\ Paid(t)
      BY <1>2, <2>1 DEF InState, Exists, SoldBy, BoughtBy, Inv, TablesOK,
         ShippedOnlyIfFunded, ProgressOnlyIfPassed, State, Funded, Paid
    <2>5. QED
      BY <1>1, <2>1, <2>2, <2>3, <2>4, NextStates, StoreAssumption
      DEF Request, Operation, RequestOK, CreateOK, SubmitOK, ProgressOK, FundOK,
          VerdictOK, ReleaseOK, SavePc
  <1> HIDE DEF call, ok, mem
  <1>3. Load(r, call, ok, "selectTrade", mem) /\ UNCHANGED <<tables, clock>>
    BY DEF MarkDelivered, call, ok, mem
  <1>4. QED  BY <1>1, <1>2, <1>3, LoadStep

LEMMA DisputeStep ==
    ASSUME Inv, NEW r \in Requests, NEW t \in Trades, NEW user \in Users,
           Dispute(r, t, user)
    PROVE  Inv'
  <1> DEFINE call == Call("DISPUTE", t)
             ok == /\ BoughtBy(t, user) /\ InState(t, {"DELIVERED"})
                   /\ ~Passed(trades[t].disputeWindowEnds, clock)
             mem == [applyTransition(trades[t], "DISPUTE", clock)
                       EXCEPT !.disputeReason = "text"]
             next == [call EXCEPT !.pc = "selectTrade", !.mem = mem]
  <1>1. call \in Request /\ call.op = "DISPUTE" /\ call.tradeId = t /\ call.locks = {}
        /\ call.op \in Operation
    BY CallType DEF Operation
  <1>2. ASSUME ok PROVE next \in Request /\ RequestOK(next)
    <2>1. trades[t] \in TradeRow /\ trades[t].state = "DELIVERED"
      BY <1>2 DEF Inv, TypeOK, InState, Exists, SoldBy, BoughtBy
    <2>2. mem \in TradeRow /\ mem.state = getNextState("DELIVERED", "DISPUTE")
      <3>1. /\ applyTransition(trades[t], "DISPUTE", clock) \in TradeRow
            /\ applyTransition(trades[t], "DISPUTE", clock).state
                  = getNextState("DELIVERED", "DISPUTE")
        BY <2>1, ApplyType, NextStates, StatesOf DEF Inv, TypeOK
      <3>2. QED  BY <3>1 DEF TradeRow
    <2>3. next \in Request
      BY <1>1, <2>2 DEF Request, Pc
    <2>4. trades[t] # NULL /\ Paid(t)
      BY <1>2, <2>1 DEF InState, Exists, SoldBy, BoughtBy, Inv, TablesOK,
         ShippedOnlyIfFunded, ProgressOnlyIfPassed, State, Funded, Paid
    <2>5. QED
      BY <1>1, <2>1, <2>2, <2>3, <2>4, NextStates, StoreAssumption
      DEF Request, Operation, RequestOK, CreateOK, SubmitOK, ProgressOK, FundOK,
          VerdictOK, ReleaseOK, SavePc
  <1> HIDE DEF call, ok, mem
  <1>3. Load(r, call, ok, "selectTrade", mem) /\ UNCHANGED <<tables, clock>>
    BY DEF Dispute, call, ok, mem
  <1>4. QED  BY <1>1, <1>2, <1>3, LoadStep

LEMMA RecordVerdictStep ==
    ASSUME Inv, NEW r \in Requests, NEW t \in Trades, NEW verdict \in AuthVerdict,
           RecordVerdict(r, t, verdict)
    PROVE  Inv'
  <1> DEFINE call == [Call("VERDICT", t) EXCEPT !.verdict = verdict]
             ok == InState(t, {"PENDING_AUTH"})
             next == [call EXCEPT !.pc = "findReport", !.mem = trades[t]]
  <1>1. call \in Request /\ call.op = "VERDICT" /\ call.tradeId = t
        /\ call.locks = {} /\ call.verdict = verdict /\ call.op \in Operation
    BY CallType DEF Operation, Request
  <1>2. ASSUME ok PROVE next \in Request /\ RequestOK(next)
    <2>1. trades[t] \in TradeRow /\ trades[t].state = "PENDING_AUTH"
          /\ trades[t] # NULL
      BY <1>2 DEF Inv, TypeOK, InState, Exists
    <2>2. next \in Request
      BY <1>1, <2>1 DEF Request, Pc
    <2>3. QED
      BY <1>1, <2>1, <2>2, StoreAssumption
      DEF Request, Operation, RequestOK, CreateOK, SubmitOK, ProgressOK, FundOK,
          VerdictOK, ReleaseOK, EntryOK, SavePc
  <1> HIDE DEF call, ok
  <1>3. Load(r, call, ok, "findReport", trades[t]) /\ UNCHANGED <<tables, clock>>
    BY DEF RecordVerdict, call, ok
  <1>4. QED  BY <1>1, <1>2, <1>3, LoadStep

LEMMA ReleaseStep ==
    ASSUME Inv, NEW r \in Requests, NEW t \in Trades, NEW user \in Users,
           Release(r, t, user)
    PROVE  Inv'
  <1> DEFINE call == Call("RELEASE", t)
             ok == /\ BoughtBy(t, user) /\ InState(t, {"DELIVERED", "DISPUTED"})
                   /\ trades[t].state = "DELIVERED"
                          => ~Passed(trades[t].disputeWindowEnds, clock)
                   /\ HasPassport(t)
             mem == applyTransition(trades[t], "RELEASE", clock)
             next == [call EXCEPT !.pc = "findHold", !.mem = mem]
  <1>1. call \in Request /\ call.op = "RELEASE" /\ call.tradeId = t
        /\ call.locks = {} /\ call.op \in Operation
    BY CallType DEF Operation
  <1>2. ASSUME ok PROVE next \in Request /\ RequestOK(next)
    <2>1. trades[t] \in TradeRow /\ trades[t].state \in {"DELIVERED", "DISPUTED"}
          /\ trades[t] # NULL
      BY <1>2 DEF Inv, TypeOK, InState, Exists
    <2>2. mem \in TradeRow /\ mem.state = "RELEASED"
      BY <2>1, ApplyType, NextStates, StatesOf DEF Inv, TypeOK
    <2>3. next \in Request
      BY <1>1, <2>2 DEF Request, Pc
    <2>4. Paid(t)
      BY <2>1 DEF Inv, TablesOK, ShippedOnlyIfFunded, ProgressOnlyIfPassed, State,
         Funded, Paid
    <2>5. QED
      BY <1>1, <2>1, <2>2, <2>3, <2>4, StoreAssumption
      DEF Request, Operation, RequestOK, CreateOK, SubmitOK, ProgressOK, FundOK,
          VerdictOK, ReleaseOK, EntryOK, SavePc
  <1> HIDE DEF call, ok, mem
  <1>3. Load(r, call, ok, "findHold", mem) /\ UNCHANGED <<tables, clock>>
    BY DEF Release, call, ok, mem
  <1>4. QED  BY <1>1, <1>2, <1>3, LoadStep

LEMMA FundEscrowStep ==
    ASSUME Inv, NEW r \in Requests, NEW t \in Trades, NEW user \in Users,
           NEW key \in Keys, NEW body \in Bodies,
           FundEscrow(r, t, user, key, body)
    PROVE  Inv'
  <1> DEFINE call == [Idle EXCEPT !.op = "FUND_ESCROW", !.tradeId = t,
                                  !.user = user, !.key = key, !.body = body]
             next == [call EXCEPT !.pc = "loadTrade"]
  <1>1. call \in Request /\ call.op \in Operation /\ next \in Request
    BY IdleOK, StoreAssumption DEF Idle, Request, Operation, Pc
  <1>2. next.locks = {} /\ RequestOK(next)
    BY <1>1, StoreAssumption
    DEF Idle, Operation, RequestOK, CreateOK, SubmitOK, ProgressOK, FundOK,
        VerdictOK, ReleaseOK
  <1>3. CASE Become(r, next)
    BY <1>1, <1>2, <1>3, BecomeSameLocks DEF FundEscrow
  <1>4. CASE \E status \in Status : Refuse(call, status)
    BY <1>1, <1>4, RefuseQuiet DEF FundEscrow
  <1>5. QED  BY <1>3, <1>4 DEF FundEscrow, Status

LEMMA ArriveStep ==
    ASSUME Inv, NEW r \in Requests, Arrive(r)
    PROVE  Inv'
  BY CreateTradeStep, MarkDeliveredStep, RecordVerdictStep, SubmitForAuthStep,
     MarkShippedStep, ReleaseStep, DisputeStep, FundEscrowStep DEF Arrive

-----------------------------------------------------------------------------
(* Steps of the server that leave the tables alone. *)

\* What the invariant says of the request that takes the step.
LEMMA AtPc ==
    ASSUME Inv, NEW r \in Requests, req[r].pc # "idle"
    PROVE  /\ req[r] \in Request /\ RequestOK(req[r]) /\ InFlight(r)
           /\ req[r].op \in Operation
  BY DEF Inv, TypeOK, InFlight, RequestOK, Request

LEMMA SelectTradeStep ==
    ASSUME Inv, NEW r \in Requests, SelectTrade(r)
    PROVE  Inv'
  <1> DEFINE d == Dirty(trades[req[r].tradeId], req[r].mem)
             next == [req[r] EXCEPT !.pc = "saveTrade", !.dirty = d]
  <1>1. req[r] \in Request /\ RequestOK(req[r]) /\ req[r].pc = "selectTrade"
    BY AtPc DEF SelectTrade
  <1>2. d \subseteq MutableColumn
    BY DEF Dirty
  <1>3. next \in Request
    BY <1>1, <1>2 DEF Request, Pc
  <1>4. RequestOK(next)
    BY <1>1
    DEF Request, RequestOK, CreateOK, SubmitOK, ProgressOK, FundOK, VerdictOK,
        ReleaseOK, EntryOK, SavePc
  <1>5. next.locks = req[r].locks /\ next.tradeId = req[r].tradeId
    BY <1>1 DEF Request
  <1>6. QED
    BY <1>3, <1>4, <1>5, BecomeSameLocks DEF SelectTrade

LEMMA FundLoadTradeStep ==
    ASSUME Inv, NEW r \in Requests, FundLoadTrade(r)
    PROVE  Inv'
  <1> DEFINE trade == trades[req[r].tradeId]
             next == [req[r] EXCEPT !.pc = "findHold", !.mem = trade]
  <1>1. req[r] \in Request /\ RequestOK(req[r]) /\ req[r].pc = "loadTrade"
        /\ InFlight(r)
    BY AtPc DEF FundLoadTrade
  <1>2. req[r].op = "FUND_ESCROW" /\ req[r].tradeId \in Trades
    BY <1>1 DEF RequestOK, CreateOK, SubmitOK, ProgressOK, VerdictOK, ReleaseOK,
       SavePc, Request, Operation
  <1>3. CASE Fundable(trade, req[r].user) /\ Become(r, next)
    <2>1. trade \in TradeRow /\ trade # NULL /\ trade.state = "AUTH_PASSED"
          /\ reports[req[r].tradeId] = "PASS"
      BY <1>2, <1>3
      DEF Fundable, Inv, TablesOK, TypeOK, ProgressOnlyIfPassed, State
    <2>2. next \in Request
      BY <1>1, <2>1 DEF Request, Pc
    <2>3. RequestOK(next)
      BY <1>1, <1>2, <2>1
      DEF Request, RequestOK, CreateOK, SubmitOK, ProgressOK, FundOK, VerdictOK,
          ReleaseOK, EntryOK, SavePc
    <2>4. next.locks = req[r].locks /\ next.tradeId = req[r].tradeId
      BY <1>1 DEF Request
    <2>5. QED  BY <1>3, <2>2, <2>3, <2>4, BecomeSameLocks DEF FundLoadTrade
  <1>4. CASE Finish(r, "rejected")
    BY <1>1, <1>4, FinishQuiet DEF FundLoadTrade, Status
  <1>5. QED  BY <1>3, <1>4 DEF FundLoadTrade

LEMMA FundFindHoldStep ==
    ASSUME Inv, NEW r \in Requests, FundFindHold(r)
    PROVE  Inv'
  <1> DEFINE mem == applyTransition(req[r].mem, "FUND_ESCROW", clock)
             next == [req[r] EXCEPT !.pc = "selectTrade", !.mem = mem]
  <1>1. req[r] \in Request /\ RequestOK(req[r]) /\ req[r].pc = "findHold"
        /\ InFlight(r) /\ req[r].op = "FUND_ESCROW"
    BY AtPc DEF FundFindHold
  <1>2. CASE Become(r, next)
    <2>1. mem \in TradeRow /\ mem.state = "ESCROW_FUNDED"
      <3>1. req[r].mem \in TradeRow /\ req[r].mem.state = "AUTH_PASSED"
        BY <1>1 DEF RequestOK, FundOK
      <3>2. QED  BY <3>1, ApplyType, NextStates, StatesOf DEF Inv, TypeOK
    <2> HIDE DEF mem
    <2>2. next \in Request
      BY <1>1, <2>1 DEF Request, Pc
    <2>3. RequestOK(next)
      BY <1>1, <2>1
      DEF Request, RequestOK, CreateOK, SubmitOK, ProgressOK, FundOK, VerdictOK,
          ReleaseOK, EntryOK, SavePc
    <2>4. next.locks = req[r].locks /\ next.tradeId = req[r].tradeId
      BY <1>1 DEF Request
    <2>5. QED  BY <1>2, <2>2, <2>3, <2>4, BecomeSameLocks DEF FundFindHold
  <1>3. CASE Finish(r, "rejected")
    BY <1>1, <1>3, FinishQuiet DEF FundFindHold, Status
  <1>4. QED  BY <1>2, <1>3 DEF FundFindHold

\* Which operations wait for which calls.
LEMMA OpAt ==
    ASSUME NEW q \in Request, RequestOK(q)
    PROVE  /\ q.pc = "insertTrade" => q.op = "CREATE"
           /\ q.pc \in {"insertHold", "insertRecord"} => q.op = "FUND_ESCROW"
           /\ q.pc \in {"findReport", "insertReport"} => q.op = "VERDICT"
           /\ q.pc \in {"selectHold", "updateHold"} => q.op = "RELEASE"
  BY DEF RequestOK, CreateOK, SubmitOK, ProgressOK, FundOK, VerdictOK,
     ReleaseOK, SavePc, Request, Operation

\* A request that is not blocked finds the lock it needs free.
LEMMA LockFree ==
    ASSUME NEW r \in Requests, ~Blocked(r), NEW s \in Requests \ {r},
           req[s].tradeId = req[r].tradeId
    PROVE  Needs(r) \cap req[s].locks = {}
  BY DEF Blocked, WaitsFor

LEMMA SaveRefusedStep ==
    ASSUME Inv, NEW r \in Requests, SaveRefused(r)
    PROVE  Inv'
  BY AtPc, FinishQuiet DEF SaveRefused, Status

LEMMA FundSaveTradeStep ==
    ASSUME Inv, NEW r \in Requests, FundSaveTrade(r)
    PROVE  Inv'
  <1> DEFINE next == [req[r] EXCEPT !.pc = "insertHold", !.locks = {"trade"}]
  <1>1. req[r] \in Request /\ RequestOK(req[r]) /\ req[r].pc = "saveTrade"
        /\ req[r].op = "FUND_ESCROW" /\ ~Blocked(r)
    BY AtPc DEF FundSaveTrade, Saves
  <1>2. next \in Request
    BY <1>1 DEF Request, Pc
  <1>3. RequestOK(next)
    BY <1>1
    DEF Request, RequestOK, CreateOK, SubmitOK, ProgressOK, FundOK, VerdictOK,
        ReleaseOK, EntryOK, SavePc
  <1>4. next.locks = {"trade"} /\ next.tradeId = req[r].tradeId
    BY <1>1 DEF Request
  <1>5. Needs(r) = {"trade"}
    BY <1>1 DEF Needs
  <1>6. \A s \in Requests \ {r} :
            req[s].tradeId = next.tradeId => req[s].locks \cap next.locks = {}
    BY <1>1, <1>4, <1>5, LockFree
  <1>7. QED
    BY <1>2, <1>3, <1>6, BecomeQuiet DEF FundSaveTrade

LEMMA FundInsertHoldStep ==
    ASSUME Inv, NEW r \in Requests, FundInsertHold(r)
    PROVE  Inv'
  <1> DEFINE next == [req[r] EXCEPT !.pc = "insertRecord",
                                    !.locks = {"trade", "hold"}]
  <1>1. req[r] \in Request /\ RequestOK(req[r]) /\ req[r].pc = "insertHold"
        /\ req[r].op = "FUND_ESCROW" /\ ~Blocked(r) /\ InFlight(r)
    BY AtPc, OpAt DEF FundInsertHold
  <1>2. CASE holds[req[r].tradeId] = NULL /\ Become(r, next)
    <2>1. next \in Request
      BY <1>1 DEF Request, Pc
    <2>2. RequestOK(next)
      BY <1>1, <1>2
      DEF Request, RequestOK, CreateOK, SubmitOK, ProgressOK, FundOK, VerdictOK,
          ReleaseOK, EntryOK, SavePc
    <2>3. next.locks = {"trade", "hold"} /\ next.tradeId = req[r].tradeId
          /\ req[r].locks = {"trade"}
      BY <1>1 DEF Request, RequestOK, FundOK
    <2>4. Needs(r) = {"hold"}
      BY <1>1 DEF Needs
    <2>5. \A s \in Requests \ {r} :
            req[s].tradeId = next.tradeId => req[s].locks \cap next.locks = {}
      BY <1>1, <2>3, <2>4, LockFree DEF Inv, LocksExclusive
    <2>6. QED
      BY <1>2, <2>1, <2>2, <2>5, BecomeQuiet DEF FundInsertHold
  <1>3. CASE Finish(r, "error")
    BY <1>1, <1>3, FinishQuiet DEF FundInsertHold, Status
  <1>4. QED  BY <1>2, <1>3 DEF FundInsertHold

\* A step that moves r on to another call, pc, and changes nothing else.
LEMMA GotoStep ==
    ASSUME Inv, NEW r \in Requests, NEW pc \in Pc, InFlight(r),
           RequestOK([req[r] EXCEPT !.pc = pc]),
           Goto(r, pc), UNCHANGED <<tables, clock>>
    PROVE  Inv'
  <1> DEFINE next == [req[r] EXCEPT !.pc = pc]
  <1>1. req[r] \in Request
    BY AtPc DEF InFlight
  <1>2. next \in Request /\ next.locks = req[r].locks
        /\ next.tradeId = req[r].tradeId
    BY <1>1 DEF Request
  <1>3. QED  BY <1>2, BecomeSameLocks DEF Goto

LEMMA ReleaseFindHoldStep ==
    ASSUME Inv, NEW r \in Requests, ReleaseFindHold(r)
    PROVE  Inv'
  <1>1. req[r] \in Request /\ RequestOK(req[r]) /\ req[r].pc = "findHold"
        /\ req[r].op = "RELEASE" /\ InFlight(r)
    BY AtPc DEF ReleaseFindHold
  <1>2. RequestOK([req[r] EXCEPT !.pc = "selectHold"]) /\ "selectHold" \in Pc
    BY <1>1
    DEF Request, Pc, RequestOK, CreateOK, SubmitOK, ProgressOK, FundOK,
        VerdictOK, ReleaseOK, EntryOK, SavePc
  <1>3. CASE Goto(r, "selectHold")
    BY <1>1, <1>2, <1>3, GotoStep DEF ReleaseFindHold
  <1>4. CASE Finish(r, "rejected")
    BY <1>1, <1>4, FinishQuiet DEF ReleaseFindHold, Status
  <1>5. QED  BY <1>3, <1>4 DEF ReleaseFindHold

LEMMA ReleaseSelectHoldStep ==
    ASSUME Inv, NEW r \in Requests, ReleaseSelectHold(r)
    PROVE  Inv'
  <1>1. req[r] \in Request /\ RequestOK(req[r]) /\ req[r].pc = "selectHold"
        /\ req[r].op = "RELEASE" /\ InFlight(r)
    BY AtPc, OpAt DEF ReleaseSelectHold
  <1>2. ASSUME NEW pc \in {"appendEntry", "updateHold"}
        PROVE  RequestOK([req[r] EXCEPT !.pc = pc]) /\ pc \in Pc
    BY <1>1
    DEF Request, Pc, RequestOK, CreateOK, SubmitOK, ProgressOK, FundOK,
        VerdictOK, ReleaseOK, EntryOK, SavePc
  <1>3. QED
    BY <1>1, <1>2, GotoStep DEF ReleaseSelectHold

LEMMA ReleaseUpdateHoldStep ==
    ASSUME Inv, NEW r \in Requests, ReleaseUpdateHold(r)
    PROVE  Inv'
  <1> DEFINE next == [req[r] EXCEPT !.pc = "appendEntry", !.locks = {"hold"}]
  <1>1. req[r] \in Request /\ RequestOK(req[r]) /\ req[r].pc = "updateHold"
        /\ req[r].op = "RELEASE" /\ ~Blocked(r)
    BY AtPc, OpAt DEF ReleaseUpdateHold
  <1>2. next \in Request
    BY <1>1 DEF Request, Pc
  <1>3. RequestOK(next)
    BY <1>1
    DEF Request, RequestOK, CreateOK, SubmitOK, ProgressOK, FundOK, VerdictOK,
        ReleaseOK, EntryOK, SavePc
  <1>4. next.locks = {"hold"} /\ next.tradeId = req[r].tradeId
    BY <1>1 DEF Request
  <1>5. Needs(r) = {"hold"}
    BY <1>1 DEF Needs
  <1>6. \A s \in Requests \ {r} :
            req[s].tradeId = next.tradeId => req[s].locks \cap next.locks = {}
    BY <1>1, <1>4, <1>5, LockFree
  <1>7. QED
    BY <1>2, <1>3, <1>6, BecomeQuiet DEF ReleaseUpdateHold

LEMMA VerdictFindReportStep ==
    ASSUME Inv, NEW r \in Requests, VerdictFindReport(r)
    PROVE  Inv'
  <1>1. req[r] \in Request /\ RequestOK(req[r]) /\ req[r].pc = "findReport"
        /\ req[r].op = "VERDICT" /\ InFlight(r)
    BY AtPc, OpAt DEF VerdictFindReport
  <1>2. RequestOK([req[r] EXCEPT !.pc = "insertReport"])
        /\ "insertReport" \in Pc
    BY <1>1
    DEF Request, Pc, RequestOK, CreateOK, SubmitOK, ProgressOK, FundOK,
        VerdictOK, ReleaseOK, EntryOK, SavePc
  <1>3. CASE Goto(r, "insertReport")
    BY <1>1, <1>2, <1>3, GotoStep DEF VerdictFindReport
  <1>4. CASE Finish(r, "rejected")
    BY <1>1, <1>4, FinishQuiet DEF VerdictFindReport, Status
  <1>5. QED  BY <1>3, <1>4 DEF VerdictFindReport

LEMMA VerdictInsertReportStep ==
    ASSUME Inv, NEW r \in Requests, VerdictInsertReport(r)
    PROVE  Inv'
  <1> DEFINE action == IF req[r].verdict = "PASS" THEN "AUTH_PASS"
                                                  ELSE "AUTH_FAIL"
             mem == applyTransition(req[r].mem, action, clock)
             next == [req[r] EXCEPT !.pc = "appendEntry", !.locks = {"report"},
                                    !.mem = mem]
  <1>1. req[r] \in Request /\ RequestOK(req[r]) /\ req[r].pc = "insertReport"
        /\ req[r].op = "VERDICT" /\ ~Blocked(r) /\ InFlight(r)
    BY AtPc, OpAt DEF VerdictInsertReport
  <1>2. CASE reports[req[r].tradeId] = NULL /\ Become(r, next)
    <2>1. req[r].mem \in TradeRow /\ req[r].mem.state = "PENDING_AUTH"
      BY <1>1 DEF RequestOK, VerdictOK
    <2>2. mem \in TradeRow /\ mem.state = IF req[r].verdict = "PASS"
                                          THEN "AUTH_PASSED" ELSE "AUTH_FAILED"
      <3>1. CASE req[r].verdict = "PASS"
        BY <2>1, <3>1, ApplyType, NextStates, StatesOf DEF Inv, TypeOK
      <3>2. CASE req[r].verdict # "PASS"
        BY <2>1, <3>2, ApplyType, NextStates, StatesOf DEF Inv, TypeOK
      <3>3. QED  BY <3>1, <3>2
    <2> HIDE DEF mem
    <2>3. next \in Request
      BY <1>1, <2>2 DEF Request, Pc
    <2>4. next.locks = {"report"} /\ next.tradeId = req[r].tradeId
          /\ next.mem = mem /\ next.pc = "appendEntry" /\ next.op = "VERDICT"
          /\ next.verdict = req[r].verdict
      BY <1>1 DEF Request
    <2> HIDE DEF next
    <2>5. RequestOK(next)
      BY <1>1, <1>2, <2>2, <2>4
      DEF RequestOK, CreateOK, SubmitOK, ProgressOK, FundOK, VerdictOK,
          ReleaseOK, EntryOK, SavePc
    <2>6. Needs(r) = {"report"}
      BY <1>1 DEF Needs
    <2>7. QED
      BY <1>1, <1>2, <2>3, <2>4, <2>5, <2>6, LockFree, BecomeQuiet
      DEF VerdictInsertReport
  <1>3. CASE Finish(r, "rejected")
    BY <1>1, <1>3, FinishQuiet DEF VerdictInsertReport, Status
  <1>4. QED  BY <1>2, <1>3 DEF VerdictInsertReport

\* appendEntry, of a verdict or of a release.
LEMMA AppendEntryStep ==
    ASSUME Inv, NEW r \in Requests, NEW type \in LedgerEntryType,
           AppendEntry(r, type),
           req[r].op = "VERDICT" =>
                type = IF req[r].verdict = "PASS" THEN "AUTHENTICATED"
                                                  ELSE "RE_AUTHENTICATED",
           req[r].op = "RELEASE" => type = "TRANSFERRED"
    PROVE  Inv'
  <1> DEFINE entry == NewEntry(req[r].mem.watchId, type, req[r].tradeId)
             next == [req[r] EXCEPT !.pc = "selectTrade", !.entry = entry]
  <1>1. req[r] \in Request /\ RequestOK(req[r]) /\ req[r].pc = "appendEntry"
    BY AtPc DEF AppendEntry
  <1>2. req[r].op \in {"VERDICT", "RELEASE"}
    BY <1>1 DEF RequestOK, CreateOK, SubmitOK, ProgressOK, FundOK, SavePc,
       Request, Operation
  <1>3. req[r].tradeId \in Trades /\ req[r].mem.watchId \in Watches
    BY <1>1 DEF RequestOK, TradeRow
  <1>4. entry \in LedgerEntry /\ entry.tradeId = req[r].tradeId
        /\ entry.type = type
    BY <1>3, NewEntryType DEF Inv
  <1> HIDE DEF entry
  <1>5. next \in Request /\ next.locks = req[r].locks /\ next.op = req[r].op
        /\ next.tradeId = req[r].tradeId /\ next.pc = "selectTrade"
        /\ next.entry = entry /\ next.mem = req[r].mem
        /\ next.verdict = req[r].verdict
    BY <1>1, <1>4 DEF Request, Pc
  <1>6. Become(r, next) /\ UNCHANGED <<tables, clock>>
    BY DEF AppendEntry, entry
  <1> HIDE DEF next
  <1>7. RequestOK(next)
    BY <1>1, <1>2, <1>4, <1>5
    DEF RequestOK, CreateOK, SubmitOK, ProgressOK, FundOK, VerdictOK,
        ReleaseOK, EntryOK, SavePc
  <1>8. QED  BY <1>5, <1>6, <1>7, BecomeSameLocks

LEMMA VerdictAppendStep ==
    ASSUME Inv, NEW r \in Requests, VerdictAppend(r)
    PROVE  Inv'
  BY AppendEntryStep DEF VerdictAppend, LedgerEntryType

LEMMA ReleaseAppendStep ==
    ASSUME Inv, NEW r \in Requests, ReleaseAppend(r)
    PROVE  Inv'
  BY AppendEntryStep DEF ReleaseAppend, LedgerEntryType

LEMMA DeadlockVictimStep ==
    ASSUME Inv, NEW r \in Requests, DeadlockVictim(r)
    PROVE  Inv'
  <1>1. req[r].pc # "idle"
    BY DEF DeadlockVictim, WaitsFor, Needs, IndexBusy
  <1>2. QED  BY <1>1, AtPc, FinishQuiet DEF DeadlockVictim, Status

LEMMA FailStep ==
    ASSUME Inv, NEW r \in Requests, Fail(r)
    PROVE  Inv'
  BY FinishQuiet DEF Fail, Status

LEMMA TickStep ==
    ASSUME Inv, Tick
    PROVE  Inv'
  <1>1. TypeOK'
    BY DEF Tick, Inv, TypeOK, tables
  <1>2. (\A r \in Requests : RequestOK(req[r]))' /\ LocksExclusive'
    BY DEF Tick, Inv, LocksExclusive, RequestOK, CreateOK, SubmitOK,
       ProgressOK, FundOK, VerdictOK, ReleaseOK, EntryOK, Paid, tables
  <1>3. TablesOK'
    BY TablesSame DEF Tick, Inv
  <1>4. QED  BY <1>1, <1>2, <1>3 DEF Inv

-----------------------------------------------------------------------------
(* Commits. *)

\* When r ends and the tables change, the other requests still know what they
\* knew, provided that rows stay, that verdicts stay, and that nobody writes
\* the report or the hold of a trade whose lock another request has.
LEMMA Commit ==
    ASSUME Inv, NEW r \in Requests, TypeOK',
           req' = [req EXCEPT ![r] = Idle],
           \A t \in Trades : /\ trades[t] # NULL => trades'[t] # NULL
                             /\ holds[t] # NULL => holds'[t] # NULL
                             /\ reports[t] # NULL => reports'[t] = reports[t],
           \A s \in Requests \ {r} :
              /\ "report" \in req[s].locks =>
                    reports'[req[s].tradeId] = reports[req[s].tradeId]
              /\ req[s].pc = "insertRecord" =>
                    holds'[req[s].tradeId] = holds[req[s].tradeId],
           TablesOK'
    PROVE  Inv'
  <1>1. \A s \in Requests : RequestOK(req[s])'
    <2>1. TAKE s \in Requests
    <2>2. CASE s = r
      <3>1. req'[s] = Idle
        BY <2>2 DEF Inv, TypeOK
      <3>2. CreateOK(Idle)' /\ SubmitOK(Idle)' /\ ProgressOK(Idle)'
            /\ FundOK(Idle)' /\ VerdictOK(Idle)' /\ ReleaseOK(Idle)'
        BY StoreAssumption DEF Idle, Operation, CreateOK, SubmitOK, ProgressOK,
           FundOK, VerdictOK, ReleaseOK
      <3>3. RequestOK(Idle)'
        BY <3>2 DEF RequestOK, Idle
      <3>4. QED
        BY <3>1, <3>3 DEF RequestOK, CreateOK, SubmitOK, ProgressOK, FundOK,
           VerdictOK, ReleaseOK, EntryOK, Paid
    <2>3. CASE s # r
      <3>1. req'[s] = req[s] /\ RequestOK(req[s])
        BY <2>3 DEF Inv, TypeOK
      <3>2. req[s].pc \notin {"idle", "insertTrade"} => req[s].tradeId \in Trades
        BY <3>1 DEF RequestOK
      <3>3. CreateOK(req[s])' /\ SubmitOK(req[s])'
        BY <3>1 DEF RequestOK, CreateOK, SubmitOK
      <3>4. ProgressOK(req[s])'
        BY <3>1, <3>2, StoreAssumption
        DEF RequestOK, ProgressOK, Paid, SavePc, AuthVerdict
      <3>5. FundOK(req[s])'
        BY <2>3, <3>1, <3>2, StoreAssumption DEF RequestOK, FundOK, AuthVerdict
      <3>6. VerdictOK(req[s])'
        BY <2>3, <3>1, <3>2 DEF RequestOK, VerdictOK, EntryOK
      <3>7. ReleaseOK(req[s])'
        BY <3>1, <3>2, StoreAssumption
        DEF RequestOK, ReleaseOK, Paid, EntryOK, AuthVerdict
      <3>8. QED
        BY <3>1, <3>2, <3>3, <3>4, <3>5, <3>6, <3>7 DEF RequestOK
    <2>4. QED  BY <2>2, <2>3
  <1>2. LocksExclusive'
    BY IdleOK DEF Inv, TypeOK, LocksExclusive
  <1>3. QED  BY <1>1, <1>2 DEF Inv

\* The row that save(trade) leaves: its state is the entity's, or still the
\* row's own when the entity had loaded a later one.
LEMMA SavedRow ==
    ASSUME Inv, NEW r \in Requests, req[r].pc = "saveTrade"
    PROVE  /\ req[r].tradeId \in Trades
           /\ trades[req[r].tradeId] \in TradeRow
           /\ Updated(r) \in TradeRow /\ Updated(r) # NULL
           /\ Updated(r).state \in {trades[req[r].tradeId].state,
                                    req[r].mem.state}
  <1>1. RequestOK(req[r])
    BY AtPc
  <1>2. req[r].tradeId \in Trades /\ trades[req[r].tradeId] \in TradeRow
        /\ req[r].mem \in TradeRow
    BY <1>1 DEF RequestOK, Inv, TypeOK
  <1>3. QED
    BY <1>2, MergeType, StoreAssumption DEF Updated

\* The reply of a request that ends.
LEMMA FinishType ==
    ASSUME Inv, NEW r \in Requests, InFlight(r), NEW status \in Status,
           Finish(r, status)
    PROVE  /\ req' \in [Requests -> Request]
           /\ req' = [req EXCEPT ![r] = Idle]
           /\ answer' \in Answer \cup {NULL}
  <1>1. req[r] \in Request /\ req[r].op \in Operation
    BY AtPc DEF InFlight
  <1>2. QED
    BY <1>1, ReplyType, IdleOK DEF Finish, Inv, TypeOK

LEMMA CreateInsertStep ==
    ASSUME Inv, NEW r \in Requests, NEW t \in Trades, CreateInsert(r, t)
    PROVE  Inv'
  <1>1. req[r].pc = "insertTrade" /\ RequestOK(req[r]) /\ InFlight(r)
        /\ req[r].mem \in TradeRow /\ req[r].mem.state = "DRAFT"
    BY AtPc, OpAt DEF CreateInsert, RequestOK, CreateOK
  <1>2. CASE /\ trades[t] = NULL /\ Finish(r, "ok")
             /\ trades' = [trades EXCEPT ![t] = req[r].mem]
    <2>1. req' = [req EXCEPT ![r] = Idle] /\ TypeOK'
      BY <1>1, <1>2, FinishType DEF CreateInsert, Inv, TypeOK, Status
    <2>2. \A u \in Trades : u # t => State(u)' = State(u)
      BY <1>2 DEF Inv, TypeOK, State
    <2>3. State(t)' \in {NULL, "DRAFT"}
      BY <1>1, <1>2 DEF Inv, TypeOK, State
    <2>4. ShippedOnlyIfFunded' /\ ProgressOnlyIfPassed' /\ PayoutMatchesTransfer'
      BY <2>2, <2>3, StatesOf, HoursAssumption
      DEF CreateInsert, Inv, TablesOK, ShippedOnlyIfFunded,
          ProgressOnlyIfPassed, PayoutMatchesTransfer, Funded
    <2>5. VerdictOnLedger' /\ FundedExactlyOnce'
      BY DEF CreateInsert, Inv, TablesOK, VerdictOnLedger, FundedExactlyOnce
    <2>6. TablesOK'
      BY <2>4, <2>5 DEF TablesOK
    <2>7. QED
      BY <1>2, <2>1, <2>6, Commit DEF CreateInsert, Inv, TypeOK
  <1>3. CASE Finish(r, "rejected") /\ UNCHANGED trades
    <2>1. UNCHANGED <<tables, clock>>
      BY <1>3 DEF CreateInsert, tables
    <2>2. QED  BY <1>1, <1>3, <2>1, FinishQuiet DEF Status
  <1>4. QED  BY <1>2, <1>3 DEF CreateInsert

LEMMA CommitSaveStep ==
    ASSUME Inv, NEW r \in Requests, CommitSave(r)
    PROVE  Inv'
  <1>0. PICK t \in Trades : t = req[r].tradeId
    BY SavedRow DEF CommitSave, Saves
  <1> USE <1>0
  <1>1. req[r].pc = "saveTrade" /\ RequestOK(req[r]) /\ InFlight(r)
        /\ req[r].op \in SaveOnly
    BY AtPc DEF CommitSave, Saves
  <1>2. /\ t \in Trades /\ trades[t] \in TradeRow
        /\ Updated(r) \in TradeRow /\ Updated(r) # NULL
        /\ Updated(r).state \in {trades[t].state, req[r].mem.state}
    BY <1>1, SavedRow
  <1>3. req' = [req EXCEPT ![r] = Idle] /\ TypeOK'
    BY <1>1, <1>2, FinishType DEF CommitSave, Inv, TypeOK, Status
  <1>4. \A u \in Trades : u # t => State(u)' = State(u)
    BY DEF CommitSave, Inv, TypeOK, State
  <1>5. State(t)' = Updated(r).state /\ trades[t] # NULL
        /\ State(t) = trades[t].state
    BY <1>1, <1>2 DEF CommitSave, Inv, TypeOK, State, RequestOK
  <1>6. \/ State(t)' = State(t)
        \/ State(t)' = "PENDING_AUTH"
        \/ /\ State(t)' \in {"SHIPPED", "DELIVERED", "DISPUTED"}
           /\ Paid(t)
    BY <1>1, <1>2, <1>5 DEF RequestOK, SubmitOK, ProgressOK, SaveOnly
  <1>7. ShippedOnlyIfFunded' /\ ProgressOnlyIfPassed' /\ PayoutMatchesTransfer'
    BY <1>4, <1>6
    DEF CommitSave, Inv, TablesOK, ShippedOnlyIfFunded, ProgressOnlyIfPassed,
        PayoutMatchesTransfer, Funded, Paid
  <1>8. VerdictOnLedger' /\ FundedExactlyOnce'
    BY DEF CommitSave, Inv, TablesOK, VerdictOnLedger, FundedExactlyOnce
  <1>9. TablesOK'
    BY <1>7, <1>8 DEF TablesOK
  <1>10. \A u \in Trades : trades[u] # NULL => trades'[u] # NULL
    BY <1>2 DEF CommitSave, Inv, TypeOK
  <1>11. QED
    BY <1>3, <1>9, <1>10, Commit DEF CommitSave

LEMMA CommitVerdictStep ==
    ASSUME Inv, NEW r \in Requests, CommitVerdict(r)
    PROVE  Inv'
  <1>0. PICK t \in Trades : t = req[r].tradeId
    BY SavedRow DEF CommitVerdict, Saves
  <1> USE <1>0
  <1>1. req[r].pc = "saveTrade" /\ RequestOK(req[r]) /\ InFlight(r)
        /\ req[r].op = "VERDICT"
    BY AtPc DEF CommitVerdict, Saves
  <1>2. /\ t \in Trades /\ trades[t] \in TradeRow
        /\ Updated(r) \in TradeRow /\ Updated(r) # NULL
        /\ Updated(r).state \in {trades[t].state, req[r].mem.state}
    BY <1>1, SavedRow
  <1>3. /\ req[r].verdict \in AuthVerdict /\ reports[t] = NULL
        /\ req[r].locks = {"report"}
        /\ req[r].mem.state = IF req[r].verdict = "PASS" THEN "AUTH_PASSED"
                                                         ELSE "AUTH_FAILED"
        /\ req[r].entry \in LedgerEntry /\ req[r].entry.tradeId = t
        /\ req[r].entry.type = IF req[r].verdict = "PASS"
                                   THEN "AUTHENTICATED" ELSE "RE_AUTHENTICATED"
    BY <1>1 DEF RequestOK, VerdictOK, EntryOK, SavePc
  <1>4. req' = [req EXCEPT ![r] = Idle] /\ TypeOK'
    BY <1>1, <1>2, <1>3, FinishType DEF CommitVerdict, Inv, TypeOK, Status
  <1>5. \A u \in Trades : u # t => State(u)' = State(u) /\ reports'[u] = reports[u]
    BY DEF CommitVerdict, Inv, TypeOK, State
  <1>6. /\ State(t)' = Updated(r).state /\ trades[t] # NULL
        /\ State(t) = trades[t].state
        /\ reports'[t] = req[r].verdict
    BY <1>1, <1>2 DEF CommitVerdict, Inv, TypeOK, State, RequestOK
  <1>7. State(t) \notin Funded \cup {"AUTH_PASSED", "AUTH_FAILED"}
    BY <1>2, <1>3, StoreAssumption
    DEF Inv, TablesOK, ProgressOnlyIfPassed, AuthVerdict
  <1>8. ShippedOnlyIfFunded' /\ ProgressOnlyIfPassed'
    BY <1>2, <1>3, <1>5, <1>6, <1>7
    DEF CommitVerdict, Inv, TablesOK, ShippedOnlyIfFunded,
        ProgressOnlyIfPassed, Funded, AuthVerdict
  <1>9. \A u \in Trades :
            (\E e \in ledger' : e.tradeId = u /\ e.type = "TRANSFERRED")
              <=> \E e \in ledger : e.tradeId = u /\ e.type = "TRANSFERRED"
    BY <1>3 DEF CommitVerdict
  <1>10. PayoutMatchesTransfer'
    BY <1>2, <1>3, <1>5, <1>6, <1>7, <1>9
    DEF CommitVerdict, Inv, TablesOK, PayoutMatchesTransfer, Funded
  <1>11. VerdictOnLedger'
    <2>1. ledger' = ledger \cup {req[r].entry}
      BY DEF CommitVerdict
    <2>2. {e \in ledger : e.tradeId = t /\ e.type # "TRANSFERRED"} = {}
      BY <1>3 DEF Inv, TablesOK, VerdictOnLedger
    <2>3. reports'[t] # NULL
      BY <1>3, <1>6, StoreAssumption
    <2>4. QED
      BY <1>3, <1>5, <1>6, <2>1, <2>2, <2>3 DEF Inv, TablesOK, VerdictOnLedger
  <1>12. FundedExactlyOnce'
    BY DEF CommitVerdict, Inv, TablesOK, FundedExactlyOnce
  <1>13. TablesOK'
    BY <1>8, <1>10, <1>11, <1>12 DEF TablesOK
  <1>14. \A u \in Trades : /\ trades[u] # NULL => trades'[u] # NULL
                           /\ reports[u] # NULL => reports'[u] = reports[u]
    BY <1>2, <1>3, <1>5 DEF CommitVerdict, Inv, TypeOK
  <1>15. \A s \in Requests \ {r} : "report" \in req[s].locks =>
            reports'[req[s].tradeId] = reports[req[s].tradeId]
    BY <1>2, <1>3 DEF CommitVerdict, Inv, LocksExclusive, TypeOK
  <1>16. QED
    BY <1>4, <1>13, <1>14, <1>15, Commit DEF CommitVerdict

LEMMA FundInsertRecordStep ==
    ASSUME Inv, NEW r \in Requests, FundInsertRecord(r)
    PROVE  Inv'
  <1>0. PICK t \in Trades : t = req[r].tradeId
    BY AtPc DEF FundInsertRecord, RequestOK
  <1> USE <1>0
  <1>1. req[r].pc = "insertRecord" /\ RequestOK(req[r]) /\ InFlight(r)
        /\ req[r].op = "FUND_ESCROW" /\ req[r] \in Request
    BY AtPc, OpAt DEF FundInsertRecord
  <1>2. CASE records[req[r].key] = NULL
    <2>1. /\ t \in Trades /\ trades[t] \in TradeRow /\ trades[t] # NULL
          /\ req[r].mem \in TradeRow /\ req[r].mem.state = "ESCROW_FUNDED"
          /\ holds[t] = NULL /\ reports[t] = "PASS"
          /\ req[r].locks = {"trade", "hold"}
          /\ req[r].key \in Keys /\ req[r].body \in Body
      BY <1>1 DEF RequestOK, FundOK, Inv, TypeOK
    <2>2. /\ Updated(r) \in TradeRow /\ Updated(r) # NULL
          /\ Updated(r).state \in {trades[t].state, "ESCROW_FUNDED"}
      BY <2>1, MergeType, StoreAssumption DEF Updated
    <2>3. /\ Finish(r, "ok")
          /\ trades' = [trades EXCEPT ![t] = Updated(r)]
          /\ holds' = [holds EXCEPT ![t] = "HELD"]
          /\ records' = [records EXCEPT ![req[r].key] =
                [ tradeId |-> t,
                  requestHash |-> computeRequestHash(t, req[r].body) ]]
          /\ UNCHANGED <<reports, ledger, clock>>
      BY <1>2 DEF FundInsertRecord
    <2>4. [ tradeId |-> t, requestHash |-> computeRequestHash(t, req[r].body) ]
            \in IdempotencyRecord
      BY <2>1, HashType DEF IdempotencyRecord
    <2>5. req' = [req EXCEPT ![r] = Idle] /\ TypeOK'
      BY <1>1, <2>1, <2>2, <2>3, <2>4, FinishType
      DEF Inv, TypeOK, Status, EscrowHoldStatus
    <2>6. \A u \in Trades : u # t => State(u)' = State(u) /\ holds'[u] = holds[u]
      BY <2>3 DEF Inv, TypeOK, State
    <2>7. State(t)' \in {State(t), "ESCROW_FUNDED"} /\ holds'[t] = "HELD"
      BY <2>1, <2>2, <2>3 DEF Inv, TypeOK, State
    <2>8. State(t) # "RELEASED" /\ holds[t] # "RELEASED" /\ "HELD" # NULL
      BY <2>1, StoreAssumption
      DEF Inv, TablesOK, PayoutMatchesTransfer, EscrowHoldStatus
    <2>9. ShippedOnlyIfFunded' /\ ProgressOnlyIfPassed' /\ PayoutMatchesTransfer'
      BY <2>1, <2>3, <2>6, <2>7, <2>8
      DEF Inv, TablesOK, ShippedOnlyIfFunded, ProgressOnlyIfPassed,
          PayoutMatchesTransfer, Funded
    <2>10. VerdictOnLedger'
      BY <2>3 DEF Inv, TablesOK, VerdictOnLedger
    <2>11. FundedExactlyOnce'
      <3> DEFINE record == [ tradeId |-> t,
                    requestHash |-> computeRequestHash(t, req[r].body) ]
                 keys(u) == {k \in Keys : records[k] # NULL
                                           /\ records[k].tradeId = u}
      <3>1. record # NULL /\ record.tradeId = t
        BY <2>4, StoreAssumption
      <3> HIDE DEF record
      <3>2. records' = [records EXCEPT ![req[r].key] = record]
        BY <2>3 DEF record
      <3>3. keys(t) = {}
        BY <2>1 DEF Inv, TablesOK, FundedExactlyOnce
      <3>4. keys(t)' = {req[r].key}
        BY <2>1, <3>1, <3>2, <3>3 DEF Inv, TypeOK
      <3>5. \A u \in Trades : u # t => keys(u)' = keys(u)
        BY <1>2, <2>1, <3>1, <3>2 DEF Inv, TypeOK
      <3> HIDE DEF keys
      <3>6. \A u \in Trades : IF holds'[u] = NULL THEN keys(u)' = {}
                              ELSE \E k \in Keys : keys(u)' = {k}
        <4>1. \A u \in Trades : IF holds[u] = NULL THEN keys(u) = {}
                                ELSE \E k \in Keys : keys(u) = {k}
          BY DEF Inv, TablesOK, FundedExactlyOnce, keys
        <4>2. QED  BY <2>1, <2>6, <2>7, <2>8, <3>4, <3>5, <4>1
      <3>7. QED  BY <3>6 DEF FundedExactlyOnce, keys
    <2>12. TablesOK'
      BY <2>9, <2>10, <2>11 DEF TablesOK
    <2>13. \A u \in Trades : /\ trades[u] # NULL => trades'[u] # NULL
                             /\ holds[u] # NULL => holds'[u] # NULL
      BY <2>1, <2>2, <2>3 DEF Inv, TypeOK
    <2>14. \A s \in Requests \ {r} : req[s].pc = "insertRecord" =>
              holds'[req[s].tradeId] = holds[req[s].tradeId]
      <3>1. TAKE s \in Requests \ {r}
      <3>2. HAVE req[s].pc = "insertRecord"
      <3>3. req[s].locks = {"trade", "hold"} /\ req[s].tradeId \in Trades
        BY <3>2, AtPc, OpAt DEF RequestOK, FundOK
      <3>4. req[s].tradeId # t
        BY <2>1, <3>3 DEF Inv, LocksExclusive
      <3>5. QED  BY <2>6, <3>3, <3>4
    <2>15. QED
      BY <2>3, <2>5, <2>12, <2>13, <2>14, Commit
  <1>3. CASE records[req[r].key] # NULL
    <2>1. Finish(r, "error") /\ UNCHANGED <<tables, clock>>
      BY <1>3 DEF FundInsertRecord, tables
    <2>2. QED  BY <1>1, <2>1, FinishQuiet DEF Status
  <1>4. QED  BY <1>2, <1>3

LEMMA CommitReleaseStep ==
    ASSUME Inv, NEW r \in Requests, CommitRelease(r)
    PROVE  Inv'
  <1>0. PICK t \in Trades : t = req[r].tradeId
    BY SavedRow DEF CommitRelease, Saves
  <1> USE <1>0
  <1>1. req[r].pc = "saveTrade" /\ RequestOK(req[r]) /\ InFlight(r)
        /\ req[r].op = "RELEASE"
    BY AtPc DEF CommitRelease, Saves
  <1>2. /\ t \in Trades /\ trades[t] \in TradeRow
        /\ Updated(r) \in TradeRow /\ Updated(r) # NULL
        /\ Updated(r).state \in {trades[t].state, req[r].mem.state}
    BY <1>1, SavedRow
  <1>3. /\ req[r].mem.state = "RELEASED" /\ holds[t] # NULL
        /\ reports[t] = "PASS"
        /\ req[r].entry \in LedgerEntry /\ req[r].entry.tradeId = t
        /\ req[r].entry.type = "TRANSFERRED"
    BY <1>1 DEF RequestOK, ReleaseOK, EntryOK, SavePc, Paid
  <1>4. req' = [req EXCEPT ![r] = Idle] /\ TypeOK'
    BY <1>1, <1>2, <1>3, FinishType
    DEF CommitRelease, Inv, TypeOK, Status, EscrowHoldStatus
  <1>5. \A u \in Trades : u # t => State(u)' = State(u) /\ holds'[u] = holds[u]
    BY DEF CommitRelease, Inv, TypeOK, State
  <1>6. /\ State(t)' \in {State(t), "RELEASED"} /\ holds'[t] = "RELEASED"
        /\ "RELEASED" # NULL
    BY <1>1, <1>2, <1>3, StoreAssumption
    DEF CommitRelease, Inv, TypeOK, State, RequestOK, EscrowHoldStatus
  <1>7. ShippedOnlyIfFunded' /\ ProgressOnlyIfPassed'
    BY <1>3, <1>5, <1>6
    DEF CommitRelease, Inv, TablesOK, ShippedOnlyIfFunded,
        ProgressOnlyIfPassed, Funded
  <1>8. \A u \in Trades : u # t =>
            ((\E e \in ledger' : e.tradeId = u /\ e.type = "TRANSFERRED")
              <=> \E e \in ledger : e.tradeId = u /\ e.type = "TRANSFERRED")
    BY <1>3 DEF CommitRelease
  <1>9. \E e \in ledger' : e.tradeId = t /\ e.type = "TRANSFERRED"
    BY <1>3 DEF CommitRelease
  <1>10. PayoutMatchesTransfer'
    BY <1>5, <1>6, <1>8, <1>9 DEF Inv, TablesOK, PayoutMatchesTransfer
  <1>11. VerdictOnLedger'
    <2>1. ledger' = ledger \cup {req[r].entry} /\ reports' = reports
      BY DEF CommitRelease
    <2>2. \A u \in Trades :
              {e \in ledger' : e.tradeId = u /\ e.type # "TRANSFERRED"}
                = {e \in ledger : e.tradeId = u /\ e.type # "TRANSFERRED"}
      BY <1>3, <2>1
    <2>3. QED  BY <2>1, <2>2 DEF Inv, TablesOK, VerdictOnLedger
  <1>12. FundedExactlyOnce'
    <2>1. \A u \in Trades : holds'[u] = NULL <=> holds[u] = NULL
      BY <1>3, <1>5, <1>6
    <2>2. QED
      BY <2>1 DEF CommitRelease, Inv, TablesOK, FundedExactlyOnce
  <1>13. TablesOK'
    BY <1>7, <1>10, <1>11, <1>12 DEF TablesOK
  <1>14. \A u \in Trades : /\ trades[u] # NULL => trades'[u] # NULL
                           /\ holds[u] # NULL => holds'[u] # NULL
    BY <1>2, <1>5, <1>6 DEF CommitRelease, Inv, TypeOK
  <1>15. \A s \in Requests \ {r} : req[s].pc = "insertRecord" =>
            holds'[req[s].tradeId] = holds[req[s].tradeId]
    <2>1. TAKE s \in Requests \ {r}
    <2>2. HAVE req[s].pc = "insertRecord"
    <2>3. holds[req[s].tradeId] = NULL /\ req[s].tradeId \in Trades
      BY <2>2, AtPc, OpAt DEF RequestOK, FundOK
    <2>4. QED  BY <1>3, <1>5, <2>3
  <1>16. QED
    BY <1>4, <1>13, <1>14, <1>15, Commit DEF CommitRelease

-----------------------------------------------------------------------------
(* The invariant. *)

LEMMA InitInv == Init => Inv
  <1> SUFFICES ASSUME Init PROVE Inv
    OBVIOUS
  <1>1. TypeOK
    BY IdleOK DEF Init, TypeOK
  <1>2. \A r \in Requests : RequestOK(req[r])
    BY IdleOK DEF Init
  <1>3. LocksExclusive
    BY IdleOK DEF Init, LocksExclusive
  <1>4. \A t \in Trades : State(t) = NULL /\ holds[t] = NULL
    BY DEF Init, State
  <1>5. ShippedOnlyIfFunded /\ ProgressOnlyIfPassed /\ PayoutMatchesTransfer
    BY <1>4, HoursAssumption, StoreAssumption, StatesOf
    DEF Init, ShippedOnlyIfFunded, ProgressOnlyIfPassed, PayoutMatchesTransfer,
        Funded, EscrowHoldStatus
  <1>6. VerdictOnLedger /\ FundedExactlyOnce
    BY DEF Init, VerdictOnLedger, FundedExactlyOnce
  <1>7. QED  BY <1>1, <1>2, <1>3, <1>5, <1>6 DEF Inv, TablesOK

LEMMA StutterInv ==
    ASSUME Inv, UNCHANGED vars
    PROVE  Inv'
  <1>1. TypeOK'
    BY DEF Inv, TypeOK, vars
  <1>2. (\A r \in Requests : RequestOK(req[r]))' /\ LocksExclusive'
    BY DEF vars, Inv, LocksExclusive, RequestOK, CreateOK, SubmitOK,
       ProgressOK, FundOK, VerdictOK, ReleaseOK, EntryOK, Paid
  <1>3. TablesOK'
    BY TablesSame DEF vars, tables, Inv
  <1>4. QED  BY <1>1, <1>2, <1>3 DEF Inv

LEMMA ServeStep ==
    ASSUME Inv, NEW r \in Requests, Serve(r)
    PROVE  Inv'
  <1>1. CASE SelectTrade(r) \/ SaveRefused(r)
    BY <1>1, SelectTradeStep, SaveRefusedStep
  <1>2. CASE (\E t \in Trades : CreateInsert(r, t)) \/ CommitSave(r)
    BY <1>2, CreateInsertStep, CommitSaveStep
  <1>3. CASE \/ VerdictFindReport(r) \/ VerdictInsertReport(r)
             \/ VerdictAppend(r) \/ CommitVerdict(r)
    BY <1>3, VerdictFindReportStep, VerdictInsertReportStep, VerdictAppendStep,
       CommitVerdictStep
  <1>4. CASE \/ FundLoadTrade(r) \/ FundFindHold(r) \/ FundSaveTrade(r)
             \/ FundInsertHold(r) \/ FundInsertRecord(r)
    BY <1>4, FundLoadTradeStep, FundFindHoldStep, FundSaveTradeStep,
       FundInsertHoldStep, FundInsertRecordStep
  <1>5. CASE \/ ReleaseFindHold(r) \/ ReleaseSelectHold(r)
             \/ ReleaseUpdateHold(r) \/ ReleaseAppend(r) \/ CommitRelease(r)
    BY <1>5, ReleaseFindHoldStep, ReleaseSelectHoldStep, ReleaseUpdateHoldStep,
       ReleaseAppendStep, CommitReleaseStep
  <1>6. QED  BY <1>1, <1>2, <1>3, <1>4, <1>5 DEF Serve

LEMMA NextInv ==
    ASSUME Inv, [Next]_vars
    PROVE  Inv'
  <1>1. CASE Tick
    BY <1>1, TickStep
  <1>2. ASSUME NEW r \in Requests, Arrive(r) PROVE Inv'
    BY <1>2, ArriveStep
  <1>3. ASSUME NEW r \in Requests, Serve(r) PROVE Inv'
    BY <1>3, ServeStep
  <1>4. ASSUME NEW r \in Requests, DeadlockVictim(r) \/ Fail(r) PROVE Inv'
    BY <1>4, DeadlockVictimStep, FailStep
  <1>5. CASE UNCHANGED vars
    BY <1>5, StutterInv
  <1>6. QED  BY <1>1, <1>2, <1>3, <1>4, <1>5 DEF Next

\* Inv holds in every reachable state: whatever calls are in flight, each knows
\* what its operation needs of the tables, and locks exclude each other.
THEOREM Invariance == Spec => []Inv
  <1>1. Inv /\ [Next]_vars => Inv'
    BY NextInv
  <1>2. QED  BY <1>1, InitInv, PTL DEF Spec

\* Tables, requests in memory and answers stay well typed.
THEOREM TypeCorrect == Spec => []TypeOK
  <1>1. Inv => TypeOK
    BY DEF Inv
  <1>2. QED  BY <1>1, Invariance, PTL

\* However calls interleave, die or retry, a trade from ESCROW_FUNDED on has
\* its hold: fundEscrow writes state and hold in one transaction and no stale
\* save brings the state back without it.
THEOREM GoodsNeedFunds == Spec => []ShippedOnlyIfFunded
  <1>1. Inv => ShippedOnlyIfFunded
    BY DEF Inv, TablesOK
  <1>2. QED  BY <1>1, Invariance, PTL

\* A trade past authentication has the PASS report, and AUTH_FAILED another
\* one: recordAuthenticationVerdict writes the state with the report, and the
\* unique trade_id keeps a second verdict from replacing it.
THEOREM VerdictsDecide == Spec => []ProgressOnlyIfPassed
  <1>1. Inv => ProgressOnlyIfPassed
    BY DEF Inv, TablesOK
  <1>2. QED  BY <1>1, Invariance, PTL

\* A hold is RELEASED exactly when the ledger shows the transfer, and before
\* the trade is: release is all or nothing although two releases may overlap.
THEOREM PayoutsAreTransfers == Spec => []PayoutMatchesTransfer
  <1>1. Inv => PayoutMatchesTransfer
    BY DEF Inv, TablesOK
  <1>2. QED  BY <1>1, Invariance, PTL

\* Every report has exactly one ledger entry, of the type its verdict calls
\* for, and no entry comes without its report: recordAuthenticationVerdict
\* commits the two together, and at most once per trade.
THEOREM VerdictsAreRecorded == Spec => []VerdictOnLedger
  <1>1. Inv => VerdictOnLedger
    BY DEF Inv, TablesOK
  <1>2. QED  BY <1>1, Invariance, PTL

\* A trade has a hold exactly when one idempotency key, and only one, has funded
\* it: whatever retries, keys and lost replies, fundEscrow takes money once.
THEOREM MoneyIsTakenOnce == Spec => []FundedExactlyOnce
  <1>1. Inv => FundedExactlyOnce
    BY DEF Inv, TablesOK
  <1>2. QED  BY <1>1, Invariance, PTL

-----------------------------------------------------------------------------
(* The books. *)

\* Steps of Serve that commit nothing.
LEMMA ServeCommits ==
    ASSUME NEW r \in Requests, Serve(r), ~UNCHANGED <<holds, reports, records, ledger>>
    PROVE  FundInsertRecord(r) \/ CommitVerdict(r) \/ CommitRelease(r)
  BY DEF Serve, CreateInsert, SelectTrade, SaveRefused, CommitSave,
     VerdictFindReport, VerdictInsertReport, VerdictAppend, AppendEntry,
     FundLoadTrade, FundFindHold, FundSaveTrade, FundInsertHold,
     ReleaseFindHold, ReleaseSelectHold, ReleaseUpdateHold, ReleaseAppend,
     tables

LEMMA OthersCommitNothing ==
    ASSUME NEW r \in Requests, Arrive(r) \/ DeadlockVictim(r) \/ Fail(r)
    PROVE  UNCHANGED <<holds, reports, records, ledger>>
  <1>1. Arrive(r) => UNCHANGED tables
    <2>1. \A buyer \in Users, w \in Watches :
              CreateTrade(r, buyer, w) => UNCHANGED tables
      BY DEF CreateTrade
    <2>2. \A t \in Trades, verdict \in AuthVerdict :
              MarkDelivered(r, t) \/ RecordVerdict(r, t, verdict)
                  => UNCHANGED tables
      BY DEF MarkDelivered, RecordVerdict
    <2>3. \A t \in Trades, user \in Users :
              \/ SubmitForAuth(r, t, user) \/ MarkShipped(r, t, user)
              \/ Release(r, t, user) \/ Dispute(r, t, user)
              => UNCHANGED tables
      BY DEF SubmitForAuth, MarkShipped, Release, Dispute
    <2>4. \A t \in Trades, user \in Users, key \in Keys, body \in Bodies :
              FundEscrow(r, t, user, key, body) => UNCHANGED tables
      BY DEF FundEscrow
    <2>5. AuthVerdict # {}
      BY DEF AuthVerdict
    <2>6. QED  BY <2>1, <2>2, <2>3, <2>4, <2>5 DEF Arrive
  <1>2. DeadlockVictim(r) \/ Fail(r) => UNCHANGED tables
    BY DEF DeadlockVictim, Fail
  <1>3. QED  BY <1>1, <1>2 DEF tables

LEMMA StepBooks ==
    ASSUME Inv, [Next]_vars
    PROVE  [BooksGrow]_vars
  <1>1. CASE UNCHANGED <<holds, reports, records, ledger>>
    BY <1>1 DEF BooksGrow
  <1>2. ASSUME NEW r \in Requests, FundInsertRecord(r) PROVE BooksGrow
    <2>1. CASE records[req[r].key] = NULL
      <3>1. /\ holds[req[r].tradeId] = NULL /\ req[r].tradeId \in Trades
            /\ "HELD" # NULL /\ "RELEASED" # NULL
        BY <1>2, AtPc, OpAt, StoreAssumption
        DEF FundInsertRecord, RequestOK, FundOK, EscrowHoldStatus
      <3>2. /\ holds' = [holds EXCEPT ![req[r].tradeId] = "HELD"]
            /\ \E record : records' = [records EXCEPT ![req[r].key] = record]
            /\ UNCHANGED <<reports, ledger>>
        BY <1>2, <2>1 DEF FundInsertRecord
      <3>3. QED
        BY <2>1, <3>1, <3>2 DEF BooksGrow, Inv, TypeOK
    <2>2. CASE records[req[r].key] # NULL
      BY <1>2, <2>2 DEF FundInsertRecord, BooksGrow
    <2>3. QED  BY <2>1, <2>2
  <1>3. ASSUME NEW r \in Requests, CommitVerdict(r) PROVE BooksGrow
    <2>1. reports[req[r].tradeId] = NULL
      BY <1>3, AtPc DEF CommitVerdict, Saves, RequestOK, VerdictOK
    <2>2. QED
      BY <1>3, <2>1 DEF CommitVerdict, BooksGrow, Inv, TypeOK
  <1>4. ASSUME NEW r \in Requests, CommitRelease(r) PROVE BooksGrow
    BY <1>4, StoreAssumption
    DEF CommitRelease, BooksGrow, Inv, TypeOK, EscrowHoldStatus
  <1>5. ASSUME NEW r \in Requests, Arrive(r) \/ Serve(r) \/ DeadlockVictim(r) \/ Fail(r)
        PROVE  [BooksGrow]_vars
    BY <1>1, <1>2, <1>3, <1>4, <1>5, ServeCommits, OthersCommitNothing
  <1>6. CASE Tick \/ UNCHANGED vars
    BY <1>1, <1>6 DEF Tick, tables, vars
  <1>7. QED  BY <1>5, <1>6 DEF Next

\* No step takes back a payout, a hold, a verdict, an idempotency record or a
\* ledger entry, crashes, retries and overlapping calls included.
THEOREM BooksNeverShrink == Spec => BooksOnlyGrow
  <1>1. Inv /\ [Next]_vars => [BooksGrow]_vars
    BY StepBooks
  <1>2. QED  BY <1>1, Invariance, PTL DEF Spec, BooksOnlyGrow
-----------------------------------------------------------------------------
(* Waiting. *)

\* Who holds which lock, and at which of its calls.
LEMMA Holders ==
    ASSUME Inv, NEW r \in Requests
    PROVE  /\ "trade" \in req[r].locks =>
                 /\ req[r].op = "FUND_ESCROW"
                 /\ req[r].pc \in {"insertHold", "insertRecord"}
           /\ "hold" \in req[r].locks =>
                 \/ req[r].op = "RELEASE"
                 \/ req[r].op = "FUND_ESCROW" /\ req[r].pc = "insertRecord"
           /\ "report" \in req[r].locks =>
                 /\ req[r].op = "VERDICT"
                 /\ req[r].pc \in {"appendEntry", "selectTrade", "saveTrade"}
           /\ req[r].locks # {} => InFlight(r)
  <1>1. req[r] \in Request /\ RequestOK(req[r])
    BY DEF Inv, TypeOK
  <1>2. CASE req[r].pc = "idle"
    BY <1>1, <1>2 DEF RequestOK
  <1>3. CASE req[r].pc # "idle"
    <2>1. req[r].op \in Operation /\ req[r].locks \subseteq {"trade", "hold", "report"}
      BY <1>3, AtPc DEF Request
    <2>2. \/ req[r].op \in {"CREATE", "SUBMIT_FOR_AUTH", "MARK_SHIPPED",
                            "MARK_DELIVERED", "DISPUTE"}
          \/ req[r].op = "FUND_ESCROW" \/ req[r].op = "VERDICT"
          \/ req[r].op = "RELEASE"
      BY <2>1 DEF Operation
    <2>3. QED
      BY <1>1, <1>3, <2>1, <2>2
      DEF RequestOK, CreateOK, SubmitOK, ProgressOK, FundOK, VerdictOK,
          ReleaseOK, InFlight
  <1>4. QED  BY <1>2, <1>3

\* What a call that waits for another is about to do.
LEMMA Waiters ==
    ASSUME Inv, NEW r \in Requests, NEW s \in Requests, WaitsFor(r, s)
    PROVE  /\ r # s
           /\ \/ /\ req[r].pc \in {"insertTrade", "saveTrade"}
                 /\ "trade" \in req[s].locks
                 /\ \/ req[s].tradeId = req[r].tradeId
                    \/ isActiveTradeState(req[r].mem.state)
              \/ /\ req[r].pc \in {"insertHold", "updateHold"}
                 /\ "hold" \in req[s].locks
                 /\ req[s].tradeId = req[r].tradeId
              \/ /\ req[r].pc = "insertReport"
                 /\ "report" \in req[s].locks
                 /\ req[s].tradeId = req[r].tradeId
  <1>1. CASE req[s].tradeId = req[r].tradeId /\ Needs(r) \cap req[s].locks # {}
    <2>1. PICK lock \in Needs(r) : lock \in req[s].locks
      BY <1>1
    <2>2. \/ req[r].pc = "saveTrade" /\ lock = "trade"
          \/ req[r].pc \in {"insertHold", "updateHold"} /\ lock = "hold"
          \/ req[r].pc = "insertReport" /\ lock = "report"
      BY <2>1 DEF Needs
    <2>3. QED  BY <1>1, <2>1, <2>2 DEF WaitsFor
  <1>2. CASE IndexBusy(r, s)
    BY <1>2 DEF IndexBusy, WaitsFor
  <1>3. QED  BY <1>1, <1>2 DEF WaitsFor

\* A call that is waited for while it waits itself: fundEscrow with the trade,
\* a verdict with its report, or release with the hold.
LEMMA WaitingHolder ==
    ASSUME Inv, NEW r \in Requests, NEW s \in Requests, NEW u \in Requests,
           WaitsFor(r, s), WaitsFor(s, u)
    PROVE  \/ /\ req[s].op = "FUND_ESCROW" /\ "trade" \in req[s].locks
              /\ req[u].op = "RELEASE" /\ "hold" \in req[u].locks
              /\ req[u].tradeId = req[s].tradeId
           \/ /\ req[s].op = "RELEASE" /\ "hold" \in req[s].locks
              /\ req[u].op = "FUND_ESCROW" /\ "trade" \in req[u].locks
              /\ req[u].tradeId = req[s].tradeId
           \/ /\ req[s].op = "VERDICT" /\ req[s].pc = "saveTrade"
              /\ req[r].pc = "insertReport"
              /\ req[u].op = "FUND_ESCROW" /\ "trade" \in req[u].locks
  <1>1. req[s].locks # {} /\ req[u].locks # {}
    BY Waiters
  <1>2. /\ req[s] \in Request /\ RequestOK(req[s]) /\ req[s].op \in Operation
        /\ req[s].pc # "idle"
    BY <1>1, Holders, AtPc DEF InFlight
  <1>3. \A lock \in req[s].locks : req[u].tradeId = req[s].tradeId
                                       => lock \notin req[u].locks
    BY Waiters DEF Inv, LocksExclusive
  <1>4. CASE req[s].op = "FUND_ESCROW"
    <2>1. req[s].pc \in {"insertHold", "insertRecord"}
      BY <1>1, <1>2, <1>4 DEF RequestOK, FundOK
    <2>2. /\ req[s].pc = "insertHold" /\ "hold" \in req[u].locks
          /\ req[u].tradeId = req[s].tradeId
      BY <2>1, Waiters
    <2>3. "trade" \in req[s].locks
      BY <1>2, <1>4, <2>2 DEF RequestOK, FundOK
    <2>4. req[u].op = "RELEASE"
      <3>1. "trade" \notin req[u].locks
        BY <1>3, <2>2, <2>3
      <3>2. ASSUME req[u].op = "FUND_ESCROW", req[u].pc = "insertRecord"
            PROVE  FALSE
        BY <3>1, <3>2 DEF Inv, RequestOK, FundOK
      <3>3. QED  BY <2>2, <3>2, Holders
    <2>5. QED  BY <1>4, <2>2, <2>3, <2>4
  <1>5. CASE req[s].op = "RELEASE"
    <2>1. req[s].locks = {"hold"} /\ req[s].mem.state = "RELEASED"
      BY <1>1, <1>2, <1>5 DEF RequestOK, ReleaseOK
    <2>2. req[s].pc \notin {"insertTrade", "insertHold", "insertReport"}
      BY <1>2, <1>5 DEF RequestOK, ReleaseOK
    <2>3. ~isActiveTradeState(req[s].mem.state)
      BY <2>1 DEF isActiveTradeState, TERMINAL_STATES
    <2>4. "trade" \in req[u].locks /\ req[u].tradeId = req[s].tradeId
      BY <1>3, <2>1, <2>2, <2>3, Waiters
    <2>5. QED  BY <1>5, <2>1, <2>4, Holders
  <1>6. CASE req[s].op = "VERDICT"
    <2>1. /\ req[s].locks = {"report"}
          /\ req[s].pc \in {"appendEntry", "selectTrade", "saveTrade"}
      BY <1>1, <1>2, <1>6 DEF RequestOK, VerdictOK
    <2>2. req[r].pc = "insertReport"
      BY <2>1, Waiters
    <2>3. req[s].pc = "saveTrade" /\ "trade" \in req[u].locks
      BY <2>1, Waiters
    <2>4. QED  BY <1>6, <2>2, <2>3, Holders
  <1>7. req[s].op \in {"FUND_ESCROW", "RELEASE", "VERDICT"}
    BY <1>1, <1>2
    DEF Operation, RequestOK, CreateOK, SubmitOK, ProgressOK
  <1>8. QED  BY <1>4, <1>5, <1>6, <1>7

\* fundEscrow and release of one trade are the only calls that ever wait for
\* each other, whatever else is in flight.
THEOREM DeadlocksAreFundAndRelease == Spec => []OnlyFundAndReleaseDeadlock
  <1>1. ASSUME Inv, NEW r \in Requests, NEW s \in Requests,
               WaitsFor(r, s), WaitsFor(s, r)
        PROVE  /\ req[r].tradeId = req[s].tradeId
               /\ {req[r].op, req[s].op} = {"FUND_ESCROW", "RELEASE"}
    <2>1. req[s].op # "VERDICT"
      <3>1. req[s].op = "VERDICT" => req[r].pc = "insertReport"
                                     /\ "trade" \in req[r].locks
        BY <1>1, WaitingHolder
      <3>2. QED  BY <1>1, <3>1, Holders
    <2>2. QED  BY <1>1, <2>1, WaitingHolder
  <1>2. Inv => OnlyFundAndReleaseDeadlock
    BY <1>1 DEF OnlyFundAndReleaseDeadlock
  <1>3. QED  BY <1>2, Invariance, PTL

\* Calls that can only wait for each other.
Circle(S) == S # {} /\ \A r \in S : \E s \in S : WaitsFor(r, s)

\* Every circle of waiting calls holds two that wait for each other.
PairInEveryCircle ==
    \A S \in SUBSET Requests :
        Circle(S) => \E r, s \in S : WaitsFor(r, s) /\ WaitsFor(s, r)

\* Two calls of a circle, each with what the other wants: they hold the trade
\* and the hold of the same trade, and no third call can hold either.
LEMMA FundMeetsRelease ==
    ASSUME Inv, NEW S \in SUBSET Requests, Circle(S), NEW r \in S, NEW s \in S,
           WaitsFor(r, s), req[s].op = "FUND_ESCROW"
    PROVE  \E u \in S : WaitsFor(s, u) /\ WaitsFor(u, s)
  <1>1. PICK u \in S : WaitsFor(s, u)
    BY DEF Circle
  <1>2. PICK v \in S : WaitsFor(u, v)
    BY DEF Circle
  <1>3. /\ "trade" \in req[s].locks /\ req[u].op = "RELEASE"
        /\ req[u].tradeId = req[s].tradeId
    BY <1>1, WaitingHolder
  <1>4. "trade" \in req[v].locks /\ req[v].tradeId = req[u].tradeId
    BY <1>1, <1>2, <1>3, WaitingHolder
  <1>5. v = s
    BY <1>3, <1>4 DEF Inv, LocksExclusive
  <1>6. QED  BY <1>1, <1>2, <1>5

LEMMA CircleHasPair ==
    ASSUME Inv
    PROVE  PairInEveryCircle
  <1> SUFFICES ASSUME NEW S \in SUBSET Requests, Circle(S)
               PROVE  \E r, s \in S : WaitsFor(r, s) /\ WaitsFor(s, r)
    BY DEF PairInEveryCircle
  <1>1. PICK r \in S : TRUE
    BY DEF Circle
  <1>2. PICK s \in S : WaitsFor(r, s)
    BY DEF Circle
  <1>3. PICK u \in S : WaitsFor(s, u)
    BY DEF Circle
  <1>4. CASE req[s].op = "FUND_ESCROW"
    BY <1>2, <1>4, FundMeetsRelease
  <1>5. CASE req[u].op = "FUND_ESCROW"
    BY <1>3, <1>5, FundMeetsRelease
  <1>6. QED  BY <1>2, <1>3, <1>4, <1>5, WaitingHolder

\* However many calls wait in a circle, two of them wait for each other: a
\* deadlock detector that breaks pairs breaks every circle.
THEOREM PairsAreEnough == Spec => []PairInEveryCircle
  BY CircleHasPair, Invariance, PTL

\* Something can always go on: while calls are in flight, one of them waits for
\* nobody, or two wait for each other and the database ends one of them.
NoStandstill ==
    (\E r \in Requests : InFlight(r)) =>
        \E r \in Requests :
            /\ InFlight(r)
            /\ ~Blocked(r) \/ \E s \in Requests : WaitsFor(r, s) /\ WaitsFor(s, r)

\* Waits for row locks and for the unique index never bring the server to a
\* standstill, for any number of calls in flight.
THEOREM ServerGoesOn == Spec => []NoStandstill
  <1>1. ASSUME Inv, NEW q \in Requests, InFlight(q),
               \A r \in Requests : InFlight(r) => Blocked(r)
        PROVE  \E r \in Requests :
                  InFlight(r) /\ \E s \in Requests : WaitsFor(r, s) /\ WaitsFor(s, r)
    <2> DEFINE S == {r \in Requests : InFlight(r)}
    <2>1. \A r \in S, s \in Requests : WaitsFor(r, s) => s \in S
      BY <1>1, Waiters, Holders
    <2>2. q \in S /\ \A r \in S : \E s \in Requests : WaitsFor(r, s)
      BY <1>1 DEF Blocked
    <2> HIDE DEF S
    <2>3. Circle(S) /\ PairInEveryCircle
      BY <1>1, <2>1, <2>2, CircleHasPair DEF Circle
    <2>4. \E r, s \in S : WaitsFor(r, s) /\ WaitsFor(s, r)
      BY <2>3 DEF PairInEveryCircle, S
    <2>5. QED  BY <2>4 DEF S
  <1>2. Inv => NoStandstill
    BY <1>1 DEF NoStandstill
  <1>3. QED  BY <1>2, Invariance, PTL
=============================================================================
