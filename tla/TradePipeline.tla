----------------------------- MODULE TradePipeline -----------------------------
(***************************************************************************)
(* The pipeline: clients call the services in any order, several calls are *)
(* in flight at once, any of them may die, and time passes.                *)
(***************************************************************************)
EXTENDS TradeTransitionService

Init ==
    /\ trades = [t \in Trades |-> NULL]
    /\ holds = [t \in Trades |-> NULL]
    /\ reports = [t \in Trades |-> NULL]
    /\ records = [k \in Keys |-> NULL]
    /\ ledger = {}
    /\ req = [r \in Requests |-> Idle]
    /\ answer = NULL
    /\ clock = 0

\* A client's call arrives and is served up to its first database answer.
Arrive(r) ==
    \/ \E buyer \in Users, w \in Watches : CreateTrade(r, buyer, w)
    \/ \E t \in Trades :
        \/ MarkDelivered(r, t)
        \/ \E verdict \in AuthVerdict : RecordVerdict(r, t, verdict)
        \/ \E user \in Users :
            \/ SubmitForAuth(r, t, user)
            \/ MarkShipped(r, t, user)
            \/ Release(r, t, user)
            \/ Dispute(r, t, user)
            \/ \E key \in Keys, body \in Bodies :
                    FundEscrow(r, t, user, key, body)

\* The server's own progress with a call it has accepted.
Serve(r) ==
    \/ \E t \in Trades : CreateInsert(r, t)
    \/ SelectTrade(r) \/ SaveRefused(r) \/ CommitSave(r)
    \/ VerdictFindReport(r) \/ VerdictInsertReport(r) \/ VerdictAppend(r)
    \/ CommitVerdict(r)
    \/ FundLoadTrade(r) \/ FundFindHold(r) \/ FundSaveTrade(r)
    \/ FundInsertHold(r) \/ FundInsertRecord(r)
    \/ ReleaseFindHold(r) \/ ReleaseSelectHold(r) \/ ReleaseUpdateHold(r)
    \/ ReleaseAppend(r) \/ CommitRelease(r)

Tick ==
    /\ clock < MaxClock
    /\ clock' = clock + 1
    /\ answer' = NULL
    /\ UNCHANGED <<tables, req>>

Next ==
    \/ Tick
    \/ \E r \in Requests :
        Arrive(r) \/ Serve(r) \/ DeadlockVictim(r) \/ Fail(r)

Spec == Init /\ [][Next]_vars

\* Node keeps running what has been awaited; PostgreSQL queues the waiters of a
\* lock first come first served (strong: a waiter is enabled in between), and
\* its deadlock detector runs after deadlock_timeout.
Fairness ==
    \A r \in Requests : SF_vars(Serve(r)) /\ SF_vars(DeadlockVictim(r))

FairSpec == Spec /\ Fairness

-----------------------------------------------------------------------------
(* What holds however the calls interleave. *)

State(t) == IF trades[t] = NULL THEN NULL ELSE trades[t].state

Funded == {"ESCROW_FUNDED", "SHIPPED", "DELIVERED", "DISPUTED", "RELEASED"}

\* A watch never has two trades under way: the partial unique index backs the
\* check in createTrade, and no stale save revives a finished trade next to a
\* new one.
OneActiveTradePerWatch == \A w \in Watches : Cardinality(ActiveOn(w)) <= 1

\* Money is taken once per trade, under exactly one key: a trade has a hold if
\* and only if one idempotency record names it, whatever retries, keys and
\* crashes there were in fundEscrow.
FundedExactlyOnce ==
    \A t \in Trades :
        LET keys == {k \in Keys : records[k] # NULL /\ records[k].tradeId = t}
        IN  IF holds[t] = NULL THEN keys = {} ELSE \E k \in Keys : keys = {k}

\* No goods move and nobody is paid without money in escrow: stale saves
\* included, a trade from ESCROW_FUNDED on has a hold.
ShippedOnlyIfFunded ==
    \A t \in Trades : State(t) \in Funded => holds[t] # NULL

\* Nobody gets past authentication without the verdict that allows it.
ProgressOnlyIfPassed ==
    \A t \in Trades :
        /\ State(t) \in Funded \cup {"AUTH_PASSED"} => reports[t] = "PASS"
        /\ State(t) = "AUTH_FAILED" => reports[t] \in {"FAIL", "INCONCLUSIVE"}

\* The payout and its ledger entry are one: a hold is RELEASED exactly when the
\* passport shows the transfer, and a trade is RELEASED only with its hold.
PayoutMatchesTransfer ==
    \A t \in Trades :
        /\ holds[t] = "RELEASED"
             <=> \E e \in ledger : e.tradeId = t /\ e.type = "TRANSFERRED"
        /\ State(t) = "RELEASED" => holds[t] = "RELEASED"

\* A verdict and its ledger entry are one: every report has exactly one entry,
\* of the type its verdict calls for, and there is no entry without report.
VerdictOnLedger ==
    \A t \in Trades :
        LET entries == {e \in ledger : e.tradeId = t /\ e.type # "TRANSFERRED"}
            type == IF reports[t] = "PASS" THEN "AUTHENTICATED"
                                           ELSE "RE_AUTHENTICATED"
        IN  IF reports[t] = NULL THEN entries = {}
                ELSE \E e \in entries : entries = {e} /\ e.type = type

\* An entry is linked to GENESIS or to an earlier entry of its own passport
\* that was really committed: a rolled back append is never built upon.
LinksAreCommitted ==
    \A e \in ledger :
        \/ e.prevHash = 0
        \/ \E f \in EntriesOf(e.passport, ledger) :
              f.createdAt = e.prevHash /\ f.createdAt < e.createdAt

\* Every call locks rows in an order that cannot close a circle, but for two:
\* fundEscrow has the trade and wants the hold, release of the same trade has
\* the hold and wants the trade.
OnlyFundAndReleaseDeadlock ==
    \A r, s \in Requests :
        WaitsFor(r, s) /\ WaitsFor(s, r) =>
            /\ req[r].tradeId = req[s].tradeId
            /\ {req[r].op, req[s].op} = {"FUND_ESCROW", "RELEASE"}

\* What a step may do to the books: no interleaving returns a released hold to
\* HELD, drops a hold, changes a report or a record, or removes an entry.
BooksGrow ==
    /\ \A t \in Trades :
        /\ holds[t] = "RELEASED" => holds'[t] = "RELEASED"
        /\ holds[t] # NULL => holds'[t] # NULL
        /\ reports[t] # NULL => reports'[t] = reports[t]
    /\ \A k \in Keys : records[k] # NULL => records'[k] = records[k]
    /\ ledger \subseteq ledger'

\* Money only moves forward, and the books are append-only.
BooksOnlyGrow == [][BooksGrow]_vars

\* Every call the server accepts is answered, waits for locks and deadlocks
\* between fundEscrow and release included.
EveryCallAnswered ==
    \A r \in Requests : InFlight(r) ~> ~InFlight(r)

-----------------------------------------------------------------------------
(* What needs the calls on one trade to come one after the other. *)

\* A trade changes only along TRANSITIONS.
LegalTransitions ==
    [][\A t \in Trades :
          State(t) # NULL /\ State(t)' # State(t) =>
            \E a \in DOMAIN TRANSITIONS[State(t)] :
                State(t)' = getNextState(State(t), a)]_vars

\* The hold says what the state says: HELD from ESCROW_FUNDED until release,
\* RELEASED in RELEASED, and no money anywhere else.
FundsMatchState ==
    \A t \in Trades :
        /\ holds[t] = "HELD" <=> State(t) \in Funded \ {"RELEASED"}
        /\ holds[t] = "RELEASED" <=> State(t) = "RELEASED"

\* A row has the deadline of its state.
Dated(row) ==
    /\ row.state = "AUTH_PASSED" => row.escrowDeadline # NULL
    /\ row.state = "ESCROW_FUNDED" => row.shipmentSlaDeadline # NULL
    /\ row.state = "DELIVERED" => row.disputeWindowEnds # NULL

\* No save leaves the state of one call with the deadline of another: a trade
\* that waits for funds, a parcel or a dispute has the deadline its next step
\* is held to.
DeadlinesAreSet == \A t \in Trades : trades[t] # NULL => Dated(trades[t])

\* The public view of a passport that only this code wrote says verified.
ChainVerifies == \A w \in Watches : VerifyChain(w)

\* Once a funding is on record, a retry with the same key, trade and body is
\* answered with it, and the same key with anything else is refused.
ReplayPromise ==
    [][LET done == records'[answer'.key]
           same == [ tradeId |-> answer'.tradeId,
                     requestHash |->
                        computeRequestHash(answer'.tradeId, answer'.body) ]
       IN  answer' # NULL /\ answer'.op = "FUND_ESCROW" =>
             /\ done = same => answer'.status \in {"ok", "replay", "lost"}
             /\ done # NULL /\ done # same
                    => answer'.status \notin {"ok", "replay"}]_vars

\* The deadline of the state t is in has passed.
Overdue(t) ==
    \/ State(t) = "AUTH_PASSED" /\ Passed(trades[t].escrowDeadline, clock)
    \/ State(t) = "ESCROW_FUNDED" /\ Passed(trades[t].shipmentSlaDeadline, clock)
    \/ State(t) = "DELIVERED" /\ Passed(trades[t].disputeWindowEnds, clock)

\* ... and no call has got past its check of the deadline.
Stranded(t) ==
    /\ Overdue(t)
    /\ \A r \in Requests : req[r].tradeId = t => req[r].pc = "loadTrade"

\* A trade nobody works on whose deadline has passed stays where it is for
\* good: nothing expires, refunds or releases it, and no call revives it.
StrandedForGood ==
    [][\A t \in Trades :
          Stranded(t) => Stranded(t)' /\ trades'[t] = trades[t]]_vars

-----------------------------------------------------------------------------
(* What the documents say and concurrent calls, or time, refute. *)

\* docs/domain/state-machine.md: "DISPUTED | Buyer disputed; funds held".
DisputedKeepsFunds ==
    \A t \in Trades : State(t) = "DISPUTED" => holds[t] = "HELD"

\* docs/domain/state-machine.md: "PENDING_AUTH | Queued for authentication; no
\* funds held".
PendingAuthHoldsNoFunds ==
    \A t \in Trades : State(t) = "PENDING_AUTH" => holds[t] = NULL

\* docs/domain/state-machine.md: "Release | DELIVERED -> RELEASED (or DISPUTED
\* -> RELEASED) | Credit seller net | TRANSFERRED", and RELEASED is terminal:
\* a trade is transferred once in its passport.
TransferredOnce ==
    \A e, f \in {i \in ledger : i.type = "TRANSFERRED"} :
        e.tradeId = f.tradeId => e = f
=============================================================================
