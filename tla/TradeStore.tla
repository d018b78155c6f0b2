------------------------------ MODULE TradeStore ------------------------------
(***************************************************************************)
(* What the services share: the PostgreSQL tables, the HTTP requests in    *)
(* flight against them, and the rules of the database and of TypeORM that  *)
(* decide how requests interleave.                                         *)
(*                                                                         *)
(* One step of a request is one awaited database call and the JavaScript   *)
(* that runs before the next one.  A transaction keeps what it wrote in    *)
(* its request (mem, verdict, entry and the locks it holds) and puts it in *)
(* the tables at COMMIT: the isolation level is READ COMMITTED, so nobody  *)
(* else sees it earlier, and a rollback leaves nothing behind.             *)
(***************************************************************************)
EXTENDS TradeStateMachine, FiniteSets

CONSTANTS
    Trades, Watches, Users,  \* ids
    SellerOf,                \* [Watches -> Users]: watch.sellerId
    Listed,                  \* the watches whose status is LISTED
    Linked,                  \* the watches whose passport_id is set
    Keys,                    \* Idempotency-Key header values, non-blank
    Bodies,                  \* JSON bodies of fund-escrow calls
    Requests,                \* slots: how many requests can be in flight
    Overlap,                 \* may two requests for one trade be in flight?
    MaxClock                 \* bound on the clock

VARIABLES
    trades,   \* table trades
    holds,    \* table escrow_holds, of each row its status
    reports,  \* table authentication_reports, of each row its verdict
    records,  \* table idempotency_records
    ledger,   \* table ledger_entries, a set of rows
    req,      \* [Requests -> Request]: what each server call holds in memory
    answer,   \* the reply sent in this step, NULL when the step sends none
    clock     \* new Date(), in the smallest unit it tells apart

tables == <<trades, holds, reports, records, ledger>>
vars == <<trades, holds, reports, records, ledger, req, answer, clock>>

-----------------------------------------------------------------------------
Deadline == Nat \cup {NULL}

TradeRow == [ watchId             : Watches,
              buyerId             : Users,
              state               : TradeState,
              escrowDeadline      : Deadline,
              shipmentSlaDeadline : Deadline,
              disputeWindowEnds   : Deadline,
              trackingNumber      : {"text", NULL},
              disputeReason       : {"text", NULL} ]

\* The columns a service ever changes in a loaded trade.
MutableColumn == { "state", "escrowDeadline", "shipmentSlaDeadline",
                   "disputeWindowEnds", "trackingNumber", "disputeReason" }

EscrowHoldStatus == {"HELD", "RELEASED", "REFUNDED"}
AuthVerdict == {"PASS", "FAIL", "INCONCLUSIVE"}
LedgerEntryType == {"AUTHENTICATED", "SERVICED", "TRANSFERRED",
                    "RE_AUTHENTICATED"}

\* A body may carry a tradeId of its own beside whatever else is in it.
Body == [tradeId : Trades \cup {NULL}, rest : Nat]

\* canonicalJson({ tradeId, ...body }): the body's tradeId, if any, wins.
\* SHA-256 is taken to be injective, so the hash is the hashed value.
computeRequestHash(tradeId, body) ==
    [body EXCEPT !.tradeId = IF @ = NULL THEN tradeId ELSE @]

IdempotencyRecord == [tradeId : Trades, requestHash : Body]

\* A watch has one passport, so a passport is named by its watch.  createdAt
\* orders a passport's entries and stands for the hash of the entry;
\* prevHash is the createdAt of the entry hashed as predecessor, 0 for GENESIS.
LedgerEntry == [ passport  : Watches, type : LedgerEntryType, tradeId : Trades,
                 createdAt : Nat, prevHash : Nat ]

Operation == { "CREATE", "SUBMIT_FOR_AUTH", "VERDICT", "FUND_ESCROW",
               "MARK_SHIPPED", "MARK_DELIVERED", "RELEASE", "DISPUTE" }

\* The database call a request waits for next.
Pc == { "idle", "insertTrade", "loadTrade", "findHold", "selectHold",
        "updateHold", "findReport", "insertReport", "appendEntry",
        "selectTrade", "saveTrade", "insertHold", "insertRecord" }

Request == [ pc      : Pc,
             op      : Operation \cup {NULL},
             tradeId : Trades \cup {NULL},
             user    : Users \cup {NULL},
             key     : Keys \cup {NULL},
             body    : Body \cup {NULL},
             verdict : AuthVerdict \cup {NULL},
             mem     : TradeRow \cup {NULL},   \* the loaded Trade entity
             dirty   : SUBSET MutableColumn,   \* columns the UPDATE will set
             entry   : LedgerEntry \cup {NULL},\* written, not yet committed
             locks   : SUBSET {"trade", "hold", "report"} ]

Idle == [ pc |-> "idle", op |-> NULL, tradeId |-> NULL, user |-> NULL,
          key |-> NULL, body |-> NULL, verdict |-> NULL, mem |-> NULL,
          dirty |-> {}, entry |-> NULL, locks |-> {} ]

Status == {"ok", "replay", "rejected", "error", "lost"}

Answer == [ op : Operation, tradeId : Trades \cup {NULL},
            key : Keys \cup {NULL}, body : Body \cup {NULL}, status : Status ]

\* The tables are keyed as their unique constraints allow: trades by id, holds
\* and reports by trade_id, idempotency records by their key.
TradeTable  == [Trades -> TradeRow \cup {NULL}]
HoldTable   == [Trades -> EscrowHoldStatus \cup {NULL}]
ReportTable == [Trades -> AuthVerdict \cup {NULL}]
RecordTable == [Keys -> IdempotencyRecord \cup {NULL}]

TypeOK ==
    /\ trades  \in TradeTable
    /\ holds   \in HoldTable
    /\ reports \in ReportTable
    /\ records \in RecordTable
    /\ ledger  \in SUBSET LedgerEntry
    /\ req     \in [Requests -> Request]
    /\ answer  \in Answer \cup {NULL}
    /\ clock   \in Nat

-----------------------------------------------------------------------------
(* Requests: arrival, progress, reply. *)

InFlight(r) == req[r].pc # "idle"

\* A free slot; without Overlap, clients wait for the previous call on a trade.
MayStart(r, t) ==
    /\ ~InFlight(r)
    /\ Overlap \/ \A s \in Requests : req[s].tradeId # t

Reply(request, status) ==
    [ op |-> request.op, tradeId |-> request.tradeId, key |-> request.key,
      body |-> request.body, status |-> status ]

Become(r, request) ==
    /\ req' = [req EXCEPT ![r] = request]
    /\ answer' = NULL

Goto(r, pc) == Become(r, [req[r] EXCEPT !.pc = pc])

\* An exception or a return: the reply leaves, an open transaction is over.
Finish(r, status) ==
    /\ req' = [req EXCEPT ![r] = Idle]
    /\ answer' = Reply(req[r], status)

\* A call that ends in the step it arrived in.
Refuse(request, status) ==
    /\ answer' = Reply(request, status)
    /\ UNCHANGED req

-----------------------------------------------------------------------------
(* Rows: what repository.save() writes. *)

\* save() of a loaded entity first SELECTs its row and keeps the columns in
\* which the entity differs, NULLs included; it then UPDATEs only those.  Dates
\* are compared by value: two deadlines are equal when set at one clock.  A
\* stale updated_at is among them too, so the UPDATE of a trade is always sent.
Dirty(row, entity) == {c \in MutableColumn : row[c] # entity[c]}

Merge(row, entity, dirty) ==
    LET pick(c) == IF c \in dirty THEN entity[c] ELSE row[c] IN
    [row EXCEPT !.state               = pick("state"),
                !.escrowDeadline      = pick("escrowDeadline"),
                !.shipmentSlaDeadline = pick("shipmentSlaDeadline"),
                !.disputeWindowEnds   = pick("disputeWindowEnds"),
                !.trackingNumber      = pick("trackingNumber"),
                !.disputeReason       = pick("disputeReason")]

\* The trade row that r's UPDATE produces.
Updated(r) == Merge(trades[req[r].tradeId], req[r].mem, req[r].dirty)

-----------------------------------------------------------------------------
(* Locks and unique indexes. *)

\* IDX_one_active_trade_per_watch: unique (watch_id) where state is active.
ActiveOn(w) ==
    {t \in Trades : /\ trades[t] # NULL
                    /\ trades[t].watchId = w
                    /\ isActiveTradeState(trades[t].state)}

\* Mutant: the migration forgets the partial unique index.
NoIndex(t, row) == FALSE

OneActiveViolated(t, row) ==
    /\ isActiveTradeState(row.state)
    /\ ActiveOn(row.watchId) \ {t} # {}

\* The lock that r's next statement needs: on the trade's row, or on the
\* trade_id key of its hold or its report.
Needs(r) ==
    CASE req[r].pc = "saveTrade"                    -> {"trade"}
      [] req[r].pc \in {"insertHold", "updateHold"} -> {"hold"}
      [] req[r].pc = "insertReport"                 -> {"report"}
      [] OTHER                                      -> {}

\* s has written, and not committed, a trade of r's watch that is active only
\* in that new version: r's own active version must wait for s to end.
IndexBusy(r, s) ==
    /\ \/ req[r].pc = "insertTrade"
       \/ req[r].pc = "saveTrade" /\ "state" \in req[r].dirty
    /\ isActiveTradeState(req[r].mem.state)
    /\ "trade" \in req[s].locks
    /\ "state" \in req[s].dirty
    /\ req[s].mem.watchId = req[r].mem.watchId

WaitsFor(r, s) ==
    /\ s # r
    /\ \/ req[s].tradeId = req[r].tradeId /\ Needs(r) \cap req[s].locks # {}
       \/ IndexBusy(r, s)

Blocked(r) == \E s \in Requests : WaitsFor(r, s)

\* Mutant: waits are never given up.
WaitForever(r) == FALSE /\ Finish(r, "error") /\ UNCHANGED <<tables, clock>>

\* PostgreSQL's deadlock detector: of two transactions that wait for each
\* other it cancels one, which rolls back.
DeadlockVictim(r) ==
    /\ \E s \in Requests : WaitsFor(r, s) /\ WaitsFor(s, r)
    /\ Finish(r, "error")
    /\ UNCHANGED <<tables, clock>>

\* The process or its connection dies: whatever was not committed is gone and
\* the client hears nothing.
Fail(r) ==
    /\ InFlight(r)
    /\ Finish(r, "lost")
    /\ UNCHANGED <<tables, clock>>

-----------------------------------------------------------------------------
(* Trade.save(), shared by the services. *)

\* SELECT of the row to be compared with the entity.
SelectTrade(r) ==
    /\ req[r].pc = "selectTrade"
    /\ Become(r, [req[r] EXCEPT
                    !.pc = "saveTrade",
                    !.dirty = Dirty(trades[req[r].tradeId], req[r].mem)])
    /\ UNCHANGED <<tables, clock>>

\* The UPDATE would leave two active trades on the watch: SQLSTATE 23505,
\* which no caller of save(trade) turns into a conflict.
SaveRefused(r) ==
    /\ req[r].pc = "saveTrade"
    /\ ~Blocked(r)
    /\ OneActiveViolated(req[r].tradeId, Updated(r))
    /\ Finish(r, "error")
    /\ UNCHANGED <<tables, clock>>

\* The UPDATE goes through; r's service says what else its step does.
Saves(r) ==
    /\ req[r].pc = "saveTrade"
    /\ ~Blocked(r)
    /\ ~OneActiveViolated(req[r].tradeId, Updated(r))

ASSUME StoreAssumption ==
    /\ IsFiniteSet(Trades) /\ IsFiniteSet(Requests)
    /\ SellerOf \in [Watches -> Users]
    /\ Listed \subseteq Watches /\ Linked \subseteq Watches
    /\ Bodies \subseteq Body
    /\ Overlap \in BOOLEAN
    /\ MaxClock \in Nat
    /\ NULL \notin Trades /\ NULL \notin Users /\ NULL \notin Keys
    /\ NULL \notin Watches /\ NULL # "text"
    /\ NULL \notin Operation \cup EscrowHoldStatus \cup AuthVerdict
    /\ NULL \notin TradeRow \cup IdempotencyRecord \cup LedgerEntry
=============================================================================
