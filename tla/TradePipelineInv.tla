--------------------------- MODULE TradePipelineInv ---------------------------
(***************************************************************************)
(* The inductive invariant of TradePipeline: what is true of every request *)
(* in flight, and of the tables because of it.                             *)
(***************************************************************************)
EXTENDS TradePipeline

\* The trade's verdict allows it and its money was taken.
Paid(t) == holds[t] # NULL /\ reports[t] = "PASS"

SavePc == {"selectTrade", "saveTrade"}

EntryOK(q, types) ==
    q.pc \in SavePc =>
        /\ q.entry \in LedgerEntry
        /\ q.entry.tradeId = q.tradeId
        /\ q.entry.type \in types

(* What each operation knows at each of its calls. *)

CreateOK(q) ==
    q.op = "CREATE" =>
        /\ q.pc = "insertTrade" /\ q.locks = {}
        /\ q.mem \in TradeRow /\ q.mem.state = "DRAFT"

SubmitOK(q) ==
    q.op = "SUBMIT_FOR_AUTH" =>
        /\ q.pc \in SavePc /\ q.locks = {}
        /\ q.mem.state = "PENDING_AUTH"

ProgressOK(q) ==
    q.op \in {"MARK_SHIPPED", "MARK_DELIVERED", "DISPUTE"} =>
        /\ q.pc \in SavePc /\ q.locks = {}
        /\ q.mem.state \in {"SHIPPED", "DELIVERED", "DISPUTED"}
        /\ Paid(q.tradeId)

FundOK(q) ==
    q.op = "FUND_ESCROW" =>
        /\ q.pc \in {"loadTrade", "findHold", "selectTrade", "saveTrade",
                     "insertHold", "insertRecord"}
        /\ q.key \in Keys /\ q.body \in Body
        /\ q.pc = "insertHold" => q.locks = {"trade"}
        /\ q.pc = "insertRecord" => q.locks = {"trade", "hold"}
        /\ q.pc \notin {"insertHold", "insertRecord"} => q.locks = {}
        /\ q.pc # "loadTrade" => reports[q.tradeId] = "PASS"
        /\ q.pc = "findHold" => q.mem.state = "AUTH_PASSED"
        /\ q.pc \notin {"loadTrade", "findHold"} => q.mem.state = "ESCROW_FUNDED"
        /\ q.pc = "insertRecord" => holds[q.tradeId] = NULL

VerdictOK(q) ==
    q.op = "VERDICT" =>
        /\ q.verdict \in AuthVerdict
        /\ \/ /\ q.pc \in {"findReport", "insertReport"} /\ q.locks = {}
              /\ q.mem.state = "PENDING_AUTH"
           \/ /\ q.pc \in {"appendEntry", "selectTrade", "saveTrade"}
              /\ q.locks = {"report"}
              /\ reports[q.tradeId] = NULL
              /\ q.mem.state = IF q.verdict = "PASS" THEN "AUTH_PASSED"
                                                     ELSE "AUTH_FAILED"
        /\ EntryOK(q, IF q.verdict = "PASS" THEN {"AUTHENTICATED"}
                                            ELSE {"RE_AUTHENTICATED"})

ReleaseOK(q) ==
    q.op = "RELEASE" =>
        /\ q.pc \in {"findHold", "selectHold", "updateHold", "appendEntry",
                     "selectTrade", "saveTrade"}
        /\ q.locks \subseteq {"hold"}
        /\ q.mem.state = "RELEASED"
        /\ Paid(q.tradeId)
        /\ EntryOK(q, {"TRANSFERRED"})

RequestOK(q) ==
    /\ q.op = NULL <=> q.pc = "idle"
    /\ q.pc = "idle" => q.locks = {}
    /\ q.pc \notin {"idle", "insertTrade"} => q.tradeId \in Trades
    /\ q.pc \notin {"idle", "insertTrade", "loadTrade"} =>
            trades[q.tradeId] # NULL /\ q.mem \in TradeRow
    /\ CreateOK(q) /\ SubmitOK(q) /\ ProgressOK(q)
    /\ FundOK(q) /\ VerdictOK(q) /\ ReleaseOK(q)

\* Of two requests for one trade, never both hold the same lock.
LocksExclusive ==
    \A r, s \in Requests :
        r # s /\ req[r].tradeId = req[s].tradeId
            => req[r].locks \cap req[s].locks = {}

\* What the tables say of each other.
TablesOK ==
    /\ ShippedOnlyIfFunded
    /\ ProgressOnlyIfPassed
    /\ PayoutMatchesTransfer
    /\ VerdictOnLedger
    /\ FundedExactlyOnce

\* The invariant that TradePipelineProofs proves inductive: each request in
\* flight knows what its operation needs (a report, a hold, a lock) of the
\* tables, locks exclude each other, and the tables are sound.
Inv ==
    /\ TypeOK
    /\ \A r \in Requests : RequestOK(req[r])
    /\ LocksExclusive
    /\ TablesOK
=============================================================================
