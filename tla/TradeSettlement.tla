---------------------------- MODULE TradeSettlement ----------------------------
(* The pipeline as an implementation of Settlement: the tables are its state. *)
EXTENDS TradePipeline

Funding == {t \in Trades : holds[t] # NULL}

Receipts == {<<k, records[k].tradeId>> : k \in {i \in Keys : records[i] # NULL}}

PaidOut == {t \in Trades : holds[t] = "RELEASED"}

\* How often the passports say of a trade what happened.
History ==
    [t \in Trades |->
        [what \in LedgerEntryType |->
            Cardinality({e \in ledger : e.tradeId = t /\ e.type = what})]]

Promise == INSTANCE Settlement WITH
    verdict  <- reports,
    funded   <- Funding,
    receipts <- Receipts,
    paidOut  <- PaidOut,
    history  <- History,
    Line     <- LedgerEntryType

\* However calls interleave, retry and die, verdicts and money look as if each
\* call took effect at once: fundEscrow, release and the verdict are atomic, each
\* writes one line of history, and nobody is judged, charged or paid twice.  A
\* second release that got past the HELD check still writes its TRANSFERRED line
\* (TransferAgain), which is all it can do.
ImplementsSettlement == Promise!Spec
=============================================================================
