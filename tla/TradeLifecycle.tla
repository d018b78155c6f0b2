---------------------------- MODULE TradeLifecycle ----------------------------
(* The pipeline as an implementation of Lifecycle: rows are the sales. *)
EXTENDS TradePipeline

Sale(t) == IF trades[t] = NULL THEN NULL
                               ELSE <<trades[t].watchId, trades[t].buyerId>>

Sales == [t \in Trades |-> Sale(t)]

Stages == [t \in Trades |-> State(t)]

Parties == INSTANCE Lifecycle WITH
    sale    <- Sales,
    stage   <- Stages,
    verdict <- reports,
    money   <- holds

\* For clients who wait for one call on a trade before they make the next, the
\* pipeline is the sale they understand: no call leaves a trade, its verdict and
\* its money apart, wherever it fails.
ImplementsLifecycle == Parties!Spec
=============================================================================
