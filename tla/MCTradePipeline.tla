---------------------------- MODULE MCTradePipeline ----------------------------
(* Small instances of TradePipeline for TLC. *)
EXTENDS TradeSettlement, TradeLifecycle, TradeQuery, TLC

CONSTANTS t1, t2, w1, w2, k1, k2, r1, r2, r3

MCUsers == {"seller", "buyer"}
\* Half a dollar: its commission, 3.5 cents, is rounded either way.
MCPriceOf == [w \in Watches |-> 50]
MCSellerOf == [w \in Watches |-> "seller"]

\* An empty body, and one with something in it.
EmptyBody == [tradeId |-> NULL, rest |-> 0]
OtherBody == [tradeId |-> NULL, rest |-> 1]
OneBody == {EmptyBody}
TwoBodies == {EmptyBody, OtherBody}

\* No step reads the reply of the step before: states that differ in it alone
\* have the same future.
WithoutAnswer == <<tables, req, clock>>

Symmetry == Permutations(Trades) \cup Permutations(Keys) \cup Permutations(Requests)
=============================================================================
