------------------------------ MODULE TradeQuery ------------------------------
(***************************************************************************)
(* GET /trades/:id: what the two parties of a trade are shown of it, while *)
(* the pipeline works on it.  A query is one read and changes nothing, so  *)
(* what it returns is an expression of the state.                          *)
(***************************************************************************)
EXTENDS TradePipelineInv, Commission

CONSTANT PriceOf   \* [Watches -> Nat]: watch.askingPrice, in cents

\* The amounts createTrade may have put in the trade's row: the row never
\* changes them, and no call changes a watch's price.
Amounts(t) ==
    {calculateCommission(PriceOf[trades[t].watchId], e, f) : e, f \in Errors}

\* Mutant: the list of states is one short.
isFundedStateShort(state) ==
    state \notin {"DRAFT", "PENDING_AUTH", "AUTH_FAILED", "CANCELLED", "EXPIRED"}

isFundedState(state) ==
    state \notin {"DRAFT", "PENDING_AUTH", "AUTH_PASSED", "AUTH_FAILED",
                  "CANCELLED", "EXPIRED"}

buildBuyerProjection(trade, amounts) ==
    [ state             |-> trade.state,
      fundedAmount      |-> IF isFundedState(trade.state)
                                THEN amounts.grossAmount ELSE NULL,
      escrowDeadline    |-> trade.escrowDeadline,
      disputeWindowEnds |-> trade.disputeWindowEnds,
      trackingNumber    |-> trade.trackingNumber,
      disputeReason     |-> trade.disputeReason ]

buildSellerProjection(trade, amounts) ==
    [ state               |-> trade.state,
      grossAmount         |-> amounts.grossAmount,
      commissionAmount    |-> amounts.commissionAmount,
      netPayout           |-> amounts.netPayout,
      shipmentSlaDeadline |-> trade.shipmentSlaDeadline,
      trackingNumber      |-> trade.trackingNumber ]

\* What user is shown of t: nothing of a trade that does not exist (404) or is
\* somebody else's (403).
getTradeProjection(t, user, amounts) ==
    IF BoughtBy(t, user) THEN {buildBuyerProjection(trades[t], amounts)}
    ELSE IF SoldBy(t, user) THEN {buildSellerProjection(trades[t], amounts)}
    ELSE {}

-----------------------------------------------------------------------------
Seller(t) == SellerOf[trades[t].watchId]

\* A buyer who is shown a funded amount really has money in escrow, or had it
\* paid out: the amount is shown by the trade's state alone, and stale saves
\* may have put that state there.
ShownMoneyIsThere ==
    \A t \in Trades : Exists(t) =>
        \A amounts \in Amounts(t) :
            \A view \in getTradeProjection(t, trades[t].buyerId, amounts) :
                view.fundedAmount # NULL => holds[t] # NULL

\* docs/domain/state-machine.md: "Commission - fixed 7% of gross; netPayout =
\* gross x 0.93", and what the buyer paid is what the platform and the seller
\* get: rounding each in binary floating point loses no cent and moves none.
NoCentIsLost ==
    \A t \in Trades : Exists(t) =>
        \A amounts \in Amounts(t) :
            \A paid \in getTradeProjection(t, trades[t].buyerId, amounts),
               sold \in getTradeProjection(t, Seller(t), amounts) :
                /\ paid.fundedAmount # NULL =>
                     paid.fundedAmount = sold.commissionAmount + sold.netPayout
                /\ 100 * sold.commissionAmount - 7 * sold.grossAmount \in -50..50
                /\ 100 * sold.netPayout - 93 * sold.grossAmount \in -50..50

ASSUME QueryAssumption == PriceOf \in [Watches -> Nat]
=============================================================================
