--------------------------- MODULE TradeQueryProofs ---------------------------
(***************************************************************************)
(* What GET /trades/:id shows of the money, for any prices, any numbers of *)
(* trades and overlapping calls, and any rounding error below a share.     *)
(***************************************************************************)
EXTENDS TradeQuery, TradeRowProofs

USE DEF TradeTable, HoldTable, ReportTable, RecordTable

(* Amounts. *)

\* Whatever errors the doubles make, commission and payout are whole cents that
\* add up to the price, and the commission is 7 percent to the nearest cent.
LEMMA CommissionAddsUp ==
    ASSUME NEW gross \in Nat, NEW e \in Errors, NEW f \in Errors
    PROVE  LET amounts == calculateCommission(gross, e, f) IN
           /\ amounts.grossAmount = gross
           /\ amounts.commissionAmount + amounts.netPayout = gross
           /\ 100 * amounts.commissionAmount - 7 * gross \in -50..50
           /\ 100 * amounts.netPayout - 93 * gross \in -50..50
  <1> DEFINE c == roundMoney(Share(gross) + e)
             n == roundMoney((gross - c) * Cent + f)
  <1>1. e \in Int /\ f \in Int /\ -100 < e /\ e < 100 /\ -100 < f /\ f < 100
    BY CommissionAssumption DEF Errors, Cent
  <1>2. c = (gross * 700 + e + 5000) \div 10000
    BY <1>1 DEF roundMoney, Share, Cent
  <1>3. /\ c \in Int
        /\ 10000 * c <= gross * 700 + e + 5000
        /\ gross * 700 + e + 5000 < 10000 * c + 10000
    BY <1>1, <1>2
  <1> HIDE DEF c
  <1>4. n = ((gross - c) * 10000 + f + 5000) \div 10000
    BY <1>1, <1>3 DEF roundMoney, Cent
  <1>5. n = gross - c
    BY <1>1, <1>3, <1>4
  <1>6. 100 * c - 7 * gross \in -50..50 /\ 100 * n - 93 * gross \in -50..50
    BY <1>1, <1>3, <1>5
  <1>7. calculateCommission(gross, e, f)
          = [grossAmount |-> gross, commissionAmount |-> c, netPayout |-> n]
    BY DEF calculateCommission, c
  <1> HIDE DEF n
  <1>8. QED  BY <1>3, <1>5, <1>6, <1>7

LEMMA AmountsAddUp ==
    ASSUME TypeOK, NEW t \in Trades, Exists(t), NEW amounts \in Amounts(t)
    PROVE  /\ amounts.commissionAmount + amounts.netPayout = amounts.grossAmount
           /\ 100 * amounts.commissionAmount - 7 * amounts.grossAmount \in -50..50
           /\ 100 * amounts.netPayout - 93 * amounts.grossAmount \in -50..50
           /\ amounts.grossAmount \in Nat
  <1>1. PICK e \in Errors, f \in Errors :
            amounts = calculateCommission(PriceOf[trades[t].watchId], e, f)
    BY DEF Amounts
  <1>2. PriceOf[trades[t].watchId] \in Nat
    <2>1. trades[t] \in TradeRow
      BY DEF TypeOK, Exists
    <2>2. trades[t].watchId \in Watches
      BY <2>1 DEF TradeRow
    <2>3. QED  BY <2>2, QueryAssumption
  <1>3. PICK gross \in Nat : gross = PriceOf[trades[t].watchId]
    BY <1>2
  <1>4. amounts = calculateCommission(gross, e, f)
    BY <1>1, <1>3
  <1>5. /\ calculateCommission(gross, e, f).grossAmount = gross
        /\ calculateCommission(gross, e, f).commissionAmount
             + calculateCommission(gross, e, f).netPayout = gross
        /\ 100 * calculateCommission(gross, e, f).commissionAmount - 7 * gross
             \in -50..50
        /\ 100 * calculateCommission(gross, e, f).netPayout - 93 * gross
             \in -50..50
    BY CommissionAddsUp
  <1>6. QED  BY <1>4, <1>5

\* What a trade's own buyer and seller are shown of it.
LEMMA Views ==
    ASSUME NEW t \in Trades, Exists(t), NEW amounts, NEW user
    PROVE  /\ user = trades[t].buyerId =>
                getTradeProjection(t, user, amounts)
                  = {buildBuyerProjection(trades[t], amounts)}
           /\ \A view \in getTradeProjection(t, user, amounts) :
                \/ view = buildBuyerProjection(trades[t], amounts)
                \/ view = buildSellerProjection(trades[t], amounts)
  BY DEF getTradeProjection, BoughtBy, SoldBy

-----------------------------------------------------------------------------
(* What is shown. *)

\* A buyer who is shown a funded amount has money in escrow or paid out: the
\* amount is shown by the state alone, but no stale save brings a state that
\* isFundedState accepts without the hold.
THEOREM NoPhantomMoney == Spec => []ShownMoneyIsThere
  <1>1. Inv /\ NothingIsUndone => ShownMoneyIsThere
    <2> SUFFICES ASSUME Inv, NothingIsUndone, NEW t \in Trades, Exists(t),
                        NEW amounts \in Amounts(t),
                        NEW view \in
                          getTradeProjection(t, trades[t].buyerId, amounts),
                        view.fundedAmount # NULL
                 PROVE  holds[t] # NULL
      BY DEF ShownMoneyIsThere
    <2>1. view = buildBuyerProjection(trades[t], amounts)
      BY Views
    <2>2. isFundedState(trades[t].state)
      BY <2>1 DEF buildBuyerProjection
    <2>3. State(t) \in Funded
      BY <2>2 DEF isFundedState, NothingIsUndone, Served, State, Exists, Funded
    <2>4. QED
      BY <2>3 DEF Inv, TablesOK, ShippedOnlyIfFunded
  <1>2. QED  BY <1>1, Invariance, NothingIsEverUndone, PTL

\* Whatever the price, what the buyer is shown to have paid is what the platform
\* and the seller are shown to get, each share to the nearest cent.
THEOREM EveryCentAccounted == Spec => []NoCentIsLost
  <1>1. TypeOK /\ RowInv => NoCentIsLost
    <2> SUFFICES ASSUME TypeOK, RowInv, NEW t \in Trades, Exists(t),
                        NEW amounts \in Amounts(t),
                        NEW paid \in
                          getTradeProjection(t, trades[t].buyerId, amounts),
                        NEW sold \in getTradeProjection(t, Seller(t), amounts)
                 PROVE  /\ paid.fundedAmount # NULL => paid.fundedAmount
                             = sold.commissionAmount + sold.netPayout
                        /\ 100 * sold.commissionAmount - 7 * sold.grossAmount
                             \in -50..50
                        /\ 100 * sold.netPayout - 93 * sold.grossAmount
                             \in -50..50
      BY DEF NoCentIsLost
    <2>1. paid = buildBuyerProjection(trades[t], amounts)
      BY Views
    <2>2. sold = buildSellerProjection(trades[t], amounts)
      BY DEF RowInv, NotOwn, Exists, Seller, getTradeProjection, BoughtBy, SoldBy
    <2>3. QED
      BY <2>1, <2>2, AmountsAddUp DEF buildBuyerProjection, buildSellerProjection
  <1>2. QED  BY <1>1, TypeCorrect, RowInvariance, PTL
=============================================================================
