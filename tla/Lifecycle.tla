------------------------------- MODULE Lifecycle -------------------------------
(***************************************************************************)
(* A sale from offer to payout as its parties understand it: each step     *)
(* happens at one instant and to one trade, and takes its verdict or its   *)
(* money along.  A watch is in one sale at a time, and nobody buys from    *)
(* himself.                                                                *)
(***************************************************************************)
CONSTANTS NULL, Trades, Watches, Users, SellerOf

VARIABLES
    sale,      \* [Trades -> <<watch, buyer>> or NULL]
    stage,     \* [Trades -> state or NULL]
    verdict,   \* [Trades -> verdict or NULL]
    money      \* [Trades -> "HELD", "RELEASED" or NULL]

vars == <<sale, stage, verdict, money>>

UnderWay == { "DRAFT", "PENDING_AUTH", "AUTH_PASSED", "ESCROW_FUNDED",
              "SHIPPED", "DELIVERED", "DISPUTED" }

Init ==
    /\ sale = [t \in Trades |-> NULL]
    /\ stage = [t \in Trades |-> NULL]
    /\ verdict = [t \in Trades |-> NULL]
    /\ money = [t \in Trades |-> NULL]

Moves(t, from, to) ==
    /\ stage[t] = from
    /\ stage' = [stage EXCEPT ![t] = to]

Open(t, w, buyer) ==
    /\ buyer # SellerOf[w]
    /\ \A u \in Trades : stage[u] \in UnderWay => sale[u][1] # w
    /\ Moves(t, NULL, "DRAFT")
    /\ sale' = [sale EXCEPT ![t] = <<w, buyer>>]
    /\ UNCHANGED <<verdict, money>>

\* Submitted, shipped, delivered, disputed.
Handle(t) ==
    /\ \/ Moves(t, "DRAFT", "PENDING_AUTH")
       \/ Moves(t, "ESCROW_FUNDED", "SHIPPED")
       \/ Moves(t, "SHIPPED", "DELIVERED")
       \/ Moves(t, "DELIVERED", "DISPUTED")
    /\ UNCHANGED <<sale, verdict, money>>

Judge(t, v) ==
    /\ verdict[t] = NULL
    /\ Moves(t, "PENDING_AUTH",
             IF v = "PASS" THEN "AUTH_PASSED" ELSE "AUTH_FAILED")
    /\ verdict' = [verdict EXCEPT ![t] = v]
    /\ UNCHANGED <<sale, money>>

PayIn(t) ==
    /\ money[t] = NULL
    /\ Moves(t, "AUTH_PASSED", "ESCROW_FUNDED")
    /\ money' = [money EXCEPT ![t] = "HELD"]
    /\ UNCHANGED <<sale, verdict>>

PayOut(t) ==
    /\ money[t] = "HELD"
    /\ Moves(t, "DELIVERED", "RELEASED") \/ Moves(t, "DISPUTED", "RELEASED")
    /\ money' = [money EXCEPT ![t] = "RELEASED"]
    /\ UNCHANGED <<sale, verdict>>

Next ==
    \E t \in Trades :
        \/ \E w \in Watches, buyer \in Users : Open(t, w, buyer)
        \/ \E v \in {"PASS", "FAIL", "INCONCLUSIVE"} : Judge(t, v)
        \/ Handle(t) \/ PayIn(t) \/ PayOut(t)

Spec == Init /\ [][Next]_vars
=============================================================================
