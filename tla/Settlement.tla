------------------------------ MODULE Settlement ------------------------------
(***************************************************************************)
(* What the pipeline promises about verdicts and money, as if every call   *)
(* took effect at one instant: a trade is judged once, paid in once and    *)
(* under one idempotency key and only after it passed, paid out once and   *)
(* only after it was paid in; the history gets its line in the same        *)
(* instant.  One line may be written again: a release that met another     *)
(* reports the transfer once more, and moves no money.                     *)
(***************************************************************************)
EXTENDS Naturals

CONSTANTS NULL, Trades, Keys, Line

VARIABLES
    verdict,    \* [Trades -> verdict or NULL]
    funded,     \* the trades whose money was taken
    receipts,   \* set of <<key, trade>>: which key took it
    paidOut,    \* the trades whose money went to the seller
    history     \* [Trades -> [Line -> Nat]]: how many lines say so

vars == <<verdict, funded, receipts, paidOut, history>>

Recorded(v) == IF v = "PASS" THEN "AUTHENTICATED" ELSE "RE_AUTHENTICATED"

Init ==
    /\ verdict = [t \in Trades |-> NULL]
    /\ funded = {}
    /\ receipts = {}
    /\ paidOut = {}
    /\ history = [t \in Trades |-> [what \in Line |-> 0]]

Writes(t, what) == history' = [history EXCEPT ![t][what] = @ + 1]

Judge(t, v) ==
    /\ verdict[t] = NULL
    /\ verdict' = [verdict EXCEPT ![t] = v]
    /\ Writes(t, Recorded(v))
    /\ UNCHANGED <<funded, receipts, paidOut>>

PayIn(k, t) ==
    /\ verdict[t] = "PASS"
    /\ t \notin funded
    /\ \A u \in Trades : <<k, u>> \notin receipts
    /\ funded' = funded \cup {t}
    /\ receipts' = receipts \cup {<<k, t>>}
    /\ UNCHANGED <<verdict, paidOut, history>>

PayOut(t) ==
    /\ t \in funded \ paidOut
    /\ paidOut' = paidOut \cup {t}
    /\ Writes(t, "TRANSFERRED")
    /\ UNCHANGED <<verdict, funded, receipts>>

TransferAgain(t) ==
    /\ t \in paidOut
    /\ Writes(t, "TRANSFERRED")
    /\ UNCHANGED <<verdict, funded, receipts, paidOut>>

Next ==
    \E t \in Trades :
        \/ \E v \in {"PASS", "FAIL", "INCONCLUSIVE"} : Judge(t, v)
        \/ \E k \in Keys : PayIn(k, t)
        \/ PayOut(t) \/ TransferAgain(t)

Spec == Init /\ [][Next]_vars
=============================================================================
