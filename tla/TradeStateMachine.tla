-------------------------- MODULE TradeStateMachine --------------------------
(***************************************************************************)
(* The pure trade state machine: which action leads from which state to   *)
(* which, and what a transition does to a trade held in memory.  A trade   *)
(* is the columns of its row that the code ever decides on or changes;     *)
(* prices, the seller (fixed by the watch) and timestamps are left out.    *)
(***************************************************************************)
EXTENDS Naturals

CONSTANTS
    NULL,                         \* the SQL NULL, and "no such row"
    \* how long, in units of the clock (the code's hours are 3 600 000 ms):
    ESCROW_FUNDING_DEADLINE_HOURS,
    SHIPMENT_SLA_HOURS,
    DISPUTE_WINDOW_HOURS

TRANSITIONS ==
    [ DRAFT                  |-> [ SUBMIT_FOR_AUTH |-> "PENDING_AUTH",
                                   CANCEL |-> "CANCELLED" ],
      PENDING_AUTH           |-> [ AUTH_PASS |-> "AUTH_PASSED",
                                   AUTH_FAIL |-> "AUTH_FAILED",
                                   CANCEL |-> "CANCELLED" ],
      AUTH_PASSED            |-> [ FUND_ESCROW |-> "ESCROW_FUNDED",
                                   EXPIRE |-> "EXPIRED" ],
      ESCROW_FUNDED          |-> [ MARK_SHIPPED |-> "SHIPPED",
                                   REFUND_PRE_SHIP |-> "REFUNDED_PRE_SHIP" ],
      SHIPPED                |-> [ MARK_DELIVERED |-> "DELIVERED",
                                   LOST_IN_TRANSIT |-> "LOST_IN_TRANSIT" ],
      DELIVERED              |-> [ RELEASE |-> "RELEASED",
                                   DISPUTE |-> "DISPUTED" ],
      DISPUTED               |-> [ RELEASE |-> "RELEASED",
                                   REFUND_POST_DELIVERY |-> "REFUNDED_POST_DELIVERY" ],
      AUTH_FAILED            |-> << >>,
      RELEASED               |-> << >>,
      REFUNDED_PRE_SHIP      |-> << >>,
      REFUNDED_POST_DELIVERY |-> << >>,
      EXPIRED                |-> << >>,
      CANCELLED              |-> << >>,
      LOST_IN_TRANSIT        |-> << >> ]

TradeState == DOMAIN TRANSITIONS

TERMINAL_STATES == { "AUTH_FAILED", "RELEASED", "REFUNDED_PRE_SHIP",
                     "REFUNDED_POST_DELIVERY", "EXPIRED", "CANCELLED",
                     "LOST_IN_TRANSIT" }

isActiveTradeState(state) == state \notin TERMINAL_STATES

canTransition(from, action) == action \in DOMAIN TRANSITIONS[from]

getNextState(from, action) == TRANSITIONS[from][action]

\* A transition into state sets the deadline that goes with it, others stay.
Due(next, state, hours, now, deadline) ==
    IF next = state THEN now + hours ELSE deadline

\* The code throws TradeTransitionError where canTransition is false; the
\* callers' own state guards are at least as strict.
applyTransition(trade, action, now) ==
    LET next == getNextState(trade.state, action) IN
    [trade EXCEPT
        !.state = next,
        !.escrowDeadline = Due(next, "AUTH_PASSED",
                               ESCROW_FUNDING_DEADLINE_HOURS, now, @),
        !.shipmentSlaDeadline = Due(next, "ESCROW_FUNDED",
                                    SHIPMENT_SLA_HOURS, now, @),
        !.disputeWindowEnds = Due(next, "DELIVERED",
                                  DISPUTE_WINDOW_HOURS, now, @)]

\* "deadline && new Date() > deadline": a missing deadline never passes.
Passed(deadline, now) == deadline # NULL /\ now > deadline

ASSUME HoursAssumption ==
    /\ ESCROW_FUNDING_DEADLINE_HOURS \in Nat
    /\ SHIPMENT_SLA_HOURS \in Nat
    /\ DISPUTE_WINDOW_HOURS \in Nat
    /\ NULL \notin Nat
    /\ NULL \notin TradeState
=============================================================================
