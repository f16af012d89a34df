---------------------------- MODULE TradeSession ---------------------------
(***************************************************************************)
(* What the backtest of a strategy promises of its money, whatever the     *)
(* strategy decides: one session per mint, at most one position at a time, *)
(* a sale sells all of it, and a session either counts as a whole or not   *)
(* at all.                                                                 *)
(***************************************************************************)
EXTENDS Integers

CONSTANTS
    Start,       \* the balance of the first session
    BuyFees,     \* a purchase costs at least these
    SellFees,    \* a sale never costs more than these
    Overdraft    \* and a purchase never takes the balance to this much below zero

VARIABLES
    booked,      \* the balance after the sessions that counted
    cash,        \* the balance of the session
    held         \* the tokens of its open position

session == <<booked, cash, held>>

SessionInit == booked = Start /\ cash = Start /\ held = 0

Buy ==
    /\ held = 0 /\ held' > 0
    /\ cash' <= cash - BuyFees /\ cash' > -Overdraft
    /\ UNCHANGED booked

Sell ==
    /\ held > 0 /\ held' = 0
    /\ cash' >= cash - SellFees
    /\ UNCHANGED booked

\* The session counts: an open position is left behind.
Book == booked' = cash /\ UNCHANGED cash /\ held' = 0

\* The session does not count.
Discard == cash' = booked /\ held' = 0 /\ UNCHANGED booked

SessionNext == Buy \/ Sell \/ Book \/ Discard

SessionSpec == SessionInit /\ [][SessionNext]_session
=============================================================================
