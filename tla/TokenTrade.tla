----------------------------- MODULE TokenTrade -----------------------------
(***************************************************************************)
(* What one run of the bot promises to the rest of the program, whatever   *)
(* happens inside the monitoring loop: the trade events it puts on the     *)
(* event bus and the way the run ends.                                     *)
(*                                                                         *)
(* A token is bought at most once and sold at most once; the full trade is *)
(* reported right after the sale, never before; and the run has one        *)
(* outcome.  PumpfunBot implements this specification (PumpfunBot!Trade).  *)
(***************************************************************************)

VARIABLES
  trade,      (* "none", "open" after the buy event, "closed" after the sale *)
  reported,   (* the BotTradeResponse is on the bus                          *)
  outcome     (* how the run ended, "running" until then                     *)

vars == <<trade, reported, outcome>>

(* Ends of a run that are not exceptions, and the ones that are. *)
Returns == {"trade", "exit", "migrated", "stopped"}
Throws  == {"unknown_buying_error", "buy_slippage_more_sol_required",
            "insufficient_funds_to_buy", "max_sell_retries_reached",
            "not_enough_tokens_to_sell", "rpc_or_strategy_error"}

TypeOK ==
  /\ trade \in {"none", "open", "closed"}
  /\ reported \in BOOLEAN
  /\ outcome \in {"running"} \cup Returns \cup Throws

Init ==
  /\ trade = "none"
  /\ reported = FALSE
  /\ outcome = "running"

(* The buy event.  The run may have died while the purchase was in flight. *)
Open ==
  /\ trade = "none"
  /\ outcome \in {"running"} \cup Throws
  /\ trade' = "open"
  /\ UNCHANGED <<reported, outcome>>

(* The sale event and the report of the full trade come together. *)
Close ==
  /\ trade = "open"
  /\ outcome \in {"running"} \cup Throws
  /\ trade' = "closed"
  /\ reported' = TRUE
  /\ UNCHANGED outcome

(* A run returns only when it holds nothing.  It returns the trade exactly  *)
(* when it traded, except that "migrated" may hide a finished trade.        *)
Return(o) ==
  /\ outcome = "running"
  /\ trade # "open"
  /\ o = "trade" => trade = "closed"
  /\ o \in {"exit", "stopped"} => trade = "none"
  /\ outcome' = o
  /\ UNCHANGED <<trade, reported>>

Throw(o) ==
  /\ outcome = "running"
  /\ outcome' = o
  /\ UNCHANGED <<trade, reported>>

Next ==
  \/ Open
  \/ Close
  \/ \E o \in Returns : Return(o)
  \/ \E o \in Throws : Throw(o)

Spec == Init /\ [][Next]_vars
=============================================================================
