---------------------------- MODULE FallbackSale ----------------------------
(***************************************************************************)
(* The fallback sale after a purchase whose error is unknown:              *)
(* fallbackSellToken of PumpfunBot.run calls sellPumpfunTokensWithRetries, *)
(* which makes passes of sellPumpfunTokens over the wallet's tokens.       *)
(*                                                                         *)
(* A purchase or a sale that reported an error may still be on its way to  *)
(* the chain and land later, between any two steps.                        *)
(*                                                                         *)
(* A definition named D_Something is D with a bug.  No other definition    *)
(* uses it; it documents what the property it was written for rules out.   *)
(***************************************************************************)
EXTENDS Naturals

CONSTANTS
  Mints,         (* the mints in the wallet or on their way to it            *)
  PumpMints,     (* those whose address or metadata says pump.fun            *)
  LegacyMints,   (* those of the old token program, the others are Token2022 *)
  Targets,       (* the mints to sell: the bot's one, or all for undefined   *)
  MaxRetries     (* retryConfig.maxRetries                                   *)

ASSUME SaleAssumption ==
  /\ PumpMints \subseteq Mints
  /\ LegacyMints \subseteq Mints
  /\ Targets \subseteq Mints
  /\ MaxRetries \in Nat

VARIABLES
  pc,         (* "list", "sell", "sleep" or "rejected"                       *)
  error,      (* the error of some pass, never cleared                       *)
  retries,
  todo,       (* listed tokens the pass has not come to yet                  *)
  held,       (* mints the wallet holds                                      *)
  flyingBuys, (* purchases that may still land                               *)
  flyingSales,(* sales that may still land                                   *)
  seen        (* what the wallet held when the pass listed it                *)

chainVars == <<held, flyingBuys, flyingSales>>
vars == <<pc, error, retries, todo, chainVars, seen>>

TypeOK ==
  /\ pc \in {"list", "sell", "sleep", "rejected"}
  /\ error \in BOOLEAN
  /\ retries \in 0 .. MaxRetries + 1
  /\ todo \subseteq Mints
  /\ held \subseteq Mints
  /\ flyingBuys \subseteq Mints
  /\ flyingSales \subseteq Mints
  /\ seen \subseteq Mints

Init ==
  /\ pc = "list" /\ error = FALSE /\ retries = 0
  /\ todo = {} /\ seen = {} /\ flyingSales = {}
  /\ held \in SUBSET Mints
  /\ flyingBuys = Mints \ held

-----------------------------------------------------------------------------
(* getAccountTokens asks for the accounts of the old token program only.     *)
Listed == held \cap LegacyMints

Wanted(tokens) == tokens \cap PumpMints \cap Targets

(* The wallet's tokens listed once, before the loop, not once for each pass. *)
List_Once ==
  /\ pc = "list"
  /\ todo' = Wanted(IF retries = 0 THEN Listed ELSE seen \cap LegacyMints)
  /\ seen' = held
  /\ pc' = "sell"
  /\ UNCHANGED <<error, retries, chainVars>>

List ==
  /\ pc = "list"
  /\ todo' = Wanted(Listed)
  /\ seen' = held
  /\ pc' = "sell"
  /\ UNCHANGED <<error, retries, chainVars>>

SellOne(m) ==
  /\ pc = "sell" /\ m \in todo /\ m \in held
  /\ held' = held \ {m}
  /\ todo' = todo \ {m}
  /\ UNCHANGED <<pc, error, retries, flyingBuys, flyingSales, seen>>

(* The pass ends at the first error, of the listing or of a sale; a sale     *)
(* that fails may have been sent.                                            *)
PassFails ==
  /\ \/ pc = "list" /\ UNCHANGED flyingSales
     \/ pc = "sell" /\ \E m \in todo : flyingSales' \in {flyingSales, flyingSales \cup {m}}
  /\ pc' = "sleep"
  /\ error' = TRUE
  /\ todo' = {}
  /\ UNCHANGED <<retries, held, flyingBuys, seen>>

PassOver == pc = "sleep" \/ (pc = "sell" /\ todo = {})

(* while (error && retries++ < maxRetries)                                   *)
TriesAgain_OneLess == error /\ retries + 1 < MaxRetries
TriesAgain == error /\ retries < MaxRetries

CountsRetry_Never == UNCHANGED retries
CountsRetry == retries' = IF error THEN retries + 1 ELSE retries

(* The throw after the loop is reached however the loop ends:                *)
(* fallbackSellToken rejects with it before its pause and its second call.   *)
PassEnds ==
  /\ PassOver
  /\ pc' = IF TriesAgain THEN "list" ELSE "rejected"
  /\ CountsRetry
  /\ UNCHANGED <<error, todo, chainVars, seen>>

-----------------------------------------------------------------------------
BuyLands(m) ==
  /\ m \in flyingBuys
  /\ flyingBuys' = flyingBuys \ {m}
  /\ held' = held \cup {m}
  /\ UNCHANGED <<pc, error, retries, todo, flyingSales, seen>>

SaleLands(m) ==
  /\ m \in flyingSales /\ m \in held
  /\ flyingSales' = flyingSales \ {m}
  /\ held' = held \ {m}
  /\ UNCHANGED <<pc, error, retries, todo, flyingBuys, seen>>

Sale == List \/ (\E m \in Mints : SellOne(m)) \/ PassFails \/ PassEnds

Next == Sale \/ \E m \in Mints : BuyLands(m) \/ SaleLands(m)

(* Requests are answered or rejected and the timer fires.                    *)
Spec == Init /\ [][Next]_vars
FairSpec == Spec /\ WF_vars(Sale)

-----------------------------------------------------------------------------
(* Properties.                                                               *)

Ended == pc = "rejected"

(* A failed pass is made up for: the sale ends after an error only when the  *)
(* first pass and all MaxRetries retries were made, whatever later passes    *)
(* found or sold, and without an error it made a single pass.                *)
AllRetriesMade == Ended => retries = IF error THEN MaxRetries + 1 ELSE 0

(* A pass that does not throw, the first one or a retry, leaves nothing in   *)
(* the wallet of what the wallet held when it was listed, whatever purchases *)
(* and sales of earlier passes land before it and during it.                 *)
PassDone == pc = "sell" /\ pc' \in {"list", "rejected"}
CleanPassSellsListed ==
  [][PassDone => Wanted(seen \cap LegacyMints) \cap held' = {}]_vars

(* The sale comes to an end, so that the purchase's handler settles.         *)
SaleEnds == <>Ended

(* "Token will be sold immediately, with a re-attempt in 250ms to ensure     *)
(* completion": the first call may reject only because of an error.          *)
RejectsOnlyOnError == Ended => error
=============================================================================
