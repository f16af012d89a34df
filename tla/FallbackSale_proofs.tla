------------------------ MODULE FallbackSale_proofs -------------------------
(***************************************************************************)
(* Proofs of the safety properties of FallbackSale, for any wallet and any *)
(* number of retries.                                                      *)
(*                                                                         *)
(* The count of retries is right because only an error counts one and an   *)
(* error is never cleared.  What a pass listed is gone when it ends without *)
(* an error because nothing is left to do then, and because a purchase     *)
(* lands once: what may still land was not in the wallet when the pass     *)
(* listed it, so it cannot refill the wallet with what the pass sold.      *)
(***************************************************************************)
EXTENDS FallbackSale, TLAPS

(* How many retries were counted, before and after the end.                  *)
RetriesCounted ==
  /\ ~Ended => retries <= MaxRetries
  /\ ~error => retries = 0 /\ pc # "sleep"

(* A purchase lands once.                                                    *)
PurchasesLandOnce == flyingBuys \cap (held \cup seen) = {}

(* What a pass listed and the wallet still holds is what it has not come to  *)
(* yet: also in a retry, while sales of the passes before it land.           *)
PassKeepsCount ==
  pc = "sell" => Wanted(seen \cap LegacyMints) \cap held \subseteq todo

IInv ==
  /\ TypeOK
  /\ RetriesCounted
  /\ PurchasesLandOnce
  /\ PassKeepsCount
  /\ AllRetriesMade

-----------------------------------------------------------------------------
(* A pass: listing, selling, failing.                                        *)
LEMMA PassKeeps ==
  ASSUME IInv, List \/ (\E m \in Mints : SellOne(m)) \/ PassFails
  PROVE  IInv'
<1> USE SaleAssumption DEF IInv, TypeOK, RetriesCounted, PurchasesLandOnce,
           PassKeepsCount, AllRetriesMade, Ended,
           chainVars, Wanted
<1>1. CASE List
  BY <1>1 DEF List, Listed
<1>2. ASSUME NEW m \in Mints, SellOne(m)
      PROVE  IInv'
  BY <1>2 DEF SellOne
<1>3. CASE PassFails
  <2>1. error' = TRUE /\ error' \in BOOLEAN
    BY <1>3, Zenon DEF PassFails
  <2>2. flyingSales' \subseteq Mints
    BY <1>3 DEF PassFails
  <2>3. QED
    BY <1>3, <2>1, <2>2 DEF PassFails
<1>4. QED BY <1>1, <1>2, <1>3

(* The end of a pass: another one, or the rejection.                         *)
LEMMA PassEndKeeps ==
  ASSUME IInv, PassEnds
  PROVE  IInv'
<1> USE SaleAssumption DEF IInv, TypeOK, RetriesCounted, PurchasesLandOnce,
           PassKeepsCount, AllRetriesMade, Ended,
           chainVars, Wanted
<1>1. CASE TriesAgain
  BY <1>1 DEF PassEnds, PassOver, CountsRetry, TriesAgain
<1>2. CASE error /\ ~TriesAgain
  BY <1>2 DEF PassEnds, PassOver, CountsRetry, TriesAgain
<1>3. CASE ~error
  BY <1>3 DEF PassEnds, PassOver, CountsRetry, TriesAgain
<1>4. QED BY <1>1, <1>2, <1>3

(* The chain.                                                                *)
LEMMA ChainKeeps ==
  ASSUME IInv, NEW m \in Mints, BuyLands(m) \/ SaleLands(m)
  PROVE  IInv'
<1> USE SaleAssumption DEF IInv, TypeOK, RetriesCounted, PurchasesLandOnce,
           PassKeepsCount, AllRetriesMade, Ended, Wanted
<1>1. CASE BuyLands(m)
  BY <1>1 DEF BuyLands
<1>2. CASE SaleLands(m)
  BY <1>2 DEF SaleLands
<1>3. QED BY <1>1, <1>2

(* IInv is inductive.                                                        *)
LEMMA Invariance == Spec => []IInv
<1>1. Init => IInv
  <2>1. Init => error \in BOOLEAN
    BY Zenon DEF Init
  <2>2. QED
    BY <2>1, SaleAssumption DEF Init, IInv, TypeOK, RetriesCounted,
       PurchasesLandOnce, PassKeepsCount, AllRetriesMade,
       Ended
<1>2. IInv /\ [Next]_vars => IInv'
  <2>1. CASE UNCHANGED vars
    BY <2>1 DEF vars, chainVars, IInv, TypeOK, RetriesCounted, PurchasesLandOnce,
       PassKeepsCount, AllRetriesMade, Ended, Wanted
  <2>2. QED
    BY <2>1, PassKeeps, PassEndKeeps, ChainKeeps DEF Next, Sale
<1>3. QED BY <1>1, <1>2, PTL DEF Spec

(* A sale that ends after an error made its first pass and every retry.      *)
THEOREM RetriesMade == Spec => []AllRetriesMade
<1>1. IInv => AllRetriesMade
  BY DEF IInv
<1>2. QED BY <1>1, Invariance, PTL

(* Only the end of a pass leaves it without an error: it had nothing to do.  *)
LEMMA PassDoneOnlyAtEnd ==
  ASSUME IInv, Next, PassDone
  PROVE  todo = {} /\ held' = held
<1>1. PassEnds
  <2>1. ~PassFails
    BY DEF PassDone, PassFails
  <2>2. ~List /\ \A m \in Mints : ~SellOne(m)
    BY DEF PassDone, List, SellOne
  <2>3. \A m \in Mints : ~BuyLands(m) /\ ~SaleLands(m)
    BY DEF PassDone, BuyLands, SaleLands
  <2>4. QED BY <2>1, <2>2, <2>3 DEF Next, Sale
<1>2. QED BY <1>1 DEF PassDone, PassEnds, PassOver, chainVars

(* A pass that does not throw leaves nothing of what it listed, be it the    *)
(* first or a retry, whatever lands before it and during it.                 *)
THEOREM CleanPassSells == Spec => CleanPassSellsListed
<1>1. IInv /\ [Next]_vars => [PassDone => Wanted(seen \cap LegacyMints) \cap held' = {}]_vars
  <2>1. ASSUME IInv, Next, PassDone
        PROVE  Wanted(seen \cap LegacyMints) \cap held' = {}
    BY <2>1, PassDoneOnlyAtEnd DEF IInv, PassKeepsCount, PassDone
  <2>2. QED BY <2>1
<1>2. QED BY <1>1, Invariance, PTL DEF Spec, CleanPassSellsListed
=============================================================================
