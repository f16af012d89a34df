-------------------------- MODULE BotFleet_proofs --------------------------
(***************************************************************************)
(* Proofs of the safety properties of BotFleet, for any finite set of bots *)
(* and any limits.                                                         *)
(*                                                                         *)
(* The properties are not inductive one by one: that the manager's pause   *)
(* means a listener stopped by force needs the counter of positions to     *)
(* match the bots' phases, and a task's end keeps inProgress a natural     *)
(* number only because the counter matches the tasks.  IInv joins them.    *)
(***************************************************************************)
EXTENDS BotFleet, FiniteSetTheorems, TLAPS

-----------------------------------------------------------------------------
(* The listener's methods.                                                   *)

Off(l) == l.forceStopped /\ ~l.isListening

(* What holds of the listener between two steps.                             *)
ListenerOK(l) ==
  /\ l \in ListenerType
  /\ l.sockets = IF l.isListening THEN 1 ELSE 0
  /\ ~l.isListening =>
       l.forceStopped \/ (MaxConcurrent > 0 /\ l.inProgress >= MaxConcurrent)
  /\ MaxConcurrent > 0 => l.inProgress <= MaxConcurrent

(* stopListening(true) closes the only socket and stops by force.            *)
LEMMA StopByForce ==
  ASSUME NEW l, ListenerOK(l)
  PROVE  /\ ListenerOK(Stop(l, TRUE))
         /\ Off(Stop(l, TRUE))
         /\ Stop(l, TRUE).inProgress = l.inProgress
BY MaxConcurrentAssumption DEF ListenerOK, ListenerType, Off, Stop

(* startListening(true) on a listener that is off opens one socket.          *)
LEMMA StartByForce ==
  ASSUME NEW l, ListenerOK(l), ~l.isListening
  PROVE  /\ ListenerOK(Start(l, TRUE))
         /\ ~Start(l, TRUE).forceStopped
         /\ Start(l, TRUE).inProgress = l.inProgress
BY MaxConcurrentAssumption DEF ListenerOK, ListenerType, Off, Start

(* A new token is taken, ignored, or stops the listener at its limit; none   *)
(* of this lifts a forced stop.                                              *)
LEMMA NewToken ==
  ASSUME NEW l, ListenerOK(l)
  PROVE  /\ ListenerOK(OnNewToken(l))
         /\ l.forceStopped => OnNewToken(l) = l
         /\ OnNewToken(l).inProgress = l.inProgress + (IF Takes(l) THEN 1 ELSE 0)
BY MaxConcurrentAssumption
   DEF ListenerOK, ListenerType, OnNewToken, Takes, AtLimit, Stop

(* The end of a task frees a place and restarts a listener that is off for   *)
(* lack of places, never one that is off by force.                           *)
LEMMA TaskDone ==
  ASSUME NEW l, ListenerOK(l), l.inProgress > 0
  PROVE  /\ ListenerOK(OnTaskDone(l))
         /\ OnTaskDone(l).forceStopped = l.forceStopped
         /\ Off(l) => Off(OnTaskDone(l))
         /\ OnTaskDone(l).inProgress = l.inProgress - 1
<1> DEFINE m == [l EXCEPT !.inProgress = @ - 1]
<1>1. /\ m \in ListenerType /\ m.inProgress = l.inProgress - 1
      /\ m.isListening = l.isListening /\ m.forceStopped = l.forceStopped
      /\ m.sockets = l.sockets
  BY DEF ListenerOK, ListenerType
<1>2. CASE ~m.forceStopped /\ ~m.isListening /\ ~AtLimit(m)
  <2>1. OnTaskDone(l) = Start(m, FALSE)
    BY <1>2 DEF OnTaskDone
  <2>2. QED
    BY <1>1, <1>2, <2>1, MaxConcurrentAssumption
       DEF ListenerOK, ListenerType, Off, Start, AtLimit
<1>3. CASE ~(~m.forceStopped /\ ~m.isListening /\ ~AtLimit(m))
  <2>1. OnTaskDone(l) = m
    BY <1>3 DEF OnTaskDone
  <2>2. QED
    BY <1>1, <1>3, <2>1, MaxConcurrentAssumption
       DEF ListenerOK, ListenerType, Off, AtLimit
<1>4. QED BY <1>2, <1>3

-----------------------------------------------------------------------------
(* Counting the bots in a set of phases.                                     *)

Count(f, S) == Cardinality({x \in Bots : f[x] \in S})

(* The bots in a set of phases are finitely many, and their count a number.  *)
LEMMA CountType ==
  ASSUME NEW f, NEW S
  PROVE  IsFiniteSet({x \in Bots : f[x] \in S}) /\ Count(f, S) \in Nat
<1> DEFINE A == {x \in Bots : f[x] \in S}
<1>1. A \in SUBSET Bots
  OBVIOUS
<1>2. IsFiniteSet(A)
  BY <1>1, FleetAssumption, FS_Subset
<1>3. Cardinality(A) \in Nat
  BY <1>2, FS_CardinalityType
<1>4. QED BY <1>2, <1>3 DEF Count

Moves(f, g, b, p) == g = [f EXCEPT ![b] = p]

(* When one bot changes its phase a count changes only by that bot.          *)
LEMMA CountMove ==
  ASSUME NEW f \in [Bots -> Phases], NEW b \in Bots, NEW p \in Phases, NEW S,
         NEW g, Moves(f, g, b, p)
  PROVE  Count(g, S) =
           Count(f, S) + (IF p \in S THEN 1 ELSE 0) - (IF f[b] \in S THEN 1 ELSE 0)
<1> DEFINE A == {x \in Bots : f[x] \in S}
           B == {x \in Bots : g[x] \in S}
<1>a. IsFiniteSet(A) /\ Count(f, S) \in Nat
  BY CountType
<1>b. Count(f, S) = Cardinality(A) /\ Count(g, S) = Cardinality(B)
  BY DEF Count
<1>c. b \in A <=> f[b] \in S
  OBVIOUS
<1>1. /\ IsFiniteSet(A) /\ Cardinality(A) \in Nat
      /\ Count(f, S) = Cardinality(A) /\ Count(g, S) = Cardinality(B)
      /\ b \in A <=> f[b] \in S
  BY <1>a, <1>b, <1>c
<1> HIDE DEF A, B
<1>2. CASE p \in S
  <2>1. B = A \cup {b}
    BY <1>2 DEF A, B, Moves
  <2>2. Cardinality(A \cup {b}) = IF b \in A THEN Cardinality(A) ELSE Cardinality(A) + 1
    BY <1>1, FS_AddElement
  <2>3. QED
    BY <1>1, <1>2, <2>1, <2>2
<1>3. CASE p \notin S
  <2>1. B = A \ {b}
    BY <1>3 DEF A, B, Moves
  <2>2. Cardinality(A \ {b}) = IF b \in A THEN Cardinality(A) - 1 ELSE Cardinality(A)
    BY <1>1, FS_RemoveElement
  <2>3. QED
    BY <1>1, <1>3, <2>1, <2>2
<1>4. QED BY <1>2, <1>3

(* The same of a step of the specification in which a bot goes on.           *)
LEMMA CountGoes ==
  ASSUME phase \in [Bots -> Phases], NEW b \in Bots, NEW from, NEW to \in Phases,
         Goes(b, from, to), NEW S
  PROVE  /\ Count(phase, S) \in Nat
         /\ Count(phase', S) =
              Count(phase, S) + (IF to \in S THEN 1 ELSE 0) - (IF from \in S THEN 1 ELSE 0)
<1>1. Moves(phase, phase', b, to) /\ phase[b] = from
  BY DEF Goes, Moves
<1>2. Count(phase, S) \in Nat
  BY CountType
<1>3. Count(phase', S) =
        Count(phase, S) + (IF to \in S THEN 1 ELSE 0) - (IF from \in S THEN 1 ELSE 0)
  BY <1>1, CountMove
<1>4. QED BY <1>2, <1>3

(* A bot that is in the phases is counted.                                   *)
LEMMA CountPositive ==
  ASSUME NEW f, NEW S, NEW b \in Bots, f[b] \in S
  PROVE  Count(f, S) > 0
<1> DEFINE A == {x \in Bots : f[x] \in S}
<1>1. IsFiniteSet(A) /\ Cardinality(A) \in Nat
  BY CountType DEF Count
<1>2. Cardinality(A) # 0
  BY <1>1, FS_EmptySet
<1>3. QED BY <1>1, <1>2 DEF Count

-----------------------------------------------------------------------------
(* The manager's handlers.                                                   *)

(* onTradeExecuted counts the trade, and it waits for a sale exactly when    *)
(* the positions it counted reach the limit.                                 *)
LEMMA TradeCounted ==
  ASSUME NEW m \in ManagerType, NEW type
  PROVE  LET n == OnTradeExecuted(m, type)
         IN  /\ n \in ManagerType
             /\ n.openPositions = m.openPositions + (IF type = "buy" THEN 1 ELSE -1)
             /\ n.fullTrades = m.fullTrades
             /\ n.askedStopListening <=> PositionsFull(n)
             /\ PositionsFull(n) <=> AsksStop(m, type)
<1> DEFINE c == Counted(m, type)
           n == OnTradeExecuted(m, type)
<1>1. /\ c \in ManagerType /\ c.fullTrades = m.fullTrades
      /\ c.openPositions = m.openPositions + (IF type = "buy" THEN 1 ELSE -1)
  BY DEF Counted, ManagerType
<1>2. PositionsFull(c) \in BOOLEAN
  BY DEF PositionsFull
<1>3. n = [c EXCEPT !.askedStopListening = PositionsFull(c)]
  BY DEF OnTradeExecuted
<1> HIDE DEF c, n
<1>4. /\ n \in ManagerType /\ n.fullTrades = c.fullTrades
      /\ n.openPositions = c.openPositions
      /\ n.askedStopListening = PositionsFull(c)
  BY <1>1, <1>2, <1>3 DEF ManagerType
<1>5. PositionsFull(n) <=> PositionsFull(c)
  BY <1>4 DEF PositionsFull
<1>6. AsksStop(m, type) <=> PositionsFull(c)
  BY DEF AsksStop, c
<1>7. QED BY <1>1, <1>4, <1>5, <1>6 DEF n

(* onBotTradeResponse counts a full trade and nothing else.                  *)
LEMMA ResponseCounted ==
  ASSUME NEW m \in ManagerType
  PROVE  LET n == OnBotTradeResponse(m)
         IN  /\ n \in ManagerType
             /\ n.openPositions = m.openPositions
             /\ n.askedStopListening = m.askedStopListening
             /\ n.fullTrades = m.fullTrades + 1
             /\ PositionsFull(n) <=> PositionsFull(m)
BY DEF OnBotTradeResponse, ManagerType, PositionsFull

-----------------------------------------------------------------------------
(* The inductive invariant.                                                  *)

RestOK ==
  /\ stopped \subseteq Bots
  /\ balanceChecks \in Nat
  /\ rejection \in BOOLEAN
  /\ main \in {"polling", "done", "closed"}
  /\ crashed \in BOOLEAN

CountersExact ==
  /\ listener.inProgress = Count(phase, TaskPhases)
  /\ manager.openPositions = Count(phase, PositionPhases)

LimitsEnforced ==
  /\ manager.askedStopListening <=> PositionsFull(manager)
  /\ manager.askedStopListening => Off(listener)
  /\ TradesFull(manager) => Off(listener)

IInv ==
  /\ TypeOK
  /\ ListenerOK(listener)
  /\ CountersExact
  /\ LimitsEnforced

(* start() establishes the invariant.                                        *)
LEMMA InitInv == Init => IInv
<1> SUFFICES ASSUME Init PROVE IInv
  OBVIOUS
<1>1. listener = [isListening |-> TRUE, forceStopped |-> FALSE,
                  inProgress |-> 0, sockets |-> 1]
  BY DEF Init, Start, NewListener
<1>2. ListenerOK(listener)
  BY <1>1, MaxConcurrentAssumption DEF ListenerOK, ListenerType
<1>3. manager \in ManagerType /\ ~PositionsFull(manager) /\ ~TradesFull(manager)
      /\ ~manager.askedStopListening /\ manager.openPositions = 0
  BY LimitsAssumption DEF Init, ManagerInit, ManagerType, PositionsFull, TradesFull
<1>4. Count(phase, TaskPhases) = 0 /\ Count(phase, PositionPhases) = 0
  <2>1. /\ {x \in Bots : phase[x] \in TaskPhases} = {}
        /\ {x \in Bots : phase[x] \in PositionPhases} = {}
    BY DEF Init, TaskPhases, SubscribedPhases, PositionPhases
  <2>2. QED
    BY <2>1, FS_EmptySet DEF Count
<1>5. phase \in [Bots -> Phases] /\ RestOK
  BY DEF Init, Phases, RestOK
<1>6. QED
  BY <1>1, <1>2, <1>3, <1>4, <1>5
     DEF IInv, TypeOK, RestOK, ListenerOK, CountersExact, LimitsEnforced

(* A bot changes its phase and nothing that is counted changes.              *)
LEMMA QuietMove ==
  ASSUME IInv, RestOK', UNCHANGED <<listener, manager>>,
         NEW b \in Bots, NEW from, NEW to \in Phases, Goes(b, from, to),
         from \in TaskPhases <=> to \in TaskPhases,
         from \in PositionPhases <=> to \in PositionPhases
  PROVE  IInv'
<1>1. /\ phase \in [Bots -> Phases] /\ Goes(b, from, to)
      /\ phase' = [phase EXCEPT ![b] = to]
  BY DEF IInv, TypeOK, Goes
<1>2. Count(phase', TaskPhases) = Count(phase, TaskPhases)
  <2>1. /\ Count(phase, TaskPhases) \in Nat
        /\ Count(phase', TaskPhases) = Count(phase, TaskPhases)
             + (IF to \in TaskPhases THEN 1 ELSE 0) - (IF from \in TaskPhases THEN 1 ELSE 0)
    BY <1>1, CountGoes, ZenonT(60)
  <2>2. QED BY <2>1
<1>3. Count(phase', PositionPhases) = Count(phase, PositionPhases)
  <2>1. /\ Count(phase, PositionPhases) \in Nat
        /\ Count(phase', PositionPhases) = Count(phase, PositionPhases)
             + (IF to \in PositionPhases THEN 1 ELSE 0) - (IF from \in PositionPhases THEN 1 ELSE 0)
    BY <1>1, CountGoes, ZenonT(60)
  <2>2. QED BY <2>1
<1>4. QED
  BY <1>1, <1>2, <1>3
     DEF IInv, TypeOK, RestOK, ListenerOK, CountersExact, LimitsEnforced, Count, Off,
         PositionsFull, TradesFull

(* A task ends and the positions are the same.                               *)
LEMMA EndMove ==
  ASSUME IInv, RestOK', UNCHANGED manager,
         NEW b \in Bots, NEW from \in TaskPhases, NEW to \in Phases \ TaskPhases,
         TaskEnds(b, from, to),
         from \in PositionPhases <=> to \in PositionPhases
  PROVE  IInv'
<1>0. phase \in [Bots -> Phases] /\ Goes(b, from, to) /\ to \in Phases
  BY DEF IInv, TypeOK, TaskEnds
<1>1. /\ phase \in [Bots -> Phases] /\ phase' = [phase EXCEPT ![b] = to] /\ phase[b] = from
      /\ listener' = OnTaskDone(listener)
  BY DEF IInv, TypeOK, TaskEnds, Goes
<1>2. Count(phase', TaskPhases) = Count(phase, TaskPhases) - 1
  <2>1. /\ Count(phase, TaskPhases) \in Nat
        /\ Count(phase', TaskPhases) = Count(phase, TaskPhases)
             + (IF to \in TaskPhases THEN 1 ELSE 0) - (IF from \in TaskPhases THEN 1 ELSE 0)
    BY <1>0, CountGoes
  <2>2. QED BY <2>1
<1>3. Count(phase', PositionPhases) = Count(phase, PositionPhases)
  <2>1. /\ Count(phase, PositionPhases) \in Nat
        /\ Count(phase', PositionPhases) = Count(phase, PositionPhases)
             + (IF to \in PositionPhases THEN 1 ELSE 0) - (IF from \in PositionPhases THEN 1 ELSE 0)
    BY <1>0, CountGoes
  <2>2. QED BY <2>1
<1>4. listener.inProgress > 0
  BY <1>1, CountPositive DEF IInv, CountersExact
<1>5. /\ ListenerOK(listener') /\ listener'.inProgress = listener.inProgress - 1
      /\ Off(listener) => Off(listener')
  BY <1>1, <1>4, TaskDone DEF IInv
<1>6. QED
  BY <1>1, <1>2, <1>3, <1>5
     DEF IInv, TypeOK, RestOK, ListenerOK, CountersExact, LimitsEnforced, Count,
         PositionsFull, TradesFull

(* The places a delivered token takes are counted.                           *)
LEMMA DeliverInv ==
  ASSUME IInv, NEW b \in Bots, Deliver(b)
  PROVE  IInv'
<1> DEFINE to == IF Takes(listener) THEN "preparing" ELSE "done"
<1>0. phase \in [Bots -> Phases] /\ Goes(b, "announced", to) /\ to \in Phases
  BY DEF IInv, TypeOK, Deliver, Phases
<1>1. /\ phase \in [Bots -> Phases] /\ phase' = [phase EXCEPT ![b] = to]
      /\ phase[b] = "announced" /\ to \in Phases
      /\ listener' = OnNewToken(listener) /\ UNCHANGED manager /\ RestOK'
  BY DEF IInv, TypeOK, RestOK, Deliver, Goes, Phases
<1>2. Count(phase', TaskPhases) = Count(phase, TaskPhases) + (IF Takes(listener) THEN 1 ELSE 0)
  <2>1. Count(phase', TaskPhases) = Count(phase, TaskPhases)
          + (IF to \in TaskPhases THEN 1 ELSE 0)
          - (IF "announced" \in TaskPhases THEN 1 ELSE 0)
    BY <1>0, CountGoes
  <2>2. Count(phase, TaskPhases) \in Nat
    BY CountType
  <2>3. /\ to \in TaskPhases <=> Takes(listener)
        /\ "announced" \notin TaskPhases
    BY DEF TaskPhases, SubscribedPhases
  <2> HIDE DEF to
  <2>4. QED BY <2>1, <2>2, <2>3
<1>3. Count(phase', PositionPhases) = Count(phase, PositionPhases)
  <2>1. Count(phase', PositionPhases) = Count(phase, PositionPhases)
          + (IF to \in PositionPhases THEN 1 ELSE 0)
          - (IF "announced" \in PositionPhases THEN 1 ELSE 0)
    BY <1>0, CountGoes
  <2>2. Count(phase, PositionPhases) \in Nat
    BY CountType
  <2>3. to \notin PositionPhases /\ "announced" \notin PositionPhases
    BY DEF PositionPhases
  <2> HIDE DEF to
  <2>4. QED BY <2>1, <2>2, <2>3
<1>4. /\ ListenerOK(listener')
      /\ listener'.inProgress = listener.inProgress + (IF Takes(listener) THEN 1 ELSE 0)
      /\ Off(listener) => Off(listener')
  BY <1>1, NewToken DEF IInv, Off
<1> HIDE DEF to
<1>5. QED
  BY <1>1, <1>2, <1>3, <1>4
     DEF IInv, TypeOK, RestOK, ListenerOK, CountersExact, LimitsEnforced, Count,
         PositionsFull, TradesFull

(* What the manager's handlers leave of a listener.                          *)
LEMMA ListenerAfterTrade ==
  ASSUME IInv, NEW type
  PROVE  /\ ListenerOK(AfterTrade(type))
         /\ AfterTrade(type).inProgress = listener.inProgress
         /\ AsksStop(manager, type) => Off(AfterTrade(type))
         /\ ~AsksResume(manager, type) /\ Off(listener) => Off(AfterTrade(type))
<1>1. CASE AsksStop(manager, type)
  BY <1>1, StopByForce DEF IInv, AfterTrade
<1>2. CASE ~AsksStop(manager, type) /\ AsksResume(manager, type)
  <2>1. ~listener.isListening
    BY <1>2 DEF IInv, LimitsEnforced, AsksResume, Off
  <2>2. AfterTrade(type) = Start(listener, TRUE)
    BY <1>2 DEF AfterTrade
  <2>3. QED
    BY <1>2, <2>1, <2>2, StartByForce DEF IInv
<1>3. CASE ~AsksStop(manager, type) /\ ~AsksResume(manager, type)
  BY <1>3 DEF IInv, AfterTrade
<1>4. QED BY <1>1, <1>2, <1>3

(* A purchase never lifts the manager's pause, so that a fleet stopped at    *)
(* the limit of full trades stays stopped.                                   *)
LEMMA BuySucceedsInv ==
  ASSUME IInv, NEW b \in Bots, BuySucceeds(b)
  PROVE  IInv'
<1>1. PICK from \in {"buying", "lateBuy"}, to \in {"holding", "abandoned"} :
        /\ Goes(b, from, to)
        /\ from = "buying" <=> to = "holding"
  BY DEF BuySucceeds
<1>0. phase \in [Bots -> Phases] /\ to \in Phases
  BY <1>1 DEF IInv, TypeOK, Phases
<1>2. /\ phase \in [Bots -> Phases] /\ phase' = [phase EXCEPT ![b] = to]
      /\ phase[b] = from /\ to \in Phases
      /\ manager \in ManagerType /\ manager' = OnTradeExecuted(manager, "buy")
      /\ listener' = AfterTrade("buy")
  BY <1>1 DEF IInv, TypeOK, BuySucceeds, Goes, Phases
<1>3. RestOK'
  BY FleetAssumption
     DEF IInv, TypeOK, RestOK, BuySucceeds, Subscribed, In, BalanceCheckBegins
<1>4. /\ manager' \in ManagerType
      /\ manager'.openPositions = manager.openPositions + 1
      /\ manager'.fullTrades = manager.fullTrades
      /\ manager'.askedStopListening <=> PositionsFull(manager')
      /\ PositionsFull(manager') <=> AsksStop(manager, "buy")
  BY <1>2, TradeCounted
<1>5. ~AsksResume(manager, "buy")
  BY <1>2, <1>4, LimitsAssumption
     DEF IInv, LimitsEnforced, AsksResume, PositionsFull, ManagerType
<1>6. /\ ListenerOK(listener') /\ listener'.inProgress = listener.inProgress
      /\ AsksStop(manager, "buy") => Off(listener')
      /\ Off(listener) => Off(listener')
  BY <1>2, <1>5, ListenerAfterTrade
<1>7. Count(phase', TaskPhases) = Count(phase, TaskPhases)
  <2>1. Count(phase', TaskPhases) = Count(phase, TaskPhases)
          + (IF to \in TaskPhases THEN 1 ELSE 0) - (IF from \in TaskPhases THEN 1 ELSE 0)
    BY <1>0, <1>1, CountGoes
  <2>2. Count(phase, TaskPhases) \in Nat
    BY CountType
  <2>3. from \in TaskPhases <=> to \in TaskPhases
    BY <1>1 DEF TaskPhases, SubscribedPhases
  <2>4. QED BY <2>1, <2>2, <2>3
<1>8. Count(phase', PositionPhases) = Count(phase, PositionPhases) + 1
  <2>1. Count(phase', PositionPhases) = Count(phase, PositionPhases)
          + (IF to \in PositionPhases THEN 1 ELSE 0)
          - (IF from \in PositionPhases THEN 1 ELSE 0)
    BY <1>0, <1>1, CountGoes
  <2>2. Count(phase, PositionPhases) \in Nat
    BY CountType
  <2>3. from \notin PositionPhases /\ to \in PositionPhases
    BY <1>1 DEF PositionPhases
  <2>4. QED BY <2>1, <2>2, <2>3
<1>9. QED
  BY <1>2, <1>3, <1>4, <1>6, <1>7, <1>8
     DEF IInv, TypeOK, RestOK, ListenerOK, CountersExact, LimitsEnforced, Count, TradesFull

(* A sale may resume listening, but its report stops it again at the limit   *)
(* of full trades.                                                           *)
LEMMA SellSucceedsInv ==
  ASSUME IInv, NEW b \in Bots, SellSucceeds(b)
  PROVE  IInv'
<1>1. PICK from \in {"selling", "lateSale"}, to \in {"after", "done"} :
        /\ Goes(b, from, to)
        /\ from = "selling" <=> to = "after"
  BY DEF SellSucceeds
<1>0. phase \in [Bots -> Phases] /\ to \in Phases
  BY <1>1 DEF IInv, TypeOK, Phases
<1> DEFINE m == OnTradeExecuted(manager, "sell")
<1>2. /\ phase \in [Bots -> Phases] /\ phase' = [phase EXCEPT ![b] = to]
      /\ phase[b] = from /\ to \in Phases
      /\ manager \in ManagerType /\ manager' = OnBotTradeResponse(m)
      /\ listener' = IF TradesFull(manager') THEN Stop(AfterTrade("sell"), TRUE)
                     ELSE AfterTrade("sell")
  BY <1>1 DEF IInv, TypeOK, SellSucceeds, Goes, Phases
<1>3. RestOK'
  BY FleetAssumption
     DEF IInv, TypeOK, RestOK, SellSucceeds, Subscribed, In, BalanceCheckBegins
<1>4. /\ m \in ManagerType
      /\ m.openPositions = manager.openPositions - 1
      /\ m.askedStopListening <=> PositionsFull(m)
      /\ PositionsFull(m) <=> AsksStop(manager, "sell")
  <2>1. m.openPositions = manager.openPositions + (IF "sell" = "buy" THEN 1 ELSE -1)
    BY <1>2, TradeCounted
  <2>2. manager.openPositions \in Int
    BY <1>2 DEF ManagerType
  <2>3. QED BY <1>2, <2>1, <2>2, TradeCounted
<1> HIDE DEF m
<1>5. /\ manager' \in ManagerType
      /\ manager'.openPositions = manager.openPositions - 1
      /\ manager'.askedStopListening <=> PositionsFull(manager')
      /\ PositionsFull(manager') <=> AsksStop(manager, "sell")
  BY <1>2, <1>4, ResponseCounted
<1>6. /\ ListenerOK(listener') /\ listener'.inProgress = listener.inProgress
      /\ TradesFull(manager') => Off(listener')
      /\ AsksStop(manager, "sell") => Off(listener')
  <2>1. /\ ListenerOK(AfterTrade("sell"))
        /\ AfterTrade("sell").inProgress = listener.inProgress
        /\ AsksStop(manager, "sell") => Off(AfterTrade("sell"))
    BY ListenerAfterTrade
  <2>2. QED BY <1>2, <2>1, StopByForce
<1>7. Count(phase', TaskPhases) = Count(phase, TaskPhases)
  <2>1. Count(phase', TaskPhases) = Count(phase, TaskPhases)
          + (IF to \in TaskPhases THEN 1 ELSE 0) - (IF from \in TaskPhases THEN 1 ELSE 0)
    BY <1>0, <1>1, CountGoes
  <2>2. Count(phase, TaskPhases) \in Nat
    BY CountType
  <2>3. from \in TaskPhases <=> to \in TaskPhases
    BY <1>1 DEF TaskPhases, SubscribedPhases
  <2>4. QED BY <2>1, <2>2, <2>3
<1>8. Count(phase', PositionPhases) = Count(phase, PositionPhases) - 1
  <2>1. Count(phase', PositionPhases) = Count(phase, PositionPhases)
          + (IF to \in PositionPhases THEN 1 ELSE 0)
          - (IF from \in PositionPhases THEN 1 ELSE 0)
    BY <1>0, <1>1, CountGoes
  <2>2. Count(phase, PositionPhases) \in Nat
    BY CountType
  <2>3. from \in PositionPhases /\ to \notin PositionPhases
    BY <1>1 DEF PositionPhases
  <2>4. QED BY <2>1, <2>2, <2>3
<1>9. QED
  BY <1>2, <1>3, <1>5, <1>6, <1>7, <1>8
     DEF IInv, TypeOK, RestOK, ListenerOK, CountersExact, LimitsEnforced, Count

(* Without the funds to buy, everything is stopped and then the task ends.   *)
LEMMA BuyLacksFundsInv ==
  ASSUME IInv, NEW b \in Bots, BuyLacksFunds(b)
  PROVE  IInv'
<1>1. /\ phase \in [Bots -> Phases] /\ Goes(b, "buying", "done") /\ "done" \in Phases
  BY DEF IInv, TypeOK, BuyLacksFunds, Phases
<1>2. phase' = [phase EXCEPT ![b] = "done"] /\ phase[b] = "buying"
  BY <1>1 DEF Goes
<1>3. RestOK' /\ UNCHANGED manager
  BY DEF IInv, TypeOK, RestOK, BuyLacksFunds, Subscribed, In
<1>4. /\ ListenerOK(Stop(listener, TRUE)) /\ Off(Stop(listener, TRUE))
      /\ Stop(listener, TRUE).inProgress = listener.inProgress
  BY StopByForce DEF IInv
<1>5. "buying" \in TaskPhases /\ "done" \notin TaskPhases
      /\ "buying" \notin PositionPhases /\ "done" \notin PositionPhases
  BY DEF TaskPhases, SubscribedPhases, PositionPhases
<1>6. Stop(listener, TRUE).inProgress > 0
  BY <1>2, <1>4, <1>5, CountPositive DEF IInv, CountersExact
<1>7. /\ ListenerOK(listener') /\ Off(listener')
      /\ listener'.inProgress = listener.inProgress - 1
  BY <1>4, <1>6, TaskDone DEF BuyLacksFunds
<1>8. Count(phase', TaskPhases) = Count(phase, TaskPhases) - 1
  <2>1. /\ Count(phase, TaskPhases) \in Nat
        /\ Count(phase', TaskPhases) = Count(phase, TaskPhases)
             + (IF "done" \in TaskPhases THEN 1 ELSE 0)
             - (IF "buying" \in TaskPhases THEN 1 ELSE 0)
    BY <1>1, CountGoes
  <2>2. QED BY <1>5, <2>1
<1>9. Count(phase', PositionPhases) = Count(phase, PositionPhases)
  <2>1. /\ Count(phase, PositionPhases) \in Nat
        /\ Count(phase', PositionPhases) = Count(phase, PositionPhases)
             + (IF "done" \in PositionPhases THEN 1 ELSE 0)
             - (IF "buying" \in PositionPhases THEN 1 ELSE 0)
    BY <1>1, CountGoes
  <2>2. QED BY <1>5, <2>1
<1>10. QED
  BY <1>1, <1>2, <1>3, <1>7, <1>8, <1>9
     DEF IInv, TypeOK, RestOK, ListenerOK, CountersExact, LimitsEnforced, Count, PositionsFull

(* A low balance stops everything, a sufficient one changes nothing.         *)
LEMMA BalanceCheckedInv ==
  ASSUME IInv, NEW low \in BOOLEAN, BalanceChecked(low)
  PROVE  IInv'
<1>1. RestOK' /\ UNCHANGED <<manager, phase>>
  <2>1. balanceChecks' \in Nat
    BY DEF IInv, TypeOK, BalanceChecked
  <2>2. stopped' \subseteq Bots
    BY DEF IInv, TypeOK, BalanceChecked, StopAll, Subscribed, In
  <2>3. QED
    BY <2>1, <2>2 DEF IInv, TypeOK, RestOK, BalanceChecked
<1>2. /\ ListenerOK(listener') /\ listener'.inProgress = listener.inProgress
      /\ Off(listener) => Off(listener')
  BY StopByForce DEF IInv, BalanceChecked, StopAll
<1>3. QED
  BY <1>1, <1>2
     DEF IInv, TypeOK, RestOK, ListenerOK, CountersExact, LimitsEnforced, Count, PositionsFull,
         TradesFull

(* Every step preserves the invariant.                                       *)
LEMMA NextInv == IInv /\ [Next]_vars => IInv'
<1> SUFFICES ASSUME IInv, [Next]_vars PROVE IInv'
  OBVIOUS
<1> USE DEF Phases, TaskPhases, SubscribedPhases, PositionPhases
<1>1. ASSUME NEW b \in Bots, Announce(b) PROVE IInv'
  <2>1. /\ Goes(b, "unseen", "announced") /\ UNCHANGED <<listener, manager>> /\ RestOK'
    BY <1>1 DEF Announce, IInv, TypeOK, RestOK
  <2>2. QED BY <2>1, QuietMove
<1>2. ASSUME NEW b \in Bots, Construct(b) PROVE IInv'
  <2>1. /\ Goes(b, "preparing", "head") /\ UNCHANGED <<listener, manager>> /\ RestOK'
    BY <1>2 DEF Construct, IInv, TypeOK, RestOK
  <2>2. QED BY <2>1, QuietMove
<1>3. ASSUME NEW b \in Bots, Reject(b) PROVE IInv'
  <2>1. TaskEnds(b, "preparing", "done") /\ UNCHANGED manager /\ RestOK'
    BY <1>3 DEF Reject, IInv, TypeOK, RestOK
  <2>2. QED BY <2>1, EndMove
<1>4. ASSUME NEW b \in Bots, LeaveStopped(b) PROVE IInv'
  <2>1. TaskEnds(b, "head", "done") /\ UNCHANGED manager /\ RestOK'
    BY <1>4 DEF LeaveStopped, IInv, TypeOK, RestOK
  <2>2. QED BY <2>1, EndMove
<1>5. ASSUME NEW b \in Bots, BeginTurn(b) PROVE IInv'
  <2>1. /\ Goes(b, "head", "turn") /\ UNCHANGED <<listener, manager>> /\ RestOK'
    BY <1>5 DEF BeginTurn, IInv, TypeOK, RestOK
  <2>2. QED BY <2>1, QuietMove
<1>6. ASSUME NEW b \in Bots, EndTurn(b) PROVE IInv'
  <2>1. /\ Goes(b, "turn", "head") /\ UNCHANGED <<listener, manager>> /\ RestOK'
    BY <1>6 DEF EndTurn, IInv, TypeOK, RestOK
  <2>2. QED BY <2>1, QuietMove
<1>7. ASSUME NEW b \in Bots, FinishMonitoring(b) PROVE IInv'
  <2>1. TaskEnds(b, "after", "done") /\ UNCHANGED manager /\ RestOK'
    BY <1>7 DEF FinishMonitoring, IInv, TypeOK, RestOK
  <2>2. QED BY <2>1, EndMove
<1>8. ASSUME NEW b \in Bots, DecideToken(b) PROVE IInv'
  <2>1. CASE StartBuy(b)
    <3>1. /\ Goes(b, "turn", "buying") /\ UNCHANGED <<listener, manager>> /\ RestOK'
      BY <2>1 DEF StartBuy, IInv, TypeOK, RestOK
    <3>2. QED BY <3>1, QuietMove
  <2>2. CASE ExitWithoutTrade(b)
    <3>1. /\ Goes(b, "turn", "after") /\ UNCHANGED <<listener, manager>> /\ RestOK'
      BY <2>2 DEF ExitWithoutTrade, IInv, TypeOK, RestOK
    <3>2. QED BY <3>1, QuietMove
  <2>3. QED BY <1>8, <2>1, <2>2 DEF DecideToken
<1>9. ASSUME NEW b \in Bots, RunThrows(b) PROVE IInv'
  <2>1. UNCHANGED manager /\ RestOK'
    BY <1>9 DEF RunThrows, IInv, TypeOK, RestOK
  <2>2. CASE TaskEnds(b, "turn", "done")
    BY <2>1, <2>2, EndMove
  <2>3. CASE TaskEnds(b, "buying", "lateBuy")
    BY <2>1, <2>3, EndMove
  <2>4. CASE TaskEnds(b, "selling", "lateSale")
    BY <2>1, <2>4, EndMove
  <2>5. QED BY <1>9, <2>2, <2>3, <2>4 DEF RunThrows
<1>10. ASSUME NEW b \in Bots, BuyFails(b) \/ BuyFailsUnknown(b) PROVE IInv'
  <2>1. UNCHANGED manager /\ RestOK'
    BY <1>10 DEF BuyFails, BuyFailsUnknown, IInv, TypeOK, RestOK
  <2>2. CASE TaskEnds(b, "buying", "done")
    BY <2>1, <2>2, EndMove
  <2>3. CASE LateBuyEnds(b)
    <3>1. Goes(b, "lateBuy", "done") /\ UNCHANGED listener
      BY <2>3 DEF LateBuyEnds
    <3>2. QED BY <2>1, <3>1, QuietMove
  <2>4. QED BY <1>10, <2>2, <2>3 DEF BuyFails, BuyFailsUnknown
<1>11. ASSUME NEW b \in Bots, StartSell(b) PROVE IInv'
  <2>1. /\ Goes(b, "holding", "selling") /\ UNCHANGED <<listener, manager>> /\ RestOK'
    BY <1>11 DEF StartSell, IInv, TypeOK, RestOK
  <2>2. QED BY <2>1, QuietMove
<1>12. ASSUME NEW b \in Bots, SellFails(b) PROVE IInv'
  <2>1. UNCHANGED <<listener, manager>> /\ RestOK'
    BY <1>12 DEF SellFails, IInv, TypeOK, RestOK
  <2>2. CASE Goes(b, "selling", "holding")
    BY <2>1, <2>2, QuietMove
  <2>3. CASE Goes(b, "lateSale", "abandoned")
    BY <2>1, <2>3, QuietMove
  <2>4. QED BY <1>12, <2>2, <2>3 DEF SellFails
<1>13. ASSUME NEW b \in Bots, Abandon(b) PROVE IInv'
  <2>1. TaskEnds(b, "holding", "abandoned") /\ UNCHANGED manager /\ RestOK'
    BY <1>13 DEF Abandon, IInv, TypeOK, RestOK
  <2>2. QED BY <2>1, EndMove
<1>14. CASE Crash \/ SeesDone \/ ClosesDatabase \/ UNCHANGED vars
  <2>1. UNCHANGED <<listener, manager, phase>> /\ RestOK'
    BY <1>14 DEF Crash, SeesDone, ClosesDatabase, vars, IInv, TypeOK, RestOK
  <2>2. QED
    BY <2>1
       DEF IInv, TypeOK, RestOK, ListenerOK, CountersExact, LimitsEnforced, Count, Off,
           PositionsFull, TradesFull
<1>15. QED
  BY <1>1, <1>2, <1>3, <1>4, <1>5, <1>6, <1>7, <1>8, <1>9, <1>10, <1>11, <1>12,
     <1>13, <1>14, DeliverInv, BuySucceedsInv, SellSucceedsInv, BuyLacksFundsInv,
     BalanceCheckedInv
     DEF Next, Monitor, EndBuying, EndHolding

-----------------------------------------------------------------------------
(* The theorems.                                                             *)

(* The invariant holds in every reachable state.                             *)
LEMMA Invariance == Spec => []IInv
BY InitInv, NextInv, PTL DEF Spec

(* Every variable keeps its type: no counter of the listener goes below      *)
(* zero, and every task is in one of its phases.                             *)
THEOREM TypesHold == Spec => []TypeOK
<1>1. IInv => TypeOK
  BY DEF IInv
<1>2. QED BY <1>1, Invariance, PTL

(* maxTokensToProcessInParallel bounds the tasks in process and the queued   *)
(* listener's counter equals them.                                           *)
THEOREM BoundedConcurrency == Spec => []ConcurrencyBounded
<1>1. IInv => ConcurrencyBounded
  BY DEF IInv, ListenerOK, CountersExact, ConcurrencyBounded, Count, Tasks, In
<1>2. QED BY <1>1, Invariance, PTL

(* One subscription to new tokens is open while the listener listens, none   *)
(* otherwise, whatever stops, restarts and resumptions interleave.           *)
THEOREM OneSubscription == Spec => []OneSocket
<1>1. IInv => OneSocket
  BY DEF IInv, ListenerOK, OneSocket
<1>2. QED BY <1>1, Invariance, PTL

(* A listener that does not listen was stopped by force or has no place      *)
(* left, so that the end of a task starts it again.                          *)
THEOREM NoSilentDeafness == Spec => []NeverDeaf
<1>1. IInv => NeverDeaf
  BY DEF IInv, ListenerOK, NeverDeaf
<1>2. QED BY <1>1, Invariance, PTL

(* The trade manager's count is the number of held positions, and it waits   *)
(* for a sale exactly while that count is at the limit, the listener off.    *)
THEOREM PauseMatchesPositions == Spec => []PausedWhileFull
<1>1. IInv => PausedWhileFull
  BY DEF IInv, CountersExact, LimitsEnforced, PausedWhileFull, Count, Positions, In, Off
<1>2. QED BY <1>1, Invariance, PTL

(* After maxFullTrades no sale makes the fleet listen again.                 *)
THEOREM FullTradesStop == Spec => []FullTradesStopListening
<1>1. IInv => FullTradesStopListening
  BY DEF IInv, LimitsEnforced, FullTradesStopListening, Off
<1>2. QED BY <1>1, Invariance, PTL

-----------------------------------------------------------------------------
(* Action properties.                                                        *)

(* The end of a task never lifts a forced stop.                              *)
LEMMA TaskDoneForced ==
  ASSUME NEW l \in ListenerType
  PROVE  OnTaskDone(l).forceStopped = l.forceStopped
<1> DEFINE m == [l EXCEPT !.inProgress = @ - 1]
<1>1. m.forceStopped = l.forceStopped
  BY DEF ListenerType
<1>2. Start(m, FALSE).forceStopped = m.forceStopped
  BY DEF Start
<1>3. OnTaskDone(l) = Start(m, FALSE) \/ OnTaskDone(l) = m
  BY DEF OnTaskDone
<1>4. QED BY <1>1, <1>2, <1>3

(* Which steps leave a forced stop in place: all but a sale.                 *)
LEMMA ForcedStopKept ==
  ASSUME IInv, [Next]_vars, listener.forceStopped, ~listener'.forceStopped
  PROVE  \E b \in Bots : SellSucceeds(b)
<1>1. listener \in ListenerType /\ ListenerOK(listener)
  BY DEF IInv, TypeOK
<1>2. listener' # listener /\ ~Off(listener')
  BY DEF Off
<1>3. listener' # OnTaskDone(listener)
  BY <1>1, TaskDoneForced
<1>4. \A b \in Bots : ~Deliver(b)
  BY <1>1, <1>2, NewToken DEF Deliver
<1>5. \A b \in Bots : ~BuySucceeds(b)
  <2> SUFFICES ASSUME NEW b \in Bots, BuySucceeds(b) PROVE FALSE
    OBVIOUS
  <2>1. manager \in ManagerType /\ listener' = AfterTrade("buy")
    BY DEF IInv, TypeOK, BuySucceeds
  <2>2. LET n == OnTradeExecuted(manager, "buy")
        IN  /\ n.openPositions = manager.openPositions + 1
            /\ PositionsFull(n) <=> AsksStop(manager, "buy")
    BY <2>1, TradeCounted
  <2>3. ~AsksResume(manager, "buy")
    BY <2>1, <2>2, LimitsAssumption
       DEF IInv, LimitsEnforced, AsksResume, PositionsFull, ManagerType
  <2>4. AsksStop(manager, "buy") => Off(listener')
    BY <2>1, ListenerAfterTrade
  <2>5. ~AsksStop(manager, "buy")
    BY <2>4, <1>2
  <2>6. QED BY <1>2, <2>1, <2>3, <2>5 DEF AfterTrade
<1>6. \A b \in Bots : ~BuyLacksFunds(b)
  <2>1. ListenerOK(Stop(listener, TRUE)) /\ Stop(listener, TRUE).forceStopped
    BY <1>1, StopByForce DEF Off
  <2>2. OnTaskDone(Stop(listener, TRUE)).forceStopped
    BY <2>1, TaskDoneForced DEF ListenerOK
  <2>3. QED BY <2>2 DEF BuyLacksFunds
<1>7. \A low \in BOOLEAN : ~BalanceChecked(low)
  BY <1>1, <1>2, StopByForce DEF BalanceChecked, StopAll
<1>8. QED
  BY <1>2, <1>3, <1>4, <1>5, <1>6, <1>7
     DEF Next, vars, Announce, Monitor, Construct, Reject, LeaveStopped, BeginTurn, EndTurn,
         FinishMonitoring, DecideToken, StartBuy, ExitWithoutTrade, RunThrows, TaskEnds,
         EndBuying, BuyFails, BuyFailsUnknown, LateBuyEnds, StartSell, SellFails, EndHolding,
         Abandon, Crash, SeesDone, ClosesDatabase

(* A forced stop is lifted only by the sale that makes room below            *)
(* maxOpenPositions: neither a task's end, nor a token that arrives late,    *)
(* nor a purchase makes the fleet listen again.                              *)
THEOREM StopLiftedBySale == Spec => StopLiftedOnlyBySale
<1> DEFINE Lifted == /\ PositionsFull(manager) /\ ~PositionsFull(manager')
                     /\ manager'.openPositions < manager.openPositions
           A == listener.forceStopped /\ ~listener'.forceStopped => Lifted
<1>1. ASSUME IInv, [Next]_vars PROVE A
  <2> SUFFICES ASSUME listener.forceStopped, ~listener'.forceStopped PROVE Lifted
    OBVIOUS
  <2>1. PICK b \in Bots : SellSucceeds(b)
    BY <1>1, ForcedStopKept
  <2> DEFINE m == OnTradeExecuted(manager, "sell")
  <2>2. /\ manager \in ManagerType /\ manager' = OnBotTradeResponse(m)
        /\ listener' = IF TradesFull(manager') THEN Stop(AfterTrade("sell"), TRUE)
                       ELSE AfterTrade("sell")
    BY <1>1, <2>1 DEF IInv, TypeOK, SellSucceeds
  <2>3. /\ m \in ManagerType
        /\ m.openPositions = manager.openPositions + (IF "sell" = "buy" THEN 1 ELSE -1)
        /\ PositionsFull(m) <=> AsksStop(manager, "sell")
    BY <2>2, TradeCounted
  <2> HIDE DEF m
  <2>4. /\ manager'.openPositions = m.openPositions
        /\ PositionsFull(manager') <=> AsksStop(manager, "sell")
    BY <2>2, <2>3, ResponseCounted
  <2>5. manager.openPositions \in Int /\ m.openPositions = manager.openPositions - 1
    BY <2>2, <2>3 DEF ManagerType
  <2>6. /\ ListenerOK(AfterTrade("sell"))
        /\ AsksStop(manager, "sell") => Off(AfterTrade("sell"))
    BY <1>1, ListenerAfterTrade
  <2>7. ~Off(listener')
    BY DEF Off
  <2>8. listener' = AfterTrade("sell")
    BY <2>2, <2>6, <2>7, StopByForce
  <2>9. ~AsksStop(manager, "sell")
    BY <2>6, <2>7, <2>8
  <2>10. AsksResume(manager, "sell")
    BY <2>8, <2>9 DEF AfterTrade
  <2>11. PositionsFull(manager)
    BY <1>1, <2>10 DEF IInv, LimitsEnforced, AsksResume
  <2>12. QED BY <2>4, <2>5, <2>9, <2>11
<1>2. IInv /\ [Next]_vars => [A]_vars
  BY <1>1
<1>3. QED BY <1>2, Invariance, PTL DEF Spec, StopLiftedOnlyBySale

(* The polling loop gives the database up only when no task is left.         *)
THEOREM DatabaseGivenUpIdle == Spec => DoneWhenIdle
<1> DEFINE A == main = "polling" /\ main' # "polling" => Tasks = {}
<1>1. ASSUME IInv, [Next]_vars PROVE A
  <2> SUFFICES ASSUME main = "polling", main' # "polling" PROVE Tasks = {}
    OBVIOUS
  <2>1. SeesDone
    BY <1>1 DEF Next, vars, Announce, Deliver, Monitor, Construct, Reject, LeaveStopped,
         BeginTurn, EndTurn, FinishMonitoring, DecideToken, StartBuy, ExitWithoutTrade,
         RunThrows, EndBuying, BuySucceeds, BuyLacksFunds, BuyFails, BuyFailsUnknown,
         StartSell, SellFails, EndHolding, SellSucceeds, Abandon, BalanceChecked, Crash,
         ClosesDatabase
  <2>2. Cardinality(Tasks) = 0
    BY <1>1, <2>1 DEF SeesDone, IsDone, IInv, CountersExact, Count, Tasks, In
  <2>3. IsFiniteSet(Tasks)
    BY CountType DEF Tasks, In
  <2>4. QED BY <2>2, <2>3, FS_EmptySet
<1>2. IInv /\ [Next]_vars => [A]_vars
  BY <1>1
<1>3. QED BY <1>2, Invariance, PTL DEF Spec, DoneWhenIdle
=============================================================================
