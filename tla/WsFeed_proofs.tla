---------------------------- MODULE WsFeed_proofs ----------------------------
(***************************************************************************)
(* Proofs of the safety properties of WsFeed, for any number of clients,   *)
(* updates, subscribe messages, refusals and losses of the connection.     *)
(* The inductive invariant says what the commands, the replies and the     *)
(* updates in flight tell about the two ends of the connection.            *)
(***************************************************************************)
EXTENDS WsFeed, WellFoundedInduction, TLAPS

Arrival == Reply \cup Message

(* The types of the server's variables that the argument needs; how often a  *)
(* handler is registered is none of its business.                            *)
FeedTypes ==
    /\ connection \in [Clients -> {"none", "open", "closed"}]
    /\ subscribed \in [Clients -> BOOLEAN]
    /\ fetching \in [Clients -> Nat]
    /\ published \in 0 .. MaxUpdates
    /\ due \in [Clients -> SUBSET (1 .. MaxUpdates)]

(* The memory has no connection.                                             *)
MemoryIsLocal == backend = "memory" => commands = <<>> /\ inbound = <<>>

Registers(s)    == \E i \in DOMAIN s : s[i].op = "psubscribe"
Removes(s)      == \E i \in DOMAIN s : Accepts(s[i], "punsubscribe")
Denies(s)       == \E i \in DOMAIN s : Refuses(s[i], "psubscribe")
RemovedBy(c, s) == \E i \in DOMAIN s : s[i].op = "punsubscribe" /\ s[i].by = c

(* An entry that Redis does not serve has a psubscribe on its way or refused, *)
(* or its removal is unread.                                                 *)
Backed ==
    hasEntry /\ backend = "redis" =>
        wire \/ Removes(inbound) \/ Registers(commands) \/ Denies(inbound)

(* What the client library will restore when the connection is lost.         *)
Restored ==
    hasEntry /\ backend = "redis" => confirmed \/ Registers(inbound) \/ Registers(commands)

PubSubInv == PubSubTypeOK /\ MemoryIsLocal /\ Backed /\ Restored

(* What becomes of the handlers of c: those there are, and those that a      *)
(* pending psubscribe will register, are before a pending removal of c's own. *)
Leaving(c) ==
    /\ Hears(c) => RemovedBy(c, inbound) \/ RemovedBy(c, commands)
    /\ \A i \in DOMAIN commands :
         commands[i].op = "psubscribe" /\ commands[i].by = c
           => \E j \in DOMAIN commands :
                j > i /\ commands[j].op = "punsubscribe" /\ commands[j].by = c
    /\ \A i \in DOMAIN inbound :
         inbound[i].op = "psubscribe" /\ inbound[i].by = c
           => \/ \E j \in DOMAIN inbound :
                   j > i /\ inbound[j].op = "punsubscribe" /\ inbound[j].by = c
              \/ RemovedBy(c, commands)

(* Who has no subscription, did not lose it under a waiting handler and whose *)
(* punsubscribe was not refused, has nothing under way that would last.      *)
Leavers ==
    \A c \in Clients :
        alive /\ ~subscribed[c] /\ c \notin orphaned \cup kept => fetching[c] = 0 /\ Leaving(c)

ClosedIsForgotten == \A c \in Clients : connection[c] # "open" => ~subscribed[c]

(* Updates are on the way in the order of their publication, and no client   *)
(* has seen one that is.                                                     *)
Ordered ==
    \A i, j \in DOMAIN inbound :
        i < j /\ IsMessage(inbound[i]) /\ IsMessage(inbound[j])
          => inbound[i].version < inbound[j].version

Known == \A i \in DOMAIN inbound : IsMessage(inbound[i]) => inbound[i].version <= published

Fresh ==
    \A c \in Clients :
        /\ seen[c] \in 0 .. published
        /\ \A i \in DOMAIN inbound : IsMessage(inbound[i]) => seen[c] < inbound[i].version

(* What is due to a client is on its way, before every removal, and the      *)
(* client is there to get it.                                                *)
Safe(v) ==
    \E i \in DOMAIN inbound :
        /\ inbound[i] = [op |-> "message", version |-> v]
        /\ \A j \in DOMAIN inbound : Accepts(inbound[j], "punsubscribe") => i < j

Due ==
    \A c \in Clients : \A v \in due[c] : connection[c] = "open" /\ Hears(c) /\ Safe(v)

Flight == Ordered /\ Known /\ Fresh

IInv == PubSubInv /\ FeedTypes /\ Leavers /\ ClosedIsForgotten /\ Flight /\ Due

-----------------------------------------------------------------------------
(* The recursive functions of RedisPubSub: that they exist, which gives what *)
(* they are at every index.                                                  *)
LEMMA LeastNatural ==
  ASSUME NEW T, T \subseteq Nat, T # {}
  PROVE  \E i \in T : \A j \in T : i <= j
<1>1. PICK i \in T : \A j \in T : ~(<<j, i>> \in OpToRel(<, Nat))
  BY NatLessThanWellFounded, WFMin
<1>2. \A j \in T : ~(j < i)
  BY <1>1 DEF OpToRel
<1>3. QED BY <1>2

(* A property of 0 that n passes on to n + 1 is one of all up to N.          *)
LEMMA Upwards ==
  ASSUME NEW N \in Nat, NEW Good, 0 \in Good,
         \A n \in 1 .. N : n - 1 \in Good => n \in Good
  PROVE  \A n \in 0 .. N : n \in Good
<1> DEFINE T == {n \in 0 .. N : n \notin Good}
<1>1. SUFFICES ASSUME T # {} PROVE FALSE
  OBVIOUS
<1>2. T \subseteq Nat
  OBVIOUS
<1>3. PICK n \in T : \A j \in T : n <= j
  <2> HIDE DEF T
  <2>1. QED BY <1>1, <1>2, LeastNatural
<1>4. n \in 1 .. N /\ n - 1 \in 0 .. N /\ n \notin Good
  BY <1>3
<1>5. n - 1 \notin T
  BY <1>3, <1>4
<1>6. QED BY <1>4, <1>5

(* g has the states of Resumed before and after each of the n callers.       *)
ContinuedTable(g, n, z, chunk) ==
  g = [i \in 0 .. n |-> IF i = 0 THEN z ELSE Continued(g[i - 1], chunk[i])]

LEMMA ContinuedSteps ==
  ASSUME NEW chunk, NEW z, NEW N \in Nat
  PROVE  \E g : ContinuedTable(g, N, z, chunk)
<1> USE DEF ContinuedTable
<1> DEFINE Table(g, n) == ContinuedTable(g, n, z, chunk)
           Good == {n \in Nat : \E g : Table(g, n)}
<1>1. 0 \in Good
  <2>1. Table([i \in 0 .. 0 |-> z], 0)
    OBVIOUS
  <2>2. QED BY <2>1
<1>2. ASSUME NEW n \in 1 .. N, n - 1 \in Good PROVE n \in Good
  <2>1. n - 1 \in Nat /\ n \in Nat /\ n # 0
    OBVIOUS
  <2>2. PICK g : Table(g, n - 1)
    BY <1>2
  <2> DEFINE h == [i \in 0 .. n |-> IF i = n THEN Continued(g[n - 1], chunk[n]) ELSE g[i]]
  <2>3. \A i \in 0 .. n : h[i] = IF i = 0 THEN z ELSE Continued(h[i - 1], chunk[i])
    <3>1. \A i \in 0 .. n - 1 : g[i] = IF i = 0 THEN z ELSE Continued(g[i - 1], chunk[i])
      BY <2>2
    <3>2. \A i \in 0 .. n - 1 : h[i] = g[i]
      BY <2>1
    <3>3. h[n] = Continued(h[n - 1], chunk[n])
      BY <2>1, <3>2
    <3>4. QED
      BY <2>1, <3>1, <3>2, <3>3
  <2>4. Table(h, n)
    <3> HIDE DEF h
    <3>1. h = [i \in 0 .. n |-> h[i]]
      BY DEF h
    <3>2. QED BY <2>3, <3>1
  <2>5. QED BY <2>1, <2>4
<1>3. \A n \in 0 .. N : n \in Good
  <2> HIDE DEF Good
  <2>1. QED BY <1>1, <1>2, Upwards
<1>4. QED BY <1>3

LEMMA Resuming ==
  ASSUME NEW chunk \in Seq(Arrival)
  PROVE  \E g : /\ g[0] = [hasEntry |-> hasEntry, handlers |-> handlers,
                           confirmed |-> confirmed, rejects |-> FALSE]
                /\ \A i \in 1 .. Len(chunk) : g[i] = Continued(g[i - 1], chunk[i])
                /\ Resumed(chunk) = g[Len(chunk)]
<1> DEFINE before == [hasEntry |-> hasEntry, handlers |-> handlers,
                      confirmed |-> confirmed, rejects |-> FALSE]
           after[i \in 0 .. Len(chunk)] ==
             IF i = 0 THEN before ELSE Continued(after[i - 1], chunk[i])
<1>1. Resumed(chunk) = after[Len(chunk)]
  BY DEF Resumed
<1>2. Len(chunk) \in Nat
  OBVIOUS
<1>3. after = [i \in 0 .. Len(chunk) |-> IF i = 0 THEN before ELSE Continued(after[i - 1], chunk[i])]
  <2>1. \E g : g = [i \in 0 .. Len(chunk) |-> IF i = 0 THEN before ELSE Continued(g[i - 1], chunk[i])]
    <3> DEFINE N == Len(chunk)
    <3>1. N \in Nat
      BY <1>2
    <3> HIDE DEF before, N
    <3>2. PICK g : ContinuedTable(g, N, before, chunk)
      BY <3>1, ContinuedSteps
    <3>3. g = [i \in 0 .. N |-> IF i = 0 THEN before ELSE Continued(g[i - 1], chunk[i])]
      BY <3>2 DEF ContinuedTable
    <3>4. QED BY <3>3 DEF N
  <2>2. QED BY <2>1 DEF after
<1>4. /\ after[0] = before
      /\ \A i \in 1 .. Len(chunk) : after[i] = Continued(after[i - 1], chunk[i])
  <2> HIDE DEF before, after
  <2>1. QED BY <1>2, <1>3
<1>5. QED BY <1>1, <1>4

(* The table of RepeatedCommands.                                            *)
ReplyStep(r, m) == IF IsMessage(m) THEN r ELSE Append(r, CommandOf(m))

LEMMA ReplySteps ==
  ASSUME NEW N \in Nat, NEW s
  PROVE  \E g : g = [i \in 0 .. N |-> IF i = 0 THEN <<>> ELSE IF IsMessage(s[i]) THEN g[i - 1]
                                      ELSE Append(g[i - 1], CommandOf(s[i]))]
<1> DEFINE Table(g, n) == g = [i \in 0 .. n |-> IF i = 0 THEN <<>> ELSE IF IsMessage(s[i]) THEN g[i - 1]
                                                ELSE Append(g[i - 1], CommandOf(s[i]))]
           Good == {n \in Nat : \E g : Table(g, n)}
<1>1. 0 \in Good
  <2>1. Table([i \in 0 .. 0 |-> <<>>], 0)
    OBVIOUS
  <2>2. QED BY <2>1
<1>2. ASSUME NEW n \in 1 .. N, n - 1 \in Good PROVE n \in Good
  <2>1. n - 1 \in Nat /\ n \in Nat /\ n # 0
    OBVIOUS
  <2>2. PICK g : Table(g, n - 1)
    BY <1>2
  <2> DEFINE h == [i \in 0 .. n |-> IF i = n THEN ReplyStep(g[n - 1], s[n]) ELSE g[i]]
  <2>3. \A i \in 0 .. n : h[i] = IF i = 0 THEN <<>> ELSE ReplyStep(h[i - 1], s[i])
    <3>1. \A i \in 0 .. n - 1 : g[i] = IF i = 0 THEN <<>> ELSE ReplyStep(g[i - 1], s[i])
      BY <2>2 DEF ReplyStep
    <3>2. \A i \in 0 .. n - 1 : h[i] = g[i]
      BY <2>1
    <3>3. h[n] = ReplyStep(h[n - 1], s[n])
      BY <2>1, <3>2
    <3>4. QED
      BY <2>1, <3>1, <3>2, <3>3
  <2>4. Table(h, n)
    <3> HIDE DEF h
    <3>1. h = [i \in 0 .. n |-> h[i]]
      BY DEF h
    <3>2. QED BY <2>3, <3>1 DEF ReplyStep
  <2>5. QED BY <2>1, <2>4
<1>3. \A n \in 0 .. N : n \in Good
  <2> HIDE DEF Good
  <2>1. QED BY <1>1, <1>2, Upwards
<1>4. N \in Good
  <2> HIDE DEF Good
  <2>1. QED BY <1>3
<1>5. QED BY <1>4

LEMMA Repeating ==
  ASSUME inbound \in Seq(Arrival)
  PROVE  \E g : /\ g[0] = <<>>
                /\ \A i \in 1 .. Len(inbound) : g[i] = ReplyStep(g[i - 1], inbound[i])
                /\ RepeatedCommands = g[Len(inbound)] \o commands
<1> DEFINE replies[i \in 0 .. Len(inbound)] ==
             IF i = 0 THEN <<>>
             ELSE IF IsMessage(inbound[i]) THEN replies[i - 1]
             ELSE Append(replies[i - 1], CommandOf(inbound[i]))
<1>1. RepeatedCommands = replies[Len(inbound)] \o commands
  BY DEF RepeatedCommands
<1>2. Len(inbound) \in Nat
  OBVIOUS
<1>3. replies = [i \in 0 .. Len(inbound) |->
                   IF i = 0 THEN <<>> ELSE IF IsMessage(inbound[i]) THEN replies[i - 1]
                   ELSE Append(replies[i - 1], CommandOf(inbound[i]))]
  <2>1. \E g : g = [i \in 0 .. Len(inbound) |->
                     IF i = 0 THEN <<>> ELSE IF IsMessage(inbound[i]) THEN g[i - 1]
                     ELSE Append(g[i - 1], CommandOf(inbound[i]))]
    BY <1>2, ReplySteps
  <2>2. QED BY <2>1 DEF replies
<1>4. /\ replies[0] = <<>>
      /\ \A i \in 1 .. Len(inbound) : replies[i] = ReplyStep(replies[i - 1], inbound[i])
  <2> HIDE DEF replies
  <2>1. \A i \in 0 .. Len(inbound) :
          replies[i] = IF i = 0 THEN <<>> ELSE IF IsMessage(inbound[i]) THEN replies[i - 1]
                       ELSE Append(replies[i - 1], CommandOf(inbound[i]))
    BY <1>3
  <2>2. QED BY <1>2, <2>1 DEF ReplyStep
<1>5. QED BY <1>1, <1>4

-----------------------------------------------------------------------------
(* What these functions compute.                                             *)
Resumable == [hasEntry : BOOLEAN, handlers : Seq(Clients), confirmed : BOOLEAN, rejects : BOOLEAN]

LEMMA Kinds ==
  ASSUME NEW m \in Arrival
  PROVE  /\ m.op \in {"psubscribe", "punsubscribe", "message"}
         /\ m.op # "message" =>
              /\ m \in Reply /\ m.by \in Clients /\ m.answer \in {"ok", "refused"}
              /\ CommandOf(m) \in Command
         /\ m.op = "message" => m \in Message /\ m.version \in 1 .. MaxUpdates
BY DEF Arrival, Reply, Message, Command, CommandOf

(* One caller that resumes.                                                  *)
LEMMA ContinuedDoes ==
  ASSUME NEW s \in Resumable, NEW m \in Arrival
  PROVE  /\ Continued(s, m) \in Resumable
         /\ m.op = "message" => Continued(s, m) = s
         /\ Accepts(m, "punsubscribe") =>
              /\ ~Continued(s, m).hasEntry /\ Continued(s, m).handlers = <<>>
         /\ Refuses(m, "punsubscribe") => Continued(s, m) = s
         /\ Refuses(m, "psubscribe") => Continued(s, m).rejects
         /\ Accepts(m, "psubscribe") =>
              /\ Continued(s, m).hasEntry = s.hasEntry /\ Continued(s, m).confirmed
              /\ Continued(s, m).handlers =
                   IF s.hasEntry THEN Append(s.handlers, m.by) ELSE s.handlers
         /\ Refuses(m, "psubscribe") =>
              /\ Continued(s, m).hasEntry = s.hasEntry /\ Continued(s, m).handlers = s.handlers
              /\ Continued(s, m).confirmed = s.confirmed
         /\ s.rejects => Continued(s, m).rejects
<1>1. CASE m.op = "message"
  BY <1>1 DEF Continued, Accepts, Refuses
<1>2. CASE Accepts(m, "punsubscribe")
  <2>1. Continued(s, m) = [s EXCEPT !.hasEntry = FALSE, !.handlers = <<>>, !.confirmed = FALSE]
    BY <1>2 DEF Continued, Accepts, Refuses
  <2>2. Continued(s, m) = [hasEntry |-> FALSE, handlers |-> <<>>, confirmed |-> FALSE,
                           rejects |-> s.rejects]
    BY <2>1 DEF Resumable
  <2>3. Continued(s, m) \in Resumable
    BY <2>2 DEF Resumable
  <2>4. QED BY <1>2, <2>2, <2>3 DEF Accepts, Refuses
<1>3. CASE Accepts(m, "psubscribe") /\ s.hasEntry
  <2>1. Continued(s, m) = [s EXCEPT !.handlers = Append(@, m.by), !.confirmed = TRUE]
    BY <1>3 DEF Continued, Accepts, Refuses
  <2>2. m.by \in Clients
    BY <1>3, Kinds DEF Accepts
  <2>3. Continued(s, m) = [hasEntry |-> s.hasEntry, handlers |-> Append(s.handlers, m.by),
                           confirmed |-> TRUE, rejects |-> s.rejects]
    BY <2>1 DEF Resumable
  <2>4. Append(s.handlers, m.by) \in Seq(Clients)
    BY <2>2 DEF Resumable
  <2>5. Continued(s, m) \in Resumable
    BY <2>3, <2>4 DEF Resumable
  <2>6. QED BY <1>3, <2>3, <2>5 DEF Accepts, Refuses
<1>4. CASE Accepts(m, "psubscribe") /\ ~s.hasEntry
  <2>1. Continued(s, m) = [s EXCEPT !.rejects = TRUE, !.confirmed = TRUE]
    BY <1>4 DEF Continued, Accepts, Refuses
  <2>2. QED BY <1>4, <2>1 DEF Resumable, Accepts, Refuses
<1>5. CASE Refuses(m, "psubscribe")
  <2>1. Continued(s, m) = [s EXCEPT !.rejects = TRUE]
    BY <1>5 DEF Continued, Accepts, Refuses
  <2>2. QED BY <1>5, <2>1 DEF Resumable, Accepts, Refuses
<1>6. CASE Refuses(m, "punsubscribe")
  <2>1. Continued(s, m) = s
    BY <1>6 DEF Continued, Accepts, Refuses
  <2>2. QED BY <1>6, <2>1 DEF Accepts, Refuses
<1>7. QED
  BY <1>1, <1>2, <1>3, <1>4, <1>5, <1>6, Kinds DEF Accepts, Refuses

(* The entry does not come back with a reply, a removal leaves no handler    *)
(* behind, without one the handlers stay and only accepted ones join them.   *)
LEMMA ResumedFacts ==
  ASSUME PubSubTypeOK, NEW chunk \in Seq(Arrival)
  PROVE  /\ Resumed(chunk) \in Resumable
         /\ Denies(chunk) => Resumed(chunk).rejects
         /\ Removes(chunk) => ~Resumed(chunk).hasEntry /\ Resumed(chunk).handlers = <<>>
         /\ ~Removes(chunk) =>
              /\ Resumed(chunk).hasEntry = hasEntry
              /\ confirmed => Resumed(chunk).confirmed
              /\ Registers(chunk) => Resumed(chunk).confirmed \/ Resumed(chunk).rejects
              /\ \A c \in Clients : Hears(c) => c \in Range(Resumed(chunk).handlers)
              /\ \A c \in Range(Resumed(chunk).handlers) :
                   \/ Hears(c)
                   \/ \E k \in DOMAIN chunk : chunk[k].op = "psubscribe" /\ chunk[k].by = c
<1> DEFINE N == Len(chunk)
<1>1. PICK g : /\ g[0] = [hasEntry |-> hasEntry, handlers |-> handlers,
                          confirmed |-> confirmed, rejects |-> FALSE]
               /\ \A i \in 1 .. Len(chunk) : g[i] = Continued(g[i - 1], chunk[i])
               /\ Resumed(chunk) = g[Len(chunk)]
  BY Resuming
<1> DEFINE
      Denied(i) == (\E k \in 1 .. i : Refuses(chunk[k], "psubscribe")) => g[i].rejects
      Gone(i) == (\E k \in 1 .. i : Accepts(chunk[k], "punsubscribe"))
                   => ~g[i].hasEntry /\ g[i].handlers = <<>>
      Lasting(i) == \A k \in 1 .. i : ~Accepts(chunk[k], "punsubscribe")
      Same(i) == Lasting(i) => g[i].hasEntry = hasEntry /\ (confirmed => g[i].confirmed)
      Joined(i) == Lasting(i) /\ (\E k \in 1 .. i : chunk[k].op = "psubscribe")
                     => g[i].confirmed \/ g[i].rejects
      Stayed(i) == Lasting(i) => \A c \in Clients : Hears(c) => c \in Range(g[i].handlers)
      Came(i) == Lasting(i) => \A c \in Range(g[i].handlers) :
                   Hears(c) \/ \E k \in 1 .. i : chunk[k].op = "psubscribe" /\ chunk[k].by = c
      Good == {i \in Nat : /\ g[i] \in Resumable
                           /\ Denied(i) /\ Gone(i) /\ Same(i) /\ Joined(i) /\ Stayed(i) /\ Came(i)}
<1>2. N \in Nat /\ DOMAIN chunk = 1 .. N /\ \A k \in 1 .. N : chunk[k] \in Arrival
  OBVIOUS
<1>3. 0 \in Good
  <2>1. g[0] \in Resumable
    BY <1>1 DEF Resumable, PubSubTypeOK
  <2>2. Same(0) /\ Stayed(0) /\ Came(0)
    BY <1>1 DEF Hears
  <2>3. QED BY <1>1, <2>1, <2>2
<1>4. ASSUME NEW i \in 1 .. N, i - 1 \in Good PROVE i \in Good
  <2> DEFINE m == chunk[i]
             s == g[i - 1]
  <2>1. i \in Nat /\ i - 1 \in Nat /\ m \in Arrival
    BY <1>2
  <2>2. /\ s \in Resumable /\ Denied(i - 1) /\ Gone(i - 1) /\ Same(i - 1)
        /\ Joined(i - 1) /\ Stayed(i - 1) /\ Came(i - 1)
    BY <1>4
  <2>3. g[i] = Continued(s, m)
    BY <1>1
  <2>4. 1 .. i = (1 .. i - 1) \cup {i}
    BY <2>1
  <2> DEFINE t == g[i]
  <2>5. /\ t \in Resumable
        /\ Accepts(m, "punsubscribe") => ~t.hasEntry /\ t.handlers = <<>>
        /\ Accepts(m, "psubscribe") =>
             /\ t.hasEntry = s.hasEntry /\ t.confirmed
             /\ t.handlers = IF s.hasEntry THEN Append(s.handlers, m.by) ELSE s.handlers
        /\ Refuses(m, "psubscribe") =>
             /\ t.hasEntry = s.hasEntry /\ t.handlers = s.handlers
             /\ t.confirmed = s.confirmed /\ t.rejects
    <3>1. s \in Resumable
      BY <2>2
    <3> HIDE DEF s, m, t
    <3>2. t = Continued(s, m)
      BY <2>3 DEF s, m, t
    <3>3. QED BY <2>1, <3>1, <3>2, ContinuedDoes, Zenon
  <2>6. Denied(i)
    BY <2>1, <2>2, <2>3, <2>4, ContinuedDoes
  <2>7. CASE g[i] = s /\ m.op # "psubscribe" /\ ~Accepts(m, "punsubscribe")
    <3>1. Lasting(i) <=> Lasting(i - 1)
      BY <2>4, <2>7
    <3>2. Gone(i)
      BY <2>2, <2>4, <2>7
    <3>3. Same(i) /\ Stayed(i)
      BY <2>2, <2>7, <3>1
    <3>4. Joined(i)
      BY <2>2, <2>4, <2>7, <3>1
    <3>5. Came(i)
      BY <2>2, <2>4, <2>7, <3>1
    <3>6. QED BY <2>1, <2>5, <2>6, <3>2, <3>3, <3>4, <3>5
  <2>8. CASE Accepts(m, "punsubscribe")
    <3>1. ~g[i].hasEntry /\ g[i].handlers = <<>>
      BY <2>5, <2>8
    <3>2. ~Lasting(i)
      BY <2>1, <2>8
    <3>3. QED BY <2>1, <2>5, <2>6, <3>1, <3>2
  <2>9. CASE m.op = "psubscribe"
    <3>1. /\ g[i].hasEntry = s.hasEntry
          /\ s.confirmed => g[i].confirmed
          /\ g[i].confirmed \/ g[i].rejects
          /\ \/ g[i].handlers = s.handlers
             \/ s.hasEntry /\ g[i].handlers = Append(s.handlers, m.by)
      <4>1. Accepts(m, "psubscribe") \/ Refuses(m, "psubscribe")
        BY <2>1, <2>9, Kinds DEF Accepts, Refuses
      <4>2. CASE Accepts(m, "psubscribe")
        BY <2>5, <4>2
      <4>3. CASE Refuses(m, "psubscribe")
        BY <2>5, <4>3
      <4>4. QED BY <4>1, <4>2, <4>3
    <3>2. s.handlers \in Seq(Clients) /\ m.by \in Clients
      BY <2>1, <2>2, <2>9, Kinds DEF Resumable
    <3>3. /\ \A c \in Range(s.handlers) : c \in Range(g[i].handlers)
          /\ \A c \in Range(g[i].handlers) : c \in Range(s.handlers) \/ c = m.by
      <4>1. CASE g[i].handlers = s.handlers
        BY <4>1
      <4>2. CASE g[i].handlers = Append(s.handlers, m.by)
        <5> DEFINE old == s.handlers
                   new == g[i].handlers
                   c0 == m.by
        <5>1. old \in Seq(Clients) /\ c0 \in Clients /\ new = Append(old, c0)
          BY <3>2, <4>2
        <5> HIDE DEF old, new, c0
        <5>2. /\ DOMAIN old = 1 .. Len(old) /\ Len(old) \in Nat /\ DOMAIN new = 1 .. Len(old) + 1
              /\ new[Len(old) + 1] = c0 /\ \A k \in 1 .. Len(old) : new[k] = old[k]
          BY <5>1
        <5>3. /\ \A c \in Range(old) : c \in Range(new)
              /\ \A c \in Range(new) : c \in Range(old) \/ c = c0
          BY <5>2 DEF Range
        <5>4. QED BY <5>3 DEF old, new, c0
      <4>3. QED BY <3>1, <4>1, <4>2
    <3>4. ~Accepts(m, "punsubscribe")
      BY <2>9 DEF Accepts
    <3>5. Lasting(i) <=> Lasting(i - 1)
      BY <2>4, <3>4
    <3>6. Gone(i)
      <4>1. SUFFICES ASSUME NEW k \in 1 .. i, Accepts(chunk[k], "punsubscribe")
                     PROVE  ~g[i].hasEntry /\ g[i].handlers = <<>>
        OBVIOUS
      <4>2. k \in 1 .. i - 1
        BY <2>4, <3>4, <4>1
      <4>3. ~s.hasEntry /\ s.handlers = <<>>
        BY <2>2, <4>1, <4>2
      <4>4. QED BY <3>1, <4>3
    <3>7. Same(i)
      BY <2>2, <3>1, <3>5
    <3>8. Joined(i)
      BY <3>1
    <3>9. Stayed(i)
      BY <2>2, <3>3, <3>5
    <3>10. Came(i)
      BY <2>2, <2>4, <2>9, <3>3, <3>5
    <3>11. QED BY <2>1, <2>5, <2>6, <3>6, <3>7, <3>8, <3>9, <3>10
  <2>10. \/ g[i] = s /\ m.op # "psubscribe" /\ ~Accepts(m, "punsubscribe")
         \/ Accepts(m, "punsubscribe")
         \/ m.op = "psubscribe"
    <3>1. CASE m.op = "message"
      BY <2>1, <2>2, <2>3, <3>1, ContinuedDoes DEF Accepts
    <3>2. CASE m.op = "punsubscribe"
      <4>1. Accepts(m, "punsubscribe") \/ Refuses(m, "punsubscribe")
        BY <2>1, <3>2, Kinds DEF Accepts, Refuses
      <4>2. QED BY <2>1, <2>2, <2>3, <3>2, <4>1, ContinuedDoes
    <3>3. QED BY <2>1, <3>1, <3>2, Kinds
  <2>11. QED BY <2>7, <2>8, <2>9, <2>10
<1>5. N \in Good
  <2> HIDE DEF Good, N
  <2>1. QED BY <1>2, <1>3, <1>4, Upwards
<1>6. /\ g[N] \in Resumable /\ Denied(N) /\ Gone(N) /\ Same(N) /\ Joined(N)
      /\ Stayed(N) /\ Came(N)
  BY <1>5
<1>7. Resumed(chunk) = g[N]
  BY <1>1
<1>8. ~Removes(chunk) => Lasting(N)
  BY <1>2 DEF Removes
<1>9. QED
  <2> HIDE DEF N
  <2>1. Denies(chunk) => Resumed(chunk).rejects
    BY <1>2, <1>6, <1>7 DEF Denies
  <2>2. Removes(chunk) => ~Resumed(chunk).hasEntry /\ Resumed(chunk).handlers = <<>>
    BY <1>2, <1>6, <1>7 DEF Removes
  <2>3. ~Removes(chunk) => Resumed(chunk).hasEntry = hasEntry /\ (confirmed => Resumed(chunk).confirmed)
    BY <1>6, <1>7, <1>8
  <2>4. ~Removes(chunk) /\ Registers(chunk) => Resumed(chunk).confirmed \/ Resumed(chunk).rejects
    BY <1>2, <1>6, <1>7, <1>8 DEF Registers
  <2>5. ~Removes(chunk) => \A c \in Clients : Hears(c) => c \in Range(Resumed(chunk).handlers)
    BY <1>6, <1>7, <1>8
  <2>6. ~Removes(chunk) =>
          \A c \in Range(Resumed(chunk).handlers) :
            Hears(c) \/ \E k \in DOMAIN chunk : chunk[k].op = "psubscribe" /\ chunk[k].by = c
    BY <1>2, <1>6, <1>7, <1>8
  <2>7. QED BY <1>6, <1>7, <2>1, <2>2, <2>3, <2>4, <2>5, <2>6

(* The repeated commands: the replies on the way, each once and in order,    *)
(* before the commands that were not executed.                               *)
LEMMA RepliesInOrder ==
  ASSUME PubSubTypeOK
  PROVE  \E r \in Seq(Command) :
           /\ RepeatedCommands = r \o commands
           /\ \A k \in DOMAIN r : \E j \in DOMAIN inbound :
                /\ CommandOf(inbound[j]) = r[k]
                /\ \A l \in DOMAIN inbound :
                     l > j /\ inbound[l].op # "message" => \E m \in DOMAIN r : m > k /\ r[m] = CommandOf(inbound[l])
           /\ \A l \in DOMAIN inbound :
                inbound[l].op # "message" => \E m \in DOMAIN r : r[m] = CommandOf(inbound[l])
<1> DEFINE N == Len(inbound)
<1>1. inbound \in Seq(Arrival)
  BY DEF PubSubTypeOK, Arrival
<1>2. PICK g : /\ g[0] = <<>>
               /\ \A i \in 1 .. Len(inbound) : g[i] = ReplyStep(g[i - 1], inbound[i])
               /\ RepeatedCommands = g[Len(inbound)] \o commands
  BY <1>1, Repeating
<1> DEFINE
      Typed(i) == g[i] \in Seq(Command)
      Sorted(i) == \A k \in 1 .. Len(g[i]) : \E j \in 1 .. i :
                     /\ CommandOf(inbound[j]) = g[i][k]
                     /\ \A l \in 1 .. i : l > j /\ inbound[l].op # "message"
                          => \E m \in 1 .. Len(g[i]) : m > k /\ g[i][m] = CommandOf(inbound[l])
      Complete(i) == \A l \in 1 .. i :
                       inbound[l].op # "message" => \E m \in 1 .. Len(g[i]) : g[i][m] = CommandOf(inbound[l])
      Good == {i \in Nat : Typed(i) /\ Sorted(i) /\ Complete(i)}
<1>3. N \in Nat /\ DOMAIN inbound = 1 .. N /\ \A k \in 1 .. N : inbound[k] \in Arrival
  BY <1>1
<1>4. 0 \in Good
  <2>1. g[0] \in Seq(Command) /\ Len(g[0]) = 0 /\ 1 .. 0 = {}
    BY <1>2
  <2>2. Sorted(0) /\ Complete(0)
    BY <2>1
  <2>3. QED BY <2>1, <2>2
<1>5. ASSUME NEW i \in 1 .. N, i - 1 \in Good PROVE i \in Good
  <2> DEFINE x == inbound[i]
             r == g[i - 1]
             n == Len(r)
  <2>1. i \in Nat /\ i - 1 \in Nat /\ x \in Arrival
    BY <1>3
  <2>2. Typed(i - 1) /\ Sorted(i - 1) /\ Complete(i - 1)
    BY <1>5
  <2>3. g[i] = ReplyStep(r, x)
    BY <1>2
  <2>4. 1 .. i = (1 .. i - 1) \cup {i}
    BY <2>1
  <2>5. CASE x.op = "message"
    <3>1. g[i] = r
      BY <2>3, <2>5 DEF ReplyStep, IsMessage
    <3>2. Typed(i)
      BY <2>2, <3>1
    <3>3. Sorted(i)
      <4>1. SUFFICES ASSUME NEW k \in 1 .. Len(g[i])
                     PROVE  \E j \in 1 .. i :
                              /\ CommandOf(inbound[j]) = g[i][k]
                              /\ \A l \in 1 .. i : l > j /\ inbound[l].op # "message"
                                   => \E m \in 1 .. Len(g[i]) : m > k /\ g[i][m] = CommandOf(inbound[l])
        OBVIOUS
      <4>2. PICK j \in 1 .. i - 1 :
              /\ CommandOf(inbound[j]) = r[k]
              /\ \A l \in 1 .. i - 1 : l > j /\ inbound[l].op # "message"
                   => \E m \in 1 .. Len(r) : m > k /\ r[m] = CommandOf(inbound[l])
        BY <2>2, <3>1
      <4>3. QED BY <2>4, <2>5, <3>1, <4>2
    <3>4. Complete(i)
      BY <2>2, <2>4, <2>5, <3>1
    <3>5. QED BY <2>1, <3>2, <3>3, <3>4
  <2>6. CASE x.op # "message"
    <3>1. CommandOf(x) \in Command
      BY <2>1, <2>6, Kinds
    <3>2. g[i] = Append(r, CommandOf(x))
      BY <2>3, <2>6 DEF ReplyStep, IsMessage
    <3>3. /\ r \in Seq(Command) /\ n \in Nat /\ Len(g[i]) = n + 1 /\ g[i] \in Seq(Command)
          /\ g[i][n + 1] = CommandOf(x) /\ \A k \in 1 .. n : g[i][k] = r[k]
      BY <2>2, <3>1, <3>2
    <3>4. 1 .. Len(g[i]) = (1 .. n) \cup {n + 1}
      BY <3>3
    <3>5. Sorted(i)
      <4>1. SUFFICES ASSUME NEW k \in 1 .. Len(g[i])
                     PROVE  \E j \in 1 .. i :
                              /\ CommandOf(inbound[j]) = g[i][k]
                              /\ \A l \in 1 .. i : l > j /\ inbound[l].op # "message"
                                   => \E m \in 1 .. Len(g[i]) : m > k /\ g[i][m] = CommandOf(inbound[l])
        OBVIOUS
      <4>2. CASE k = n + 1
        <5>1. CommandOf(inbound[i]) = g[i][k] /\ \A l \in 1 .. i : ~(l > i)
          BY <2>1, <3>3, <4>2
        <5>2. QED BY <2>1, <5>1
      <4>3. CASE k \in 1 .. n
        <5>1. PICK j \in 1 .. i - 1 :
                /\ CommandOf(inbound[j]) = r[k]
                /\ \A l \in 1 .. i - 1 : l > j /\ inbound[l].op # "message"
                     => \E m \in 1 .. Len(r) : m > k /\ r[m] = CommandOf(inbound[l])
          BY <2>2, <4>3
        <5>2. ASSUME NEW l \in 1 .. i, l > j, inbound[l].op # "message"
              PROVE  \E m \in 1 .. Len(g[i]) : m > k /\ g[i][m] = CommandOf(inbound[l])
          <6>1. CASE l = i
            <7>1. n + 1 \in 1 .. Len(g[i]) /\ n + 1 > k /\ g[i][n + 1] = CommandOf(inbound[l])
              BY <3>3, <4>3, <6>1
            <7>2. QED BY <7>1
          <6>2. CASE l \in 1 .. i - 1
            <7>1. PICK m \in 1 .. n : m > k /\ r[m] = CommandOf(inbound[l])
              BY <5>1, <5>2, <6>2
            <7>2. m \in 1 .. Len(g[i]) /\ g[i][m] = r[m]
              BY <3>3, <3>4
            <7>3. QED BY <7>1, <7>2
          <6>3. QED BY <2>4, <6>1, <6>2
        <5>3. CommandOf(inbound[j]) = g[i][k] /\ j \in 1 .. i
          BY <2>4, <3>3, <4>3, <5>1
        <5>4. QED BY <5>2, <5>3
      <4>4. QED BY <3>4, <4>2, <4>3
    <3>6. Complete(i)
      <4>1. SUFFICES ASSUME NEW l \in 1 .. i, inbound[l].op # "message"
                     PROVE  \E m \in 1 .. Len(g[i]) : g[i][m] = CommandOf(inbound[l])
        OBVIOUS
      <4>2. CASE l = i
        BY <3>3, <3>4, <4>2
      <4>3. CASE l \in 1 .. i - 1
        <5>1. PICK m \in 1 .. n : r[m] = CommandOf(inbound[l])
          BY <2>2, <4>1, <4>3
        <5>2. QED BY <3>3, <3>4, <5>1
      <4>4. QED BY <2>4, <4>2, <4>3
    <3>7. QED BY <2>1, <3>3, <3>5, <3>6
  <2>7. QED BY <2>5, <2>6
<1>6. N \in Good
  <2> HIDE DEF Good, N
  <2>1. QED BY <1>3, <1>4, <1>5, Upwards
<1>7. Typed(N) /\ Sorted(N) /\ Complete(N)
  BY <1>6
<1>8. PICK R \in Seq(Command) : R = g[N]
  BY <1>7
<1>9. RepeatedCommands = R \o commands
  BY <1>2, <1>8
<1>10. DOMAIN R = 1 .. Len(R)
  OBVIOUS
<1>11. \A k \in 1 .. Len(R) : \E j \in 1 .. N :
         /\ CommandOf(inbound[j]) = R[k]
         /\ \A l \in 1 .. N :
              l > j /\ inbound[l].op # "message" => \E m \in 1 .. Len(R) : m > k /\ R[m] = CommandOf(inbound[l])
  BY <1>7, <1>8
<1>12. \A l \in 1 .. N :
         inbound[l].op # "message" => \E m \in 1 .. Len(R) : R[m] = CommandOf(inbound[l])
  BY <1>7, <1>8
<1>13. QED
  <2>1. ASSUME NEW k \in DOMAIN R
        PROVE  \E j \in DOMAIN inbound :
                 /\ CommandOf(inbound[j]) = R[k]
                 /\ \A l \in DOMAIN inbound :
                      l > j /\ inbound[l].op # "message" => \E m \in DOMAIN R : m > k /\ R[m] = CommandOf(inbound[l])
    <3>1. PICK j \in 1 .. N :
            /\ CommandOf(inbound[j]) = R[k]
            /\ \A l \in 1 .. N :
                 l > j /\ inbound[l].op # "message" => \E m \in 1 .. Len(R) : m > k /\ R[m] = CommandOf(inbound[l])
      BY <1>10, <1>11
    <3>2. QED BY <1>3, <1>10, <3>1
  <2>2. \A l \in DOMAIN inbound : inbound[l].op # "message" => \E m \in DOMAIN R : R[m] = CommandOf(inbound[l])
    BY <1>3, <1>10, <1>12
  <2>3. QED BY <1>9, <2>1, <2>2

(* What that does to the commands a loss of the connection leaves.           *)
LEMMA RepeatedFacts ==
  ASSUME PubSubTypeOK
  PROVE  /\ RepeatedCommands \in Seq(Command)
         /\ Registers(inbound) \/ Registers(commands) => Registers(RepeatedCommands)
         /\ \A c \in Clients :
              RemovedBy(c, inbound) \/ RemovedBy(c, commands) => RemovedBy(c, RepeatedCommands)
         /\ \A c \in Clients : Leaving(c) =>
              \A k \in DOMAIN RepeatedCommands :
                RepeatedCommands[k].op = "psubscribe" /\ RepeatedCommands[k].by = c
                  => \E m \in DOMAIN RepeatedCommands :
                       /\ m > k /\ RepeatedCommands[m].op = "punsubscribe"
                       /\ RepeatedCommands[m].by = c
<1>1. PICK r \in Seq(Command) :
        /\ RepeatedCommands = r \o commands
        /\ \A k \in DOMAIN r : \E j \in DOMAIN inbound :
             /\ CommandOf(inbound[j]) = r[k]
             /\ \A l \in DOMAIN inbound :
                  l > j /\ inbound[l].op # "message"
                    => \E m \in DOMAIN r : m > k /\ r[m] = CommandOf(inbound[l])
        /\ \A l \in DOMAIN inbound :
             inbound[l].op # "message" => \E m \in DOMAIN r : r[m] = CommandOf(inbound[l])
  BY RepliesInOrder
<1> DEFINE all == RepeatedCommands
           n == Len(r)
           p == Len(commands)
<1>2. commands \in Seq(Command)
  BY DEF PubSubTypeOK
<1>3. /\ n \in Nat /\ p \in Nat /\ DOMAIN r = 1 .. n /\ DOMAIN commands = 1 .. p
      /\ all \in Seq(Command) /\ Len(all) = n + p /\ DOMAIN all = 1 .. n + p
      /\ \A k \in 1 .. n : all[k] = r[k]
      /\ \A k \in 1 .. p : all[n + k] = commands[k]
  BY <1>1, <1>2
<1>4. \A x : CommandOf(x).op = x.op /\ CommandOf(x).by = x.by
  BY DEF CommandOf
<1>5. ASSUME NEW l \in DOMAIN inbound, inbound[l].op # "message"
      PROVE  \E m \in DOMAIN all : all[m].op = inbound[l].op /\ all[m].by = inbound[l].by
  <2>1. PICK m \in DOMAIN r : r[m] = CommandOf(inbound[l])
    BY <1>1, <1>5
  <2>2. m \in DOMAIN all /\ all[m] = r[m]
    BY <1>3
  <2>3. QED BY <1>4, <2>1, <2>2
<1>6. ASSUME NEW l \in DOMAIN commands
      PROVE  \E m \in DOMAIN all : all[m] = commands[l]
  <2>1. n + l \in DOMAIN all /\ all[n + l] = commands[l]
    BY <1>3
  <2>2. QED BY <2>1
<1>7. Registers(inbound) \/ Registers(commands) => Registers(all)
  <2> HIDE DEF all
  <2>1. Registers(inbound) => Registers(all)
    BY <1>5 DEF Registers
  <2>2. Registers(commands) => Registers(all)
    BY <1>6 DEF Registers
  <2>3. QED BY <2>1, <2>2
<1>8. ASSUME NEW c \in Clients, RemovedBy(c, inbound) \/ RemovedBy(c, commands)
      PROVE  RemovedBy(c, all)
  <2> HIDE DEF all
  <2>1. RemovedBy(c, inbound) => RemovedBy(c, all)
    BY <1>5 DEF RemovedBy
  <2>2. RemovedBy(c, commands) => RemovedBy(c, all)
    BY <1>6 DEF RemovedBy
  <2>3. QED BY <1>8, <2>1, <2>2
<1>9. ASSUME NEW c \in Clients, Leaving(c), NEW k \in DOMAIN all,
             all[k].op = "psubscribe", all[k].by = c
      PROVE  \E m \in DOMAIN all : m > k /\ all[m].op = "punsubscribe" /\ all[m].by = c
  <2>1. CASE k \in 1 .. n
    <3>1. PICK j \in DOMAIN inbound :
            /\ CommandOf(inbound[j]) = r[k]
            /\ \A l \in DOMAIN inbound :
                 l > j /\ inbound[l].op # "message"
                   => \E m \in DOMAIN r : m > k /\ r[m] = CommandOf(inbound[l])
      BY <1>1, <1>3, <2>1
    <3>2. inbound[j].op = "psubscribe" /\ inbound[j].by = c
      BY <1>3, <1>4, <1>9, <2>1, <3>1
    <3>3. \/ \E l \in DOMAIN inbound : l > j /\ inbound[l].op = "punsubscribe" /\ inbound[l].by = c
          \/ RemovedBy(c, commands)
      BY <1>9, <3>2 DEF Leaving
    <3>4. CASE \E l \in DOMAIN inbound : l > j /\ inbound[l].op = "punsubscribe" /\ inbound[l].by = c
      <4>1. PICK l \in DOMAIN inbound : l > j /\ inbound[l].op = "punsubscribe" /\ inbound[l].by = c
        BY <3>4
      <4>2. PICK m \in DOMAIN r : m > k /\ r[m] = CommandOf(inbound[l])
        BY <3>1, <4>1
      <4>3. m \in DOMAIN all /\ all[m] = r[m]
        BY <1>3
      <4>4. QED BY <1>4, <4>1, <4>2, <4>3
    <3>5. CASE RemovedBy(c, commands)
      <4>1. PICK l \in 1 .. p : commands[l].op = "punsubscribe" /\ commands[l].by = c
        BY <1>3, <3>5 DEF RemovedBy
      <4>2. n + l \in DOMAIN all /\ all[n + l] = commands[l] /\ n + l > k
        BY <1>3, <2>1
      <4>3. QED BY <4>1, <4>2
    <3>6. QED BY <3>3, <3>4, <3>5
  <2>2. CASE k \notin 1 .. n
    <3>1. k - n \in 1 .. p /\ k = n + (k - n)
      BY <1>3, <2>2
    <3>2. all[k] = commands[k - n]
      BY <1>3, <3>1
    <3>3. PICK l \in 1 .. p : l > k - n /\ commands[l].op = "punsubscribe" /\ commands[l].by = c
      BY <1>3, <1>9, <3>1, <3>2 DEF Leaving
    <3>4. n + l \in DOMAIN all /\ all[n + l] = commands[l] /\ n + l > k
      BY <1>3, <3>1, <3>3
    <3>5. QED BY <3>3, <3>4
  <2>3. QED BY <2>1, <2>2
<1>10. QED BY <1>3, <1>7, <1>8, <1>9

LEMMA GreatestBelow ==
  ASSUME NEW N \in Nat, NEW T, T \subseteq 0 .. N, T # {}
  PROVE  \E i \in T : \A j \in T : i >= j
<1> DEFINE S == {N - i : i \in T}
<1>1. S \subseteq Nat /\ S # {}
  <2>1. \A i \in T : N - i \in Nat
    OBVIOUS
  <2>2. QED BY <2>1
<1>2. PICK m \in S : \A k \in S : m <= k
  <2> HIDE DEF S
  <2>1. QED BY <1>1, LeastNatural
<1>3. PICK i \in T : m = N - i
  BY <1>2
<1>4. ASSUME NEW j \in T PROVE i >= j
  <2>1. N - j \in S
    BY Zenon
  <2>2. N - i <= N - j
    BY <1>2, <1>3, <2>1
  <2>3. i \in Int /\ j \in Int
    OBVIOUS
  <2>4. QED BY <2>2, <2>3
<1>5. QED BY <1>4

(* The last update of a chunk is on the wire, and none of the chunk is newer. *)
LEMMA LastVersionFacts ==
  ASSUME PubSubTypeOK, NEW n \in 1 .. Len(inbound), Versions(SubSeq(inbound, 1, n)) # {}
  PROVE  \E m \in 1 .. n : /\ IsMessage(inbound[m])
                           /\ LastVersion(SubSeq(inbound, 1, n)) = inbound[m].version
<1> DEFINE chunk == SubSeq(inbound, 1, n)
           messages == {i \in DOMAIN chunk : IsMessage(chunk[i])}
<1>1. /\ inbound \in Seq(Arrival) /\ n \in Nat
      /\ DOMAIN chunk = 1 .. n /\ \A k \in 1 .. n : chunk[k] = inbound[k]
  BY DEF PubSubTypeOK, Arrival
<1>2. LastVersion(chunk) = chunk[Max(messages)].version
  BY DEF LastVersion
<1>3. messages = {k \in 1 .. n : IsMessage(inbound[k])}
  BY <1>1
<1>4. messages # {}
  BY DEF Versions
<1> HIDE DEF messages
<1>5. messages \subseteq 0 .. n
  BY <1>1, <1>3
<1>6. \E i \in messages : \A j \in messages : i >= j
  BY <1>1, <1>4, <1>5, GreatestBelow
<1> DEFINE m == Max(messages)
<1>7. m \in messages
  BY <1>6 DEF Max
<1> HIDE DEF m
<1>8. m \in 1 .. n /\ IsMessage(inbound[m])
  BY <1>3, <1>7
<1>9. LastVersion(chunk) = inbound[m].version
  BY <1>1, <1>2, <1>8 DEF m
<1>10. QED BY <1>8, <1>9

-----------------------------------------------------------------------------
(* The pub/sub's part of a step.                                             *)

LEMMA Registering ==
  ASSUME PubSubInv, NEW c \in Clients, Psubscribe(c),
         UNCHANGED <<backend, inbound, wire, confirmed, alive>>
  PROVE  /\ PubSubInv'
         /\ \A d \in Clients : d # c /\ Leaving(d) => Leaving(d)'
         /\ \A d \in Clients : Hears(d) => Hears(d)'
<1> USE DEF PubSubInv
<1>1. /\ handlers \in Seq(Clients) /\ commands \in Seq(Command)
      /\ backend = "memory" => commands = <<>> /\ inbound = <<>>
  BY DEF PubSubTypeOK, MemoryIsLocal
<1>2. CASE backend = "memory" \/ hasEntry
  <2>1. handlers' = Append(handlers, c) /\ commands' = commands /\ hasEntry' = TRUE
    BY <1>2 DEF Psubscribe
  <2>2. PubSubTypeOK'
    BY <2>1 DEF PubSubTypeOK
  <2>3. MemoryIsLocal'
    BY <2>1 DEF MemoryIsLocal
  <2>4. Backed' /\ Restored'
    BY <1>2, <2>1 DEF Backed, Restored, Registers, Removes, Denies
  <2>5. /\ DOMAIN handlers = 1 .. Len(handlers) /\ Len(handlers) \in Nat
        /\ DOMAIN handlers' = (1 .. Len(handlers)) \cup {Len(handlers) + 1}
        /\ handlers'[Len(handlers) + 1] = c
        /\ \A i \in DOMAIN handlers : handlers'[i] = handlers[i]
    BY <1>1, <2>1
  <2>6. ASSUME NEW d \in Clients, d # c, Leaving(d) PROVE Leaving(d)'
    <3>1. Hears(d)' => Hears(d)
      BY <2>5, <2>6 DEF Hears, Range
    <3>2. QED BY <2>1, <2>6, <3>1 DEF Leaving, RemovedBy
  <2>7. \A d \in Clients : Hears(d) => Hears(d)'
    BY <2>5 DEF Hears, Range
  <2>8. QED BY <2>2, <2>3, <2>4, <2>6, <2>7
<1>3. CASE ~(backend = "memory" \/ hasEntry)
  <2> DEFINE x == [op |-> "psubscribe", by |-> c]
  <2>1. /\ handlers' = handlers /\ commands' = Append(commands, x) /\ hasEntry' = TRUE
        /\ backend # "memory"
    BY <1>3 DEF Psubscribe
  <2>2. x \in Command
    BY DEF Command
  <2>3. PubSubTypeOK'
    BY <2>1, <2>2 DEF PubSubTypeOK
  <2>4. MemoryIsLocal'
    BY <2>1 DEF MemoryIsLocal
  <2>5. /\ Len(commands) \in Nat /\ Len(commands') = Len(commands) + 1
        /\ commands'[Len(commands) + 1] = x
        /\ DOMAIN commands' = DOMAIN commands \cup {Len(commands) + 1}
        /\ \A i \in DOMAIN commands : commands'[i] = commands[i]
    BY <1>1, <2>1, <2>2
  <2>6. Registers(commands)'
    BY <2>5 DEF Registers
  <2>7. Backed' /\ Restored'
    BY <2>6 DEF Backed, Restored
  <2>8. \A d \in Clients : Hears(d)' <=> Hears(d)
    BY <2>1 DEF Hears, Range
  <2>9. ASSUME NEW d \in Clients, d # c, Leaving(d) PROVE Leaving(d)'
    <3>1. RemovedBy(d, commands) => RemovedBy(d, commands)'
      BY <2>5 DEF RemovedBy
    <3>2. Hears(d)' => RemovedBy(d, inbound)' \/ RemovedBy(d, commands)'
      BY <2>8, <2>9, <3>1 DEF Leaving, RemovedBy
    <3>3. ASSUME NEW i \in DOMAIN commands', commands'[i].op = "psubscribe", commands'[i].by = d
          PROVE  \E j \in DOMAIN commands' :
                   j > i /\ commands'[j].op = "punsubscribe" /\ commands'[j].by = d
      <4>1. i \in DOMAIN commands /\ commands[i].op = "psubscribe" /\ commands[i].by = d
        BY <2>5, <2>9, <3>3
      <4>2. QED BY <2>5, <2>9, <4>1 DEF Leaving
    <3>4. ASSUME NEW i \in DOMAIN inbound', inbound'[i].op = "psubscribe", inbound'[i].by = d
          PROVE  \/ \E j \in DOMAIN inbound' :
                      j > i /\ inbound'[j].op = "punsubscribe" /\ inbound'[j].by = d
                 \/ RemovedBy(d, commands)'
      BY <2>9, <3>1, <3>4 DEF Leaving
    <3>5. QED BY <3>2, <3>3, <3>4 DEF Leaving
  <2>10. QED BY <2>3, <2>4, <2>7, <2>8, <2>9
<1>4. QED BY <1>2, <1>3

LEMMA Removing ==
  ASSUME PubSubInv, NEW c \in Clients, Punsubscribe(c),
         UNCHANGED <<backend, inbound, wire, confirmed, alive>>
  PROVE  /\ PubSubInv'
         /\ Leaving(c)'
         /\ \A d \in Clients : Leaving(d) => Leaving(d)'
         /\ inbound # <<>> => handlers' = handlers
<1> USE DEF PubSubInv
<1>1. /\ commands \in Seq(Command)
      /\ backend = "memory" => commands = <<>> /\ inbound = <<>>
  BY DEF PubSubTypeOK, MemoryIsLocal
<1>2. CASE backend = "memory"
  <2>1. handlers' = <<>> /\ commands' = <<>> /\ inbound' = <<>> /\ hasEntry' = FALSE
    BY <1>1, <1>2 DEF Punsubscribe
  <2>2. PubSubTypeOK'
    <3>1. handlers' \in Seq(Clients) /\ commands' \in Seq(Command)
      BY <2>1
    <3>2. inbound' \in Seq(Reply \cup Message)
      BY DEF PubSubTypeOK
    <3>3. hasEntry' \in BOOLEAN
      BY <2>1, Zenon
    <3>4. QED BY <3>1, <3>2, <3>3 DEF PubSubTypeOK
  <2>3. MemoryIsLocal' /\ Backed' /\ Restored'
    BY <1>1, <1>2, <2>1 DEF MemoryIsLocal, Backed, Restored
  <2>4. \A d \in Clients : Leaving(d)'
    BY <2>1 DEF Leaving, Hears, Range
  <2>5. QED BY <1>1, <1>2, <2>2, <2>3, <2>4
<1>3. CASE backend # "memory"
  <2> DEFINE x == [op |-> "punsubscribe", by |-> c]
  <2>1. handlers' = handlers /\ commands' = Append(commands, x) /\ hasEntry' = hasEntry
    BY <1>3 DEF Punsubscribe
  <2>2. x \in Command
    BY DEF Command
  <2>3. PubSubTypeOK'
    BY <2>1, <2>2 DEF PubSubTypeOK
  <2>4. MemoryIsLocal'
    BY <1>3, <2>1 DEF MemoryIsLocal
  <2>5. /\ Len(commands) \in Nat /\ Len(commands') = Len(commands) + 1
        /\ DOMAIN commands' = 1 .. Len(commands) + 1
        /\ DOMAIN commands = 1 .. Len(commands)
        /\ commands'[Len(commands) + 1] = x
        /\ \A i \in DOMAIN commands : commands'[i] = commands[i]
    BY <1>1, <2>1, <2>2
  <2>6. Registers(commands) => Registers(commands)'
    BY <2>5 DEF Registers
  <2>7. Backed' /\ Restored'
    BY <2>1, <2>6 DEF Backed, Restored, Registers, Removes, Denies
  <2>8. RemovedBy(c, commands)'
    BY <2>5 DEF RemovedBy
  <2>9. \A d \in Clients : Hears(d)' <=> Hears(d)
    BY <2>1 DEF Hears, Range
  <2>10. Leaving(c)'
    <3>1. ASSUME NEW i \in DOMAIN commands', commands'[i].op = "psubscribe"
          PROVE  \E j \in DOMAIN commands' :
                   j > i /\ commands'[j].op = "punsubscribe" /\ commands'[j].by = c
      BY <2>5, <3>1
    <3>2. QED BY <2>8, <3>1 DEF Leaving
  <2>11. ASSUME NEW d \in Clients, Leaving(d) PROVE Leaving(d)'
    <3>1. RemovedBy(d, commands) => RemovedBy(d, commands)'
      BY <2>5 DEF RemovedBy
    <3>2. Hears(d)' => RemovedBy(d, inbound)' \/ RemovedBy(d, commands)'
      BY <2>9, <2>11, <3>1 DEF Leaving, RemovedBy
    <3>3. ASSUME NEW i \in DOMAIN commands', commands'[i].op = "psubscribe", commands'[i].by = d
          PROVE  \E j \in DOMAIN commands' :
                   j > i /\ commands'[j].op = "punsubscribe" /\ commands'[j].by = d
      <4>1. i \in DOMAIN commands /\ commands[i].op = "psubscribe" /\ commands[i].by = d
        BY <2>5, <3>3
      <4>2. QED BY <2>5, <2>11, <4>1 DEF Leaving
    <3>4. ASSUME NEW i \in DOMAIN inbound', inbound'[i].op = "psubscribe", inbound'[i].by = d
          PROVE  \/ \E j \in DOMAIN inbound' :
                      j > i /\ inbound'[j].op = "punsubscribe" /\ inbound'[j].by = d
                 \/ RemovedBy(d, commands)'
      BY <2>11, <3>1, <3>4 DEF Leaving
    <3>5. QED BY <3>2, <3>3, <3>4 DEF Leaving
  <2>12. QED BY <2>1, <2>3, <2>4, <2>7, <2>10, <2>11
<1>4. QED BY <1>2, <1>3

(* Redis executes or refuses a command.                                      *)
LEMMA Answering ==
  ASSUME PubSubInv, RedisExecutes \/ RedisRefuses
  PROVE  /\ PubSubInv'
         /\ \A d \in Clients : Leaving(d) => Leaving(d)'
         /\ \A v : Safe(v) => Safe(v)'
         /\ \A i \in DOMAIN inbound' :
              IsMessage(inbound'[i]) => i \in DOMAIN inbound /\ inbound'[i] = inbound[i]
<1> USE DEF PubSubInv
<1> DEFINE x == Head(commands)
           n == Len(inbound)
           p == Len(commands)
<1>1. PICK answer \in {"ok", "refused"} :
        /\ inbound' = Append(inbound, ReplyTo(x, answer))
        /\ commands' = Tail(commands)
        /\ answer = "ok" => (wire' <=> x.op = "psubscribe")
        /\ answer = "refused" => wire' = wire
        /\ answer = "ok" => wire' \in BOOLEAN
  BY Zenon DEF RedisExecutes, RedisRefuses
<1>2. /\ commands \in Seq(Command) /\ inbound \in Seq(Reply \cup Message)
      /\ backend = "memory" => commands = <<>>
      /\ commands # <<>>
      /\ UNCHANGED <<backend, hasEntry, handlers, confirmed, alive>>
  BY DEF PubSubTypeOK, MemoryIsLocal, RedisExecutes, RedisRefuses
<1> DEFINE y == ReplyTo(x, answer)
<1>3. x \in Command /\ x.op \in {"psubscribe", "punsubscribe"}
  <2>1. x \in Command
    BY <1>2
  <2>2. QED BY <2>1 DEF Command
<1>4. y \in Reply /\ y.op = x.op /\ y.by = x.by /\ y.answer = answer
  BY <1>3 DEF Command, Reply, ReplyTo
<1>5. /\ n \in Nat /\ DOMAIN inbound = 1 .. n /\ DOMAIN inbound' = (1 .. n) \cup {n + 1}
      /\ inbound'[n + 1] = y /\ \A i \in 1 .. n : inbound'[i] = inbound[i]
      /\ inbound' \in Seq(Reply \cup Message)
  BY <1>1, <1>2, <1>4
<1>6. /\ p \in Nat \ {0} /\ DOMAIN commands = 1 .. p /\ DOMAIN commands' = 1 .. p - 1
      /\ x = commands[1] /\ Len(commands') = p - 1
      /\ \A i \in 1 .. p - 1 : commands'[i] = commands[i + 1]
      /\ commands' \in Seq(Command)
  BY <1>1, <1>2
<1> HIDE DEF y, x, n, p
<1>7. PubSubTypeOK'
  <2>1. wire' \in BOOLEAN
    BY <1>1, Zenon DEF PubSubTypeOK
  <2>2. QED BY <1>2, <1>5, <1>6, <2>1 DEF PubSubTypeOK
<1>8. MemoryIsLocal'
  BY <1>2 DEF MemoryIsLocal
<1>9. /\ Registers(inbound) => Registers(inbound)'
      /\ Removes(inbound) => Removes(inbound)'
      /\ Denies(inbound) => Denies(inbound)'
      /\ \A d \in Clients : RemovedBy(d, inbound) => RemovedBy(d, inbound)'
  BY <1>5 DEF Registers, Removes, Denies, RemovedBy
<1>10. ASSUME NEW i \in DOMAIN commands
       PROVE  \/ commands[i] = x
              \/ i - 1 \in DOMAIN commands' /\ commands'[i - 1] = commands[i]
  BY <1>6
<1>11. Registers(commands) => x.op = "psubscribe" \/ Registers(commands)'
  BY <1>10 DEF Registers
<1>12. \A d \in Clients : RemovedBy(d, commands) =>
         (x.op = "punsubscribe" /\ x.by = d) \/ RemovedBy(d, commands)'
  BY <1>10 DEF RemovedBy
<1>13. /\ x.op = "psubscribe" => Registers(inbound)'
       /\ x.op = "punsubscribe" /\ answer = "ok" => Removes(inbound)'
       /\ x.op = "psubscribe" /\ answer = "refused" => Denies(inbound)'
       /\ \A d \in Clients : x.op = "punsubscribe" /\ x.by = d => RemovedBy(d, inbound)'
  BY <1>4, <1>5 DEF Registers, Removes, Denies, RemovedBy, Accepts, Refuses
<1>14. Restored'
  BY <1>2, <1>9, <1>11, <1>13 DEF Restored
<1>15. Backed'
  <2>1. SUFFICES ASSUME hasEntry, backend = "redis"
                 PROVE  wire' \/ Removes(inbound)' \/ Registers(commands)' \/ Denies(inbound)'
    BY <1>2 DEF Backed
  <2>2. wire \/ Removes(inbound) \/ Registers(commands) \/ Denies(inbound)
    BY <2>1 DEF Backed
  <2>3. CASE answer = "ok"
    BY <1>1, <1>3, <1>13, <2>3
  <2>4. CASE answer = "refused"
    BY <1>1, <1>9, <1>11, <1>13, <2>2, <2>4
  <2>5. QED BY <1>1, <2>3, <2>4
<1>16. ASSUME NEW d \in Clients, Leaving(d) PROVE Leaving(d)'
  <2>1. Hears(d)' => RemovedBy(d, inbound)' \/ RemovedBy(d, commands)'
    BY <1>2, <1>9, <1>12, <1>13, <1>16 DEF Leaving, Hears, Range
  <2>2. ASSUME NEW i \in DOMAIN commands', commands'[i].op = "psubscribe", commands'[i].by = d
        PROVE  \E j \in DOMAIN commands' :
                 j > i /\ commands'[j].op = "punsubscribe" /\ commands'[j].by = d
    <3>1. i + 1 \in 1 .. p /\ commands[i + 1] = commands'[i]
      BY <1>6
    <3>2. PICK j \in 1 .. p :
            j > i + 1 /\ commands[j].op = "punsubscribe" /\ commands[j].by = d
      BY <1>6, <1>16, <2>2, <3>1 DEF Leaving
    <3>3. j - 1 \in 1 .. p - 1 /\ j - 1 > i /\ commands'[j - 1] = commands[j]
      BY <1>6, <3>1, <3>2
    <3>4. QED BY <1>6, <3>2, <3>3
  <2>3. ASSUME NEW i \in DOMAIN inbound', inbound'[i].op = "psubscribe", inbound'[i].by = d
        PROVE  \/ \E j \in DOMAIN inbound' :
                    j > i /\ inbound'[j].op = "punsubscribe" /\ inbound'[j].by = d
               \/ RemovedBy(d, commands)'
    <3>1. CASE i = n + 1
      <4>1. 1 \in DOMAIN commands /\ commands[1].op = "psubscribe" /\ commands[1].by = d
        BY <1>4, <1>5, <1>6, <2>3, <3>1
      <4>2. PICK j \in 1 .. p : j > 1 /\ commands[j].op = "punsubscribe" /\ commands[j].by = d
        BY <1>6, <1>16, <4>1 DEF Leaving
      <4>3. j - 1 \in DOMAIN commands' /\ commands'[j - 1] = commands[j]
        BY <1>6, <4>2
      <4>4. QED BY <4>2, <4>3 DEF RemovedBy
    <3>2. CASE i \in 1 .. n
      <4>1. \/ \E j \in DOMAIN inbound :
                 j > i /\ inbound[j].op = "punsubscribe" /\ inbound[j].by = d
            \/ RemovedBy(d, commands)
        BY <1>5, <1>16, <2>3, <3>2 DEF Leaving
      <4>2. CASE \E j \in DOMAIN inbound :
                   j > i /\ inbound[j].op = "punsubscribe" /\ inbound[j].by = d
        BY <1>5, <4>2
      <4>3. CASE x.op = "punsubscribe" /\ x.by = d
        <5>1. /\ n + 1 \in DOMAIN inbound' /\ n + 1 > i
              /\ inbound'[n + 1].op = "punsubscribe" /\ inbound'[n + 1].by = d
          BY <1>4, <1>5, <3>2, <4>3
        <5>2. QED BY <5>1
      <4>4. QED BY <1>12, <4>1, <4>2, <4>3
    <3>3. QED BY <1>5, <3>1, <3>2
  <2>4. QED BY <2>1, <2>2, <2>3 DEF Leaving
<1>17. ASSUME NEW v, Safe(v) PROVE Safe(v)'
  <2>1. PICK i \in DOMAIN inbound :
          /\ inbound[i] = [op |-> "message", version |-> v]
          /\ \A j \in DOMAIN inbound : Accepts(inbound[j], "punsubscribe") => i < j
    BY <1>17 DEF Safe
  <2>2. i \in DOMAIN inbound' /\ inbound'[i] = inbound[i] /\ i < n + 1
    BY <1>5, <2>1
  <2>3. \A j \in DOMAIN inbound' : Accepts(inbound'[j], "punsubscribe") => i < j
    BY <1>5, <2>1, <2>2
  <2>4. QED BY <2>1, <2>2, <2>3 DEF Safe
<1>18. \A i \in DOMAIN inbound' :
         IsMessage(inbound'[i]) => i \in DOMAIN inbound /\ inbound'[i] = inbound[i]
  BY <1>3, <1>4, <1>5 DEF IsMessage
<1>19. QED BY <1>7, <1>8, <1>14, <1>15, <1>16, <1>17, <1>18

LEMMA Losing ==
  ASSUME PubSubInv, Reconnect
  PROVE  /\ PubSubInv'
         /\ \A d \in Clients : Leaving(d) => Leaving(d)'
<1> USE DEF PubSubInv
<1>1. /\ commands' = RepeatedCommands /\ inbound' = <<>> /\ wire' = confirmed
      /\ backend = "redis"
      /\ UNCHANGED <<backend, hasEntry, handlers, confirmed, alive>>
  BY DEF Reconnect
<1>2. /\ commands' \in Seq(Command)
      /\ Registers(inbound) \/ Registers(commands) => Registers(commands')
      /\ \A c \in Clients :
           RemovedBy(c, inbound) \/ RemovedBy(c, commands) => RemovedBy(c, commands')
      /\ \A d \in Clients : Leaving(d) =>
           \A k \in DOMAIN commands' :
             commands'[k].op = "psubscribe" /\ commands'[k].by = d
               => \E m \in DOMAIN commands' :
                    m > k /\ commands'[m].op = "punsubscribe" /\ commands'[m].by = d
  BY <1>1, RepeatedFacts
<1>3. /\ Registers(commands') <=> Registers(commands)'
      /\ \A c \in Clients : RemovedBy(c, commands') <=> RemovedBy(c, commands)'
  BY DEF Registers, RemovedBy
<1>4. PubSubTypeOK'
  BY <1>1, <1>2 DEF PubSubTypeOK
<1>5. MemoryIsLocal'
  BY <1>1 DEF MemoryIsLocal
<1>6. DOMAIN inbound' = {}
  BY <1>1
<1>7. Backed' /\ Restored'
  BY <1>1, <1>2, <1>3 DEF Backed, Restored
<1>8. ASSUME NEW d \in Clients, Leaving(d) PROVE Leaving(d)'
  <2>1. Hears(d)' => RemovedBy(d, commands)'
    BY <1>1, <1>2, <1>3, <1>8 DEF Leaving, Hears, Range
  <2>2. QED BY <1>2, <1>6, <1>8, <2>1 DEF Leaving
<1>9. QED BY <1>4, <1>5, <1>7, <1>8

(* An update that Redis delivers, or does not.                               *)
LEMMA Delivering ==
  ASSUME PubSubInv, Flight, published \in 0 .. MaxUpdates, published < MaxUpdates,
         published' = published + 1, Deliver(published'), backend # "memory",
         UNCHANGED <<backend, hasEntry, handlers, commands, wire, confirmed, alive, seen>>
  PROVE  /\ PubSubInv' /\ Flight'
         /\ \A d \in Clients : Leaving(d) => Leaving(d)'
         /\ \A v : Safe(v) => Safe(v)'
         /\ \A v : wire /\ ~RemovalUnread /\ v = published' => Safe(v)'
<1> USE DEF PubSubInv, Flight
<1>1. inbound \in Seq(Arrival) /\ published \in Nat /\ MaxUpdates \in Nat
  BY PubSubAssumption DEF PubSubTypeOK, Arrival
<1>2. \A i \in DOMAIN inbound : IsMessage(inbound[i]) => inbound[i].version \in Nat
  BY <1>1, Kinds DEF IsMessage
<1>3. \A d \in Clients : seen[d] \in Nat /\ seen[d] \in 0 .. published'
  BY <1>1 DEF Fresh
<1>4. CASE ~wire
  <2>1. inbound' = inbound
    BY <1>4 DEF Deliver
  <2>2. PubSubTypeOK' /\ MemoryIsLocal'
    BY <2>1 DEF PubSubTypeOK, MemoryIsLocal
  <2>3. Backed' /\ Restored'
    BY <2>1 DEF Backed, Restored, Registers, Removes, Denies
  <2>4. Ordered'
    BY <2>1 DEF Ordered
  <2>5. Known'
    BY <1>1, <1>2, <2>1 DEF Known
  <2>6. Fresh'
    BY <1>3, <2>1 DEF Fresh
  <2>7. \A d \in Clients : Leaving(d) => Leaving(d)'
    BY <2>1 DEF Leaving, RemovedBy, Hears, Range
  <2>8. \A v : Safe(v) => Safe(v)'
    BY <2>1 DEF Safe
  <2>9. QED BY <1>4, <2>2, <2>3, <2>4, <2>5, <2>6, <2>7, <2>8
<1>5. CASE wire
  <2> DEFINE x == [op |-> "message", version |-> published']
             n == Len(inbound)
  <2>1. x \in Message /\ x \in Arrival /\ x.op = "message" /\ x.version = published'
        /\ inbound' = Append(inbound, x)
    BY <1>1, <1>5 DEF Deliver, Message, Arrival
  <2>2. /\ n \in Nat /\ DOMAIN inbound = 1 .. n /\ DOMAIN inbound' = (1 .. n) \cup {n + 1}
        /\ inbound'[n + 1] = x /\ \A i \in 1 .. n : inbound'[i] = inbound[i]
        /\ inbound' \in Seq(Arrival)
    BY <1>1, <2>1
  <2> HIDE DEF n
  <2>3. PubSubTypeOK'
    BY <2>2 DEF PubSubTypeOK, Arrival
  <2>4. MemoryIsLocal'
    BY DEF MemoryIsLocal
  <2>5. /\ Registers(inbound) => Registers(inbound)'
        /\ Removes(inbound) => Removes(inbound)'
        /\ Denies(inbound) => Denies(inbound)'
        /\ \A d \in Clients : RemovedBy(d, inbound) => RemovedBy(d, inbound)'
    BY <2>2 DEF Registers, Removes, Denies, RemovedBy
  <2>6. Backed' /\ Restored'
    BY <2>5 DEF Backed, Restored, Registers
  <2>7. Ordered'
    <3>1. ASSUME NEW i \in DOMAIN inbound', NEW j \in DOMAIN inbound', i < j,
                 IsMessage(inbound'[i]), IsMessage(inbound'[j])
          PROVE  inbound'[i].version < inbound'[j].version
      <4>1. i \in 1 .. n
        BY <2>2, <3>1
      <4>2. CASE j = n + 1
        <5>1. inbound[i].version \in Nat /\ inbound[i].version <= published
          BY <1>2, <2>2, <3>1, <4>1 DEF Known
        <5>2. inbound'[j].version = published + 1 /\ inbound'[i] = inbound[i]
          BY <2>1, <2>2, <4>1, <4>2
        <5>3. QED BY <1>1, <5>1, <5>2
      <4>3. CASE j \in 1 .. n
        BY <2>2, <3>1, <4>1, <4>3 DEF Ordered
      <4>4. QED BY <2>2, <4>2, <4>3
    <3>2. QED BY <3>1 DEF Ordered
  <2>8. Known'
    <3>1. ASSUME NEW i \in DOMAIN inbound', IsMessage(inbound'[i])
          PROVE  inbound'[i].version <= published'
      <4>1. CASE i = n + 1
        BY <1>1, <2>1, <2>2, <4>1
      <4>2. CASE i \in 1 .. n
        <5>1. inbound[i].version \in Nat /\ inbound[i].version <= published
          BY <1>2, <2>2, <3>1, <4>2 DEF Known
        <5>2. QED BY <1>1, <2>2, <4>2, <5>1
      <4>3. QED BY <2>2, <4>1, <4>2
    <3>2. QED BY <3>1 DEF Known
  <2>9. Fresh'
    <3>1. ASSUME NEW d \in Clients, NEW i \in DOMAIN inbound', IsMessage(inbound'[i])
          PROVE  seen[d] < inbound'[i].version
      <4>1. CASE i = n + 1
        <5>1. inbound'[i].version = published + 1 /\ seen[d] \in 0 .. published
          BY <2>1, <2>2, <4>1 DEF Fresh
        <5>2. QED BY <1>1, <5>1
      <4>2. CASE i \in 1 .. n
        BY <2>2, <3>1, <4>2 DEF Fresh
      <4>3. QED BY <2>2, <4>1, <4>2
    <3>2. QED BY <1>3, <3>1 DEF Fresh
  <2>10. ASSUME NEW d \in Clients, Leaving(d) PROVE Leaving(d)'
    <3>1. Hears(d)' => RemovedBy(d, inbound)' \/ RemovedBy(d, commands)'
      BY <2>5, <2>10 DEF Leaving, Hears, Range, RemovedBy
    <3>2. ASSUME NEW i \in DOMAIN inbound', inbound'[i].op = "psubscribe", inbound'[i].by = d
          PROVE  \/ \E j \in DOMAIN inbound' :
                      j > i /\ inbound'[j].op = "punsubscribe" /\ inbound'[j].by = d
                 \/ RemovedBy(d, commands)
      <4>1. i \in DOMAIN inbound /\ inbound[i].op = "psubscribe" /\ inbound[i].by = d
        BY <2>1, <2>2, <3>2
      <4>2. QED BY <2>2, <2>10, <4>1 DEF Leaving
    <3>3. RemovedBy(d, commands)' <=> RemovedBy(d, commands)
      BY DEF RemovedBy
    <3>4. QED BY <2>10, <3>1, <3>2, <3>3 DEF Leaving
  <2>11. \A j \in DOMAIN inbound' :
           Accepts(inbound'[j], "punsubscribe") => j \in 1 .. n /\ inbound'[j] = inbound[j]
    BY <2>1, <2>2 DEF Accepts
  <2>12. ASSUME NEW v, Safe(v) PROVE Safe(v)'
    BY <2>2, <2>11, <2>12 DEF Safe
  <2>13. ASSUME ~RemovalUnread, NEW v, v = published' PROVE Safe(v)'
    <3>1. \A j \in DOMAIN inbound' : ~Accepts(inbound'[j], "punsubscribe")
      BY <2>2, <2>11, <2>13 DEF RemovalUnread
    <3>2. n + 1 \in DOMAIN inbound' /\ inbound'[n + 1] = [op |-> "message", version |-> v]
      BY <2>2, <2>13
    <3>3. QED BY <3>1, <3>2 DEF Safe
  <2>14. PubSubInv' /\ Flight'
    BY <2>3, <2>4, <2>6, <2>7, <2>8, <2>9
  <2>15. QED
    <3> HIDE DEF PubSubInv, Flight
    <3>1. QED BY <2>10, <2>12, <2>13, <2>14
<1>6. QED BY <1>4, <1>5

(* What has arrived is read, and nobody's call is rejected.                  *)
LEMMA Reading ==
  ASSUME PubSubInv, Flight, published \in Nat, NEW n \in 1 .. Len(inbound),
         ~Resumed(SubSeq(inbound, 1, n)).rejects,
         ReadInto(SubSeq(inbound, 1, n)),
         SendUpdates(Dispatched, SubSeq(inbound, 1, n)),
         inbound' = SubSeq(inbound, n + 1, Len(inbound)),
         UNCHANGED <<backend, commands, wire, alive, published>>
  PROVE  /\ PubSubInv' /\ Flight'
         /\ \A d \in Clients : Leaving(d)
              /\ (\A k \in 1 .. n : Refuses(inbound[k], "punsubscribe") => inbound[k].by # d)
              => Leaving(d)'
         /\ \A d \in Clients : \A v : Hears(d) /\ Safe(v) /\ connection[d] = "open" =>
              v \notin due'[d] \/ (Hears(d)' /\ Safe(v)')
<1> USE DEF PubSubInv, Flight
<1> DEFINE chunk == SubSeq(inbound, 1, n)
           N == Len(inbound)
           s == Resumed(chunk)
<1>1. /\ inbound \in Seq(Arrival) /\ N \in Nat /\ n \in 1 .. N
      /\ DOMAIN inbound = 1 .. N
  BY DEF PubSubTypeOK, Arrival
<1>2. /\ chunk \in Seq(Arrival) /\ DOMAIN chunk = 1 .. n
      /\ \A k \in 1 .. n : chunk[k] = inbound[k]
  BY <1>1
<1>3. /\ inbound' \in Seq(Arrival) /\ DOMAIN inbound' = 1 .. N - n
      /\ \A k \in 1 .. N - n : inbound'[k] = inbound[n + k] /\ n + k \in 1 .. N
  BY <1>1
<1>4. hasEntry' = s.hasEntry /\ handlers' = s.handlers /\ confirmed' = s.confirmed
  BY DEF ReadInto
<1>5. /\ s \in Resumable /\ ~Denies(chunk)
      /\ Removes(chunk) => ~s.hasEntry /\ s.handlers = <<>>
      /\ ~Removes(chunk) =>
           /\ s.hasEntry = hasEntry
           /\ confirmed => s.confirmed
           /\ Registers(chunk) => s.confirmed
           /\ \A c \in Clients : Hears(c) => c \in Range(s.handlers)
           /\ \A c \in Range(s.handlers) :
                Hears(c) \/ \E k \in 1 .. n : inbound[k].op = "psubscribe" /\ inbound[k].by = c
  <2> HIDE DEF chunk
  <2>1. /\ s \in Resumable
        /\ Denies(chunk) => s.rejects
        /\ Removes(chunk) => ~s.hasEntry /\ s.handlers = <<>>
        /\ ~Removes(chunk) =>
             /\ s.hasEntry = hasEntry
             /\ confirmed => s.confirmed
             /\ Registers(chunk) => s.confirmed \/ s.rejects
             /\ \A c \in Clients : Hears(c) => c \in Range(s.handlers)
             /\ \A c \in Range(s.handlers) :
                  Hears(c) \/ \E k \in DOMAIN chunk : chunk[k].op = "psubscribe" /\ chunk[k].by = c
    BY <1>2, ResumedFacts, Zenon
  <2>2. ~s.rejects
    BY DEF chunk
  <2> HIDE DEF s
  <2>3. QED BY <1>2, <2>1, <2>2, Zenon
<1> HIDE DEF s
<1>6. PubSubTypeOK'
  <2>1. hasEntry' \in BOOLEAN /\ handlers' \in Seq(Clients) /\ confirmed' \in BOOLEAN
    BY <1>4, <1>5 DEF Resumable
  <2>2. QED BY <1>3, <2>1 DEF PubSubTypeOK, Arrival
<1>7. MemoryIsLocal'
  BY <1>1 DEF MemoryIsLocal
<1>8. ASSUME NEW k \in 1 .. N, k \notin 1 .. n
      PROVE  k - n \in DOMAIN inbound' /\ inbound'[k - n] = inbound[k]
  <2> HIDE DEF N
  <2>1. k - n \in 1 .. N - n /\ n + (k - n) = k
    BY <1>1, <1>8
  <2>2. QED BY <1>3, <2>1
<1>9. /\ Registers(inbound) => Registers(chunk) \/ Registers(inbound')
      /\ Removes(inbound) => Removes(chunk) \/ Removes(inbound')
      /\ Denies(inbound) => Denies(chunk) \/ Denies(inbound')
  <2> HIDE DEF chunk, N
  <2>1. Registers(inbound) => Registers(chunk) \/ Registers(inbound')
    BY <1>1, <1>2, <1>8 DEF Registers
  <2>2. Removes(inbound) => Removes(chunk) \/ Removes(inbound')
    BY <1>1, <1>2, <1>8 DEF Removes
  <2>3. Denies(inbound) => Denies(chunk) \/ Denies(inbound')
    BY <1>1, <1>2, <1>8 DEF Denies
  <2>4. QED BY <2>1, <2>2, <2>3
<1>10. /\ Registers(inbound') <=> Registers(inbound)'
       /\ Removes(inbound') <=> Removes(inbound)'
       /\ Denies(inbound') <=> Denies(inbound)'
       /\ Registers(commands)' <=> Registers(commands)
  BY DEF Registers, Removes, Denies
<1>11. Backed' /\ Restored'
  <2>1. CASE Removes(chunk)
    <3>1. ~hasEntry'
      BY <1>4, <1>5, <2>1
    <3>2. QED BY <3>1 DEF Backed, Restored
  <2>2. CASE ~Removes(chunk)
    <3>1. hasEntry' = hasEntry /\ (confirmed => confirmed') /\ (Registers(chunk) => confirmed')
      BY <1>4, <1>5, <2>2
    <3>2. Backed'
      BY <1>5, <1>9, <1>10, <2>2, <3>1 DEF Backed
    <3>3. Restored'
      BY <1>9, <1>10, <3>1 DEF Restored
    <3>4. QED BY <3>2, <3>3
  <2>3. QED BY <2>1, <2>2
<1>12. Ordered'
  <2>1. ASSUME NEW i \in DOMAIN inbound', NEW j \in DOMAIN inbound', i < j,
               IsMessage(inbound'[i]), IsMessage(inbound'[j])
        PROVE  inbound'[i].version < inbound'[j].version
    <3> HIDE DEF N
    <3>1. i \in 1 .. N - n /\ j \in 1 .. N - n /\ n \in 1 .. N /\ N \in Nat
      BY <1>1, <1>3
    <3>2. n + i \in 1 .. N /\ n + j \in 1 .. N /\ n + i < n + j
      BY <2>1, <3>1
    <3>3. QED BY <1>1, <1>3, <2>1, <3>2 DEF Ordered
  <2>2. QED BY <2>1 DEF Ordered
<1>13. Known'
  <2>1. ASSUME NEW i \in DOMAIN inbound', IsMessage(inbound'[i])
        PROVE  inbound'[i].version <= published'
    <3>1. n + i \in 1 .. N
      BY <1>1, <1>3
    <3>2. QED BY <1>1, <1>3, <2>1, <3>1 DEF Known
  <2>2. QED BY <2>1 DEF Known
<1> DEFINE reached == {c \in Clients : /\ c \in Dispatched /\ connection[c] = "open"
                                       /\ Versions(chunk) # {}}
           latest == LastVersion(chunk)
<1>14. /\ seen' = [c \in Clients |-> IF c \in reached THEN latest ELSE seen[c]]
       /\ due' = [c \in Clients |-> IF c \in reached THEN due[c] \ Versions(chunk) ELSE due[c]]
  <2>1. reached = {c \in Dispatched : connection[c] = "open" /\ Versions(chunk) # {}}
    <3>1. Dispatched \subseteq Clients
      BY DEF Dispatched, Range, PubSubTypeOK
    <3>2. QED BY <3>1
  <2>2. QED BY <2>1 DEF SendUpdates
<1> HIDE DEF latest
<1>15. Versions(chunk) # {} =>
         /\ latest \in 0 .. published
         /\ \A i \in DOMAIN inbound' : IsMessage(inbound'[i]) => latest < inbound'[i].version
  <2>1. SUFFICES ASSUME Versions(chunk) # {}
                 PROVE  /\ latest \in 0 .. published
                        /\ \A i \in DOMAIN inbound' :
                             IsMessage(inbound'[i]) => latest < inbound'[i].version
    OBVIOUS
  <2>2. PICK m \in 1 .. n : IsMessage(inbound[m]) /\ latest = inbound[m].version
    BY <2>1, LastVersionFacts DEF latest
  <2>3. m \in DOMAIN inbound /\ inbound[m].version \in Nat /\ inbound[m].version <= published
    <3>1. m \in DOMAIN inbound /\ inbound[m] \in Arrival
      BY <1>1, <2>2
    <3>2. inbound[m].version \in 1 .. MaxUpdates
      BY <2>2, <3>1, Kinds DEF IsMessage
    <3>3. QED BY <2>2, <3>1, <3>2, PubSubAssumption DEF Known
  <2>4. ASSUME NEW i \in DOMAIN inbound', IsMessage(inbound'[i])
        PROVE  inbound[m].version < inbound'[i].version
    <3>1. n + i \in 1 .. N /\ m < n + i /\ inbound'[i] = inbound[n + i]
      BY <1>1, <1>3, <2>2
    <3>2. QED BY <1>1, <2>2, <2>3, <2>4, <3>1 DEF Ordered
  <2>5. QED BY <2>2, <2>3, <2>4
<1>16. Fresh'
  <2>1. ASSUME NEW d \in Clients
        PROVE  /\ seen'[d] \in 0 .. published
               /\ \A i \in DOMAIN inbound' : IsMessage(inbound'[i]) => seen'[d] < inbound'[i].version
    <3>1. CASE d \in reached
      <4>1. seen'[d] = latest /\ Versions(chunk) # {}
        BY <1>14, <2>1, <3>1
      <4>2. QED BY <1>15, <4>1
    <3>2. CASE d \notin reached
      <4>1. seen'[d] = seen[d]
        BY <1>14, <2>1, <3>2
      <4>2. \A i \in DOMAIN inbound' : IsMessage(inbound'[i]) => seen[d] < inbound'[i].version
        BY <1>1, <1>3, <2>1 DEF Fresh
      <4>3. QED BY <2>1, <4>1, <4>2 DEF Fresh
    <3>3. QED BY <3>1, <3>2
  <2>2. QED BY <2>1 DEF Fresh
<1>17. ASSUME NEW d \in Clients, Leaving(d),
              \A k \in 1 .. n : Refuses(inbound[k], "punsubscribe") => inbound[k].by # d
       PROVE  Leaving(d)'
  <2>1. ASSUME ~Removes(chunk), RemovedBy(d, inbound) PROVE RemovedBy(d, inbound)'
    <3>1. PICK i \in 1 .. N : inbound[i].op = "punsubscribe" /\ inbound[i].by = d
      BY <1>1, <2>1 DEF RemovedBy
    <3>2. ASSUME i \in 1 .. n PROVE FALSE
      <4>1. inbound[i].answer = "ok" \/ inbound[i].answer = "refused"
        <5>1. inbound[i] \in Arrival
          BY <1>1
        <5>2. QED BY <3>1, <5>1, Kinds
      <4>2. inbound[i].answer # "refused"
        BY <1>17, <3>1, <3>2 DEF Refuses
      <4>3. Accepts(chunk[i], "punsubscribe")
        BY <1>2, <3>1, <3>2, <4>1, <4>2 DEF Accepts
      <4>4. QED BY <1>2, <2>1, <3>2, <4>3 DEF Removes
    <3>3. i - n \in DOMAIN inbound' /\ inbound'[i - n] = inbound[i]
      BY <1>8, <3>2
    <3>4. QED BY <3>1, <3>3 DEF RemovedBy
  <2>2. RemovedBy(d, commands)' <=> RemovedBy(d, commands)
    BY DEF RemovedBy
  <2>3. Hears(d)' => RemovedBy(d, inbound)' \/ RemovedBy(d, commands)'
    <3>1. CASE Removes(chunk)
      BY <1>4, <1>5, <3>1 DEF Hears, Range
    <3>2. CASE ~Removes(chunk)
      <4>1. SUFFICES ASSUME Hears(d)' PROVE RemovedBy(d, inbound) \/ RemovedBy(d, commands)
        BY <2>1, <2>2, <3>2
      <4>2. d \in Range(s.handlers)
        BY <1>4, <4>1 DEF Hears, Range
      <4>3. CASE Hears(d)
        BY <1>17, <4>3 DEF Leaving
      <4>4. CASE \E k \in 1 .. n : inbound[k].op = "psubscribe" /\ inbound[k].by = d
        <5>1. PICK k \in 1 .. n : inbound[k].op = "psubscribe" /\ inbound[k].by = d
          BY <4>4
        <5>2. k \in DOMAIN inbound
          BY <1>1
        <5>3. QED BY <1>17, <5>1, <5>2 DEF Leaving, RemovedBy
      <4>5. QED BY <1>5, <3>2, <4>2, <4>3, <4>4
    <3>3. QED BY <3>1, <3>2
  <2>4. ASSUME NEW i \in DOMAIN inbound', inbound'[i].op = "psubscribe", inbound'[i].by = d
        PROVE  \/ \E j \in DOMAIN inbound' :
                    j > i /\ inbound'[j].op = "punsubscribe" /\ inbound'[j].by = d
               \/ RemovedBy(d, commands)
    <3>1. n + i \in 1 .. N /\ inbound'[i] = inbound[n + i]
      BY <1>1, <1>3
    <3>2. CASE \E j \in 1 .. N : j > n + i /\ inbound[j].op = "punsubscribe" /\ inbound[j].by = d
      <4>1. PICK j \in 1 .. N : j > n + i /\ inbound[j].op = "punsubscribe" /\ inbound[j].by = d
        BY <3>2
      <4>2. j - n \in DOMAIN inbound' /\ j - n > i /\ inbound'[j - n] = inbound[j]
        BY <1>1, <1>3, <4>1
      <4>3. QED BY <4>1, <4>2
    <3>3. QED BY <1>1, <1>17, <2>4, <3>1, <3>2 DEF Leaving
  <2>5. QED BY <1>17, <2>2, <2>3, <2>4 DEF Leaving
<1>18. ASSUME NEW d \in Clients, NEW v, Hears(d), Safe(v), connection[d] = "open", v \in due'[d]
       PROVE  Hears(d)' /\ Safe(v)'
  <2>1. PICK i \in 1 .. N :
          /\ inbound[i] = [op |-> "message", version |-> v]
          /\ \A j \in 1 .. N : Accepts(inbound[j], "punsubscribe") => i < j
    BY <1>1, <1>18 DEF Safe
  <2>2. i \notin 1 .. n
    <3>1. SUFFICES ASSUME i \in 1 .. n PROVE v \notin due'[d]
      BY <1>18
    <3>2. IsMessage(chunk[i]) /\ chunk[i].version = v
      BY <1>2, <2>1, <3>1 DEF IsMessage
    <3>3. v \in Versions(chunk)
      BY <1>2, <3>1, <3>2 DEF Versions
    <3>4. d \in reached
      BY <1>18, <3>3 DEF Dispatched, Hears
    <3>5. QED BY <1>14, <3>3, <3>4
  <2>3. ~Removes(chunk)
    BY <1>1, <1>2, <2>1, <2>2 DEF Removes
  <2>4. Hears(d)'
    BY <1>4, <1>5, <1>18, <2>3 DEF Hears, Range
  <2>5. i - n \in DOMAIN inbound' /\ inbound'[i - n] = inbound[i]
    BY <1>8, <2>2
  <2>6. ASSUME NEW j \in DOMAIN inbound', Accepts(inbound'[j], "punsubscribe") PROVE i - n < j
    <3>1. i < n + j
      BY <1>3, <2>1, <2>6
    <3>2. QED BY <1>1, <1>3, <2>1, <3>1
  <2>7. Safe(v)'
    BY <2>1, <2>5, <2>6 DEF Safe
  <2>8. QED BY <2>4, <2>7
<1>19. QED BY <1>6, <1>7, <1>11, <1>12, <1>13, <1>16, <1>17, <1>18

-----------------------------------------------------------------------------
(* The invariant.                                                            *)
LEMMA InitIInv == Init => IInv
<1> SUFFICES ASSUME Init PROVE IInv
  OBVIOUS
<1> USE DEF Init, PubSubInit
<1>1. commands = <<>> /\ inbound = <<>> /\ DOMAIN commands = {} /\ DOMAIN inbound = {}
  OBVIOUS
<1>2. PubSubTypeOK
  <2>1. handlers \in Seq(Clients) /\ commands \in Seq(Command) /\ inbound \in Seq(Reply \cup Message)
    OBVIOUS
  <2>2. hasEntry \in BOOLEAN /\ wire \in BOOLEAN /\ confirmed \in BOOLEAN /\ alive \in BOOLEAN
    BY Zenon
  <2>3. QED BY <2>1, <2>2 DEF PubSubTypeOK
<1>3. MemoryIsLocal /\ Backed /\ Restored
  BY <1>1 DEF MemoryIsLocal, Backed, Restored
<1>4. FeedTypes
  BY PubSubAssumption DEF FeedTypes
<1>5. Leavers
  BY <1>1 DEF Leavers, Leaving, Hears, Range
<1>6. ClosedIsForgotten /\ Flight /\ Due
  BY <1>1 DEF ClosedIsForgotten, Flight, Ordered, Known, Fresh, Due
<1>7. QED BY <1>2, <1>3, <1>4, <1>5, <1>6 DEF IInv, PubSubInv

(* The end of the process takes everything with it.                          *)
LEMMA CrashKeeps == ASSUME IInv, Crash PROVE IInv'
<1> USE DEF Crash
<1>1. commands' = <<>> /\ inbound' = <<>> /\ DOMAIN commands' = {} /\ DOMAIN inbound' = {}
  OBVIOUS
<1>2. PubSubTypeOK'
  <2>1. handlers' \in Seq(Clients) /\ commands' \in Seq(Command) /\ inbound' \in Seq(Reply \cup Message)
    OBVIOUS
  <2>2. hasEntry' \in BOOLEAN /\ wire' \in BOOLEAN /\ confirmed' \in BOOLEAN /\ alive' \in BOOLEAN
    BY Zenon
  <2>3. backend' \in Backends
    BY DEF IInv, PubSubInv, PubSubTypeOK
  <2>4. QED BY <2>1, <2>2, <2>3 DEF PubSubTypeOK
<1>3. MemoryIsLocal' /\ Backed' /\ Restored'
  BY <1>1 DEF MemoryIsLocal, Backed, Restored
<1>4. FeedTypes'
  BY DEF IInv, FeedTypes
<1>5. Leavers' /\ ClosedIsForgotten' /\ Due'
  BY <1>1 DEF Leavers, ClosedIsForgotten, Due
<1>6. Flight'
  BY <1>1 DEF IInv, Flight, Ordered, Known, Fresh
<1>7. QED BY <1>2, <1>3, <1>4, <1>5, <1>6 DEF IInv, PubSubInv

(* A step that the pub/sub has no part in.                                   *)
LEMMA PubSubAlone ==
  ASSUME PubSubInv, UNCHANGED pubsubVars
  PROVE  /\ PubSubInv'
         /\ \A d \in Clients : Leaving(d) => Leaving(d)'
         /\ \A d \in Clients : Hears(d) => Hears(d)'
         /\ alive' = alive /\ inbound' = inbound
<1> USE DEF pubsubVars
<1>1. PubSubTypeOK' /\ MemoryIsLocal'
  BY DEF PubSubInv, PubSubTypeOK, MemoryIsLocal
<1>2. Backed' /\ Restored'
  BY DEF PubSubInv, Backed, Restored, Registers, Removes, Denies
<1>3. \A d \in Clients : Leaving(d) => Leaving(d)'
  BY DEF Leaving, RemovedBy, Hears, Range
<1>4. \A d \in Clients : Hears(d) => Hears(d)'
  BY DEF Hears, Range
<1>5. QED BY <1>1, <1>2, <1>3, <1>4 DEF PubSubInv

LEMMA FlightAlone ==
  ASSUME Flight, UNCHANGED <<inbound, published, seen>>
  PROVE  Flight'
BY DEF Flight, Ordered, Known, Fresh

LEMMA DueAlone ==
  ASSUME Due, inbound' = inbound, due \in [Clients -> SUBSET (1 .. MaxUpdates)],
         \A d \in Clients : Hears(d) => Hears(d)',
         \A d \in Clients : due'[d] # {} =>
           due'[d] = due[d] /\ (connection[d] = "open" => connection'[d] = "open")
  PROVE  Due'
<1>1. \A v : Safe(v) => Safe(v)'
  BY DEF Safe
<1>2. QED BY <1>1 DEF Due

LEMMA ConnectKeeps == ASSUME IInv, NEW c \in Clients, Connect(c) PROVE IInv'
<1>1. /\ UNCHANGED <<pubsubVars, channel, subscribed, subscribes, fetching,
                     seen, published, due, orphaned, kept, reconnects, refusals>>
      /\ connection[c] = "none"
      /\ \E v \in {"open", "closed"} : connection' = [connection EXCEPT ![c] = v]
  BY DEF Connect
<1>2. PubSubInv /\ FeedTypes /\ Flight /\ Due
  BY DEF IInv
<1>3. /\ PubSubInv' /\ \A d \in Clients : Leaving(d) => Leaving(d)'
      /\ \A d \in Clients : Hears(d) => Hears(d)'
      /\ alive' = alive /\ inbound' = inbound
  BY <1>1, <1>2, PubSubAlone
<1>4. Flight'
  BY <1>1, <1>2, <1>3, FlightAlone
<1>5. FeedTypes'
  BY <1>1, <1>2 DEF FeedTypes
<1>6. Leavers'
  BY <1>1, <1>3 DEF IInv, Leavers
<1>7. ClosedIsForgotten'
  BY <1>1, <1>2 DEF IInv, ClosedIsForgotten, FeedTypes
<1>8. Due'
  <2>1. \A d \in Clients : connection[d] = "open" => connection'[d] = "open"
    BY <1>1, <1>2 DEF FeedTypes
  <2>2. due \in [Clients -> SUBSET (1 .. MaxUpdates)] /\ due' = due
    BY <1>1, <1>2 DEF FeedTypes
  <2>3. QED BY <1>2, <1>3, <2>1, <2>2, DueAlone
<1>9. QED BY <1>3, <1>4, <1>5, <1>6, <1>7, <1>8 DEF IInv

(* A connection that goes, and a message that unsubscribes.                  *)
LEMMA LeavingKeeps ==
  ASSUME IInv, NEW c \in Clients, CloseSubscription(c), Forget(c),
         \/ /\ connection' = [connection EXCEPT ![c] = "closed"]
            /\ due' = [due EXCEPT ![c] = {}]
         \/ UNCHANGED <<connection, due>>,
         UNCHANGED <<channel, subscribes, fetching, seen, published, kept, reconnects, refusals>>
  PROVE  IInv'
<1>1. /\ subscribed' = [subscribed EXCEPT ![c] = FALSE]
      /\ orphaned' = IF fetching[c] > 0 THEN orphaned \cup {c} ELSE orphaned
  BY DEF Forget
<1>2. PubSubInv /\ FeedTypes /\ Flight /\ Due
  BY DEF IInv
<1>3. FeedTypes'
  BY <1>1, <1>2 DEF FeedTypes
<1>4. ClosedIsForgotten'
  BY <1>1, <1>2 DEF IInv, ClosedIsForgotten, FeedTypes
<1>5. /\ due \in [Clients -> SUBSET (1 .. MaxUpdates)]
      /\ \A d \in Clients : due'[d] # {} =>
           due'[d] = due[d] /\ (connection[d] = "open" => connection'[d] = "open")
  BY <1>2 DEF FeedTypes
<1>6. CASE subscribed[c]
  <2>1. Punsubscribe(c) /\ UNCHANGED <<backend, inbound, wire, confirmed, alive>>
    BY <1>6 DEF CloseSubscription
  <2>2. /\ PubSubInv' /\ Leaving(c)' /\ \A d \in Clients : Leaving(d) => Leaving(d)'
        /\ inbound # <<>> => handlers' = handlers
    BY <1>2, <2>1, Removing
  <2>3. Flight'
    BY <1>2, <2>1, FlightAlone
  <2>4. Due'
    <3>1. CASE inbound = <<>>
      <4>1. \A v : ~Safe(v)
        BY <3>1 DEF Safe
      <4>2. \A d \in Clients : due[d] = {}
        BY <1>2, <1>5, <4>1 DEF Due
      <4>3. \A d \in Clients : due'[d] = {}
        BY <1>5, <4>2
      <4>4. QED BY <4>3 DEF Due
    <3>2. CASE inbound # <<>>
      <4>1. \A d \in Clients : Hears(d) => Hears(d)'
        BY <2>2, <3>2 DEF Hears, Range
      <4>2. QED BY <1>2, <1>5, <2>1, <4>1, DueAlone
    <3>3. QED BY <3>1, <3>2
  <2>5. Leavers'
    <3>1. SUFFICES ASSUME NEW d \in Clients, alive', ~subscribed'[d], d \notin orphaned' \cup kept'
                   PROVE  fetching'[d] = 0 /\ Leaving(d)'
      BY DEF Leavers
    <3>2. CASE d = c
      BY <1>1, <1>2, <2>2, <3>1, <3>2 DEF FeedTypes
    <3>3. CASE d # c
      BY <1>1, <1>2, <2>1, <2>2, <3>1, <3>3 DEF FeedTypes, IInv, Leavers
    <3>4. QED BY <3>2, <3>3
  <2>6. QED BY <1>3, <1>4, <2>2, <2>3, <2>4, <2>5 DEF IInv
<1>7. CASE ~subscribed[c]
  <2>1. UNCHANGED pubsubVars
    BY <1>7 DEF CloseSubscription
  <2>2. /\ PubSubInv' /\ \A d \in Clients : Leaving(d) => Leaving(d)'
        /\ \A d \in Clients : Hears(d) => Hears(d)'
        /\ alive' = alive /\ inbound' = inbound
    BY <1>2, <2>1, PubSubAlone
  <2>3. Flight'
    BY <1>2, <2>2, FlightAlone
  <2>4. Due'
    BY <1>2, <1>5, <2>2, DueAlone
  <2>5. subscribed' = subscribed /\ \A d \in Clients : d \notin orphaned' => d \notin orphaned
    BY <1>1, <1>2, <1>7 DEF FeedTypes
  <2>6. Leavers'
    BY <2>2, <2>5 DEF IInv, Leavers
  <2>7. QED BY <1>3, <1>4, <2>2, <2>3, <2>4, <2>6 DEF IInv
<1>8. QED BY <1>6, <1>7

LEMMA SubscribeKeeps == ASSUME IInv, NEW c \in Clients, Subscribe(c) PROVE IInv'
<1>1. /\ connection[c] = "open" /\ subscribed' = [subscribed EXCEPT ![c] = TRUE]
      /\ UNCHANGED <<connection, seen, published, due, orphaned, kept>>
  BY DEF Subscribe
<1>2. PubSubInv /\ FeedTypes /\ Flight /\ Due
  BY DEF IInv
<1>3. /\ PubSubInv' /\ \A d \in Clients : d # c /\ Leaving(d) => Leaving(d)'
      /\ \A d \in Clients : Hears(d) => Hears(d)'
      /\ alive' = alive /\ inbound' = inbound
      /\ fetching' \in [Clients -> Nat]
      /\ \A d \in Clients : d # c => fetching'[d] = fetching[d]
  <2>1. CASE HasSnapshot
    <3>1. fetching' = [fetching EXCEPT ![c] = @ + 1] /\ UNCHANGED pubsubVars
      BY <2>1 DEF Subscribe
    <3>2. fetching' \in [Clients -> Nat] /\ \A d \in Clients : d # c => fetching'[d] = fetching[d]
      BY <1>2, <3>1 DEF FeedTypes
    <3>3. QED BY <1>2, <3>1, <3>2, PubSubAlone
  <2>2. CASE ~HasSnapshot
    <3>1. Psubscribe(c) /\ UNCHANGED <<backend, inbound, wire, confirmed, alive, fetching>>
      BY <2>2 DEF Subscribe
    <3>2. /\ PubSubInv' /\ \A d \in Clients : d # c /\ Leaving(d) => Leaving(d)'
          /\ \A d \in Clients : Hears(d) => Hears(d)'
      BY <1>2, <3>1, Registering
    <3>3. QED BY <1>2, <3>1, <3>2 DEF FeedTypes
  <2>3. QED BY <2>1, <2>2
<1>4. FeedTypes'
  BY <1>1, <1>2, <1>3 DEF FeedTypes
<1>5. ClosedIsForgotten'
  BY <1>1, <1>2 DEF IInv, ClosedIsForgotten, FeedTypes
<1>6. Flight'
  BY <1>1, <1>2, <1>3, FlightAlone
<1>7. Due'
  BY <1>1, <1>2, <1>3, DueAlone DEF FeedTypes
<1>8. Leavers'
  <2>1. SUFFICES ASSUME NEW d \in Clients, alive', ~subscribed'[d], d \notin orphaned' \cup kept'
                 PROVE  fetching'[d] = 0 /\ Leaving(d)'
    BY DEF Leavers
  <2>2. d # c /\ ~subscribed[d]
    BY <1>1, <1>2, <2>1 DEF FeedTypes
  <2>3. QED BY <1>1, <1>3, <2>1, <2>2 DEF IInv, Leavers
<1>9. QED BY <1>3, <1>4, <1>5, <1>6, <1>7, <1>8 DEF IInv

LEMMA SnapshotKeeps == ASSUME IInv, NEW c \in Clients, SnapshotRead(c) PROVE IInv'
<1>1. /\ fetching[c] > 0 /\ fetching' = [fetching EXCEPT ![c] = @ - 1] /\ Psubscribe(c)
      /\ alive
      /\ UNCHANGED <<backend, inbound, wire, confirmed, alive, connection, subscribed,
                     seen, published, due, orphaned, kept>>
  BY DEF SnapshotRead
<1>2. PubSubInv /\ FeedTypes /\ Flight /\ Due
  BY DEF IInv
<1>3. /\ PubSubInv' /\ \A d \in Clients : d # c /\ Leaving(d) => Leaving(d)'
      /\ \A d \in Clients : Hears(d) => Hears(d)'
  BY <1>1, <1>2, Registering
<1>4. FeedTypes' /\ \A d \in Clients : d # c => fetching'[d] = fetching[d]
  BY <1>1, <1>2 DEF FeedTypes
<1>5. ClosedIsForgotten'
  BY <1>1 DEF IInv, ClosedIsForgotten
<1>6. Flight'
  BY <1>1, <1>2, FlightAlone
<1>7. Due'
  BY <1>1, <1>2, <1>3, DueAlone DEF FeedTypes
<1>8. subscribed[c] \/ c \in orphaned \cup kept
  BY <1>1, <1>2 DEF IInv, Leavers, FeedTypes
<1>9. Leavers'
  <2>1. SUFFICES ASSUME NEW d \in Clients, alive', ~subscribed'[d], d \notin orphaned' \cup kept'
                 PROVE  fetching'[d] = 0 /\ Leaving(d)'
    BY DEF Leavers
  <2>2. d # c
    BY <1>1, <1>8, <2>1
  <2>3. QED BY <1>1, <1>3, <1>4, <2>1, <2>2 DEF IInv, Leavers
<1>10. QED BY <1>3, <1>4, <1>5, <1>6, <1>7, <1>9 DEF IInv

LEMMA PublishKeeps == ASSUME IInv, Publish PROVE IInv'
<1>1. /\ alive /\ published < MaxUpdates /\ published' = published + 1
      /\ UNCHANGED <<backend, hasEntry, handlers, commands, wire, confirmed, alive,
                     connection, subscribed, fetching, orphaned, kept>>
  BY DEF Publish
<1>2. PubSubInv /\ FeedTypes /\ Flight /\ Due
  BY DEF IInv
<1>3. /\ published \in Nat /\ published' \in 0 .. MaxUpdates /\ published' \in 1 .. MaxUpdates
      /\ MaxUpdates \in Nat /\ published \in 0 .. MaxUpdates
  BY <1>1, <1>2, PubSubAssumption DEF FeedTypes
<1>4. /\ PubSubInv' /\ Flight' /\ Due' /\ due' \in [Clients -> SUBSET (1 .. MaxUpdates)]
      /\ \A d \in Clients : Leaving(d) => Leaving(d)'
  <2>1. CASE backend = "memory"
    <3> DEFINE chunk == <<[op |-> "message", version |-> published']>>
    <3>1. SendUpdates(Dispatched, chunk) /\ inbound' = inbound
      BY <2>1 DEF Publish
    <3>2. UNCHANGED pubsubVars
      BY <1>1, <3>1 DEF pubsubVars
    <3>3. inbound = <<>> /\ DOMAIN inbound' = {}
      BY <1>2, <2>1, <3>1 DEF PubSubInv, MemoryIsLocal
    <3>4. DOMAIN chunk = {1} /\ chunk[1].version = published' /\ IsMessage(chunk[1])
      BY DEF IsMessage
    <3>5. LastVersion(chunk) = published'
      <4> HIDE DEF chunk
      <4>1. {i \in DOMAIN chunk : IsMessage(chunk[i])} = {1}
        BY <3>4
      <4>2. Max({1}) = 1
        BY DEF Max
      <4>3. QED BY <3>4, <4>1, <4>2 DEF LastVersion
    <3> HIDE DEF chunk
    <3>6. \A d \in Clients : seen'[d] = seen[d] \/ seen'[d] = published'
      BY <3>1, <3>5 DEF SendUpdates
    <3>7. Flight'
      <4>1. Ordered' /\ Known'
        BY <3>3 DEF Ordered, Known
      <4>2. \A d \in Clients : seen'[d] \in 0 .. published'
        BY <1>1, <1>2, <1>3, <3>6 DEF Flight, Fresh
      <4>3. QED BY <3>3, <4>1, <4>2 DEF Flight, Fresh
    <3>8. \A v : ~Safe(v)
      BY <3>3 DEF Safe
    <3>9. due \in [Clients -> SUBSET (1 .. MaxUpdates)] /\ \A d \in Clients : due[d] = {}
      BY <1>2, <3>8 DEF Due, FeedTypes
    <3>10. due' = [d \in Clients |-> {}]
      BY <3>1, <3>9 DEF SendUpdates
    <3>11. Due' /\ due' \in [Clients -> SUBSET (1 .. MaxUpdates)]
      BY <3>10 DEF Due
    <3>12. QED BY <1>2, <3>2, <3>7, <3>11, PubSubAlone
  <2>2. CASE backend # "memory"
    <3>1. /\ Deliver(published') /\ seen' = seen
          /\ due' = [c \in Clients |-> IF c \in Owed THEN due[c] \cup {published'} ELSE due[c]]
      BY <2>2 DEF Publish
    <3>2. /\ PubSubInv' /\ Flight'
          /\ \A d \in Clients : Leaving(d) => Leaving(d)'
          /\ \A v : Safe(v) => Safe(v)'
          /\ \A v : wire /\ ~RemovalUnread /\ v = published' => Safe(v)'
      BY <1>1, <1>2, <1>3, <2>2, <3>1, Delivering
    <3>3. due' \in [Clients -> SUBSET (1 .. MaxUpdates)]
      BY <1>2, <1>3, <3>1 DEF FeedTypes
    <3>4. ASSUME NEW d \in Clients, NEW v \in due'[d]
          PROVE  connection'[d] = "open" /\ Hears(d)' /\ Safe(v)'
      <4>1. Hears(d)' <=> Hears(d)
        BY <1>1 DEF Hears, Range
      <4>2. CASE v \in due[d]
        BY <1>1, <1>2, <3>2, <4>1, <4>2 DEF Due
      <4>3. CASE v \notin due[d]
        <5>1. d \in Owed /\ v = published'
          BY <3>1, <3>4, <4>3
        <5>2. connection[d] = "open" /\ Hears(d) /\ wire /\ ~RemovalUnread
          BY <5>1 DEF Owed
        <5>3. QED BY <1>1, <3>2, <4>1, <5>1, <5>2
      <4>4. QED BY <4>2, <4>3
    <3>5. Due'
      BY <3>4 DEF Due
    <3>6. QED BY <3>2, <3>3, <3>5
  <2>3. QED BY <2>1, <2>2
<1>5. FeedTypes'
  BY <1>1, <1>2, <1>3, <1>4 DEF FeedTypes
<1>6. Leavers' /\ ClosedIsForgotten'
  BY <1>1, <1>4 DEF IInv, Leavers, ClosedIsForgotten
<1>7. QED BY <1>4, <1>5, <1>6 DEF IInv

LEMMA ReadKeeps == ASSUME IInv, Read PROVE IInv'
<1> DEFINE Refused(chunk) == {c \in Clients : \E i \in DOMAIN chunk :
                                Refuses(chunk[i], "punsubscribe") /\ chunk[i].by = c}
<1>1. PICK n \in 1 .. Len(inbound) :
        IF Resumed(SubSeq(inbound, 1, n)).rejects
          THEN Crash
          ELSE /\ ReadInto(SubSeq(inbound, 1, n))
               /\ SendUpdates(Dispatched, SubSeq(inbound, 1, n))
               /\ inbound' = SubSeq(inbound, n + 1, Len(inbound))
               /\ kept' = kept \cup Refused(SubSeq(inbound, 1, n))
               /\ UNCHANGED <<backend, commands, wire, alive, channel, connection, subscribed,
                              subscribes, fetching, published, orphaned, reconnects, refusals>>
  BY DEF Read
<1>2. CASE Resumed(SubSeq(inbound, 1, n)).rejects
  BY <1>1, <1>2, CrashKeeps
<1>3. CASE ~Resumed(SubSeq(inbound, 1, n)).rejects
  <2>1. /\ ReadInto(SubSeq(inbound, 1, n))
        /\ SendUpdates(Dispatched, SubSeq(inbound, 1, n))
        /\ inbound' = SubSeq(inbound, n + 1, Len(inbound))
        /\ kept' = kept \cup Refused(SubSeq(inbound, 1, n))
        /\ UNCHANGED <<backend, commands, wire, alive, channel, connection, subscribed,
                       subscribes, fetching, published, orphaned, reconnects, refusals>>
    BY <1>1, <1>3
  <2>2. /\ PubSubInv /\ FeedTypes /\ Flight /\ Due /\ published \in Nat
        /\ inbound \in Seq(Arrival)
    BY PubSubAssumption DEF IInv, FeedTypes, PubSubInv, PubSubTypeOK, Arrival
  <2>3. /\ PubSubInv' /\ Flight'
        /\ \A d \in Clients : Leaving(d)
             /\ (\A k \in 1 .. n : Refuses(inbound[k], "punsubscribe") => inbound[k].by # d)
             => Leaving(d)'
        /\ \A d \in Clients : \A v : Hears(d) /\ Safe(v) /\ connection[d] = "open" =>
             v \notin due'[d] \/ (Hears(d)' /\ Safe(v)')
    BY <1>3, <2>1, <2>2, Reading
  <2>4. due' \in [Clients -> SUBSET (1 .. MaxUpdates)] /\ \A d \in Clients : due'[d] \subseteq due[d]
    <3>1. due \in [Clients -> SUBSET (1 .. MaxUpdates)]
      BY <2>2 DEF FeedTypes
    <3>2. \E S, V : due' = [c \in Clients |-> IF c \in S THEN due[c] \ V ELSE due[c]]
      BY <2>1 DEF SendUpdates
    <3>3. QED BY <3>1, <3>2
  <2>5. FeedTypes'
    BY <2>1, <2>2, <2>4 DEF FeedTypes
  <2>6. ClosedIsForgotten'
    BY <2>1 DEF IInv, ClosedIsForgotten
  <2>7. Due'
    <3>1. ASSUME NEW d \in Clients, NEW v \in due'[d]
          PROVE  connection'[d] = "open" /\ Hears(d)' /\ Safe(v)'
      <4>1. connection[d] = "open" /\ Hears(d) /\ Safe(v)
        BY <2>2, <2>4, <3>1 DEF Due
      <4>2. QED BY <2>1, <2>3, <3>1, <4>1
    <3>2. QED BY <3>1 DEF Due
  <2>8. Leavers'
    <3>1. SUFFICES ASSUME NEW d \in Clients, alive', ~subscribed'[d], d \notin orphaned' \cup kept'
                   PROVE  fetching'[d] = 0 /\ Leaving(d)'
      BY DEF Leavers
    <3>2. fetching[d] = 0 /\ Leaving(d) /\ d \notin Refused(SubSeq(inbound, 1, n))
      BY <2>1, <3>1 DEF IInv, Leavers
    <3>3. ASSUME NEW k \in 1 .. n, Refuses(inbound[k], "punsubscribe") PROVE inbound[k].by # d
      <4>1. k \in DOMAIN SubSeq(inbound, 1, n) /\ SubSeq(inbound, 1, n)[k] = inbound[k]
        BY <2>2, <3>3
      <4>2. QED BY <3>2, <3>3, <4>1
    <3>4. QED BY <2>1, <2>3, <3>2, <3>3
  <2>9. QED BY <2>3, <2>5, <2>6, <2>7, <2>8 DEF IInv
<1>4. QED BY <1>2, <1>3

LEMMA RedisKeeps == ASSUME IInv, Redis PROVE IInv'
<1>1. /\ RedisExecutes \/ RedisRefuses
      /\ UNCHANGED <<channel, connection, subscribed, subscribes, fetching, seen, published, due,
                     orphaned, kept, reconnects>>
  BY DEF Redis
<1>2. PubSubInv /\ FeedTypes /\ Flight /\ Due
  BY DEF IInv
<1>3. alive' = alive /\ handlers' = handlers
  BY <1>1 DEF RedisExecutes, RedisRefuses
<1>4. /\ PubSubInv' /\ \A d \in Clients : Leaving(d) => Leaving(d)'
      /\ \A v : Safe(v) => Safe(v)'
      /\ \A i \in DOMAIN inbound' :
           IsMessage(inbound'[i]) => i \in DOMAIN inbound /\ inbound'[i] = inbound[i]
  BY <1>1, <1>2, Answering
<1>5. FeedTypes' /\ ClosedIsForgotten'
  BY <1>1, <1>2 DEF IInv, FeedTypes, ClosedIsForgotten
<1>6. Leavers'
  BY <1>1, <1>3, <1>4 DEF IInv, Leavers
<1>7. Ordered' /\ Known'
  BY <1>1, <1>2, <1>4 DEF Flight, Ordered, Known
<1>8. Fresh'
  BY <1>1, <1>2, <1>4 DEF Flight, Fresh
<1>9. Due'
  <2>1. \A d \in Clients : Hears(d) => Hears(d)'
    BY <1>3 DEF Hears, Range
  <2>2. QED BY <1>1, <1>2, <1>4, <2>1 DEF Due
<1>10. QED BY <1>4, <1>5, <1>6, <1>7, <1>8, <1>9 DEF IInv, Flight

LEMMA LossKeeps == ASSUME IInv, LoseConnection PROVE IInv'
<1>1. /\ Reconnect /\ inbound' = <<>> /\ due' = [c \in Clients |-> {}]
      /\ alive' = alive /\ DOMAIN inbound' = {}
      /\ UNCHANGED <<connection, subscribed, fetching, seen, published, orphaned, kept>>
  BY DEF LoseConnection, Reconnect
<1>2. PubSubInv' /\ \A d \in Clients : Leaving(d) => Leaving(d)'
  BY <1>1, Losing DEF IInv
<1>3. FeedTypes' /\ ClosedIsForgotten' /\ Due'
  BY <1>1 DEF IInv, FeedTypes, ClosedIsForgotten, Due
<1>4. Leavers'
  BY <1>1, <1>2 DEF IInv, Leavers
<1>5. Flight'
  BY <1>1 DEF IInv, Flight, Ordered, Known, Fresh
<1>6. QED BY <1>2, <1>3, <1>4, <1>5 DEF IInv

LEMMA NextIInv == IInv /\ [Next]_vars => IInv'
<1> SUFFICES ASSUME IInv, [Next]_vars PROVE IInv'
  OBVIOUS
<1>1. ASSUME NEW c \in Clients, Connect(c) PROVE IInv'
  BY <1>1, ConnectKeeps
<1>2. ASSUME NEW c \in Clients, Close(c) PROVE IInv'
  <2>1. /\ CloseSubscription(c) /\ Forget(c)
        /\ connection' = [connection EXCEPT ![c] = "closed"]
        /\ due' = [due EXCEPT ![c] = {}]
        /\ UNCHANGED <<channel, subscribes, fetching, seen, published, kept, reconnects, refusals>>
    BY <1>2 DEF Close
  <2>2. QED BY <2>1, LeavingKeeps
<1>3. ASSUME NEW c \in Clients, Subscribe(c) PROVE IInv'
  BY <1>3, SubscribeKeeps
<1>4. ASSUME NEW c \in Clients, SnapshotRead(c) PROVE IInv'
  BY <1>4, SnapshotKeeps
<1>5. ASSUME NEW c \in Clients, SnapshotFails(c) \/ FetchMoreRejects(c) PROVE IInv'
  <2>1. Crash
    BY <1>5 DEF SnapshotFails, FetchMoreRejects
  <2>2. QED BY <2>1, CrashKeeps
<1>6. ASSUME NEW c \in Clients, Unsubscribe(c) PROVE IInv'
  <2>1. /\ CloseSubscription(c) /\ Forget(c) /\ UNCHANGED <<connection, due>>
        /\ UNCHANGED <<channel, subscribes, fetching, seen, published, kept, reconnects, refusals>>
    BY <1>6 DEF Unsubscribe
  <2>2. QED BY <2>1, LeavingKeeps
<1>7. CASE Publish
  BY <1>7, PublishKeeps
<1>8. CASE Read
  BY <1>8, ReadKeeps
<1>9. CASE Redis
  BY <1>9, RedisKeeps
<1>10. CASE LoseConnection
  BY <1>10, LossKeeps
<1>11. CASE UNCHANGED vars
  <2>1. UNCHANGED pubsubVars /\ UNCHANGED feedVars
    BY <1>11 DEF vars
  <2>2. PubSubInv /\ FeedTypes /\ Flight /\ Due
    BY DEF IInv
  <2>3. /\ PubSubInv' /\ \A d \in Clients : Leaving(d) => Leaving(d)'
        /\ \A d \in Clients : Hears(d) => Hears(d)'
        /\ alive' = alive /\ inbound' = inbound
    BY <2>1, <2>2, PubSubAlone
  <2>4. Flight'
    BY <2>1, <2>2, <2>3, FlightAlone DEF feedVars
  <2>5. FeedTypes' /\ Leavers' /\ ClosedIsForgotten'
    BY <2>1, <2>3 DEF IInv, FeedTypes, Leavers, ClosedIsForgotten, feedVars
  <2>6. Due'
    BY <2>1, <2>2, <2>3, DueAlone DEF feedVars, FeedTypes
  <2>7. QED BY <2>3, <2>4, <2>5, <2>6 DEF IInv
<1>12. QED
  BY <1>1, <1>2, <1>3, <1>4, <1>5, <1>6, <1>7, <1>8, <1>9, <1>10, <1>11 DEF Next

LEMMA IInvHolds == Spec => []IInv
<1>1. QED BY InitIInv, NextIInv, PTL DEF Spec

-----------------------------------------------------------------------------
(* An entry in the map of handlers, which makes every later psubscribe skip  *)
(* Redis, is backed by a subscription at Redis once no command is on its way, *)
(* unless its removal or the refusal of its psubscribe is unread:            *)
(* RedisPubSub.psubscribe and punsubscribe, through losses of the connection, *)
(* refusals, and whatever chunks the replies are read in.                    *)
THEOREM EntriesBacked == Spec => []EntryIsBacked
<1>1. IInv => EntryIsBacked
  <2>1. SUFFICES ASSUME IInv, hasEntry, backend = "redis", commands = <<>>
                 PROVE  \/ wire \/ RemovalUnread
                        \/ \E i \in DOMAIN inbound : Refuses(inbound[i], "psubscribe")
    BY DEF EntryIsBacked
  <2>2. wire \/ Removes(inbound) \/ Registers(commands) \/ Denies(inbound)
    BY <2>1 DEF IInv, PubSubInv, Backed
  <2>3. ~Registers(commands)
    BY <2>1 DEF Registers
  <2>4. QED BY <2>2, <2>3 DEF Removes, Denies, RemovalUnread
<1>2. QED BY <1>1, IInvHolds, PTL

(* Once nothing is under way, a client that has left has no handler, unless  *)
(* its subscription was closed under a subscribe handler that still waited   *)
(* for its rows, or its punsubscribe was refused: the 'close' handler and    *)
(* unsubscribe of ws-api, and the catch of RedisPubSub.punsubscribe.         *)
THEOREM LeaversUnregistered == Spec => []ClosedClientsUnregistered
<1>1. IInv => ClosedClientsUnregistered
  <2>1. SUFFICES ASSUME IInv, NEW c \in Clients, Settled, alive, connection[c] = "closed",
                        c \notin orphaned \cup kept
                 PROVE  ~Hears(c)
    BY DEF ClosedClientsUnregistered
  <2>2. ~subscribed[c]
    BY <2>1 DEF IInv, ClosedIsForgotten
  <2>3. Hears(c) => RemovedBy(c, inbound) \/ RemovedBy(c, commands)
    BY <2>1, <2>2 DEF IInv, Leavers, Leaving
  <2>4. DOMAIN inbound = {} /\ DOMAIN commands = {}
    BY <2>1 DEF Settled
  <2>5. QED BY <2>3, <2>4 DEF RemovedBy
<1>2. QED BY <1>1, IInvHolds, PTL

(* What Redis delivers while a client's handler is registered, and before    *)
(* the handlers are removed, is on its way to the client until it is sent,   *)
(* and nothing newer is sent before it: the 'pmessage' dispatch of           *)
(* RedisPubSub and the handlers of ws-api.                                   *)
THEOREM UpdatesReachClients == Spec => []UpdatesArrive
<1>1. IInv => UpdatesArrive
  <2>1. SUFFICES ASSUME IInv, NEW c \in Clients, NEW v \in due[c]
                 PROVE  InFlight(v) /\ seen[c] < v
    BY DEF UpdatesArrive
  <2>2. PICK i \in DOMAIN inbound : inbound[i] = [op |-> "message", version |-> v]
    BY <2>1 DEF IInv, Due, Safe
  <2>3. InFlight(v)
    BY <2>2 DEF InFlight, Range
  <2>4. IsMessage(inbound[i]) /\ inbound[i].version = v
    BY <2>2 DEF IsMessage
  <2>5. QED BY <2>1, <2>3, <2>4 DEF IInv, Flight, Fresh
<1>2. QED BY <1>1, IInvHolds, PTL

=============================================================================
