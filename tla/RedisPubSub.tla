---------------------------- MODULE RedisPubSub ----------------------------
(***************************************************************************)
(* The subscribers of one pattern in one process: RedisPubSub, or          *)
(* MemoryPubSub when the backend is the memory.  RedisPubSub asks Redis    *)
(* for a pattern with its first handler and keeps the handlers in a map of *)
(* its own.  Commands, replies and messages travel over one connection, in *)
(* order; what is written after an `await` runs when the reply is read.    *)
(*                                                                         *)
(* Faults: the subscriber connection is lost and established again.  The   *)
(* client library, which is external, then restores the subscriptions it   *)
(* had seen confirmed and repeats the commands without an answer.  And a   *)
(* command may be refused, by Redis or by the library that gives it up.    *)
(***************************************************************************)
EXTENDS Naturals, Sequences, SequencesExt

CONSTANTS
    Clients,      \* who may register a handler
    Backends,     \* the values of PUBSUB_BACKEND that are explored
    MaxUpdates    \* bound: messages that are published

ASSUME PubSubAssumption ==
    /\ Backends \subseteq {"redis", "memory"}
    /\ MaxUpdates \in Nat

VARIABLES
    backend,      \* createPubSub's choice, made once
    hasEntry,     \* patternHandlers.has(pattern)
    handlers,     \* the handlers of the pattern, in the order of their registration
    commands,     \* sent to Redis, not executed yet
    inbound,      \* on the way from Redis: replies and messages
    wire,         \* Redis delivers the pattern to this connection
    confirmed,    \* the client library saw the pattern confirmed
    alive         \* the process has not been ended by an unhandled rejection

pubsubVars == <<backend, hasEntry, handlers, commands, inbound, wire, confirmed, alive>>

\* Whose subscription the command is about is known to its caller only.
Command == [op : {"psubscribe", "punsubscribe"}, by : Clients]
Reply   == [op : {"psubscribe", "punsubscribe"}, by : Clients, answer : {"ok", "refused"}]
Message == [op : {"message"}, version : 1 .. MaxUpdates]

ReplyTo(command, answer) == [op |-> command.op, by |-> command.by, answer |-> answer]
CommandOf(reply) == [op |-> reply.op, by |-> reply.by]

PubSubInit ==
    /\ backend \in Backends
    /\ hasEntry = FALSE
    /\ handlers = <<>>
    /\ commands = <<>>
    /\ inbound = <<>>
    /\ wire = FALSE
    /\ confirmed = FALSE
    /\ alive = TRUE

Hears(c) == c \in Range(handlers)

-----------------------------------------------------------------------------
(* The calls.                                                              *)

\* psubscribe: the first handler creates the entry and waits for Redis, the
\* others are added at once.
Psubscribe(c) ==
    /\ IF backend = "memory" \/ hasEntry
         THEN /\ handlers' = Append(handlers, c)
              /\ UNCHANGED commands
         ELSE /\ commands' = Append(commands, [op |-> "psubscribe", by |-> c])
              /\ UNCHANGED handlers
    /\ hasEntry' = TRUE

\* punsubscribe names the pattern and no handler: all of them go, and the entry,
\* when Redis has accepted it.
Punsubscribe(c) ==
    IF backend = "memory"
      THEN /\ hasEntry' = FALSE
           /\ handlers' = <<>>
           /\ UNCHANGED commands
      ELSE /\ commands' = Append(commands, [op |-> "punsubscribe", by |-> c])
           /\ UNCHANGED <<hasEntry, handlers>>

\* publish, by a process that need not be this one.
Deliver(version) ==
    inbound' = IF wire THEN Append(inbound, [op |-> "message", version |-> version])
                       ELSE inbound

-----------------------------------------------------------------------------
(* Redis and the connection.                                               *)

RedisExecutes ==
    /\ commands # <<>>
    /\ wire' = (Head(commands).op = "psubscribe")
    /\ inbound' = Append(inbound, ReplyTo(Head(commands), "ok"))
    /\ commands' = Tail(commands)
    /\ UNCHANGED <<backend, hasEntry, handlers, confirmed, alive>>

RedisRefuses ==
    /\ commands # <<>>
    /\ inbound' = Append(inbound, ReplyTo(Head(commands), "refused"))
    /\ commands' = Tail(commands)
    /\ UNCHANGED <<backend, hasEntry, handlers, wire, confirmed, alive>>

IsMessage(m)  == m.op = "message"
Accepts(m, op) == m.op = op /\ m.answer = "ok"
Refuses(m, op) == m.op = op /\ m.answer = "refused"

\* Mutant: the entry outlives the subscription.
Continued_EntryKept(s, m) ==
    CASE Accepts(m, "punsubscribe") -> [s EXCEPT !.handlers = <<>>, !.confirmed = FALSE]
      [] Accepts(m, "psubscribe") /\ s.hasEntry ->
           [s EXCEPT !.handlers = Append(@, m.by), !.confirmed = TRUE]
      [] Accepts(m, "psubscribe") /\ ~s.hasEntry -> [s EXCEPT !.rejects = TRUE, !.confirmed = TRUE]
      [] Refuses(m, "psubscribe") -> [s EXCEPT !.rejects = TRUE]
      [] OTHER -> s

\* What runs after the await when m is the reply to its command.  The handler
\* of a psubscribe is pushed on an entry that must still be there.  Nobody
\* catches the rejection of a psubscribe; that of a punsubscribe is logged, and
\* the entry and its handlers stay.
Continued(s, m) ==
    CASE Accepts(m, "punsubscribe") ->
           [s EXCEPT !.hasEntry = FALSE, !.handlers = <<>>, !.confirmed = FALSE]
      [] Accepts(m, "psubscribe") /\ s.hasEntry ->
           [s EXCEPT !.handlers = Append(@, m.by), !.confirmed = TRUE]
      [] Accepts(m, "psubscribe") /\ ~s.hasEntry -> [s EXCEPT !.rejects = TRUE, !.confirmed = TRUE]
      [] Refuses(m, "psubscribe") -> [s EXCEPT !.rejects = TRUE]
      [] OTHER -> s

\* The state of this object after the callers of a chunk's replies have resumed.
Resumed(chunk) ==
    LET before == [hasEntry |-> hasEntry, handlers |-> handlers,
                   confirmed |-> confirmed, rejects |-> FALSE]
        after[i \in 0 .. Len(chunk)] ==
            IF i = 0 THEN before ELSE Continued(after[i - 1], chunk[i])
    IN  after[Len(chunk)]

\* Reading takes what has arrived: messages go to the handlers that are
\* registered at this moment, replies resume their callers afterwards.
ReadInto(chunk) ==
    LET s == Resumed(chunk)
    IN  /\ hasEntry' = s.hasEntry
        /\ handlers' = s.handlers
        /\ confirmed' = s.confirmed

Versions(chunk) == {chunk[i].version : i \in {j \in DOMAIN chunk : IsMessage(chunk[j])}}

\* The version of the last message of a chunk that has one.
LastVersion(chunk) == chunk[Max({i \in DOMAIN chunk : IsMessage(chunk[i])})].version

\* Mutant: one handler per pattern.
Dispatched_FirstOnly == IF handlers = <<>> THEN {} ELSE {Head(handlers)}

\* Who the dispatch of a message reaches: every handler of the pattern.
Dispatched == Range(handlers)

\* The commands whose answer was not read, in order.
RepeatedCommands ==
    LET replies[i \in 0 .. Len(inbound)] ==
            IF i = 0 THEN <<>>
            ELSE IF IsMessage(inbound[i]) THEN replies[i - 1]
            ELSE Append(replies[i - 1], CommandOf(inbound[i]))
    IN  replies[Len(inbound)] \o commands

\* The connection is lost with everything in flight, and established again.
Reconnect ==
    /\ backend = "redis"
    /\ wire' = confirmed
    /\ commands' = RepeatedCommands
    /\ inbound' = <<>>
    /\ UNCHANGED <<backend, hasEntry, handlers, confirmed, alive>>

-----------------------------------------------------------------------------
PubSubTypeOK ==
    /\ backend \in Backends
    /\ hasEntry \in BOOLEAN
    /\ handlers \in Seq(Clients)
    /\ commands \in Seq(Command)
    /\ inbound \in Seq(Reply \cup Message)
    /\ wire \in BOOLEAN
    /\ confirmed \in BOOLEAN
    /\ alive \in BOOLEAN

\* The entry's removal has been accepted, and nobody has read it yet.
RemovalUnread == \E i \in DOMAIN inbound : Accepts(inbound[i], "punsubscribe")

\* An entry of the map of handlers, which makes every later psubscribe skip
\* Redis, is backed by a subscription: once no command is on its way, Redis
\* delivers the pattern, unless the accepted punsubscribe that removes the entry
\* is unread, or the unread refusal of the psubscribe is about to end the
\* process.  A refused punsubscribe leaves both as they were.
EntryIsBacked ==
    hasEntry /\ backend = "redis" /\ commands = <<>> =>
        wire \/ RemovalUnread \/ \E i \in DOMAIN inbound : Refuses(inbound[i], "psubscribe")
=============================================================================
