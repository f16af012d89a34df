------------------------------- MODULE WsFeed -------------------------------
(***************************************************************************)
(* The live feed of the WebSocket server: connections, their subscription  *)
(* to one of the backtest channels, snapshots read from the database, and  *)
(* updates that a backtest process publishes.  One pattern of the pub/sub  *)
(* serves all the connections of the process.                              *)
(*                                                                         *)
(* Every client uses one subscription id, and may subscribe with it again. *)
(* A handler that rejects after its first await has nobody who catches it: *)
(* the process ends (alive).                                               *)
(***************************************************************************)
EXTENDS RedisPubSub

CONSTANTS
    Channels,         \* the channels that are explored
    MaxSubscribes,    \* bound: subscribe messages of all connections
    MaxReconnects,    \* bound: losses of the subscriber connection
    MaxRefusals       \* bound: commands that are refused

ASSUME FeedAssumption ==
    /\ Channels \subseteq {"backtest_runs", "backtests_strategy_results", "backtests_mint_results"}
    /\ MaxSubscribes \in Nat /\ MaxReconnects \in Nat /\ MaxRefusals \in Nat

VARIABLES
    channel,      \* the channel everybody subscribes to
    connection,   \* per client: "none", "open" or "closed"
    subscribed,   \* per client: ws.subscriptions has the id
    subscribes,   \* subscribe messages so far
    fetching,     \* per client: subscribe handlers that wait for the snapshot's rows
    seen,         \* per client: version of the last update sent, 0 before
    published,    \* version of the last update published
    due,          \* ghost, per client: versions that are still to be sent to it
    orphaned,     \* ghost, clients whose subscription was closed under a waiting subscribe handler
    kept,         \* ghost, clients whose punsubscribe was refused
    reconnects,   \* losses of the subscriber connection so far
    refusals      \* commands refused so far

feedVars == <<channel, connection, subscribed, subscribes, fetching,
              seen, published, due, orphaned, kept, reconnects, refusals>>
vars == <<pubsubVars, feedVars>>

Init ==
    /\ PubSubInit
    /\ channel \in Channels
    /\ connection = [c \in Clients |-> "none"]
    /\ subscribed = [c \in Clients |-> FALSE]
    /\ subscribes = 0
    /\ fetching = [c \in Clients |-> 0]
    /\ seen = [c \in Clients |-> 0]
    /\ published = 0
    /\ due = [c \in Clients |-> {}]
    /\ orphaned = {}
    /\ kept = {}
    /\ reconnects = 0
    /\ refusals = 0

\* The process ends on a rejection nobody handles, and with it everything that
\* its memory and its connections held.
Crash ==
    /\ alive' = FALSE
    /\ hasEntry' = FALSE /\ handlers' = <<>>
    /\ commands' = <<>> /\ inbound' = <<>>
    /\ wire' = FALSE /\ confirmed' = FALSE
    /\ connection' = [c \in Clients |-> "closed"]
    /\ subscribed' = [c \in Clients |-> FALSE]
    /\ fetching' = [c \in Clients |-> 0]
    /\ due' = [c \in Clients |-> {}]
    /\ UNCHANGED <<backend, channel, subscribes, seen, published, orphaned, kept, reconnects,
                   refusals>>

-----------------------------------------------------------------------------
(* Connections.                                                            *)

\* A token of the subprotocol header comes before one of the authorization
\* header; a header without a token counts as no header.
AuthToken(protocolToken, bearerToken) ==
    IF protocolToken # "none" THEN protocolToken ELSE bearerToken

\* Without a valid token the server closes the socket and installs no handler.
Connect(c) ==
    /\ alive /\ connection[c] = "none"
    /\ \E protocolToken, bearerToken \in {"none", "valid", "invalid"} :
         connection' = [connection EXCEPT ![c] =
             IF AuthToken(protocolToken, bearerToken) = "valid" THEN "open" ELSE "closed"]
    /\ UNCHANGED <<pubsubVars, channel, subscribed, subscribes, fetching,
                   seen, published, due, orphaned, kept, reconnects, refusals>>

\* Mutant: the connection goes, the pattern stays.
CloseSubscription_Nothing(c) == UNCHANGED pubsubVars

\* closeSubscription of the entry, when the connection has one: it unsubscribes
\* the pattern of the channel.
CloseSubscription(c) ==
    IF subscribed[c]
      THEN /\ Punsubscribe(c)
           /\ UNCHANGED <<backend, inbound, wire, confirmed, alive>>
      ELSE UNCHANGED pubsubVars

Forget(c) ==
    /\ subscribed' = [subscribed EXCEPT ![c] = FALSE]
    /\ orphaned' = IF fetching[c] > 0 THEN orphaned \cup {c} ELSE orphaned

\* The 'close' handler.
Close(c) ==
    /\ alive /\ connection[c] = "open"
    /\ connection' = [connection EXCEPT ![c] = "closed"]
    /\ CloseSubscription(c)
    /\ Forget(c)
    /\ due' = [due EXCEPT ![c] = {}]
    /\ UNCHANGED <<channel, subscribes, fetching, seen, published, kept, reconnects, refusals>>

-----------------------------------------------------------------------------
(* Messages of a client.                                                   *)

\* The runs and the mint results are subscribed at once, without a snapshot;
\* the strategy results only after the snapshot was read and sent.
HasSnapshot == channel = "backtests_strategy_results"

Subscribe(c) ==
    /\ alive /\ connection[c] = "open" /\ subscribes < MaxSubscribes
    /\ subscribes' = subscribes + 1
    /\ subscribed' = [subscribed EXCEPT ![c] = TRUE]
    /\ IF HasSnapshot
         THEN /\ fetching' = [fetching EXCEPT ![c] = @ + 1]
              /\ UNCHANGED pubsubVars
         ELSE /\ Psubscribe(c)
              /\ UNCHANGED <<backend, inbound, wire, confirmed, alive, fetching>>
    /\ UNCHANGED <<channel, connection, seen, published, due, orphaned, kept, reconnects,
                   refusals>>

\* The rows are there: the snapshot is sent and the pattern subscribed, whether
\* or not the subscription still exists.
SnapshotRead(c) ==
    /\ alive /\ fetching[c] > 0
    /\ fetching' = [fetching EXCEPT ![c] = @ - 1]
    /\ Psubscribe(c)
    /\ UNCHANGED <<backend, inbound, wire, confirmed, alive, channel, connection, subscribed,
                   subscribes, seen, published, due, orphaned, kept, reconnects, refusals>>

\* The query rejects: a filter names an unknown backtest, or the database fails.
SnapshotFails(c) ==
    /\ alive /\ fetching[c] > 0
    /\ Crash

Unsubscribe(c) ==
    /\ alive /\ connection[c] = "open" /\ subscribed[c]
    /\ CloseSubscription(c)
    /\ Forget(c)
    /\ UNCHANGED <<channel, connection, subscribes, fetching, seen, published, due, kept,
                   reconnects, refusals>>

\* fetchMore dereferences the subscription of its id, and the filters that only
\* the strategy results' subscription stores.  With them it only answers.
FetchMoreRejects(c) ==
    /\ alive /\ connection[c] = "open"
    /\ CASE channel = "backtests_strategy_results" -> ~subscribed[c]
         [] channel = "backtests_mint_results" -> TRUE
         [] OTHER -> FALSE
    /\ Crash

-----------------------------------------------------------------------------
(* Updates.                                                                *)

\* What the handlers of who send of the messages of a chunk, in order: nothing
\* to a closed socket.
SendUpdates(who, chunk) ==
    LET reached == {c \in who : connection[c] = "open" /\ Versions(chunk) # {}}
    IN  /\ seen' = [c \in Clients |-> IF c \in reached THEN LastVersion(chunk) ELSE seen[c]]
        /\ due' = [c \in Clients |-> IF c \in reached THEN due[c] \ Versions(chunk) ELSE due[c]]

\* Who is to get what is published now: an open client with a handler, whose
\* pattern Redis delivers and whose removal is not on its way back already.
Owed == {c \in Clients : connection[c] = "open" /\ Hears(c) /\ wire /\ ~RemovalUnread}

Publish ==
    /\ alive /\ published < MaxUpdates
    /\ published' = published + 1
    /\ IF backend = "memory"
         THEN /\ SendUpdates(Dispatched, <<[op |-> "message", version |-> published']>>)
              /\ UNCHANGED inbound
         ELSE /\ Deliver(published')
              /\ due' = [c \in Clients |-> IF c \in Owed THEN due[c] \cup {published'} ELSE due[c]]
              /\ UNCHANGED seen
    /\ UNCHANGED <<backend, hasEntry, handlers, commands, wire, confirmed, alive, channel,
                   connection, subscribed, subscribes, fetching, orphaned, kept, reconnects,
                   refusals>>

\* Nobody catches the rejection of a psubscribe: it is refused, or its entry is
\* gone when its reply is read.
Read ==
    /\ alive
    /\ \E n \in 1 .. Len(inbound) :
         LET chunk == SubSeq(inbound, 1, n)
         IN  IF Resumed(chunk).rejects
               THEN Crash
               ELSE /\ ReadInto(chunk)
                    /\ SendUpdates(Dispatched, chunk)
                    /\ inbound' = SubSeq(inbound, n + 1, Len(inbound))
                    /\ kept' = kept \cup {c \in Clients : \E i \in DOMAIN chunk :
                                            Refuses(chunk[i], "punsubscribe") /\ chunk[i].by = c}
                    /\ UNCHANGED <<backend, commands, wire, alive, channel, connection, subscribed,
                                   subscribes, fetching, published, orphaned, reconnects, refusals>>

Redis ==
    /\ alive
    /\ \/ RedisExecutes /\ UNCHANGED refusals
       \/ RedisRefuses /\ refusals < MaxRefusals /\ refusals' = refusals + 1
    /\ UNCHANGED <<channel, connection, subscribed, subscribes, fetching, seen, published, due,
                   orphaned, kept, reconnects>>

\* Updates in flight are lost with the connection.
LoseConnection ==
    /\ alive /\ reconnects < MaxReconnects
    /\ reconnects' = reconnects + 1
    /\ Reconnect
    /\ due' = [c \in Clients |-> {}]
    /\ UNCHANGED <<channel, connection, subscribed, subscribes, fetching, seen,
                   published, orphaned, kept, refusals>>

Next ==
    \/ \E c \in Clients :
         \/ Connect(c)
         \/ Close(c)
         \/ Subscribe(c)
         \/ SnapshotRead(c)
         \/ SnapshotFails(c)
         \/ Unsubscribe(c)
         \/ FetchMoreRejects(c)
    \/ Publish
    \/ Read
    \/ Redis
    \/ LoseConnection

Spec == Init /\ [][Next]_vars

\* The clients are interchangeable: for TLC.
ClientSymmetry == Permutations(Clients)

-----------------------------------------------------------------------------
(* Properties.                                                             *)

\* The type of every variable; no subscribe message registers its handler twice,
\* whatever the client library repeats after a loss of the connection.
FeedTypeOK ==
    /\ PubSubTypeOK
    /\ channel \in Channels
    /\ connection \in [Clients -> {"none", "open", "closed"}]
    /\ subscribed \in [Clients -> BOOLEAN]
    /\ subscribes \in 0 .. MaxSubscribes
    /\ Len(handlers) <= subscribes
    /\ fetching \in [Clients -> 0 .. MaxSubscribes]
    /\ seen \in [Clients -> 0 .. MaxUpdates]
    /\ published \in 0 .. MaxUpdates
    /\ due \in [Clients -> SUBSET (1 .. MaxUpdates)]
    /\ orphaned \subseteq Clients /\ kept \subseteq Clients
    /\ reconnects \in 0 .. MaxReconnects
    /\ refusals \in 0 .. MaxRefusals

InFlight(v) == [op |-> "message", version |-> v] \in Range(inbound)

Settled == commands = <<>> /\ inbound = <<>>

\* A client that has left keeps no handler, whoever unsubscribed the pattern and
\* in whatever order the replies came, with two exceptions: the handler that a
\* subscribe handler registers when it was still waiting for its rows at the
\* close or the unsubscribe, since nothing looks at the connection after the
\* await; and those that stay when the client's own punsubscribe was refused,
\* which is logged only.
ClosedClientsUnregistered ==
    \A c \in Clients :
        Settled /\ alive /\ connection[c] = "closed" /\ c \notin orphaned \cup kept => ~Hears(c)

\* "The primary goals are ... and memory-safe listener management" (RedisPubSub.ts:29):
\* with nothing under way, no connection that is closed has a listener.
ListenersAreFreed ==
    \A c \in Clients : Settled /\ alive /\ connection[c] = "closed" => ~Hears(c)

\* An update published while Redis delivers the pattern to an open client, whose
\* handler is registered and whose removal is not on its way, is sent to it
\* before any later one, unless its connection is closed or Redis' is lost:
\* what is not sent is on its way still, and nothing newer was sent.  No reply
\* that is read before it or with it takes the handler away.
UpdatesArrive ==
    \A c \in Clients : \A v \in due[c] : InFlight(v) /\ seen[c] < v

\* "Represents a single active subscription for a WebSocket client" (ws-api/types.ts:43):
\* a subscription of an open connection, with nothing under way, has its handler.
ActiveSubscriptionHears ==
    \A c \in Clients :
        Settled /\ alive /\ connection[c] = "open" /\ subscribed[c] /\ fetching[c] = 0 => Hears(c)

=============================================================================
