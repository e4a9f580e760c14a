------------------------------- MODULE ChatHub -------------------------------
(***************************************************************************)
(* The websocket gateway of the chat (internal/chat): the hub, one client  *)
(* per connection with its read and write loops, the broadcasts made by    *)
(* the listeners of chat events, and the presence of users that cmd/dash   *)
(* keeps from the commands the gateway publishes.                          *)
(*                                                                         *)
(* An actor is a goroutine that works on the hub: a listener, or the       *)
(* goroutine of a client (ServeHTTP until the loops start, then readLoop). *)
(* A step is what happens under the hub's mutex, one operation on a        *)
(* channel, or one call of NATS or of the connection.                      *)
(***************************************************************************)
EXTENDS Naturals, Sequences, FiniteSets

CONSTANTS
    Listeners,    \* broker.Listener goroutines
    Clients,      \* connections, each made once
    Users,
    Owner,        \* Clients -> Users
    SendBuffer,   \* capacity of Client.send, 8 in newClient
    MaxCommands   \* bound: presence commands on their way to cmd/dash

ASSUME HubAssumption ==
    /\ Listeners \cap Clients = {}
    /\ IsFiniteSet(Clients)
    /\ Owner \in [Clients -> Users]
    /\ SendBuffer \in Nat
    /\ MaxCommands \in Nat \ {0}

VARIABLES
    registered,  \* hub.clients
    actors,      \* control of the actors
    writers,     \* control of the write loops
    connected,   \* connections open on both sides
    closed,      \* clients whose send channel is closed (closeOnce is done)
    queued,      \* messages in Client.send
    commands,    \* presence commands published and not yet handled
    online,      \* users cmd/dash shows as online
    panicked     \* the gateway process died of a panic

vars == <<registered, actors, writers, connected, closed, queued, commands,
          online, panicked>>

Actors == Listeners \cup Clients

Command == [user: Users, online: BOOLEAN]

Actor == [pc: {"off", "idle", "read", "handle", "send", "close", "unregister",
               "publish", "leave", "hangup", "done"},
          todo: SUBSET Clients,     \* the snapshot, clients not yet served
          slow: SUBSET Clients,     \* the client being closed and removed
          says: SUBSET Command,     \* the presence command to publish
          after: {"idle", "send", "read", "hangup"}]   \* pc after that

TypeOK ==
    /\ registered \subseteq Clients
    /\ actors \in [Actors -> Actor]
    /\ writers \in [Clients -> {"off", "loop", "write", "done"}]
    /\ connected \subseteq Clients
    /\ closed \subseteq Clients
    /\ queued \in [Clients -> 0 .. SendBuffer]
    /\ commands \in Seq(Command) /\ Len(commands) <= MaxCommands
    /\ online \subseteq Users
    /\ panicked \in BOOLEAN

At(a, pc) == ~panicked /\ actors[a].pc = pc
Goto(a, pc) == actors' = [actors EXCEPT ![a].pc = pc]
\* Publish what is to be said, then go on at next.
Say(a, user, isOnline, next) ==
    actors' = [actors EXCEPT ![a].pc = "publish",
                             ![a].says = {[user |-> user, online |-> isOnline]},
                             ![a].after = next,
                             ![a].slow = {}]

ClientsOf(u) == {c \in registered : Owner[c] = u}

\* A message for c: sent, or a panic because the channel is closed.
Enqueue(c) ==
    /\ queued' = [queued EXCEPT ![c] = @ + 1]
    /\ UNCHANGED panicked
SendPanics ==
    /\ panicked' = TRUE
    /\ UNCHANGED queued

\* Client.Close: closeOnce closes the channel and the connection.
CloseClient(c) ==
    /\ closed' = closed \cup {c}
    /\ connected' = connected \ {c}

-----------------------------------------------------------------------------
(* Registration.                                                           *)

\* Register: under the mutex; whoever adds the first client of a user
\* publishes that the user is online, after the mutex is released.
Register(c) ==
    /\ At(c, "off")
    /\ registered' = registered \cup {c}
    /\ connected' = connected \cup {c}
    /\ IF ClientsOf(Owner[c]) = {}
       THEN Say(c, Owner[c], TRUE, "read")
       ELSE Goto(c, "read")
    /\ writers' = [writers EXCEPT ![c] = "loop"]
    /\ UNCHANGED <<closed, queued, commands, online, panicked>>

\* Mutant: the check that the client is still there is forgotten.
Remove_Twice(a, c, next) ==
    /\ registered' = registered \ {c}
    /\ IF ClientsOf(Owner[c]) \ {c} = {}
       THEN Say(a, Owner[c], FALSE, next)
       ELSE actors' = [actors EXCEPT ![a].pc = next, ![a].slow = {}]

\* Unregister: a second call for the same client does nothing; whoever takes
\* the last client of a user away publishes that the user is offline.
Remove(a, c, next) ==
    /\ registered' = registered \ {c}
    /\ IF c \in registered /\ ClientsOf(Owner[c]) = {c}
       THEN Say(a, Owner[c], FALSE, next)
       ELSE actors' = [actors EXCEPT ![a].pc = next, ![a].slow = {}]

\* PublishChatPresenceCommand
Publish(a) ==
    /\ At(a, "publish")
    /\ Len(commands) < MaxCommands
    /\ \E cmd \in actors[a].says : commands' = Append(commands, cmd)
    /\ actors' = [actors EXCEPT ![a].pc = actors[a].after, ![a].says = {},
                                ![a].after = "idle"]
    /\ UNCHANGED <<registered, writers, connected, closed, queued, online, panicked>>

-----------------------------------------------------------------------------
(* broadcast and HandleCallSignal.                                         *)

\* snapshotClients, under the read lock: the clients of the members.
Snapshot(a, recipients) ==
    /\ At(a, IF a \in Listeners THEN "idle" ELSE "handle")
    /\ actors' = [actors EXCEPT ![a].pc = "send",
                                ![a].todo = {c \in registered : Owner[c] \in recipients}]
    /\ UNCHANGED <<registered, writers, connected, closed, queued, commands,
                   online, panicked>>

\* Mutant: the select has no default, the send waits for room.
SendToClient_Waits(a, c) ==
    /\ At(a, "send")
    /\ c \in actors[a].todo
    /\ \/ /\ c \in closed
          /\ SendPanics
          /\ UNCHANGED actors
       \/ /\ c \notin closed
          /\ queued[c] < SendBuffer
          /\ Enqueue(c)
          /\ actors' = [actors EXCEPT ![a].todo = @ \ {c}]
    /\ UNCHANGED <<registered, writers, connected, closed, commands, online>>

\* select { case c.send <- data: default: c.Close(); h.Unregister(c) }
SendToClient(a, c) ==
    /\ At(a, "send")
    /\ c \in actors[a].todo
    /\ \/ /\ c \in closed
          /\ SendPanics
          /\ UNCHANGED actors
       \/ /\ c \notin closed
          /\ queued[c] < SendBuffer
          /\ Enqueue(c)
          /\ actors' = [actors EXCEPT ![a].todo = @ \ {c}]
       \/ /\ c \notin closed
          /\ queued[c] = SendBuffer
          /\ actors' = [actors EXCEPT ![a].pc = "close", ![a].todo = @ \ {c},
                                      ![a].slow = {c}]
          /\ UNCHANGED <<queued, panicked>>
    /\ UNCHANGED <<registered, writers, connected, closed, commands, online>>

CloseSlowClient(a) ==
    /\ At(a, "close")
    /\ \E c \in actors[a].slow : CloseClient(c)
    /\ Goto(a, "unregister")
    /\ UNCHANGED <<registered, writers, queued, commands, online, panicked>>

UnregisterSlowClient(a) ==
    /\ At(a, "unregister")
    /\ \E c \in actors[a].slow : Remove(a, c, "send")
    /\ UNCHANGED <<writers, connected, closed, queued, commands, online, panicked>>

BroadcastEnds(a) ==
    /\ At(a, "send")
    /\ actors[a].todo = {}
    /\ Goto(a, IF a \in Listeners THEN "idle" ELSE "read")
    /\ UNCHANGED <<registered, writers, connected, closed, queued, commands,
                   online, panicked>>

-----------------------------------------------------------------------------
(* A client's loops.                                                       *)

\* ReadClientText returns a message; what a peer sent before it went away counts
\* as read before.
Read(c) ==
    /\ At(c, "read")
    /\ c \in connected
    /\ Goto(c, "handle")
    /\ UNCHANGED <<registered, writers, connected, closed, queued, commands,
                   online, panicked>>

\* Mutant: a ping is answered but does not refresh the presence.
HandlePing_NoPresence(c) ==
    /\ At(c, "handle")
    /\ \/ /\ c \in closed
          /\ SendPanics
          /\ UNCHANGED actors
       \/ /\ c \notin closed
          /\ IF queued[c] < SendBuffer THEN Enqueue(c) ELSE UNCHANGED <<queued, panicked>>
          /\ Goto(c, "read")
    /\ UNCHANGED <<registered, writers, connected, closed, commands, online>>

\* handleIncoming of a ping: the pong (dropped if the buffer is full), then
\* the presence command.
HandlePing(c) ==
    /\ At(c, "handle")
    /\ \/ /\ c \in closed
          /\ SendPanics
          /\ UNCHANGED actors
       \/ /\ c \notin closed
          /\ IF queued[c] < SendBuffer THEN Enqueue(c) ELSE UNCHANGED <<queued, panicked>>
          /\ Say(c, Owner[c], TRUE, "read")
    /\ UNCHANGED <<registered, writers, connected, closed, commands, online>>

\* The other commands go to NATS and touch neither hub nor presence; one that
\* is malformed or cannot be published is answered like a ping.
HandleCommand(c) ==
    /\ At(c, "handle")
    /\ \/ /\ Goto(c, "read")
          /\ UNCHANGED <<queued, panicked>>
       \/ /\ c \notin closed
          /\ queued[c] < SendBuffer
          /\ Enqueue(c)
          /\ Goto(c, "read")
       \/ /\ c \in closed
          /\ SendPanics
          /\ UNCHANGED actors
    /\ UNCHANGED <<registered, writers, connected, closed, commands, online>>

\* ReadClientText fails: the deferred Unregister and Close.
ReadFails(c) ==
    /\ At(c, "read")
    /\ c \notin connected
    /\ Goto(c, "leave")
    /\ UNCHANGED <<registered, writers, connected, closed, queued, commands,
                   online, panicked>>

Leave(c) ==
    /\ At(c, "leave")
    /\ Remove(c, c, "hangup")
    /\ UNCHANGED <<writers, connected, closed, queued, commands, online, panicked>>

\* Mutant: the read loop closes the connection only.
HangUp_ConnectionOnly(c) ==
    /\ At(c, "hangup")
    /\ connected' = connected \ {c}
    /\ Goto(c, "done")
    /\ UNCHANGED <<registered, writers, closed, queued, commands, online, panicked>>

HangUp(c) ==
    /\ At(c, "hangup")
    /\ CloseClient(c)
    /\ Goto(c, "done")
    /\ UNCHANGED <<registered, writers, queued, commands, online, panicked>>

\* range c.send: what is buffered in a closed channel is still taken.
TakeMessage(c) ==
    /\ ~panicked
    /\ writers[c] = "loop"
    /\ queued[c] > 0
    /\ queued' = [queued EXCEPT ![c] = @ - 1]
    /\ writers' = [writers EXCEPT ![c] = "write"]
    /\ UNCHANGED <<registered, actors, connected, closed, commands, online, panicked>>

\* WriteServerMessage; on an error or at the end of the range the deferred
\* Close.  The first Write after the peer has gone may still succeed.
WriteMessage(c) ==
    /\ ~panicked
    /\ writers[c] = "write"
    /\ \/ /\ c \notin closed
          /\ writers' = [writers EXCEPT ![c] = "loop"]
          /\ UNCHANGED <<connected, closed>>
       \/ /\ c \notin connected
          /\ writers' = [writers EXCEPT ![c] = "done"]
          /\ CloseClient(c)
    /\ UNCHANGED <<registered, actors, queued, commands, online, panicked>>

WriterEnds(c) ==
    /\ ~panicked
    /\ writers[c] = "loop"
    /\ c \in closed
    /\ queued[c] = 0
    /\ writers' = [writers EXCEPT ![c] = "done"]
    /\ UNCHANGED <<registered, actors, connected, closed, queued, commands,
                   online, panicked>>

-----------------------------------------------------------------------------
(* The peer and cmd/dash.                                                  *)

Disconnect(c) ==
    /\ ~panicked
    /\ c \in connected
    /\ connected' = connected \ {c}
    /\ UNCHANGED <<registered, actors, writers, closed, queued, commands,
                   online, panicked>>

\* HandleChatPresenceCommand in cmd/dash: MarkUserOnline, MarkUserOffline.
HandlePresence ==
    /\ commands # <<>>
    /\ commands' = Tail(commands)
    /\ LET cmd == Head(commands)
       IN  online' = IF cmd.online THEN online \cup {cmd.user} ELSE online \ {cmd.user}
    /\ UNCHANGED <<registered, actors, writers, connected, closed, queued, panicked>>

\* Mutant: a presence is fresh for ever.
PresenceExpires_Never(u) == FALSE /\ u \in online /\ UNCHANGED vars

\* isPresenceFresh: nothing heard of the user for CHAT_PRESENCE_ONLINE_TTL.
PresenceExpires(u) ==
    /\ u \in online
    /\ online' = online \ {u}
    /\ UNCHANGED <<registered, actors, writers, connected, closed, queued,
                   commands, panicked>>

-----------------------------------------------------------------------------
Init ==
    /\ registered = {}
    /\ actors = [a \in Actors |->
          [pc |-> IF a \in Listeners THEN "idle" ELSE "off",
           todo |-> {}, slow |-> {}, says |-> {}, after |-> "idle"]]
    /\ writers = [c \in Clients |-> "off"]
    /\ connected = {}
    /\ closed = {}
    /\ queued = [c \in Clients |-> 0]
    /\ commands = <<>>
    /\ online = {}
    /\ panicked = FALSE

Broadcasting(a) ==
    \/ Publish(a)
    \/ \E c \in Clients : SendToClient(a, c)
    \/ CloseSlowClient(a)
    \/ UnregisterSlowClient(a)
    \/ BroadcastEnds(a)

Reading(c) ==
    \/ Read(c)
    \/ HandlePing(c)
    \/ HandleCommand(c)
    \/ ReadFails(c)
    \/ Leave(c)
    \/ HangUp(c)

Writing(c) == TakeMessage(c) \/ WriteMessage(c) \/ WriterEnds(c)

\* No write has a deadline: to a peer that does not read, and stays, it may
\* never return.
WritingGoesOn(c) ==
    \/ TakeMessage(c) \/ WriterEnds(c)
    \/ c \notin connected /\ WriteMessage(c)

Next ==
    \/ \E a \in Actors : Broadcasting(a)
    \/ \E a \in Actors, recipients \in SUBSET Users : Snapshot(a, recipients)
    \/ \E c \in Clients :
          \/ Register(c)
          \/ Reading(c)
          \/ Writing(c)
          \/ Disconnect(c)
    \/ HandlePresence
    \/ \E u \in Users : PresenceExpires(u)

Spec == Init /\ [][Next]_vars

\* Goroutines that can run do, writes to a connection that is over return, one
\* of the connected clients of a user pings again and again, and time passes.
\* A connection may never come and never go, and its peer may never read.
\* Publishing does not wait in the code, only at the bound MaxCommands, hence
\* the strong fairness.
Fairness ==
    /\ \A a \in Actors : SF_vars(Publish(a))
    /\ \A a \in Listeners : WF_vars(Broadcasting(a))
    /\ \A c \in Clients :
          /\ WF_vars(Broadcasting(c) \/ Reading(c))
          /\ WF_vars(WritingGoesOn(c))
    /\ WF_vars(HandlePresence)
    /\ \A u \in Users :
          /\ SF_vars(\E c \in Clients : Owner[c] = u /\ HandlePing(c))
          /\ WF_vars(PresenceExpires(u))

FairSpec == Spec /\ Fairness

-----------------------------------------------------------------------------
(* Properties.                                                             *)

\* Whoever else unregisters a client at the same time, a goroutine sets out to
\* publish that a user is offline only in the step that takes the user's last
\* client away (TestUnregisterIsIdempotentForSameClient, with concurrency).
OfflineOncePerLastClient ==
    [][\A a \in Actors, u \in Users :
          LET goodbye == [user |-> u, online |-> FALSE]
          IN  goodbye \notin actors[a].says /\ goodbye \in actors'[a].says
                => ClientsOf(u) # {} /\ ClientsOf(u)' = {}]_vars

\* TestHubRoutesPersistedEventToConnectedParticipants: a broadcast reaches
\* every participant who is connected.  It does not when the process dies of
\* another one's closed channel first.
BroadcastReachesConnected ==
    panicked => \A a \in Actors : actors[a].todo \cap (connected \ closed) = {}

\* Who broadcasts gets to the end of its snapshot, although the write loop of a
\* client may be stuck for good and the client's buffer full: nobody is kept
\* from a message by the slowness of another (what is left to do is a new
\* snapshot's, so again and again nothing is left).
BroadcastsEnd ==
    \A a \in Actors : []<>(actors[a].todo = {} \/ panicked)

\* A gone connection leaves nothing behind: both loops end and the client is
\* out of the hub, for every connection that ever ends (what is released stays
\* released, so once for all of them is enough).
GoneClientsAreReleased ==
    []<>(\A c \in Clients :
            c \notin connected /\ writers[c] # "off" /\ ~panicked
              => c \notin registered /\ actors[c].pc = "done" /\ writers[c] = "done")

\* A user with a connected client is shown online again and again, although
\* the offline command of an older connection may come last.
ConnectedIsShownOnline ==
    \A u \in Users :
        []<>(ClientsOf(u) \cap connected # {} /\ ~panicked => u \in online)

\* A user without a client is shown offline in the end, although the online
\* command may come last.
GoneIsShownOffline ==
    \A u \in Users : []<>(ClientsOf(u) = {} => u \notin online)

\* Presence is right in the end, whichever way a user's connections change and
\* in whatever order their commands arrive.
PresenceSettles == ConnectedIsShownOnline /\ GoneIsShownOffline
=============================================================================
