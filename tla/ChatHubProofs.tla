---------------------------- MODULE ChatHubProofs ----------------------------
(***************************************************************************)
(* Proofs about ChatHub: its types, and that a goroutine sets out to say   *)
(* that a user is offline only in the step that takes the user's last      *)
(* client away.                                                            *)
(***************************************************************************)
EXTENDS ChatHub, TLAPS

-----------------------------------------------------------------------------
(* The inductive invariant.  The goroutine of a registered client has its  *)
(* Unregister still before it: nobody stays in the hub whose loops are     *)
(* over.                                                                   *)

Pcs == {"off", "idle", "read", "handle", "send", "close", "unregister",
        "publish", "leave", "hangup", "done"}
Afters == {"idle", "send", "read", "hangup"}

\* A goroutine that has unregistered its client, or has not begun.
Over(r) == r.pc \in {"off", "hangup", "done"} \/ (r.pc = "publish" /\ r.after = "hangup")

NobodyLeftBehind == \A c \in registered : ~Over(actors[c])

HubInv == TypeOK /\ NobodyLeftBehind

LEMMA ActorFields ==
    ASSUME NEW r \in Actor
    PROVE  /\ r.pc \in Pcs /\ r.todo \subseteq Clients /\ r.slow \subseteq Clients
           /\ r.says \subseteq Command /\ r.after \in Afters
BY DEF Actor, Pcs, Afters

\* One goroutine goes on as r; it alone may be registered.
LEMMA ActorStep ==
    ASSUME HubInv, NEW a \in Actors, NEW r \in Actor, actors' = [actors EXCEPT ![a] = r],
           registered' \subseteq registered \cup {a}, a \in registered' => ~Over(r)
    PROVE  /\ actors' \in [Actors -> Actor] /\ actors'[a] = r
           /\ \A b \in Actors : b # a => actors'[b] = actors[b]
           /\ NobodyLeftBehind'
<1>1. actors \in [Actors -> Actor] /\ registered \subseteq Actors
  BY DEF HubInv, TypeOK, Actors
<1>2. /\ actors' \in [Actors -> Actor] /\ actors'[a] = r
      /\ \A b \in Actors : b # a => actors'[b] = actors[b]
  BY <1>1
<1>3. ASSUME NEW c \in registered' PROVE ~Over(actors'[c])
  <2>1. CASE c = a
    BY <2>1, <1>2, <1>3
  <2>2. CASE c # a
    BY <2>2, <1>1, <1>2, <1>3 DEF HubInv, NobodyLeftBehind
  <2> QED BY <2>1, <2>2
<1>4. NobodyLeftBehind'
  BY <1>3 DEF NobodyLeftBehind, Over
<1> QED BY <1>2, <1>4

\* What it sets out to say: nothing new, or a goodbye for a user whose last
\* client this very step takes away.
OfflineLast ==
    \A a \in Actors, u \in Users :
        LET goodbye == [user |-> u, online |-> FALSE]
        IN  goodbye \notin actors[a].says /\ goodbye \in actors'[a].says
              => ClientsOf(u) # {} /\ ClientsOf(u)' = {}

Sound == HubInv' /\ OfflineLast

LEMMA Speechless ==
    ASSUME NEW a \in Actors, actors'[a].says \subseteq actors[a].says,
           \A b \in Actors : b # a => actors'[b] = actors[b]
    PROVE  OfflineLast
BY DEF OfflineLast

LEMMA HubInit == Init => HubInv
<1> SUFFICES ASSUME Init PROVE HubInv
  OBVIOUS
<1>1. ASSUME NEW a \in Actors PROVE actors[a] \in Actor
  BY <1>1 DEF Init, Actor
<1>2. actors \in [Actors -> Actor]
  BY <1>1 DEF Init
<1>3. queued \in [Clients -> 0 .. SendBuffer]
  BY HubAssumption DEF Init
<1>4. commands \in Seq(Command) /\ Len(commands) <= MaxCommands
  BY HubAssumption DEF Init
<1>5. TypeOK
  BY <1>2, <1>3, <1>4 DEF TypeOK, Init
<1> QED BY <1>5 DEF HubInv, NobodyLeftBehind, Init

-----------------------------------------------------------------------------
(* Steps that only move a goroutine on.                                    *)

LEMMA MovesOn ==
    ASSUME HubInv, NEW a \in Actors, NEW r \in Actor, actors' = [actors EXCEPT ![a] = r],
           r.says \subseteq actors[a].says, a \in registered => ~Over(r),
           UNCHANGED <<registered, commands, online>>,
           writers' \in [Clients -> {"off", "loop", "write", "done"}],
           connected' \subseteq Clients, closed' \subseteq Clients,
           queued' \in [Clients -> 0 .. SendBuffer], panicked' \in BOOLEAN
    PROVE  Sound
<1>1. /\ actors' \in [Actors -> Actor] /\ actors'[a] = r
      /\ \A b \in Actors : b # a => actors'[b] = actors[b]
      /\ NobodyLeftBehind'
  BY ActorStep
<1>2. TypeOK'
  BY <1>1 DEF HubInv, TypeOK
<1>3. OfflineLast
  BY <1>1, Speechless
<1> QED BY <1>1, <1>2, <1>3 DEF Sound, HubInv

\* Steps that leave the goroutines and the hub alone.
LEMMA StandsStill ==
    ASSUME HubInv, UNCHANGED <<registered, actors>>,
           writers' \in [Clients -> {"off", "loop", "write", "done"}],
           connected' \subseteq Clients, closed' \subseteq Clients,
           queued' \in [Clients -> 0 .. SendBuffer], panicked' \in BOOLEAN,
           commands' \in Seq(Command), Len(commands') <= MaxCommands, online' \subseteq Users
    PROVE  Sound
<1>1. TypeOK' /\ NobodyLeftBehind'
  BY DEF HubInv, TypeOK, NobodyLeftBehind, Over
<1>2. OfflineLast
  BY DEF OfflineLast
<1> QED BY <1>1, <1>2 DEF Sound, HubInv

LEMMA HubTyped ==
    ASSUME HubInv
    PROVE  /\ registered \subseteq Clients /\ actors \in [Actors -> Actor]
           /\ writers \in [Clients -> {"off", "loop", "write", "done"}]
           /\ connected \subseteq Clients /\ closed \subseteq Clients
           /\ queued \in [Clients -> 0 .. SendBuffer] /\ SendBuffer \in Nat
           /\ commands \in Seq(Command) /\ Len(commands) <= MaxCommands /\ MaxCommands \in Nat
           /\ online \subseteq Users /\ panicked \in BOOLEAN
           /\ Clients \subseteq Actors
BY HubAssumption DEF HubInv, TypeOK, Actors

LEMMA OneMore ==
    ASSUME HubInv, NEW c \in Clients, queued[c] < SendBuffer
    PROVE  [queued EXCEPT ![c] = @ + 1] \in [Clients -> 0 .. SendBuffer]
BY HubTyped

LEMMA GoingTo ==
    ASSUME HubInv, NEW a \in Actors, NEW pc \in {"idle", "read", "handle", "send", "close", "unregister",
                                                 "leave", "hangup", "done"},
           Goto(a, pc), a \in registered => pc \notin {"hangup", "done"},
           UNCHANGED <<registered, commands, online>>,
           writers' \in [Clients -> {"off", "loop", "write", "done"}],
           connected' \subseteq Clients, closed' \subseteq Clients,
           queued' \in [Clients -> 0 .. SendBuffer], panicked' \in BOOLEAN
    PROVE  Sound
<1>1. PICK old \in Actor : old = actors[a]
  BY HubTyped
<1>2. PICK r : r = [old EXCEPT !.pc = pc]
  OBVIOUS
<1>3. r \in Actor /\ r.pc = pc /\ r.says = old.says
  BY <1>2 DEF Actor
<1>4. actors' = [actors EXCEPT ![a] = r]
  BY <1>1, <1>2 DEF Goto
<1>5. a \in registered => ~Over(r)
  BY <1>3 DEF Over
<1> QED BY <1>1, <1>3, <1>4, <1>5, MovesOn

LEMMA SnapshotSound ==
    ASSUME HubInv, NEW a \in Actors, NEW recipients \in SUBSET Users, Snapshot(a, recipients)
    PROVE  Sound
<1>1. PICK old \in Actor : old = actors[a]
  BY HubTyped
<1>2. PICK todo : todo = {c \in registered : Owner[c] \in recipients}
  OBVIOUS
<1>3. PICK r : r = [old EXCEPT !.pc = "send", !.todo = todo]
  OBVIOUS
<1>4. todo \in SUBSET Clients
  BY <1>2, HubTyped
<1>5. r \in Actor /\ r.pc = "send" /\ r.says = old.says
  BY <1>3, <1>4 DEF Actor
<1>6. actors' = [actors EXCEPT ![a] = r]
  BY <1>1, <1>2, <1>3 DEF Snapshot
<1>7. ~Over(r)
  BY <1>5 DEF Over
<1> QED BY <1>1, <1>5, <1>6, <1>7, MovesOn, HubTyped DEF Snapshot

LEMMA SendSound ==
    ASSUME HubInv, NEW a \in Actors, NEW c \in Clients, SendToClient(a, c)
    PROVE  Sound
<1>1. CASE /\ c \in closed /\ SendPanics
           /\ UNCHANGED <<actors, registered, writers, connected, closed, commands, online>>
  BY <1>1, StandsStill, HubTyped DEF SendPanics
<1> DEFINE old == actors[a]
<1>2. old \in Actor /\ old.pc = "send"
  BY HubTyped DEF SendToClient, At
<1>3. old.todo \ {c} \in SUBSET Clients /\ {c} \in SUBSET Clients
  BY <1>2, ActorFields
<1>4. CASE /\ queued[c] < SendBuffer /\ Enqueue(c)
           /\ actors' = [actors EXCEPT ![a].todo = @ \ {c}]
           /\ UNCHANGED <<registered, writers, connected, closed, commands, online>>
  <2>1. PICK todo : todo = old.todo \ {c}
    OBVIOUS
  <2>2. PICK r : r = [old EXCEPT !.todo = todo]
    OBVIOUS
  <2>3. r \in Actor /\ r.pc = "send" /\ r.says = old.says
    BY <1>2, <1>3, <2>1, <2>2 DEF Actor
  <2>4. actors' = [actors EXCEPT ![a] = r]
    BY <1>4, <2>1, <2>2
  <2>5. ~Over(r)
    BY <2>3 DEF Over
  <2>6. queued' \in [Clients -> 0 .. SendBuffer] /\ panicked' \in BOOLEAN
    BY <1>4, OneMore, HubTyped DEF Enqueue
  <2> QED BY <1>4, <2>3, <2>4, <2>5, <2>6, MovesOn, HubTyped
<1>5. CASE /\ actors' = [actors EXCEPT ![a].pc = "close", ![a].todo = @ \ {c}, ![a].slow = {c}]
           /\ UNCHANGED <<queued, panicked, registered, writers, connected, closed, commands, online>>
  <2>1. PICK todo : todo = old.todo \ {c}
    OBVIOUS
  <2>2. PICK slow : slow = {c}
    OBVIOUS
  <2>3. PICK r : r = [old EXCEPT !.pc = "close", !.todo = todo, !.slow = slow]
    OBVIOUS
  <2>4. r \in Actor /\ r.pc = "close" /\ r.says = old.says
    BY <1>2, <1>3, <2>1, <2>2, <2>3 DEF Actor
  <2>5. actors' = [actors EXCEPT ![a] = r]
    BY <1>5, <2>1, <2>2, <2>3
  <2>6. ~Over(r)
    BY <2>4 DEF Over
  <2> QED BY <1>5, <2>4, <2>5, <2>6, MovesOn, HubTyped
<1> QED BY <1>1, <1>4, <1>5 DEF SendToClient

-----------------------------------------------------------------------------
(* Steps that set out to say something.                                    *)

\* A greeting is no goodbye.
LEMMA Greets ==
    ASSUME HubInv, NEW c \in Clients, Say(c, Owner[c], TRUE, "read"),
           registered \subseteq registered', registered' \subseteq registered \cup {c},
           UNCHANGED <<closed, commands, online>>,
           writers' \in [Clients -> {"off", "loop", "write", "done"}],
           connected' \subseteq Clients, queued' \in [Clients -> 0 .. SendBuffer], panicked' \in BOOLEAN
    PROVE  Sound
<1>1. PICK old \in Actor : old = actors[c]
  BY HubTyped
<1>2. PICK cmd : cmd = [user |-> Owner[c], online |-> TRUE]
  OBVIOUS
<1>3. cmd \in Command /\ cmd.online = TRUE
  BY <1>2, HubAssumption DEF Command
<1>4. PICK says : says = {cmd}
  OBVIOUS
<1>5. PICK r : r = [old EXCEPT !.pc = "publish", !.says = says, !.after = "read", !.slow = {}]
  OBVIOUS
<1>6. r \in Actor /\ r.pc = "publish" /\ r.after = "read" /\ r.says = {cmd}
  BY <1>3, <1>4, <1>5 DEF Actor
<1>7. actors' = [actors EXCEPT ![c] = r]
  BY <1>1, <1>2, <1>4, <1>5 DEF Say
<1>8. ~Over(r)
  BY <1>6 DEF Over
<1>9. /\ actors' \in [Actors -> Actor] /\ actors'[c] = r
      /\ \A b \in Actors : b # c => actors'[b] = actors[b]
      /\ NobodyLeftBehind'
  BY <1>6, <1>7, <1>8, ActorStep, HubTyped
<1>10. TypeOK'
  BY <1>9, HubTyped DEF HubInv, TypeOK
<1>11. ASSUME NEW u PROVE [user |-> u, online |-> FALSE] # cmd
  BY <1>2
<1>12. OfflineLast
  BY <1>6, <1>9, <1>11 DEF OfflineLast
<1> QED BY <1>9, <1>10, <1>12 DEF Sound, HubInv

LEMMA RegisterSound ==
    ASSUME HubInv, NEW c \in Clients, Register(c)
    PROVE  Sound
<1>1. /\ registered' = registered \cup {c} /\ connected' = connected \cup {c}
      /\ writers' = [writers EXCEPT ![c] = "loop"]
      /\ UNCHANGED <<closed, queued, commands, online, panicked>>
  BY DEF Register
<1>2. writers' \in [Clients -> {"off", "loop", "write", "done"}]
  BY <1>1, HubTyped
<1>3. CASE Say(c, Owner[c], TRUE, "read")
  BY <1>1, <1>2, <1>3, Greets, HubTyped
<1>4. CASE Goto(c, "read")
  <2>1. PICK old \in Actor : old = actors[c]
    BY HubTyped
  <2>2. PICK r : r = [old EXCEPT !.pc = "read"]
    OBVIOUS
  <2>3. r \in Actor /\ r.pc = "read" /\ r.says = old.says
    BY <2>2 DEF Actor
  <2>4. actors' = [actors EXCEPT ![c] = r]
    BY <1>4, <2>1, <2>2 DEF Goto
  <2>5. ~Over(r)
    BY <2>3 DEF Over
  <2>6. /\ actors' \in [Actors -> Actor] /\ actors'[c] = r
        /\ \A b \in Actors : b # c => actors'[b] = actors[b]
        /\ NobodyLeftBehind'
    BY <1>1, <2>3, <2>4, <2>5, ActorStep, HubTyped
  <2>7. TypeOK'
    BY <1>1, <1>2, <2>6, HubTyped DEF HubInv, TypeOK
  <2>8. OfflineLast
    BY <2>1, <2>3, <2>6, Speechless, HubTyped
  <2> QED BY <2>6, <2>7, <2>8 DEF Sound, HubInv
<1> QED BY <1>3, <1>4 DEF Register

\* Unregister: the goroutine of c itself may be over after that.
LEMMA RemoveSound ==
    ASSUME HubInv, NEW a \in Actors, NEW c \in Clients, NEW next \in {"send", "hangup"},
           Remove(a, c, next), next = "hangup" => a = c,
           UNCHANGED <<writers, connected, closed, queued, commands, online, panicked>>
    PROVE  Sound
<1>1. PICK old \in Actor : old = actors[a]
  BY HubTyped
<1>2. registered' = registered \ {c}
  BY DEF Remove
<1>3. CASE /\ c \in registered /\ ClientsOf(Owner[c]) = {c}
           /\ Say(a, Owner[c], FALSE, next)
  <2>1. PICK cmd : cmd = [user |-> Owner[c], online |-> FALSE]
    OBVIOUS
  <2>2. cmd \in Command
    BY <2>1, HubAssumption DEF Command
  <2>3. PICK says : says = {cmd}
    OBVIOUS
  <2>4. PICK r : r = [old EXCEPT !.pc = "publish", !.says = says, !.after = next, !.slow = {}]
    OBVIOUS
  <2>5. next \in {"idle", "send", "read", "hangup"}
    OBVIOUS
  <2>6. r \in Actor /\ r.pc = "publish" /\ r.after = next /\ r.says = {cmd}
    BY <2>2, <2>3, <2>4, <2>5 DEF Actor
  <2>7. actors' = [actors EXCEPT ![a] = r]
    BY <1>1, <1>3, <2>1, <2>3, <2>4 DEF Say
  <2>8. a \in registered' => ~Over(r)
    BY <1>2, <2>6 DEF Over
  <2>9. /\ actors' \in [Actors -> Actor] /\ actors'[a] = r
        /\ \A b \in Actors : b # a => actors'[b] = actors[b]
        /\ NobodyLeftBehind'
    BY <1>2, <2>6, <2>7, <2>8, ActorStep
  <2>10. TypeOK'
    BY <1>2, <2>9, HubTyped DEF HubInv, TypeOK
  <2>11. ClientsOf(Owner[c]) # {} /\ ClientsOf(Owner[c])' = {}
    BY <1>2, <1>3 DEF ClientsOf
  <2>12. ASSUME NEW u, [user |-> u, online |-> FALSE] = cmd PROVE u = Owner[c]
    BY <2>1, <2>12
  <2>13. OfflineLast
    <3> SUFFICES ASSUME NEW b \in Actors, NEW u \in Users,
                        [user |-> u, online |-> FALSE] \notin actors[b].says,
                        [user |-> u, online |-> FALSE] \in actors'[b].says
                 PROVE  ClientsOf(u) # {} /\ ClientsOf(u)' = {}
      BY DEF OfflineLast
    <3>1. b = a
      BY <2>9
    <3>2. [user |-> u, online |-> FALSE] = cmd
      BY <3>1, <2>6, <2>9
    <3>3. u = Owner[c]
      BY <3>2, <2>12
    <3> QED BY <3>3, <2>11
  <2> QED BY <2>9, <2>10, <2>13 DEF Sound, HubInv
<1>4. CASE actors' = [actors EXCEPT ![a].pc = next, ![a].slow = {}]
  <2>1. PICK r : r = [old EXCEPT !.pc = next, !.slow = {}]
    OBVIOUS
  <2>2. r \in Actor /\ r.pc = next /\ r.says = old.says
    BY <2>1 DEF Actor
  <2>3. actors' = [actors EXCEPT ![a] = r]
    BY <1>1, <1>4, <2>1
  <2>4. a \in registered' => ~Over(r)
    BY <1>2, <2>2 DEF Over
  <2>5. /\ actors' \in [Actors -> Actor] /\ actors'[a] = r
        /\ \A b \in Actors : b # a => actors'[b] = actors[b]
        /\ NobodyLeftBehind'
    BY <1>2, <2>2, <2>3, <2>4, ActorStep
  <2>6. TypeOK'
    BY <1>2, <2>5, HubTyped DEF HubInv, TypeOK
  <2>7. OfflineLast
    BY <1>1, <2>2, <2>5, Speechless
  <2> QED BY <2>5, <2>6, <2>7 DEF Sound, HubInv
<1> QED BY <1>3, <1>4 DEF Remove

LEMMA PublishSound ==
    ASSUME HubInv, NEW a \in Actors, Publish(a)
    PROVE  Sound
<1>1. PICK old \in Actor : old = actors[a] /\ old.pc = "publish"
  BY HubTyped DEF Publish, At
<1>2. PICK cmd \in old.says : commands' = Append(commands, cmd)
  BY <1>1 DEF Publish
<1>3. /\ cmd \in Command /\ old.after \in Afters
  BY ActorFields
<1>4. commands' \in Seq(Command) /\ Len(commands') <= MaxCommands
  BY <1>2, <1>3, HubTyped DEF Publish
<1>5. PICK pc : pc = old.after
  OBVIOUS
<1>6. PICK r : r = [old EXCEPT !.pc = pc, !.says = {}, !.after = "idle"]
  OBVIOUS
<1>7. r \in Actor /\ r.pc = old.after /\ r.says = {}
  BY <1>3, <1>5, <1>6 DEF Actor, Afters
<1>8. /\ actors' = [actors EXCEPT ![a] = r]
      /\ UNCHANGED <<registered, writers, connected, closed, queued, online, panicked>>
  BY <1>1, <1>5, <1>6 DEF Publish
<1>9. a \in registered' => ~Over(r)
  <2>1. a \in registered => old.after # "hangup"
    BY <1>1 DEF HubInv, NobodyLeftBehind, Over
  <2> QED BY <2>1, <1>3, <1>7, <1>8 DEF Over, Afters
<1>10. /\ actors' \in [Actors -> Actor] /\ actors'[a] = r
       /\ \A b \in Actors : b # a => actors'[b] = actors[b]
       /\ NobodyLeftBehind'
  BY <1>7, <1>8, <1>9, ActorStep
<1>11. TypeOK'
  BY <1>4, <1>8, <1>10, HubTyped DEF HubInv, TypeOK
<1>12. OfflineLast
  BY <1>7, <1>10, Speechless
<1> QED BY <1>10, <1>11, <1>12 DEF Sound, HubInv

-----------------------------------------------------------------------------
(* The loops, the peer and cmd/dash.                                       *)

LEMMA BroadcastingSound ==
    ASSUME HubInv, NEW a \in Actors, Broadcasting(a)
    PROVE  Sound
<1>1. CASE CloseSlowClient(a)
  <2>1. PICK c \in actors[a].slow : closed' = closed \cup {c} /\ connected' = connected \ {c}
    BY <1>1 DEF CloseSlowClient, CloseClient
  <2>2. c \in Clients
    BY ActorFields, HubTyped
  <2>3. closed' \subseteq Clients /\ connected' \subseteq Clients
    BY <2>1, <2>2, HubTyped
  <2>4. Goto(a, "unregister") /\ UNCHANGED <<registered, writers, queued, commands, online, panicked>>
    BY <1>1 DEF CloseSlowClient
  <2> QED BY <2>3, <2>4, GoingTo, HubTyped
<1>2. CASE UnregisterSlowClient(a)
  <2>1. PICK c \in actors[a].slow : Remove(a, c, "send")
    BY <1>2 DEF UnregisterSlowClient
  <2>2. c \in Clients
    BY ActorFields, HubTyped
  <2>3. UNCHANGED <<writers, connected, closed, queued, commands, online, panicked>>
    BY <1>2 DEF UnregisterSlowClient
  <2> QED BY <2>1, <2>2, <2>3, RemoveSound
<1>3. CASE BroadcastEnds(a)
  <2>1. Goto(a, "idle") \/ Goto(a, "read")
    BY <1>3 DEF BroadcastEnds
  <2>2. UNCHANGED <<registered, writers, connected, closed, queued, commands, online, panicked>>
    BY <1>3 DEF BroadcastEnds
  <2> QED BY <2>1, <2>2, GoingTo, HubTyped
<1> QED BY <1>1, <1>2, <1>3, PublishSound, SendSound DEF Broadcasting

LEMMA ReadingSound ==
    ASSUME HubInv, NEW c \in Clients, Reading(c)
    PROVE  Sound
<1>1. c \in Actors
  BY HubTyped
<1>2. CASE Read(c)
  BY <1>1, <1>2, GoingTo, HubTyped DEF Read
<1>3. ASSUME c \in closed, SendPanics,
             UNCHANGED <<actors, registered, writers, connected, closed, commands, online>>
      PROVE  Sound
  BY <1>3, StandsStill, HubTyped DEF SendPanics
<1>4. ASSUME queued[c] < SendBuffer, Enqueue(c)
      PROVE  queued' \in [Clients -> 0 .. SendBuffer] /\ panicked' \in BOOLEAN
  BY <1>4, OneMore, HubTyped DEF Enqueue
<1>5. CASE HandlePing(c)
  <2>1. CASE c \in closed /\ SendPanics /\ UNCHANGED actors
    BY <2>1, <1>3, <1>5 DEF HandlePing
  <2>2. CASE /\ IF queued[c] < SendBuffer THEN Enqueue(c) ELSE UNCHANGED <<queued, panicked>>
             /\ Say(c, Owner[c], TRUE, "read")
    <3>1. queued' \in [Clients -> 0 .. SendBuffer] /\ panicked' \in BOOLEAN
      BY <2>2, <1>4, HubTyped
    <3>2. UNCHANGED <<registered, writers, connected, closed, commands, online>>
      BY <1>5 DEF HandlePing
    <3> QED BY <2>2, <3>1, <3>2, Greets, HubTyped
  <2> QED BY <1>5, <2>1, <2>2 DEF HandlePing
<1>6. CASE HandleCommand(c)
  <2>1. UNCHANGED <<registered, writers, connected, closed, commands, online>>
    BY <1>6 DEF HandleCommand
  <2>2. CASE Goto(c, "read") /\ UNCHANGED <<queued, panicked>>
    BY <2>1, <2>2, <1>1, GoingTo, HubTyped
  <2>3. CASE queued[c] < SendBuffer /\ Enqueue(c) /\ Goto(c, "read")
    BY <2>1, <2>3, <1>1, <1>4, GoingTo, HubTyped
  <2>4. CASE c \in closed /\ SendPanics /\ UNCHANGED actors
    BY <2>1, <2>4, <1>3
  <2> QED BY <1>6, <2>2, <2>3, <2>4 DEF HandleCommand
<1>7. CASE ReadFails(c)
  BY <1>1, <1>7, GoingTo, HubTyped DEF ReadFails
<1>8. CASE Leave(c)
  BY <1>1, <1>8, RemoveSound DEF Leave
<1>9. CASE HangUp(c)
  <2>1. c \notin registered
    BY <1>9 DEF HangUp, At, HubInv, NobodyLeftBehind, Over
  <2>2. closed' \subseteq Clients /\ connected' \subseteq Clients
    BY <1>9, HubTyped DEF HangUp, CloseClient
  <2>3. Goto(c, "done") /\ UNCHANGED <<registered, writers, queued, commands, online, panicked>>
    BY <1>9 DEF HangUp
  <2> QED BY <1>1, <2>1, <2>2, <2>3, GoingTo, HubTyped
<1> QED BY <1>2, <1>5, <1>6, <1>7, <1>8, <1>9 DEF Reading

LEMMA WritingSound ==
    ASSUME HubInv, NEW c \in Clients, Writing(c)
    PROVE  Sound
<1>1. UNCHANGED <<registered, actors, commands, online, panicked>>
  BY DEF Writing, TakeMessage, WriteMessage, WriterEnds
<1>2. writers' \in [Clients -> {"off", "loop", "write", "done"}]
  BY HubTyped DEF Writing, TakeMessage, WriteMessage, WriterEnds
<1>3. connected' \subseteq Clients /\ closed' \subseteq Clients
  BY HubTyped DEF Writing, TakeMessage, WriteMessage, WriterEnds, CloseClient
<1>4. queued' \in [Clients -> 0 .. SendBuffer]
  <2>1. CASE TakeMessage(c)
    BY <2>1, HubTyped DEF TakeMessage
  <2>2. CASE WriteMessage(c) \/ WriterEnds(c)
    BY <2>2, HubTyped DEF WriteMessage, WriterEnds
  <2> QED BY <2>1, <2>2 DEF Writing
<1> QED BY <1>1, <1>2, <1>3, <1>4, StandsStill, HubTyped

LEMMA OutsideSound ==
    ASSUME HubInv,
           \/ \E c \in Clients : Disconnect(c)
           \/ HandlePresence
           \/ \E u \in Users : PresenceExpires(u)
           \/ UNCHANGED vars
    PROVE  Sound
<1>1. UNCHANGED <<registered, actors, writers, closed, queued, panicked>>
  BY DEF Disconnect, HandlePresence, PresenceExpires, vars
<1>2. connected' \subseteq Clients
  BY HubTyped DEF Disconnect, HandlePresence, PresenceExpires, vars
<1>3. /\ commands' \in Seq(Command) /\ Len(commands') <= MaxCommands
      /\ online' \subseteq Users
  <2>1. CASE HandlePresence
    <3>1. commands # <<>> /\ commands' = Tail(commands) /\ commands \in Seq(Command)
      BY <2>1, HubTyped DEF HandlePresence
    <3>2. Head(commands) \in Command /\ commands' \in Seq(Command) /\ Len(commands') < Len(commands)
      BY <3>1
    <3>3. Len(commands') \in Nat /\ Len(commands) \in Nat
      BY <3>1, <3>2
    <3>4. PICK cmd \in Command : cmd = Head(commands)
      BY <3>2
    <3>5. online' \subseteq online \cup {cmd.user} /\ cmd.user \in Users
      BY <2>1, <3>4 DEF HandlePresence, Command
    <3> QED BY <3>2, <3>3, <3>5, HubTyped
  <2>2. CASE ~HandlePresence
    BY <2>2, HubTyped DEF Disconnect, PresenceExpires, vars
  <2> QED BY <2>1, <2>2
<1> QED BY <1>1, <1>2, <1>3, StandsStill, HubTyped

LEMMA HubNext ==
    ASSUME HubInv, [Next]_vars
    PROVE  Sound
<1>1. ASSUME NEW a \in Actors, Broadcasting(a) PROVE Sound
  BY <1>1, BroadcastingSound
<1>2. ASSUME NEW a \in Actors, NEW recipients \in SUBSET Users, Snapshot(a, recipients) PROVE Sound
  BY <1>2, SnapshotSound
<1>3. ASSUME NEW c \in Clients, Register(c) \/ Reading(c) \/ Writing(c) PROVE Sound
  BY <1>3, RegisterSound, ReadingSound, WritingSound
<1> QED BY <1>1, <1>2, <1>3, OutsideSound DEF Next

-----------------------------------------------------------------------------
(* Theorems.                                                               *)

\* The invariant of every reachable state; in particular every client in the
\* hub has its own Unregister still to come, whoever closed it.
THEOREM HubInvariant == Spec => []HubInv
BY HubInit, HubNext, PTL DEF Spec, Sound

\* A user is said to be offline once for the last client that goes, by the
\* goroutine that removed it, whoever else unregisters it at the same time.
THEOREM OfflineSaidOnce == Spec => OfflineOncePerLastClient
<1>1. HubInv /\ [Next]_vars => OfflineLast
  BY HubNext DEF Sound
<1> QED BY <1>1, HubInvariant, PTL DEF Spec, OfflineOncePerLastClient, OfflineLast
=============================================================================
