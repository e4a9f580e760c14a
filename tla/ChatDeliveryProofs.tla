------------------------ MODULE ChatDeliveryProofs ------------------------
(***************************************************************************)
(* Proofs about ChatDelivery for any users, speakers, number of requests,  *)
(* messages, files and faults.                                             *)
(***************************************************************************)
EXTENDS ChatDelivery, FiniteSetTheorems, TLAPS

-----------------------------------------------------------------------------
(* The conversation inside is a ChatLog: what is proved of every ChatLog   *)
(* holds here, whatever the requests around its transactions do.           *)

Facts == INSTANCE ChatLogProofs WITH
             Kinds <- {"text"} \cup MediaKinds,
             MaxForward <- 0, MaxEdits <- 0, MaxAnnotations <- 0

LEMMA LogAssumptions ==
    Facts!UsersAssumption /\ Facts!LimitsAssumption /\ Facts!BoundsAssumption
BY LogAssumption, BoundsAssumption, IdsAssumption
   DEF Facts!UsersAssumption, Facts!LimitsAssumption, Facts!BoundsAssumption

\* Each instance of a module has names of its own for what it defines.
LEMMA SameSets ==
    ASSUME NEW S
    PROVE  /\ Log!IsFiniteSet(S) <=> IsFiniteSet(S)
           /\ Facts!IsFiniteSet(S) <=> IsFiniteSet(S)
           /\ Log!Cardinality(S) = Cardinality(S)
           /\ Facts!Cardinality(S) = Cardinality(S)
<1>1. Log!IsFiniteSet(S) <=> IsFiniteSet(S)
  BY DEF Log!IsFiniteSet, IsFiniteSet
<1>2. Facts!IsFiniteSet(S) <=> IsFiniteSet(S)
  BY DEF Facts!IsFiniteSet, IsFiniteSet
<1>3. Log!Cardinality(S) = Cardinality(S)
  BY DEF Log!Cardinality, Cardinality
<1>4. Facts!Cardinality(S) = Cardinality(S)
  BY DEF Facts!Cardinality, Cardinality
<1> QED BY <1>1, <1>2, <1>3, <1>4

LEMMA SameTrim ==
    ASSUME NEW S
    PROVE  Facts!TrimOnce(S) = Log!TrimOnce(S)
<1>1. \A n : Facts!Oldest(S, n) = Log!Oldest(S, n)
  <2>1. \A m : Facts!Before(S, m) = Log!Before(S, m)
    BY DEF Facts!Before, Log!Before
  <2> QED BY <2>1, SameSets DEF Facts!Oldest, Log!Oldest
<1> QED BY <1>1, SameSets DEF Facts!TrimOnce, Log!TrimOnce

LEMMA SameKeep ==
    /\ Log!ShowNewest => Facts!ShowNewest
    /\ \A log, removed : Log!Without(log, removed) => Facts!Without(log, removed)
    /\ \A log, removed : Log!Keep(log, removed) => Facts!Keep(log, removed)
    /\ \A n, msg, removed : Log!ShowStored(n, msg, removed) => Facts!ShowStored(n, msg, removed)
<1>1. \A S : Facts!Newest(S) = Log!Newest(S)
  BY DEF Facts!Newest, Log!Newest, Facts!IsNewest, Log!IsNewest, Facts!None, Log!None
<1>2. Facts!NoText = Log!NoText /\ \A m : Facts!Text(m) = Log!Text(m)
  BY DEF Facts!NoText, Log!NoText, Facts!Text, Log!Text
<1>3. \A m : Facts!chatMessagePreviewText(m) = Log!chatMessagePreviewText(m)
  BY <1>2 DEF Facts!chatMessagePreviewText, Log!chatMessagePreviewText
<1>4. Log!ShowNewest => Facts!ShowNewest
  BY <1>1, <1>2 DEF Facts!ShowNewest, Log!ShowNewest
<1>5. \A log, removed : Log!Without(log, removed) => Facts!Without(log, removed)
  BY DEF Facts!Without, Log!Without, Facts!Repaired, Log!Repaired, Facts!Members, Log!Members,
         Facts!None, Log!None, Facts!WithoutAnnotationsOf, Log!WithoutAnnotationsOf
<1>6. \A n, msg, removed : Log!ShowStored(n, msg, removed) => Facts!ShowStored(n, msg, removed)
  BY <1>3, <1>4 DEF Facts!ShowStored, Log!ShowStored
<1> QED BY <1>4, <1>5, <1>6 DEF Facts!Keep, Log!Keep

LEMMA SameType == Facts!TypeOK <=> Log!TypeOK
BY SameSets DEF Facts!TypeOK, Log!TypeOK, Facts!Live, Log!Live, Facts!Members, Log!Members,
   Facts!Message, Log!Message, Facts!Annotation, Log!Annotation, Facts!Label, Log!Label

LEMMA AddStep ==
    ASSUME NEW u \in Users, NEW c \in ClientIds \cup {NoClient}, NEW k \in {"text"} \cup MediaKinds,
           Log!AddMessage(u, c, k)
    PROVE  Facts!Next
<1>1. Facts!Store(1, Facts!NewMessage(u, c, k), Facts!TrimOnce(Facts!Live \cup {nextId}))
  <2>1. Log!Store(1, Log!NewMessage(u, c, k), Log!TrimOnce(Log!Live \cup {nextId}))
    BY DEF Log!AddMessage
  <2>2. Facts!NewMessage(u, c, k) = Log!NewMessage(u, c, k) /\ Facts!Live = Log!Live
    BY DEF Facts!NewMessage, Log!NewMessage, Facts!Live, Log!Live
  <2>3. \A n, msg : Facts!Appended(n, msg) = Log!Appended(n, msg)
    BY <2>2 DEF Facts!Appended, Log!Appended
  <2> QED BY <2>1, <2>2, <2>3, SameTrim, SameKeep DEF Facts!Store, Log!Store
<1>2. Facts!Fresh(u, c) /\ u \in Facts!Members
  BY DEF Log!AddMessage, Log!Fresh, Facts!Fresh, Log!Live, Facts!Live, Log!Members, Facts!Members
<1>3. Facts!AddMessage(u, c, k)
  BY <1>1, <1>2 DEF Facts!AddMessage
<1> QED BY <1>3 DEF Facts!Next

LEMMA RemoveStep ==
    ASSUME NEW u \in Users,
           \/ Log!ClearConversationMessages(u)
           \/ \E m \in Live : Log!DeleteMessage(u, m)
           \/ Log!DeleteConversation(u)
    PROVE  Facts!Next
<1>1. CASE Log!ClearConversationMessages(u)
  <2>1. Facts!ClearConversationMessages(u)
    BY <1>1, SameKeep DEF Log!ClearConversationMessages, Facts!ClearConversationMessages,
       Log!Live, Facts!Live, Log!Members, Facts!Members, Log!None, Facts!None
  <2> QED BY <2>1 DEF Facts!Next
<1>2. ASSUME NEW m \in Live, Log!DeleteMessage(u, m) PROVE Facts!Next
  <2>1. Facts!DeleteMessage(u, m) /\ m \in Facts!Live
    BY <1>2, SameKeep DEF Log!DeleteMessage, Facts!DeleteMessage,
       Live, Log!Live, Facts!Live, Log!Members, Facts!Members, Log!None, Facts!None
  <2> QED BY <2>1 DEF Facts!Next
<1>3. CASE Log!DeleteConversation(u)
  <2>1. Facts!DeleteConversation(u)
    BY <1>3, SameKeep DEF Log!NoText, Facts!NoText, Log!DeleteConversation, Facts!DeleteConversation, Log!Live, Facts!Live,
       Log!Members, Facts!Members, Log!None, Facts!None,
       Log!WithoutAnnotationsOf, Facts!WithoutAnnotationsOf
  <2> QED BY <2>1 DEF Facts!Next
<1> QED BY <1>1, <1>2, <1>3

LEMMA CreateStep ==
    ASSUME Log!CreateDirectConversation PROVE Facts!Next
<1>1. Facts!CreateDirectConversation
  BY DEF Log!CreateDirectConversation, Facts!CreateDirectConversation, Log!None, Facts!None
<1> QED BY <1>1 DEF Facts!Next
-----------------------------------------------------------------------------
(* The inductive invariant.                                                *)

Task == [pc : {"idle", "store", "speak", "publish", "consume", "remove"},
         user : Users \cup {SystemSender}, client : ClientIds \cup {NoClient},
         kind : {"text"} \cup MediaKinds,
         message : Nat, path : Nat, removed : SUBSET Nat]

Media == [path : Nat, consumed : BOOLEAN, expired : BOOLEAN, due : BOOLEAN]

\* The slots whose request is at one of the places pcs.
At(pcs) == {s \in Slots : task[s].pc \in pcs}

Announcing == At({"speak", "publish"})

Typed ==
    /\ nextId \in 1 .. (MaxSent + 1)
    /\ media \in [1 .. MaxSent -> Media]
    /\ nextPath \in 1 .. (MaxUploads + 1)
    /\ disk \cup abandoned \cup unclaimed \cup rolledBack \subseteq 1 .. (nextPath - 1)
    /\ task \in [Slots -> Task]
    /\ told \in [1 .. MaxSent -> Nat]
    /\ served \in [1 .. MaxSent -> Nat]
    /\ spoken \in [1 .. MaxSent -> [Devices -> Nat]]
    /\ toldGone \cup forgotten \subseteq 1 .. (nextId - 1)
    /\ faults \in 0 .. MaxFaults

\* A request holds what its place needs and nothing that is not there yet.
TasksSound ==
    \A s \in Slots :
        /\ task[s].path < nextPath
        /\ task[s].message < nextId
        /\ task[s].removed \subseteq 1 .. (nextId - 1)
        /\ task[s].pc \in {"store", "consume", "remove"} => task[s].path # NoPath
        /\ task[s].pc \in {"speak", "consume", "remove"} => task[s].message # None
        /\ task[s].pc \notin {"speak", "publish"} => task[s].removed = {}

\* What is consumed or expired has no file, what is not stored has nothing.
MediaSound ==
    /\ \A m \in (1 .. MaxSent) \ Live : media[m] = NoMedia
    /\ \A m \in Live : media[m].path < nextPath
    /\ \A m \in Live : media[m].consumed \/ media[m].expired => media[m].path = NoPath

\* A file is a message's, or an upload's, or that of the one who removes it;
\* whoever has read a file holds the path of the message it was asked for.
FilesOwned ==
    /\ \A m \in Live : media[m].path \in disk \cup rolledBack \cup {NoPath}
    /\ \A m, k \in Live : media[m].path = media[k].path => m = k \/ media[m].path = NoPath
    /\ \A s \in At({"store"}) : task[s].path \in disk
    /\ \A s \in At({"store", "remove"}), m \in Live : media[m].path # task[s].path
    /\ \A s \in At({"store"}), r \in At({"store", "consume", "remove"}) :
          task[s].path = task[r].path => s = r
    /\ \A s \in At({"consume"}), m \in Live :
          /\ media[m].path = task[s].path => m = task[s].message
          /\ m = task[s].message /\ ~media[m].consumed /\ ~media[m].expired
                => media[m].path = task[s].path

\* A file without a message is one a request still handles.
FilesHandled ==
    \A p \in disk \ (abandoned \cup unclaimed) :
        \/ \E m \in Live : media[m].path = p
        \/ \E s \in At({"store", "remove"}) : task[s].path = p

\* One request serves a message, and only when it alone has consumed it.
ServedSound ==
    /\ \A m \in 1 .. MaxSent :
          /\ served[m] \in {0, 1}
          /\ served[m] = 1 => m < nextId
          /\ served[m] = 1 /\ m \in Live => media[m].consumed /\ ~media[m].expired
    /\ \A s \in At({"remove"}) :
          /\ served[task[s].message] = 0
          /\ task[s].message \in Live => /\ media[task[s].message].consumed
                                         /\ ~media[task[s].message].expired
    /\ \A s, r \in At({"remove"}) : task[s].message = task[r].message => s = r

\* One request announces a message, before that nothing was said of it.
ToldSound ==
    /\ \A m \in 1 .. MaxSent : /\ told[m] \in {0, 1}
                               /\ told[m] = 1 => m < nextId
    /\ \A s \in Announcing : task[s].message # None => told[task[s].message] = 0
    /\ \A s, r \in Announcing :
          task[s].message = task[r].message => s = r \/ task[s].message = None

\* Every number given out is announced, being announced, or forgotten; and
\* stored, named as removed, being named, or forgotten.
AllAccounted ==
    \A m \in 1 .. (nextId - 1) :
        /\ told[m] = 1 \/ m \in forgotten \/ \E s \in Announcing : task[s].message = m
        /\ m \in Live \/ m \in toldGone \/ m \in forgotten
              \/ \E s \in Announcing : m \in task[s].removed

\* A speaker has said only what is past the place where it is said.
SpokenSound ==
    /\ \A m \in 1 .. MaxSent, d \in Devices : /\ spoken[m][d] \in {0, 1}
                                              /\ spoken[m][d] = 1 => m < nextId
    /\ \A s \in At({"speak"}), d \in Devices : spoken[task[s].message][d] = 0

IInv ==
    /\ Typed
    /\ TasksSound
    /\ MediaSound
    /\ FilesOwned
    /\ FilesHandled
    /\ ServedSound
    /\ ToldSound
    /\ AllAccounted
    /\ SpokenSound

-----------------------------------------------------------------------------
(* Every step is one of the log's, or leaves it alone.                     *)

LogTyped == Facts!IInv

LEMMA LogTypes ==
    ASSUME LogTyped
    PROVE  /\ nextId \in Nat \ {0}
           /\ Live \subseteq 1 .. (nextId - 1) /\ IsFiniteSet(Live)
           /\ Members \subseteq Users
           /\ limit \in Nat /\ limit > 1
           /\ Log!TypeOK
BY SameType, SameSets, LogAssumption
   DEF LogTyped, Facts!IInv, Log!TypeOK, Live, Members, Log!Live, Log!Members

LEMMA NextIsLogStep ==
    ASSUME Typed, LogTyped, [Next]_vars
    PROVE  [Facts!Next]_(Facts!vars)
<1>0. UNCHANGED logVars => UNCHANGED Facts!vars
  BY DEF logVars, Facts!vars
<1>1. SendIds \cup UploadIds \subseteq ClientIds \cup {NoClient} /\ Senders \cup Readers \subseteq Users
  BY IdsAssumption, DevicesAssumption
<1>2. ASSUME NEW u \in Senders, NEW c \in SendIds, SendCommit(u, c) PROVE Facts!Next
  BY <1>1, <1>2, AddStep DEF SendCommit
<1>3. ASSUME NEW s \in Slots, StoreUpload(s) PROVE Facts!Next
  <2>1. task[s].client \in ClientIds \cup {NoClient} /\ task[s].kind \in {"text"} \cup MediaKinds
    BY DEF Typed, Task
  <2>2. task[s].user \in Users /\ Log!AddMessage(task[s].user, task[s].client, task[s].kind)
    BY <1>3, LogTypes DEF StoreUpload, Log!AddMessage, Members
  <2> QED BY <2>1, <2>2, AddStep
<1>4. ASSUME NEW s \in Slots, Go(s) \/ PublishFails(s), ~ StoreUpload(s) PROVE UNCHANGED logVars
  BY <1>4 DEF Go, UploadRefused, UploadRepeated, Speak, NoSnapshot, Publish, PublishFails, Announce, FetchConsumes,
     FetchRefused, FetchServes, Expire
<1>5. ASSUME NEW s \in Requests, NEW u \in Senders, NEW S \in SUBSET Live, DeleteMessages(s, u, S)
      PROVE  Facts!Next
  BY <1>1, <1>5, RemoveStep DEF DeleteMessages
<1>6. ASSUME NEW u \in Senders, DeleteConversation(u) PROVE Facts!Next
  BY <1>1, <1>6, RemoveStep DEF DeleteConversation
<1>7. CASE CreateDirectConversation
  BY <1>7, CreateStep DEF CreateDirectConversation
<1>8. ASSUME NEW u \in Senders, NEW c, SendFails(u, c) PROVE UNCHANGED logVars
  BY <1>8 DEF SendFails, RollBack
<1>9. ASSUME NEW s, NEW u, NEW c, NEW k, WriteFile(s, u, c, k) PROVE UNCHANGED logVars
  BY <1>9 DEF WriteFile
<1>10. ASSUME NEW s, NEW u, NEW m, FetchReads(s, u, m) PROVE UNCHANGED logVars
  BY <1>10 DEF FetchReads
<1>11. ASSUME NEW u, NEW m, FetchExpires(u, m) PROVE UNCHANGED logVars
  BY <1>11 DEF FetchExpires, Expire
<1>12. ASSUME NEW s, UploadFails(s) PROVE UNCHANGED logVars
  BY <1>12 DEF UploadFails, RollBack
<1>13. ASSUME NEW m, TimePasses(m) PROVE UNCHANGED logVars
  BY <1>13 DEF TimePasses
<1>14. Cleanup \/ CleanupFails => UNCHANGED logVars
  BY DEF Cleanup, CleanupFails, Expire, RollBack
<1>15. ASSUME NEW u, NEW S, DeleteFails(u, S) PROVE UNCHANGED logVars
  BY <1>15 DEF DeleteFails, RollBack
<1>16. Crash \/ UNCHANGED vars => UNCHANGED logVars
  BY DEF Crash, vars
<1> QED
  BY <1>0, <1>2, <1>3, <1>4, <1>5, <1>6, <1>7, <1>8, <1>9, <1>10, <1>11, <1>12, <1>13, <1>14,
     <1>15, <1>16 DEF Next

LEMMA LogTypedNext ==
    ASSUME Typed, LogTyped, [Next]_vars
    PROVE  LogTyped'
BY NextIsLogStep, LogAssumptions, Facts!NextIInv DEF LogTyped

\* A stored message is stored, the trim spares it, and it alone is new.
LEMMA NewestSurvives ==
    ASSUME LogTyped
    PROVE  nextId \notin Log!TrimOnce(Live \cup {nextId})
<1>1. /\ nextId \in Nat /\ IsFiniteSet(Live) /\ nextId \notin Live
      /\ \A m \in Live : m \in Nat /\ m < nextId
  BY LogTypes
<1>2. Cardinality(Live \cup {nextId}) = Cardinality(Live) + 1 /\ Cardinality(Live) \in Nat
  BY <1>1, FS_AddElement, FS_CardinalityType
<1>3. Log!Before(Live \cup {nextId}, nextId) = Live
  BY <1>1 DEF Log!Before
<1>4. limit \div 2 \in Nat /\ limit \div 2 < limit
  BY LogTypes
<1>5. ASSUME nextId \in Log!TrimOnce(Live \cup {nextId}) PROVE FALSE
  <2>1. ~ (Cardinality(Live) + 1 < limit) /\ Cardinality(Live) < limit \div 2
    BY <1>2, <1>3, <1>5, SameSets DEF Log!TrimOnce, Log!Oldest
  <2> QED BY <1>2, <1>4, <2>1, LogTypes
<1> QED BY <1>5

LEMMA AddShape ==
    ASSUME LogTyped, NEW u, NEW c, NEW k, Log!AddMessage(u, c, k)
    PROVE  /\ nextId' = nextId + 1 /\ nextId <= MaxSent
           /\ Live' \subseteq Live \cup {nextId}
           /\ nextId \in Live' /\ Live' = DOMAIN messages'
<1>1. Log!Store(1, Log!NewMessage(u, c, k), Log!TrimOnce(Log!Live \cup {nextId}))
  BY DEF Log!AddMessage
<1>2. nextId' = nextId + 1 /\ nextId <= MaxSent
  BY <1>1, LogTypes, BoundsAssumption DEF Log!Store
<1>3. Live' = (Live \cup (nextId .. (nextId + 1 - 1))) \ Log!TrimOnce(Live \cup {nextId})
  BY <1>1 DEF Log!Store, Log!Without, Log!Appended, Live, Log!Live
<1>4. nextId .. (nextId + 1 - 1) = {nextId}
  BY LogTypes
<1> QED BY <1>2, <1>3, <1>4, NewestSurvives DEF Live, Log!Live

LEMMA RemoveShape ==
    ASSUME LogTyped, NEW u
    PROVE  /\ Log!ClearConversationMessages(u) => Live' = {} /\ nextId' = nextId
           /\ \A m : Log!DeleteMessage(u, m) => Live' = Live \ {m} /\ nextId' = nextId
           /\ Log!DeleteConversation(u) => Live' = {} /\ nextId' = nextId
           /\ Log!CreateDirectConversation => Live' = Live /\ nextId' = nextId
           /\ Live' = DOMAIN messages'
BY DEF Log!ClearConversationMessages, Log!DeleteMessage, Log!DeleteConversation,
   Log!CreateDirectConversation, Log!Keep, Log!Without, Live, Log!Live

-----------------------------------------------------------------------------
(* The parts of the invariant over steps that leave most of it alone.      *)

\* Nothing is served and no request comes to or leaves its last look.
LEMMA ServedKept ==
    ASSUME Typed, TasksSound, LogTyped, LogTyped', ServedSound,
           served' = served, nextId' \in Nat, nextId <= nextId',
           \A m \in Live' \cap Live :
               media[m].consumed /\ ~media[m].expired
                   => media'[m].consumed /\ ~media'[m].expired,
           Live' \subseteq Live \cup {nextId},
           \A s \in Slots : task'[s].pc = "remove" => task'[s] = task[s]
    PROVE  ServedSound'
<1>1. nextId \in Nat /\ \A m \in Live' : m \in Nat
  BY LogTypes DEF LogTyped, Facts!IInv, Facts!TypeOK, Facts!Live, Live, Log!Live
<1>2. ASSUME NEW m \in 1 .. MaxSent
      PROVE  /\ served'[m] \in {0, 1}
             /\ served'[m] = 1 => m < nextId'
             /\ served'[m] = 1 /\ m \in Live' => media'[m].consumed /\ ~media'[m].expired
  <2>1. served'[m] = served[m] /\ served[m] \in {0, 1} /\ (served[m] = 1 => m < nextId) /\ m \in Nat
    BY DEF ServedSound
  <2>2. ASSUME served[m] = 1, m \in Live' PROVE media'[m].consumed /\ ~media'[m].expired
    <3>1. m \in Live
      BY <1>1, <2>1, <2>2
    <3> QED BY <2>2, <3>1 DEF ServedSound
  <2> QED BY <1>1, <2>1, <2>2
<1>3. ASSUME NEW s \in Slots, task'[s].pc = "remove"
      PROVE  /\ task'[s] = task[s] /\ s \in At({"remove"})
             /\ served'[task[s].message] = 0
             /\ task[s].message \in Live' => /\ media'[task[s].message].consumed
                                             /\ ~media'[task[s].message].expired
  <2>1. task'[s] = task[s] /\ s \in At({"remove"})
    BY <1>3 DEF At
  <2>2. task[s].message < nextId /\ task[s].message \in Nat
    BY DEF TasksSound, Typed, Task
  <2>3. task[s].message \in Live' => task[s].message \in Live
    BY <1>1, <2>2
  <2> QED BY <2>1, <2>3 DEF ServedSound
<1>4. \A s \in At({"remove"})' : s \in Slots /\ task'[s].pc = "remove"
  BY DEF At
<1> QED BY <1>2, <1>3, <1>4 DEF ServedSound

\* Nothing is announced, nothing stored or removed.
LEMMA TalkKept ==
    ASSUME Typed, ToldSound, AllAccounted, SpokenSound,
           told' = told, toldGone' = toldGone, spoken' = spoken, forgotten' = forgotten,
           nextId' = nextId, Live' = Live,
           \A s \in Slots : /\ task'[s].pc \in {"speak", "publish"} => task'[s] = task[s]
                            /\ task[s].pc \in {"speak", "publish"} => task'[s] = task[s]
    PROVE  ToldSound' /\ AllAccounted' /\ SpokenSound'
<1>1. \A s : s \in Announcing <=> s \in Announcing'
  BY DEF Announcing, At
<1>2. \A s : s \in At({"speak"}) <=> s \in At({"speak"})'
  BY DEF At
<1>3. \A s \in Announcing : task'[s] = task[s]
  BY DEF Announcing, At
<1>4. \A s \in At({"speak"}) : task'[s] = task[s]
  BY DEF At
<1>5. ToldSound'
  BY <1>1, <1>3 DEF ToldSound
<1>6. AllAccounted'
  BY <1>1, <1>3 DEF AllAccounted
<1>7. SpokenSound'
  BY <1>2, <1>4 DEF SpokenSound
<1> QED BY <1>5, <1>6, <1>7

\* Files may go when no message has them or the transaction that removed
\* them is rolled back, or when their request has gone with them.
LEMMA FilesKept ==
    ASSUME Typed, MediaSound, FilesOwned, FilesHandled,
           media' = media, Live' = Live,
           nextPath' = nextPath,
           disk' \subseteq disk, rolledBack \subseteq rolledBack', abandoned \subseteq abandoned', unclaimed \subseteq unclaimed',
           \A m \in Live : media[m].path \in disk => media[m].path \in disk' \cup rolledBack',
           \A s \in Slots :
               /\ task'[s].pc \in {"store", "consume", "remove"} => task'[s] = task[s]
               /\ task'[s].pc = "store" /\ task[s].path \in disk => task[s].path \in disk'
               /\ task[s].pc \in {"store", "remove"} =>
                      task'[s] = task[s] \/ task[s].path \notin disk' \ (abandoned' \cup unclaimed')
    PROVE  MediaSound' /\ FilesOwned' /\ FilesHandled'
<1>1. MediaSound'
  BY DEF MediaSound
<1>2. \A pcs \in SUBSET {"store", "consume", "remove"}, s \in Slots :
         s \in At(pcs)' => s \in At(pcs) /\ task'[s] = task[s]
  BY DEF At
<1>3. \A pcs : At(pcs)' \subseteq Slots
  BY DEF At
<1>4. FilesOwned'
  <2>1. \A m \in Live : media[m].path \in disk' \cup rolledBack' \cup {NoPath}
    BY DEF FilesOwned
  <2>2. /\ \A s \in At({"store", "remove"})' : s \in At({"store", "remove"}) /\ task'[s] = task[s]
        /\ \A s \in At({"store"})' : s \in At({"store"}) /\ task'[s] = task[s]
        /\ \A s \in At({"consume"})' : s \in At({"consume"}) /\ task'[s] = task[s]
        /\ \A s \in At({"store", "consume", "remove"})' :
              s \in At({"store", "consume", "remove"}) /\ task'[s] = task[s]
    BY <1>2, <1>3
  <2>3. \A s \in At({"store"})' : task'[s].path \in disk'
    <3>1. \A s \in At({"store"})' : s \in Slots /\ task'[s].pc = "store"
      BY DEF At
    <3> QED BY <2>2, <3>1 DEF FilesOwned
  <2> QED BY <2>1, <2>2, <2>3 DEF FilesOwned
<1>5. FilesHandled'
  <2> SUFFICES ASSUME NEW p \in disk' \ (abandoned' \cup unclaimed')
               PROVE  \/ \E m \in Live' : media'[m].path = p
                      \/ \E s \in At({"store", "remove"})' : task'[s].path = p
    BY DEF FilesHandled
  <2>1. p \in disk \ (abandoned \cup unclaimed)
    OBVIOUS
  <2>2. ASSUME NEW s \in At({"store", "remove"}), task[s].path = p
        PROVE  s \in At({"store", "remove"})' /\ task'[s].path = p
    BY <2>2 DEF At
  <2> QED BY <2>1, <2>2 DEF FilesHandled
<1> QED BY <1>1, <1>4, <1>5

\* What a transaction on the log does to the media: the messages it removes
\* lose theirs, the one it stores gets the file of the request that stores it.
LEMMA FollowShape ==
    ASSUME Typed, LogTyped, LogTyped', MediaSound, NEW path \in Nat, FilesFollow(path),
           nextId' \in 1 .. (MaxSent + 1),
           Live' = DOMAIN messages', Live' \subseteq Live \cup {nextId}
    PROVE  /\ media' \in [1 .. MaxSent -> Media]
           /\ \A m \in Live' \cap Live : media'[m] = media[m]
           /\ nextId \in Live' => media'[nextId] = [NoMedia EXCEPT !.path = path]
           /\ \A m \in (1 .. MaxSent) \ Live' : media'[m] = NoMedia
           /\ Live' \subseteq 1 .. MaxSent
           /\ disk' = disk \ PathsOf(Live \ Live')
           /\ nextPath' = nextPath /\ abandoned' = abandoned /\ unclaimed' = unclaimed
      /\ rolledBack' = rolledBack
           /\ served' = served
<1> DEFINE New == [NoMedia EXCEPT !.path = path]
<1>1. /\ media' = [m \in 1 .. MaxSent |->
                     IF m \in Live \ Live' THEN NoMedia
                     ELSE IF m = nextId /\ m \in Live' THEN New ELSE media[m]]
      /\ disk' = disk \ PathsOf(Live \ Live')
      /\ nextPath' = nextPath /\ abandoned' = abandoned /\ unclaimed' = unclaimed
      /\ rolledBack' = rolledBack
      /\ served' = served
  BY DEF FilesFollow
<1>2. New \in Media /\ NoMedia \in Media
  BY DEF Media, NoMedia, NoPath
<1>3. Live' \subseteq 1 .. MaxSent
  <2>1. Live' \subseteq 1 .. (nextId' - 1)
    BY SameType, SameSets DEF LogTyped, Facts!IInv, Facts!TypeOK, Facts!Live, Live, Log!Live
  <2> QED BY <2>1, BoundsAssumption
<1>4. nextId \notin Live
  BY LogTypes
<1> HIDE DEF New
<1>5. media' \in [1 .. MaxSent -> Media]
  BY <1>1, <1>2 DEF Typed
<1>6. \A m \in Live' \cap Live : media'[m] = media[m]
  BY <1>1, <1>3, <1>4
<1>7. \A m \in (1 .. MaxSent) \ Live' : media'[m] = NoMedia
  BY <1>1 DEF MediaSound
<1> QED BY <1>1, <1>3, <1>4, <1>5, <1>6, <1>7 DEF New

LEMMA FilesFollowed ==
    ASSUME Typed, TasksSound, LogTyped, LogTyped', MediaSound, FilesOwned, FilesHandled,
           NEW path \in Nat, FilesFollow(path),
           nextId' \in 1 .. (MaxSent + 1),
           Live' = DOMAIN messages', Live' \subseteq Live \cup {nextId},
           \A s \in Slots : task'[s].pc \in {"store", "consume", "remove"} => task'[s] = task[s],
           \A s \in Slots : task[s].pc \in {"store", "remove"} =>
               \/ task'[s] = task[s]
               \/ task[s].path = path /\ nextId \in Live',
           \/ path = NoPath
           \/ \E g \in Slots : /\ task[g].pc = "store" /\ task[g].path = path
                               /\ task'[g].pc \notin {"store", "consume", "remove"}
    PROVE  MediaSound' /\ FilesOwned' /\ FilesHandled'
<1> DEFINE New == [NoMedia EXCEPT !.path = path]
<1>0. /\ New.path = path /\ ~New.consumed /\ ~New.expired
      /\ NoMedia.path = NoPath /\ nextId \notin Live
  BY LogTypes DEF NoMedia
<1>1. /\ \A m \in Live' \cap Live : media'[m] = media[m]
      /\ nextId \in Live' => media'[nextId] = New
      /\ \A m \in (1 .. MaxSent) \ Live' : media'[m] = NoMedia
      /\ disk' = disk \ PathsOf(Live \ Live')
      /\ nextPath' = nextPath /\ abandoned' = abandoned /\ unclaimed' = unclaimed
      /\ rolledBack' = rolledBack
  BY FollowShape
<1> HIDE DEF New
<1>2. path < nextPath /\ NoPath = 0 /\ nextPath \in Nat
  <2>1. nextPath \in Nat /\ nextPath > 0 /\ NoPath = 0
    BY DEF Typed, NoPath
  <2>2. \A g \in Slots : task[g].path < nextPath
    BY DEF TasksSound
  <2> QED BY <2>1, <2>2
<1>3. ASSUME path # NoPath
      PROVE  /\ path \in disk /\ \A m \in Live : media[m].path # path
             /\ \A s \in Slots : task'[s].pc \in {"store", "consume", "remove"} => task'[s].path # path
  <2>1. PICK g \in Slots : /\ task[g].pc = "store" /\ task[g].path = path
                           /\ task'[g].pc \notin {"store", "consume", "remove"}
    BY <1>3
  <2>2. g \in At({"store"}) /\ g \in At({"store", "remove"})
    BY <2>1 DEF At
  <2>3. path \in disk /\ \A m \in Live : media[m].path # path
    BY <2>1, <2>2 DEF FilesOwned
  <2>4. ASSUME NEW s \in Slots, task'[s].pc \in {"store", "consume", "remove"}, task'[s].path = path
        PROVE  FALSE
    <3>1. s \in At({"store", "consume", "remove"}) /\ task[s].path = path
      BY <2>4 DEF At
    <3>2. s = g
      BY <2>1, <2>2, <3>1 DEF FilesOwned
    <3> QED BY <2>1, <2>4, <3>2
  <2> QED BY <2>3, <2>4
<1>4. MediaSound'
  <2>1. ASSUME NEW m \in Live'
        PROVE  /\ media'[m].path < nextPath'
               /\ media'[m].consumed \/ media'[m].expired => media'[m].path = NoPath
    <3>1. CASE m \in Live
      BY <1>1, <3>1 DEF MediaSound
    <3>2. CASE m = nextId
      BY <1>0, <1>1, <1>2, <3>2
    <3> QED BY <3>1, <3>2
  <2> QED BY <1>1, <2>1 DEF MediaSound
<1>5. \A p \in PathsOf(Live \ Live') : p # NoPath /\ \E k \in Live \ Live' : media[k].path = p
  BY DEF PathsOf
<1>6. FilesOwned'
  <2>1. ASSUME NEW m \in Live' PROVE media'[m].path \in disk' \cup rolledBack' \cup {NoPath}
    <3>1. CASE m \in Live
      <4>1. media'[m] = media[m] /\ media[m].path \in disk \cup rolledBack \cup {NoPath}
        BY <1>1, <3>1 DEF FilesOwned
      <4>2. media[m].path \notin PathsOf(Live \ Live')
        <5>1. ASSUME NEW k \in Live \ Live', media[k].path = media[m].path, media[m].path # NoPath
              PROVE  FALSE
          BY <3>1, <5>1 DEF FilesOwned
        <5> QED BY <1>5, <5>1
      <4> QED BY <1>1, <4>1, <4>2
    <3>2. CASE m = nextId
      BY <1>0, <1>1, <1>3, <1>5, <3>2
    <3> QED BY <3>1, <3>2
  <2>2. ASSUME NEW m \in Live', NEW k \in Live', media'[m].path = media'[k].path
        PROVE  m = k \/ media'[m].path = NoPath
    <3>1. CASE m \in Live /\ k \in Live
      BY <1>1, <2>2, <3>1 DEF FilesOwned
    <3>2. CASE m = nextId /\ k \in Live
      BY <1>0, <1>1, <1>3, <2>2, <3>2
    <3>3. CASE m \in Live /\ k = nextId
      BY <1>0, <1>1, <1>3, <2>2, <3>3
    <3> QED BY <3>1, <3>2, <3>3
  <2>3. ASSUME NEW s \in At({"store"})' PROVE task'[s].path \in disk'
    <3>1. s \in At({"store"}) /\ s \in At({"store", "remove"}) /\ task'[s] = task[s]
      BY DEF At
    <3>2. task[s].path \in disk /\ \A k \in Live : media[k].path # task[s].path
      BY <3>1 DEF FilesOwned
    <3> QED BY <1>1, <1>5, <3>1, <3>2
  <2>4. ASSUME NEW s \in At({"store", "remove"})', NEW m \in Live' PROVE media'[m].path # task'[s].path
    <3>1. s \in At({"store", "remove"}) /\ task'[s] = task[s] /\ s \in Slots
          /\ task'[s].pc \in {"store", "consume", "remove"} /\ task[s].pc \in {"store", "consume", "remove"}
      BY DEF At
    <3>2. CASE m \in Live
      BY <1>1, <3>1, <3>2 DEF FilesOwned
    <3>3. CASE m = nextId
      <4>1. task[s].path # NoPath
        BY <3>1 DEF TasksSound
      <4> QED BY <1>0, <1>1, <1>3, <3>1, <3>3, <4>1
    <3> QED BY <3>2, <3>3
  <2>5. ASSUME NEW s \in At({"store"})', NEW r \in At({"store", "consume", "remove"})',
               task'[s].path = task'[r].path
        PROVE  s = r
    <3>1. /\ s \in At({"store"}) /\ task'[s] = task[s]
          /\ r \in At({"store", "consume", "remove"}) /\ task'[r] = task[r]
      BY DEF At
    <3> QED BY <2>5, <3>1 DEF FilesOwned
  <2>6. ASSUME NEW s \in At({"consume"})', NEW m \in Live'
        PROVE  /\ media'[m].path = task'[s].path => m = task'[s].message
               /\ m = task'[s].message /\ ~media'[m].consumed /\ ~media'[m].expired
                     => media'[m].path = task'[s].path
    <3>1. /\ s \in At({"consume"}) /\ task'[s] = task[s] /\ s \in Slots
          /\ task[s].pc = "consume" /\ task'[s].pc \in {"store", "consume", "remove"}
      BY DEF At
    <3>2. CASE m \in Live
      BY <1>1, <3>1, <3>2 DEF FilesOwned
    <3>3. CASE m = nextId
      <4>1. task[s].path # NoPath /\ task[s].message < nextId /\ task[s].message \in Nat /\ nextId \in Nat
        BY <3>1, LogTypes DEF TasksSound, Typed, Task
      <4>2. media'[m].path # task'[s].path
        BY <1>0, <1>1, <1>3, <3>1, <3>3, <4>1
      <4>3. m # task'[s].message
        BY <3>1, <3>3, <4>1
      <4> QED BY <4>2, <4>3
    <3> QED BY <3>2, <3>3
  <2> QED BY <2>1, <2>2, <2>3, <2>4, <2>5, <2>6 DEF FilesOwned
<1>7. FilesHandled'
  <2> SUFFICES ASSUME NEW p \in disk' \ (abandoned' \cup unclaimed')
               PROVE  \/ \E m \in Live' : media'[m].path = p
                      \/ \E s \in At({"store", "remove"})' : task'[s].path = p
    BY DEF FilesHandled
  <2>1. p \in disk \ (abandoned \cup unclaimed) /\ p \notin PathsOf(Live \ Live') /\ p # NoPath
    BY <1>1 DEF Typed, NoPath
  <2>2. ASSUME NEW m \in Live, media[m].path = p PROVE m \in Live' /\ media'[m].path = p
    <3>1. m \in Live'
      BY <2>1, <2>2 DEF PathsOf
    <3> QED BY <1>1, <2>2, <3>1
  <2>3. ASSUME NEW s \in At({"store", "remove"}), task[s].path = p
        PROVE  \/ s \in At({"store", "remove"})' /\ task'[s].path = p
               \/ nextId \in Live' /\ media'[nextId].path = p
    <3>1. s \in Slots /\ task[s].pc \in {"store", "remove"}
      BY DEF At
    <3> QED BY <1>0, <1>1, <2>3, <3>1 DEF At
  <2> QED BY <2>1, <2>2, <2>3 DEF FilesHandled
<1> QED BY <1>4, <1>6, <1>7

\* What is due goes with its file; a request whose look came too late ends.
LEMMA Expired ==
    ASSUME Typed, LogTyped, TasksSound, TasksSound', MediaSound, FilesOwned, FilesHandled,
           NEW S \in SUBSET Expirable, Expire(S),
           \A s \in Slots :
               /\ task'[s].pc \in {"store", "consume", "remove"} => task'[s] = task[s]
               /\ task[s].pc \in {"store", "remove"} => task'[s] = task[s]
    PROVE  /\ media' \in [1 .. MaxSent -> Media]
           /\ disk' \subseteq disk /\ Live' = Live
           /\ \A m \in Live : media[m].consumed /\ ~media[m].expired
                                  => media'[m].consumed /\ ~media'[m].expired
           /\ MediaSound' /\ FilesOwned' /\ FilesHandled'
<1>1. /\ disk' = disk \ PathsOf(S)
      /\ media' = [m \in 1 .. MaxSent |->
                     IF m \in S THEN [media[m] EXCEPT !.path = NoPath, !.expired = TRUE]
                                ELSE media[m]]
      /\ Live' = Live /\ nextPath' = nextPath /\ abandoned' = abandoned /\ unclaimed' = unclaimed
      /\ rolledBack' = rolledBack
  BY DEF Expire, logVars, Live, Log!Live
<1>2. Live \subseteq 1 .. MaxSent /\ S \subseteq Live
  <2>1. Live \subseteq 1 .. (nextId - 1) /\ nextId \in Nat
    BY LogTypes
  <2> QED BY <2>1, BoundsAssumption DEF Typed, Expirable
<1>3. \A m \in 1 .. MaxSent : media[m] \in Media
  BY DEF Typed
<1>4. ASSUME NEW m \in 1 .. MaxSent
      PROVE  /\ media'[m] \in Media
             /\ m \notin S => media'[m] = media[m]
             /\ m \in S => /\ media'[m].path = NoPath /\ media'[m].expired
                           /\ media'[m].consumed = media[m].consumed
                           /\ ~media[m].consumed /\ ~media[m].expired
  <2>1. CASE m \in S
    <3>1. media'[m] = [media[m] EXCEPT !.path = NoPath, !.expired = TRUE]
      BY <1>1, <2>1
    <3>2. ~media[m].consumed /\ ~media[m].expired
      BY <2>1 DEF Expirable
    <3>3. PICK w \in Media : w = media[m]
      BY <1>3
    <3>4. PICK v : v = [w EXCEPT !.path = NoPath, !.expired = TRUE]
      OBVIOUS
    <3>5. v \in Media /\ v.path = NoPath /\ v.expired /\ v.consumed = w.consumed
      BY <3>4 DEF Media, NoPath
    <3>6. media'[m] = v
      BY <3>1, <3>3, <3>4
    <3> QED BY <2>1, <3>2, <3>3, <3>5, <3>6
  <2> QED BY <1>1, <1>3, <2>1
<1>5. media' \in [1 .. MaxSent -> Media]
  BY <1>1, <1>4
<1>6. \A m \in Live : \/ media'[m].path = media[m].path
                        \/ media'[m].path = NoPath
  BY <1>2, <1>4
<1>7. MediaSound'
  <2>1. NoPath < nextPath
    BY DEF Typed, NoPath
  <2>2. \A m \in (1 .. MaxSent) \ Live : media'[m] = NoMedia
    BY <1>2, <1>4 DEF MediaSound
  <2>3. ASSUME NEW m \in Live
        PROVE  /\ media'[m].path < nextPath
               /\ media'[m].consumed \/ media'[m].expired => media'[m].path = NoPath
    <3>1. CASE m \in S
      BY <1>2, <1>4, <2>1, <3>1
    <3>2. CASE m \notin S
      BY <1>2, <1>4, <3>2 DEF MediaSound
    <3> QED BY <3>1, <3>2
  <2> QED BY <1>1, <2>2, <2>3 DEF MediaSound
<1>8. \A s \in At({"store", "remove"})' : s \in At({"store", "remove"}) /\ task'[s] = task[s]
  BY DEF At
<1>9. FilesOwned'
  <2>1. ASSUME NEW m \in Live PROVE media'[m].path \in disk' \cup rolledBack \cup {NoPath}
    <3>1. CASE m \in S
      BY <1>2, <1>4, <3>1
    <3>2. CASE m \notin S
      <4>1. media'[m] = media[m] /\ media[m].path \in disk \cup rolledBack \cup {NoPath}
        BY <1>2, <1>4, <3>2 DEF FilesOwned
      <4>2. media[m].path \notin PathsOf(S)
        <5>1. ASSUME NEW k \in S, media[k].path = media[m].path, media[m].path # NoPath PROVE FALSE
          BY <1>2, <3>2, <5>1 DEF FilesOwned
        <5> QED BY <5>1 DEF PathsOf
      <4>3. disk' = disk \ PathsOf(S)
        BY <1>1
      <4> QED BY <4>1, <4>2, <4>3
    <3> QED BY <3>1, <3>2
  <2>2. ASSUME NEW m \in Live, NEW k \in Live, media'[m].path = media'[k].path
        PROVE  m = k \/ media'[m].path = NoPath
    BY <1>6, <2>2 DEF FilesOwned
  <2>3. ASSUME NEW s \in At({"store"})' PROVE task'[s].path \in disk'
    <3>1. s \in At({"store"}) /\ s \in At({"store", "remove"}) /\ task'[s] = task[s]
      BY DEF At
    <3>2. task[s].path \in disk /\ \A k \in Live : media[k].path # task[s].path
      BY <3>1 DEF FilesOwned
    <3> QED BY <1>1, <1>2, <3>1, <3>2 DEF PathsOf
  <2>4. ASSUME NEW s \in At({"store", "remove"})', NEW m \in Live
        PROVE  media'[m].path # task'[s].path
    <3>1. task'[s].path # NoPath
      BY DEF TasksSound, At
    <3> QED BY <1>6, <1>8, <3>1 DEF FilesOwned
  <2>5. ASSUME NEW s \in At({"store"})', NEW r \in At({"store", "consume", "remove"})',
               task'[s].path = task'[r].path
        PROVE  s = r
    <3>1. /\ s \in At({"store"}) /\ task'[s] = task[s]
          /\ r \in At({"store", "consume", "remove"}) /\ task'[r] = task[r]
      BY DEF At
    <3> QED BY <2>5, <3>1 DEF FilesOwned
  <2>6. ASSUME NEW s \in At({"consume"})', NEW m \in Live
        PROVE  /\ media'[m].path = task'[s].path => m = task'[s].message
               /\ m = task'[s].message /\ ~media'[m].consumed /\ ~media'[m].expired
                     => media'[m].path = task'[s].path
    <3>1. s \in At({"consume"}) /\ task'[s] = task[s] /\ task'[s].path # NoPath
      BY DEF At, TasksSound
    <3>2. CASE m \in S
      BY <1>2, <1>4, <3>1, <3>2
    <3>3. CASE m \notin S
      BY <1>2, <1>4, <3>1, <3>3 DEF FilesOwned
    <3> QED BY <3>2, <3>3
  <2> QED BY <1>1, <2>1, <2>2, <2>3, <2>4, <2>5, <2>6 DEF FilesOwned
<1>10. FilesHandled'
  <2> SUFFICES ASSUME NEW p \in disk' \ (abandoned' \cup unclaimed')
               PROVE  \/ \E m \in Live' : media'[m].path = p
                      \/ \E s \in At({"store", "remove"})' : task'[s].path = p
    BY DEF FilesHandled
  <2>1. p \in disk \ (abandoned \cup unclaimed) /\ p \notin PathsOf(S) /\ p # NoPath
    <3>1. disk' = disk \ PathsOf(S) /\ abandoned' = abandoned /\ unclaimed' = unclaimed
      BY <1>1
    <3>2. \A q \in disk : q # NoPath
      BY DEF Typed, NoPath
    <3> QED BY <3>1, <3>2
  <2>2. ASSUME NEW m \in Live, media[m].path = p PROVE media'[m].path = p
    <3>1. m \notin S
      BY <2>1, <2>2 DEF PathsOf
    <3> QED BY <1>2, <1>4, <2>2, <3>1
  <2>3. ASSUME NEW s \in At({"store", "remove"}), task[s].path = p
        PROVE  s \in At({"store", "remove"})' /\ task'[s].path = p
    BY <2>3 DEF At
  <2> QED BY <1>1, <2>1, <2>2, <2>3 DEF FilesHandled
<1> QED BY <1>1, <1>2, <1>4, <1>5, <1>7, <1>9, <1>10

\* Requests go on announcing, or have announced, or never will.
LEMMA TalkMoves ==
    ASSUME Typed, TasksSound, ToldSound, AllAccounted,
           nextId' = nextId,
           \A r \in Announcing' :
               \/ task'[r].message = None
               \/ r \in Announcing /\ task'[r].message = task[r].message,
           \A r \in Announcing :
               \/ /\ r \in Announcing' /\ task'[r].message = task[r].message
                  /\ task[r].removed \subseteq task'[r].removed
               \/ /\ \/ task[r].message \in forgotten' \cup {None}
                     \/ told'[task[r].message] = 1
                  /\ task[r].removed \subseteq toldGone' \cup forgotten',
           \A m \in 1 .. MaxSent :
               \/ told'[m] = told[m]
               \/ /\ told'[m] = 1 /\ m < nextId
                  /\ \A r \in Announcing' : task'[r].message # m,
           toldGone \subseteq toldGone', forgotten \subseteq forgotten',
           \A m \in Live \ Live' :
               m \in forgotten' \/ \E r \in Announcing' : m \in task'[r].removed
    PROVE  ToldSound' /\ AllAccounted'
<1>1. ToldSound'
  <2>1. \A m \in 1 .. MaxSent : told'[m] \in {0, 1} /\ (told'[m] = 1 => m < nextId')
    BY DEF ToldSound
  <2>2. ASSUME NEW s \in Announcing', task'[s].message # None PROVE told'[task'[s].message] = 0
    <3>1. s \in Announcing /\ task'[s].message = task[s].message /\ told[task[s].message] = 0
      BY <2>2 DEF ToldSound
    <3>2. task[s].message \in 1 .. MaxSent
      <4>1. s \in Slots /\ task[s].message \in Nat /\ task[s].message < nextId /\ task[s].message # 0
        BY <2>2, <3>1 DEF Announcing, At, Typed, Task, TasksSound, None, Log!None
      <4> QED BY <4>1, BoundsAssumption DEF Typed
    <3> QED BY <3>1, <3>2
  <2>3. ASSUME NEW s \in Announcing', NEW r \in Announcing', task'[s].message = task'[r].message
        PROVE  s = r \/ task'[s].message = None
    BY <2>3 DEF ToldSound
  <2> QED BY <2>1, <2>2, <2>3 DEF ToldSound
<1>2. AllAccounted'
  <2> SUFFICES ASSUME NEW m \in 1 .. (nextId - 1)
               PROVE  /\ \/ told'[m] = 1 \/ m \in forgotten'
                         \/ \E s \in Announcing' : task'[s].message = m
                      /\ \/ m \in Live' \/ m \in toldGone' \/ m \in forgotten'
                         \/ \E s \in Announcing' : m \in task'[s].removed
    BY DEF AllAccounted
  <2>1. m \in 1 .. MaxSent /\ m # None
    BY BoundsAssumption DEF Typed, None, Log!None
  <2>2. /\ told[m] = 1 \/ m \in forgotten \/ \E s \in Announcing : task[s].message = m
        /\ m \in Live \/ m \in toldGone \/ m \in forgotten
              \/ \E s \in Announcing : m \in task[s].removed
    BY DEF AllAccounted
  <2>3. told[m] = 1 => told'[m] = 1
    BY <2>1
  <2> QED BY <2>1, <2>2, <2>3
<1> QED BY <1>1, <1>2

\* A new message is with the request that has stored it.
LEMMA TalkStores ==
    ASSUME Typed, TasksSound, LogTyped, ToldSound, AllAccounted, SpokenSound,
           NEW s \in Slots, task[s].pc \notin {"speak", "publish"},
           task'[s].pc \in {"speak", "publish"},
           task'[s].message = nextId, task'[s].removed = Live \ Live',
           \A r \in Slots : r # s => task'[r] = task[r],
           nextId' = nextId + 1, nextId <= MaxSent, nextId \in Live',
           Live' \subseteq Live \cup {nextId},
           told' = told, toldGone' = toldGone, forgotten' = forgotten, spoken' = spoken
    PROVE  ToldSound' /\ AllAccounted' /\ SpokenSound'
<1>1. nextId \in Nat /\ nextId \in 1 .. MaxSent /\ nextId > 0
  BY BoundsAssumption DEF Typed
<1>2. \A r : r \in Announcing' <=> r = s \/ r \in Announcing
  BY DEF Announcing, At
<1>3. \A r : r \in At({"speak"})' => r = s \/ r \in At({"speak"})
  BY DEF At
<1>4. s \notin Announcing /\ s \notin At({"speak"})
  BY DEF Announcing, At
<1>5. \A r \in Announcing : task'[r] = task[r] /\ task[r].message < nextId /\ task[r].message \in Nat
  BY <1>4 DEF Announcing, At, TasksSound, Typed, Task
<1>6. \A r \in At({"speak"}) : r \in Announcing
  BY DEF At, Announcing
<1>7. told[nextId] = 0 /\ \A d \in Devices : spoken[nextId][d] = 0
  <2>1. told[nextId] # 1 /\ told[nextId] \in {0, 1}
    BY <1>1 DEF ToldSound
  <2>2. \A d \in Devices : spoken[nextId][d] # 1 /\ spoken[nextId][d] \in {0, 1}
    BY <1>1 DEF SpokenSound
  <2> QED BY <2>1, <2>2
<1>8. ToldSound'
  <2>1. \A m \in 1 .. MaxSent : told'[m] \in {0, 1} /\ (told'[m] = 1 => m < nextId')
    BY <1>1 DEF ToldSound
  <2>2. ASSUME NEW r \in Announcing', task'[r].message # None PROVE told'[task'[r].message] = 0
    BY <1>2, <1>5, <1>7, <2>2 DEF ToldSound
  <2>3. ASSUME NEW q \in Announcing', NEW r \in Announcing', task'[q].message = task'[r].message
        PROVE  q = r \/ task'[q].message = None
    <3>1. CASE q = s \/ r = s
      BY <1>1, <1>2, <1>5, <2>3, <3>1
    <3>2. CASE q # s /\ r # s
      BY <1>2, <1>5, <2>3, <3>2 DEF ToldSound
    <3> QED BY <3>1, <3>2
  <2> QED BY <2>1, <2>2, <2>3 DEF ToldSound
<1>9. AllAccounted'
  <2> SUFFICES ASSUME NEW m \in 1 .. nextId
               PROVE  /\ \/ told[m] = 1 \/ m \in forgotten
                         \/ \E r \in Announcing' : task'[r].message = m
                      /\ \/ m \in Live' \/ m \in toldGone \/ m \in forgotten
                         \/ \E r \in Announcing' : m \in task'[r].removed
    <3>1. nextId' - 1 = nextId
      BY <1>1
    <3> QED BY <3>1 DEF AllAccounted
  <2>1. CASE m = nextId
    BY <1>2, <2>1
  <2>2. CASE m # nextId
    <3>1. m \in 1 .. (nextId - 1)
      BY <1>1, <2>2
    <3>2. /\ told[m] = 1 \/ m \in forgotten \/ \E r \in Announcing : task[r].message = m
          /\ m \in Live \/ m \in toldGone \/ m \in forgotten
                \/ \E r \in Announcing : m \in task[r].removed
      BY <3>1 DEF AllAccounted
    <3> QED BY <1>2, <1>5, <3>2
  <2> QED BY <2>1, <2>2
<1>10. SpokenSound'
  <2>1. \A m \in 1 .. MaxSent, d \in Devices :
           spoken'[m][d] \in {0, 1} /\ (spoken'[m][d] = 1 => m < nextId')
    BY <1>1 DEF SpokenSound
  <2>2. \A r \in At({"speak"})', d \in Devices : spoken'[task'[r].message][d] = 0
    BY <1>3, <1>5, <1>6, <1>7 DEF SpokenSound
  <2> QED BY <2>1, <2>2 DEF SpokenSound
<1> QED BY <1>8, <1>9, <1>10

\* Nothing is said, and nobody comes to say something.
LEMMA SpokenKept ==
    ASSUME SpokenSound, spoken' = spoken, nextId' = nextId,
           \A s \in Slots : task'[s].pc = "speak" =>
               task[s].pc = "speak" /\ task'[s].message = task[s].message
    PROVE  SpokenSound'
<1>1. \A s \in At({"speak"})' : s \in At({"speak"}) /\ task'[s].message = task[s].message
  BY DEF At
<1> QED BY <1>1 DEF SpokenSound

-----------------------------------------------------------------------------
(* Each action preserves the invariant.  First the transactions.           *)

LEMMA ListenerSlot == Listener \in Slots /\ Requests \subseteq Slots
BY DEF Listener, Slots

LEMMA LiveNumbers ==
    ASSUME LogTyped, NEW S \in SUBSET Live
    PROVE  /\ S \in SUBSET Nat
           /\ S \subseteq 1 .. (nextId - 1)
           /\ nextId' = nextId + 1 => S \subseteq 1 .. (nextId' - 1)
<1>1. nextId \in Nat /\ \A m \in S : m \in 1 .. (nextId - 1)
  BY LogTypes
<1> QED BY <1>1

LEMMA SendCommitPreserves ==
    ASSUME IInv, LogTyped, LogTyped', NEW u \in Senders, NEW c \in SendIds, SendCommit(u, c)
    PROVE  IInv'
<1>1. PICK v : v = [Idle EXCEPT !.pc = "speak", !.user = u, !.client = c,
                                !.message = nextId, !.removed = Live \ DOMAIN messages']
  OBVIOUS
<1>2. /\ Log!AddMessage(u, c, "text") /\ FilesFollow(NoPath)
      /\ task[Listener].pc = "idle" /\ task' = [task EXCEPT ![Listener] = v]
      /\ UNCHANGED <<told, toldGone, spoken, forgotten, faults>>
  BY <1>1 DEF SendCommit, eventVars
<1>3. /\ nextId' = nextId + 1 /\ nextId <= MaxSent
      /\ Live' \subseteq Live \cup {nextId}
      /\ nextId \in Live' /\ Live' = DOMAIN messages'
  BY <1>2, AddShape
<1>4. nextId \in Nat \ {0} /\ Live \subseteq 1 .. (nextId - 1) /\ nextId' \in 1 .. (MaxSent + 1)
  BY <1>3, LogTypes, BoundsAssumption DEF Typed
<1>5. u \in Users /\ c \in ClientIds \cup {NoClient}
  BY IdsAssumption, DevicesAssumption
<1>6. /\ v \in Task /\ v.pc = "speak" /\ v.message = nextId /\ v.removed = Live \ Live'
      /\ v.path = NoPath
  <2>1. Live \ Live' \in SUBSET Nat
    BY LiveNumbers
  <2> QED BY <1>1, <1>3, <1>4, <1>5, <2>1 DEF Task, Idle, NoPath
<1>7. \A r \in Slots : r # Listener => task'[r] = task[r]
  BY <1>2 DEF IInv, Typed
<1>8. task'[Listener] = v /\ Listener \in Slots
  BY <1>2, ListenerSlot DEF IInv, Typed
<1>9. /\ media' \in [1 .. MaxSent -> Media]
      /\ \A m \in Live' \cap Live : media'[m] = media[m]
      /\ disk' \subseteq disk
      /\ nextPath' = nextPath /\ abandoned' = abandoned /\ unclaimed' = unclaimed
      /\ rolledBack' = rolledBack
      /\ served' = served
  BY <1>2, <1>3, <1>4, FollowShape DEF IInv, NoPath
<1>10. Typed'
  <2>1. task' \in [Slots -> Task]
    BY <1>2, <1>6, <1>8 DEF IInv, Typed
  <2>2. toldGone' \cup forgotten' \subseteq 1 .. (nextId' - 1)
    BY <1>2, <1>3, <1>4 DEF IInv, Typed
  <2> QED BY <1>2, <1>4, <1>9, <2>1, <2>2 DEF IInv, Typed
<1>11. TasksSound'
  <2>1. ASSUME NEW r \in Slots
        PROVE  /\ task'[r].path < nextPath' /\ task'[r].message < nextId'
               /\ task'[r].removed \subseteq 1 .. (nextId' - 1)
               /\ task'[r].pc \in {"store", "consume", "remove"} => task'[r].path # NoPath
               /\ task'[r].pc \in {"speak", "consume", "remove"} => task'[r].message # None
               /\ task'[r].pc \notin {"speak", "publish"} => task'[r].removed = {}
    <3>1. CASE r = Listener
      <4>1. NoPath < nextPath /\ None = 0
        BY DEF IInv, Typed, NoPath, None, Log!None
      <4>2. Live \ Live' \subseteq 1 .. (nextId' - 1)
        BY <1>3, LiveNumbers
      <4> QED BY <1>3, <1>4, <1>6, <1>8, <1>9, <3>1, <4>1, <4>2
    <3>2. CASE r # Listener
      <4>1. task[r].message \in Nat
        BY DEF IInv, Typed, Task
      <4> QED BY <1>3, <1>4, <1>7, <1>9, <3>2, <4>1 DEF IInv, TasksSound
    <3> QED BY <3>1, <3>2
  <2> QED BY <2>1 DEF TasksSound
<1>12. MediaSound' /\ FilesOwned' /\ FilesHandled'
  <2>1. \A r \in Slots : task'[r].pc \in {"store", "consume", "remove"} => task'[r] = task[r]
    BY <1>6, <1>7, <1>8
  <2>2. \A r \in Slots : task[r].pc \in {"store", "remove"} => task'[r] = task[r]
    BY <1>2, <1>7
  <2> QED BY <1>2, <1>3, <1>4, <2>1, <2>2, FilesFollowed DEF IInv, NoPath
<1>13. ServedSound'
  <2>1. \A r \in Slots : task'[r].pc = "remove" => task'[r] = task[r]
    BY <1>6, <1>7, <1>8
  <2> QED BY <1>3, <1>4, <1>9, <2>1, ServedKept DEF IInv
<1>14. ToldSound' /\ AllAccounted' /\ SpokenSound'
  BY <1>2, <1>3, <1>6, <1>7, <1>8, TalkStores DEF IInv
<1> QED BY <1>10, <1>11, <1>12, <1>13, <1>14 DEF IInv

LEMMA StoreUploadPreserves ==
    ASSUME IInv, LogTyped, LogTyped', NEW s \in Slots, StoreUpload(s)
    PROVE  IInv'
<1>1. PICK t \in Task : t = task[s]
  BY DEF IInv, Typed
<1>2. PICK pc : pc = IF t.kind = "audio" THEN "speak" ELSE "publish"
  OBVIOUS
<1>21. PICK v : v = [t EXCEPT !.pc = pc, !.message = nextId, !.path = NoPath,
                             !.removed = Live \ DOMAIN messages']
  OBVIOUS
<1>3. /\ Log!AddMessage(t.user, t.client, t.kind) /\ FilesFollow(t.path)
      /\ t.pc = "store" /\ task' = [task EXCEPT ![s] = v]
      /\ UNCHANGED <<told, toldGone, spoken, forgotten, faults>>
  <2>1. task' = [task EXCEPT ![s].pc = pc, ![s].message = nextId,
                             ![s].path = NoPath, ![s].removed = Live \ DOMAIN messages']
    BY <1>1, <1>2 DEF StoreUpload
  <2>2. task' = [task EXCEPT ![s] = v]
    BY <1>1, <1>21, <2>1 DEF IInv, Typed, Task
  <2> QED BY <1>1, <2>2 DEF StoreUpload, eventVars
<1>4. /\ nextId' = nextId + 1 /\ nextId <= MaxSent
      /\ Live' \subseteq Live \cup {nextId}
      /\ nextId \in Live' /\ Live' = DOMAIN messages'
  BY <1>3, AddShape
<1>5. nextId \in Nat \ {0} /\ Live \subseteq 1 .. (nextId - 1) /\ nextId' \in 1 .. (MaxSent + 1)
  BY <1>4, LogTypes, BoundsAssumption DEF Typed
<1>6. /\ v \in Task /\ v.pc \in {"speak", "publish"}
      /\ v.message = nextId /\ v.removed = Live \ Live' /\ v.path = NoPath
  <2>1. Live \ Live' \in SUBSET Nat
    BY LiveNumbers
  <2>2. pc \in {"speak", "publish"}
    BY <1>2
  <2> QED BY <1>21, <1>4, <1>5, <2>1, <2>2 DEF Task, NoPath
<1>7. \A r \in Slots : r # s => task'[r] = task[r]
  BY <1>3 DEF IInv, Typed
<1>8. task'[s] = v
  BY <1>3 DEF IInv, Typed
<1>9. t.path \in Nat
  BY DEF Task
<1>10. /\ media' \in [1 .. MaxSent -> Media]
       /\ \A m \in Live' \cap Live : media'[m] = media[m]
       /\ disk' \subseteq disk
       /\ nextPath' = nextPath /\ abandoned' = abandoned /\ unclaimed' = unclaimed
      /\ rolledBack' = rolledBack
       /\ served' = served
  BY <1>3, <1>4, <1>5, <1>9, FollowShape DEF IInv
<1>11. Typed'
  <2>1. task' \in [Slots -> Task]
    BY <1>3, <1>6 DEF IInv, Typed
  <2>2. toldGone' \cup forgotten' \subseteq 1 .. (nextId' - 1)
    BY <1>3, <1>4, <1>5 DEF IInv, Typed
  <2> QED BY <1>3, <1>5, <1>10, <2>1, <2>2 DEF IInv, Typed
<1>12. TasksSound'
  <2>1. ASSUME NEW r \in Slots
        PROVE  /\ task'[r].path < nextPath' /\ task'[r].message < nextId'
               /\ task'[r].removed \subseteq 1 .. (nextId' - 1)
               /\ task'[r].pc \in {"store", "consume", "remove"} => task'[r].path # NoPath
               /\ task'[r].pc \in {"speak", "consume", "remove"} => task'[r].message # None
               /\ task'[r].pc \notin {"speak", "publish"} => task'[r].removed = {}
    <3>1. CASE r = s
      <4>1. NoPath < nextPath /\ None = 0
        BY DEF IInv, Typed, NoPath, None, Log!None
      <4>2. Live \ Live' \subseteq 1 .. (nextId' - 1)
        BY <1>4, LiveNumbers
      <4> QED BY <1>4, <1>5, <1>6, <1>8, <1>10, <3>1, <4>1, <4>2
    <3>2. CASE r # s
      <4>1. task[r].message \in Nat
        BY DEF IInv, Typed, Task
      <4> QED BY <1>4, <1>5, <1>7, <1>10, <3>2, <4>1 DEF IInv, TasksSound
    <3> QED BY <3>1, <3>2
  <2> QED BY <2>1 DEF TasksSound
<1>13. MediaSound' /\ FilesOwned' /\ FilesHandled'
  <2>1. \A r \in Slots : task'[r].pc \in {"store", "consume", "remove"} => task'[r] = task[r]
    BY <1>6, <1>7, <1>8
  <2>2. \A r \in Slots : task[r].pc \in {"store", "remove"} =>
            task'[r] = task[r] \/ (task[r].path = t.path /\ nextId \in Live')
    BY <1>1, <1>4, <1>7
  <2>3. \E g \in Slots : /\ task[g].pc = "store" /\ task[g].path = t.path
                         /\ task'[g].pc \notin {"store", "consume", "remove"}
    BY <1>1, <1>3, <1>6, <1>8
  <2> QED BY <1>3, <1>4, <1>5, <1>9, <2>1, <2>2, <2>3, FilesFollowed DEF IInv
<1>14. ServedSound'
  <2>1. \A r \in Slots : task'[r].pc = "remove" => task'[r] = task[r]
    BY <1>6, <1>7, <1>8
  <2> QED BY <1>4, <1>5, <1>10, <2>1, ServedKept DEF IInv
<1>15. ToldSound' /\ AllAccounted' /\ SpokenSound'
  BY <1>1, <1>3, <1>4, <1>6, <1>7, <1>8, TalkStores DEF IInv
<1> QED BY <1>11, <1>12, <1>13, <1>14, <1>15 DEF IInv

\* One request moves, to a place whose needs it meets.
SoundTask(v) ==
    /\ v \in Task
    /\ v.path < nextPath /\ v.message < nextId
    /\ v.removed \subseteq 1 .. (nextId - 1)
    /\ v.pc \in {"store", "consume", "remove"} => v.path # NoPath
    /\ v.pc \in {"speak", "consume", "remove"} => v.message # None
    /\ v.pc \notin {"speak", "publish"} => v.removed = {}

LEMMA OneTaskMoves ==
    ASSUME Typed, TasksSound, NEW s \in Slots, NEW v, SoundTask(v),
           task' = [task EXCEPT ![s] = v], nextId' = nextId, nextPath' = nextPath
    PROVE  /\ task' \in [Slots -> Task] /\ TasksSound'
           /\ task'[s] = v /\ \A r \in Slots : r # s => task'[r] = task[r]
<1>1. task' \in [Slots -> Task] /\ task'[s] = v /\ \A r \in Slots : r # s => task'[r] = task[r]
  BY DEF Typed, SoundTask
<1>2. ASSUME NEW r \in Slots
      PROVE  /\ task'[r].path < nextPath' /\ task'[r].message < nextId'
             /\ task'[r].removed \subseteq 1 .. (nextId' - 1)
             /\ task'[r].pc \in {"store", "consume", "remove"} => task'[r].path # NoPath
             /\ task'[r].pc \in {"speak", "consume", "remove"} => task'[r].message # None
             /\ task'[r].pc \notin {"speak", "publish"} => task'[r].removed = {}
  <2>1. CASE r = s
    BY <1>1, <2>1 DEF SoundTask
  <2>2. CASE r # s
    BY <1>1, <2>2 DEF TasksSound
  <2> QED BY <2>1, <2>2
<1> QED BY <1>1, <1>2 DEF TasksSound

LEMMA IdleSound ==
    ASSUME Typed PROVE SoundTask(Idle) /\ Idle.pc = "idle"
BY DEF SoundTask, Idle, Task, Typed, NoPath, None, Log!None

LEMMA NoLogStep ==
    ASSUME UNCHANGED logVars
    PROVE  nextId' = nextId /\ Live' = Live /\ Members' = Members
BY DEF logVars, Live, Members, Log!Live, Log!Members

LEMMA DeleteMessagesPreserves ==
    ASSUME IInv, LogTyped, LogTyped', NEW s \in Requests, NEW u \in Senders,
           NEW S \in SUBSET Live, DeleteMessages(s, u, S)
    PROVE  IInv'
<1>1. PICK v : v = [Idle EXCEPT !.pc = "publish", !.removed = S]
  OBVIOUS
<1>2. /\ FilesFollow(NoPath) /\ s \in Slots
      /\ task[s].pc = "idle" /\ task' = [task EXCEPT ![s] = v]
      /\ UNCHANGED <<told, toldGone, spoken, forgotten, faults>>
  BY <1>1, ListenerSlot DEF DeleteMessages, Begins, eventVars
<1>3. /\ nextId' = nextId /\ Live' = Live \ S /\ Live' = DOMAIN messages'
  BY RemoveShape DEF DeleteMessages
<1>4. nextId' \in 1 .. (MaxSent + 1)
  BY <1>3 DEF IInv, Typed
<1>5. /\ SoundTask(v) /\ v.pc = "publish" /\ v.message = None /\ v.removed = S
  <2>1. S \subseteq Nat /\ S \subseteq 1 .. (nextId - 1)
    BY LiveNumbers
  <2>2. v = [pc |-> "publish", user |-> SystemSender, client |-> NoClient,
             kind |-> "text", message |-> None, path |-> NoPath, removed |-> S]
    BY <1>1 DEF Idle
  <2>3. None = 0 /\ NoPath = 0 /\ 0 < nextId /\ 0 < nextPath
    BY DEF IInv, Typed, None, Log!None, NoPath
  <2> QED BY <2>1, <2>2, <2>3 DEF SoundTask, Task
<1>6. /\ media' \in [1 .. MaxSent -> Media]
      /\ \A m \in Live' \cap Live : media'[m] = media[m]
      /\ disk' \subseteq disk
      /\ nextPath' = nextPath /\ abandoned' = abandoned /\ unclaimed' = unclaimed
      /\ rolledBack' = rolledBack
      /\ served' = served
  BY <1>2, <1>3, <1>4, FollowShape DEF IInv, NoPath
<1>7. /\ task' \in [Slots -> Task] /\ TasksSound'
      /\ task'[s] = v /\ \A r \in Slots : r # s => task'[r] = task[r]
  BY <1>2, <1>3, <1>5, <1>6, OneTaskMoves DEF IInv
<1>8. Typed'
  BY <1>2, <1>3, <1>6, <1>7 DEF IInv, Typed
<1>9. MediaSound' /\ FilesOwned' /\ FilesHandled'
  <2>1. \A r \in Slots : task'[r].pc \in {"store", "consume", "remove"} => task'[r] = task[r]
    BY <1>5, <1>7
  <2>2. \A r \in Slots : task[r].pc \in {"store", "remove"} => task'[r] = task[r]
    BY <1>2, <1>7
  <2> QED BY <1>2, <1>3, <1>4, <2>1, <2>2, FilesFollowed DEF IInv, NoPath
<1>10. ServedSound'
  <2>1. \A r \in Slots : task'[r].pc = "remove" => task'[r] = task[r]
    BY <1>5, <1>7
  <2>2. nextId' \in Nat /\ nextId <= nextId'
    BY <1>3, LogTypes
  <2> QED BY <1>3, <1>6, <2>1, <2>2, ServedKept DEF IInv
<1>11. ToldSound' /\ AllAccounted'
  <2>1. \A r : r \in Announcing' <=> r = s \/ r \in Announcing
    BY <1>2, <1>5, <1>7 DEF Announcing, At
  <2>2. s \notin Announcing /\ \A r \in Announcing : r \in Slots
    BY <1>2 DEF Announcing, At
  <2>3. \A r \in Announcing : r \in Announcing' /\ task'[r] = task[r]
    BY <1>7, <2>1, <2>2
  <2>4. \A r \in Announcing' :
           task'[r].message = None \/ (r \in Announcing /\ task'[r].message = task[r].message)
    BY <1>5, <1>7, <2>1, <2>3
  <2>5. \A m \in Live \ Live' : \E r \in Announcing' : m \in task'[r].removed
    BY <1>3, <1>5, <1>7, <2>1
  <2> QED BY <1>2, <1>3, <2>3, <2>4, <2>5, TalkMoves DEF IInv
<1>12. SpokenSound'
  <2>1. \A r \in Slots : task'[r].pc = "speak" =>
            task[r].pc = "speak" /\ task'[r].message = task[r].message
    BY <1>5, <1>7
  <2> QED BY <1>2, <1>3, <2>1, SpokenKept DEF IInv
<1> QED BY <1>7, <1>8, <1>9, <1>10, <1>11, <1>12 DEF IInv

LEMMA DeleteConversationPreserves ==
    ASSUME IInv, LogTyped, LogTyped', NEW u \in Senders, DeleteConversation(u)
    PROVE  IInv'
<1>1. /\ FilesFollow(NoPath) /\ forgotten' = forgotten \cup Live
      /\ UNCHANGED <<told, toldGone, spoken, task, faults>>
  BY DEF DeleteConversation
<1>2. nextId' = nextId /\ Live' = {} /\ Live' = DOMAIN messages'
  BY RemoveShape DEF DeleteConversation
<1>3. nextId' \in 1 .. (MaxSent + 1)
  BY <1>2 DEF IInv, Typed
<1>4. /\ media' \in [1 .. MaxSent -> Media]
      /\ disk' \subseteq disk
      /\ nextPath' = nextPath /\ abandoned' = abandoned /\ unclaimed' = unclaimed
      /\ rolledBack' = rolledBack
      /\ served' = served
  BY <1>1, <1>2, <1>3, FollowShape DEF IInv, NoPath
<1>5. Typed'
  <2>1. Live \subseteq 1 .. (nextId - 1)
    BY LiveNumbers
  <2> QED BY <1>1, <1>2, <1>4, <2>1 DEF IInv, Typed
<1>6. TasksSound'
  BY <1>1, <1>2, <1>4 DEF IInv, TasksSound
<1>7. MediaSound' /\ FilesOwned' /\ FilesHandled'
  BY <1>1, <1>2, <1>3, FilesFollowed DEF IInv, NoPath
<1>8. ServedSound'
  <2>1. nextId' \in Nat /\ nextId <= nextId'
    BY <1>2, LogTypes
  <2> QED BY <1>1, <1>2, <1>4, <2>1, ServedKept DEF IInv
<1>9. ToldSound' /\ AllAccounted'
  <2>1. \A r : r \in Announcing' <=> r \in Announcing
    BY <1>1 DEF Announcing, At
  <2> QED BY <1>1, <1>2, <2>1, TalkMoves DEF IInv
<1>10. SpokenSound'
  BY <1>1, <1>2, SpokenKept DEF IInv
<1> QED BY <1>5, <1>6, <1>7, <1>8, <1>9, <1>10 DEF IInv

\* Membership alone changes.
LEMMA CreatePreserves ==
    ASSUME IInv, CreateDirectConversation
    PROVE  IInv'
<1>1. /\ UNCHANGED <<media, disk, nextPath, served, abandoned, unclaimed, rolledBack, told, toldGone, spoken,
                     forgotten, task, faults>>
      /\ nextId' = nextId /\ Live' = Live
  BY RemoveShape DEF CreateDirectConversation, fileVars, eventVars, Log!CreateDirectConversation,
     Live, Log!Live
<1>2. \A pcs : At(pcs)' = At(pcs)
  BY <1>1 DEF At
<1>3. Announcing' = Announcing
  BY <1>1 DEF Announcing, At
<1>4. Typed' /\ TasksSound' /\ MediaSound'
  BY <1>1 DEF IInv, Typed, TasksSound, MediaSound
<1>5. FilesOwned' /\ FilesHandled'
  BY <1>1, <1>2 DEF IInv, FilesOwned, FilesHandled
<1>6. ServedSound' /\ ToldSound' /\ AllAccounted' /\ SpokenSound'
  BY <1>1, <1>2, <1>3 DEF IInv, ServedSound, ToldSound, AllAccounted, SpokenSound
<1> QED BY <1>4, <1>5, <1>6 DEF IInv

LEMMA StutterPreserves ==
    ASSUME IInv, UNCHANGED vars
    PROVE  IInv'
<1>1. /\ UNCHANGED <<media, disk, nextPath, served, abandoned, unclaimed, rolledBack, told, toldGone, spoken,
                     forgotten, task, faults>>
      /\ nextId' = nextId /\ Live' = Live
  BY NoLogStep DEF vars, fileVars, eventVars
<1>2. \A pcs : At(pcs)' = At(pcs)
  BY <1>1 DEF At
<1>3. Announcing' = Announcing
  BY <1>1 DEF Announcing, At
<1>4. Typed' /\ TasksSound' /\ MediaSound'
  BY <1>1 DEF IInv, Typed, TasksSound, MediaSound
<1>5. FilesOwned' /\ FilesHandled'
  BY <1>1, <1>2 DEF IInv, FilesOwned, FilesHandled
<1>6. ServedSound' /\ ToldSound' /\ AllAccounted' /\ SpokenSound'
  BY <1>1, <1>2, <1>3 DEF IInv, ServedSound, ToldSound, AllAccounted, SpokenSound
<1> QED BY <1>4, <1>5, <1>6 DEF IInv

-----------------------------------------------------------------------------
(* Transactions that fail.                                                 *)

LEMMA RollBackFiles ==
    ASSUME IInv, NEW S \in SUBSET Live, NEW held, RollBack(PathsOf(S), held),
           UNCHANGED <<media, nextPath, abandoned, unclaimed>>,
           \A r \in Slots :
               /\ task'[r].pc \in {"store", "consume", "remove"} => task'[r] = task[r]
               /\ task[r].pc \in {"store", "remove"} => task'[r] = task[r] \/ held = {task[r].path},
           \/ held = {}
           \/ \E g \in Slots : /\ task[g].pc = "store" /\ held = {task[g].path}
                               /\ task'[g].pc \notin {"store", "consume", "remove"}
    PROVE  /\ MediaSound' /\ FilesOwned' /\ FilesHandled'
           /\ disk' \cup rolledBack' \subseteq disk \cup rolledBack
           /\ faults' \in 0 .. MaxFaults
           /\ nextId' = nextId /\ Live' = Live
<1>1. /\ disk' = disk \ (PathsOf(S) \cup held)
      /\ rolledBack' = rolledBack \cup (PathsOf(S) \cap disk)
      /\ nextId' = nextId /\ Live' = Live
  BY NoLogStep DEF RollBack
<1>2. faults' \in 0 .. MaxFaults
  BY BoundsAssumption DEF RollBack, Fault, IInv, Typed
<1>3. \A r \in Slots : task[r].pc = "store" =>
          task[r].path \notin PathsOf(S) /\ \A m \in Live : media[m].path # task[r].path
  <2>1. ASSUME NEW r \in Slots, task[r].pc = "store"
        PROVE  \A m \in Live : media[m].path # task[r].path
    <3>1. r \in At({"store", "remove"})
      BY <2>1 DEF At
    <3> QED BY <3>1 DEF IInv, FilesOwned
  <2> QED BY <2>1 DEF PathsOf
<1>4. ASSUME NEW m \in Live, media[m].path \in disk PROVE media[m].path \in disk' \cup rolledBack'
  <2>1. media[m].path \notin held
    BY <1>3
  <2> QED BY <1>1, <1>4, <2>1
<1>5. ASSUME NEW r \in Slots, task'[r].pc = "store", task[r].path \in disk PROVE task[r].path \in disk'
  <2>1. task'[r] = task[r] /\ task[r].pc = "store"
    BY <1>5
  <2>2. task[r].path \notin held
    <3>1. ASSUME NEW g \in Slots, task[g].pc = "store", task[g].path = task[r].path PROVE g = r
      <4>1. g \in At({"store"}) /\ r \in At({"store", "consume", "remove"})
        BY <2>1, <3>1 DEF At
      <4> QED BY <3>1, <4>1 DEF IInv, FilesOwned
    <3> QED BY <1>5, <3>1
  <2> QED BY <1>1, <1>3, <1>5, <2>1, <2>2
<1>6. \A r \in Slots : task[r].pc \in {"store", "remove"} =>
          task'[r] = task[r] \/ task[r].path \notin disk' \ (abandoned' \cup unclaimed')
  BY <1>1
<1>7. MediaSound' /\ FilesOwned' /\ FilesHandled'
  BY <1>1, <1>4, <1>5, <1>6, FilesKept DEF IInv
<1> QED BY <1>1, <1>2, <1>7

\* No request moves: a send, the cleanup or a deletion fails.
LEMMA TrimmedAreStored ==
    ASSUME LogTyped
    PROVE  Log!TrimOnce(Live \cup {nextId}) \in SUBSET Live
<1>1. Log!TrimOnce(Live \cup {nextId}) \subseteq Live \cup {nextId}
  BY DEF Log!TrimOnce, Log!Oldest
<1> QED BY <1>1, NewestSurvives

\* The files that go with a trim are those of stored messages.
LEMMA TrimmedFiles ==
    ASSUME LogTyped, NEW u, NEW c
    PROVE  \E S \in SUBSET Live : Trimmed(u, c) = PathsOf(S)
<1>1. CASE Log!Fresh(u, c)
  BY <1>1, TrimmedAreStored DEF Trimmed
<1>2. CASE ~ Log!Fresh(u, c)
  <2>1. PathsOf({}) = {} /\ {} \in SUBSET Live
    BY DEF PathsOf
  <2> QED BY <1>2, <2>1 DEF Trimmed
<1> QED BY <1>1, <1>2

LEMMA FailurePreserves ==
    ASSUME IInv, LogTyped, LogTyped',
           NEW S \in SUBSET Live, RollBack(PathsOf(S), {}),
           UNCHANGED <<media, nextPath, served, abandoned, unclaimed, eventVars, task>>
    PROVE  IInv'
<1>1. /\ MediaSound' /\ FilesOwned' /\ FilesHandled'
      /\ disk' \cup rolledBack' \subseteq disk \cup rolledBack
      /\ faults' \in 0 .. MaxFaults
      /\ nextId' = nextId /\ Live' = Live
  BY RollBackFiles
<1>2. UNCHANGED <<media, nextPath, served, abandoned, unclaimed, told, toldGone, spoken, forgotten, task>>
  BY DEF eventVars
<1>3. Typed'
  BY <1>1, <1>2 DEF IInv, Typed
<1>4. TasksSound'
  BY <1>1, <1>2 DEF IInv, TasksSound
<1>5. ServedSound'
  BY <1>1, <1>2, ServedKept, LogTypes DEF IInv
<1>6. ToldSound' /\ AllAccounted' /\ SpokenSound'
  BY <1>1, <1>2, TalkKept DEF IInv
<1> QED BY <1>1, <1>3, <1>4, <1>5, <1>6 DEF IInv

LEMMA UploadFailsPreserves ==
    ASSUME IInv, LogTyped, LogTyped', NEW s \in Slots, UploadFails(s)
    PROVE  IInv'
<1>0. PICK S \in SUBSET Live : Trimmed(task[s].user, task[s].client) = PathsOf(S)
  BY TrimmedFiles
<1>1. /\ task[s].pc = "store" /\ task' = [task EXCEPT ![s] = Idle]
      /\ RollBack(PathsOf(S), {task[s].path})
      /\ UNCHANGED <<media, nextPath, served, abandoned, unclaimed, told, toldGone, spoken, forgotten>>
  BY <1>0 DEF UploadFails, Stay, eventVars
<1>2. /\ task' \in [Slots -> Task] /\ TasksSound'
      /\ task'[s] = Idle /\ \A r \in Slots : r # s => task'[r] = task[r]
  <2>1. nextId' = nextId
    BY <1>1, NoLogStep DEF RollBack
  <2> QED BY <1>1, <2>1, OneTaskMoves, IdleSound DEF IInv
<1>3. /\ MediaSound' /\ FilesOwned' /\ FilesHandled'
      /\ disk' \cup rolledBack' \subseteq disk \cup rolledBack
      /\ faults' \in 0 .. MaxFaults
      /\ nextId' = nextId /\ Live' = Live
  <2>1. \A r \in Slots :
            /\ task'[r].pc \in {"store", "consume", "remove"} => task'[r] = task[r]
            /\ task[r].pc \in {"store", "remove"} =>
                  task'[r] = task[r] \/ {task[s].path} = {task[r].path}
    BY <1>2, IdleSound DEF IInv
  <2>2. \E g \in Slots : /\ task[g].pc = "store" /\ {task[s].path} = {task[g].path}
                         /\ task'[g].pc \notin {"store", "consume", "remove"}
    BY <1>1, <1>2, IdleSound DEF IInv
  <2> QED BY <1>1, <2>1, <2>2, RollBackFiles
<1>4. Typed'
  BY <1>1, <1>2, <1>3 DEF IInv, Typed
<1>5. ServedSound'
  <2>1. \A r \in Slots : task'[r].pc = "remove" => task'[r] = task[r]
    BY <1>2, IdleSound DEF IInv
  <2> QED BY <1>1, <1>3, <2>1, ServedKept, LogTypes DEF IInv
<1>6. ToldSound' /\ AllAccounted' /\ SpokenSound'
  <2>1. \A r \in Slots : /\ task'[r].pc \in {"speak", "publish"} => task'[r] = task[r]
                         /\ task[r].pc \in {"speak", "publish"} => task'[r] = task[r]
    BY <1>1, <1>2, IdleSound DEF IInv
  <2> QED BY <1>1, <1>3, <2>1, TalkKept DEF IInv
<1> QED BY <1>2, <1>3, <1>4, <1>5, <1>6 DEF IInv

-----------------------------------------------------------------------------
(* Uploads before the transaction.                                         *)

LEMMA WriteFilePreserves ==
    ASSUME IInv, LogTyped, LogTyped', NEW s \in Requests, NEW u \in Senders, NEW c \in UploadIds,
           NEW k \in MediaKinds, WriteFile(s, u, c, k)
    PROVE  IInv'
<1>1. PICK v : v = [Idle EXCEPT !.pc = "store", !.user = u, !.client = c, !.kind = k,
                                !.path = nextPath]
  OBVIOUS
<1>2. /\ s \in Slots /\ task[s].pc = "idle" /\ task' = [task EXCEPT ![s] = v]
      /\ nextPath <= MaxUploads /\ nextPath' = nextPath + 1 /\ disk' = disk \cup {nextPath}
      /\ UNCHANGED <<media, served, abandoned, unclaimed, rolledBack, told, toldGone, spoken, forgotten, faults>>
      /\ nextId' = nextId /\ Live' = Live
  BY <1>1, ListenerSlot, NoLogStep DEF WriteFile, Begins, eventVars
<1>3. nextPath \in Nat /\ nextPath > 0 /\ nextPath' \in 1 .. (MaxUploads + 1)
  BY <1>2, BoundsAssumption DEF IInv, Typed
<1>4. /\ v \in Task /\ v.pc = "store" /\ v.path = nextPath /\ v.message = None /\ v.removed = {}
  <2>1. u \in Users /\ c \in ClientIds \cup {NoClient}
    BY IdsAssumption, DevicesAssumption
  <2>2. v = [pc |-> "store", user |-> u, client |-> c, kind |-> k, message |-> None,
             path |-> nextPath, removed |-> {}]
    BY <1>1 DEF Idle
  <2> QED BY <1>3, <2>1, <2>2 DEF Task, None, Log!None
<1>5. /\ task' \in [Slots -> Task]
      /\ task'[s] = v /\ \A r \in Slots : r # s => task'[r] = task[r]
  BY <1>2, <1>4 DEF IInv, Typed
<1>6. Typed'
  <2>1. disk' \cup abandoned' \cup unclaimed' \cup rolledBack' \subseteq 1 .. (nextPath' - 1)
    BY <1>2, <1>3 DEF IInv, Typed
  <2> QED BY <1>2, <1>3, <1>5, <2>1 DEF IInv, Typed
<1>7. \A r \in Slots : task[r].path < nextPath /\ task[r].path \in Nat
  BY DEF IInv, Typed, Task, TasksSound
<1>8. TasksSound'
  <2>1. ASSUME NEW r \in Slots
        PROVE  /\ task'[r].path < nextPath' /\ task'[r].message < nextId'
               /\ task'[r].removed \subseteq 1 .. (nextId' - 1)
               /\ task'[r].pc \in {"store", "consume", "remove"} => task'[r].path # NoPath
               /\ task'[r].pc \in {"speak", "consume", "remove"} => task'[r].message # None
               /\ task'[r].pc \notin {"speak", "publish"} => task'[r].removed = {}
    <3>1. CASE r = s
      <4>1. NoPath = 0 /\ None = 0 /\ 0 < nextId
        BY DEF IInv, Typed, NoPath, None, Log!None
      <4> QED BY <1>2, <1>3, <1>4, <1>5, <3>1, <4>1
    <3>2. CASE r # s
      BY <1>2, <1>3, <1>5, <1>7, <3>2 DEF IInv, TasksSound
    <3> QED BY <3>1, <3>2
  <2> QED BY <2>1 DEF TasksSound
<1>9. \A m \in Live : media[m].path < nextPath /\ media[m].path \in Nat
  <2>1. Live \subseteq 1 .. MaxSent
    <3>1. nextId \in Nat /\ Live \subseteq 1 .. (nextId - 1)
      BY LogTypes
    <3> QED BY <3>1, BoundsAssumption DEF IInv, Typed
  <2> QED BY <2>1 DEF IInv, Typed, Media, MediaSound
<1>10. MediaSound'
  BY <1>2, <1>3, <1>9 DEF IInv, MediaSound
<1>11. /\ \A r : r \in At({"store"})' <=> r = s \/ r \in At({"store"})
       /\ \A r : r \in At({"store", "remove"})' <=> r = s \/ r \in At({"store", "remove"})
       /\ \A r : r \in At({"store", "consume", "remove"})' <=>
                     r = s \/ r \in At({"store", "consume", "remove"})
       /\ \A r : r \in At({"consume"})' <=> r \in At({"consume"})
  BY <1>2, <1>4, <1>5 DEF At
<1>12. \A pcs : \A r \in At(pcs) : r \in Slots
  BY DEF At
<1>13. s \notin At({"store", "consume", "remove"}) /\ s \notin At({"store"})
       /\ s \notin At({"consume"}) /\ s \notin At({"store", "remove"})
  BY <1>2 DEF At
<1>14. FilesOwned'
  <2>1. \A m \in Live : media[m].path \in disk' \cup rolledBack' \cup {NoPath}
    BY <1>2 DEF IInv, FilesOwned
  <2>2. \A r \in At({"store"})' : task'[r].path \in disk'
    BY <1>2, <1>4, <1>5, <1>11, <1>12, <1>13 DEF IInv, FilesOwned
  <2>3. \A r \in At({"store", "remove"})', m \in Live : media[m].path # task'[r].path
    <3>1. \A m \in Live : media[m].path # nextPath
      BY <1>3, <1>9
    <3> QED BY <1>4, <1>5, <1>11, <1>12, <1>13, <3>1 DEF IInv, FilesOwned
  <2>4. ASSUME NEW q \in At({"store"})', NEW r \in At({"store", "consume", "remove"})',
               task'[q].path = task'[r].path
        PROVE  q = r
    <3>1. \A x \in Slots : task[x].path # nextPath
      BY <1>3, <1>7
    <3>2. CASE q = s \/ r = s
      BY <1>4, <1>5, <1>11, <1>12, <2>4, <3>1, <3>2
    <3>3. CASE q # s /\ r # s
      BY <1>5, <1>11, <1>12, <2>4, <3>3 DEF IInv, FilesOwned
    <3> QED BY <3>2, <3>3
  <2>5. \A r \in At({"consume"})', m \in Live :
            /\ media[m].path = task'[r].path => m = task'[r].message
            /\ m = task'[r].message /\ ~media[m].consumed /\ ~media[m].expired
                  => media[m].path = task'[r].path
    BY <1>5, <1>11, <1>12, <1>13 DEF IInv, FilesOwned
  <2>6. \A m, n \in Live : media[m].path = media[n].path => m = n \/ media[m].path = NoPath
    BY DEF IInv, FilesOwned
  <2> QED BY <1>2, <2>1, <2>2, <2>3, <2>4, <2>5, <2>6 DEF FilesOwned
<1>15. FilesHandled'
  <2> SUFFICES ASSUME NEW p \in disk' \ (abandoned' \cup unclaimed')
               PROVE  \/ \E m \in Live' : media'[m].path = p
                      \/ \E r \in At({"store", "remove"})' : task'[r].path = p
    BY DEF FilesHandled
  <2>1. CASE p = nextPath
    BY <1>4, <1>5, <1>11, <2>1
  <2>2. CASE p # nextPath
    <3>1. p \in disk \ (abandoned \cup unclaimed)
      BY <1>2, <2>2
    <3> QED BY <1>2, <1>5, <1>11, <1>12, <1>13, <3>1 DEF IInv, FilesHandled
  <2> QED BY <2>1, <2>2
<1>16. ServedSound'
  <2>1. \A r \in Slots : task'[r].pc = "remove" => task'[r] = task[r]
    BY <1>4, <1>5
  <2> QED BY <1>2, <2>1, ServedKept, LogTypes DEF IInv
<1>17. ToldSound' /\ AllAccounted' /\ SpokenSound'
  <2>1. \A r \in Slots : /\ task'[r].pc \in {"speak", "publish"} => task'[r] = task[r]
                         /\ task[r].pc \in {"speak", "publish"} => task'[r] = task[r]
    BY <1>2, <1>4, <1>5
  <2> QED BY <1>2, <2>1, TalkKept DEF IInv
<1> QED BY <1>6, <1>8, <1>10, <1>14, <1>15, <1>16, <1>17 DEF IInv

\* An upload that stores nothing takes its file along or leaves it unclaimed.
LEMMA UploadEndsPreserves ==
    ASSUME IInv, LogTyped, LogTyped', NEW s \in Slots, UploadRefused(s) \/ UploadRepeated(s)
    PROVE  IInv'
<1>1. /\ task[s].pc = "store" /\ task' = [task EXCEPT ![s] = Idle]
      /\ \/ disk' = disk \ {task[s].path} /\ unclaimed' = unclaimed
         \/ disk' = disk /\ unclaimed' = unclaimed \cup {task[s].path}
      /\ UNCHANGED <<media, nextPath, served, abandoned, rolledBack, told, toldGone, spoken,
                     forgotten, faults>>
      /\ nextId' = nextId /\ Live' = Live
  BY NoLogStep DEF UploadRefused, UploadRepeated, Stay, eventVars
<1>2. /\ task' \in [Slots -> Task] /\ TasksSound'
      /\ task'[s] = Idle /\ \A r \in Slots : r # s => task'[r] = task[r]
  BY <1>1, OneTaskMoves, IdleSound DEF IInv
<1>3. Idle.pc = "idle"
  BY DEF Idle
<1>4. Typed'
  <2>1. task[s].path \in disk
    BY <1>1 DEF IInv, FilesOwned, At
  <2>2. disk' \cup abandoned' \cup unclaimed' \cup rolledBack' \subseteq 1 .. (nextPath' - 1)
    BY <1>1, <2>1 DEF IInv, Typed
  <2> QED BY <1>1, <1>2, <2>2 DEF IInv, Typed
<1>5. MediaSound' /\ FilesOwned' /\ FilesHandled'
  <2>1. s \in At({"store"}) /\ s \in At({"store", "remove"})
    BY <1>1 DEF At
  <2>2. \A m \in Live : media[m].path \in disk => media[m].path \in disk' \cup rolledBack'
    BY <1>1, <2>1 DEF IInv, FilesOwned
  <2>3. ASSUME NEW r \in Slots, task'[r].pc = "store", task[r].path \in disk PROVE task[r].path \in disk'
    <3>1. r # s /\ r \in At({"store", "consume", "remove"})
      BY <1>2, <1>3, <2>3 DEF At
    <3>2. task[r].path # task[s].path
      BY <2>1, <3>1 DEF IInv, FilesOwned
    <3> QED BY <1>1, <2>3, <3>2
  <2>4. \A r \in Slots :
            /\ task'[r].pc \in {"store", "consume", "remove"} => task'[r] = task[r]
            /\ task[r].pc \in {"store", "remove"} =>
                  task'[r] = task[r] \/ task[r].path \notin disk' \ (abandoned' \cup unclaimed')
    BY <1>1, <1>2, <1>3
  <2> QED BY <1>1, <2>2, <2>3, <2>4, FilesKept DEF IInv
<1>6. ServedSound'
  <2>1. \A r \in Slots : task'[r].pc = "remove" => task'[r] = task[r]
    BY <1>2, <1>3
  <2> QED BY <1>1, <2>1, ServedKept, LogTypes DEF IInv
<1>7. ToldSound' /\ AllAccounted' /\ SpokenSound'
  <2>1. \A r \in Slots : /\ task'[r].pc \in {"speak", "publish"} => task'[r] = task[r]
                         /\ task[r].pc \in {"speak", "publish"} => task'[r] = task[r]
    BY <1>1, <1>2, <1>3
  <2> QED BY <1>1, <2>1, TalkKept DEF IInv
<1> QED BY <1>2, <1>4, <1>5, <1>6, <1>7 DEF IInv

-----------------------------------------------------------------------------
(* After the commit.                                                       *)

\* A request that speaks or publishes has no file in its hands.
LEMMA TalkLeavesFiles ==
    ASSUME IInv, LogTyped, LogTyped', UNCHANGED logVars, UNCHANGED fileVars,
           NEW s \in Slots, task[s].pc \in {"speak", "publish"},
           NEW v, SoundTask(v), v.pc \in {"idle", "publish"}, task' = [task EXCEPT ![s] = v]
    PROVE  /\ task' \in [Slots -> Task] /\ TasksSound'
           /\ task'[s] = v /\ \A r \in Slots : r # s => task'[r] = task[r]
           /\ UNCHANGED <<media, disk, nextPath, served, abandoned, unclaimed, rolledBack>>
           /\ nextId' = nextId /\ Live' = Live
           /\ MediaSound' /\ FilesOwned' /\ FilesHandled' /\ ServedSound'
           /\ \A r \in Announcing : r # s => r \in Announcing' /\ task'[r] = task[r]
           /\ \A r \in Announcing' : r # s => r \in Announcing /\ task'[r] = task[r]
           /\ s \in Announcing
<1>1. /\ UNCHANGED <<media, disk, nextPath, served, abandoned, unclaimed, rolledBack>>
      /\ nextId' = nextId /\ Live' = Live
  BY NoLogStep DEF fileVars
<1>2. /\ task' \in [Slots -> Task] /\ TasksSound'
      /\ task'[s] = v /\ \A r \in Slots : r # s => task'[r] = task[r]
  BY <1>1, OneTaskMoves DEF IInv
<1>3. MediaSound' /\ FilesOwned' /\ FilesHandled'
  <2>1. \A r \in Slots :
            /\ task'[r].pc \in {"store", "consume", "remove"} => task'[r] = task[r]
            /\ task[r].pc \in {"store", "remove"} => task'[r] = task[r]
    BY <1>2
  <2> QED BY <1>1, <2>1, FilesKept DEF IInv
<1>4. ServedSound'
  <2>1. \A r \in Slots : task'[r].pc = "remove" => task'[r] = task[r]
    BY <1>2
  <2> QED BY <1>1, <2>1, ServedKept, LogTypes DEF IInv
<1>5. /\ \A r \in Announcing : r # s => r \in Announcing' /\ task'[r] = task[r]
      /\ \A r \in Announcing' : r # s => r \in Announcing /\ task'[r] = task[r]
      /\ s \in Announcing
  BY <1>2 DEF Announcing, At
<1> QED BY <1>1, <1>2, <1>3, <1>4, <1>5

LEMMA MessageNumbers ==
    ASSUME IInv, NEW s \in Slots
    PROVE  /\ task[s].message \in Nat
           /\ task[s].message # None => /\ task[s].message \in 1 .. MaxSent
                                        /\ task[s].message \in 1 .. (nextId - 1)
           /\ task[s].removed \subseteq 1 .. (nextId - 1)
<1>1. task[s].message \in Nat /\ task[s].message < nextId /\ nextId \in 1 .. (MaxSent + 1)
      /\ task[s].removed \subseteq 1 .. (nextId - 1)
  BY DEF IInv, Typed, TasksSound, Task
<1> QED BY <1>1, BoundsAssumption DEF None, Log!None

LEMMA SpeakPreserves ==
    ASSUME IInv, LogTyped, LogTyped', NEW s \in Slots, Speak(s)
    PROVE  IInv'
<1>1. PICK t \in Task : t = task[s]
  BY DEF IInv, Typed
<1>2. PICK v : v = [t EXCEPT !.pc = "publish"]
  OBVIOUS
<1>3. PICK reached \in SUBSET Devices :
        spoken' = [spoken EXCEPT ![task[s].message] =
                [d \in Devices |-> IF d \in reached THEN @[d] + Hears(s, d) ELSE @[d]]]
  BY DEF Speak
<1>4. /\ task[s].pc = "speak" /\ task' = [task EXCEPT ![s] = v]
      /\ UNCHANGED logVars /\ UNCHANGED fileVars
      /\ UNCHANGED <<told, toldGone, forgotten, faults>>
  BY <1>1, <1>2 DEF Speak, GoTo, IInv, Typed
<1>5. SoundTask(v) /\ v.pc = "publish" /\ v.message = t.message /\ v.removed = t.removed
  <2>1. SoundTask(t)
    BY <1>1 DEF IInv, Typed, TasksSound, SoundTask
  <2> QED BY <1>2, <2>1 DEF SoundTask, Task
<1>6. /\ task' \in [Slots -> Task] /\ TasksSound'
      /\ task'[s] = v /\ \A r \in Slots : r # s => task'[r] = task[r]
      /\ UNCHANGED <<media, disk, nextPath, served, abandoned, unclaimed, rolledBack>>
      /\ nextId' = nextId /\ Live' = Live
      /\ MediaSound' /\ FilesOwned' /\ FilesHandled' /\ ServedSound'
      /\ \A r \in Announcing : r # s => r \in Announcing' /\ task'[r] = task[r]
      /\ \A r \in Announcing' : r # s => r \in Announcing /\ task'[r] = task[r]
      /\ s \in Announcing
  BY <1>4, <1>5, TalkLeavesFiles
<1>7. t.message \in 1 .. MaxSent /\ t.message < nextId
  BY <1>1, <1>4, MessageNumbers DEF IInv, TasksSound
<1>8. s \in At({"speak"}) /\ \A r \in At({"speak"})' : r \in At({"speak"}) /\ task'[r] = task[r] /\ r # s
  BY <1>4, <1>5, <1>6 DEF At
<1>9. \A m \in 1 .. MaxSent : m # t.message => spoken'[m] = spoken[m]
  BY <1>1, <1>3 DEF IInv, Typed
<1>10. \A d \in Devices : Hears(s, d) \in {0, 1}
  BY DEF Hears
<1>11. spoken'[t.message] = [d \in Devices |-> IF d \in reached THEN Hears(s, d) ELSE 0]
  <2>1. \A d \in Devices : spoken[t.message][d] = 0
    BY <1>1, <1>8 DEF IInv, SpokenSound
  <2>2. spoken'[t.message] = [d \in Devices |->
            IF d \in reached THEN spoken[t.message][d] + Hears(s, d) ELSE spoken[t.message][d]]
    BY <1>1, <1>3, <1>7 DEF IInv, Typed
  <2>3. \A d \in Devices : 0 + Hears(s, d) = Hears(s, d)
    BY <1>10
  <2> QED BY <2>1, <2>2, <2>3
<1>12. \A d \in Devices : spoken'[t.message][d] \in {0, 1}
  BY <1>10, <1>11
<1>13. spoken' \in [1 .. MaxSent -> [Devices -> Nat]]
  <2>1. spoken'[t.message] \in [Devices -> Nat]
    BY <1>10, <1>11
  <2>2. \A m \in 1 .. MaxSent : spoken'[m] \in [Devices -> Nat]
    BY <1>9, <2>1 DEF IInv, Typed
  <2>3. spoken' = [m \in 1 .. MaxSent |-> spoken'[m]]
    BY <1>3 DEF IInv, Typed
  <2> QED BY <2>2, <2>3
<1>14. Typed'
  BY <1>4, <1>6, <1>13 DEF IInv, Typed
<1>15. ToldSound' /\ AllAccounted'
  <2>1. s \in Announcing'
    BY <1>5, <1>6 DEF Announcing, At
  <2>2. \A r \in Announcing : /\ r \in Announcing' /\ task'[r].message = task[r].message
                              /\ task'[r].removed = task[r].removed
    BY <1>1, <1>5, <1>6, <2>1
  <2>3. \A r \in Announcing' : r \in Announcing /\ task'[r].message = task[r].message
    BY <1>1, <1>5, <1>6
  <2> QED BY <1>4, <1>6, <2>2, <2>3, TalkMoves DEF IInv
<1>16. SpokenSound'
  <2>1. ASSUME NEW m \in 1 .. MaxSent, NEW d \in Devices
        PROVE  spoken'[m][d] \in {0, 1} /\ (spoken'[m][d] = 1 => m < nextId')
    BY <1>6, <1>7, <1>9, <1>12 DEF IInv, SpokenSound
  <2>2. ASSUME NEW r \in At({"speak"})', NEW d \in Devices PROVE spoken'[task'[r].message][d] = 0
    <3>1. r \in At({"speak"}) /\ task'[r] = task[r] /\ r # s /\ r \in Announcing /\ r \in Slots
      BY <1>8 DEF At, Announcing
    <3>2. task[r].message # None
      BY <3>1 DEF IInv, TasksSound, At
    <3>3. task[r].message # t.message
      BY <1>1, <1>6, <3>1, <3>2 DEF IInv, ToldSound
    <3>4. task[r].message \in 1 .. MaxSent
      BY <3>1, <3>2, MessageNumbers
    <3> QED BY <1>9, <3>1, <3>3, <3>4 DEF IInv, SpokenSound
  <2> QED BY <2>1, <2>2 DEF SpokenSound
<1> QED BY <1>6, <1>14, <1>15, <1>16 DEF IInv

LEMMA NoSnapshotPreserves ==
    ASSUME IInv, LogTyped, LogTyped', NEW s \in Slots, NoSnapshot(s)
    PROVE  IInv'
<1>1. PICK t \in Task : t = task[s]
  BY DEF IInv, Typed
<1>2. PICK w : w = [t EXCEPT !.pc = "publish"]
  OBVIOUS
<1>3. PICK v : v = IF s = Listener THEN Idle ELSE w
  OBVIOUS
<1>4. /\ task[s].pc = "speak" /\ task' = [task EXCEPT ![s] = v]
      /\ UNCHANGED logVars /\ UNCHANGED fileVars
      /\ UNCHANGED <<told, toldGone, spoken, faults>>
      /\ s = Listener => forgotten' = forgotten \cup {t.message} \cup t.removed
      /\ s # Listener => forgotten' = forgotten
  <2>1. CASE s = Listener
    BY <1>1, <1>3, <2>1 DEF NoSnapshot, Stay
  <2>2. CASE s # Listener
    BY <1>1, <1>2, <1>3, <2>2 DEF NoSnapshot, GoTo, IInv, Typed
  <2> QED BY <2>1, <2>2
<1>5. /\ SoundTask(v) /\ v.pc \in {"idle", "publish"}
      /\ s # Listener => v.pc = "publish" /\ v.message = t.message /\ v.removed = t.removed
      /\ s = Listener => v.pc = "idle"
  <2>1. SoundTask(t)
    BY <1>1 DEF IInv, Typed, TasksSound, SoundTask
  <2>2. SoundTask(w) /\ w.pc = "publish" /\ w.message = t.message /\ w.removed = t.removed
    BY <1>2, <2>1 DEF SoundTask, Task
  <2> QED BY <1>3, <2>2, IdleSound DEF IInv
<1>6. /\ task' \in [Slots -> Task] /\ TasksSound'
      /\ task'[s] = v /\ \A r \in Slots : r # s => task'[r] = task[r]
      /\ UNCHANGED <<media, disk, nextPath, served, abandoned, unclaimed, rolledBack>>
      /\ nextId' = nextId /\ Live' = Live
      /\ MediaSound' /\ FilesOwned' /\ FilesHandled' /\ ServedSound'
      /\ \A r \in Announcing : r # s => r \in Announcing' /\ task'[r] = task[r]
      /\ \A r \in Announcing' : r # s => r \in Announcing /\ task'[r] = task[r]
      /\ s \in Announcing
  BY <1>4, <1>5, TalkLeavesFiles
<1>7. Typed'
  <2>1. t.message \in 1 .. (nextId - 1) /\ t.removed \subseteq 1 .. (nextId - 1)
    BY <1>1, <1>4, MessageNumbers DEF IInv, TasksSound
  <2>2. toldGone' \cup forgotten' \subseteq 1 .. (nextId' - 1)
    BY <1>4, <1>6, <2>1 DEF IInv, Typed
  <2> QED BY <1>4, <1>6, <2>2 DEF IInv, Typed
<1>8. ToldSound' /\ AllAccounted'
  <2>1. CASE s = Listener
    <3>1. s \notin Announcing'
      BY <1>5, <1>6, <2>1 DEF Announcing, At
    <3>2. t.message \in forgotten' /\ t.removed \subseteq forgotten' /\ forgotten \subseteq forgotten'
      BY <1>4, <2>1
    <3>3. \A r \in Announcing :
             \/ /\ r \in Announcing' /\ task'[r].message = task[r].message
                /\ task[r].removed \subseteq task'[r].removed
             \/ /\ task[r].message \in forgotten' \cup {None}
                /\ task[r].removed \subseteq toldGone' \cup forgotten'
      BY <1>1, <1>6, <3>2
    <3>4. \A r \in Announcing' : r \in Announcing /\ task'[r].message = task[r].message
      BY <1>6, <3>1
    <3> QED BY <1>4, <1>6, <3>2, <3>3, <3>4, TalkMoves DEF IInv
  <2>2. CASE s # Listener
    <3>1. s \in Announcing'
      BY <1>5, <1>6, <2>2 DEF Announcing, At
    <3>2. \A r \in Announcing : /\ r \in Announcing' /\ task'[r].message = task[r].message
                                /\ task'[r].removed = task[r].removed
      BY <1>1, <1>5, <1>6, <2>2, <3>1
    <3>3. \A r \in Announcing' : r \in Announcing /\ task'[r].message = task[r].message
      BY <1>1, <1>5, <1>6, <2>2
    <3> QED BY <1>4, <1>6, <2>2, <3>2, <3>3, TalkMoves DEF IInv
  <2> QED BY <2>1, <2>2
<1>9. SpokenSound'
  <2>1. \A r \in Slots : task'[r].pc = "speak" =>
            task[r].pc = "speak" /\ task'[r].message = task[r].message
    BY <1>5, <1>6
  <2> QED BY <1>4, <1>6, <2>1, SpokenKept DEF IInv
<1> QED BY <1>6, <1>7, <1>8, <1>9 DEF IInv

\* Publishing, whatever of it is lost.
LEMMA AnnouncePreserves ==
    ASSUME IInv, LogTyped, LogTyped', NEW s \in Slots, task[s].pc = "publish",
           NEW message \in {task[s].message, None}, NEW removed \in SUBSET task[s].removed,
           Announce(s, message, removed), faults' \in 0 .. MaxFaults
    PROVE  IInv'
<1>1. /\ task' = [task EXCEPT ![s] = Idle] /\ UNCHANGED logVars /\ UNCHANGED fileVars
      /\ spoken' = spoken
      /\ told' = [m \in DOMAIN told |-> IF m = message THEN told[m] + 1 ELSE told[m]]
      /\ toldGone' = toldGone \cup removed
      /\ forgotten' = forgotten \cup ({task[s].message} \ {message, None})
                                \cup (task[s].removed \ removed)
  BY DEF Announce, Stay
<1>2. Idle.pc = "idle" /\ SoundTask(Idle)
  BY IdleSound DEF IInv
<1>3. /\ task' \in [Slots -> Task] /\ TasksSound'
      /\ task'[s] = Idle /\ \A r \in Slots : r # s => task'[r] = task[r]
      /\ UNCHANGED <<media, disk, nextPath, served, abandoned, unclaimed, rolledBack>>
      /\ nextId' = nextId /\ Live' = Live
      /\ MediaSound' /\ FilesOwned' /\ FilesHandled' /\ ServedSound'
      /\ \A r \in Announcing : r # s => r \in Announcing' /\ task'[r] = task[r]
      /\ \A r \in Announcing' : r # s => r \in Announcing /\ task'[r] = task[r]
      /\ s \in Announcing
  BY <1>1, <1>2, TalkLeavesFiles
<1>4. s \notin Announcing'
  BY <1>2, <1>3 DEF Announcing, At
<1>5. /\ task[s].message # None => /\ task[s].message \in 1 .. MaxSent
                                   /\ task[s].message \in 1 .. (nextId - 1)
                                   /\ told[task[s].message] = 0
      /\ task[s].removed \subseteq 1 .. (nextId - 1)
  BY <1>3, MessageNumbers DEF IInv, ToldSound
<1>6. None \notin 1 .. MaxSent
  BY DEF None, Log!None
<1>7. \A m \in 1 .. MaxSent : /\ m = message => told'[m] = 1 /\ m = task[s].message
                              /\ m # message => told'[m] = told[m]
  <2>1. \A m \in 1 .. MaxSent : told'[m] = IF m = message THEN told[m] + 1 ELSE told[m]
    BY <1>1 DEF IInv, Typed
  <2>2. ASSUME NEW m \in 1 .. MaxSent, m = message PROVE m = task[s].message /\ told[m] = 0
    BY <1>5, <1>6, <2>2
  <2> QED BY <2>1, <2>2
<1>8. Typed'
  <2>1. \A m \in 1 .. MaxSent : told'[m] \in Nat
    BY <1>7 DEF IInv, Typed
  <2>2. told' \in [1 .. MaxSent -> Nat]
    BY <1>1, <2>1 DEF IInv, Typed
  <2>3. toldGone' \cup forgotten' \subseteq 1 .. (nextId' - 1)
    BY <1>1, <1>3, <1>5 DEF IInv, Typed
  <2> QED BY <1>1, <1>3, <2>2, <2>3 DEF IInv, Typed
<1>9. ToldSound' /\ AllAccounted'
  <2>1. \A r \in Announcing' : r \in Announcing /\ r # s /\ task'[r].message = task[r].message
    BY <1>3, <1>4
  <2>2. ASSUME NEW m \in 1 .. MaxSent
        PROVE  \/ told'[m] = told[m]
               \/ /\ told'[m] = 1 /\ m < nextId
                  /\ \A r \in Announcing' : task'[r].message # m
    <3>1. CASE m = message
      <4>1. told'[m] = 1 /\ m = task[s].message /\ m # None
        BY <1>6, <1>7, <3>1
      <4>2. m < nextId
        BY <1>5, <4>1 DEF IInv, Typed
      <4>3. \A r \in Announcing' : task[r].message # m
        BY <1>3, <2>1, <4>1 DEF IInv, ToldSound
      <4> QED BY <2>1, <4>1, <4>2, <4>3
    <3>2. CASE m # message
      BY <1>7, <3>2
    <3> QED BY <3>1, <3>2
  <2>3. /\ \/ task[s].message \in forgotten' \cup {None}
           \/ told'[task[s].message] = 1
        /\ task[s].removed \subseteq toldGone' \cup forgotten'
    <3>1. task[s].removed \subseteq toldGone' \cup forgotten'
      BY <1>1
    <3>2. CASE message = task[s].message /\ message # None
      BY <1>5, <1>7, <3>1, <3>2
    <3>3. CASE message = None
      BY <1>1, <3>1, <3>3
    <3> QED BY <3>1, <3>2, <3>3
  <2>4. \A r \in Announcing : r # s =>
            /\ r \in Announcing' /\ task'[r].message = task[r].message
            /\ task[r].removed \subseteq task'[r].removed
    BY <1>3
  <2>5. toldGone \subseteq toldGone' /\ forgotten \subseteq forgotten'
    BY <1>1
  <2>6. \A r \in Announcing :
            \/ /\ r \in Announcing' /\ task'[r].message = task[r].message
               /\ task[r].removed \subseteq task'[r].removed
            \/ /\ \/ task[r].message \in forgotten' \cup {None}
                  \/ told'[task[r].message] = 1
               /\ task[r].removed \subseteq toldGone' \cup forgotten'
    BY <2>3, <2>4
  <2> QED BY <1>3, <2>1, <2>2, <2>5, <2>6, TalkMoves DEF IInv
<1>10. SpokenSound'
  <2>1. \A r \in Slots : task'[r].pc = "speak" =>
            task[r].pc = "speak" /\ task'[r].message = task[r].message
    BY <1>2, <1>3
  <2> QED BY <1>1, <1>3, <2>1, SpokenKept DEF IInv
<1> QED BY <1>3, <1>8, <1>9, <1>10 DEF IInv

LEMMA PublishPreserves ==
    ASSUME IInv, LogTyped, LogTyped', NEW s \in Slots, Publish(s) \/ PublishFails(s)
    PROVE  IInv'
<1>1. task[s].pc = "publish" /\ faults' \in 0 .. MaxFaults
  BY BoundsAssumption DEF Publish, PublishFails, Fault, IInv, Typed
<1>2. \/ Announce(s, task[s].message, task[s].removed) \/ Announce(s, None, {})
      \/ Announce(s, None, task[s].removed) \/ Announce(s, task[s].message, {})
  BY DEF Publish, PublishFails
<1> QED BY <1>1, <1>2, AnnouncePreserves

LEMMA CrashPreserves ==
    ASSUME IInv, LogTyped, LogTyped', Crash
    PROVE  IInv'
<1>1. /\ forgotten' = forgotten \cup Pending \cup PendingGone
      /\ abandoned' = abandoned \cup (disk \cap
            {task[s].path : s \in {t \in Slots : task[t].pc \in {"store", "remove"}}})
      /\ task' = [s \in Slots |-> Idle]
      /\ UNCHANGED logVars
      /\ UNCHANGED <<media, disk, nextPath, served, unclaimed, rolledBack, told, toldGone, spoken>>
  BY DEF Crash
<1>2. nextId' = nextId /\ Live' = Live
  BY <1>1, NoLogStep
<1>3. SoundTask(Idle) /\ Idle.pc = "idle"
  BY IdleSound DEF IInv
<1>4. faults' \in 0 .. MaxFaults
  BY BoundsAssumption DEF Crash, Fault, IInv, Typed
<1>5. /\ \A s \in Slots : task'[s] = Idle
      /\ Announcing' = {}
  BY <1>1, <1>3 DEF Announcing, At
<1>6. \A s \in Announcing : task[s].message \in forgotten' \cup {None}
                            /\ task[s].removed \subseteq forgotten'
  BY <1>1 DEF Announcing, At, Pending, PendingGone
<1>7. Typed'
  <2>1. Pending \cup PendingGone \subseteq 1 .. (nextId - 1)
    BY MessageNumbers DEF Pending, PendingGone
  <2>2. toldGone' \cup forgotten' \subseteq 1 .. (nextId' - 1)
    BY <1>1, <1>2, <2>1 DEF IInv, Typed
  <2>3. task' \in [Slots -> Task]
    BY <1>1, <1>3 DEF SoundTask
  <2>4. disk' \cup abandoned' \cup unclaimed' \cup rolledBack' \subseteq 1 .. (nextPath' - 1)
    BY <1>1 DEF IInv, Typed
  <2> QED BY <1>1, <1>2, <1>4, <2>2, <2>3, <2>4 DEF IInv, Typed
<1>8. TasksSound'
  BY <1>1, <1>2, <1>3, <1>5 DEF TasksSound, SoundTask
<1>9. MediaSound' /\ FilesOwned' /\ FilesHandled'
  <2>1. \A s \in Slots : task'[s].pc = "idle"
    BY <1>3, <1>5
  <2>2. \A s \in Slots : task[s].pc \in {"store", "remove"} => task[s].path \notin disk' \ (abandoned' \cup unclaimed')
    BY <1>1
  <2> QED BY <1>1, <1>2, <2>1, <2>2, FilesKept DEF IInv
<1>10. ServedSound'
  BY <1>1, <1>2, <1>3, <1>5, ServedKept, LogTypes DEF IInv
<1>11. ToldSound' /\ AllAccounted'
  BY <1>1, <1>2, <1>5, <1>6, TalkMoves DEF IInv
<1>12. SpokenSound'
  BY <1>1, <1>2, <1>3, <1>5, SpokenKept DEF IInv
<1> QED BY <1>7, <1>8, <1>9, <1>10, <1>11, <1>12 DEF IInv

-----------------------------------------------------------------------------
(* Media that is fetched, and media whose time is over.                    *)

LEMMA LiveAreSent ==
    ASSUME Typed, LogTyped
    PROVE  Live \subseteq 1 .. MaxSent
<1>1. nextId \in Nat /\ Live \subseteq 1 .. (nextId - 1)
  BY LogTypes
<1> QED BY <1>1, BoundsAssumption DEF Typed

\* A fetch moves no announcement.
LEMMA FetchKeepsTalk ==
    ASSUME IInv, NEW s \in Slots, task[s].pc \in {"idle", "consume", "remove"},
           task'[s].pc \in {"idle", "consume", "remove"},
           \A r \in Slots : r # s => task'[r] = task[r],
           UNCHANGED logVars, UNCHANGED eventVars
    PROVE  ToldSound' /\ AllAccounted' /\ SpokenSound'
<1>1. \A r \in Slots : /\ task'[r].pc \in {"speak", "publish"} => task'[r] = task[r]
                       /\ task[r].pc \in {"speak", "publish"} => task'[r] = task[r]
  OBVIOUS
<1> QED BY <1>1, NoLogStep, TalkKept DEF IInv, eventVars

LEMMA FetchReadsPreserves ==
    ASSUME IInv, LogTyped, LogTyped', NEW s \in Requests, NEW u \in Readers, NEW m \in Live,
           FetchReads(s, u, m)
    PROVE  IInv'
<1>1. PICK v : v = [Idle EXCEPT !.pc = "consume", !.user = u, !.message = m,
                                !.path = media[m].path]
  OBVIOUS
<1>2. /\ s \in Slots /\ task[s].pc = "idle" /\ task' = [task EXCEPT ![s] = v]
      /\ media[m].path \in disk /\ UNCHANGED logVars /\ UNCHANGED eventVars
      /\ UNCHANGED <<media, disk, nextPath, served, abandoned, unclaimed, rolledBack, faults>>
      /\ UNCHANGED <<told, toldGone, spoken, forgotten>>
      /\ nextId' = nextId /\ Live' = Live
  BY <1>1, ListenerSlot, NoLogStep DEF FetchReads, Begins, fileVars, eventVars
<1>3. /\ SoundTask(v) /\ v.pc = "consume" /\ v.message = m /\ v.path = media[m].path
  <2>1. v = [pc |-> "consume", user |-> u, client |-> NoClient, kind |-> "text",
             message |-> m, path |-> media[m].path, removed |-> {}]
    BY <1>1 DEF Idle
  <2>2. media[m].path \in Nat /\ media[m].path < nextPath /\ media[m].path # NoPath
    BY <1>2 DEF IInv, Typed, NoPath
  <2>3. m \in Nat /\ m < nextId /\ m # None
    BY LogTypes DEF None, Log!None
  <2>4. u \in Users
    BY DevicesAssumption
  <2> QED BY <2>1, <2>2, <2>3, <2>4 DEF SoundTask, Task
<1>4. /\ task' \in [Slots -> Task] /\ TasksSound'
      /\ task'[s] = v /\ \A r \in Slots : r # s => task'[r] = task[r]
  BY <1>2, <1>3, OneTaskMoves DEF IInv
<1>5. Typed'
  BY <1>2, <1>4 DEF IInv, Typed
<1>6. MediaSound'
  BY <1>2 DEF IInv, MediaSound
<1>7. /\ \A r : r \in At({"store"})' <=> r \in At({"store"})
      /\ \A r : r \in At({"store", "remove"})' <=> r \in At({"store", "remove"})
      /\ \A r : r \in At({"store", "consume", "remove"})' <=>
                    r = s \/ r \in At({"store", "consume", "remove"})
      /\ \A r : r \in At({"consume"})' <=> r = s \/ r \in At({"consume"})
  BY <1>2, <1>3, <1>4 DEF At
<1>8. /\ \A r \in At({"store"}) : task'[r] = task[r]
      /\ \A r \in At({"store", "remove"}) : task'[r] = task[r]
      /\ \A r \in At({"store", "consume", "remove"}) : task'[r] = task[r]
      /\ \A r \in At({"consume"}) : task'[r] = task[r]
  BY <1>2, <1>4 DEF At
<1>9. FilesOwned'
  <2>1. ASSUME NEW q \in At({"store"})', NEW r \in At({"store", "consume", "remove"})',
               task'[q].path = task'[r].path
        PROVE  q = r
    <3>1. q \in At({"store"}) /\ q \in At({"store", "remove"}) /\ task'[q] = task[q]
      BY <1>7, <1>8 DEF At
    <3>2. CASE r = s
      <4>1. task[q].path = media[m].path
        BY <1>3, <1>4, <2>1, <3>1, <3>2
      <4> QED BY <3>1, <4>1 DEF IInv, FilesOwned
    <3>3. CASE r # s
      BY <1>7, <1>8, <2>1, <3>1, <3>3 DEF IInv, FilesOwned
    <3> QED BY <3>2, <3>3
  <2>2. ASSUME NEW r \in At({"consume"})', NEW k \in Live
        PROVE  /\ media[k].path = task'[r].path => k = task'[r].message
               /\ k = task'[r].message /\ ~media[k].consumed /\ ~media[k].expired
                     => media[k].path = task'[r].path
    <3>1. CASE r = s
      <4>1. media[m].path # NoPath
        BY <1>2 DEF IInv, Typed, NoPath
      <4> QED BY <1>3, <1>4, <3>1, <4>1 DEF IInv, FilesOwned
    <3>2. CASE r # s
      BY <1>7, <1>8, <3>2 DEF IInv, FilesOwned
    <3> QED BY <3>1, <3>2
  <2>3. /\ \A k \in Live : media[k].path \in disk \cup rolledBack \cup {NoPath}
        /\ \A k, l \in Live : media[k].path = media[l].path => k = l \/ media[k].path = NoPath
        /\ \A r \in At({"store"})' : task'[r].path \in disk
        /\ \A r \in At({"store", "remove"})', k \in Live : media[k].path # task'[r].path
    BY <1>7, <1>8 DEF IInv, FilesOwned
  <2> QED BY <1>2, <2>1, <2>2, <2>3 DEF FilesOwned
<1>10. FilesHandled'
  BY <1>2, <1>7, <1>8 DEF IInv, FilesHandled
<1>11. ServedSound'
  <2>1. \A r \in Slots : task'[r].pc = "remove" => task'[r] = task[r]
    BY <1>3, <1>4
  <2> QED BY <1>2, <2>1, ServedKept, LogTypes DEF IInv
<1>12. ToldSound' /\ AllAccounted' /\ SpokenSound'
  BY <1>2, <1>3, <1>4, FetchKeepsTalk
<1> QED BY <1>4, <1>5, <1>6, <1>9, <1>10, <1>11, <1>12 DEF IInv

\* The path moves from the message to the request that removes the file.
LEMMA FetchConsumesPreserves ==
    ASSUME IInv, LogTyped, LogTyped', NEW s \in Slots, FetchConsumes(s)
    PROVE  IInv'
<1>1. PICK t \in Task : t = task[s]
  BY DEF IInv, Typed
<1>2. PICK v : v = [t EXCEPT !.pc = "remove"]
  OBVIOUS
<1>3. PICK m : m = t.message
  OBVIOUS
<1>4. /\ t.pc = "consume" /\ task' = [task EXCEPT ![s] = v]
      /\ UNCHANGED logVars /\ UNCHANGED eventVars
      /\ UNCHANGED <<disk, nextPath, served, abandoned, unclaimed, rolledBack, faults>>
      /\ UNCHANGED <<told, toldGone, spoken, forgotten>>
      /\ nextId' = nextId /\ Live' = Live
  BY <1>1, <1>2, NoLogStep DEF FetchConsumes, GoTo, IInv, Typed, eventVars
<1>5. m \in Live /\ ~media[m].consumed /\ ~media[m].expired /\ m \in 1 .. MaxSent
  <2>1. m \in Live /\ ~media[m].consumed /\ ~media[m].expired
    BY <1>1, <1>3 DEF FetchConsumes, MayConsume
  <2> QED BY <2>1, LiveAreSent DEF IInv
<1>6. PICK w \in Media : w = media[m]
  BY <1>5 DEF IInv, Typed
<1>7. PICK x : x = [w EXCEPT !.consumed = TRUE, !.path = NoPath]
  OBVIOUS
<1>8. media' = [media EXCEPT ![m] = x]
  <2>1. media' = [media EXCEPT ![m].consumed = TRUE, ![m].path = NoPath]
    BY <1>1, <1>3 DEF FetchConsumes
  <2> QED BY <1>5, <1>6, <1>7, <2>1 DEF IInv, Typed, Media
<1>9. x \in Media /\ x.path = NoPath /\ x.consumed /\ x.expired = w.expired
  BY <1>7 DEF Media, NoPath
<1>10. /\ media' \in [1 .. MaxSent -> Media]
       /\ media'[m] = x /\ \A k \in 1 .. MaxSent : k # m => media'[k] = media[k]
  BY <1>5, <1>8, <1>9 DEF IInv, Typed
<1>11. /\ SoundTask(v) /\ v.pc = "remove" /\ v.message = m /\ v.path = t.path
  <2>1. SoundTask(t)
    BY <1>1 DEF IInv, Typed, TasksSound, SoundTask
  <2> QED BY <1>2, <1>3, <1>4, <2>1 DEF SoundTask, Task
<1>12. /\ task' \in [Slots -> Task] /\ TasksSound'
       /\ task'[s] = v /\ \A r \in Slots : r # s => task'[r] = task[r]
  BY <1>4, <1>11, OneTaskMoves DEF IInv
<1>13. Typed'
  BY <1>4, <1>10, <1>12 DEF IInv, Typed
<1>14. Live \subseteq 1 .. MaxSent
  BY LiveAreSent DEF IInv
<1>15. NoPath < nextPath
  BY DEF IInv, Typed, NoPath
<1>16. MediaSound'
  <2>1. \A k \in Live : /\ media'[k].path < nextPath
                        /\ media'[k].consumed \/ media'[k].expired => media'[k].path = NoPath
    BY <1>9, <1>10, <1>14, <1>15 DEF IInv, MediaSound
  <2>2. \A k \in (1 .. MaxSent) \ Live : media'[k] = NoMedia
    BY <1>5, <1>10 DEF IInv, MediaSound
  <2> QED BY <1>4, <2>1, <2>2 DEF MediaSound
<1>17. s \in At({"consume"}) /\ s \in At({"store", "consume", "remove"}) /\ t.path # NoPath
       /\ media[m].path = t.path
  <2>1. s \in At({"consume"}) /\ s \in At({"store", "consume", "remove"})
    BY <1>1, <1>4 DEF At
  <2>2. t.path # NoPath
    BY <1>1, <1>4 DEF IInv, TasksSound
  <2>3. media[m].path = t.path
    BY <1>1, <1>3, <1>5, <2>1 DEF IInv, FilesOwned
  <2> QED BY <2>1, <2>2, <2>3
<1>18. /\ \A r : r \in At({"store"})' <=> r \in At({"store"})
       /\ \A r : r \in At({"store", "remove"})' <=> r = s \/ r \in At({"store", "remove"})
       /\ \A r : r \in At({"store", "consume", "remove"})' <=>
                     r \in At({"store", "consume", "remove"})
       /\ \A r : r \in At({"consume"})' <=> r # s /\ r \in At({"consume"})
       /\ \A r : r \in At({"remove"})' <=> r = s \/ r \in At({"remove"})
  BY <1>1, <1>4, <1>11, <1>12 DEF At
<1>19. /\ \A r \in At({"store", "remove"}) : task'[r] = task[r] /\ r # s
       /\ \A r \in At({"store"}) : task'[r] = task[r]
       /\ \A r \in At({"store", "consume", "remove"}) : task'[r].path = task[r].path
       /\ \A r \in At({"consume"}) : r # s => task'[r] = task[r]
       /\ \A r \in At({"remove"}) : task'[r] = task[r] /\ r # s
  BY <1>1, <1>4, <1>11, <1>12 DEF At
<1>20. FilesOwned'
  <2>1. \A k \in Live : media'[k].path = media[k].path \/ media'[k].path = NoPath
    BY <1>9, <1>10, <1>14
  <2>2. \A k \in Live : media'[k].path \in disk \cup rolledBack \cup {NoPath}
    BY <2>1 DEF IInv, FilesOwned
  <2>3. \A k, l \in Live : media'[k].path = media'[l].path => k = l \/ media'[k].path = NoPath
    BY <2>1 DEF IInv, FilesOwned
  <2>4. \A r \in At({"store"})' : task'[r].path \in disk
    BY <1>18, <1>19 DEF IInv, FilesOwned
  <2>5. ASSUME NEW r \in At({"store", "remove"})', NEW k \in Live
        PROVE  media'[k].path # task'[r].path
    <3>1. task'[r].path # NoPath
      BY <1>12 DEF TasksSound, At
    <3>2. CASE r = s
      <4>1. CASE k = m
        BY <1>9, <1>10, <3>1, <4>1
      <4>2. CASE k # m
        <5>1. media'[k] = media[k] /\ media[k].path # media[m].path
          BY <1>5, <1>10, <1>14, <1>17, <4>2 DEF IInv, FilesOwned
        <5> QED BY <1>11, <1>12, <1>17, <3>2, <5>1
      <4> QED BY <4>1, <4>2
    <3>3. CASE r # s
      BY <1>18, <1>19, <2>1, <3>1, <3>3 DEF IInv, FilesOwned
    <3> QED BY <3>2, <3>3
  <2>6. ASSUME NEW q \in At({"store"})', NEW r \in At({"store", "consume", "remove"})',
               task'[q].path = task'[r].path
        PROVE  q = r
    BY <1>18, <1>19, <2>6 DEF IInv, FilesOwned
  <2>7. ASSUME NEW r \in At({"consume"})', NEW k \in Live
        PROVE  /\ media'[k].path = task'[r].path => k = task'[r].message
               /\ k = task'[r].message /\ ~media'[k].consumed /\ ~media'[k].expired
                     => media'[k].path = task'[r].path
    <3>1. r \in At({"consume"}) /\ task'[r] = task[r] /\ task'[r].path # NoPath
      BY <1>12, <1>18, <1>19 DEF TasksSound, At
    <3>2. CASE k = m
      BY <1>9, <1>10, <3>1, <3>2
    <3>3. CASE k # m
      BY <1>10, <1>14, <3>1, <3>3 DEF IInv, FilesOwned
    <3> QED BY <3>2, <3>3
  <2> QED BY <1>4, <2>2, <2>3, <2>4, <2>5, <2>6, <2>7 DEF FilesOwned
<1>21. FilesHandled'
  <2> SUFFICES ASSUME NEW p \in disk \ (abandoned \cup unclaimed)
               PROVE  \/ \E k \in Live : media'[k].path = p
                      \/ \E r \in At({"store", "remove"})' : task'[r].path = p
    BY <1>4 DEF FilesHandled
  <2>1. CASE p = t.path
    BY <1>11, <1>12, <1>18, <2>1
  <2>2. CASE p # t.path
    <3>1. \A k \in Live : media[k].path = p => media'[k].path = p
      BY <1>10, <1>14, <1>17, <2>2
    <3> QED BY <1>18, <1>19, <3>1 DEF IInv, FilesHandled
  <2> QED BY <2>1, <2>2
<1>22. ServedSound'
  <2>1. served[m] = 0
    <3>1. served[m] \in {0, 1} /\ (served[m] = 1 => media[m].consumed)
      BY <1>5 DEF IInv, ServedSound
    <3> QED BY <1>5, <3>1
  <2>2. \A r \in At({"remove"}) : task[r].message # m
    BY <1>5 DEF IInv, ServedSound
  <2>3. ASSUME NEW k \in 1 .. MaxSent
        PROVE  /\ served[k] \in {0, 1}
               /\ served[k] = 1 => k < nextId
               /\ served[k] = 1 /\ k \in Live => media'[k].consumed /\ ~media'[k].expired
    <3>1. CASE k = m
      BY <2>1, <3>1
    <3>2. CASE k # m
      BY <1>10, <3>2 DEF IInv, ServedSound
    <3> QED BY <3>1, <3>2
  <2>4. ASSUME NEW r \in At({"remove"})'
        PROVE  /\ served[task'[r].message] = 0
               /\ task'[r].message \in Live => /\ media'[task'[r].message].consumed
                                               /\ ~media'[task'[r].message].expired
    <3>1. CASE r = s
      BY <1>5, <1>6, <1>9, <1>10, <1>11, <1>12, <2>1, <3>1
    <3>2. CASE r # s
      <4>1. r \in At({"remove"}) /\ task'[r] = task[r] /\ task[r].message # m
        BY <1>18, <1>19, <2>2, <3>2
      <4>2. task[r].message \in Live => media'[task[r].message] = media[task[r].message]
        BY <1>10, <1>14, <4>1
      <4> QED BY <4>1, <4>2 DEF IInv, ServedSound
    <3> QED BY <3>1, <3>2
  <2>5. ASSUME NEW q \in At({"remove"})', NEW r \in At({"remove"})',
               task'[q].message = task'[r].message
        PROVE  q = r
    <3>1. CASE q = s \/ r = s
      BY <1>11, <1>12, <1>18, <1>19, <2>2, <2>5, <3>1
    <3>2. CASE q # s /\ r # s
      BY <1>18, <1>19, <2>5, <3>2 DEF IInv, ServedSound
    <3> QED BY <3>1, <3>2
  <2> QED BY <1>4, <2>3, <2>4, <2>5 DEF ServedSound
<1>23. ToldSound' /\ AllAccounted' /\ SpokenSound'
  BY <1>1, <1>4, <1>11, <1>12, FetchKeepsTalk
<1> QED BY <1>12, <1>13, <1>16, <1>20, <1>21, <1>22, <1>23 DEF IInv

LEMMA FetchServesPreserves ==
    ASSUME IInv, LogTyped, LogTyped', NEW s \in Slots, FetchServes(s)
    PROVE  IInv'
<1>1. PICK m : m = task[s].message
  OBVIOUS
<1>2. /\ task[s].pc = "remove" /\ task' = [task EXCEPT ![s] = Idle]
      /\ served' = [served EXCEPT ![m] = @ + 1]
      /\ UNCHANGED logVars /\ UNCHANGED eventVars
      /\ UNCHANGED <<media, nextPath, unclaimed, rolledBack, told, toldGone, spoken, forgotten>>
      /\ nextId' = nextId /\ Live' = Live
  BY <1>1, NoLogStep DEF FetchServes, Stay, eventVars
<1>3. /\ disk' \subseteq disk /\ abandoned \subseteq abandoned' /\ faults' \in 0 .. MaxFaults
      /\ disk \ {task[s].path} \subseteq disk' /\ task[s].path \notin disk' \ (abandoned' \cup unclaimed')
      /\ abandoned' \subseteq abandoned \cup {task[s].path}
  BY BoundsAssumption DEF FetchServes, Fault, IInv, Typed
<1>4. Idle.pc = "idle" /\ SoundTask(Idle)
  BY IdleSound DEF IInv
<1>5. /\ task' \in [Slots -> Task] /\ TasksSound'
      /\ task'[s] = Idle /\ \A r \in Slots : r # s => task'[r] = task[r]
  BY <1>2, <1>4, OneTaskMoves DEF IInv
<1>6. s \in At({"remove"}) /\ s \in At({"store", "remove"}) /\ s \in At({"store", "consume", "remove"})
  BY <1>2 DEF At
<1>7. m \in 1 .. MaxSent /\ m < nextId /\ served[m] = 0
  <2>1. m # None
    BY <1>1, <1>2 DEF IInv, TasksSound
  <2> QED BY <1>1, <1>6, <2>1, MessageNumbers DEF IInv, ServedSound, TasksSound
<1>8. /\ served'[m] = 1 /\ \A k \in 1 .. MaxSent : k # m => served'[k] = served[k]
      /\ served' \in [1 .. MaxSent -> Nat]
  BY <1>2, <1>7 DEF IInv, Typed
<1>9. Typed'
  <2>1. task[s].path \in 1 .. (nextPath - 1)
    <3>1. task[s].path \in Nat /\ task[s].path < nextPath /\ task[s].path # 0 /\ nextPath \in Nat
      BY <1>2 DEF IInv, Typed, Task, TasksSound, NoPath
    <3> QED BY <3>1
  <2>2. disk' \cup abandoned' \cup unclaimed' \cup rolledBack' \subseteq 1 .. (nextPath' - 1)
    BY <1>2, <1>3, <2>1 DEF IInv, Typed
  <2> QED BY <1>2, <1>3, <1>5, <1>8, <2>2 DEF IInv, Typed
<1>10. MediaSound' /\ FilesOwned' /\ FilesHandled'
  <2>1. \A k \in Live : media[k].path \in disk => media[k].path \in disk' \cup rolledBack'
    <3>1. \A k \in Live : media[k].path # task[s].path
      BY <1>6 DEF IInv, FilesOwned
    <3> QED BY <1>3, <3>1
  <2>2. ASSUME NEW r \in Slots, task'[r].pc = "store", task[r].path \in disk PROVE task[r].path \in disk'
    <3>1. r # s /\ r \in At({"store"})
      BY <1>4, <1>5, <2>2 DEF At
    <3>2. task[r].path # task[s].path
      BY <1>6, <3>1 DEF IInv, FilesOwned
    <3> QED BY <1>3, <2>2, <3>2
  <2>3. \A r \in Slots :
            /\ task'[r].pc \in {"store", "consume", "remove"} => task'[r] = task[r]
            /\ task[r].pc \in {"store", "remove"} =>
                  task'[r] = task[r] \/ task[r].path \notin disk' \ (abandoned' \cup unclaimed')
    BY <1>3, <1>4, <1>5
  <2> QED BY <1>2, <1>3, <2>1, <2>2, <2>3, FilesKept DEF IInv
<1>11. ServedSound'
  <2>1. \A r : r \in At({"remove"})' <=> r # s /\ r \in At({"remove"})
    BY <1>4, <1>5 DEF At
  <2>2. \A r \in At({"remove"}) : r # s => task'[r] = task[r] /\ task[r].message # m
    BY <1>1, <1>5, <1>6 DEF At, IInv, ServedSound
  <2>3. ASSUME NEW k \in 1 .. MaxSent
        PROVE  /\ served'[k] \in {0, 1}
               /\ served'[k] = 1 => k < nextId
               /\ served'[k] = 1 /\ k \in Live => media[k].consumed /\ ~media[k].expired
    <3>1. CASE k = m
      BY <1>1, <1>6, <1>7, <1>8, <3>1 DEF IInv, ServedSound
    <3>2. CASE k # m
      BY <1>8, <3>2 DEF IInv, ServedSound
    <3> QED BY <3>1, <3>2
  <2>4. ASSUME NEW r \in At({"remove"})'
        PROVE  /\ served'[task'[r].message] = 0
               /\ task'[r].message \in Live => /\ media[task'[r].message].consumed
                                               /\ ~media[task'[r].message].expired
    <3>1. r \in At({"remove"}) /\ task'[r] = task[r] /\ task[r].message # m /\ r \in Slots
          /\ task[r].pc = "remove"
      BY <2>1, <2>2 DEF At
    <3>2. task[r].message \in 1 .. MaxSent
      BY <3>1, MessageNumbers DEF IInv, TasksSound
    <3> QED BY <1>8, <3>1, <3>2 DEF IInv, ServedSound
  <2>5. \A q, r \in At({"remove"})' : task'[q].message = task'[r].message => q = r
    BY <2>1, <2>2 DEF IInv, ServedSound
  <2> QED BY <1>2, <2>3, <2>4, <2>5 DEF ServedSound
<1>12. ToldSound' /\ AllAccounted' /\ SpokenSound'
  BY <1>2, <1>4, <1>5, FetchKeepsTalk
<1> QED BY <1>5, <1>9, <1>10, <1>11, <1>12 DEF IInv

LEMMA FetchRefusedPreserves ==
    ASSUME IInv, LogTyped, LogTyped', NEW s \in Slots, FetchRefused(s)
    PROVE  IInv'
<1>1. PICK S \in SUBSET Expirable :
        S = IF task[s].user \in Members THEN {task[s].message} \cap Expirable ELSE {}
  OBVIOUS
<1>2. /\ task[s].pc = "consume" /\ task' = [task EXCEPT ![s] = Idle]
      /\ Expire(S) /\ UNCHANGED logVars /\ UNCHANGED eventVars
      /\ UNCHANGED <<nextPath, served, abandoned, unclaimed, rolledBack, faults>>
      /\ UNCHANGED <<told, toldGone, spoken, forgotten>>
      /\ nextId' = nextId
  BY <1>1, NoLogStep DEF FetchRefused, Stay, Expire, eventVars
<1>3. Idle.pc = "idle" /\ SoundTask(Idle)
  BY IdleSound DEF IInv
<1>4. /\ task' \in [Slots -> Task] /\ TasksSound'
      /\ task'[s] = Idle /\ \A r \in Slots : r # s => task'[r] = task[r]
  BY <1>2, <1>3, OneTaskMoves DEF IInv
<1>5. /\ media' \in [1 .. MaxSent -> Media]
      /\ disk' \subseteq disk /\ Live' = Live
      /\ \A m \in Live : media[m].consumed /\ ~media[m].expired
                             => media'[m].consumed /\ ~media'[m].expired
      /\ MediaSound' /\ FilesOwned' /\ FilesHandled'
  <2>1. \A r \in Slots :
            /\ task'[r].pc \in {"store", "consume", "remove"} => task'[r] = task[r]
            /\ task[r].pc \in {"store", "remove"} => task'[r] = task[r]
    BY <1>2, <1>3, <1>4
  <2> QED BY <1>2, <1>4, <2>1, Expired DEF IInv
<1>6. Typed'
  BY <1>2, <1>4, <1>5 DEF IInv, Typed
<1>7. ServedSound'
  <2>1. \A r \in Slots : task'[r].pc = "remove" => task'[r] = task[r]
    BY <1>3, <1>4
  <2> QED BY <1>2, <1>5, <2>1, ServedKept, LogTypes DEF IInv
<1>8. ToldSound' /\ AllAccounted' /\ SpokenSound'
  BY <1>2, <1>3, <1>4, FetchKeepsTalk
<1> QED BY <1>4, <1>5, <1>6, <1>7, <1>8 DEF IInv

\* A member who asks too late, and the cleanup.
LEMMA ExpirePreserves ==
    ASSUME IInv, LogTyped, LogTyped', NEW S \in SUBSET Expirable, Expire(S),
           UNCHANGED <<eventVars, task, faults>>
    PROVE  IInv'
<1>1. /\ UNCHANGED <<nextPath, served, abandoned, unclaimed, rolledBack, faults, task>>
      /\ UNCHANGED <<told, toldGone, spoken, forgotten>>
      /\ nextId' = nextId
  BY NoLogStep DEF Expire, eventVars
<1>2. TasksSound'
  BY <1>1 DEF IInv, TasksSound
<1>3. /\ media' \in [1 .. MaxSent -> Media]
      /\ disk' \subseteq disk /\ Live' = Live
      /\ \A m \in Live : media[m].consumed /\ ~media[m].expired
                             => media'[m].consumed /\ ~media'[m].expired
      /\ MediaSound' /\ FilesOwned' /\ FilesHandled'
  BY <1>1, <1>2, Expired DEF IInv
<1>4. Typed'
  BY <1>1, <1>3 DEF IInv, Typed
<1>5. ServedSound'
  BY <1>1, <1>3, ServedKept, LogTypes DEF IInv
<1>6. ToldSound' /\ AllAccounted' /\ SpokenSound'
  BY <1>1, <1>3, TalkKept DEF IInv
<1> QED BY <1>2, <1>3, <1>4, <1>5, <1>6 DEF IInv

LEMMA TimePassesPreserves ==
    ASSUME IInv, LogTyped, LogTyped', NEW m \in Live, TimePasses(m)
    PROVE  IInv'
<1>1. /\ media' = [media EXCEPT ![m].due = TRUE]
      /\ UNCHANGED <<disk, nextPath, served, abandoned, unclaimed, rolledBack, faults, task>>
      /\ UNCHANGED <<told, toldGone, spoken, forgotten>>
      /\ nextId' = nextId /\ Live' = Live
  BY NoLogStep DEF TimePasses, eventVars
<1>2. m \in 1 .. MaxSent /\ Live \subseteq 1 .. MaxSent
  BY LiveAreSent DEF IInv
<1>3. PICK w \in Media : w = media[m]
  BY <1>2 DEF IInv, Typed
<1>4. PICK x : x = [w EXCEPT !.due = TRUE]
  OBVIOUS
<1>5. x \in Media /\ x.path = w.path /\ x.consumed = w.consumed /\ x.expired = w.expired
  BY <1>4 DEF Media
<1>6. media' = [media EXCEPT ![m] = x]
  BY <1>1, <1>2, <1>3, <1>4 DEF IInv, Typed
<1>7. /\ media' \in [1 .. MaxSent -> Media]
      /\ \A k \in 1 .. MaxSent : k # m => media'[k] = media[k]
      /\ \A k \in 1 .. MaxSent : /\ media'[k].path = media[k].path
                                 /\ media'[k].consumed = media[k].consumed
                                 /\ media'[k].expired = media[k].expired
  <2>1. media' \in [1 .. MaxSent -> Media] /\ media'[m] = x
        /\ \A k \in 1 .. MaxSent : k # m => media'[k] = media[k]
    BY <1>2, <1>5, <1>6 DEF IInv, Typed
  <2> QED BY <1>3, <1>5, <2>1
<1>8. \A pcs : At(pcs)' = At(pcs)
  BY <1>1 DEF At
<1>9. Typed' /\ TasksSound'
  BY <1>1, <1>7 DEF IInv, Typed, TasksSound
<1>10. MediaSound'
  <2>1. \A k \in (1 .. MaxSent) \ Live : media'[k] = NoMedia
    BY <1>7 DEF IInv, MediaSound
  <2>2. \A k \in Live : /\ media'[k].path < nextPath
                        /\ media'[k].consumed \/ media'[k].expired => media'[k].path = NoPath
    BY <1>2, <1>7 DEF IInv, MediaSound
  <2> QED BY <1>1, <2>1, <2>2 DEF MediaSound
<1>11. FilesOwned' /\ FilesHandled'
  BY <1>1, <1>2, <1>7, <1>8 DEF IInv, FilesOwned, FilesHandled
<1>12. ServedSound'
  <2>1. \A k \in Live' \cap Live : media[k].consumed /\ ~media[k].expired
                                      => media'[k].consumed /\ ~media'[k].expired
    BY <1>2, <1>7
  <2> QED BY <1>1, <2>1, ServedKept, LogTypes DEF IInv
<1>13. ToldSound' /\ AllAccounted' /\ SpokenSound'
  BY <1>1, TalkKept DEF IInv
<1> QED BY <1>9, <1>10, <1>11, <1>12, <1>13 DEF IInv

-----------------------------------------------------------------------------
LEMMA InitIInv == Init => IInv /\ LogTyped
<1> SUFFICES ASSUME Init PROVE IInv /\ LogTyped
  OBVIOUS
<1>1. Facts!Init
  BY DEF Init, Log!Init, Facts!Init, Log!None, Facts!None, Log!NoText, Facts!NoText
<1>2. LogTyped
  BY <1>1, LogAssumptions, Facts!InitIInv DEF LogTyped
<1>3. /\ nextId = 1 /\ Live = {}
  BY DEF Init, Log!Init, Live, Log!Live
<1>4. /\ media = [m \in 1 .. MaxSent |-> NoMedia] /\ disk = {} /\ nextPath = 1
      /\ served = [m \in 1 .. MaxSent |-> 0]
      /\ abandoned = {} /\ unclaimed = {} /\ rolledBack = {}
      /\ told = [m \in 1 .. MaxSent |-> 0] /\ toldGone = {} /\ forgotten = {}
      /\ spoken = [m \in 1 .. MaxSent |-> [d \in Devices |-> 0]]
      /\ task = [s \in Slots |-> Idle] /\ faults = 0
  BY DEF Init
<1>5. Idle \in Task /\ Idle.pc = "idle" /\ Idle.path = 0 /\ Idle.message = 0 /\ Idle.removed = {}
  BY DEF Idle, Task, NoPath, None, Log!None
<1>6. Typed
  <2>1. NoMedia \in Media
    BY DEF NoMedia, Media, NoPath
  <2> QED BY <1>3, <1>4, <1>5, <2>1, BoundsAssumption DEF Typed
<1>7. TasksSound
  BY <1>3, <1>4, <1>5 DEF TasksSound
<1>8. \A pcs \in SUBSET {"store", "speak", "publish", "consume", "remove"} : At(pcs) = {}
  BY <1>4, <1>5 DEF At
<1>9. Announcing = {} /\ At({"store"}) = {} /\ At({"consume"}) = {} /\ At({"remove"}) = {}
      /\ At({"speak"}) = {} /\ At({"store", "remove"}) = {}
  BY <1>8 DEF Announcing
<1>10. MediaSound /\ FilesOwned /\ FilesHandled
  BY <1>3, <1>4, <1>9 DEF MediaSound, FilesOwned, FilesHandled
<1>11. ServedSound /\ ToldSound /\ AllAccounted /\ SpokenSound
  BY <1>3, <1>4, <1>9 DEF ServedSound, ToldSound, AllAccounted, SpokenSound
<1> QED BY <1>2, <1>6, <1>7, <1>10, <1>11 DEF IInv

LEMMA NextIInv == IInv /\ LogTyped /\ [Next]_vars => IInv' /\ LogTyped'
<1> SUFFICES ASSUME IInv, LogTyped, [Next]_vars PROVE IInv' /\ LogTyped'
  OBVIOUS
<1>0. LogTyped'
  BY LogTypedNext DEF IInv
<1>1. ASSUME NEW u \in Senders, NEW c \in SendIds, SendCommit(u, c) PROVE IInv'
  BY <1>0, <1>1, SendCommitPreserves
<1>2. ASSUME NEW u \in Senders, NEW c \in SendIds, SendFails(u, c) PROVE IInv'
  <2>1. PICK S \in SUBSET Live : Trimmed(u, c) = PathsOf(S)
    BY TrimmedFiles
  <2> QED BY <1>0, <1>2, <2>1, FailurePreserves DEF SendFails
<1>3. ASSUME NEW s \in Requests, NEW u \in Senders, NEW c \in UploadIds, NEW k \in MediaKinds,
             WriteFile(s, u, c, k)
      PROVE IInv'
  BY <1>0, <1>3, WriteFilePreserves
<1>4. ASSUME NEW s \in Requests, NEW u \in Readers, NEW m \in Live, FetchReads(s, u, m) PROVE IInv'
  BY <1>0, <1>4, FetchReadsPreserves
<1>5. ASSUME NEW u \in Readers, NEW m \in Live, FetchExpires(u, m) PROVE IInv'
  BY <1>0, <1>5, ExpirePreserves DEF FetchExpires
<1>6. ASSUME NEW s \in Requests, UploadFails(s) PROVE IInv'
  BY <1>0, <1>6, ListenerSlot, UploadFailsPreserves
<1>7. ASSUME NEW s \in Slots, Go(s) \/ PublishFails(s) PROVE IInv'
  BY <1>0, <1>7, StoreUploadPreserves, UploadEndsPreserves, SpeakPreserves, NoSnapshotPreserves,
     PublishPreserves, FetchConsumesPreserves, FetchRefusedPreserves, FetchServesPreserves DEF Go
<1>8. ASSUME NEW m \in Live, TimePasses(m) PROVE IInv'
  BY <1>0, <1>8, TimePassesPreserves
<1>9. CASE Cleanup
  BY <1>0, <1>9, ExpirePreserves DEF Cleanup
<1>10. CASE CleanupFails
  <2>1. PICK S \in SUBSET Expirable : RollBack(PathsOf(S), {})
    BY <1>10 DEF CleanupFails
  <2>2. S \in SUBSET Live
    BY DEF Expirable
  <2> QED BY <1>0, <1>10, <2>1, <2>2, FailurePreserves DEF CleanupFails
<1>11. ASSUME NEW s \in Requests, NEW u \in Senders, NEW S \in SUBSET Live, DeleteMessages(s, u, S)
       PROVE  IInv'
  BY <1>0, <1>11, DeleteMessagesPreserves
<1>12. ASSUME NEW u \in Senders, NEW S \in SUBSET Live, DeleteFails(u, S) PROVE IInv'
  BY <1>0, <1>12, FailurePreserves DEF DeleteFails
<1>13. ASSUME NEW u \in Senders, DeleteConversation(u) PROVE IInv'
  BY <1>0, <1>13, DeleteConversationPreserves
<1>14. CASE CreateDirectConversation
  BY <1>0, <1>14, CreatePreserves
<1>15. CASE Crash
  BY <1>0, <1>15, CrashPreserves
<1>16. CASE UNCHANGED vars
  BY <1>0, <1>16, StutterPreserves
<1> QED
  BY <1>0, <1>1, <1>2, <1>3, <1>4, <1>5, <1>6, <1>7, <1>8, <1>9, <1>10, <1>11, <1>12, <1>13, <1>14,
     <1>15, <1>16 DEF Next

-----------------------------------------------------------------------------
(* Files that nobody claims.                                               *)

\* Nobody has an unclaimed file, so it stays.
UnclaimedSound ==
    /\ unclaimed \subseteq disk
    /\ \A p \in unclaimed :
          /\ \A m \in Live : media[m].path # p
          /\ \A s \in At({"store", "consume", "remove"}) : task[s].path # p

\* The paths that a message or a request has.
Held == {media[m].path : m \in Live}
            \cup {task[s].path : s \in At({"store", "consume", "remove"})}

LEMMA HoldsPath ==
    /\ \A m \in Live : media[m].path \in Held
    /\ \A s \in Slots : task[s].pc \in {"store", "consume", "remove"} => task[s].path \in Held
    /\ \A S \in SUBSET Live : PathsOf(S) \subseteq Held
BY DEF Held, At, PathsOf

\* A step that removes no file but those held, and gives no message and no
\* request a path that is neither held nor new.
MediaHandedOn ==
    /\ disk \ disk' \subseteq Held
    /\ \A m \in Live' : media'[m].path \in Held \cup {NoPath}
    /\ unclaimed' = unclaimed

TasksHandedOn ==
    \A s \in Slots : task'[s].pc \in {"store", "consume", "remove"} =>
                         task'[s].path \in Held \cup {nextPath}

LEMMA HandedOn ==
    ASSUME Typed, UnclaimedSound, MediaHandedOn, TasksHandedOn
    PROVE  UnclaimedSound'
<1> SUFFICES ASSUME NEW p \in unclaimed
             PROVE  /\ p \in disk'
                    /\ \A m \in Live' : media'[m].path # p
                    /\ \A s \in At({"store", "consume", "remove"})' : task'[s].path # p
  BY DEF UnclaimedSound, MediaHandedOn
<1>1. p \in disk /\ p \notin Held
  BY DEF UnclaimedSound, Held
<1>2. p # NoPath /\ p # nextPath
  BY DEF Typed, NoPath
<1>3. \A s \in At({"store", "consume", "remove"})' :
          s \in Slots /\ task'[s].pc \in {"store", "consume", "remove"}
  BY DEF At
<1> QED BY <1>1, <1>2, <1>3 DEF MediaHandedOn, TasksHandedOn

LEMMA OneHandedOn ==
    ASSUME Typed, NEW s \in Slots, NEW v, task' = [task EXCEPT ![s] = v],
           v.pc \in {"store", "consume", "remove"} => v.path \in Held \cup {nextPath}
    PROVE  TasksHandedOn
<1>1. task'[s] = v /\ \A r \in Slots : r # s => task'[r] = task[r]
  BY DEF Typed
<1> QED BY <1>1, HoldsPath DEF TasksHandedOn

LEMMA NoneHandedOn ==
    ASSUME task' = task
    PROVE  TasksHandedOn
BY HoldsPath DEF TasksHandedOn

\* A transaction of the log, with the files of its messages.
LEMMA FollowHandsOn ==
    ASSUME IInv, LogTyped, LogTyped', NEW path \in Nat, path \in Held \cup {NoPath},
           FilesFollow(path), nextId' \in 1 .. (MaxSent + 1),
           Live' = DOMAIN messages', Live' \subseteq Live \cup {nextId}
    PROVE  MediaHandedOn
<1>1. /\ \A m \in Live' \cap Live : media'[m] = media[m]
      /\ nextId \in Live' => media'[nextId].path = path
      /\ disk' = disk \ PathsOf(Live \ Live')
      /\ unclaimed' = unclaimed
  <2>1. [NoMedia EXCEPT !.path = path].path = path
    BY DEF NoMedia
  <2> QED BY <2>1, FollowShape DEF IInv
<1>2. \A m \in Live' : media'[m].path \in Held \cup {NoPath}
  BY <1>1, HoldsPath
<1>3. PathsOf(Live \ Live') \subseteq Held
  BY HoldsPath
<1> QED BY <1>1, <1>2, <1>3 DEF MediaHandedOn

LEMMA FailureHandsOn ==
    ASSUME NEW S \in SUBSET Live, NEW held \in SUBSET Held, RollBack(PathsOf(S), held),
           UNCHANGED <<media, unclaimed>>
    PROVE  MediaHandedOn
<1>1. disk' = disk \ (PathsOf(S) \cup held) /\ Live' = Live
  BY NoLogStep DEF RollBack
<1> QED BY <1>1, HoldsPath DEF MediaHandedOn

LEMMA ExpireHandsOn ==
    ASSUME IInv, LogTyped, NEW S \in SUBSET Expirable, Expire(S)
    PROVE  MediaHandedOn
<1>1. /\ disk' = disk \ PathsOf(S) /\ Live' = Live /\ unclaimed' = unclaimed
      /\ media' = [m \in 1 .. MaxSent |->
                     IF m \in S THEN [media[m] EXCEPT !.path = NoPath, !.expired = TRUE]
                                ELSE media[m]]
  BY NoLogStep DEF Expire
<1>2. Live \subseteq 1 .. MaxSent /\ S \in SUBSET Live
  BY LiveAreSent DEF Expirable, IInv
<1>3. ASSUME NEW m \in Live PROVE media'[m].path \in {media[m].path, NoPath}
  <2>1. PICK w \in Media : w = media[m]
    BY <1>2 DEF IInv, Typed
  <2>2. [w EXCEPT !.path = NoPath, !.expired = TRUE].path = NoPath
    BY DEF Media
  <2> QED BY <1>1, <1>2, <2>1, <2>2
<1> QED BY <1>1, <1>2, <1>3, HoldsPath DEF MediaHandedOn

LEMMA StillHandsOn ==
    ASSUME UNCHANGED <<media, disk, unclaimed>>, Live' = Live
    PROVE  MediaHandedOn
BY HoldsPath DEF MediaHandedOn

\* What a request does once it has begun.
LEMMA GoLeavesUnclaimed ==
    ASSUME IInv, LogTyped, LogTyped', UnclaimedSound,
           NEW s \in Slots, Go(s) \/ PublishFails(s)
    PROVE  UnclaimedSound'
<1>0. /\ Idle.pc = "idle" /\ task[s] \in Task /\ Typed
      /\ task[s].pc \in {"store", "consume", "remove"} => task[s].path \in Held
  BY IdleSound, HoldsPath DEF IInv, Typed
<1>1. CASE StoreUpload(s)
  <2>1. /\ nextId' = nextId + 1 /\ nextId <= MaxSent
        /\ Live' \subseteq Live \cup {nextId} /\ Live' = DOMAIN messages'
    BY <1>1, AddShape DEF StoreUpload
  <2>2. nextId' \in 1 .. (MaxSent + 1)
    BY <2>1, LogTypes, BoundsAssumption
  <2>3. task[s].path \in Nat /\ task[s].path \in Held
    BY <1>0, <1>1 DEF StoreUpload, Task
  <2>4. MediaHandedOn
    BY <1>1, <2>1, <2>2, <2>3, FollowHandsOn DEF StoreUpload
  <2>5. PICK pc : pc = IF task[s].kind = "audio" THEN "speak" ELSE "publish"
    OBVIOUS
  <2>6. PICK v : v = [task[s] EXCEPT !.pc = pc, !.message = nextId, !.path = NoPath,
                                     !.removed = Live \ DOMAIN messages']
    OBVIOUS
  <2>7. task' = [task EXCEPT ![s] = v]
    <3>1. task' = [task EXCEPT ![s].pc = pc, ![s].message = nextId, ![s].path = NoPath,
                               ![s].removed = Live \ DOMAIN messages']
      BY <1>1, <2>5 DEF StoreUpload
    <3> QED BY <2>6, <3>1 DEF IInv, Typed, Task
  <2>8. v.pc \in {"speak", "publish"}
    BY <1>0, <2>5, <2>6 DEF Task
  <2>9. TasksHandedOn
    BY <1>0, <2>7, <2>8, OneHandedOn
  <2> QED BY <1>0, <2>4, <2>9, HandedOn
<1>2. CASE UploadRefused(s)
  <2>1. /\ disk' = disk \ {task[s].path} /\ UNCHANGED <<media, unclaimed>> /\ Live' = Live
        /\ task' = [task EXCEPT ![s] = Idle] /\ task[s].path \in Held
    BY <1>0, <1>2, NoLogStep DEF UploadRefused, Stay
  <2>2. MediaHandedOn
    BY <2>1, HoldsPath DEF MediaHandedOn
  <2>3. TasksHandedOn
    BY <1>0, <2>1, OneHandedOn
  <2> QED BY <1>0, <2>2, <2>3, HandedOn
<1>3. CASE UploadRepeated(s)
  <2>1. /\ UNCHANGED media /\ Live' = Live /\ task[s].pc = "store"
        /\ task' = [task EXCEPT ![s] = Idle] /\ task[s].path \in Held
    BY <1>0, <1>3, NoLogStep DEF UploadRepeated, Stay
  <2>2. CASE disk' = disk \ {task[s].path} /\ unclaimed' = unclaimed
    <3>1. MediaHandedOn
      BY <2>1, <2>2, HoldsPath DEF MediaHandedOn
    <3>2. TasksHandedOn
      BY <1>0, <2>1, OneHandedOn
    <3> QED BY <1>0, <3>1, <3>2, HandedOn
  <2>3. CASE disk' = disk /\ unclaimed' = unclaimed \cup {task[s].path}
    <3>1. s \in At({"store"}) /\ s \in At({"store", "remove"})
      BY <2>1 DEF At
    <3>2. /\ task[s].path \in disk
          /\ \A m \in Live : media[m].path # task[s].path
          /\ \A r \in At({"store", "consume", "remove"}) : task[r].path = task[s].path => r = s
      BY <3>1 DEF IInv, FilesOwned
    <3>3. \A r \in At({"store", "consume", "remove"})' :
              r # s /\ r \in At({"store", "consume", "remove"}) /\ task'[r] = task[r]
      BY <1>0, <2>1 DEF At, Typed
    <3> QED BY <2>1, <2>3, <3>2, <3>3 DEF UnclaimedSound
  <2> QED BY <1>3, <2>2, <2>3 DEF UploadRepeated
<1>4. CASE Speak(s) \/ NoSnapshot(s) \/ Publish(s) \/ PublishFails(s)
  <2>1. UNCHANGED <<media, disk, unclaimed>> /\ Live' = Live
    BY <1>4, NoLogStep DEF Speak, NoSnapshot, Publish, PublishFails, Announce, fileVars
  <2>2. PICK v : v \in {Idle, [task[s] EXCEPT !.pc = "publish"]} /\ task' = [task EXCEPT ![s] = v]
    <3>1. \/ task' = [task EXCEPT ![s] = Idle]
          \/ task' = [task EXCEPT ![s].pc = "publish"]
      BY <1>4 DEF Speak, NoSnapshot, Publish, PublishFails, Announce, Stay, GoTo
    <3> QED BY <3>1 DEF IInv, Typed
  <2>3. v.pc \in {"idle", "publish"}
    BY <1>0, <2>2 DEF Task
  <2>4. TasksHandedOn
    BY <1>0, <2>2, <2>3, OneHandedOn
  <2> QED BY <1>0, <2>1, <2>4, StillHandsOn, HandedOn
<1>5. CASE FetchConsumes(s)
  <2>1. PICK m : m = task[s].message
    OBVIOUS
  <2>2. /\ UNCHANGED <<disk, unclaimed>> /\ Live' = Live /\ m \in Live /\ task[s].pc = "consume"
        /\ media' = [media EXCEPT ![m].consumed = TRUE, ![m].path = NoPath]
        /\ task' = [task EXCEPT ![s].pc = "remove"]
    BY <1>5, <2>1, NoLogStep DEF FetchConsumes, MayConsume, GoTo
  <2>3. PICK w \in Media : w = media[m]
    BY <2>2, LiveAreSent DEF IInv, Typed
  <2>4. PICK n : n = [w EXCEPT !.consumed = TRUE, !.path = NoPath]
    OBVIOUS
  <2>5. n.path = NoPath /\ media' = [media EXCEPT ![m] = n]
    BY <2>2, <2>3, <2>4 DEF Media, IInv, Typed
  <2>6. \A k \in Live : media'[k].path \in {media[k].path, NoPath}
    BY <2>2, <2>5, LiveAreSent DEF IInv, Typed
  <2>7. MediaHandedOn
    BY <2>2, <2>6, HoldsPath DEF MediaHandedOn
  <2>8. PICK v : v = [task[s] EXCEPT !.pc = "remove"]
    OBVIOUS
  <2>9. task' = [task EXCEPT ![s] = v] /\ v.path = task[s].path
    BY <1>0, <2>2, <2>8 DEF IInv, Typed, Task
  <2>10. TasksHandedOn
    BY <1>0, <2>2, <2>9, OneHandedOn
  <2> QED BY <1>0, <2>7, <2>10, HandedOn
<1>6. CASE FetchRefused(s)
  <2>1. PICK S \in SUBSET Expirable : Expire(S)
    BY <1>6 DEF FetchRefused
  <2>2. MediaHandedOn
    BY <2>1, ExpireHandsOn
  <2>3. TasksHandedOn
    BY <1>0, <1>6, OneHandedOn DEF FetchRefused, Stay
  <2> QED BY <1>0, <2>2, <2>3, HandedOn
<1>7. CASE FetchServes(s)
  <2>1. /\ disk \ disk' \subseteq {task[s].path} /\ UNCHANGED <<media, unclaimed>> /\ Live' = Live
        /\ task' = [task EXCEPT ![s] = Idle] /\ task[s].path \in Held
    BY <1>0, <1>7, NoLogStep DEF FetchServes, Stay
  <2>2. MediaHandedOn
    BY <2>1, HoldsPath DEF MediaHandedOn
  <2>3. TasksHandedOn
    BY <1>0, <2>1, OneHandedOn
  <2> QED BY <1>0, <2>2, <2>3, HandedOn
<1> QED BY <1>1, <1>2, <1>3, <1>4, <1>5, <1>6, <1>7 DEF Go

LEMMA UnclaimedStays ==
    ASSUME IInv, LogTyped, UnclaimedSound, [Next]_vars
    PROVE  UnclaimedSound'
<1>0. Typed /\ LogTyped' /\ Idle.pc = "idle"
  BY LogTypedNext, IdleSound DEF IInv
<1>1. ASSUME NEW u \in Senders, NEW c \in SendIds, SendCommit(u, c) PROVE UnclaimedSound'
  <2>1. /\ nextId' = nextId + 1 /\ nextId <= MaxSent
        /\ Live' \subseteq Live \cup {nextId} /\ Live' = DOMAIN messages'
    BY <1>1, AddShape DEF SendCommit
  <2>2. nextId' \in 1 .. (MaxSent + 1) /\ NoPath \in Nat
    BY <2>1, LogTypes, BoundsAssumption DEF NoPath
  <2>3. MediaHandedOn
    BY <1>0, <1>1, <2>1, <2>2, FollowHandsOn DEF SendCommit
  <2>4. PICK v : v = [Idle EXCEPT !.pc = "speak", !.user = u, !.client = c, !.message = nextId,
                                  !.removed = Live \ DOMAIN messages']
    OBVIOUS
  <2>5. v.pc = "speak" /\ task' = [task EXCEPT ![Listener] = v]
    BY <1>1, <2>4 DEF SendCommit, Idle
  <2>6. TasksHandedOn
    BY <1>0, <2>5, ListenerSlot, OneHandedOn
  <2> QED BY <1>0, <2>3, <2>6, HandedOn
<1>2. ASSUME NEW u \in Senders, NEW c \in SendIds, SendFails(u, c) PROVE UnclaimedSound'
  <2>1. PICK S \in SUBSET Live : Trimmed(u, c) = PathsOf(S)
    BY TrimmedFiles
  <2>2. {} \in SUBSET Held
    OBVIOUS
  <2> QED BY <1>0, <1>2, <2>1, <2>2, FailureHandsOn, NoneHandedOn, HandedOn DEF SendFails
<1>3. ASSUME NEW s \in Requests, NEW u \in Senders, NEW c \in UploadIds, NEW k \in MediaKinds,
             WriteFile(s, u, c, k)
      PROVE  UnclaimedSound'
  <2>1. PICK v : v = [Idle EXCEPT !.pc = "store", !.user = u, !.client = c, !.kind = k,
                                  !.path = nextPath]
    OBVIOUS
  <2>2. v.path = nextPath /\ task' = [task EXCEPT ![s] = v]
    BY <1>3, <2>1 DEF WriteFile, Idle
  <2>3. disk' = disk \cup {nextPath} /\ UNCHANGED <<media, unclaimed>> /\ Live' = Live
    BY <1>3, NoLogStep DEF WriteFile
  <2>4. MediaHandedOn
    BY <2>3, HoldsPath DEF MediaHandedOn
  <2>5. TasksHandedOn
    BY <1>0, <2>2, ListenerSlot, OneHandedOn
  <2> QED BY <1>0, <2>4, <2>5, HandedOn
<1>4. ASSUME NEW s \in Requests, NEW u \in Readers, NEW m \in Live, FetchReads(s, u, m)
      PROVE  UnclaimedSound'
  <2>1. PICK v : v = [Idle EXCEPT !.pc = "consume", !.user = u, !.message = m,
                                  !.path = media[m].path]
    OBVIOUS
  <2>2. v.path = media[m].path /\ task' = [task EXCEPT ![s] = v]
    BY <1>4, <2>1 DEF FetchReads, Idle
  <2>3. UNCHANGED <<media, disk, unclaimed>> /\ Live' = Live
    BY <1>4, NoLogStep DEF FetchReads, fileVars
  <2>4. TasksHandedOn
    BY <1>0, <2>2, ListenerSlot, HoldsPath, OneHandedOn
  <2> QED BY <1>0, <2>3, <2>4, StillHandsOn, HandedOn
<1>5. ASSUME NEW S \in SUBSET Expirable, Expire(S), task' = task PROVE UnclaimedSound'
  BY <1>0, <1>5, ExpireHandsOn, NoneHandedOn, HandedOn
<1>6. ASSUME NEW s \in Requests, UploadFails(s) PROVE UnclaimedSound'
  <2>1. PICK S \in SUBSET Live : Trimmed(task[s].user, task[s].client) = PathsOf(S)
    BY TrimmedFiles
  <2>2. {task[s].path} \in SUBSET Held /\ s \in Slots
    BY <1>6, ListenerSlot, HoldsPath DEF UploadFails
  <2>3. MediaHandedOn
    BY <1>6, <2>1, <2>2, FailureHandsOn DEF UploadFails
  <2>4. TasksHandedOn
    BY <1>0, <1>6, <2>2, OneHandedOn DEF UploadFails, Stay
  <2> QED BY <1>0, <2>3, <2>4, HandedOn
<1>7. ASSUME NEW s \in Slots, Go(s) \/ PublishFails(s) PROVE UnclaimedSound'
  BY <1>0, <1>7, GoLeavesUnclaimed
<1>8. ASSUME NEW m \in Live, TimePasses(m) PROVE UnclaimedSound'
  <2>1. /\ UNCHANGED <<disk, unclaimed, task>> /\ Live' = Live
        /\ media' = [media EXCEPT ![m].due = TRUE]
    BY <1>8, NoLogStep DEF TimePasses
  <2>2. PICK w \in Media : w = media[m]
    BY LiveAreSent DEF IInv, Typed
  <2>3. PICK n : n = [w EXCEPT !.due = TRUE]
    OBVIOUS
  <2>4. n.path = media[m].path /\ media' = [media EXCEPT ![m] = n]
    BY <2>1, <2>2, <2>3 DEF Media, IInv, Typed
  <2>5. \A k \in Live : media'[k].path = media[k].path
    BY <2>4, LiveAreSent DEF IInv, Typed
  <2>6. MediaHandedOn
    BY <2>1, <2>5, HoldsPath DEF MediaHandedOn
  <2> QED BY <1>0, <2>1, <2>6, NoneHandedOn, HandedOn
<1>9. ASSUME NEW S \in SUBSET Live, RollBack(PathsOf(S), {}), UNCHANGED <<media, unclaimed, task>>
      PROVE  UnclaimedSound'
  <2>1. {} \in SUBSET Held
    OBVIOUS
  <2> QED BY <1>0, <1>9, <2>1, FailureHandsOn, NoneHandedOn, HandedOn
<1>10. CASE CleanupFails
  <2>1. PICK S \in SUBSET Expirable : RollBack(PathsOf(S), {})
    BY <1>10 DEF CleanupFails
  <2>2. S \in SUBSET Live
    BY DEF Expirable
  <2> QED BY <1>9, <1>10, <2>1, <2>2 DEF CleanupFails
<1>11. ASSUME NEW s \in Requests, NEW u \in Senders, NEW S \in SUBSET Live, DeleteMessages(s, u, S)
       PROVE  UnclaimedSound'
  <2>1. nextId' = nextId /\ Live' = Live \ S /\ Live' = DOMAIN messages'
    BY <1>11, RemoveShape DEF DeleteMessages
  <2>2. nextId' \in 1 .. (MaxSent + 1) /\ NoPath \in Nat
    BY <2>1 DEF IInv, Typed, NoPath
  <2>3. MediaHandedOn
    BY <1>0, <1>11, <2>1, <2>2, FollowHandsOn DEF DeleteMessages
  <2>4. PICK v : v = [Idle EXCEPT !.pc = "publish", !.removed = S]
    OBVIOUS
  <2>5. v.pc = "publish" /\ task' = [task EXCEPT ![s] = v]
    BY <1>11, <2>4 DEF DeleteMessages, Idle
  <2>6. TasksHandedOn
    BY <1>0, <2>5, ListenerSlot, OneHandedOn
  <2> QED BY <1>0, <2>3, <2>6, HandedOn
<1>12. ASSUME NEW u \in Senders, DeleteConversation(u) PROVE UnclaimedSound'
  <2>1. nextId' = nextId /\ Live' = {} /\ Live' = DOMAIN messages'
    BY <1>12, RemoveShape DEF DeleteConversation
  <2>2. nextId' \in 1 .. (MaxSent + 1) /\ NoPath \in Nat
    BY <2>1 DEF IInv, Typed, NoPath
  <2>3. MediaHandedOn
    BY <1>0, <1>12, <2>1, <2>2, FollowHandsOn DEF DeleteConversation
  <2> QED BY <1>0, <1>12, <2>3, NoneHandedOn, HandedOn DEF DeleteConversation
<1>13. CASE CreateDirectConversation
  <2>1. UNCHANGED <<media, disk, unclaimed, task>> /\ Live' = Live
    BY <1>13, RemoveShape DEF CreateDirectConversation, fileVars
  <2> QED BY <1>0, <2>1, StillHandsOn, NoneHandedOn, HandedOn
<1>14. CASE Crash
  <2>1. UNCHANGED <<media, disk, unclaimed>> /\ Live' = Live /\ task' = [s \in Slots |-> Idle]
    BY <1>14, NoLogStep DEF Crash
  <2>2. TasksHandedOn
    BY <1>0, <2>1 DEF TasksHandedOn
  <2> QED BY <1>0, <2>1, <2>2, StillHandsOn, HandedOn
<1>15. CASE UNCHANGED vars
  <2>1. UNCHANGED <<media, disk, unclaimed, task>> /\ Live' = Live
    BY <1>15, NoLogStep DEF vars, fileVars
  <2> QED BY <1>0, <2>1, StillHandsOn, NoneHandedOn, HandedOn
<1>16. ASSUME NEW u \in Readers, NEW m \in Live, FetchExpires(u, m) PROVE UnclaimedSound'
  BY <1>5, <1>16 DEF FetchExpires
<1>17. CASE Cleanup
  BY <1>5, <1>17 DEF Cleanup
<1>18. ASSUME NEW u \in Senders, NEW S \in SUBSET Live, DeleteFails(u, S) PROVE UnclaimedSound'
  BY <1>9, <1>18 DEF DeleteFails
<1> QED
  BY <1>1, <1>2, <1>3, <1>4, <1>6, <1>7, <1>8, <1>10, <1>11, <1>12, <1>13, <1>14, <1>15, <1>16,
     <1>17, <1>18 DEF Next

LEMMA Invariant == Spec => [](IInv /\ LogTyped /\ UnclaimedSound)
<1>1. Init => UnclaimedSound
  BY DEF Init, UnclaimedSound
<1>2. IInv /\ LogTyped /\ UnclaimedSound /\ [Next]_vars => UnclaimedSound'
  BY UnclaimedStays
<1> QED BY <1>1, <1>2, InitIInv, NextIInv, PTL DEF Spec

-----------------------------------------------------------------------------
(* The results.                                                            *)

\* However requests, faults and restarts fall between its transactions, the
\* conversation's log behaves as ChatLog says: every theorem about ChatLog
\* holds of it.
THEOREM LogStaysAChatLog == Spec => Facts!Spec
<1>1. Init => Facts!Init
  BY DEF Init, Log!Init, Facts!Init, Log!None, Facts!None, Log!NoText, Facts!NoText
<1>2. IInv /\ LogTyped /\ [Next]_vars => [Facts!Next]_(Facts!vars)
  BY NextIsLogStep DEF IInv
<1> QED BY <1>1, <1>2, Invariant, PTL DEF Spec, Facts!Spec

\* Files and messages agree at every moment of an upload, a fetch, a cleanup
\* or a trim, although no transaction spans the database and the disk; a file
\* that its upload left unclaimed is nobody's for good.
THEOREM DeliveryStaysConsistent == Spec => []DeliveryConsistent
<1>1. IInv /\ LogTyped /\ UnclaimedSound => DeliveryConsistent
  <2> SUFFICES ASSUME IInv, LogTyped, UnclaimedSound PROVE TypeOK /\ FilesMatchMessages
    BY DEF DeliveryConsistent
  <2>1. \A m \in 1 .. MaxSent : media[m].path \in 0 .. MaxUploads
    <3>1. ASSUME NEW m \in Live PROVE media[m].path \in 0 .. MaxUploads
      <4>1. media[m].path \in Nat /\ media[m].path < nextPath /\ nextPath \in 1 .. (MaxUploads + 1)
        BY LiveAreSent DEF IInv, Typed, Media, MediaSound
      <4> QED BY <4>1, BoundsAssumption
    <3>2. ASSUME NEW m \in (1 .. MaxSent) \ Live PROVE media[m].path \in 0 .. MaxUploads
      <4>1. media[m].path = 0
        BY DEF IInv, MediaSound, NoMedia, NoPath
      <4> QED BY <4>1, BoundsAssumption
    <3> QED BY <3>1, <3>2
  <2>2. ASSUME NEW m \in 1 .. MaxSent
        PROVE  media[m] \in [path : 0 .. MaxUploads, consumed : BOOLEAN,
                             expired : BOOLEAN, due : BOOLEAN]
    <3>1. PICK w \in Media : w = media[m]
      BY DEF IInv, Typed
    <3>2. w.path \in 0 .. MaxUploads
      BY <2>1, <3>1
    <3> QED BY <3>1, <3>2 DEF Media
  <2>3. TypeOK
    BY <2>2, LogTypes DEF IInv, Typed, TasksSound, TypeOK
  <2>4. FilesMatchMessages
    BY DEF IInv, FilesOwned, FilesHandled, UnclaimedSound, FilesMatchMessages, PathsOf, At,
       Typed, NoPath
  <2> QED BY <2>3, <2>4
<1> QED BY <1>1, Invariant, PTL

\* Media goes to one client once: of all who have read the file only the one
\* that consumes the message answers with it.
THEOREM MediaServedOnce == Spec => []ServedOnce
<1>1. IInv => ServedOnce
  BY DEF IInv, ServedSound, ServedOnce
<1> QED BY <1>1, Invariant, PTL

\* No message is stored or removed without an event, except by a request that
\* died, could not publish, or deleted the conversation.
THEOREM StoresAreAnnounced == Spec => []StoreIsAnnounced
<1>1. IInv => StoreIsAnnounced
  <2> SUFFICES ASSUME IInv, NEW m \in 1 .. (nextId - 1)
               PROVE  /\ told[m] <= 1
                      /\ told[m] = 1 \/ m \in Pending \cup forgotten
                      /\ m \in Live \cup toldGone \cup PendingGone \cup forgotten
    BY DEF StoreIsAnnounced
  <2>1. m \in 1 .. MaxSent /\ m # None
    BY BoundsAssumption DEF IInv, Typed, None, Log!None
  <2>2. /\ told[m] = 1 \/ m \in forgotten \/ \E s \in Announcing : task[s].message = m
        /\ m \in Live \/ m \in toldGone \/ m \in forgotten
              \/ \E s \in Announcing : m \in task[s].removed
    BY DEF IInv, AllAccounted
  <2>3. (\E s \in Announcing : task[s].message = m) => m \in Pending
    BY <2>1 DEF Announcing, At, Pending
  <2>4. (\E s \in Announcing : m \in task[s].removed) => m \in PendingGone
    BY DEF Announcing, At, PendingGone
  <2>5. told[m] <= 1
    BY <2>1 DEF IInv, ToldSound
  <2> QED BY <2>2, <2>3, <2>4, <2>5
<1> QED BY <1>1, Invariant, PTL

\* A speaker that serves several members, or is reached by a repeated command,
\* says a message once.
THEOREM SpeakersSayOnce == Spec => []SpokenOncePerDevice
<1>1. IInv => SpokenOncePerDevice
  BY DEF IInv, SpokenSound, SpokenOncePerDevice
<1> QED BY <1>1, Invariant, PTL
=============================================================================
