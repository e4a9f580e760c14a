---------------------------- MODULE ChatDelivery ----------------------------
(***************************************************************************)
(* What cmd/dash does around the transactions of one conversation's log:   *)
(* the listener of send commands (internal/event/chat_handlers.go), the    *)
(* HTTP requests that upload, fetch and delete media (internal/http/routes) *)
(* and the hourly cleanup (cmd/dash/main.go).  A request stores first,     *)
(* then speaks to Alice, then publishes its events, and may die anywhere;  *)
(* media files are written before the message and removed inside           *)
(* transactions, which the file system does not roll back.                 *)
(*                                                                         *)
(* The log itself is ChatLog: its transactions are steps of this module.   *)
(***************************************************************************)
EXTENDS Naturals, FiniteSets

CONSTANTS
    Users, SystemSender, Types, InitialMembers, ClientIds, NoClient, Limits,
    MaxSent,            \* as in ChatLog
    MaxRequests,        \* bound: HTTP requests at a time
    SendIds,            \* client_message_ids of send commands
    UploadIds,          \* client_message_ids of uploads
    MediaKinds,         \* message types of uploads in play
    Senders,            \* users who send, upload and delete
    Readers,            \* users who fetch
    Devices,            \* Alice speakers
    DeviceOf,           \* user -> speaker, for users who configured one
    MaxUploads,         \* bound: files ever written
    MaxFaults           \* bound: crashes, lost events, failed commits and removals

\* As in ChatLog; the conversations are those of users.
ASSUME LogAssumption ==
    /\ SystemSender \notin Users
    /\ Types \subseteq {"direct", "group"}
    /\ InitialMembers \in [Types -> SUBSET Users]
    /\ NoClient \notin ClientIds
    /\ Limits \subseteq Nat \ {0, 1} /\ Limits # {}

ASSUME BoundsAssumption ==
    /\ MaxSent \in Nat /\ MaxRequests \in Nat
    /\ MaxUploads \in Nat /\ MaxFaults \in Nat

\* Clients choose any: nothing keeps those of texts and of uploads apart.
ASSUME IdsAssumption ==
    /\ SendIds \cup UploadIds \subseteq ClientIds \cup {NoClient}
    /\ MediaKinds \subseteq {"audio", "image", "file"}

ASSUME DevicesAssumption ==
    /\ Senders \cup Readers \subseteq Users
    /\ DOMAIN DeviceOf \subseteq Users
    /\ \A u \in DOMAIN DeviceOf : DeviceOf[u] \in Devices

VARIABLES
    type, exists, messages, nextId, lastRead, pinned, last, lastText,
    annotations, limit, \* the conversation: see ChatLog
    media,      \* message -> path, consumed and expired of ChatAudio/Image/File
    disk,       \* paths of files that are there
    nextPath,   \* the path the next uploaded file gets
    task,       \* request -> where it is and what it holds
    told,       \* message -> ChatMessagePersistedEvents published for it
    toldGone,   \* messages named as removed by a published event
    spoken,     \* message -> speaker -> times it was announced there
    served,     \* message -> times its media was sent to a client
    forgotten,  \* history: messages whose events will not come
    abandoned,  \* history: files whose request died or could not remove them
    unclaimed,  \* history: files of uploads that found a message of another kind
    rolledBack, \* history: files removed by a transaction that failed
    faults      \* number of faults so far

logVars == <<type, exists, messages, nextId, lastRead, pinned, last, lastText,
             annotations, limit>>
fileVars == <<media, disk, nextPath, served, abandoned, unclaimed, rolledBack>>
eventVars == <<told, toldGone, spoken, forgotten>>
vars == <<logVars, fileVars, eventVars, task, faults>>

Log == INSTANCE ChatLog WITH
           Kinds <- {"text"} \cup MediaKinds,
           MaxForward <- 0, MaxEdits <- 0, MaxAnnotations <- 0

None == Log!None
Live == Log!Live
Members == Log!Members
Listener == 0                 \* the listener of send commands, one at a time
Requests == 1 .. MaxRequests
Slots == {Listener} \cup Requests
NoPath == 0
NoMedia == [path |-> NoPath, consumed |-> FALSE, expired |-> FALSE,
            due |-> FALSE]
Idle == [pc |-> "idle", user |-> SystemSender, client |-> NoClient, kind |-> "text",
         message |-> None, path |-> NoPath, removed |-> {}]

TypeOK ==
    /\ Log!TypeOK
    /\ media \in [1 .. MaxSent -> [path : 0 .. MaxUploads, consumed : BOOLEAN,
                                   expired : BOOLEAN, due : BOOLEAN]]
    /\ disk \cup abandoned \cup unclaimed \cup rolledBack \subseteq 1 .. (nextPath - 1)
    /\ \A s \in Slots : task[s].path < nextPath /\ task[s].message < nextId
    /\ told \in [1 .. MaxSent -> Nat]
    /\ toldGone \cup forgotten \subseteq 1 .. (nextId - 1)
    /\ faults \in 0 .. MaxFaults

-----------------------------------------------------------------------------
(* Helpers.                                                                *)

\* removeMessageAudioFile, removeMessageImageFile, removeMessageFile: the
\* files that go when the messages of S are removed.
PathsOf(S) == {media[m].path : m \in S} \ {NoPath}

\* A new request takes the first free slot: slots have no identity.
Begins(s) ==
    /\ s \in Requests
    /\ task[s].pc = "idle"
    /\ \A r \in Requests : task[r].pc = "idle" => s <= r

Stay(s) == task' = [task EXCEPT ![s] = Idle]
GoTo(s, pc) == task' = [task EXCEPT ![s].pc = pc]
Fault == faults < MaxFaults /\ faults' = faults + 1

\* A transaction that removes messages takes their files along; the message
\* it stores has the file path.
FilesFollow(path) ==
    LET gone == Live \ DOMAIN messages'
    IN  /\ disk' = disk \ PathsOf(gone)
        /\ media' = [m \in 1 .. MaxSent |->
                        IF m \in gone THEN NoMedia
                        ELSE IF m = nextId /\ m \in DOMAIN messages'
                             THEN [NoMedia EXCEPT !.path = path]
                             ELSE media[m]]
        /\ UNCHANGED <<nextPath, served, abandoned, unclaimed, rolledBack>>

\* Bound: there is room for one more message after the uploads under way.
Room == nextId + Cardinality({s \in Slots : task[s].pc = "store"}) <= MaxSent

\* The files a transaction that stores for u under c removes by its trim: a
\* duplicate does not get so far.
Trimmed(u, c) ==
    IF Log!Fresh(u, c) THEN PathsOf(Log!TrimOnce(Live \cup {nextId})) ELSE {}

\* What the requests under way have still to announce.
Pending ==
    {task[s].message : s \in {t \in Slots : task[t].pc \in {"speak", "publish"}}} \ {None}
PendingGone == UNION {task[s].removed : s \in Slots}

\* Its commit fails: the log stays, files it has removed are gone.
RollBack(paths, held) ==
    /\ Fault
    /\ disk' = disk \ (paths \cup held)
    /\ rolledBack' = rolledBack \cup (paths \cap disk)
    /\ UNCHANGED logVars

-----------------------------------------------------------------------------
(* Sending: the listener of send commands, one command at a time.          *)

\* HandleChatMessageSendCommand up to the transaction.  The command may be
\* the repetition of one that was executed: a duplicate changes nothing and
\* is not announced.
SendCommit(u, c) ==
    /\ task[Listener].pc = "idle"
    /\ Room
    /\ Log!AddMessage(u, c, "text")
    /\ FilesFollow(NoPath)
    /\ task' = [task EXCEPT ![Listener] =
                   [Idle EXCEPT !.pc = "speak", !.user = u, !.client = c,
                                !.message = nextId,
                                !.removed = Live \ DOMAIN messages']]
    /\ UNCHANGED <<eventVars, faults>>

\* The commit of a send fails after the trim has removed files.
SendFails(u, c) ==
    /\ task[Listener].pc = "idle"
    /\ u \in Members /\ Log!Fresh(u, c) /\ nextId <= MaxSent
    /\ RollBack(Trimmed(u, c), {})
    /\ UNCHANGED <<media, nextPath, served, abandoned, unclaimed, eventVars, task>>

-----------------------------------------------------------------------------
(* Uploading: PostChatAudio, PostChatImage, PostChatFile.                  *)

\* The access check, the parsed form and the file under its new name.
WriteFile(s, u, c, k) ==
    /\ Begins(s)
    /\ u \in Members
    /\ nextPath <= MaxUploads /\ Room
    /\ nextPath' = nextPath + 1
    /\ disk' = disk \cup {nextPath}
    /\ task' = [task EXCEPT ![s] =
                   [Idle EXCEPT !.pc = "store", !.user = u, !.client = c,
                                !.kind = k, !.path = nextPath]]
    /\ UNCHANGED <<logVars, media, served, abandoned, unclaimed, rolledBack, eventVars, faults>>

\* AddAudio-, AddImage- or AddFileMessageWithResult stores the message;
\* FilePath is the new file.  Only audio is spoken by Alice.
StoreUpload(s) ==
    /\ task[s].pc = "store"
    /\ Log!AddMessage(task[s].user, task[s].client, task[s].kind)
    /\ FilesFollow(task[s].path)
    /\ task' = [task EXCEPT ![s].pc = IF task[s].kind = "audio" THEN "speak" ELSE "publish",
                            ![s].message = nextId, ![s].path = NoPath,
                            ![s].removed = Live \ DOMAIN messages']
    /\ UNCHANGED <<eventVars, faults>>

\* The user is no member any more: the new file goes.
UploadRefused(s) ==
    /\ task[s].pc = "store"
    /\ task[s].user \notin Members
    /\ disk' = disk \ {task[s].path}
    /\ Stay(s)
    /\ UNCHANGED <<logVars, media, nextPath, served, abandoned, unclaimed, rolledBack, eventVars,
                   faults>>

\* findMessageByClientMessageID returns m to the upload of s: a message of
\* the user under that client_message_id, of any kind.
Finds(s, m) ==
    /\ task[s].client # NoClient
    /\ m \in Live
    /\ messages[m].author = task[s].user /\ messages[m].client = task[s].client

\* Mutant: the file of the first upload goes, not the new one.
UploadRepeated_OldFile(s) ==
    /\ task[s].pc = "store"
    /\ \E m \in Live : Finds(s, m) /\ disk' = disk \ {media[m].path}
    /\ Stay(s)
    /\ UNCHANGED <<logVars, media, nextPath, served, abandoned, unclaimed, rolledBack, eventVars,
                   faults>>

\* The transaction finds a message and stores nothing.  The route removes the
\* new file when that message has a file record of the same kind with another
\* path; it looks at no other record, so next to a text or to media of
\* another kind the new file stays, and nothing names it any more.
UploadRepeated(s) ==
    /\ task[s].pc = "store"
    /\ task[s].user \in Members
    /\ \E m \in Live :
          /\ Finds(s, m)
          /\ \/ messages[m].kind = task[s].kind
                /\ disk' = disk \ {task[s].path} /\ UNCHANGED unclaimed
             \/ messages[m].kind # task[s].kind
                /\ unclaimed' = unclaimed \cup {task[s].path} /\ UNCHANGED disk
    /\ Stay(s)
    /\ UNCHANGED <<logVars, media, nextPath, served, abandoned, rolledBack, eventVars, faults>>

\* The transaction fails: the new file goes, and those of the trim are gone.
UploadFails(s) ==
    /\ task[s].pc = "store"
    /\ nextId <= MaxSent
    /\ task[s].user \in Members
    /\ RollBack(Trimmed(task[s].user, task[s].client), {task[s].path})
    /\ Stay(s)
    /\ UNCHANGED <<media, nextPath, served, abandoned, unclaimed, eventVars>>

-----------------------------------------------------------------------------
(* After the commit: Alice, then the events.                               *)

\* Mutant: every recipient counts, also two with one speaker.
Hears_EachMember(s, d) ==
    Cardinality({u \in Members \ {task[s].user} :
                    u \in DOMAIN DeviceOf /\ DeviceOf[u] = d})

\* collectAliceRecipients: the sender is left out, a speaker comes once.
Hears(s, d) ==
    IF \E u \in Members \ {task[s].user} : u \in DOMAIN DeviceOf /\ DeviceOf[u] = d
    THEN 1 ELSE 0

\* loadChatSnapshot and AnnounceChatMessageOnAliceWithCount: the speakers
\* that took all chunks; none when the sender did not ask for it or may not
\* use Alice.  The flag AliceAnnounced is left out.
Speak(s) ==
    /\ task[s].pc = "speak"
    /\ exists
    /\ \E reached \in SUBSET {d \in Devices : Hears(s, d) > 0} :
          /\ spoken' = [spoken EXCEPT ![task[s].message] =
                [d \in Devices |-> IF d \in reached THEN @[d] + Hears(s, d) ELSE @[d]]]
          /\ GoTo(s, "publish")
    /\ UNCHANGED <<logVars, fileVars, told, toldGone, forgotten, faults>>

\* Without a conversation the listener stops; an upload goes on and asks
\* again when it publishes.
NoSnapshot(s) ==
    /\ task[s].pc = "speak"
    /\ ~exists
    /\ IF s = Listener
       THEN Stay(s) /\ forgotten' = forgotten \cup {task[s].message} \cup task[s].removed
       ELSE GoTo(s, "publish") /\ UNCHANGED forgotten
    /\ UNCHANGED <<logVars, fileVars, told, toldGone, spoken, faults>>

\* The listener publishes from its snapshot, an HTTP request reads the
\* conversation again and gives up without it.
HasSnapshot(s) == s = Listener \/ exists

\* The events of s for message and removed are out, its others are lost.
Announce(s, message, removed) ==
    /\ told' = [m \in DOMAIN told |-> IF m = message THEN told[m] + 1 ELSE told[m]]
    /\ toldGone' = toldGone \cup removed
    /\ forgotten' = forgotten \cup ({task[s].message} \ {message, None})
                              \cup (task[s].removed \ removed)
    /\ Stay(s)
    /\ UNCHANGED <<logVars, fileVars, spoken>>

\* Mutant: a message that trimmed the log is announced as an update only.
Publish_UpdateOnly(s) ==
    /\ task[s].pc = "publish"
    /\ told' = [m \in DOMAIN told |-> IF m = task[s].message /\ task[s].removed = {}
                                      THEN told[m] + 1 ELSE told[m]]
    /\ toldGone' = toldGone \cup task[s].removed
    /\ Stay(s)
    /\ UNCHANGED <<logVars, fileVars, spoken, forgotten, faults>>

\* PublishChatMessagePersistedEvent, then PublishChatConversationUpdatedEvent
\* with the messages the trim removed; PublishChatMessageDeletedEvent.
Publish(s) ==
    /\ task[s].pc = "publish"
    /\ IF HasSnapshot(s) THEN Announce(s, task[s].message, task[s].removed)
                         ELSE Announce(s, None, {})
    /\ UNCHANGED faults

\* The broker cannot be reached for one of them: the error is logged.
PublishFails(s) ==
    /\ task[s].pc = "publish"
    /\ Fault
    /\ \/ Announce(s, None, task[s].removed)
       \/ Announce(s, task[s].message, {})

-----------------------------------------------------------------------------
(* Media: fetched once, or gone when its time is over.                     *)

\* The messages audioExpired, imageExpired and fileExpired hold for and that
\* are not marked yet.
Expirable ==
    {m \in Live : media[m].due /\ ~media[m].consumed /\ ~media[m].expired}

\* expireAudioMessage, expireImageMessage, expireFileMessage
Expire(S) ==
    /\ disk' = disk \ PathsOf(S)
    /\ media' = [m \in 1 .. MaxSent |->
                    IF m \in S THEN [media[m] EXCEPT !.path = NoPath, !.expired = TRUE]
                               ELSE media[m]]
    /\ UNCHANGED <<logVars, nextPath, served, abandoned, unclaimed, rolledBack>>

\* GetChatAudio, GetChatImage, GetChatFile up to os.ReadFile.  A message
\* consumed, expired or without its file is refused at once.
FetchReads(s, u, m) ==
    /\ Begins(s)
    /\ u \in Members /\ m \in Live
    /\ ~media[m].due
    /\ media[m].path \in disk
    /\ task' = [task EXCEPT ![s] = [Idle EXCEPT !.pc = "consume", !.user = u, !.message = m,
                                                !.path = media[m].path]]
    /\ UNCHANGED <<logVars, fileVars, eventVars, faults>>

\* A member asks too late: CleanupExpiredMessage.
FetchExpires(u, m) ==
    /\ u \in Members
    /\ m \in Expirable
    /\ Expire({m})
    /\ UNCHANGED <<eventVars, task, faults>>

\* The transaction refuses what has changed since the look.
MayConsume(s) ==
    /\ task[s].user \in Members
    /\ task[s].message \in Live \ Expirable
    /\ ~media[task[s].message].consumed
    /\ ~media[task[s].message].expired

\* Mutant: the message is not asked again.
FetchConsumes_Unasked(s) ==
    /\ task[s].pc = "consume"
    /\ task[s].message \in Live
    /\ media' = [media EXCEPT ![task[s].message].consumed = TRUE,
                              ![task[s].message].path = NoPath]
    /\ GoTo(s, "remove")
    /\ UNCHANGED <<logVars, disk, nextPath, served, abandoned, unclaimed, rolledBack, eventVars, faults>>

\* ConsumeAudioMessage, ConsumeImageMessage, ConsumeFileMessage
FetchConsumes(s) ==
    /\ task[s].pc = "consume"
    /\ MayConsume(s)
    /\ media' = [media EXCEPT ![task[s].message].consumed = TRUE,
                              ![task[s].message].path = NoPath]
    /\ GoTo(s, "remove")
    /\ UNCHANGED <<logVars, disk, nextPath, served, abandoned, unclaimed, rolledBack, eventVars, faults>>

\* The transaction refuses; it expires what became due since the look.
FetchRefused(s) ==
    /\ task[s].pc = "consume"
    /\ ~MayConsume(s)
    /\ Expire(IF task[s].user \in Members THEN {task[s].message} \cap Expirable ELSE {})
    /\ Stay(s)
    /\ UNCHANGED <<eventVars, faults>>

\* Mutant: the file is left to the cleanup.
FetchServes_KeepsFile(s) ==
    /\ task[s].pc = "remove"
    /\ served' = [served EXCEPT ![task[s].message] = @ + 1]
    /\ Stay(s)
    /\ UNCHANGED <<logVars, media, disk, nextPath, rolledBack, abandoned, unclaimed, eventVars, faults>>

\* The file goes and what was read is the answer.  A failing removal is
\* logged and not tried again.
FetchServes(s) ==
    /\ task[s].pc = "remove"
    /\ served' = [served EXCEPT ![task[s].message] = @ + 1]
    /\ \/ disk' = disk \ {task[s].path} /\ UNCHANGED <<abandoned, faults>>
       \/ Fault /\ abandoned' = abandoned \cup {task[s].path} /\ UNCHANGED disk
    /\ Stay(s)
    /\ UNCHANGED <<logVars, media, nextPath, rolledBack, unclaimed, eventVars>>

\* Expiry comes: by default three hours after the upload.  It does not matter
\* to media that is gone.
TimePasses(m) ==
    /\ m \in Live /\ messages[m].kind \in MediaKinds
    /\ media[m].path # NoPath /\ ~media[m].due
    /\ media' = [media EXCEPT ![m].due = TRUE]
    /\ UNCHANGED <<logVars, disk, nextPath, served, abandoned, unclaimed, rolledBack, eventVars,
                   task, faults>>

\* Mutant: the cleanup runs at the start of the process only.
Cleanup_AtStartOnly ==
    /\ nextId = 1
    /\ Expirable # {}
    /\ Expire(Expirable)
    /\ UNCHANGED <<eventVars, task, faults>>

\* CleanupExpiredMediaMessages: every hour and when the process starts.
Cleanup ==
    /\ Expirable # {}
    /\ Expire(Expirable)
    /\ UNCHANGED <<eventVars, task, faults>>

\* A file that cannot be removed, or the commit, fails the whole cleanup;
\* the files removed before are gone.
CleanupFails ==
    /\ \E S \in SUBSET Expirable : S # {} /\ RollBack(PathsOf(S), {})
    /\ UNCHANGED <<media, nextPath, served, abandoned, unclaimed, eventVars, task>>

-----------------------------------------------------------------------------
(* Deleting, and the process.                                              *)

\* DeleteChatMessage and DeleteChatMessages up to their transactions.
DeleteMessages(s, u, S) ==
    /\ Begins(s)
    /\ \/ Log!ClearConversationMessages(u) /\ S = Live /\ S # {}
       \/ \E m \in Live : Log!DeleteMessage(u, m) /\ S = {m}
    /\ FilesFollow(NoPath)
    /\ task' = [task EXCEPT ![s] = [Idle EXCEPT !.pc = "publish", !.removed = S]]
    /\ UNCHANGED <<eventVars, faults>>

\* The commit fails after files went.
DeleteFails(u, S) ==
    /\ u \in Members /\ S \subseteq Live /\ PathsOf(S) # {}
    /\ RollBack(PathsOf(S), {})
    /\ UNCHANGED <<media, nextPath, served, abandoned, unclaimed, eventVars, task>>

\* DeleteChatDirect and DeleteChatGroup, which publish nothing.
DeleteConversation(u) ==
    /\ Log!DeleteConversation(u)
    /\ FilesFollow(NoPath)
    /\ forgotten' = forgotten \cup Live
    /\ UNCHANGED <<told, toldGone, spoken, task, faults>>

CreateDirectConversation ==
    /\ Log!CreateDirectConversation
    /\ UNCHANGED <<fileVars, eventVars, task, faults>>

\* The process dies: requests and their events are lost, the files a request
\* has written or was to remove stay.
Crash ==
    /\ Fault
    /\ \E s \in Slots : task[s].pc # "idle"
    /\ forgotten' = forgotten \cup Pending \cup PendingGone
    /\ abandoned' = abandoned \cup (disk \cap
          {task[s].path : s \in {t \in Slots : task[t].pc \in {"store", "remove"}}})
    /\ task' = [s \in Slots |-> Idle]
    /\ UNCHANGED <<logVars, media, disk, nextPath, served, unclaimed, rolledBack, told, toldGone, spoken>>

-----------------------------------------------------------------------------
Init ==
    /\ Log!Init
    /\ media = [m \in 1 .. MaxSent |-> NoMedia]
    /\ disk = {} /\ nextPath = 1
    /\ served = [m \in 1 .. MaxSent |-> 0]
    /\ abandoned = {} /\ unclaimed = {} /\ rolledBack = {}
    /\ told = [m \in 1 .. MaxSent |-> 0]
    /\ toldGone = {}
    /\ spoken = [m \in 1 .. MaxSent |-> [d \in Devices |-> 0]]
    /\ forgotten = {}
    /\ task = [s \in Slots |-> Idle]
    /\ faults = 0

\* What a request does once it has begun, faults aside.
Go(s) ==
    \/ StoreUpload(s) \/ UploadRefused(s) \/ UploadRepeated(s)
    \/ Speak(s) \/ NoSnapshot(s) \/ Publish(s)
    \/ FetchConsumes(s) \/ FetchRefused(s)
    \/ FetchServes(s)

Next ==
    \/ \E u \in Senders, c \in SendIds : SendCommit(u, c) \/ SendFails(u, c)
    \/ \E s \in Requests, u \in Senders, c \in UploadIds, k \in MediaKinds :
          WriteFile(s, u, c, k)
    \/ \E s \in Requests, u \in Readers, m \in Live : FetchReads(s, u, m)
    \/ \E u \in Readers, m \in Live : FetchExpires(u, m)
    \/ \E s \in Requests : UploadFails(s)
    \/ \E s \in Slots : Go(s) \/ PublishFails(s)
    \/ \E m \in Live : TimePasses(m)
    \/ Cleanup \/ CleanupFails
    \/ \E s \in Requests, u \in Senders, S \in SUBSET Live : DeleteMessages(s, u, S)
    \/ \E u \in Senders, S \in SUBSET Live : DeleteFails(u, S)
    \/ \E u \in Senders : DeleteConversation(u)
    \/ CreateDirectConversation
    \/ Crash

\* While a request is under way some request goes on, time passes, and the
\* ticker ticks.
Spec ==
    /\ Init /\ [][Next]_vars
    /\ WF_vars(\E s \in Slots : Go(s))
    /\ WF_vars(\E m \in Live : TimePasses(m))
    /\ WF_vars(Cleanup)

-----------------------------------------------------------------------------
(* Properties.                                                             *)

\* Stored messages and files agree although no transaction spans both: the
\* file of a media message is there, unless a transaction that failed later
\* had removed it; no two messages share a file; and a file without a message
\* belongs to a request under way or to one that died or failed to remove it,
\* or its upload repeated the client_message_id of a message of another kind.
\* Such a file stays for good: no message and no request ever has it again.
FilesMatchMessages ==
    /\ \A m \in Live : media[m].path \in disk \cup rolledBack \cup {NoPath}
    /\ \A m, k \in Live : media[m].path = media[k].path => m = k \/ media[m].path = NoPath
    /\ \A p \in disk \ (abandoned \cup unclaimed) :
          \/ p \in PathsOf(Live)
          \/ \E s \in Slots : task[s].pc \in {"store", "remove"} /\ task[s].path = p
    /\ unclaimed \subseteq disk
    /\ \A p \in unclaimed :
          /\ p \notin PathsOf(Live)
          /\ \A s \in Slots : task[s].pc \in {"store", "consume", "remove"} => task[s].path # p

\* The same, with the types of all that requests hold.
DeliveryConsistent == TypeOK /\ FilesMatchMessages

\* Media is sent to one client once, although the file is read before the
\* message is marked consumed; what has expired is not sent after that.
ServedOnce ==
    \A m \in 1 .. MaxSent :
        /\ served[m] <= 1
        /\ served[m] = 1 /\ m \in Live => media[m].consumed /\ ~media[m].expired

\* Every message stored is announced by one event, and every one removed is
\* named by an event, by the request that did it or while that request is
\* still at work.  Without an event are only those whose request died, could
\* not publish, or whose conversation was deleted.
StoreIsAnnounced ==
    \A m \in 1 .. (nextId - 1) :
        /\ told[m] <= 1
        /\ told[m] = 1 \/ m \in Pending \cup forgotten
        /\ m \in Live \cup toldGone \cup PendingGone \cup forgotten

\* A speaker says a message once, whatever the number of members it serves
\* and however often the command is repeated.
SpokenOncePerDevice ==
    \A m \in 1 .. MaxSent, d \in Devices : spoken[m][d] <= 1

\* Media files do not pile up: each is fetched, refused, expired or goes with
\* its message.  Those stay whose request died or could not remove them, and
\* those of uploads that repeat the client_message_id of another kind of
\* message, which the hourly cleanup never sees: it goes by messages.
EveryFileGoes ==
    \A p \in 1 .. MaxUploads : p \in disk ~> p \notin disk \/ p \in abandoned \cup unclaimed

=============================================================================
