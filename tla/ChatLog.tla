------------------------------ MODULE ChatLog ------------------------------
(***************************************************************************)
(* The message log of one chat conversation as the dashboard stores it:    *)
(* internal/store/chat.go, methods of ChatRepository.  Every action is the *)
(* whole body of one bbolt Update transaction; bbolt serialises writers,   *)
(* so transactions are atomic and totally ordered.                         *)
(*                                                                         *)
(* Messages are numbered in the order they are stored.  The code orders    *)
(* them by CreatedAt (wall clock, read inside the transaction) and then by *)
(* ID; a clock that steps back between two transactions is outside this    *)
(* model.  Files of media messages are the subject of another component.   *)
(***************************************************************************)
EXTENDS Naturals, FiniteSets

CONSTANTS
    Users,              \* the e-mails that may be members
    SystemSender,       \* SystemSenderEmail, never a member
    Types,              \* conversation types in play
    InitialMembers,     \* type -> members given to the Create*Conversation call
    ClientIds,          \* client_message_id values clients choose
    NoClient,           \* the empty client_message_id
    Kinds,              \* message types in play that users send
    Limits,             \* values CHAT_MAX_MESSAGES may be configured to
    MaxSent,            \* bound: messages ever stored
    MaxForward,         \* bound: messages in one forward request
    MaxEdits,           \* bound: edits of one message
    MaxAnnotations      \* bound: annotations present at once

ASSUME UsersAssumption ==
    /\ SystemSender \notin Users
    /\ Types \subseteq {"direct", "group", "system"}
    /\ InitialMembers \in [Types -> SUBSET Users]
    /\ NoClient \notin ClientIds
    /\ Kinds \subseteq {"text", "audio", "image", "file"}

\* ConfigureChatMaxMessages accepts nothing below 2.
ASSUME LimitsAssumption ==
    /\ Limits \subseteq Nat \ {0, 1}
    /\ Limits # {}

ASSUME BoundsAssumption ==
    /\ MaxSent \in Nat
    /\ MaxForward \in Nat
    /\ MaxEdits \in Nat
    /\ MaxAnnotations \in Nat

VARIABLES
    type,         \* conversation.Type
    exists,       \* the conversation record is in ChatConversationsBucket
    messages,     \* ChatMessagesBucket: message number -> message
    nextId,       \* the number the next stored message gets
    lastRead,     \* ChatMembersBucket: member -> LastReadMessageID
    pinned,       \* conversation.PinnedMessageID
    last,         \* conversation.LastMessageID
    lastText,     \* conversation.LastMessageText
    annotations,  \* reactions, favorites and reminders
    limit         \* CHAT_MAX_MESSAGES of the running process

vars == <<type, exists, messages, nextId, lastRead, pinned, last, lastText,
          annotations, limit>>

None == 0                     \* the empty message ID
Live == DOMAIN messages
Members == DOMAIN lastRead

Message == [author: Users \cup {SystemSender},
            client: ClientIds \cup {NoClient},
            kind: Kinds \cup {"text", "system"},
            text: Nat,             \* which edit of its text this is
            readBy: SUBSET Users,
            deliveredTo: SUBSET Users]

\* What the list of conversations may show: nothing, message.Text as of an
\* edit, or the name of a file with the words that say it is one.
Label == [form: {"none", "text", "file"}, edit: Nat]

Annotation == [kind: {"reaction", "favorite", "reminder"},
               user: Users,
               message: Nat]

TypeOK ==
    /\ type \in Types
    /\ exists \in BOOLEAN
    /\ nextId \in Nat \ {0}
    /\ IsFiniteSet(Live)
    /\ Live \subseteq 1 .. (nextId - 1)
    /\ messages \in [Live -> Message]
    /\ Members \subseteq Users
    /\ lastRead \in [Members -> Nat]
    /\ pinned \in Nat
    /\ lastText \in Label
    /\ annotations \subseteq Annotation
    /\ limit \in Limits

-----------------------------------------------------------------------------
(* Helpers on the log.                                                     *)

NewMessage(u, c, k) ==
    [author |-> u, client |-> c, kind |-> k, text |-> 0,
     readBy |-> {}, deliveredTo |-> {}]

\* The messages of S in front of m, as loadMessages orders them.
Before(S, m) == {k \in S : k < m}

\* The first n messages of S.
Oldest(S, n) == {m \in S : Cardinality(Before(S, m)) < n}

\* The last element of a non-empty slice of messages.
IsNewest(S, m) == m \in S /\ \A k \in S : k <= m
Newest(S) == IF S = {} THEN None ELSE CHOOSE m \in S : IsNewest(S, m)

\* Mutant: one message too many goes.
TrimOnce_OffByOne(S) ==
    IF Cardinality(S) < limit THEN {} ELSE Oldest(S, limit \div 2 + 1)

\* trimMessagesWithResult: at the limit the oldest half of the limit goes.
TrimOnce(S) ==
    IF Cardinality(S) < limit THEN {} ELSE Oldest(S, limit \div 2)

\* trimMessagesUntilBelowLimitWithResult: whole halves go until the log is
\* below the limit (the loop in closed form).
TrimCount(n) == (limit \div 2) * ((n - limit) \div (limit \div 2) + 1)
TrimUntilBelow(S) ==
    IF Cardinality(S) < limit THEN {} ELSE Oldest(S, TrimCount(Cardinality(S)))

\* Mutants: stale pointers stay; every pointer is reset.
Repaired_Not(surviving) == lastRead
Repaired_All(surviving) == [u \in Members |-> None]

\* repairMemberReadPointersAfterTrim: pointers at nothing become empty.
Repaired(surviving) ==
    [u \in Members |->
        IF lastRead[u] \in surviving THEN lastRead[u] ELSE None]

\* Mutant: deleteAllMessageReminders is forgotten.
WithoutAnnotationsOf_KeepsReminders(removed) ==
    {a \in annotations : a.message \notin removed \/ a.kind = "reminder"}

\* deleteAllMessageReactions / Favorites / Reminders of the removed ones.
WithoutAnnotationsOf(removed) ==
    {a \in annotations : a.message \notin removed}

NoText == [form |-> "none", edit |-> 0]
Text(message) == [form |-> "text", edit |-> message.text]

\* For audio, images and the rest the preview is the very text they have; a
\* file has its bare name as text and a preview with a prefix.
chatMessagePreviewText(message) ==
    IF message.kind = "file" THEN [form |-> "file", edit |-> message.text]
                             ELSE Text(message)

\* updateConversationLastMessage over the messages that stay: it takes their
\* text, not their preview.
ShowNewest ==
    /\ last' = Newest(DOMAIN messages')
    /\ lastText' = IF DOMAIN messages' = {} THEN NoText
                   ELSE Text(messages'[Newest(DOMAIN messages')])

\* What every path that removes messages does to them and to what refers to
\* them, starting from the contents log.
Without(log, removed) ==
    LET kept == [m \in DOMAIN log \ removed |-> log[m]]
    IN  /\ messages' = kept
        /\ lastRead' = Repaired(DOMAIN kept)
        /\ annotations' = WithoutAnnotationsOf(removed)

Keep(log, removed) == Without(log, removed) /\ ShowNewest

\* The log after n messages, each equal to msg, were stored behind the others.
Appended(n, msg) ==
    [m \in Live \cup (nextId .. (nextId + n - 1)) |->
        IF m \in Live THEN messages[m] ELSE msg]

\* The conversation record shows the last of the n messages stored, and a
\* trim below writes it once more.
ShowStored(n, msg, removed) ==
    IF removed = {}
    THEN last' = nextId + n - 1 /\ lastText' = chatMessagePreviewText(msg)
    ELSE ShowNewest

\* Mutant: the last of the batch gets the ID the next message will get.
Store_SameId(n, msg, removed) ==
    /\ exists
    /\ nextId + n - 1 <= MaxSent
    /\ nextId' = nextId + n - 1
    /\ Without(Appended(n, msg), removed)
    /\ ShowStored(n, msg, removed)
    /\ UNCHANGED <<type, exists, pinned, limit>>

\* Storing n messages and trimming: the tail every Add* method shares.
Store(n, msg, removed) ==
    /\ exists
    /\ nextId + n - 1 <= MaxSent
    /\ nextId' = nextId + n
    /\ Without(Appended(n, msg), removed)
    /\ ShowStored(n, msg, removed)
    /\ UNCHANGED <<type, exists, pinned, limit>>

-----------------------------------------------------------------------------
(* The operations.                                                         *)

\* Mutant: a message counts as sent again only while its text is the same.
Fresh_OtherText(u, c) ==
    c = NoClient \/ \A m \in Live :
        messages[m].author = u /\ messages[m].text = 0 => messages[m].client # c

\* findMessageByClientMessageID finds nothing among the stored messages.
Fresh(u, c) ==
    c = NoClient \/ \A m \in Live : messages[m].author = u => messages[m].client # c

\* AddMessageWithClientMessageIDWithResult and the audio, image and file
\* variants.  A duplicate client_message_id returns the stored message and
\* changes nothing.
AddMessage(u, c, k) ==
    /\ u \in Members
    /\ Fresh(u, c)
    /\ Store(1, NewMessage(u, c, k), TrimOnce(Live \cup {nextId}))

\* AddSystemNotificationWithResult (also one round of the batch variant).
AddSystemNotification ==
    /\ type = "system"
    /\ Store(1, NewMessage(SystemSender, NoClient, "system"),
             TrimOnce(Live \cup {nextId}))

\* ForwardMessages with this conversation as the target; the n forwarded
\* copies are plain text without a client_message_id.
ForwardMessages(u, n) ==
    /\ u \in Members
    /\ Store(n, NewMessage(u, NoClient, "text"),
             TrimUntilBelow(Live \cup (nextId .. (nextId + n - 1))))

\* MarkMessageDelivered
MarkMessageDelivered(u, m) ==
    /\ u \in Members
    /\ m \in Live
    /\ messages[m].author # u
    /\ u \notin messages[m].deliveredTo
    /\ messages' = [messages EXCEPT ![m].deliveredTo = @ \cup {u}]
    /\ UNCHANGED <<type, exists, nextId, lastRead, pinned, last, lastText,
                   annotations, limit>>

\* Mutant: the pointer is not compared with the target.
MarkMessagesReadUpTo_Unordered(u, target) ==
    /\ u \in Members
    /\ target \in Live
    /\ messages' = [m \in Live |->
                       IF m <= target /\ messages[m].author # u
                       THEN [messages[m] EXCEPT !.readBy = @ \cup {u}]
                       ELSE messages[m]]
    /\ lastRead' = [lastRead EXCEPT ![u] = target]
    /\ UNCHANGED <<type, exists, nextId, pinned, last, lastText, annotations,
                   limit>>

\* MarkMessagesReadUpToWithResult: receipts on everything of the others up
\* to the target, and the pointer, unless it is already at or behind it.
MarkMessagesReadUpTo(u, target) ==
    /\ u \in Members
    /\ target \in Live
    /\ lastRead[u] \in Live => lastRead[u] < target
    /\ messages' = [m \in Live |->
                       IF m <= target /\ messages[m].author # u
                       THEN [messages[m] EXCEPT !.readBy = @ \cup {u}]
                       ELSE messages[m]]
    /\ lastRead' = [lastRead EXCEPT ![u] = target]
    /\ UNCHANGED <<type, exists, nextId, pinned, last, lastText, annotations,
                   limit>>

\* Mutant: the preview is not updated.
UpdateTextMessage_StalePreview(u, m) ==
    /\ u \in Members
    /\ m \in Live
    /\ messages[m].kind = "text"
    /\ messages[m].author = u
    /\ messages[m].text < MaxEdits
    /\ messages' = [messages EXCEPT ![m].text = @ + 1]
    /\ UNCHANGED <<type, exists, nextId, lastRead, pinned, last, lastText,
                   annotations, limit>>

\* UpdateTextMessage: only the author, only text; the conversation preview
\* follows when the message is the last one.
UpdateTextMessage(u, m) ==
    /\ u \in Members
    /\ m \in Live
    /\ messages[m].kind = "text"
    /\ messages[m].author = u
    /\ messages[m].text < MaxEdits
    /\ messages' = [messages EXCEPT ![m].text = @ + 1]
    /\ lastText' = IF last = m THEN Text(messages'[m]) ELSE lastText
    /\ UNCHANGED <<type, exists, nextId, lastRead, pinned, last, annotations,
                   limit>>

\* Mutant: the pin of the deleted message stays.
DeleteMessage_KeepsPin(u, m) ==
    /\ u \in Members
    /\ m \in Live
    /\ Keep(messages, {m})
    /\ UNCHANGED <<type, exists, nextId, pinned, limit>>

\* DeleteMessage: any member may delete any message.
DeleteMessage(u, m) ==
    /\ u \in Members
    /\ m \in Live
    /\ Keep(messages, {m})
    /\ pinned' = IF pinned = m THEN None ELSE pinned
    /\ UNCHANGED <<type, exists, nextId, limit>>

\* ClearConversationMessages
ClearConversationMessages(u) ==
    /\ u \in Members
    /\ Keep(messages, Live)
    /\ pinned' = None
    /\ UNCHANGED <<type, exists, nextId, limit>>

\* SetPinnedMessage
SetPinnedMessage(u, m) ==
    /\ u \in Members
    /\ m \in Live
    /\ pinned' = m
    /\ UNCHANGED <<type, exists, messages, nextId, lastRead, last, lastText,
                   annotations, limit>>

\* ClearPinnedMessage
ClearPinnedMessage(u) ==
    /\ u \in Members
    /\ pinned' = None
    /\ UNCHANGED <<type, exists, messages, nextId, lastRead, last, lastText,
                   annotations, limit>>

\* SetMessageReaction, SetMessageFavorite, CreateReminder: a member, on a
\* stored message.
Annotate(kind, u, m) ==
    LET a == [kind |-> kind, user |-> u, message |-> m]
    IN  /\ u \in Members
        /\ m \in Live
        /\ a \notin annotations
        /\ Cardinality(annotations) < MaxAnnotations
        /\ annotations' = annotations \cup {a}
        /\ UNCHANGED <<type, exists, messages, nextId, lastRead, pinned, last,
                       lastText, limit>>

\* DeleteMessageReaction and DeleteMessageFavorite ask for membership,
\* DeleteReminder only for the owner of the reminder.
RemoveAnnotation(a) ==
    /\ a \in annotations
    /\ a.kind # "reminder" => a.user \in Members /\ a.message \in Live
    /\ annotations' = annotations \ {a}
    /\ UNCHANGED <<type, exists, messages, nextId, lastRead, pinned, last,
                   lastText, limit>>

\* AddGroupMembers: a new member starts without a pointer, an existing one
\* keeps its record.
AddGroupMember(u) ==
    /\ type = "group"
    /\ exists
    /\ u \in Users \ Members
    /\ lastRead' = [x \in Members \cup {u} |-> IF x = u THEN None ELSE lastRead[x]]
    /\ UNCHANGED <<type, exists, messages, nextId, pinned, last, lastText,
                   annotations, limit>>

\* RemoveGroupMembers drops the member record and nothing else.
RemoveGroupMember(u) ==
    /\ type = "group"
    /\ u \in Members
    /\ lastRead' = [x \in Members \ {u} |-> lastRead[x]]
    /\ UNCHANGED <<type, exists, messages, nextId, pinned, last, lastText,
                   annotations, limit>>

\* deleteConversationByType: messages with all that hangs on them, members
\* and the conversation record.
DeleteConversation(u) ==
    /\ type # "system"
    /\ u \in Members
    /\ exists' = FALSE
    /\ messages' = [m \in {} |-> messages[m]]
    /\ annotations' = WithoutAnnotationsOf(Live)
    /\ lastRead' = [x \in {} |-> None]
    /\ pinned' = None
    /\ last' = None
    /\ lastText' = NoText
    /\ UNCHANGED <<type, nextId, limit>>

\* CreateDirectConversation after a deletion: the ID is a function of the
\* pair, so the same conversation comes back, empty.
CreateDirectConversation ==
    /\ type = "direct"
    /\ ~exists
    /\ exists' = TRUE
    /\ lastRead' = [x \in InitialMembers[type] |-> None]
    /\ UNCHANGED <<type, messages, nextId, pinned, last, lastText, annotations,
                   limit>>

\* A restart of cmd/dash may read another CHAT_MAX_MESSAGES; the database
\* stays as it is.
Restart ==
    /\ limit' \in Limits \ {limit}
    /\ UNCHANGED <<type, exists, messages, nextId, lastRead, pinned, last,
                   lastText, annotations>>

-----------------------------------------------------------------------------
Init ==
    /\ type \in Types
    /\ exists = TRUE
    /\ messages = [m \in {} |-> None]
    /\ nextId = 1
    /\ lastRead = [u \in InitialMembers[type] |-> None]
    /\ pinned = None
    /\ last = None
    /\ lastText = NoText
    /\ annotations = {}
    /\ limit \in Limits

Next ==
    \/ \E u \in Users, c \in ClientIds \cup {NoClient}, k \in Kinds : AddMessage(u, c, k)
    \/ AddSystemNotification
    \/ \E u \in Users, n \in 1 .. MaxForward : ForwardMessages(u, n)
    \/ \E u \in Users, m \in Live : MarkMessageDelivered(u, m)
    \/ \E u \in Users, m \in Live : MarkMessagesReadUpTo(u, m)
    \/ \E u \in Users, m \in Live : UpdateTextMessage(u, m)
    \/ \E u \in Users, m \in Live : DeleteMessage(u, m)
    \/ \E u \in Users : ClearConversationMessages(u)
    \/ \E u \in Users, m \in Live : SetPinnedMessage(u, m)
    \/ \E u \in Users : ClearPinnedMessage(u)
    \/ \E kind \in {"reaction", "favorite", "reminder"}, u \in Users, m \in Live :
          Annotate(kind, u, m)
    \/ \E a \in annotations : RemoveAnnotation(a)
    \/ \E u \in Users : AddGroupMember(u)
    \/ \E u \in Users : RemoveGroupMember(u)
    \/ \E u \in Users : DeleteConversation(u)
    \/ CreateDirectConversation
    \/ Restart

Spec == Init /\ [][Next]_vars

-----------------------------------------------------------------------------
(* Views of the log that the HTTP layer computes.                          *)

\* unreadCount in internal/http/routes/chat_helpers.go, as a set.
Unread(u) ==
    {m \in Live : m > lastRead[u] /\ messages[m].author # u}

-----------------------------------------------------------------------------
(* Safety.                                                                 *)

\* The conversation list shows the newest stored message, whatever mix of
\* sends, edits, trims and deletions led here (LastMessageID and
\* LastMessageText are a copy kept by hand on each path): its text as last
\* edited or, for a file, the preview with its prefix.  The prefix is there
\* for the file stored last of all only: one that became the newest again by
\* a deletion is shown by its bare name.
PreviewShowsNewest ==
    /\ last = Newest(Live)
    /\ Live = {} => lastText = NoText
    /\ Live # {} =>
          \/ lastText = Text(messages[last])
          \/ lastText = chatMessagePreviewText(messages[last]) /\ last = nextId - 1

\* A member's read pointer is empty or names a stored message, and every
\* message of the others up to it carries that member's read receipt:
\* the two records of "read" kept by MarkMessagesReadUpToWithResult and
\* repaired by trims and deletions never contradict each other.
PointerBackedByReceipts ==
    \A u \in Members : lastRead[u] # None =>
        /\ lastRead[u] \in Live
        /\ \A m \in Live : m <= lastRead[u] /\ messages[m].author # u
                             => u \in messages[m].readBy

\* Reactions, favorites and reminders always hang on a stored message, even
\* those of users who are no longer members: every removal path (delete,
\* clear, trim, conversation deletion) takes them along.
AnnotationsOnStoredMessages ==
    \A a \in annotations : a.message \in Live

\* At any time a client_message_id of a sender names one stored message.
OneMessagePerClientId ==
    \A m, k \in Live :
        /\ messages[m].client # NoClient
        /\ messages[m].client = messages[k].client
        /\ messages[m].author = messages[k].author
        => m = k

\* SetPinnedMessage checks the message, DeleteMessage and Clear take the pin
\* away, the trim does not: a pin that points at nothing is always one the
\* trim pushed out, older than everything stored.
LostPinIsOlder ==
    pinned # None /\ pinned \notin Live => \A m \in Live : pinned < m

-----------------------------------------------------------------------------
(* Action properties.                                                      *)

\* A read pointer never moves back while the message it names is stored and
\* the member stays, whatever order read commands arrive in.
PointerNeverMovesBack ==
    [][\A u \in Members \cap Members' :
          lastRead[u] \in Live' => lastRead'[u] >= lastRead[u]]_vars

\* A message that was not unread for a member becomes unread again only by
\* the removal of the very message the member's pointer named.
UnreadComesBackOnlyByRemoval ==
    [][\A u \in Members \cap Members' :
          (\E m \in Live : m \notin Unread(u) /\ m \in Unread(u)')
             => lastRead[u] \in Live \ Live']_vars

\* Storing messages removes only older ones, never the newest it has just
\* stored, and the log never grows to the limit in force.
StoringTrimsOldest ==
    [][nextId' # nextId =>
          /\ nextId' - 1 \in Live'
          /\ \A r \in Live \ Live', m \in Live' : r < m
          /\ Cardinality(Live') > Cardinality(Live) => Cardinality(Live') < limit]_vars
=============================================================================
