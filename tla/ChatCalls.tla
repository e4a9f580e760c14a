------------------------------ MODULE ChatCalls ------------------------------
(***************************************************************************)
(* Group calls: the call methods of ChatRepository                         *)
(* (internal/store/chat.go) and the HTTP handlers that call them           *)
(* (internal/http/routes/*ChatCall*.go), over several conversations and    *)
(* with every operation of the message log that takes a call away.         *)
(*                                                                         *)
(* A call is stored twice: as a record in ChatCallsBucket and as a card,   *)
(* a message of type "call" that shows it.  Both IDs are made together, so *)
(* one number stands for both; messages are numbered in storing order.     *)
(* Ended calls are deleted, so the bucket holds active ones only.          *)
(***************************************************************************)
EXTENDS Naturals, FiniteSets

CONSTANTS
    Users,
    Conversations,   \* group conversations
    MaxParticipants, \* CHAT_CALL_MAX_MEMBERS
    Limit,           \* CHAT_MAX_MESSAGES
    MaxSent,         \* bound: messages ever stored
    MaxRequests      \* bound: requests between their two steps

ASSUME CallsAssumption ==
    /\ MaxParticipants \in Nat \ {0}
    /\ Limit \in Nat \ {0, 1}
    /\ MaxSent \in Nat
    /\ MaxRequests \in Nat

VARIABLES
    members,    \* ChatMembersBucket, by conversation
    log,        \* numbers of the stored messages, by conversation
    nextId,
    calls,      \* ChatCallsBucket: number -> call
    cards,      \* message.Call of the stored call messages: number -> card
    requests    \* requests that passed ensureConversationAccess

vars == <<members, log, nextId, calls, cards, requests>>

Ids == 1 .. MaxSent
Active == DOMAIN calls

Call == [conversation: Conversations, participants: SUBSET Users, muted: SUBSET Users]
Card == [joinable: BOOLEAN, count: Nat]
Request == [op: {"leave", "end", "mute", "unmute"}, user: Users,
            conversation: Conversations, call: Ids]

TypeOK ==
    /\ members \in [Conversations -> SUBSET Users]
    /\ log \in [Conversations -> SUBSET Ids]
    /\ nextId \in 1 .. MaxSent + 1
    /\ Active \subseteq Ids
    /\ calls \in [Active -> Call]
    /\ \A id \in Active : Cardinality(calls[id].participants) \in 1 .. MaxParticipants
    /\ DOMAIN cards \subseteq UNION {log[c] : c \in Conversations}
    /\ cards \in [DOMAIN cards -> Card]
    /\ requests \subseteq Request

-----------------------------------------------------------------------------
(* Helpers.                                                                *)

Without(f, S) == [x \in DOMAIN f \ S |-> f[x]]
With(f, x, value) == [y \in DOMAIN f \cup {x} |-> IF y = x THEN value ELSE f[y]]

\* trimMessagesWithResult: at the limit the oldest half of the limit goes.
Trimmed(S) ==
    IF Cardinality(S) < Limit THEN {}
    ELSE {m \in S : Cardinality({k \in S : k < m}) < Limit \div 2}

\* Mutant: removeMessageCall is forgotten.
RemoveMessages_KeepsCalls(removed, fromCalls, fromCards) ==
    /\ calls' = fromCalls
    /\ cards' = Without(fromCards, removed)

\* Every path that removes messages takes their calls along
\* (removeMessageCall).
RemoveMessages(removed, fromCalls, fromCards) ==
    /\ calls' = Without(fromCalls, removed)
    /\ cards' = Without(fromCards, removed)

\* loadActiveCall, loadActiveCallForUser
HasActiveCall(c) == \E id \in Active : calls[id].conversation = c
CallsOf(u) == {id \in Active : u \in calls[id].participants}

\* syncCallMessage: the card of a call with these participants; a call
\* without any has ended.
SyncedCard(participants) ==
    [joinable |-> participants # {}, count |-> Cardinality(participants)]

\* A message with the next number, in a transaction that trims.
Stored(c) == log[c] \cup {nextId}
AppendAndTrim(c, newCalls, newCards) ==
    LET removed == Trimmed(Stored(c))
    IN  /\ nextId <= MaxSent
        /\ nextId' = nextId + 1
        /\ log' = [log EXCEPT ![c] = Stored(c) \ removed]
        /\ RemoveMessages(removed, newCalls, newCards)

-----------------------------------------------------------------------------
(* Calls.                                                                  *)

\* Mutant: a second call of the conversation is let through.
StartCall_SecondInConversation(u, c) ==
    /\ u \in members[c]
    /\ CallsOf(u) = {}
    /\ AppendAndTrim(c,
          With(calls, nextId, [conversation |-> c, participants |-> {u}, muted |-> {}]),
          With(cards, nextId, SyncedCard({u})))
    /\ UNCHANGED <<members, requests>>

\* StartCall
StartCall(u, c) ==
    /\ u \in members[c]
    /\ ~HasActiveCall(c)
    /\ CallsOf(u) = {}
    /\ AppendAndTrim(c,
          With(calls, nextId, [conversation |-> c, participants |-> {u}, muted |-> {}]),
          With(cards, nextId, SyncedCard({u})))
    /\ UNCHANGED <<members, requests>>

\* Mutants: the user's other calls, the capacity, the end of the call are not
\* looked at.
JoinCall_FromOtherCall(u, id) ==
    /\ id \in Active
    /\ u \in members[calls[id].conversation]
    /\ u \notin calls[id].participants
    /\ Cardinality(calls[id].participants) < MaxParticipants
    /\ LET joined == calls[id].participants \cup {u}
       IN  /\ calls' = [calls EXCEPT ![id].participants = joined]
           /\ cards' = With(cards, id, SyncedCard(joined))
    /\ UNCHANGED <<members, log, nextId, requests>>
JoinCall_PastCapacity(u, id) ==
    /\ id \in Active
    /\ u \in members[calls[id].conversation]
    /\ CallsOf(u) \subseteq {id}
    /\ u \notin calls[id].participants
    /\ Cardinality(calls[id].participants) <= MaxParticipants
    /\ LET joined == calls[id].participants \cup {u}
       IN  /\ calls' = [calls EXCEPT ![id].participants = joined]
           /\ cards' = With(cards, id, SyncedCard(joined))
    /\ UNCHANGED <<members, log, nextId, requests>>

JoinCall_Ended(u, id) ==
    /\ id \in DOMAIN cards
    /\ \E c \in Conversations :
          /\ id \in log[c]
          /\ u \in members[c]
          /\ ~HasActiveCall(c)
          /\ CallsOf(u) = {}
          /\ calls' = With(calls, id, [conversation |-> c, participants |-> {u}, muted |-> {}])
          /\ cards' = With(cards, id, SyncedCard({u}))
    /\ UNCHANGED <<members, log, nextId, requests>>

\* JoinCall: members, the call of this conversation, one call per user, once,
\* up to the capacity.
JoinCall(u, id) ==
    /\ id \in Active
    /\ u \in members[calls[id].conversation]
    /\ CallsOf(u) \subseteq {id}
    /\ u \notin calls[id].participants
    /\ Cardinality(calls[id].participants) < MaxParticipants
    /\ LET joined == calls[id].participants \cup {u}
       IN  /\ calls' = [calls EXCEPT ![id].participants = joined]
           /\ cards' = With(cards, id, SyncedCard(joined))
    /\ UNCHANGED <<members, log, nextId, requests>>

\* The handlers of leave, end and mute ask ensureConversationAccess first;
\* the transaction that follows does not ask again.
PassAccess(r) ==
    /\ r \in Request
    /\ r.user \in members[r.conversation]
    /\ r.call < nextId
    /\ r \notin requests
    /\ Cardinality(requests) < MaxRequests
    /\ requests' = requests \cup {r}
    /\ UNCHANGED <<members, log, nextId, calls, cards>>

Finish(r) == requests' = requests \ {r}

\* The call named by the request exists and belongs to its conversation.
Found(r) == r.call \in Active /\ calls[r.call].conversation = r.conversation

InCall(r) == Found(r) /\ r.user \in calls[r.call].participants

\* A transaction that refuses leaves everything as it was.
Refuse(r) ==
    /\ r \in requests
    /\ CASE r.op \in {"leave", "mute", "unmute"} -> ~InCall(r)
         [] r.op = "end" -> ~Found(r)
    /\ Finish(r)
    /\ UNCHANGED <<members, log, nextId, calls, cards>>

\* LeaveCall: the last one out ends the call.
LeaveCall(r) ==
    /\ r \in requests /\ r.op = "leave" /\ InCall(r)
    /\ LET left == calls[r.call].participants \ {r.user}
       IN  /\ calls' = IF left = {} THEN Without(calls, {r.call})
                       ELSE [calls EXCEPT ![r.call].participants = left,
                                          ![r.call].muted = @ \ {r.user}]
           /\ cards' = With(cards, r.call, SyncedCard(left))
    /\ Finish(r)
    /\ UNCHANGED <<members, log, nextId>>

\* EndCall: any member of the conversation, in the call or not.
EndCall(r) ==
    /\ r \in requests /\ r.op = "end" /\ Found(r)
    /\ calls' = Without(calls, {r.call})
    /\ cards' = With(cards, r.call, SyncedCard({}))
    /\ Finish(r)
    /\ UNCHANGED <<members, log, nextId>>

\* SetCallMuted: the card does not show it.
SetCallMuted(r) ==
    /\ r \in requests /\ r.op \in {"mute", "unmute"} /\ InCall(r)
    /\ calls' = [calls EXCEPT ![r.call].muted =
                    IF r.op = "mute" THEN @ \cup {r.user} ELSE @ \ {r.user}]
    /\ Finish(r)
    /\ UNCHANGED <<members, log, nextId, cards>>

-----------------------------------------------------------------------------
(* What the rest of the chat does to calls.                                *)

\* Any Add* method of the log.
AddMessage(c) ==
    /\ members[c] # {}
    /\ AppendAndTrim(c, calls, cards)
    /\ UNCHANGED <<members, requests>>

\* DeleteMessage, ClearConversationMessages: by a member.
DeleteMessages(c, removed) ==
    /\ members[c] # {}
    /\ log' = [log EXCEPT ![c] = @ \ removed]
    /\ RemoveMessages(removed, calls, cards)
    /\ UNCHANGED <<members, nextId, requests>>

\* AddGroupMembers and RemoveGroupMembers touch no call.
AddGroupMember(c, u) ==
    /\ members[c] # {}
    /\ u \notin members[c]
    /\ members' = [members EXCEPT ![c] = @ \cup {u}]
    /\ UNCHANGED <<log, nextId, calls, cards, requests>>

\* The owner is never removed, so somebody stays.
RemoveGroupMember(c, u) ==
    /\ u \in members[c]
    /\ members[c] # {u}
    /\ members' = [members EXCEPT ![c] = @ \ {u}]
    /\ UNCHANGED <<log, nextId, calls, cards, requests>>

\* deleteConversationByType: messages with their calls, then the members.
DeleteConversation(c) ==
    /\ members[c] # {}
    /\ members' = [members EXCEPT ![c] = {}]
    /\ log' = [log EXCEPT ![c] = {}]
    /\ RemoveMessages(log[c], calls, cards)
    /\ UNCHANGED <<nextId, requests>>

-----------------------------------------------------------------------------
Init ==
    /\ members \in [Conversations -> (SUBSET Users) \ {{}}]
    /\ log = [c \in Conversations |-> {}]
    /\ nextId = 1
    /\ calls = [id \in {} |-> 0]
    /\ cards = [id \in {} |-> 0]
    /\ requests = {}

Next ==
    \/ \E u \in Users, c \in Conversations : StartCall(u, c)
    \/ \E u \in Users, id \in 1 .. nextId - 1 : JoinCall(u, id)
    \/ \E r \in [op: {"leave", "end", "mute", "unmute"}, user: Users,
                 conversation: Conversations, call: 1 .. nextId - 1] : PassAccess(r)
    \/ \E r \in requests :
          Refuse(r) \/ LeaveCall(r) \/ EndCall(r) \/ SetCallMuted(r)
    \/ \E c \in Conversations : AddMessage(c)
    \/ \E c \in Conversations : \E m \in log[c] : DeleteMessages(c, {m})
    \/ \E c \in Conversations : DeleteMessages(c, log[c])
    \/ \E c \in Conversations, u \in Users : AddGroupMember(c, u)
    \/ \E c \in Conversations, u \in Users : RemoveGroupMember(c, u)
    \/ \E c \in Conversations : DeleteConversation(c)

Spec == Init /\ [][Next]_vars

-----------------------------------------------------------------------------
(* Properties.                                                             *)

\* "conversation already has an active call": whatever starts, ends, trims
\* and deletions come between, a conversation has one active call at most.
OneCallPerConversation ==
    \A a, b \in Active : calls[a].conversation = calls[b].conversation => a = b

\* "user already has an active call": nobody is in two calls, although the
\* check is made on different calls by StartCall and JoinCall and a removed
\* member stays in the call.
OneCallPerUser ==
    \A a, b \in Active : calls[a].participants \cap calls[b].participants # {} => a = b

\* Calls exclude one another as the code's two refusals say, within the
\* capacity that is part of TypeOK.
CallsConsistent == TypeOK /\ OneCallPerConversation /\ OneCallPerUser

\* The two records of a call agree: an active call has its card in the log of
\* its conversation, joinable and with the right count, and a joinable card
\* has its call.  A card somebody can press never leads nowhere.
CardsShowCalls ==
    /\ \A id \in Active :
          /\ id \in log[calls[id].conversation]
          /\ id \in DOMAIN cards
          /\ cards[id] = [joinable |-> TRUE, count |-> Cardinality(calls[id].participants)]
    /\ \A id \in DOMAIN cards : cards[id].joinable => id \in Active

\* A call that is over stays over: no join, leave or mute that passed its
\* access check before the end brings it back.
CallNeverReopens ==
    [][\A id \in 1 .. nextId - 1 : id \notin Active => id \notin DOMAIN calls']_vars
=============================================================================
