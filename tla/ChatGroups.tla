----------------------------- MODULE ChatGroups -----------------------------
(***************************************************************************)
(* Conversations, their members and roles, and the drafts users keep in    *)
(* them: ChatRepository in internal/store/chat.go and the routes of groups *)
(* and direct chats in internal/http/routes.  A route checks the role of   *)
(* its user on a snapshot and changes the group in a transaction of its    *)
(* own; in between other requests may change everything.                   *)
(*                                                                         *)
(* The ID of a group is new for each group.  That of a direct chat is a    *)
(* function of the two e-mails (here: the set of them), that of a system   *)
(* conversation of the one (here: the singleton).                          *)
(***************************************************************************)
EXTENDS Naturals, FiniteSets

CONSTANTS
    Users,          \* e-mails
    Groups,         \* IDs of groups
    Directs,        \* IDs of the direct chats in play: sets of two users
    Systems,        \* IDs of the system conversations in play: sets of one
    Sees,           \* pairs of users: the first sees the second (canSeeChatUser)
    MaxRequests,    \* bound: approved requests at a time
    Drafters        \* users who keep drafts

\* On the constants; Services assumes it of its instance.  A generated ID
\* is never that of a direct chat or a system conversation, which have their
\* own prefixes.
IdsAssumption ==
    /\ Groups \cap (Directs \cup Systems) = {}
    /\ \A c \in Directs : c \subseteq Users /\ Cardinality(c) = 2
    /\ \A c \in Systems : c \subseteq Users /\ Cardinality(c) = 1

SeesAssumption ==
    /\ Sees \subseteq Users \X Users
    /\ \A u \in Users : <<u, u>> \in Sees

VARIABLES
    exists,     \* IDs in ChatConversationsBucket
    creator,    \* conversation.CreatedByEmail of the groups created so far
    role,       \* ChatMembersBucket: conversation -> member -> role
    index,      \* ChatUserConversationsBucket: user -> conversations
    drafts,     \* ChatDraftsBucket: pairs of user and conversation
    request     \* slot -> a request whose check has passed, or Free

vars == <<exists, creator, role, index, drafts, request>>

Ids == Groups \cup Directs \cup Systems
Roles == {"owner", "admin", "member"}
RequestSlots == 1 .. MaxRequests
Free == [op |-> "none"]

Members(c) == DOMAIN role[c]
NoMembers == [u \in {} |-> "member"]

TypeOK ==
    /\ exists \subseteq Ids
    /\ DOMAIN creator \subseteq Groups
    /\ \A c \in Ids : Members(c) \subseteq Users /\ \A u \in Members(c) : role[c][u] \in Roles
    /\ index \in [Users -> SUBSET Ids]
    /\ drafts \subseteq Drafters \X Ids
    /\ DOMAIN request = RequestSlots

-----------------------------------------------------------------------------
(* The transactions' helpers.                                              *)

\* saveMember and addUserConversation for each of new; a member who is there
\* keeps the record it has.
Join(c, new) ==
    /\ role' = [role EXCEPT ![c] =
          [u \in Members(c) \cup DOMAIN new |->
              IF u \in Members(c) THEN role[c][u] ELSE new[u]]]
    /\ index' = [u \in Users |->
          IF u \in DOMAIN new THEN index[u] \cup {c} ELSE index[u]]

\* Mutant: the conversation stays in the list of those who leave.
Leave_KeepsIndex(c, gone) ==
    /\ role' = [role EXCEPT ![c] = [u \in Members(c) \ gone |-> role[c][u]]]
    /\ UNCHANGED index

\* The members who go, with removeUserConversation for each of them.
Leave(c, gone) ==
    /\ role' = [role EXCEPT ![c] = [u \in Members(c) \ gone |-> role[c][u]]]
    /\ index' = [u \in Users |->
          IF u \in gone \cap Members(c) THEN index[u] \ {c} ELSE index[u]]

-----------------------------------------------------------------------------
(* Creating conversations.                                                 *)

\* PostChatGroup and CreateGroupConversation: the first member is the owner.
CreateGroup(u, g, others) ==
    /\ g \in Groups \ DOMAIN creator
    /\ \A v \in others : <<u, v>> \in Sees
    /\ exists' = exists \cup {g}
    /\ creator' = [x \in DOMAIN creator \cup {g} |-> IF x = g THEN u ELSE creator[x]]
    /\ Join(g, [v \in others \cup {u} |-> IF v = u THEN "owner" ELSE "member"])
    /\ UNCHANGED <<drafts, request>>

\* PostChatDirect, of users who see one another, and a send command without
\* a conversation, of any two: CreateDirectConversation finds it or stores it.
CreateDirect(u, v) ==
    /\ {u, v} \in Directs
    /\ exists' = exists \cup {{u, v}}
    /\ Join({u, v}, [w \in {u, v} |-> "member"])
    /\ UNCHANGED <<creator, drafts, request>>

\* EnsureSystemConversationForUser
EnsureSystem(u) ==
    /\ {u} \in Systems
    /\ exists' = exists \cup {{u}}
    /\ Join({u}, [w \in {u} |-> "member"])
    /\ UNCHANGED <<creator, drafts, request>>

-----------------------------------------------------------------------------
(* The check of a route, on a snapshot.                                    *)

\* canRenameGroup, canAddGroupMembers
MayAdd(c, u) == role[c][u] \in {"owner", "admin"}

\* canManageGroupRoles, canDeleteGroup
MayGovern(c, u) == role[c][u] = "owner"

\* Mutant: an owner may go like everybody else.
MayRemove_Self(c, u, v) ==
    IF u = v THEN TRUE
    ELSE \/ role[c][u] = "owner"
         \/ role[c][u] = "admin" /\ role[c][v] = "member"

\* canRemoveTarget
MayRemove(c, u, v) ==
    IF u = v THEN role[c][u] # "owner"
    ELSE \/ role[c][u] = "owner"
         \/ role[c][u] = "admin" /\ role[c][v] = "member"

\* PostChatGroupMembers, DeleteChatGroupMembers, PatchChatGroupMember,
\* DeleteChatGroup and DeleteChatDirect up to their transactions.  The type
\* of the conversation is not asked here; a user to be removed who is no
\* member in the snapshot is not looked at.
MayAsk(u, op, c, v) ==
    CASE op = "add" -> MayAdd(c, u) /\ <<u, v>> \in Sees
      [] op = "remove" -> v \in Members(c) => MayRemove(c, u, v)
      [] op \in {"admin", "member"} ->
            MayGovern(c, u) /\ v \in Members(c) /\ role[c][v] # "owner"
      [] op = "deleteGroup" -> MayGovern(c, u)
      [] op = "deleteDirect" ->
            c \in Directs /\ \A w \in Members(c) : <<u, w>> \in Sees

\* ensureGroupMember, the roles of the snapshot, the request is approved.
Approve(r, u, op, c, v) ==
    /\ request[r] = Free
    /\ \A s \in RequestSlots : request[s] = Free => r <= s
    /\ c \in exists /\ u \in Members(c)
    /\ MayAsk(u, op, c, v)
    /\ request' = [request EXCEPT ![r] = [op |-> op, conv |-> c, user |-> v]]
    /\ UNCHANGED <<exists, creator, role, index, drafts>>

-----------------------------------------------------------------------------
(* The transaction of an approved request.                                 *)

Answered(r) == request' = [request EXCEPT ![r] = Free]

\* loadConversation and the type every transaction asks for.
IsGroup(c) == c \in exists \cap Groups

\* Mutant: the conversation is not loaded first.
AddGroupMembers_Unasked(r) ==
    /\ request[r].op = "add"
    /\ Join(request[r].conv, [w \in {request[r].user} |-> "member"])
    /\ Answered(r)
    /\ UNCHANGED <<exists, creator, drafts>>

AddGroupMembers(r) ==
    /\ request[r].op = "add"
    /\ IsGroup(request[r].conv)
    /\ Join(request[r].conv, [w \in {request[r].user} |-> "member"])
    /\ Answered(r)
    /\ UNCHANGED <<exists, creator, drafts>>

RemoveGroupMembers(r) ==
    /\ request[r].op = "remove"
    /\ IsGroup(request[r].conv)
    /\ Leave(request[r].conv, {request[r].user})
    /\ Answered(r)
    /\ UNCHANGED <<exists, creator, drafts>>

\* SetGroupMemberRole asks for a member record, not for the role it has.
SetGroupMemberRole(r) ==
    /\ request[r].op \in {"admin", "member"}
    /\ IsGroup(request[r].conv)
    /\ request[r].user \in Members(request[r].conv)
    /\ role' = [role EXCEPT ![request[r].conv][request[r].user] = request[r].op]
    /\ Answered(r)
    /\ UNCHANGED <<exists, creator, index, drafts>>

\* deleteConversationByType: drafts stay.
DeleteConversation(r) ==
    LET c == request[r].conv
    IN  /\ \/ request[r].op = "deleteGroup" /\ IsGroup(c)
           \/ request[r].op = "deleteDirect" /\ c \in exists
        /\ exists' = exists \ {c}
        /\ Leave(c, Members(c))
        /\ Answered(r)
        /\ UNCHANGED <<creator, drafts>>

\* The transaction refuses: gone, not a group, or no member to change.
Refused(r) ==
    /\ request[r] # Free
    /\ \/ request[r].conv \notin exists
       \/ request[r].op # "deleteDirect" /\ ~IsGroup(request[r].conv)
       \/ /\ request[r].op \in {"admin", "member"}
          /\ request[r].user \notin Members(request[r].conv)
    /\ Answered(r)
    /\ UNCHANGED <<exists, creator, role, index, drafts>>

-----------------------------------------------------------------------------
(* Drafts: PutChatDraft, DeleteChatDraft.                                  *)

SaveChatDraft(u, c) ==
    /\ u \in Members(c)
    /\ drafts' = drafts \cup {<<u, c>>}
    /\ UNCHANGED <<exists, creator, role, index, request>>

ClearChatDraft(u, c) ==
    /\ u \in Members(c)
    /\ drafts' = drafts \ {<<u, c>>}
    /\ UNCHANGED <<exists, creator, role, index, request>>

-----------------------------------------------------------------------------
Init ==
    /\ exists = {}
    /\ creator = [g \in {} |-> Users]
    /\ role = [c \in Ids |-> NoMembers]
    /\ index = [u \in Users |-> {}]
    /\ drafts = {}
    /\ request = [r \in RequestSlots |-> Free]

Operations == {"add", "remove", "admin", "member", "deleteGroup", "deleteDirect"}

Next ==
    \/ \E u \in Users, g \in Groups, others \in SUBSET Users : CreateGroup(u, g, others)
    \/ \E u, v \in Users : CreateDirect(u, v)
    \/ \E u \in Users : EnsureSystem(u)
    \/ \E r \in RequestSlots, u \in Users, op \in Operations, c \in exists, v \in Users :
          Approve(r, u, op, c, v)
    \/ \E r \in RequestSlots : \/ AddGroupMembers(r) \/ RemoveGroupMembers(r)
                        \/ SetGroupMemberRole(r) \/ DeleteConversation(r)
                        \/ Refused(r)
    \/ \E u \in Drafters, c \in Groups \cup Directs : SaveChatDraft(u, c) \/ ClearChatDraft(u, c)

Spec == Init /\ [][Next]_vars

-----------------------------------------------------------------------------
(* Properties.                                                             *)

\* GetChatConversations and FindConversationForMember: what a user's list
\* shows, with the draft kept there.
Shown(u) ==
    {c \in index[u] \cap exists :
        u \in Members(c) /\ \A w \in Members(c) : <<u, w>> \in Sees}

\* The index of a user agrees with the member records, and so the list, made
\* from the index, misses no conversation of the user with people he may see.
IndexAgrees ==
    \A u \in Users :
        /\ index[u] = {c \in Ids : u \in Members(c)}
        /\ \A c \in exists :
              u \in Members(c) /\ {u} \X Members(c) \subseteq Sees => c \in Shown(u)

\* A group has one owner, its creator: no interleaving of approved requests,
\* removals and additions takes the role away or gives it to another.
CreatorOwns ==
    \A g \in exists \cap Groups :
        {u \in Members(g) : role[g][u] = "owner"} = {creator[g]}

\* Direct chats have both users and system conversations their one, all of
\* them plain members; a conversation that is gone has nobody.
MembersFit ==
    /\ \A c \in exists \cap (Directs \cup Systems) : role[c] = [u \in c |-> "member"]
    /\ \A c \in Ids \ exists : Members(c) = {}

\* Members, roles, the users' lists and the conversations agree, although
\* they are separate records and every request was checked on a snapshot
\* that may be out of date.
GroupsConsistent == TypeOK /\ IndexAgrees /\ CreatorOwns /\ MembersFit

=============================================================================
