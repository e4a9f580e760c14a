--------------------------- MODULE ServicesProofs ---------------------------
(***************************************************************************)
(* Proofs about the components of Services, for every value of their       *)
(* constants.  Each is proved by itself, as a specification of its own;    *)
(* that the whole runs it in that way is the lemma ServicesRun.            *)
(***************************************************************************)
EXTENDS Services, FiniteSetTheorems, TLAPS

-----------------------------------------------------------------------------
(* A step of the whole is a step of each component, or leaves it alone.    *)

LEMMA ServicesRun ==
    [Next]_vars =>
        /\ [Groups!Next]_(Groups!vars)
        /\ [Accounts!Next]_(Accounts!vars)
        /\ [Access!Next]_(Access!vars)
        /\ [Rsvp!Next]_(Rsvp!vars)
        /\ [SSH!Next]_(SSH!vars)
        /\ [Summary!Next]_(Summary!vars)
        /\ [Thumbnails!Next]_(Thumbnails!vars)
        /\ [Serving!Next]_(Serving!vars)
<1> USE DEF groupVars, accountVars, accessVars, rsvpVars, sshVars, summaryVars, thumbnailVars,
        mediaVars, Groups!vars, Accounts!vars, Accounts!ghosts, Access!vars, Access!ghosts,
        Access!versions, Rsvp!vars, SSH!vars, Summary!vars, Thumbnails!vars, Serving!vars, Serving!places,
        Serving!tokens
<1>1. CASE RunGroups
  BY <1>1 DEF RunGroups
<1>2. CASE RunAccounts
  BY <1>2 DEF RunAccounts
<1>3. CASE RunAccess
  BY <1>3 DEF RunAccess
<1>4. CASE RunRsvp
  BY <1>4 DEF RunRsvp
<1>5. CASE RunSSH
  BY <1>5 DEF RunSSH
<1>6. CASE RunSummary
  BY <1>6 DEF RunSummary
<1>7. CASE RunThumbnails
  BY <1>7 DEF RunThumbnails
<1>8. CASE RunMedia
  BY <1>8 DEF RunMedia
<1>9. CASE UNCHANGED vars
  BY <1>9 DEF vars
<1> QED BY <1>1, <1>2, <1>3, <1>4, <1>5, <1>6, <1>7, <1>8, <1>9 DEF Next

-----------------------------------------------------------------------------
(* ChatGroups.                                                             *)
(*                                                                         *)
(* The inductive invariant.  A request that has passed its check names a   *)
(* group that has been created, and unless it only adds, its user is not   *)
(* the creator; both stay true while other transactions run, because a     *)
(* group keeps its creator and an ID is never given out again.             *)

MemberRecords == UNION {[S -> Groups!Roles] : S \in SUBSET Users}
GroupRequests == [op : Groups!Operations, conv : Groups!Ids, user : Users]

GroupsTyped ==
    /\ groupExists \subseteq Groups!Ids
    /\ DOMAIN groupCreator \subseteq GroupIds
    /\ \A g \in DOMAIN groupCreator : groupCreator[g] \in Users
    /\ groupRole \in [Groups!Ids -> MemberRecords]
    /\ groupIndex \in [Users -> SUBSET Groups!Ids]
    /\ groupDrafts \subseteq Drafters \X Groups!Ids
    /\ groupRequest \in [Groups!RequestSlots -> {Groups!Free} \cup GroupRequests]

IndexIsMembers == \A u \in Users : groupIndex[u] = {c \in Groups!Ids : u \in Groups!Members(c)}

GroupsHaveCreators == groupExists \cap GroupIds \subseteq DOMAIN groupCreator

ApprovedSparesCreator ==
    \A r \in Groups!RequestSlots :
        groupRequest[r] # Groups!Free /\ groupRequest[r].conv \in GroupIds =>
            /\ groupRequest[r].conv \in DOMAIN groupCreator
            /\ groupRequest[r].op \in {"remove", "admin", "member"} =>
                  groupRequest[r].user # groupCreator[groupRequest[r].conv]

GroupsInv ==
    /\ GroupsTyped
    /\ IndexIsMembers
    /\ GroupsHaveCreators
    /\ Groups!CreatorOwns
    /\ Groups!MembersFit
    /\ ApprovedSparesCreator

-----------------------------------------------------------------------------
(* Member records, and what joining and leaving do to them.                *)

LEMMA RecordFacts ==
    ASSUME NEW f \in MemberRecords
    PROVE  DOMAIN f \subseteq Users /\ \A u \in DOMAIN f : f[u] \in Groups!Roles
BY DEF MemberRecords

LEMMA RecordIntro ==
    ASSUME NEW S \in SUBSET Users, NEW f \in [S -> Groups!Roles]
    PROVE  f \in MemberRecords
BY DEF MemberRecords

LEMMA GroupMembersTyped ==
    ASSUME GroupsTyped, NEW c \in Groups!Ids
    PROVE  Groups!Members(c) \subseteq Users /\ \A u \in Groups!Members(c) : groupRole[c][u] \in Groups!Roles
BY RecordFacts DEF GroupsTyped, Groups!Members

LEMMA GroupsTypeOK == GroupsTyped => Groups!TypeOK
BY GroupMembersTyped DEF GroupsTyped, Groups!TypeOK

LEMMA IndexImpliesAgrees == GroupsTyped /\ IndexIsMembers => Groups!IndexAgrees
<1> SUFFICES ASSUME GroupsTyped, IndexIsMembers, NEW u \in Users
             PROVE  \A c \in groupExists :
                       u \in Groups!Members(c) /\ {u} \X Groups!Members(c) \subseteq Sees => c \in Groups!Shown(u)
  BY DEF Groups!IndexAgrees, IndexIsMembers
<1> QED BY DEF GroupsTyped, IndexIsMembers, Groups!Shown

\* A member keeps the role it has, others get the new one, and the lists of
\* the users follow.
LEMMA JoinStep ==
    ASSUME GroupsTyped, IndexIsMembers, NEW c \in Groups!Ids, NEW new,
           DOMAIN new \subseteq Users, \A u \in DOMAIN new : new[u] \in Groups!Roles,
           Groups!Join(c, new)
    PROVE  /\ groupRole' \in [Groups!Ids -> MemberRecords]
           /\ groupIndex' \in [Users -> SUBSET Groups!Ids]
           /\ IndexIsMembers'
           /\ \A d \in Groups!Ids \ {c} : groupRole'[d] = groupRole[d]
           /\ groupRole'[c] = [u \in Groups!Members(c) \cup DOMAIN new |->
                             IF u \in Groups!Members(c) THEN groupRole[c][u] ELSE new[u]]
<1> DEFINE joined == [u \in Groups!Members(c) \cup DOMAIN new |->
                         IF u \in Groups!Members(c) THEN groupRole[c][u] ELSE new[u]]
<1>1. Groups!Members(c) \subseteq Users /\ \A u \in Groups!Members(c) : groupRole[c][u] \in Groups!Roles
  BY GroupMembersTyped
<1>2. joined \in MemberRecords
  <2>1. joined \in [Groups!Members(c) \cup DOMAIN new -> Groups!Roles]
    BY <1>1
  <2> QED BY <1>1, <2>1, RecordIntro
<1>3. groupRole' = [groupRole EXCEPT ![c] = joined]
  BY DEF Groups!Join
<1>4. groupRole' \in [Groups!Ids -> MemberRecords] /\ groupRole'[c] = joined
      /\ \A d \in Groups!Ids \ {c} : groupRole'[d] = groupRole[d]
  BY <1>2, <1>3 DEF GroupsTyped
<1>5. groupIndex' = [u \in Users |-> IF u \in DOMAIN new THEN groupIndex[u] \cup {c} ELSE groupIndex[u]]
  BY DEF Groups!Join
<1>6. groupIndex' \in [Users -> SUBSET Groups!Ids]
  BY <1>5 DEF GroupsTyped
<1>7. IndexIsMembers'
  <2> SUFFICES ASSUME NEW u \in Users
               PROVE  groupIndex'[u] = {d \in Groups!Ids : u \in DOMAIN groupRole'[d]}
    BY DEF IndexIsMembers, Groups!Members
  <2>1. DOMAIN groupRole'[c] = Groups!Members(c) \cup DOMAIN new
    BY <1>4
  <2>2. \A d \in Groups!Ids \ {c} : DOMAIN groupRole'[d] = Groups!Members(d)
    BY <1>4 DEF Groups!Members
  <2>3. groupIndex[u] = {d \in Groups!Ids : u \in Groups!Members(d)}
    BY DEF IndexIsMembers
  <2> HIDE DEF joined
  <2> QED BY <1>5, <2>1, <2>2, <2>3
<1> QED BY <1>4, <1>6, <1>7

LEMMA LeaveStep ==
    ASSUME GroupsTyped, IndexIsMembers, NEW c \in Groups!Ids, NEW gone,
           Groups!Leave(c, gone)
    PROVE  /\ groupRole' \in [Groups!Ids -> MemberRecords]
           /\ groupIndex' \in [Users -> SUBSET Groups!Ids]
           /\ IndexIsMembers'
           /\ \A d \in Groups!Ids \ {c} : groupRole'[d] = groupRole[d]
           /\ groupRole'[c] = [u \in Groups!Members(c) \ gone |-> groupRole[c][u]]
<1> DEFINE left == [u \in Groups!Members(c) \ gone |-> groupRole[c][u]]
<1>1. Groups!Members(c) \subseteq Users /\ \A u \in Groups!Members(c) : groupRole[c][u] \in Groups!Roles
  BY GroupMembersTyped
<1>2. left \in MemberRecords
  <2>1. left \in [Groups!Members(c) \ gone -> Groups!Roles]
    BY <1>1
  <2> QED BY <1>1, <2>1, RecordIntro
<1>3. groupRole' = [groupRole EXCEPT ![c] = left]
  BY DEF Groups!Leave
<1>4. groupRole' \in [Groups!Ids -> MemberRecords] /\ groupRole'[c] = left
      /\ \A d \in Groups!Ids \ {c} : groupRole'[d] = groupRole[d]
  BY <1>2, <1>3 DEF GroupsTyped
<1>5. groupIndex' = [u \in Users |->
                  IF u \in gone \cap Groups!Members(c) THEN groupIndex[u] \ {c} ELSE groupIndex[u]]
  BY DEF Groups!Leave
<1>6. groupIndex' \in [Users -> SUBSET Groups!Ids]
  BY <1>5 DEF GroupsTyped
<1>7. IndexIsMembers'
  <2> SUFFICES ASSUME NEW u \in Users
               PROVE  groupIndex'[u] = {d \in Groups!Ids : u \in DOMAIN groupRole'[d]}
    BY DEF IndexIsMembers, Groups!Members
  <2>1. DOMAIN groupRole'[c] = Groups!Members(c) \ gone
    BY <1>4
  <2>2. \A d \in Groups!Ids \ {c} : DOMAIN groupRole'[d] = Groups!Members(d)
    BY <1>4 DEF Groups!Members
  <2>3. groupIndex[u] = {d \in Groups!Ids : u \in Groups!Members(d)}
    BY DEF IndexIsMembers
  <2> HIDE DEF left
  <2> QED BY <1>5, <2>1, <2>2, <2>3
<1> QED BY <1>4, <1>6, <1>7

-----------------------------------------------------------------------------
(* Every step keeps the inductive invariant.                               *)

\* The parts of the invariant about one conversation.
OwnerIs(c) == c \in groupExists \cap GroupIds =>
    {u \in Groups!Members(c) : groupRole[c][u] = "owner"} = {groupCreator[c]}

Fits(c) ==
    /\ c \in groupExists \cap (DirectIds \cup SystemIds) => groupRole[c] = [u \in c |-> "member"]
    /\ c \in Groups!Ids \ groupExists => Groups!Members(c) = {}

\* A step that touches only the conversation c has only c to repair.
LEMMA OneConversation ==
    ASSUME GroupsInv, NEW c \in Groups!Ids,
           groupExists' \subseteq Groups!Ids,
           \A d \in Groups!Ids \ {c} : groupRole'[d] = groupRole[d],
           \A d \in Groups!Ids \ {c} : d \in groupExists' <=> d \in groupExists,
           \A d \in Groups!Ids \ {c} : d \in DOMAIN groupCreator => groupCreator'[d] = groupCreator[d],
           OwnerIs(c)', Fits(c)'
    PROVE  Groups!CreatorOwns' /\ Groups!MembersFit'
<1>1. Groups!CreatorOwns'
  <2> SUFFICES ASSUME NEW g \in groupExists' \cap GroupIds
               PROVE  {u \in DOMAIN groupRole'[g] : groupRole'[g][u] = "owner"} = {groupCreator'[g]}
    BY DEF Groups!CreatorOwns, Groups!Members
  <2>1. CASE g = c
    BY <2>1 DEF OwnerIs, Groups!Members
  <2>2. CASE g # c
    <3>1. g \in groupExists \cap GroupIds /\ g \in DOMAIN groupCreator /\ groupRole'[g] = groupRole[g]
      BY <2>2 DEF GroupsInv, GroupsHaveCreators, Groups!Ids
    <3> QED BY <2>2, <3>1 DEF GroupsInv, Groups!CreatorOwns, Groups!Members, Groups!Ids
  <2> QED BY <2>1, <2>2
<1>2. ASSUME NEW d \in groupExists' \cap (DirectIds \cup SystemIds)
      PROVE  groupRole'[d] = [u \in d |-> "member"]
  <2>1. CASE d = c
    BY <2>1 DEF Fits
  <2>2. CASE d # c
    BY <2>2 DEF GroupsInv, Groups!MembersFit, Groups!Ids
  <2> QED BY <2>1, <2>2
<1>3. ASSUME NEW d \in Groups!Ids \ groupExists' PROVE DOMAIN groupRole'[d] = {}
  <2>1. CASE d = c
    BY <2>1 DEF Fits, Groups!Members
  <2>2. CASE d # c
    BY <2>2 DEF GroupsInv, Groups!MembersFit, Groups!Members
  <2> QED BY <2>1, <2>2
<1> QED BY <1>1, <1>2, <1>3 DEF Groups!MembersFit, Groups!Members

LEMMA CreateGroupStep ==
    ASSUME Groups!IdsAssumption, GroupsInv, NEW u \in Users, NEW g \in GroupIds,
           NEW others \in SUBSET Users, Groups!CreateGroup(u, g, others)
    PROVE  GroupsInv'
<1> DEFINE new == [v \in others \cup {u} |-> IF v = u THEN "owner" ELSE "member"]
<1> USE DEF GroupsInv
<1>1. g \in Groups!Ids /\ g \notin groupExists /\ Groups!Members(g) = {} /\ g \notin DirectIds \cup SystemIds
  BY DEF Groups!CreateGroup, GroupsHaveCreators, Groups!Ids, Groups!MembersFit, Groups!IdsAssumption
<1>2. DOMAIN new \subseteq Users /\ \A v \in DOMAIN new : new[v] \in Groups!Roles
  BY DEF Groups!Roles
<1>3. Groups!Join(g, new)
  BY DEF Groups!CreateGroup
<1> HIDE DEF new
<1>4. /\ groupRole' \in [Groups!Ids -> MemberRecords]
      /\ groupIndex' \in [Users -> SUBSET Groups!Ids]
      /\ IndexIsMembers'
      /\ \A d \in Groups!Ids \ {g} : groupRole'[d] = groupRole[d]
      /\ groupRole'[g] = [v \in Groups!Members(g) \cup DOMAIN new |->
                        IF v \in Groups!Members(g) THEN groupRole[g][v] ELSE new[v]]
  <2>1. GroupsTyped /\ IndexIsMembers /\ g \in Groups!Ids /\ Groups!Join(g, new)
    BY <1>1, <1>3
  <2> HIDE DEF GroupsInv
  <2> QED BY <1>2, <2>1, JoinStep
<1>5. groupRole'[g] = [v \in others \cup {u} |-> IF v = u THEN "owner" ELSE "member"]
  BY <1>1, <1>4 DEF new
<1>6. groupCreator' = [x \in DOMAIN groupCreator \cup {g} |-> IF x = g THEN u ELSE groupCreator[x]]
      /\ groupExists' = groupExists \cup {g} /\ UNCHANGED <<groupDrafts, groupRequest>>
  BY DEF Groups!CreateGroup
<1>7. GroupsTyped'
  BY <1>1, <1>4, <1>6 DEF GroupsTyped
<1>8. GroupsHaveCreators'
  BY <1>6 DEF GroupsHaveCreators
<1>9. Groups!CreatorOwns' /\ Groups!MembersFit'
  <2>1. groupCreator'[g] = u
    BY <1>6
  <2>2. {v \in DOMAIN groupRole'[g] : groupRole'[g][v] = "owner"} = {u}
    BY <1>5
  <2>3. OwnerIs(g)'
    BY <2>1, <2>2 DEF OwnerIs, Groups!Members
  <2>4. Fits(g)'
    BY <1>1, <1>6 DEF Fits
  <2>5. \A d \in Groups!Ids \ {g} : d \in DOMAIN groupCreator => groupCreator'[d] = groupCreator[d]
    BY <1>6
  <2>6. groupExists' \subseteq Groups!Ids /\ \A d \in Groups!Ids \ {g} : d \in groupExists' <=> d \in groupExists
    BY <1>1, <1>6 DEF GroupsTyped
  <2> QED BY <1>1, <1>4, <2>3, <2>4, <2>5, <2>6, OneConversation
<1>10. ApprovedSparesCreator'
  <2>1. \A d \in DOMAIN groupCreator : d \in DOMAIN groupCreator' /\ groupCreator'[d] = groupCreator[d]
    BY <1>6 DEF Groups!CreateGroup
  <2> QED BY <1>6, <2>1 DEF ApprovedSparesCreator
<1> QED BY <1>4, <1>7, <1>8, <1>9, <1>10

\* Direct and system conversations are created alike.
LEMMA CreatePlainStep ==
    ASSUME Groups!IdsAssumption, GroupsInv, NEW c \in DirectIds \cup SystemIds,
           groupExists' = groupExists \cup {c},
           Groups!Join(c, [w \in c |-> "member"]),
           UNCHANGED <<groupCreator, groupDrafts, groupRequest>>
    PROVE  GroupsInv'
<1> DEFINE new == [w \in c |-> "member"]
<1> USE DEF GroupsInv
<1>1. c \in Groups!Ids /\ c \notin GroupIds /\ c \subseteq Users
  BY DEF Groups!Ids, Groups!IdsAssumption
<1>2. DOMAIN new \subseteq Users /\ \A v \in DOMAIN new : new[v] \in Groups!Roles
  BY <1>1 DEF Groups!Roles
<1>3. Groups!Join(c, new)
  OBVIOUS
<1> HIDE DEF new
<1>4. /\ groupRole' \in [Groups!Ids -> MemberRecords]
      /\ groupIndex' \in [Users -> SUBSET Groups!Ids]
      /\ IndexIsMembers'
      /\ \A d \in Groups!Ids \ {c} : groupRole'[d] = groupRole[d]
      /\ groupRole'[c] = [v \in Groups!Members(c) \cup DOMAIN new |->
                        IF v \in Groups!Members(c) THEN groupRole[c][v] ELSE new[v]]
  <2>1. GroupsTyped /\ IndexIsMembers
    OBVIOUS
  <2> HIDE DEF GroupsInv
  <2> QED BY <1>1, <1>2, <1>3, <2>1, JoinStep
<1>5. groupRole'[c] = [w \in c |-> "member"]
  <2>1. CASE c \in groupExists
    <3>1. groupRole[c] = [w \in c |-> "member"] /\ Groups!Members(c) = c
      BY <2>1 DEF Groups!MembersFit, Groups!Members
    <3> QED BY <1>4, <3>1 DEF new
  <2>2. CASE c \notin groupExists
    <3>1. Groups!Members(c) = {}
      BY <1>1, <2>2 DEF Groups!MembersFit
    <3> QED BY <1>4, <3>1 DEF new
  <2> QED BY <2>1, <2>2
<1>6. groupExists' \subseteq Groups!Ids /\ \A d \in Groups!Ids \ {c} : d \in groupExists' <=> d \in groupExists
  BY <1>1 DEF GroupsTyped
<1>7. Groups!CreatorOwns' /\ Groups!MembersFit'
  <2>1. OwnerIs(c)' /\ Fits(c)'
    BY <1>1, <1>5 DEF OwnerIs, Fits
  <2> QED BY <1>1, <1>4, <1>6, <2>1, OneConversation
<1>8. GroupsTyped' /\ GroupsHaveCreators' /\ ApprovedSparesCreator'
  BY <1>1, <1>4, <1>6 DEF GroupsTyped, GroupsHaveCreators, ApprovedSparesCreator
<1> QED BY <1>4, <1>7, <1>8

LEMMA CreateDirectStep ==
    ASSUME Groups!IdsAssumption, GroupsInv, NEW u \in Users, NEW v \in Users, Groups!CreateDirect(u, v)
    PROVE  GroupsInv'
BY CreatePlainStep DEF Groups!CreateDirect

LEMMA EnsureSystemStep ==
    ASSUME Groups!IdsAssumption, GroupsInv, NEW u \in Users, Groups!EnsureSystem(u)
    PROVE  GroupsInv'
BY CreatePlainStep DEF Groups!EnsureSystem

\* The checks let nobody change or remove the creator of a group, who is its
\* one owner.
LEMMA ApproveStep ==
    ASSUME GroupsInv, NEW r \in Groups!RequestSlots, NEW u \in Users, NEW op \in Groups!Operations,
           NEW c \in groupExists, NEW v \in Users, Groups!Approve(r, u, op, c, v)
    PROVE  GroupsInv'
<1> USE DEF GroupsInv
<1>1. c \in Groups!Ids /\ u \in Groups!Members(c) /\ Groups!MayAsk(u, op, c, v)
  BY DEF Groups!Approve, GroupsTyped
<1>2. groupRequest' = [groupRequest EXCEPT ![r] = [op |-> op, conv |-> c, user |-> v]]
      /\ UNCHANGED <<groupExists, groupCreator, groupRole, groupIndex, groupDrafts>>
  BY DEF Groups!Approve
<1>3. [op |-> op, conv |-> c, user |-> v] \in GroupRequests
  BY <1>1 DEF GroupRequests
<1>4. GroupsTyped'
  BY <1>2, <1>3 DEF GroupsTyped
<1>5. ASSUME c \in GroupIds PROVE c \in DOMAIN groupCreator
  BY <1>5 DEF GroupsHaveCreators
<1>6. ASSUME c \in GroupIds, op \in {"remove", "admin", "member"} PROVE v # groupCreator[c]
  <2>1. {w \in Groups!Members(c) : groupRole[c][w] = "owner"} = {groupCreator[c]}
    BY <1>6 DEF Groups!CreatorOwns
  <2>2. CASE op = "remove"
    BY <1>1, <2>1, <2>2 DEF Groups!MayAsk, Groups!MayRemove
  <2>3. CASE op \in {"admin", "member"}
    BY <1>1, <2>1, <2>3 DEF Groups!MayAsk
  <2> QED BY <1>6, <2>2, <2>3
<1>7. ApprovedSparesCreator'
  <2> SUFFICES ASSUME NEW s \in Groups!RequestSlots, groupRequest'[s] # Groups!Free, groupRequest'[s].conv \in GroupIds
               PROVE  /\ groupRequest'[s].conv \in DOMAIN groupCreator
                      /\ groupRequest'[s].op \in {"remove", "admin", "member"} =>
                            groupRequest'[s].user # groupCreator[groupRequest'[s].conv]
    BY <1>2 DEF ApprovedSparesCreator
  <2>1. CASE s = r
    <3>1. groupRequest'[s] = [op |-> op, conv |-> c, user |-> v]
      BY <1>2, <2>1 DEF GroupsTyped
    <3> QED BY <1>5, <1>6, <3>1
  <2>2. CASE s # r
    BY <1>2, <2>2 DEF ApprovedSparesCreator, GroupsTyped
  <2> QED BY <2>1, <2>2
<1>8. IndexIsMembers' /\ GroupsHaveCreators' /\ Groups!CreatorOwns' /\ Groups!MembersFit'
  BY <1>2 DEF IndexIsMembers, GroupsHaveCreators, Groups!CreatorOwns, Groups!MembersFit, Groups!Members
<1> QED BY <1>4, <1>7, <1>8

\* A request that is answered leaves the others as they were.
LEMMA AnsweredStep ==
    ASSUME GroupsTyped, ApprovedSparesCreator, NEW r \in Groups!RequestSlots, Groups!Answered(r),
           UNCHANGED groupCreator
    PROVE  /\ groupRequest' \in [Groups!RequestSlots -> {Groups!Free} \cup GroupRequests]
           /\ ApprovedSparesCreator'
<1>1. groupRequest' = [groupRequest EXCEPT ![r] = Groups!Free]
  BY DEF Groups!Answered
<1>2. groupRequest' \in [Groups!RequestSlots -> {Groups!Free} \cup GroupRequests]
  BY <1>1 DEF GroupsTyped
<1>3. \A s \in Groups!RequestSlots : groupRequest'[s] # Groups!Free => groupRequest'[s] = groupRequest[s]
  BY <1>1 DEF GroupsTyped
<1> QED BY <1>2, <1>3 DEF ApprovedSparesCreator

\* What is known of a request under way.
LEMMA PendingFacts ==
    ASSUME GroupsTyped, NEW r \in Groups!RequestSlots, groupRequest[r].op \in Groups!Operations
    PROVE  groupRequest[r] # Groups!Free /\ groupRequest[r] \in GroupRequests
<1>1. Groups!Free.op \notin Groups!Operations
  BY DEF Groups!Free, Groups!Operations
<1> QED BY <1>1 DEF GroupsTyped

LEMMA AddGroupMembersStep ==
    ASSUME Groups!IdsAssumption, GroupsInv, NEW r \in Groups!RequestSlots, Groups!AddGroupMembers(r)
    PROVE  GroupsInv'
<1> PICK c, v : c = groupRequest[r].conv /\ v = groupRequest[r].user
  OBVIOUS
<1> DEFINE new == [w \in {v} |-> "member"]
<1>0. GroupsTyped /\ IndexIsMembers /\ ApprovedSparesCreator /\ GroupsHaveCreators
      /\ Groups!CreatorOwns /\ Groups!MembersFit
  BY DEF GroupsInv
<1>1. c \in groupExists /\ c \in GroupIds /\ c \in Groups!Ids /\ v \in Users
      /\ c \notin DirectIds \cup SystemIds
  <2>1. groupRequest[r] \in GroupRequests
    BY <1>0, PendingFacts DEF Groups!AddGroupMembers, Groups!Operations
  <2> QED BY <2>1 DEF Groups!AddGroupMembers, Groups!IsGroup, GroupRequests, Groups!Ids, Groups!IdsAssumption
<1>2. DOMAIN new \subseteq Users /\ \A w \in DOMAIN new : new[w] \in Groups!Roles
  BY <1>1 DEF Groups!Roles
<1>3. Groups!Join(c, new) /\ Groups!Answered(r) /\ UNCHANGED <<groupExists, groupCreator, groupDrafts>>
  BY DEF Groups!AddGroupMembers
<1> HIDE DEF new
<1>4. /\ groupRole' \in [Groups!Ids -> MemberRecords]
      /\ groupIndex' \in [Users -> SUBSET Groups!Ids]
      /\ IndexIsMembers'
      /\ \A d \in Groups!Ids \ {c} : groupRole'[d] = groupRole[d]
      /\ groupRole'[c] = [w \in Groups!Members(c) \cup DOMAIN new |->
                        IF w \in Groups!Members(c) THEN groupRole[c][w] ELSE new[w]]
  <2>1. GroupsTyped /\ IndexIsMembers /\ Groups!Join(c, new) /\ c \in Groups!Ids
    BY <1>0, <1>1, <1>3
  <2> QED BY <1>2, <2>1, JoinStep
<1>5. OwnerIs(c)'
  <2>1. {w \in Groups!Members(c) : groupRole[c][w] = "owner"} = {groupCreator[c]}
    BY <1>0, <1>1 DEF Groups!CreatorOwns
  <2>2. {w \in DOMAIN groupRole'[c] : groupRole'[c][w] = "owner"} = {groupCreator[c]}
    BY <1>4, <2>1 DEF new
  <2> QED BY <1>3, <2>2 DEF OwnerIs, Groups!Members
<1>6. Fits(c)'
  BY <1>1, <1>3 DEF Fits
<1>7. Groups!CreatorOwns' /\ Groups!MembersFit'
  BY <1>0, <1>1, <1>3, <1>4, <1>5, <1>6, OneConversation DEF GroupsTyped
<1>8. /\ groupRequest' \in [Groups!RequestSlots -> {Groups!Free} \cup GroupRequests]
      /\ ApprovedSparesCreator'
  BY <1>0, <1>3, AnsweredStep
<1>9. GroupsTyped' /\ GroupsHaveCreators'
  BY <1>0, <1>3, <1>4, <1>8 DEF GroupsTyped, GroupsHaveCreators
<1> QED BY <1>4, <1>7, <1>8, <1>9 DEF GroupsInv

LEMMA RemoveGroupMembersStep ==
    ASSUME Groups!IdsAssumption, GroupsInv, NEW r \in Groups!RequestSlots, Groups!RemoveGroupMembers(r)
    PROVE  GroupsInv'
<1> PICK c, v : c = groupRequest[r].conv /\ v = groupRequest[r].user
  OBVIOUS
<1>0. GroupsTyped /\ IndexIsMembers /\ ApprovedSparesCreator /\ GroupsHaveCreators
      /\ Groups!CreatorOwns /\ Groups!MembersFit
  BY DEF GroupsInv
<1>1. c \in groupExists /\ c \in GroupIds /\ c \in Groups!Ids /\ v # groupCreator[c]
      /\ c \notin DirectIds \cup SystemIds
  <2>1. groupRequest[r] # Groups!Free /\ groupRequest[r] \in GroupRequests
    BY <1>0, PendingFacts DEF Groups!RemoveGroupMembers, Groups!Operations
  <2> QED BY <1>0, <2>1
          DEF Groups!RemoveGroupMembers, Groups!IsGroup, GroupRequests, Groups!Ids, Groups!IdsAssumption, ApprovedSparesCreator
<1>2. Groups!Leave(c, {v}) /\ Groups!Answered(r) /\ UNCHANGED <<groupExists, groupCreator, groupDrafts>>
  BY DEF Groups!RemoveGroupMembers
<1>3. /\ groupRole' \in [Groups!Ids -> MemberRecords]
      /\ groupIndex' \in [Users -> SUBSET Groups!Ids]
      /\ IndexIsMembers'
      /\ \A d \in Groups!Ids \ {c} : groupRole'[d] = groupRole[d]
      /\ groupRole'[c] = [w \in Groups!Members(c) \ {v} |-> groupRole[c][w]]
  BY <1>0, <1>1, <1>2, LeaveStep
<1>4. OwnerIs(c)'
  <2>1. {w \in Groups!Members(c) : groupRole[c][w] = "owner"} = {groupCreator[c]}
    BY <1>0, <1>1 DEF Groups!CreatorOwns
  <2>2. {w \in DOMAIN groupRole'[c] : groupRole'[c][w] = "owner"} = {groupCreator[c]}
    BY <1>1, <1>3, <2>1
  <2> QED BY <1>2, <2>2 DEF OwnerIs, Groups!Members
<1>5. Fits(c)'
  BY <1>1, <1>2 DEF Fits
<1>6. Groups!CreatorOwns' /\ Groups!MembersFit'
  BY <1>0, <1>1, <1>2, <1>3, <1>4, <1>5, OneConversation DEF GroupsTyped
<1>7. /\ groupRequest' \in [Groups!RequestSlots -> {Groups!Free} \cup GroupRequests]
      /\ ApprovedSparesCreator'
  BY <1>0, <1>2, AnsweredStep
<1>8. GroupsTyped' /\ GroupsHaveCreators'
  BY <1>0, <1>2, <1>3, <1>7 DEF GroupsTyped, GroupsHaveCreators
<1> QED BY <1>3, <1>6, <1>7, <1>8 DEF GroupsInv

LEMMA SetGroupMemberRoleStep ==
    ASSUME Groups!IdsAssumption, GroupsInv, NEW r \in Groups!RequestSlots, Groups!SetGroupMemberRole(r)
    PROVE  GroupsInv'
<1> PICK c, v, to : c = groupRequest[r].conv /\ v = groupRequest[r].user /\ to = groupRequest[r].op
  OBVIOUS
<1>0. GroupsTyped /\ IndexIsMembers /\ ApprovedSparesCreator /\ GroupsHaveCreators
      /\ Groups!CreatorOwns /\ Groups!MembersFit
  BY DEF GroupsInv
<1>1. c \in groupExists /\ c \in GroupIds /\ c \in Groups!Ids /\ v # groupCreator[c] /\ v \in Groups!Members(c)
      /\ c \notin DirectIds \cup SystemIds
  <2>1. groupRequest[r] # Groups!Free /\ groupRequest[r] \in GroupRequests
    BY <1>0, PendingFacts DEF Groups!SetGroupMemberRole, Groups!Operations
  <2> QED BY <1>0, <2>1
          DEF Groups!SetGroupMemberRole, Groups!IsGroup, GroupRequests, Groups!Ids, Groups!IdsAssumption, ApprovedSparesCreator
<1>2. /\ groupRole' = [groupRole EXCEPT ![c][v] = to]
      /\ to \in {"admin", "member"}
      /\ Groups!Answered(r)
      /\ UNCHANGED <<groupExists, groupCreator, groupIndex, groupDrafts>>
  BY DEF Groups!SetGroupMemberRole
<1>3. groupRole'[c] = [groupRole[c] EXCEPT ![v] = to] /\ \A d \in Groups!Ids \ {c} : groupRole'[d] = groupRole[d]
  BY <1>0, <1>1, <1>2 DEF GroupsTyped
<1>4. DOMAIN groupRole'[c] = Groups!Members(c)
  BY <1>3 DEF Groups!Members
<1>5. groupRole' \in [Groups!Ids -> MemberRecords]
  <2>1. groupRole[c] \in MemberRecords
    BY <1>0, <1>1 DEF GroupsTyped
  <2>2. PICK S \in SUBSET Users : groupRole[c] \in [S -> Groups!Roles]
    BY <2>1 DEF MemberRecords
  <2>3. groupRole'[c] \in [S -> Groups!Roles]
    <3>1. to \in Groups!Roles
      BY <1>2 DEF Groups!Roles
    <3> QED BY <1>3, <2>2, <3>1
  <2>4. groupRole'[c] \in MemberRecords
    BY <2>3, RecordIntro
  <2> QED BY <1>0, <1>1, <1>2, <1>3, <2>4 DEF GroupsTyped
<1>6. IndexIsMembers'
  <2>1. \A d \in Groups!Ids : DOMAIN groupRole'[d] = DOMAIN groupRole[d]
    BY <1>3, <1>4 DEF Groups!Members
  <2> QED BY <1>0, <1>2, <2>1 DEF IndexIsMembers, Groups!Members
<1>7. OwnerIs(c)'
  <2>1. {w \in Groups!Members(c) : groupRole[c][w] = "owner"} = {groupCreator[c]}
    BY <1>0, <1>1 DEF Groups!CreatorOwns
  <2>2. \A w \in Groups!Members(c) : w # v => groupRole'[c][w] = groupRole[c][w]
    BY <1>3 DEF Groups!Members
  <2>3. groupRole'[c][v] # "owner" /\ groupRole[c][v] # "owner"
    BY <1>1, <1>2, <1>3, <2>1 DEF Groups!Members
  <2>4. {w \in DOMAIN groupRole'[c] : groupRole'[c][w] = "owner"} = {groupCreator[c]}
    BY <1>4, <2>1, <2>2, <2>3
  <2> QED BY <1>2, <2>4 DEF OwnerIs, Groups!Members
<1>8. Fits(c)'
  BY <1>1, <1>2 DEF Fits
<1>9. Groups!CreatorOwns' /\ Groups!MembersFit'
  BY <1>0, <1>1, <1>2, <1>3, <1>7, <1>8, OneConversation DEF GroupsTyped
<1>10. /\ groupRequest' \in [Groups!RequestSlots -> {Groups!Free} \cup GroupRequests]
       /\ ApprovedSparesCreator'
  BY <1>0, <1>2, AnsweredStep
<1>11. GroupsTyped' /\ GroupsHaveCreators'
  BY <1>0, <1>2, <1>5, <1>10 DEF GroupsTyped, GroupsHaveCreators
<1> QED BY <1>6, <1>9, <1>10, <1>11 DEF GroupsInv

LEMMA DeleteConversationStep ==
    ASSUME GroupsInv, NEW r \in Groups!RequestSlots, Groups!DeleteConversation(r)
    PROVE  GroupsInv'
<1> PICK c : c = groupRequest[r].conv
  OBVIOUS
<1>0. GroupsTyped /\ IndexIsMembers /\ ApprovedSparesCreator /\ GroupsHaveCreators
      /\ Groups!CreatorOwns /\ Groups!MembersFit
  BY DEF GroupsInv
<1>1. c \in Groups!Ids
  BY <1>0 DEF Groups!DeleteConversation, Groups!IsGroup, GroupsTyped
<1>2. /\ groupExists' = groupExists \ {c} /\ Groups!Leave(c, Groups!Members(c)) /\ Groups!Answered(r)
      /\ UNCHANGED <<groupCreator, groupDrafts>>
  BY DEF Groups!DeleteConversation
<1>3. /\ groupRole' \in [Groups!Ids -> MemberRecords]
      /\ groupIndex' \in [Users -> SUBSET Groups!Ids]
      /\ IndexIsMembers'
      /\ \A d \in Groups!Ids \ {c} : groupRole'[d] = groupRole[d]
      /\ groupRole'[c] = [w \in Groups!Members(c) \ Groups!Members(c) |-> groupRole[c][w]]
  BY <1>0, <1>1, <1>2, LeaveStep
<1>4. OwnerIs(c)' /\ Fits(c)'
  BY <1>2, <1>3 DEF OwnerIs, Fits, Groups!Members
<1>5. Groups!CreatorOwns' /\ Groups!MembersFit'
  <2>1. groupExists' \subseteq Groups!Ids /\ \A d \in Groups!Ids \ {c} : d \in groupExists' <=> d \in groupExists
    BY <1>0, <1>2 DEF GroupsTyped
  <2> QED BY <1>1, <1>2, <1>3, <1>4, <2>1, OneConversation
<1>6. /\ groupRequest' \in [Groups!RequestSlots -> {Groups!Free} \cup GroupRequests]
      /\ ApprovedSparesCreator'
  BY <1>0, <1>2, AnsweredStep
<1>7. GroupsTyped' /\ GroupsHaveCreators'
  BY <1>0, <1>2, <1>3, <1>6 DEF GroupsTyped, GroupsHaveCreators
<1> QED BY <1>3, <1>5, <1>6, <1>7 DEF GroupsInv

\* Steps that touch no conversation.
LEMMA ConversationsKept ==
    ASSUME GroupsInv, UNCHANGED <<groupExists, groupCreator, groupRole, groupIndex>>
    PROVE  IndexIsMembers' /\ GroupsHaveCreators' /\ Groups!CreatorOwns' /\ Groups!MembersFit'
BY DEF GroupsInv, IndexIsMembers, GroupsHaveCreators, Groups!CreatorOwns, Groups!MembersFit, Groups!Members

LEMMA RefusedStep ==
    ASSUME GroupsInv, NEW r \in Groups!RequestSlots, Groups!Refused(r)
    PROVE  GroupsInv'
<1>1. UNCHANGED <<groupExists, groupCreator, groupRole, groupIndex, groupDrafts>> /\ Groups!Answered(r)
  BY DEF Groups!Refused
<1>2. /\ groupRequest' \in [Groups!RequestSlots -> {Groups!Free} \cup GroupRequests]
      /\ ApprovedSparesCreator'
  BY <1>1, AnsweredStep DEF GroupsInv
<1>3. GroupsTyped'
  BY <1>1, <1>2 DEF GroupsInv, GroupsTyped
<1> QED BY <1>1, <1>2, <1>3, ConversationsKept DEF GroupsInv

LEMMA DraftStep ==
    ASSUME GroupsInv, NEW u \in Drafters, NEW c \in GroupIds \cup DirectIds,
           Groups!SaveChatDraft(u, c) \/ Groups!ClearChatDraft(u, c)
    PROVE  GroupsInv'
<1>1. UNCHANGED <<groupExists, groupCreator, groupRole, groupIndex, groupRequest>>
  BY DEF Groups!SaveChatDraft, Groups!ClearChatDraft
<1>2. groupDrafts' \subseteq Drafters \X Groups!Ids
  BY DEF Groups!SaveChatDraft, Groups!ClearChatDraft, GroupsInv, GroupsTyped, Groups!Ids
<1>3. GroupsTyped' /\ ApprovedSparesCreator'
  BY <1>1, <1>2 DEF GroupsInv, GroupsTyped, ApprovedSparesCreator
<1> QED BY <1>1, <1>3, ConversationsKept DEF GroupsInv

-----------------------------------------------------------------------------
LEMMA GroupsInit == Groups!Init => GroupsInv
<1> SUFFICES ASSUME Groups!Init PROVE GroupsInv
  OBVIOUS
<1>1. Groups!NoMembers \in [{} -> Groups!Roles] /\ DOMAIN Groups!NoMembers = {}
  BY DEF Groups!NoMembers
<1>2. Groups!NoMembers \in MemberRecords
  BY <1>1, RecordIntro
<1>3. \A c \in Groups!Ids : Groups!Members(c) = {}
  BY <1>1 DEF Groups!Init, Groups!Members
<1>4. GroupsTyped
  BY <1>2 DEF Groups!Init, GroupsTyped
<1> QED BY <1>3, <1>4 DEF Groups!Init, GroupsInv, IndexIsMembers, GroupsHaveCreators, Groups!CreatorOwns,
                         Groups!MembersFit, ApprovedSparesCreator

LEMMA GroupsNext == ASSUME Groups!IdsAssumption, GroupsInv, [Groups!Next]_(Groups!vars) PROVE GroupsInv'
<1>1. CASE \E u \in Users, g \in GroupIds, others \in SUBSET Users : Groups!CreateGroup(u, g, others)
  BY <1>1, CreateGroupStep
<1>2. CASE \E u, v \in Users : Groups!CreateDirect(u, v)
  BY <1>2, CreateDirectStep
<1>3. CASE \E u \in Users : Groups!EnsureSystem(u)
  BY <1>3, EnsureSystemStep
<1>4. CASE \E r \in Groups!RequestSlots, u \in Users, op \in Groups!Operations, c \in groupExists, v \in Users :
              Groups!Approve(r, u, op, c, v)
  BY <1>4, ApproveStep
<1>5. CASE \E r \in Groups!RequestSlots : \/ Groups!AddGroupMembers(r) \/ Groups!RemoveGroupMembers(r)
                                   \/ Groups!SetGroupMemberRole(r) \/ Groups!DeleteConversation(r)
                                   \/ Groups!Refused(r)
  BY <1>5, AddGroupMembersStep, RemoveGroupMembersStep, SetGroupMemberRoleStep,
     DeleteConversationStep, RefusedStep
<1>6. CASE \E u \in Drafters, c \in GroupIds \cup DirectIds :
              Groups!SaveChatDraft(u, c) \/ Groups!ClearChatDraft(u, c)
  BY <1>6, DraftStep
<1>7. CASE UNCHANGED Groups!vars
  BY <1>7 DEF Groups!vars, GroupsInv, GroupsTyped, IndexIsMembers, GroupsHaveCreators, Groups!CreatorOwns,
              Groups!MembersFit, ApprovedSparesCreator, Groups!Members
<1> QED BY <1>1, <1>2, <1>3, <1>4, <1>5, <1>6, <1>7 DEF Groups!Next

\* Member records, roles, the users' lists and the conversations agree in
\* every state, for any number of requests approved on snapshots that are out
\* of date when their transactions run (AddGroupMembers, RemoveGroupMembers,
\* SetGroupMemberRole and the deletions of chat.go).
THEOREM GroupsStayConsistent == Spec => []GroupsConsistent
<1>1. Init => GroupsInv
  BY GroupsInit DEF Init
<1>2. GroupsInv /\ [Next]_vars => GroupsInv'
  BY GroupsNext, ServicesRun, Constants
<1>3. GroupsInv => GroupsConsistent
  BY GroupsTypeOK, IndexImpliesAgrees DEF GroupsInv, Groups!GroupsConsistent, GroupsConsistent
<1> QED BY <1>1, <1>2, <1>3, PTL DEF Spec

-----------------------------------------------------------------------------
(* UserAccounts.                                                           *)
(*                                                                         *)
(* The inductive invariant: what a request has read and carries names an   *)
(* account there has been; the requests that may still make an account are *)
(* counted, so that numbers do not run out; an account no request wrote    *)
(* over is held by one e-mail, with what was last set for it; and a token  *)
(* that a request carries is used up, by that request alone.               *)

Carried(r, b) ==
    /\ r.at # "idle" => r.email \in Emails
    /\ r.at \notin {"idle", "issue"} => r.prev \in Emails
    /\ r.at \in {"check", "update"} => r.record.id \in 1 .. b /\ r.seen.id = r.record.id
    /\ r.at \in {"subscribe", "unsubscribe"} => r.seen.id \in 1 .. b
    /\ r.at = "subscribe" => r.device \in Devices

Creating == {s \in Slots : accountRequests[s].at = "create"}

CreatingCounted ==
    /\ IsFiniteSet(Creating)
    /\ accountBorn + Cardinality(Creating) <= accountBegun

AccountHeld ==
    /\ \A e \in Emails : accountUsers[e] = Accounts!None \/ accountUsers[e].id \in 1 .. accountBorn
    /\ \A id \in Accounts!Quiet :
          id \in accountDeleted <=> \A e \in Emails : accountUsers[e].id # id
    /\ \A e, f \in Emails :
          accountUsers[e].id = accountUsers[f].id /\ accountUsers[e].id \in Accounts!Quiet => e = f
    /\ \A e \in Emails : accountUsers[e].id \in Accounts!Quiet =>
          /\ accountUsers[e].password = accountLastSet[accountUsers[e].id]
          /\ \A d \in accountKept[accountUsers[e].id] : <<e, d>> \in accountSubscriptions
    /\ \A n \in 1 .. MaxAccountRequests : n > accountBorn => accountKept[n] = {}

TokensSound ==
    /\ \A t \in Tokens :
          /\ accountResets[t] <= 1 /\ (accountResets[t] = 1 => accountTokens[t].state = "used")
          /\ accountTokens[t].state # "none" => accountTokens[t].email \in Emails
    /\ \A s \in Slots : accountRequests[s].token \in Tokens =>
          /\ accountTokens[accountRequests[s].token].state = "used"
          /\ accountResets[accountRequests[s].token] = 0
    /\ \A s, u \in Slots :
          accountRequests[s].token = accountRequests[u].token /\ accountRequests[s].token \in Tokens
             => s = u

AccountsInv ==
    /\ Accounts!TypeOK
    /\ \A s \in Slots : Carried(accountRequests[s], accountBorn)
    /\ CreatingCounted
    /\ AccountHeld
    /\ TokensSound

LEMMA CarriedStep ==
    ASSUME AccountsInv, NEW s \in Slots, NEW q,
           accountRequests' = [accountRequests EXCEPT ![s] = q],
           accountBorn' \in {accountBorn, accountBorn + 1}, Carried(q, accountBorn')
    PROVE  \A t \in Slots : Carried(accountRequests[t], accountBorn)'
<1> SUFFICES ASSUME NEW t \in Slots PROVE Carried(accountRequests'[t], accountBorn')
  BY DEF Carried
<1>1. accountRequests'[t] = IF t = s THEN q ELSE accountRequests[t]
  BY DEF AccountsInv, Accounts!TypeOK
<1>2. Carried(accountRequests[t], accountBorn)
  BY DEF AccountsInv
<1>3. 1 .. accountBorn \subseteq 1 .. accountBorn'
  BY DEF AccountsInv, Accounts!TypeOK
<1> QED BY <1>1, <1>2, <1>3 DEF Carried

\* An account is made for a request that was counted.
LEMMA CreatingStep ==
    ASSUME AccountsInv, NEW s \in Slots, NEW q,
           accountRequests' = [accountRequests EXCEPT ![s] = q],
           \/ q.at # "create" /\ UNCHANGED accountBorn
                 /\ accountBegun' \in {accountBegun, accountBegun + 1}
           \/ UNCHANGED accountBorn /\ accountBegun' = accountBegun + 1
           \/ /\ accountRequests[s].at = "create" /\ q.at # "create"
              /\ accountBorn' = accountBorn + 1 /\ UNCHANGED accountBegun
    PROVE  CreatingCounted'
<1>1. accountBorn \in Nat /\ accountBegun \in Nat
  BY DEF AccountsInv, Accounts!TypeOK
<1>2. IsFiniteSet(Creating) /\ accountBorn + Cardinality(Creating) <= accountBegun
  BY DEF AccountsInv, CreatingCounted
<1>3. Cardinality(Creating) \in Nat
  BY <1>2, FS_CardinalityType
<1>4. \A t \in Slots : accountRequests'[t] = IF t = s THEN q ELSE accountRequests[t]
  BY DEF AccountsInv, Accounts!TypeOK
<1>5. CASE q.at = "create" /\ s \notin Creating
  <2>1. Creating' = Creating \cup {s}
    BY <1>4, <1>5 DEF Creating
  <2>2. IsFiniteSet(Creating') /\ Cardinality(Creating') = Cardinality(Creating) + 1
    BY <1>2, <1>5, <2>1, FS_AddElement
  <2>3. accountBorn' = accountBorn /\ accountBegun' = accountBegun + 1
    BY <1>5
  <2> QED BY <1>1, <1>2, <1>3, <2>2, <2>3 DEF CreatingCounted
<1>6. CASE q.at = "create" /\ s \in Creating
  <2>1. Creating' = Creating
    BY <1>4, <1>6 DEF Creating
  <2>2. accountBorn' = accountBorn /\ accountBegun' = accountBegun + 1
    BY <1>6
  <2> QED BY <1>1, <1>2, <1>3, <2>1, <2>2 DEF CreatingCounted
<1>7. CASE q.at # "create" /\ s \in Creating
  <2>1. Creating' = Creating \ {s}
    BY <1>4, <1>7 DEF Creating
  <2>2. IsFiniteSet(Creating') /\ Cardinality(Creating') = Cardinality(Creating) - 1
    BY <1>2, <1>7, <2>1, FS_RemoveElement
  <2>3. /\ accountBorn' \in {accountBorn, accountBorn + 1}
        /\ accountBegun' \in {accountBegun, accountBegun + 1}
    OBVIOUS
  <2> QED BY <1>1, <1>2, <1>3, <2>2, <2>3 DEF CreatingCounted
<1>8. CASE q.at # "create" /\ s \notin Creating
  <2>1. Creating' = Creating
    BY <1>4, <1>8 DEF Creating
  <2>2. accountBorn' = accountBorn /\ accountBegun' \in {accountBegun, accountBegun + 1}
    BY <1>8 DEF Creating
  <2> QED BY <1>1, <1>2, <1>3, <2>1, <2>2 DEF CreatingCounted
<1> QED BY <1>5, <1>6, <1>7, <1>8

\* A request that carries no token, or the one it had.
LEMMA TokensStep ==
    ASSUME AccountsInv, NEW s \in Slots, NEW q,
           accountRequests' = [accountRequests EXCEPT ![s] = q],
           q.token \in Tokens => q.token = accountRequests[s].token,
           UNCHANGED <<accountTokens, accountResets>>
    PROVE  TokensSound'
<1>1. \A t \in Slots : accountRequests'[t] = IF t = s THEN q ELSE accountRequests[t]
  BY DEF AccountsInv, Accounts!TypeOK
<1>2. TokensSound
  BY DEF AccountsInv
<1>3. \A t \in Slots : accountRequests'[t].token \in Tokens =>
         accountRequests'[t].token = accountRequests[t].token
  BY <1>1
<1> QED BY <1>2, <1>3 DEF TokensSound

LEMMA HeldStep ==
    ASSUME AccountHeld,
           UNCHANGED <<accountUsers, accountSubscriptions, accountBorn, accountDeleted,
                       accountLastSet, accountKept, accountRaced>>
    PROVE  AccountHeld'
BY DEF AccountHeld, Accounts!Quiet

\* A request begins.
LEMMA AccountsBegin ==
    ASSUME Accounts!AccountsAssumption, AccountsInv, NEW s \in Slots, NEW q \in Accounts!Request,
           Accounts!Begin(s, q), q.token = Accounts!NoToken, Carried(q, accountBorn),
           UNCHANGED <<accountUsers, accountSubscriptions, accountTokens, Accounts!ghosts>>
    PROVE  AccountsInv'
<1>1. /\ accountRequests' = [accountRequests EXCEPT ![s] = q]
      /\ accountBegun < MaxAccountRequests /\ accountBegun' = accountBegun + 1
      /\ UNCHANGED <<accountUsers, accountSubscriptions, accountTokens, accountBorn, accountDeleted,
                     accountLastSet, accountKept, accountResets, accountRaced>>
  BY DEF Accounts!Begin, Accounts!ghosts
<1>2. Accounts!TypeOK'
  <2>1. accountRequests' \in [Slots -> Accounts!Request]
    BY <1>1 DEF AccountsInv, Accounts!TypeOK
  <2>2. accountBegun' \in 0 .. MaxAccountRequests
    <3>1. MaxAccountRequests \in Nat
      BY DEF Accounts!AccountsAssumption
    <3> QED BY <1>1, <3>1 DEF AccountsInv, Accounts!TypeOK
  <2> QED BY <1>1, <2>1, <2>2 DEF AccountsInv, Accounts!TypeOK
<1>3. \A t \in Slots : Carried(accountRequests[t], accountBorn)'
  BY <1>1, CarriedStep
<1>4. CreatingCounted'
  BY <1>1, CreatingStep
<1>5. TokensSound'
  BY <1>1, TokensStep DEF Accounts!AccountsAssumption, Accounts!NoToken
<1>6. AccountHeld'
  BY <1>1, HeldStep DEF AccountsInv
<1> QED BY <1>2, <1>3, <1>4, <1>5, <1>6 DEF AccountsInv

\* A request goes on, or ends, and changes nothing else.
LEMMA AccountsContinue ==
    ASSUME Accounts!AccountsAssumption, AccountsInv, NEW s \in Slots, NEW q \in Accounts!Request,
           accountRequests' = [accountRequests EXCEPT ![s] = q], q.at # "create",
           q.token \in Tokens => q.token = accountRequests[s].token,
           Carried(q, accountBorn),
           UNCHANGED <<accountUsers, accountSubscriptions, accountTokens, accountBegun,
                       Accounts!ghosts>>
    PROVE  AccountsInv'
<1>1. UNCHANGED <<accountUsers, accountSubscriptions, accountTokens, accountBegun, accountBorn,
                  accountDeleted, accountLastSet, accountKept, accountResets, accountRaced>>
  BY DEF Accounts!ghosts
<1>2. Accounts!TypeOK'
  <2>1. accountRequests' \in [Slots -> Accounts!Request]
    BY DEF AccountsInv, Accounts!TypeOK
  <2> QED BY <1>1, <2>1 DEF AccountsInv, Accounts!TypeOK
<1>3. \A t \in Slots : Carried(accountRequests[t], accountBorn)'
  BY <1>1, CarriedStep
<1>4. CreatingCounted'
  BY <1>1, CreatingStep
<1>5. TokensSound'
  BY <1>1, TokensStep
<1>6. AccountHeld'
  BY <1>1, HeldStep DEF AccountsInv
<1> QED BY <1>2, <1>3, <1>4, <1>5, <1>6 DEF AccountsInv

LEMMA AccountIdle ==
    ASSUME Accounts!AccountsAssumption
    PROVE  /\ Accounts!Idle \in Accounts!Request /\ Accounts!Idle.at = "idle"
           /\ Accounts!Idle.token = Accounts!NoToken /\ Accounts!Idle.token \notin Tokens
           /\ Accounts!Idle.record = Accounts!None
           /\ \A b : Carried(Accounts!Idle, b)
<1>1. MaxAccountRequests \in Nat
  BY DEF Accounts!AccountsAssumption
<1>2. Accounts!None \in Accounts!Record
  BY <1>1 DEF Accounts!None, Accounts!Record
<1> QED BY <1>2 DEF Accounts!Idle, Accounts!Request, Accounts!AccountsAssumption, Accounts!NoToken,
       Carried

\* An account that is there has a number.
LEMMA AccountNumbered ==
    ASSUME AccountsInv, NEW e \in Emails
    PROVE  /\ accountUsers[e] \in Accounts!Record
           /\ Accounts!Exists(e) => accountUsers[e].id \in 1 .. accountBorn
           /\ ~Accounts!Exists(e) => accountUsers[e].id = 0
BY DEF AccountsInv, AccountHeld, Accounts!TypeOK, Accounts!Exists, Accounts!None

\* The number of a request that begins.
LEMMA AccountNext ==
    ASSUME Accounts!AccountsAssumption, AccountsInv, NEW s, NEW q, Accounts!Begin(s, q)
    PROVE  accountBegun + 1 \in 0 .. MaxAccountRequests
<1>1. MaxAccountRequests \in Nat
  BY DEF Accounts!AccountsAssumption
<1> QED BY <1>1 DEF Accounts!Begin, AccountsInv, Accounts!TypeOK

LEMMA AccountsCreate ==
    ASSUME Accounts!AccountsAssumption, AccountsInv, NEW s \in Slots,
           NEW by \in {"guest", "site"}, NEW e \in Emails, Accounts!CreateUser(s, by, e)
    PROVE  AccountsInv'
<1> PICK i \in Accounts!Request : i = Accounts!Idle /\ i.record = Accounts!None
  BY AccountIdle
<1> PICK record : record = [i.record EXCEPT !.password = accountBegun + 1]
  OBVIOUS
<1> PICK q : q = [i EXCEPT !.at = "create", !.by = by, !.email = e, !.prev = e, !.record = record]
  OBVIOUS
<1>1. q = [Accounts!Idle EXCEPT !.at = "create", !.by = by, !.email = e, !.prev = e,
                                !.record.password = accountBegun + 1]
  BY DEF Accounts!Request
<1>2. Accounts!Begin(s, q)
      /\ UNCHANGED <<accountUsers, accountSubscriptions, accountTokens, Accounts!ghosts>>
  BY <1>1 DEF Accounts!CreateUser
<1>3. record \in Accounts!Record
  <2>1. accountBegun + 1 \in 0 .. MaxAccountRequests
    BY <1>2, AccountNext
  <2>2. i.record \in Accounts!Record
    BY DEF Accounts!Request
  <2> QED BY <2>1, <2>2 DEF Accounts!Record
<1>4. q \in Accounts!Request /\ q.at = "create" /\ q.email = e /\ q.prev = e /\ q.token = i.token
  BY <1>3 DEF Accounts!Request
<1> QED BY <1>2, <1>4, AccountIdle, AccountsBegin DEF Carried

LEMMA AccountsPatch ==
    ASSUME Accounts!AccountsAssumption, AccountsInv, NEW s \in Slots,
           NEW e \in Emails, NEW f \in Emails, NEW sets \in BOOLEAN, Accounts!Patch(s, e, f, sets)
    PROVE  AccountsInv'
<1> PICK i \in Accounts!Request : i = Accounts!Idle
  BY AccountIdle
<1> PICK at \in {"update", "check"} : at = IF f = e THEN "update" ELSE "check"
  OBVIOUS
<1> PICK seen : seen = accountUsers[e]
  OBVIOUS
<1> PICK record :
      record = IF sets THEN [seen EXCEPT !.password = accountBegun + 1] ELSE seen
  OBVIOUS
<1> PICK q : q = [i EXCEPT !.at = at, !.prev = e, !.email = f, !.seen = seen, !.record = record]
  OBVIOUS
<1>1. /\ Accounts!Begin(s, q) /\ Accounts!Exists(e)
      /\ UNCHANGED <<accountUsers, accountSubscriptions, accountTokens, Accounts!ghosts>>
  BY DEF Accounts!Patch
<1>2. seen \in Accounts!Record /\ seen.id \in 1 .. accountBorn
  BY <1>1, AccountNumbered
<1>3. record \in Accounts!Record /\ record.id = seen.id
  <2>1. accountBegun + 1 \in 0 .. MaxAccountRequests
    BY <1>1, AccountNext
  <2> QED BY <1>2, <2>1 DEF Accounts!Record
<1>4. /\ q \in Accounts!Request /\ q.at = at /\ q.email = f /\ q.prev = e /\ q.token = i.token
      /\ q.seen = seen /\ q.record = record
  BY <1>2, <1>3 DEF Accounts!Request
<1> QED BY <1>1, <1>2, <1>3, <1>4, AccountIdle, AccountsBegin DEF Carried

LEMMA AccountsForgot ==
    ASSUME Accounts!AccountsAssumption, AccountsInv, NEW s \in Slots, NEW e \in Emails,
           Accounts!ForgotPassword(s, e)
    PROVE  AccountsInv'
<1> PICK i \in Accounts!Request : i = Accounts!Idle
  BY AccountIdle
<1> PICK q : q = [i EXCEPT !.at = "issue", !.email = e]
  OBVIOUS
<1>1. Accounts!Begin(s, q)
      /\ UNCHANGED <<accountUsers, accountSubscriptions, accountTokens, Accounts!ghosts>>
  BY DEF Accounts!ForgotPassword
<1>2. q \in Accounts!Request /\ q.at = "issue" /\ q.email = e /\ q.token = i.token
  BY DEF Accounts!Request
<1> QED BY <1>1, <1>2, AccountIdle, AccountsBegin DEF Carried

\* Subscribe and Unsubscribe alike.
LEMMA AccountsNotify ==
    ASSUME Accounts!AccountsAssumption, AccountsInv, NEW s \in Slots, NEW e \in Emails,
           NEW d \in Devices \cup {Accounts!NoDevice},
           \/ Accounts!Subscribe(s, e, d) /\ d \in Devices
           \/ Accounts!Unsubscribe(s, e, d)
    PROVE  AccountsInv'
<1> PICK i \in Accounts!Request : i = Accounts!Idle
  BY AccountIdle
<1> PICK seen : seen = accountUsers[e]
  OBVIOUS
<1>1. PICK at \in {"subscribe", "unsubscribe"} :
         /\ Accounts!Begin(s, [i EXCEPT !.at = at, !.prev = e, !.email = e, !.seen = seen,
                                        !.device = d])
         /\ Accounts!Exists(e)
         /\ at = "subscribe" => d \in Devices
         /\ UNCHANGED <<accountUsers, accountSubscriptions, accountTokens, Accounts!ghosts>>
  BY DEF Accounts!Subscribe, Accounts!Unsubscribe
<1> PICK q : q = [i EXCEPT !.at = at, !.prev = e, !.email = e, !.seen = seen, !.device = d]
  OBVIOUS
<1>2. seen \in Accounts!Record /\ seen.id \in 1 .. accountBorn
  BY <1>1, AccountNumbered
<1>3. /\ q \in Accounts!Request /\ q.at = at /\ q.email = e /\ q.prev = e /\ q.token = i.token
      /\ q.seen = seen /\ q.device = d
  BY <1>2 DEF Accounts!Request
<1> QED BY <1>1, <1>2, <1>3, AccountIdle, AccountsBegin DEF Carried

LEMMA AccountRequestFacts ==
    ASSUME AccountsInv, NEW s \in Slots
    PROVE  /\ accountRequests[s] \in Accounts!Request
           /\ Carried(accountRequests[s], accountBorn)
BY DEF AccountsInv, Accounts!TypeOK

LEMMA AccountsReturn ==
    ASSUME Accounts!AccountsAssumption, AccountsInv, NEW s \in Slots, Accounts!Return(s),
           UNCHANGED <<accountUsers, accountSubscriptions, accountTokens, Accounts!ghosts>>
    PROVE  AccountsInv'
<1>1. PICK q \in Accounts!Request : q = Accounts!Idle /\ q.at = "idle" /\ q.token \notin Tokens
         /\ Carried(q, accountBorn)
  BY AccountIdle
<1>2. accountRequests' = [accountRequests EXCEPT ![s] = q] /\ UNCHANGED accountBegun
  BY <1>1 DEF Accounts!Return, Accounts!Continue
<1> QED BY <1>1, <1>2, AccountsContinue

LEMMA AccountsCheck ==
    ASSUME Accounts!AccountsAssumption, AccountsInv, NEW s \in Slots, Accounts!CheckEmail(s)
    PROVE  AccountsInv'
<1> PICK r \in Accounts!Request : r = accountRequests[s] /\ Carried(r, accountBorn)
  BY AccountRequestFacts
<1>1. r.at = "check"
      /\ UNCHANGED <<accountUsers, accountSubscriptions, accountTokens, Accounts!ghosts>>
  BY DEF Accounts!CheckEmail
<1>2. CASE Accounts!Return(s)
  BY <1>1, <1>2, AccountsReturn
<1>3. CASE ~Accounts!Return(s)
  <2> PICK q : q = [r EXCEPT !.at = "update"]
    OBVIOUS
  <2>1. accountRequests' = [accountRequests EXCEPT ![s] = q] /\ UNCHANGED accountBegun
    BY <1>3 DEF Accounts!CheckEmail, Accounts!Continue
  <2>2. /\ q \in Accounts!Request /\ q.at = "update" /\ q.email = r.email /\ q.prev = r.prev
        /\ q.token = r.token /\ q.seen = r.seen /\ q.record = r.record
    BY DEF Accounts!Request
  <2>3. Carried(q, accountBorn)
    BY <1>1, <2>2 DEF Carried
  <2> QED BY <1>1, <2>1, <2>2, <2>3, AccountsContinue
<1> QED BY <1>2, <1>3

LEMMA AccountsFind ==
    ASSUME Accounts!AccountsAssumption, AccountsInv, NEW s \in Slots, Accounts!FindForReset(s)
    PROVE  AccountsInv'
<1> PICK r \in Accounts!Request : r = accountRequests[s] /\ Carried(r, accountBorn)
  BY AccountRequestFacts
<1>1. r.at = "find"
      /\ UNCHANGED <<accountUsers, accountSubscriptions, accountTokens, Accounts!ghosts>>
  BY DEF Accounts!FindForReset
<1>2. CASE ~Accounts!Exists(r.email)
  <2>1. Accounts!Return(s)
    BY <1>2 DEF Accounts!FindForReset
  <2> QED BY <1>1, <2>1, AccountsReturn
<1>3. CASE Accounts!Exists(r.email)
  <2> PICK seen : seen = accountUsers[r.email]
    OBVIOUS
  <2> PICK record : record = [r.record EXCEPT !.id = seen.id]
    OBVIOUS
  <2> PICK q : q = [r EXCEPT !.at = "update", !.seen = seen, !.record = record]
    OBVIOUS
  <2>1. q = [r EXCEPT !.at = "update", !.seen = accountUsers[r.email],
                      !.record.id = accountUsers[r.email].id]
    BY DEF Accounts!Request
  <2>2. accountRequests' = [accountRequests EXCEPT ![s] = q] /\ UNCHANGED accountBegun
    BY <1>3, <2>1 DEF Accounts!FindForReset, Accounts!Continue
  <2>3. seen \in Accounts!Record /\ seen.id \in 1 .. accountBorn
    <3>1. r.email \in Emails
      BY <1>1 DEF Carried
    <3> QED BY <1>3, <3>1, AccountNumbered
  <2>4. r.record \in Accounts!Record
    BY DEF Accounts!Request
  <2>5. record \in Accounts!Record /\ record.id = seen.id
    BY <2>3, <2>4 DEF Accounts!Record
  <2>6. /\ q \in Accounts!Request /\ q.at = "update" /\ q.email = r.email /\ q.prev = r.prev
        /\ q.token = r.token /\ q.seen = seen /\ q.record = record
    BY <2>3, <2>5 DEF Accounts!Request
  <2>7. Carried(q, accountBorn)
    BY <1>1, <2>3, <2>5, <2>6 DEF Carried
  <2> QED BY <1>1, <2>2, <2>6, <2>7, AccountsContinue
<1> QED BY <1>2, <1>3

\* A token that is not used up changes hands or runs out.
LEMMA TokenChanges ==
    ASSUME Accounts!AccountsAssumption, AccountsInv, NEW t \in Tokens, NEW p,
           accountTokens[t].state # "used",
           accountTokens' = [accountTokens EXCEPT ![t] = p],
           p \in [email: Emails \cup {Accounts!NoEmail}, state: {"none", "fresh", "used", "expired"}],
           p.email \in Emails,
           UNCHANGED accountResets,
           \A s \in Slots : accountRequests'[s].token \in Tokens =>
              accountRequests'[s].token = accountRequests[s].token
    PROVE  /\ TokensSound'
           /\ accountTokens' \in [Tokens -> [email: Emails \cup {Accounts!NoEmail},
                                             state: {"none", "fresh", "used", "expired"}]]
<1>1. TokensSound /\ Accounts!TypeOK
  BY DEF AccountsInv
<1>2. /\ accountTokens'[t] = p /\ \A u \in Tokens \ {t} : accountTokens'[u] = accountTokens[u]
      /\ accountTokens' \in [Tokens -> [email: Emails \cup {Accounts!NoEmail},
                                        state: {"none", "fresh", "used", "expired"}]]
  BY <1>1 DEF Accounts!TypeOK
<1>3. accountResets[t] # 1 /\ \A s \in Slots : accountRequests[s].token # t
  BY <1>1 DEF TokensSound
<1> QED BY <1>1, <1>2, <1>3 DEF TokensSound

LEMMA AccountsIssue ==
    ASSUME Accounts!AccountsAssumption, AccountsInv, NEW s \in Slots, NEW t \in Tokens,
           Accounts!CreatePasswordResetToken(s, t)
    PROVE  AccountsInv'
<1> PICK r \in Accounts!Request : r = accountRequests[s] /\ Carried(r, accountBorn)
  BY AccountRequestFacts
<1>1. PICK q \in Accounts!Request : q = Accounts!Idle /\ q.at = "idle" /\ q.token \notin Tokens
         /\ Carried(q, accountBorn)
  BY AccountIdle
<1> PICK p : p = [email |-> r.email, state |-> "fresh"]
  OBVIOUS
<1>2. /\ r.at = "issue" /\ accountTokens[t].state = "none"
      /\ accountTokens' = [accountTokens EXCEPT ![t] = p]
      /\ accountRequests' = [accountRequests EXCEPT ![s] = q]
      /\ UNCHANGED <<accountUsers, accountSubscriptions, accountBegun, accountBorn, accountDeleted,
                     accountLastSet, accountKept, accountResets, accountRaced>>
  BY <1>1 DEF Accounts!CreatePasswordResetToken, Accounts!Return, Accounts!Continue, Accounts!ghosts
<1>3. Accounts!TypeOK
  BY DEF AccountsInv
<1>4. \A u \in Slots : accountRequests'[u].token \in Tokens =>
         accountRequests'[u].token = accountRequests[u].token
  BY <1>1, <1>2, <1>3 DEF Accounts!TypeOK
<1>5. r.email \in Emails
  BY <1>2 DEF Carried
<1>6. p \in [email: Emails \cup {Accounts!NoEmail}, state: {"none", "fresh", "used", "expired"}]
      /\ p.email \in Emails
  BY <1>5
<1>7. /\ TokensSound'
      /\ accountTokens' \in [Tokens -> [email: Emails \cup {Accounts!NoEmail},
                                        state: {"none", "fresh", "used", "expired"}]]
  BY <1>2, <1>4, <1>6, TokenChanges
<1>8. accountRequests' \in [Slots -> Accounts!Request]
  BY <1>2, <1>3 DEF Accounts!TypeOK
<1>9. Accounts!TypeOK'
  BY <1>2, <1>3, <1>7, <1>8 DEF Accounts!TypeOK
<1>10. \A u \in Slots : Carried(accountRequests[u], accountBorn)'
  BY <1>1, <1>2, CarriedStep
<1>11. CreatingCounted'
  BY <1>1, <1>2, CreatingStep
<1>12. AccountHeld'
  BY <1>2, HeldStep DEF AccountsInv
<1> QED BY <1>7, <1>9, <1>10, <1>11, <1>12 DEF AccountsInv

LEMMA AccountsExpire ==
    ASSUME Accounts!AccountsAssumption, AccountsInv, NEW t \in Tokens, Accounts!TokenExpires(t)
    PROVE  AccountsInv'
<1> PICK o : o = accountTokens[t]
  OBVIOUS
<1> PICK p : p = [o EXCEPT !.state = "expired"]
  OBVIOUS
<1>1. /\ o.state = "fresh"
      /\ accountTokens' = [accountTokens EXCEPT ![t] = p]
      /\ UNCHANGED <<accountUsers, accountSubscriptions, accountRequests, accountBegun, accountBorn,
                     accountDeleted, accountLastSet, accountKept, accountResets, accountRaced>>
  BY DEF Accounts!TokenExpires, Accounts!ghosts
<1>2. Accounts!TypeOK
  BY DEF AccountsInv
<1>3. o \in [email: Emails \cup {Accounts!NoEmail}, state: {"none", "fresh", "used", "expired"}]
      /\ o.email \in Emails
  BY <1>1, <1>2 DEF Accounts!TypeOK, AccountsInv, TokensSound
<1>4. p \in [email: Emails \cup {Accounts!NoEmail}, state: {"none", "fresh", "used", "expired"}]
      /\ p.email \in Emails
  BY <1>3
<1>5. /\ TokensSound'
      /\ accountTokens' \in [Tokens -> [email: Emails \cup {Accounts!NoEmail},
                                        state: {"none", "fresh", "used", "expired"}]]
  BY <1>1, <1>4, TokenChanges
<1>6. Accounts!TypeOK'
  BY <1>1, <1>2, <1>5 DEF Accounts!TypeOK
<1>7. AccountHeld'
  BY <1>1, HeldStep DEF AccountsInv
<1>8. (\A u \in Slots : Carried(accountRequests[u], accountBorn)') /\ CreatingCounted'
  BY <1>1 DEF AccountsInv, Carried, CreatingCounted, Creating
<1> QED BY <1>5, <1>6, <1>7, <1>8 DEF AccountsInv

LEMMA AccountsConsume ==
    ASSUME Accounts!AccountsAssumption, AccountsInv, NEW s \in Slots, NEW t \in Tokens,
           Accounts!ConsumePasswordResetToken(s, t)
    PROVE  AccountsInv'
<1> PICK i \in Accounts!Request : i = Accounts!Idle /\ i.record = Accounts!None
  BY AccountIdle
<1> PICK o : o = accountTokens[t]
  OBVIOUS
<1> PICK e : e = o.email
  OBVIOUS
<1> PICK record : record = [i.record EXCEPT !.password = accountBegun + 1]
  OBVIOUS
<1> PICK q : q = [i EXCEPT !.at = "find", !.prev = e, !.email = e, !.token = t, !.record = record]
  OBVIOUS
<1>1. q = [Accounts!Idle EXCEPT !.at = "find", !.prev = accountTokens[t].email,
                                !.email = accountTokens[t].email, !.token = t,
                                !.record.password = accountBegun + 1]
  BY DEF Accounts!Request
<1>2. /\ Accounts!Begin(s, q) /\ o.state = "fresh"
      /\ accountTokens' = [accountTokens EXCEPT ![t].state = "used"]
      /\ UNCHANGED <<accountUsers, accountSubscriptions, accountBorn, accountDeleted,
                     accountLastSet, accountKept, accountResets, accountRaced>>
  BY <1>1 DEF Accounts!ConsumePasswordResetToken, Accounts!ghosts
<1>3. /\ accountRequests' = [accountRequests EXCEPT ![s] = q]
      /\ accountBegun' = accountBegun + 1 /\ accountBegun' \in 0 .. MaxAccountRequests
  BY <1>2, AccountNext DEF Accounts!Begin
<1>4. Accounts!TypeOK /\ TokensSound
  BY DEF AccountsInv
<1>5. o \in [email: Emails \cup {Accounts!NoEmail}, state: {"none", "fresh", "used", "expired"}]
      /\ e \in Emails
  BY <1>2, <1>4 DEF Accounts!TypeOK, TokensSound
<1>6. record \in Accounts!Record
  <2>1. accountBegun + 1 \in 0 .. MaxAccountRequests
    BY <1>3
  <2>2. i.record \in Accounts!Record
    BY DEF Accounts!Request
  <2> QED BY <2>1, <2>2 DEF Accounts!Record
<1>7. q \in Accounts!Request /\ q.at = "find" /\ q.email = e /\ q.prev = e /\ q.token = t
  BY <1>5, <1>6 DEF Accounts!Request
<1>8. /\ accountTokens' \in [Tokens -> [email: Emails \cup {Accounts!NoEmail},
                                        state: {"none", "fresh", "used", "expired"}]]
      /\ accountTokens'[t].state = "used" /\ accountTokens'[t].email \in Emails
      /\ \A u \in Tokens \ {t} : accountTokens'[u] = accountTokens[u]
  <2> PICK p : p = [o EXCEPT !.state = "used"]
    OBVIOUS
  <2>1. accountTokens' = [accountTokens EXCEPT ![t] = p]
    BY <1>2
  <2>2. p \in [email: Emails \cup {Accounts!NoEmail}, state: {"none", "fresh", "used", "expired"}]
        /\ p.state = "used" /\ p.email = e
    BY <1>5
  <2> QED BY <1>4, <1>5, <2>1, <2>2 DEF Accounts!TypeOK
<1>9. /\ \A u \in Slots : accountRequests'[u] = IF u = s THEN q ELSE accountRequests[u]
      /\ accountRequests' \in [Slots -> Accounts!Request]
  BY <1>3, <1>4, <1>7 DEF Accounts!TypeOK
<1>10. TokensSound'
  <2>1. accountResets[t] = 0
    BY <1>2, <1>4 DEF TokensSound, Accounts!TypeOK
  <2>2. \A u \in Slots : accountRequests[u].token # t
    BY <1>2, <1>4 DEF TokensSound
  <2>3. \A u \in Tokens : accountTokens'[u].state # "none" => accountTokens'[u].email \in Emails
    BY <1>4, <1>8 DEF TokensSound
  <2>4. \A u \in Tokens : accountResets'[u] <= 1 /\ (accountResets'[u] = 1 => accountTokens'[u].state = "used")
    BY <1>2, <1>4, <1>8 DEF TokensSound
  <2>5. \A u \in Slots : accountRequests'[u].token \in Tokens =>
          /\ accountTokens'[accountRequests'[u].token].state = "used"
          /\ accountResets'[accountRequests'[u].token] = 0
    <3> SUFFICES ASSUME NEW u \in Slots, accountRequests'[u].token \in Tokens
                 PROVE  /\ accountTokens'[accountRequests'[u].token].state = "used"
                        /\ accountResets'[accountRequests'[u].token] = 0
      OBVIOUS
    <3>1. CASE u = s
      BY <1>2, <1>7, <1>8, <1>9, <2>1, <3>1
    <3>2. CASE u # s
      <4>1. accountRequests'[u] = accountRequests[u] /\ accountRequests[u].token \in Tokens \ {t}
        BY <1>9, <2>2, <3>2
      <4>2. /\ accountTokens[accountRequests[u].token].state = "used"
            /\ accountResets[accountRequests[u].token] = 0
        BY <1>4, <4>1 DEF TokensSound
      <4> QED BY <1>2, <1>8, <4>1, <4>2
    <3> QED BY <3>1, <3>2
  <2>6. \A u, v \in Slots :
          accountRequests'[u].token = accountRequests'[v].token /\ accountRequests'[u].token \in Tokens
             => u = v
    <3> SUFFICES ASSUME NEW u \in Slots, NEW v \in Slots, u # v,
                        accountRequests'[u].token \in Tokens
                 PROVE  accountRequests'[u].token # accountRequests'[v].token
      OBVIOUS
    <3>1. CASE u = s
      <4>1. accountRequests'[u].token = t /\ accountRequests'[v] = accountRequests[v]
        BY <1>7, <1>9, <3>1
      <4> QED BY <2>2, <4>1
    <3>2. CASE v = s
      BY <1>7, <1>9, <2>2, <3>2
    <3>3. CASE u # s /\ v # s
      BY <1>4, <1>9, <3>3 DEF TokensSound
    <3> QED BY <3>1, <3>2, <3>3
  <2> QED BY <2>3, <2>4, <2>5, <2>6 DEF TokensSound
<1>11. Accounts!TypeOK'
  BY <1>2, <1>3, <1>4, <1>8, <1>9 DEF Accounts!TypeOK
<1>12. \A u \in Slots : Carried(accountRequests[u], accountBorn)'
  <2>1. Carried(q, accountBorn')
    BY <1>5, <1>7 DEF Carried
  <2> QED BY <1>2, <1>3, <2>1, CarriedStep
<1>13. CreatingCounted'
  BY <1>2, <1>3, <1>7, CreatingStep
<1>14. AccountHeld'
  BY <1>2, HeldStep DEF AccountsInv
<1> QED BY <1>10, <1>11, <1>12, <1>13, <1>14 DEF AccountsInv

\* Who makes an account has a number left for it.
LEMMA AccountNumberLeft ==
    ASSUME Accounts!AccountsAssumption, AccountsInv, NEW s \in Slots,
           accountRequests[s].at = "create"
    PROVE  /\ accountBorn \in Nat /\ accountBorn + 1 \in 1 .. MaxAccountRequests
           /\ accountBorn + 1 \in 0 .. MaxAccountRequests
<1>1. s \in Creating /\ IsFiniteSet(Creating) /\ accountBorn + Cardinality(Creating) <= accountBegun
  BY DEF Creating, AccountsInv, CreatingCounted
<1>2. Cardinality(Creating) \in Nat /\ Cardinality(Creating) # 0
  BY <1>1, FS_CardinalityType, FS_EmptySet
<1>3. MaxAccountRequests \in Nat
  BY DEF Accounts!AccountsAssumption
<1> QED BY <1>1, <1>2, <1>3 DEF AccountsInv, Accounts!TypeOK

LEMMA AccountsPut ==
    ASSUME Accounts!AccountsAssumption, AccountsInv, NEW s \in Slots, Accounts!PutUser(s)
    PROVE  AccountsInv'
<1> PICK r \in Accounts!Request : r = accountRequests[s] /\ Carried(r, accountBorn)
  BY AccountRequestFacts
<1> PICK b : b = accountBorn + 1
  OBVIOUS
<1> PICK mail : mail = r.email
  OBVIOUS
<1> PICK old : old = accountUsers[mail]
  OBVIOUS
<1> PICK new : new = [r.record EXCEPT !.id = b]
  OBVIOUS
<1> PICK i \in Accounts!Request : i = Accounts!Idle /\ i.at = "idle" /\ i.token \notin Tokens
      /\ Carried(i, b)
  BY AccountIdle
<1> PICK q : q = IF r.by = "guest" THEN i
                 ELSE [r EXCEPT !.at = "update", !.seen = new, !.record = new]
  OBVIOUS
<1>1. /\ r.at = "create"
      /\ accountBorn' = b
      /\ accountUsers' = [accountUsers EXCEPT ![mail] = new]
      /\ accountLastSet' = [accountLastSet EXCEPT ![b] = new.password]
      /\ accountRaced' = accountRaced \cup ({old.id} \ {0})
      /\ accountRequests' = [accountRequests EXCEPT ![s] = q]
      /\ UNCHANGED <<accountBegun, accountSubscriptions, accountTokens, accountDeleted, accountKept,
                     accountResets>>
  BY DEF Accounts!PutUser, Accounts!Return, Accounts!Continue
<1>2. Accounts!TypeOK /\ AccountHeld
  BY DEF AccountsInv
<1>3. /\ accountBorn \in Nat /\ b \in 1 .. MaxAccountRequests /\ b \in 0 .. MaxAccountRequests
      /\ b \in 1 .. b /\ 1 .. b = (1 .. accountBorn) \cup {b} /\ b \notin 1 .. accountBorn
      /\ b \notin 0 .. accountBorn /\ 0 .. accountBorn \subseteq 0 .. b
  BY <1>1, AccountNumberLeft
<1>4. mail \in Emails /\ r.prev \in Emails
  BY <1>1 DEF Carried
<1>5. new \in Accounts!Record /\ new.id = b
  <2>1. r.record \in Accounts!Record
    BY DEF Accounts!Request
  <2> QED BY <1>3, <2>1 DEF Accounts!Record
<1>6. q \in Accounts!Request /\ q.at \in {"idle", "update"} /\ Carried(q, b)
      /\ (q.token \in Tokens => q.token = r.token)
  <2>1. CASE r.by = "guest"
    BY <2>1
  <2>2. CASE r.by # "guest"
    <3>1. /\ q \in Accounts!Request /\ q.at = "update" /\ q.email = mail /\ q.prev = r.prev
          /\ q.token = r.token /\ q.seen = new /\ q.record = new
      BY <1>5, <2>2 DEF Accounts!Request
    <3>2. Carried(q, b)
      BY <1>3, <1>4, <1>5, <3>1 DEF Carried
    <3> QED BY <3>1, <3>2
  <2> QED BY <2>1, <2>2
<1>7. /\ accountUsers'[mail] = new /\ \A e \in Emails \ {mail} : accountUsers'[e] = accountUsers[e]
      /\ accountUsers' \in [Emails -> Accounts!Record]
  BY <1>1, <1>2, <1>4, <1>5 DEF Accounts!TypeOK
<1>8. /\ accountLastSet'[b] = new.password
      /\ \A id \in 1 .. accountBorn : accountLastSet'[id] = accountLastSet[id]
      /\ accountLastSet' \in [1 .. MaxAccountRequests -> 0 .. MaxAccountRequests]
  <2>1. new.password \in 0 .. MaxAccountRequests
    BY <1>5 DEF Accounts!Record
  <2>2. 1 .. accountBorn \subseteq 1 .. MaxAccountRequests
    <3>1. MaxAccountRequests \in Nat
      BY DEF Accounts!AccountsAssumption
    <3> QED BY <1>3, <3>1
  <2> QED BY <1>1, <1>2, <1>3, <2>1, <2>2 DEF Accounts!TypeOK
<1>9. old.id \in 0 .. accountBorn /\ \A e \in Emails : accountUsers[e].id \in 0 .. accountBorn
  BY <1>3, <1>4, AccountNumbered
<1>10. Accounts!TypeOK'
  <2>1. accountRequests' \in [Slots -> Accounts!Request]
    BY <1>1, <1>2, <1>6 DEF Accounts!TypeOK
  <2>2. accountDeleted' \subseteq 1 .. accountBorn' /\ accountRaced' \subseteq 0 .. accountBorn'
    BY <1>1, <1>2, <1>3, <1>9 DEF Accounts!TypeOK
  <2> QED BY <1>1, <1>2, <1>3, <1>7, <1>8, <2>1, <2>2 DEF Accounts!TypeOK
<1>11. \A u \in Slots : Carried(accountRequests[u], accountBorn)'
  BY <1>1, <1>6, CarriedStep
<1>12. CreatingCounted'
  BY <1>1, <1>6, CreatingStep
<1>13. TokensSound'
  BY <1>1, <1>6, TokensStep
<1>14. AccountHeld'
  <2>1. \A id \in Accounts!Quiet' : id # b =>
           /\ id \in Accounts!Quiet /\ id \in 1 .. accountBorn
           /\ \A e \in Emails : accountUsers'[e].id = id => e # mail
           /\ \A e \in Emails : accountUsers[e].id = id => e # mail
    <3> SUFFICES ASSUME NEW id \in Accounts!Quiet', id # b
                 PROVE  /\ id \in Accounts!Quiet /\ id \in 1 .. accountBorn
                        /\ accountUsers'[mail].id # id /\ accountUsers[mail].id # id
      OBVIOUS
    <3>1. id \in 1 .. b /\ id \notin accountRaced'
      BY <1>1 DEF Accounts!Quiet
    <3>2. id \in 1 .. accountBorn /\ id \notin accountRaced /\ id # old.id
      BY <1>1, <1>3, <3>1
    <3> QED BY <1>5, <1>7, <3>2 DEF Accounts!Quiet
  <2>2. \A e \in Emails : accountUsers'[e].id = b => e = mail
    BY <1>3, <1>7, <1>9
  <2>3. b \notin accountDeleted /\ accountKept[b] = {}
    BY <1>2, <1>3 DEF Accounts!TypeOK, AccountHeld
  <2>4. \A e \in Emails : accountUsers'[e] = Accounts!None \/ accountUsers'[e].id \in 1 .. b
    BY <1>2, <1>3, <1>5, <1>7 DEF AccountHeld
  <2>5. \A id \in Accounts!Quiet' :
           id \in accountDeleted <=> \A e \in Emails : accountUsers'[e].id # id
    <3> SUFFICES ASSUME NEW id \in Accounts!Quiet'
                 PROVE  id \in accountDeleted <=> \A e \in Emails : accountUsers'[e].id # id
      OBVIOUS
    <3>1. CASE id = b
      BY <1>4, <1>5, <1>7, <2>3, <3>1
    <3>2. CASE id # b
      <4>1. \A e \in Emails : accountUsers'[e].id = id <=> accountUsers[e].id = id
        BY <1>7, <2>1, <3>2
      <4> QED BY <1>2, <2>1, <3>2, <4>1 DEF AccountHeld
    <3> QED BY <3>1, <3>2
  <2>6. \A e, f \in Emails :
           accountUsers'[e].id = accountUsers'[f].id /\ accountUsers'[e].id \in Accounts!Quiet' => e = f
    <3> SUFFICES ASSUME NEW e \in Emails, NEW f \in Emails,
                        accountUsers'[e].id = accountUsers'[f].id,
                        accountUsers'[e].id \in Accounts!Quiet'
                 PROVE  e = f
      OBVIOUS
    <3>1. CASE accountUsers'[e].id = b
      BY <2>2, <3>1
    <3>2. CASE accountUsers'[e].id # b
      <4>1. e # mail /\ f # mail /\ accountUsers'[e].id \in Accounts!Quiet
        BY <2>1, <3>2
      <4> QED BY <1>2, <1>7, <4>1 DEF AccountHeld
    <3> QED BY <3>1, <3>2
  <2>7. \A e \in Emails : accountUsers'[e].id \in Accounts!Quiet' =>
           /\ accountUsers'[e].password = accountLastSet'[accountUsers'[e].id]
           /\ \A d \in accountKept[accountUsers'[e].id] : <<e, d>> \in accountSubscriptions
    <3> SUFFICES ASSUME NEW e \in Emails, accountUsers'[e].id \in Accounts!Quiet'
                 PROVE  /\ accountUsers'[e].password = accountLastSet'[accountUsers'[e].id]
                        /\ \A d \in accountKept[accountUsers'[e].id] : <<e, d>> \in accountSubscriptions
      OBVIOUS
    <3>1. CASE accountUsers'[e].id = b
      <4>1. e = mail
        BY <2>2, <3>1
      <4> QED BY <1>5, <1>7, <1>8, <2>3, <4>1
    <3>2. CASE accountUsers'[e].id # b
      <4>1. e # mail /\ accountUsers'[e].id \in Accounts!Quiet /\ accountUsers'[e].id \in 1 .. accountBorn
        BY <2>1, <3>2
      <4> QED BY <1>2, <1>7, <1>8, <4>1 DEF AccountHeld
    <3> QED BY <3>1, <3>2
  <2>8. \A n \in 1 .. MaxAccountRequests : n > b => accountKept[n] = {}
    BY <1>2, <1>3 DEF AccountHeld
  <2> QED BY <1>1, <2>4, <2>5, <2>6, <2>7, <2>8 DEF AccountHeld
<1> QED BY <1>10, <1>11, <1>12, <1>13, <1>14 DEF AccountsInv

LEMMA AccountsUpdate ==
    ASSUME Accounts!AccountsAssumption, AccountsInv, NEW s \in Slots, Accounts!UpdateUser(s)
    PROVE  AccountsInv'
<1> PICK r \in Accounts!Request : r = accountRequests[s] /\ Carried(r, accountBorn)
  BY AccountRequestFacts
<1> PICK record : record = r.record
  OBVIOUS
<1> PICK n : n = record.id
  OBVIOUS
<1> PICK mail : mail = r.email
  OBVIOUS
<1> PICK prev : prev = r.prev
  OBVIOUS
<1> PICK q \in Accounts!Request : q = Accounts!Idle /\ q.at = "idle" /\ q.token \notin Tokens
      /\ Carried(q, accountBorn)
  BY AccountIdle
<1>1. /\ r.at = "update"
      /\ accountUsers' = [accountUsers EXCEPT ![prev] = Accounts!None, ![mail] = record]
      /\ accountSubscriptions' = Accounts!Migrated(prev, mail)
      /\ accountLastSet' = [accountLastSet EXCEPT ![n] = record.password]
      /\ accountResets' = IF r.token = Accounts!NoToken THEN accountResets
                          ELSE [accountResets EXCEPT ![r.token] = @ + 1]
      /\ accountRaced' = IF Accounts!Late(r)
                         THEN accountRaced \cup ({n, accountUsers[prev].id, accountUsers[mail].id} \ {0})
                         ELSE accountRaced
      /\ accountRequests' = [accountRequests EXCEPT ![s] = q]
      /\ UNCHANGED <<accountBegun, accountBorn, accountTokens, accountDeleted, accountKept>>
  BY DEF Accounts!UpdateUser, Accounts!Written, Accounts!Return, Accounts!Continue
<1>2. Accounts!TypeOK /\ AccountHeld /\ TokensSound
  BY DEF AccountsInv
<1>3. MaxAccountRequests \in Nat /\ accountBorn \in 0 .. MaxAccountRequests
  BY <1>2 DEF Accounts!AccountsAssumption, Accounts!TypeOK
<1>4. mail \in Emails /\ prev \in Emails /\ n \in 1 .. accountBorn /\ r.seen.id = n
  BY <1>1 DEF Carried
<1>5. record \in Accounts!Record /\ record.password \in 0 .. MaxAccountRequests
  BY DEF Accounts!Request, Accounts!Record
<1>6. /\ accountUsers'[mail] = record
      /\ prev # mail => accountUsers'[prev] = Accounts!None
      /\ \A e \in Emails \ {mail, prev} : accountUsers'[e] = accountUsers[e]
      /\ accountUsers' \in [Emails -> Accounts!Record]
  <2>1. Accounts!None \in Accounts!Record
    BY <1>3 DEF Accounts!None, Accounts!Record
  <2> QED BY <1>1, <1>2, <1>4, <1>5, <2>1 DEF Accounts!TypeOK
<1>7. /\ accountLastSet'[n] = record.password
      /\ \A id \in 1 .. accountBorn : id # n => accountLastSet'[id] = accountLastSet[id]
      /\ accountLastSet' \in [1 .. MaxAccountRequests -> 0 .. MaxAccountRequests]
  <2>1. 1 .. accountBorn \subseteq 1 .. MaxAccountRequests
    BY <1>3
  <2> QED BY <1>1, <1>2, <1>4, <1>5, <2>1 DEF Accounts!TypeOK
<1>8. /\ accountSubscriptions' \subseteq Emails \X Devices
      /\ \A e \in Emails \ {mail, prev} : \A d :
            <<e, d>> \in accountSubscriptions' <=> <<e, d>> \in accountSubscriptions
      /\ \A d : <<prev, d>> \in accountSubscriptions => <<mail, d>> \in accountSubscriptions'
  <2>1. accountSubscriptions \subseteq Emails \X Devices
    BY <1>2 DEF Accounts!TypeOK
  <2>2. CASE prev = mail
    BY <1>1, <2>1, <2>2 DEF Accounts!Migrated
  <2>3. CASE prev # mail
    <3>1. accountSubscriptions' =
             {p \in accountSubscriptions : p[1] # prev}
             \cup {<<mail, p[2]>> : p \in {o \in accountSubscriptions : o[1] = prev}}
      BY <1>1, <2>3 DEF Accounts!Migrated
    <3>2. accountSubscriptions' \subseteq Emails \X Devices
      BY <1>4, <2>1, <3>1
    <3>3. \A e \in Emails \ {mail, prev} : \A d :
            <<e, d>> \in accountSubscriptions' <=> <<e, d>> \in accountSubscriptions
      BY <2>1, <3>1
    <3>4. ASSUME NEW d, <<prev, d>> \in accountSubscriptions
          PROVE  <<mail, d>> \in accountSubscriptions'
      <4>1. PICK p \in accountSubscriptions : p = <<prev, d>>
        BY <3>4
      <4>2. p[1] = prev /\ p[2] = d
        BY <4>1
      <4> QED BY <3>1, <4>2
    <3> QED BY <3>2, <3>3, <3>4
  <2> QED BY <2>2, <2>3
<1>9. \A e \in Emails : accountUsers[e].id \in 0 .. accountBorn
  BY <1>3, AccountNumbered
<1>10. accountResets' \in [Tokens -> Nat] /\ TokensSound'
  <2>1. \A u \in Slots : accountRequests'[u] = IF u = s THEN q ELSE accountRequests[u]
    BY <1>1, <1>2 DEF Accounts!TypeOK
  <2>2. r.token \in Tokens \/ r.token = Accounts!NoToken
    BY DEF Accounts!Request
  <2>3. Accounts!NoToken \notin Tokens
    BY DEF Accounts!AccountsAssumption, Accounts!NoToken
  <2>4. CASE r.token = Accounts!NoToken
    <3>1. UNCHANGED <<accountTokens, accountResets>>
      BY <1>1, <2>4
    <3>2. TokensSound'
      BY <1>1, <3>1, TokensStep
    <3> QED BY <1>2, <3>1, <3>2 DEF Accounts!TypeOK
  <2>5. CASE r.token \in Tokens
    <3>1. accountResets' = [accountResets EXCEPT ![r.token] = @ + 1]
      BY <1>1, <2>3, <2>5
    <3>2. accountTokens[r.token].state = "used" /\ accountResets[r.token] = 0
      BY <1>2, <2>5 DEF TokensSound
    <3>3. \A u \in Slots \ {s} : accountRequests[u].token # r.token
      BY <1>2, <2>5 DEF TokensSound
    <3>4. /\ accountResets' \in [Tokens -> Nat] /\ accountResets'[r.token] = 1
          /\ \A t \in Tokens \ {r.token} : accountResets'[t] = accountResets[t]
      BY <1>2, <2>5, <3>1, <3>2 DEF Accounts!TypeOK
    <3>5. \A u \in Slots : accountRequests'[u].token \in Tokens =>
             accountRequests'[u] = accountRequests[u] /\ accountRequests[u].token # r.token
      BY <2>1, <3>3
    <3>6. \A t \in Tokens :
             /\ accountResets'[t] <= 1 /\ (accountResets'[t] = 1 => accountTokens[t].state = "used")
             /\ accountTokens[t].state # "none" => accountTokens[t].email \in Emails
      BY <1>2, <3>2, <3>4 DEF TokensSound
    <3>7. \A u \in Slots : accountRequests'[u].token \in Tokens =>
             /\ accountTokens[accountRequests'[u].token].state = "used"
             /\ accountResets'[accountRequests'[u].token] = 0
      BY <1>2, <3>4, <3>5 DEF TokensSound
    <3>8. \A u, v \in Slots :
             accountRequests'[u].token = accountRequests'[v].token /\ accountRequests'[u].token \in Tokens
               => u = v
      BY <1>2, <3>5 DEF TokensSound
    <3> QED BY <1>1, <3>4, <3>6, <3>7, <3>8 DEF TokensSound
  <2> QED BY <2>2, <2>4, <2>5
<1>11. Accounts!TypeOK'
  <2>1. accountRequests' \in [Slots -> Accounts!Request]
    BY <1>1, <1>2 DEF Accounts!TypeOK
  <2>2. n \in 0 .. accountBorn
    BY <1>4
  <2>3. accountRaced' \subseteq 0 .. accountBorn
    <3>1. accountRaced \subseteq 0 .. accountBorn
      BY <1>2 DEF Accounts!TypeOK
    <3>2. {n, accountUsers[prev].id, accountUsers[mail].id} \subseteq 0 .. accountBorn
      BY <1>4, <1>9, <2>2
    <3> QED BY <1>1, <3>1, <3>2
  <2> QED BY <1>1, <1>2, <1>6, <1>7, <1>8, <1>10, <2>1, <2>3 DEF Accounts!TypeOK
<1>12. \A u \in Slots : Carried(accountRequests[u], accountBorn)'
  BY <1>1, CarriedStep
<1>13. CreatingCounted'
  BY <1>1, CreatingStep
<1>14. AccountHeld'
  <2>1. Accounts!Quiet' \subseteq Accounts!Quiet /\ Accounts!Quiet' \subseteq 1 .. accountBorn
    BY <1>1 DEF Accounts!Quiet
  <2>2. \A id \in Accounts!Quiet' : id # n =>
           accountUsers[mail].id # id /\ accountUsers[prev].id # id
    <3> SUFFICES ASSUME NEW id \in Accounts!Quiet', id # n
                 PROVE  accountUsers[mail].id # id /\ accountUsers[prev].id # id
      OBVIOUS
    <3>1. id # 0 /\ id \notin accountRaced'
      BY <2>1 DEF Accounts!Quiet
    <3>2. CASE Accounts!Late(r)
      BY <1>1, <3>1, <3>2
    <3>3. CASE ~Accounts!Late(r)
      <4>1. accountUsers[prev] = r.seen /\ (mail = prev \/ ~Accounts!Exists(mail))
        BY <3>3 DEF Accounts!Late
      <4> QED BY <1>4, <3>1, <4>1, AccountNumbered
    <3> QED BY <3>2, <3>3
  <2>3. n \in Accounts!Quiet' =>
           /\ accountUsers[prev].id = n
           /\ n \in Accounts!Quiet /\ n \notin accountDeleted
           /\ \A e \in Emails : accountUsers'[e].id = n <=> e = mail
    <3> SUFFICES ASSUME n \in Accounts!Quiet'
                 PROVE  /\ accountUsers[prev].id = n
                        /\ n \in Accounts!Quiet /\ n \notin accountDeleted
                        /\ \A e \in Emails : accountUsers'[e].id = n <=> e = mail
      OBVIOUS
    <3>1. n # 0 /\ n \notin accountRaced' /\ n \in Accounts!Quiet
      BY <1>4, <2>1 DEF Accounts!Quiet
    <3>2. accountUsers[prev] = r.seen
      BY <1>1, <3>1 DEF Accounts!Late
    <3>3. accountUsers[prev].id = n /\ n \notin accountDeleted
      BY <1>2, <1>4, <3>1, <3>2 DEF AccountHeld
    <3>4. \A e \in Emails : accountUsers[e].id = n => e = prev
      BY <1>2, <1>4, <3>1, <3>3 DEF AccountHeld
    <3>5. ASSUME NEW e \in Emails, accountUsers'[e].id = n PROVE e = mail
      <4>1. CASE e = prev
        BY <1>6, <3>1, <3>5, <4>1 DEF Accounts!None
      <4>2. CASE e # prev /\ e # mail
        BY <1>6, <3>4, <3>5, <4>2
      <4> QED BY <4>1, <4>2
    <3> QED BY <1>6, <3>1, <3>3, <3>5
  <2>4. \A id \in Accounts!Quiet' : id # n =>
           \A e \in Emails : /\ accountUsers'[e].id = id <=> accountUsers[e].id = id
                             /\ accountUsers'[e].id = id => e # mail /\ e # prev
    <3> SUFFICES ASSUME NEW id \in Accounts!Quiet', id # n, NEW e \in Emails
                 PROVE  /\ accountUsers'[e].id = id <=> accountUsers[e].id = id
                        /\ accountUsers'[e].id = id => e # mail /\ e # prev
      OBVIOUS
    <3>1. id # 0
      BY <2>1
    <3>2. CASE e = mail
      BY <1>6, <2>2, <3>2
    <3>3. CASE e = prev /\ e # mail
      BY <1>6, <2>2, <3>1, <3>3 DEF Accounts!None
    <3>4. CASE e # prev /\ e # mail
      BY <1>6, <3>4
    <3> QED BY <3>2, <3>3, <3>4
  <2>5. \A e \in Emails : accountUsers'[e] = Accounts!None \/ accountUsers'[e].id \in 1 .. accountBorn
    BY <1>2, <1>4, <1>6 DEF AccountHeld
  <2>6. \A id \in Accounts!Quiet' :
           id \in accountDeleted <=> \A e \in Emails : accountUsers'[e].id # id
    <3> SUFFICES ASSUME NEW id \in Accounts!Quiet'
                 PROVE  id \in accountDeleted <=> \A e \in Emails : accountUsers'[e].id # id
      OBVIOUS
    <3>1. CASE id = n
      BY <1>4, <2>3, <3>1
    <3>2. CASE id # n
      BY <1>2, <2>1, <2>4, <3>2 DEF AccountHeld
    <3> QED BY <3>1, <3>2
  <2>7. \A e, f \in Emails :
           accountUsers'[e].id = accountUsers'[f].id /\ accountUsers'[e].id \in Accounts!Quiet' => e = f
    <3> SUFFICES ASSUME NEW e \in Emails, NEW f \in Emails,
                        accountUsers'[e].id = accountUsers'[f].id,
                        accountUsers'[e].id \in Accounts!Quiet'
                 PROVE  e = f
      OBVIOUS
    <3>1. CASE accountUsers'[e].id = n
      BY <2>3, <3>1
    <3>2. CASE accountUsers'[e].id # n
      <4>1. /\ e \notin {mail, prev} /\ f \notin {mail, prev}
            /\ accountUsers'[e].id \in Accounts!Quiet
        <5> PICK id \in Accounts!Quiet' : id = accountUsers'[e].id /\ id = accountUsers'[f].id
          OBVIOUS
        <5> QED BY <2>1, <2>4, <3>2
      <4> QED BY <1>2, <1>6, <4>1 DEF AccountHeld
    <3> QED BY <3>1, <3>2
  <2>8. \A e \in Emails : accountUsers'[e].id \in Accounts!Quiet' =>
           /\ accountUsers'[e].password = accountLastSet'[accountUsers'[e].id]
           /\ \A d \in accountKept[accountUsers'[e].id] : <<e, d>> \in accountSubscriptions'
    <3> SUFFICES ASSUME NEW e \in Emails, accountUsers'[e].id \in Accounts!Quiet'
                 PROVE  /\ accountUsers'[e].password = accountLastSet'[accountUsers'[e].id]
                        /\ \A d \in accountKept[accountUsers'[e].id] : <<e, d>> \in accountSubscriptions'
      OBVIOUS
    <3>1. CASE accountUsers'[e].id = n
      <4>1. e = mail /\ accountUsers[prev].id = n /\ n \in Accounts!Quiet
        BY <2>3, <3>1
      <4>2. \A d \in accountKept[n] : <<prev, d>> \in accountSubscriptions
        BY <1>2, <1>4, <4>1 DEF AccountHeld
      <4> QED BY <1>6, <1>7, <1>8, <4>1, <4>2, <3>1
    <3>2. CASE accountUsers'[e].id # n
      <4>1. /\ e \notin {mail, prev}
            /\ accountUsers'[e].id \in Accounts!Quiet /\ accountUsers'[e].id \in 1 .. accountBorn
        BY <2>1, <2>4, <3>2
      <4>2. accountUsers'[e] = accountUsers[e]
        BY <1>6, <4>1
      <4>3. /\ accountUsers[e].password = accountLastSet[accountUsers[e].id]
            /\ \A d \in accountKept[accountUsers[e].id] : <<e, d>> \in accountSubscriptions
        BY <1>2, <4>1, <4>2 DEF AccountHeld
      <4> QED BY <1>7, <1>8, <3>2, <4>1, <4>2, <4>3
    <3> QED BY <3>1, <3>2
  <2>9. \A m \in 1 .. MaxAccountRequests : m > accountBorn => accountKept[m] = {}
    BY <1>2 DEF AccountHeld
  <2> QED BY <1>1, <2>5, <2>6, <2>7, <2>8, <2>9 DEF AccountHeld
<1> QED BY <1>10, <1>11, <1>12, <1>13, <1>14 DEF AccountsInv

LEMMA AccountsDelete ==
    ASSUME Accounts!AccountsAssumption, AccountsInv, NEW e \in Emails, Accounts!DeleteUser(e)
    PROVE  AccountsInv'
<1> PICK n : n = accountUsers[e].id
  OBVIOUS
<1>1. /\ accountUsers' = [accountUsers EXCEPT ![e] = Accounts!None]
      /\ accountDeleted' = accountDeleted \cup {n}
      /\ Accounts!Exists(e)
      /\ UNCHANGED <<accountSubscriptions, accountTokens, accountRequests, accountBegun, accountBorn,
                     accountLastSet, accountKept, accountResets, accountRaced>>
  BY DEF Accounts!DeleteUser
<1>2. Accounts!TypeOK /\ AccountHeld
  BY DEF AccountsInv
<1>3. n \in 1 .. accountBorn
  BY <1>1, AccountNumbered
<1>4. /\ accountUsers'[e] = Accounts!None /\ \A f \in Emails \ {e} : accountUsers'[f] = accountUsers[f]
      /\ accountUsers' \in [Emails -> Accounts!Record]
  <2>1. MaxAccountRequests \in Nat
    BY DEF Accounts!AccountsAssumption
  <2>2. Accounts!None \in Accounts!Record
    BY <2>1 DEF Accounts!None, Accounts!Record
  <2> QED BY <1>1, <1>2, <2>2 DEF Accounts!TypeOK
<1>5. Accounts!TypeOK'
  BY <1>1, <1>2, <1>3, <1>4 DEF Accounts!TypeOK
<1>6. AccountHeld'
  <2>1. Accounts!Quiet' = Accounts!Quiet /\ Accounts!Quiet \subseteq 1 .. accountBorn
    BY <1>1 DEF Accounts!Quiet
  <2>2. Accounts!None.id = 0
    BY DEF Accounts!None
  <2>3. \A id \in Accounts!Quiet : \A f \in Emails : accountUsers'[f].id = id =>
           f # e /\ accountUsers'[f] = accountUsers[f]
    <3> SUFFICES ASSUME NEW id \in Accounts!Quiet, NEW f \in Emails, accountUsers'[f].id = id
                 PROVE  f # e
      BY <1>4
    <3>1. id # 0
      BY <2>1
    <3> QED BY <1>4, <2>2, <3>1
  <2>4. \A f \in Emails : accountUsers'[f] = Accounts!None \/ accountUsers'[f].id \in 1 .. accountBorn
    BY <1>2, <1>4 DEF AccountHeld
  <2>5. \A id \in Accounts!Quiet :
           id \in accountDeleted' <=> \A f \in Emails : accountUsers'[f].id # id
    <3> SUFFICES ASSUME NEW id \in Accounts!Quiet
                 PROVE  id \in accountDeleted' <=> \A f \in Emails : accountUsers'[f].id # id
      OBVIOUS
    <3>1. CASE id = n
      <4>1. \A f \in Emails : accountUsers[f].id = id => f = e
        BY <1>2, <3>1 DEF AccountHeld
      <4> QED BY <1>1, <2>3, <3>1, <4>1
    <3>2. CASE id # n
      <4>1. \A f \in Emails : accountUsers'[f].id = id <=> accountUsers[f].id = id
        BY <1>4, <2>3, <3>2
      <4> QED BY <1>1, <1>2, <3>2, <4>1 DEF AccountHeld
    <3> QED BY <3>1, <3>2
  <2>6. \A f, g \in Emails :
           accountUsers'[f].id = accountUsers'[g].id /\ accountUsers'[f].id \in Accounts!Quiet => f = g
    <3> SUFFICES ASSUME NEW f \in Emails, NEW g \in Emails, NEW id \in Accounts!Quiet,
                        accountUsers'[f].id = id, accountUsers'[g].id = id
                 PROVE  f = g
      OBVIOUS
    <3>1. accountUsers[f].id = id /\ accountUsers[g].id = id
      BY <2>3
    <3> QED BY <1>2, <3>1 DEF AccountHeld
  <2>7. \A f \in Emails : accountUsers'[f].id \in Accounts!Quiet =>
           /\ accountUsers'[f].password = accountLastSet[accountUsers'[f].id]
           /\ \A d \in accountKept[accountUsers'[f].id] : <<f, d>> \in accountSubscriptions
    BY <1>2, <2>3 DEF AccountHeld
  <2>8. \A m \in 1 .. MaxAccountRequests : m > accountBorn => accountKept[m] = {}
    BY <1>2 DEF AccountHeld
  <2> QED BY <1>1, <2>1, <2>4, <2>5, <2>6, <2>7, <2>8 DEF AccountHeld
<1>7. (\A u \in Slots : Carried(accountRequests[u], accountBorn)') /\ CreatingCounted' /\ TokensSound'
  BY <1>1 DEF AccountsInv, Carried, CreatingCounted, Creating, TokensSound
<1> QED BY <1>5, <1>6, <1>7 DEF AccountsInv

\* Save and DeletePushSubscription alike: what they change is found under the
\* e-mail, and for the account that was read there.
LEMMA AccountsSubscriptions ==
    ASSUME Accounts!AccountsAssumption, AccountsInv, NEW s \in Slots,
           Accounts!SavePushSubscription(s) \/ Accounts!DeletePushSubscription(s)
    PROVE  AccountsInv'
<1> PICK r \in Accounts!Request : r = accountRequests[s] /\ Carried(r, accountBorn)
  BY AccountRequestFacts
<1> PICK mail : mail = r.email
  OBVIOUS
<1> PICK n : n = r.seen.id
  OBVIOUS
<1> PICK moved : moved = IF accountUsers[mail].id = n THEN {} ELSE {n, accountUsers[mail].id} \ {0}
  OBVIOUS
<1>1. /\ r.at \in {"subscribe", "unsubscribe"}
      /\ accountRaced' = accountRaced \cup moved
      /\ accountRequests' = [accountRequests EXCEPT ![s] = Accounts!Idle]
      /\ UNCHANGED <<accountUsers, accountTokens, accountBegun, accountBorn, accountDeleted,
                     accountLastSet, accountResets>>
  BY DEF Accounts!SavePushSubscription, Accounts!DeletePushSubscription, Accounts!Moved,
         Accounts!Return, Accounts!Continue
<1> PICK with : with = IF r.at = "subscribe" THEN {r.device} ELSE {}
  OBVIOUS
<1> PICK without : without = IF r.at = "subscribe" THEN {} ELSE Accounts!Chosen(r.device)
  OBVIOUS
<1>2. /\ accountSubscriptions' = (accountSubscriptions \cup ({mail} \X with)) \ ({mail} \X without)
      /\ accountKept' = [accountKept EXCEPT ![n] = (accountKept[n] \cup with) \ without]
      /\ with \subseteq Devices
  <2>1. CASE Accounts!SavePushSubscription(s)
    <3>1. /\ accountSubscriptions' = accountSubscriptions \cup {<<mail, r.device>>}
          /\ accountKept' = [accountKept EXCEPT ![n] = accountKept[n] \cup {r.device}]
          /\ r.device \in Devices /\ r.at = "subscribe"
      BY <2>1 DEF Accounts!SavePushSubscription, Carried
    <3>2. with = {r.device} /\ without = {}
      BY <3>1
    <3> QED BY <3>1, <3>2
  <2>2. CASE Accounts!DeletePushSubscription(s)
    <3>1. /\ accountSubscriptions' = accountSubscriptions \ ({mail} \X Accounts!Chosen(r.device))
          /\ accountKept' = [accountKept EXCEPT ![n] = accountKept[n] \ Accounts!Chosen(r.device)]
          /\ r.at = "unsubscribe"
      BY <2>2 DEF Accounts!DeletePushSubscription
    <3>2. with = {} /\ without = Accounts!Chosen(r.device)
      BY <3>1
    <3> QED BY <3>1, <3>2
  <2> QED BY <2>1, <2>2
<1>3. mail \in Emails /\ n \in 1 .. accountBorn
  BY <1>1 DEF Carried
<1>4. /\ Accounts!TypeOK /\ n \in 1 .. MaxAccountRequests
      /\ n \in 0 .. accountBorn /\ accountUsers[mail].id \in 0 .. accountBorn
  <2>1. Accounts!TypeOK /\ MaxAccountRequests \in Nat
    BY DEF AccountsInv, Accounts!AccountsAssumption
  <2> QED BY <1>3, <2>1, AccountNumbered DEF Accounts!TypeOK
<1>5. /\ accountSubscriptions' \subseteq Emails \X Devices
      /\ \A e \in Emails \ {mail} : \A f :
            <<e, f>> \in accountSubscriptions => <<e, f>> \in accountSubscriptions'
  BY <1>2, <1>3, <1>4 DEF Accounts!TypeOK
<1>6. /\ accountKept' \in [1 .. MaxAccountRequests -> SUBSET Devices]
      /\ \A id \in 1 .. MaxAccountRequests : id # n => accountKept'[id] = accountKept[id]
  BY <1>2, <1>4 DEF Accounts!TypeOK
<1>7. (\A f \in accountKept[n] : <<mail, f>> \in accountSubscriptions) =>
         (\A f \in accountKept'[n] : <<mail, f>> \in accountSubscriptions')
  <2>1. accountKept'[n] = (accountKept[n] \cup with) \ without
    BY <1>2, <1>4 DEF Accounts!TypeOK
  <2> QED BY <1>2, <2>1
<1>8. accountRaced \subseteq accountRaced' /\ accountRaced' \subseteq 0 .. accountBorn
  BY <1>1, <1>4 DEF Accounts!TypeOK
<1>9. accountUsers[mail].id # n => {n, accountUsers[mail].id} \subseteq accountRaced' \cup {0}
  BY <1>1
<1>11. PICK q \in Accounts!Request : q = Accounts!Idle /\ q.at = "idle" /\ q.token \notin Tokens
         /\ Carried(q, accountBorn)
  BY AccountIdle
<1>12. Accounts!TypeOK /\ AccountHeld
  BY DEF AccountsInv
<1>13. MaxAccountRequests \in Nat /\ accountBorn \in 0 .. MaxAccountRequests
  BY <1>12 DEF Accounts!AccountsAssumption, Accounts!TypeOK
<1>14. Accounts!TypeOK'
  <2>1. accountRequests' \in [Slots -> Accounts!Request]
    BY <1>1, <1>11, <1>12 DEF Accounts!TypeOK
  <2> QED BY <1>1, <1>5, <1>6, <1>8, <1>12, <2>1 DEF Accounts!TypeOK
<1>15. AccountHeld'
  <2>1. Accounts!Quiet' \subseteq Accounts!Quiet /\ Accounts!Quiet' \subseteq 1 .. accountBorn
    BY <1>1, <1>8 DEF Accounts!Quiet
  <2>2. ASSUME NEW e \in Emails, accountUsers[e].id \in Accounts!Quiet'
        PROVE  \A d \in accountKept'[accountUsers[e].id] : <<e, d>> \in accountSubscriptions'
    <3> PICK id \in Accounts!Quiet' : id = accountUsers[e].id
      BY <2>2
    <3>1. id \in 1 .. accountBorn /\ id \in Accounts!Quiet /\ id \notin accountRaced'
          /\ id \in 1 .. MaxAccountRequests
      BY <1>13, <2>1 DEF Accounts!Quiet
    <3>2. \A d \in accountKept[id] : <<e, d>> \in accountSubscriptions
      BY <1>12, <3>1 DEF AccountHeld
    <3>3. CASE accountUsers[mail].id = n /\ e = mail
      BY <1>7, <3>2, <3>3
    <3>4. CASE accountUsers[mail].id = n /\ e # mail
      <4>1. id # n
        BY <1>3, <1>12, <3>1, <3>4 DEF AccountHeld
      <4>2. accountKept'[id] = accountKept[id]
        BY <1>6, <3>1, <4>1
      <4> QED BY <1>5, <3>2, <3>4, <4>2
    <3>5. CASE accountUsers[mail].id # n
      <4>1. id # n /\ id # accountUsers[mail].id
        BY <1>9, <3>1, <3>5
      <4>2. accountKept'[id] = accountKept[id] /\ e # mail
        BY <1>6, <3>1, <4>1
      <4> QED BY <1>5, <3>2, <4>2
    <3> QED BY <3>3, <3>4, <3>5
  <2>3. \A m \in 1 .. MaxAccountRequests : m > accountBorn => accountKept'[m] = {}
    BY <1>3, <1>6, <1>12, <1>13 DEF AccountHeld
  <2> QED BY <1>1, <1>12, <2>1, <2>2, <2>3 DEF AccountHeld
<1>16. \A u \in Slots : Carried(accountRequests[u], accountBorn)'
  BY <1>1, <1>11, CarriedStep
<1>17. CreatingCounted'
  BY <1>1, <1>11, CreatingStep
<1>18. TokensSound'
  BY <1>1, <1>11, TokensStep
<1> QED BY <1>14, <1>15, <1>16, <1>17, <1>18 DEF AccountsInv

LEMMA AccountsInit ==
    ASSUME Accounts!AccountsAssumption, Accounts!Init
    PROVE  AccountsInv
<1> USE DEF Accounts!Init
<1>1. MaxAccountRequests \in Nat
  BY DEF Accounts!AccountsAssumption
<1>2. PICK i \in Accounts!Request : i = Accounts!Idle /\ i.at = "idle" /\ i.token \notin Tokens
         /\ Carried(i, 0)
  BY AccountIdle
<1>3. Accounts!None \in Accounts!Record /\ Accounts!None.id = 0
  BY <1>1 DEF Accounts!None, Accounts!Record
<1>4. Accounts!TypeOK
  BY <1>1, <1>2, <1>3 DEF Accounts!TypeOK
<1>5. \A s \in Slots : accountRequests[s] = i
  BY <1>2
<1>6. CreatingCounted
  <2>1. Creating = {}
    BY <1>2, <1>5 DEF Creating
  <2> QED BY <2>1, FS_EmptySet DEF CreatingCounted
<1>7. Accounts!Quiet = {}
  BY DEF Accounts!Quiet
<1>8. AccountHeld
  BY <1>7 DEF AccountHeld
<1>9. TokensSound
  BY <1>2, <1>5 DEF TokensSound
<1> QED BY <1>2, <1>4, <1>5, <1>6, <1>8, <1>9 DEF AccountsInv

LEMMA AccountsNext ==
    ASSUME Accounts!AccountsAssumption, AccountsInv, [Accounts!Next]_(Accounts!vars)
    PROVE  AccountsInv'
<1>1. CASE UNCHANGED Accounts!vars
  BY <1>1 DEF Accounts!vars, Accounts!ghosts, AccountsInv, Accounts!TypeOK, Carried, CreatingCounted,
       Creating, AccountHeld, Accounts!Quiet, TokensSound
<1>2. ASSUME NEW s \in Slots, Accounts!Serve(s) PROVE AccountsInv'
  <2>1. ASSUME NEW by \in {"guest", "site"}, NEW e \in Emails, Accounts!CreateUser(s, by, e)
        PROVE  AccountsInv'
    BY <2>1, AccountsCreate
  <2>2. ASSUME NEW e \in Emails, NEW f \in Emails, NEW sets \in BOOLEAN, Accounts!Patch(s, e, f, sets)
        PROVE  AccountsInv'
    BY <2>2, AccountsPatch
  <2>3. ASSUME NEW e \in Emails, Accounts!ForgotPassword(s, e) PROVE AccountsInv'
    BY <2>3, AccountsForgot
  <2>4. ASSUME NEW t \in Tokens, Accounts!CreatePasswordResetToken(s, t) PROVE AccountsInv'
    BY <2>4, AccountsIssue
  <2>5. ASSUME NEW t \in Tokens, Accounts!ConsumePasswordResetToken(s, t) PROVE AccountsInv'
    BY <2>5, AccountsConsume
  <2>6. ASSUME NEW e \in Emails, NEW d \in Devices, Accounts!Subscribe(s, e, d) PROVE AccountsInv'
    BY <2>6, AccountsNotify
  <2>7. ASSUME NEW e \in Emails, NEW d \in Devices \cup {Accounts!NoDevice},
               Accounts!Unsubscribe(s, e, d)
        PROVE  AccountsInv'
    BY <2>7, AccountsNotify
  <2>8. ASSUME Accounts!Fails(s) PROVE AccountsInv'
    BY <2>8, AccountsReturn DEF Accounts!Fails
  <2> QED BY <1>2, <2>1, <2>2, <2>3, <2>4, <2>5, <2>6, <2>7, <2>8, AccountsPut, AccountsCheck,
             AccountsUpdate, AccountsFind, AccountsSubscriptions
             DEF Accounts!Serve
<1>3. ASSUME NEW e \in Emails, Accounts!DeleteUser(e) PROVE AccountsInv'
  BY <1>3, AccountsDelete
<1>4. ASSUME NEW t \in Tokens, Accounts!TokenExpires(t) PROVE AccountsInv'
  BY <1>4, AccountsExpire
<1> QED BY <1>1, <1>2, <1>3, <1>4 DEF Accounts!Next

LEMMA AccountsInvImplies ==
    ASSUME AccountsInv
    PROVE  AccountsConsistent
<1>1. Accounts!OneRecordPerAccount
  <2> SUFFICES ASSUME NEW id \in Accounts!Quiet
               PROVE  IF id \in accountDeleted THEN Accounts!HeldBy(id) = {}
                      ELSE \E e \in Emails : Accounts!HeldBy(id) = {e}
    BY DEF Accounts!OneRecordPerAccount
  <2>1. CASE id \in accountDeleted
    BY <2>1 DEF AccountsInv, AccountHeld, Accounts!HeldBy
  <2>2. CASE id \notin accountDeleted
    <3>1. PICK e \in Emails : accountUsers[e].id = id
      BY <2>2 DEF AccountsInv, AccountHeld
    <3>2. Accounts!HeldBy(id) = {e}
      BY <3>1 DEF AccountsInv, AccountHeld, Accounts!HeldBy
    <3> QED BY <2>2, <3>2
  <2> QED BY <2>1, <2>2
<1>2. Accounts!RecordIsUpToDate
  BY DEF AccountsInv, AccountHeld, Accounts!RecordIsUpToDate, Accounts!HeldBy
<1>3. Accounts!TokenSetsOnePassword
  BY DEF AccountsInv, TokensSound, Accounts!TokenSetsOnePassword
<1> QED BY <1>1, <1>2, <1>3 DEF AccountsInv, AccountsConsistent, Accounts!AccountsConsistent

\* However the requests that read an account and write it later interleave,
\* fail or die half way: an account no request wrote over has one record, up
\* to date, until it is deleted, and a reset token sets one password at most.
THEOREM AccountsStayConsistent == Spec => []AccountsConsistent
<1>1. Accounts!AccountsAssumption
  BY Constants
<1>2. Init => AccountsInv
  BY <1>1, AccountsInit DEF Init
<1>3. AccountsInv /\ [Next]_vars => AccountsInv'
  BY <1>1, AccountsNext, ServicesRun
<1>4. AccountsInv => AccountsConsistent
  BY AccountsInvImplies
<1> QED BY <1>2, <1>3, <1>4, PTL DEF Spec

-----------------------------------------------------------------------------
(* SSHAccess.                                                              *)
(*                                                                         *)
(* The inductive invariant says how far a request has come that has its    *)
(* name to itself, and that a request which shares one is known to: what   *)
(* it does to the server is then not vouched for, except that users of     *)
(* others are left alone and that the state file is the last to go.        *)

SSHActive(s) == sshRequests[s].at # "idle"
SSHName(s) == sshRequests[s].name

SSHTrue(n) ==
    /\ n \in SSH!Recorded <=> n \in sshLinux
    /\ n \in SSH!Recorded =>
          sshFiles[n] = [key |-> sshKeys[n],
                         folders |-> {f \in SSH!Paths : <<n, f>> \in sshGranted}]

SSHShape(s) ==
    /\ sshRequests[s].at = "idle" => sshRequests[s] = SSH!Idle
    /\ SSHActive(s) => SSHName(s) \in Names
    /\ sshRequests[s].at \in {"find", "useradd", "key"} => sshRequests[s].set = 0
    /\ sshRequests[s].at = "folders" => sshRequests[s].set < Len(Folders)

SSHProgress(s) ==
    LET r == sshRequests[s]
        n == sshRequests[s].name
    IN  /\ r.at \in {"find", "useradd", "key", "folders", "record"} => r.line = r.access.key
        /\ r.at = "find" => SSHTrue(n) /\ (r.known <=> n \in SSH!Recorded)
        /\ r.at = "useradd" => n \notin sshLinux
        /\ r.at \in {"key", "folders", "record"} => n \in sshLinux
        /\ r.at \in {"folders", "record"} => sshKeys[n] = r.line
        /\ r.at = "folders" => \A i \in 1 .. r.set :
                <<n, Folders[i]>> \in sshGranted <=> Folders[i] \in r.access.folders
        /\ r.at = "record" => \A f \in SSH!Paths :
                <<n, f>> \in sshGranted <=> f \in r.access.folders
        /\ r.at = "remove" => n \notin sshLinux

SSHMeetingsKnown ==
    \A s, t \in Slots :
        s # t /\ SSHActive(s) /\ SSHActive(t) /\ SSHName(s) = SSHName(t) => SSHName(s) \in sshMet

SSHForeignRefused ==
    \A s \in Slots :
        SSHActive(s) /\ SSHName(s) \in Foreign =>
            sshRequests[s].at = "find" /\ ~sshRequests[s].known

SSHGoneBeforeFile ==
    \A s \in Slots :
        sshRequests[s].at = "remove" => SSHName(s) \notin sshMade \/ SSHName(s) \in sshMet

SSHQuietTrue ==
    \A n \in Names \ (Foreign \cup sshDisturbed) :
        (\A s \in Slots : SSHActive(s) => SSHName(s) # n) => SSHTrue(n)

SSHAloneSound ==
    \A s \in Slots :
        SSHActive(s) /\ SSHName(s) \notin Foreign \cup sshDisturbed => SSHProgress(s)

SSHInv ==
    /\ SSH!TypeOK
    /\ \A s \in Slots : SSHShape(s)
    /\ SSHMeetingsKnown
    /\ SSH!ForeignersAreLeftAlone
    /\ SSHForeignRefused
    /\ SSH!RecordedUntilGone
    /\ SSHGoneBeforeFile
    /\ SSHQuietTrue
    /\ SSHAloneSound

\* What a step leaves alone of the users it is not about.
SSHKept(m) ==
    /\ m \in sshLinux' <=> m \in sshLinux
    /\ sshKeys'[m] = sshKeys[m]
    /\ m \in DOMAIN sshFiles' <=> m \in DOMAIN sshFiles
    /\ m \in DOMAIN sshFiles => sshFiles'[m] = sshFiles[m]
    /\ m \in sshMade' <=> m \in sshMade
    /\ \A f \in SSH!Paths : <<m, f>> \in sshGranted' <=> <<m, f>> \in sshGranted

LEMMA SSHKeptTrue ==
    ASSUME NEW m, SSHKept(m), SSHTrue(m)
    PROVE  SSHTrue(m)'
<1>1. {f \in SSH!Paths : <<m, f>> \in sshGranted'} = {f \in SSH!Paths : <<m, f>> \in sshGranted}
  BY DEF SSHKept
<1> QED BY <1>1 DEF SSHKept, SSHTrue, SSH!Recorded

LEMMA FolderPaths ==
    ASSUME SSH!SSHAssumption
    PROVE  /\ Len(Folders) \in Nat \ {0}
           /\ \A i \in 1 .. Len(Folders) : Folders[i] \in SSH!Paths
           /\ \A f \in SSH!Paths : \E i \in 1 .. Len(Folders) : Folders[i] = f
BY DEF SSH!SSHAssumption, SSH!Paths

LEMMA SSHKeptProgress ==
    ASSUME SSH!SSHAssumption, NEW t \in Slots, sshRequests[t] \in SSH!Request,
           sshRequests'[t] = sshRequests[t], SSHKept(SSHName(t)), SSHProgress(t)
    PROVE  SSHProgress(t)'
<1> PICK r : r = sshRequests[t]
  OBVIOUS
<1> PICK n : n = r.name
  OBVIOUS
<1>1. SSHTrue(n) => SSHTrue(n)'
  BY SSHKeptTrue DEF SSHName
<1>2. \A i \in 1 .. r.set : Folders[i] \in SSH!Paths
  BY FolderPaths DEF SSH!Request
<1>3. SSHKept(n)
  BY DEF SSHName
<1>4. r.at = "find" => SSHTrue(n)' /\ (r.known <=> n \in DOMAIN sshFiles')
  BY <1>1, <1>3 DEF SSHProgress, SSHKept, SSH!Recorded
<1>5. r.at = "folders" => \A i \in 1 .. r.set :
          <<n, Folders[i]>> \in sshGranted' <=> Folders[i] \in r.access.folders
  BY <1>2, <1>3 DEF SSHProgress, SSHKept
<1>6. r.at = "record" => \A f \in SSH!Paths :
          <<n, f>> \in sshGranted' <=> f \in r.access.folders
  BY <1>3 DEF SSHProgress, SSHKept
<1>7. /\ r.at \in {"find", "useradd", "key", "folders", "record"} => r.line = r.access.key
      /\ r.at = "useradd" => n \notin sshLinux'
      /\ r.at \in {"key", "folders", "record"} => n \in sshLinux'
      /\ r.at \in {"folders", "record"} => sshKeys'[n] = r.line
      /\ r.at = "remove" => n \notin sshLinux'
  BY <1>3 DEF SSHProgress, SSHKept
<1>8. r = sshRequests'[t]
  OBVIOUS
<1> QED BY <1>4, <1>5, <1>6, <1>7, <1>8 DEF SSHProgress, SSH!Recorded

\* A step of request s about the user n has only these two to answer for.
LEMMA SSHStep ==
    ASSUME SSH!SSHAssumption, SSHInv, NEW s \in Slots, NEW n \in Names, NEW q,
           sshRequests' = [sshRequests EXCEPT ![s] = q],
           SSHActive(s) => SSHName(s) = n,
           q.at # "idle" => q.name = n,
           SSH!TypeOK', SSHShape(s)',
           sshMet \subseteq sshMet', sshDisturbed \subseteq sshDisturbed',
           \A t \in Slots \ {s} : SSHActive(t) /\ SSHName(t) = n => n \in sshMet',
           \A m \in Names \ {n} : SSHKept(m),
           n \in Foreign =>
              /\ n \in sshLinux' /\ n \notin DOMAIN sshFiles' /\ sshKeys'[n] = SSH!NoKey
              /\ q.at # "idle" => q.at = "find" /\ ~q.known,
           n \in sshMade' => n \in DOMAIN sshFiles' \/ n \in sshMet',
           q.at = "remove" => n \notin sshMade' \/ n \in sshMet',
           n \notin Foreign \cup sshDisturbed' =>
              IF q.at = "idle" THEN SSHTrue(n)' ELSE SSHProgress(s)'
    PROVE  SSHInv'
<1>1. /\ sshRequests'[s] = q
      /\ \A t \in Slots \ {s} : sshRequests'[t] = sshRequests[t]
      /\ \A t \in Slots : sshRequests[t] \in SSH!Request
  BY DEF SSHInv, SSH!TypeOK
<1>2. \A t \in Slots : SSHShape(t)'
  <2> SUFFICES ASSUME NEW t \in Slots, t # s PROVE SSHShape(t)'
    OBVIOUS
  <2>1. SSHShape(t)
    BY DEF SSHInv
  <2> QED BY <1>1, <2>1 DEF SSHShape, SSHActive, SSHName
<1>3. SSHMeetingsKnown'
  <2> SUFFICES ASSUME NEW t \in Slots, NEW u \in Slots, t # u,
                      sshRequests'[t].at # "idle", sshRequests'[u].at # "idle",
                      sshRequests'[t].name = sshRequests'[u].name
               PROVE  sshRequests'[t].name \in sshMet'
    BY DEF SSHMeetingsKnown, SSHActive, SSHName
  <2>1. CASE t = s \/ u = s
    BY <1>1, <2>1 DEF SSHActive, SSHName
  <2>2. CASE t # s /\ u # s
    BY <1>1, <2>2 DEF SSHInv, SSHMeetingsKnown, SSHActive, SSHName
  <2> QED BY <2>1, <2>2
<1>4. SSH!ForeignersAreLeftAlone'
  <2> SUFFICES ASSUME NEW m \in Foreign
               PROVE  m \in sshLinux' /\ m \notin DOMAIN sshFiles' /\ sshKeys'[m] = SSH!NoKey
    BY DEF SSH!ForeignersAreLeftAlone, SSH!Recorded
  <2>1. CASE m = n
    BY <2>1
  <2>2. CASE m # n
    <3>1. SSHKept(m)
      BY <2>2 DEF SSH!SSHAssumption
    <3> QED BY <3>1 DEF SSHKept, SSHInv, SSH!ForeignersAreLeftAlone, SSH!Recorded
  <2> QED BY <2>1, <2>2
<1>5. SSHForeignRefused'
  <2> SUFFICES ASSUME NEW t \in Slots, sshRequests'[t].at # "idle", sshRequests'[t].name \in Foreign
               PROVE  sshRequests'[t].at = "find" /\ ~sshRequests'[t].known
    BY DEF SSHForeignRefused, SSHActive, SSHName
  <2>1. CASE t = s
    BY <1>1, <2>1
  <2>2. CASE t # s
    BY <1>1, <2>2 DEF SSHInv, SSHForeignRefused, SSHActive, SSHName
  <2> QED BY <2>1, <2>2
<1>6. SSH!RecordedUntilGone'
  <2> SUFFICES ASSUME NEW m \in sshMade', m \notin sshMet' PROVE m \in DOMAIN sshFiles'
    BY DEF SSH!RecordedUntilGone, SSH!Recorded
  <2>1. CASE m = n
    BY <2>1
  <2>2. CASE m # n
    <3>1. SSHKept(m)
      BY <2>2 DEF SSH!TypeOK
    <3> QED BY <3>1 DEF SSHKept, SSHInv, SSH!RecordedUntilGone, SSH!Recorded
  <2> QED BY <2>1, <2>2
<1>7. SSHGoneBeforeFile'
  <2> SUFFICES ASSUME NEW t \in Slots, sshRequests'[t].at = "remove"
               PROVE  sshRequests'[t].name \notin sshMade' \/ sshRequests'[t].name \in sshMet'
    BY DEF SSHGoneBeforeFile, SSHName
  <2>1. CASE t = s
    BY <1>1, <2>1
  <2>2. CASE t # s
    <3>1. SSHActive(t) /\ sshRequests'[t].name = SSHName(t) /\ SSHName(t) \in Names
      BY <1>1, <2>2 DEF SSHActive, SSHName, SSHInv, SSHShape
    <3>2. SSHName(t) \notin sshMade \/ SSHName(t) \in sshMet
      BY <1>1, <2>2 DEF SSHInv, SSHGoneBeforeFile
    <3>3. CASE SSHName(t) = n
      BY <2>2, <3>1, <3>3
    <3>4. CASE SSHName(t) # n
      BY <3>1, <3>2, <3>4 DEF SSHKept
    <3> QED BY <3>3, <3>4
  <2> QED BY <2>1, <2>2
<1>8. SSHQuietTrue'
  <2> SUFFICES ASSUME NEW m \in Names \ (Foreign \cup sshDisturbed'),
                      \A t \in Slots : sshRequests'[t].at # "idle" => sshRequests'[t].name # m
               PROVE  SSHTrue(m)'
    BY DEF SSHQuietTrue, SSHActive, SSHName
  <2>1. CASE m = n
    BY <1>1, <2>1
  <2>2. CASE m # n
    <3>1. \A t \in Slots : SSHActive(t) => SSHName(t) # m
      BY <1>1, <2>2 DEF SSHActive, SSHName
    <3>2. SSHTrue(m)
      BY <3>1 DEF SSHInv, SSHQuietTrue
    <3> QED BY <2>2, <3>2, SSHKeptTrue
  <2> QED BY <2>1, <2>2
<1>9. SSHAloneSound'
  <2> SUFFICES ASSUME NEW t \in Slots, sshRequests'[t].at # "idle",
                      sshRequests'[t].name \notin Foreign \cup sshDisturbed'
               PROVE  SSHProgress(t)'
    BY DEF SSHAloneSound, SSHActive, SSHName
  <2>1. CASE t = s
    BY <1>1, <2>1
  <2>2. CASE t # s
    <3>1. SSHActive(t) /\ sshRequests'[t].name = SSHName(t) /\ SSHName(t) \in Names
      BY <1>1, <2>2 DEF SSHActive, SSHName, SSHInv, SSHShape
    <3>2. SSHName(t) # n
      BY <2>2, <3>1 DEF SSH!TypeOK
    <3>3. SSHProgress(t)
      BY <3>1 DEF SSHInv, SSHAloneSound
    <3> QED BY <1>1, <2>2, <3>1, <3>2, <3>3, SSHKeptProgress
  <2> QED BY <2>1, <2>2
<1> QED BY <1>2, <1>3, <1>4, <1>5, <1>6, <1>7, <1>8, <1>9 DEF SSHInv

LEMMA SSHUntouched ==
    ASSUME UNCHANGED <<SSH!server, sshFiles, sshMade>>
    PROVE  \A m : SSHKept(m)
BY DEF SSH!server, SSHKept

\* A request begins; one that meets another is known to.
LEMMA SSHBeginStep ==
    ASSUME SSH!SSHAssumption, SSHInv, NEW s \in Slots, NEW n \in Names,
           NEW q \in SSH!Request,
           SSH!Begin(s, q), q.name = n, q.set = 0, q.at \in {"find", "acls"},
           UNCHANGED <<SSH!server, sshFiles, sshMade>>,
           q.at = "find" => (q.known <=> n \in SSH!Recorded),
           q.at = "find" /\ n \notin Foreign /\ SSHTrue(n) => q.line = q.access.key,
           n \in Foreign => q.at = "find"
    PROVE  SSHInv'
<1>1. /\ sshRequests' = [sshRequests EXCEPT ![s] = q]
      /\ sshRequests[s].at = "idle"
      /\ sshBegun < MaxSSHRequests /\ sshBegun' = sshBegun + 1
      /\ sshMet' = IF SSH!Busy(n) = {} THEN sshMet ELSE sshMet \cup {n}
      /\ sshDisturbed' = sshDisturbed \cup sshMet'
      /\ sshFaults' = sshFaults
      /\ UNCHANGED <<sshLinux, sshKeys, sshGranted, sshFiles, sshMade>>
  BY DEF SSH!Begin, SSH!server
<1>2. SSH!TypeOK /\ SSH!ForeignersAreLeftAlone /\ SSH!RecordedUntilGone
  BY DEF SSHInv
<1>3. SSH!TypeOK'
  <2>1. sshBegun' \in 0 .. MaxSSHRequests
    BY <1>1, <1>2 DEF SSH!TypeOK, SSH!SSHAssumption
  <2>2. sshMet' \subseteq sshDisturbed' /\ sshDisturbed' \subseteq Names
    BY <1>1, <1>2 DEF SSH!TypeOK
  <2>3. sshRequests' \in [Slots -> SSH!Request]
    BY <1>1, <1>2 DEF SSH!TypeOK
  <2> QED BY <1>1, <1>2, <2>1, <2>2, <2>3 DEF SSH!TypeOK
<1>4. sshRequests'[s] = q
  BY <1>1, <1>2 DEF SSH!TypeOK
<1>5. SSHShape(s)'
  BY <1>4 DEF SSHShape, SSHName, SSHActive
<1>6. \A t \in Slots \ {s} : SSHActive(t) /\ SSHName(t) = n => n \in sshMet'
  BY <1>1 DEF SSHName, SSH!Busy
<1>7. ASSUME n \notin Foreign \cup sshDisturbed' PROVE SSHProgress(s)'
  <2>1. \A t \in Slots : SSHActive(t) => SSHName(t) # n
    <3>1. SSH!Busy(n) = {} \/ n \in sshMet'
      BY <1>1
    <3> QED BY <1>1, <1>7, <3>1 DEF SSH!Busy, SSHName
  <2>2. SSHTrue(n)
    BY <1>1, <1>7, <2>1 DEF SSHInv, SSHQuietTrue
  <2>3. SSHTrue(n)'
    BY <2>2, SSHUntouched, SSHKeptTrue
  <2>4. q.at = "find" => q.line = q.access.key /\ (q.known <=> n \in DOMAIN sshFiles')
    BY <1>1, <1>7, <2>2 DEF SSH!Recorded
  <2> QED BY <1>4, <2>3, <2>4 DEF SSHProgress, SSH!Recorded
<1>8. \A m \in Names \ {n} : SSHKept(m)
  BY SSHUntouched
<1>9. n \in Foreign =>
        /\ n \in sshLinux' /\ n \notin DOMAIN sshFiles' /\ sshKeys'[n] = SSH!NoKey
        /\ q.at # "idle" => q.at = "find" /\ ~q.known
  BY <1>1, <1>2 DEF SSH!ForeignersAreLeftAlone, SSH!Recorded
<1>10. n \in sshMade' => n \in DOMAIN sshFiles' \/ n \in sshMet'
  BY <1>1, <1>2 DEF SSH!RecordedUntilGone, SSH!Recorded
<1>11. sshMet \subseteq sshMet' /\ sshDisturbed \subseteq sshDisturbed'
  BY <1>1
<1>12. ~SSHActive(s) /\ q.at # "idle" /\ q.at # "remove"
  BY <1>1 DEF SSHActive
<1>13. n \notin Foreign \cup sshDisturbed' =>
          IF q.at = "idle" THEN SSHTrue(n)' ELSE SSHProgress(s)'
  BY <1>7, <1>12
<1> QED BY <1>1, <1>3, <1>5, <1>6, <1>8, <1>9, <1>10, <1>11, <1>12, <1>13, SSHStep

LEMMA SSHIdleTyped ==
    ASSUME SSH!SSHAssumption
    PROVE  SSH!Idle \in SSH!Request /\ SSH!Idle.set = 0 /\ SSH!Idle.at = "idle"
BY FolderPaths DEF SSH!Idle, SSH!Request, SSH!Access

LEMMA SSHUpsertStep ==
    ASSUME SSH!SSHAssumption, SSHInv, NEW s \in Slots, NEW n \in Names,
           NEW key \in Keys \cup {SSH!NoKey}, NEW folders \in SUBSET SSH!Paths,
           SSH!Upsert(s, n, key, folders)
    PROVE  SSHInv'
<1>1. PICK line : line = IF key = SSH!NoKey THEN sshKeys[n] ELSE key
  OBVIOUS
<1>2. PICK access :
        access = [key |-> IF key = SSH!NoKey THEN sshFiles[n].key ELSE key, folders |-> folders]
  OBVIOUS
<1>3. PICK i \in SSH!Request : i = SSH!Idle /\ i.set = 0
  BY SSHIdleTyped
<1>4. PICK q : q = [i EXCEPT !.at = "find", !.name = n, !.known = n \in SSH!Recorded,
                            !.line = line, !.access = access]
  OBVIOUS
<1>5. key = SSH!NoKey => n \in SSH!Recorded
  BY DEF SSH!Upsert
<1>6. SSH!Begin(s, q) /\ UNCHANGED <<SSH!server, sshFiles, sshMade>>
  BY <1>1, <1>2, <1>3, <1>4 DEF SSH!Upsert
<1>7. line \in Keys \cup {SSH!NoKey} /\ access \in SSH!Access
  <2>1. SSH!TypeOK
    BY DEF SSHInv
  <2>2. key = SSH!NoKey => sshFiles[n].key \in Keys \cup {SSH!NoKey}
    BY <1>5, <2>1 DEF SSH!TypeOK, SSH!Recorded, SSH!Access
  <2> QED BY <1>1, <1>2, <2>1, <2>2 DEF SSH!TypeOK, SSH!Access
<1>8. /\ q.name = n /\ q.set = 0 /\ q.at = "find" /\ q.line = line /\ q.access = access
      /\ q.known <=> n \in SSH!Recorded
      /\ q.known \in BOOLEAN
  <2>1. q.name = n /\ q.set = 0 /\ q.at = "find" /\ q.line = line /\ q.access = access
    BY <1>3, <1>4 DEF SSH!Request
  <2>2. q.known <=> n \in SSH!Recorded
    BY <1>3, <1>4 DEF SSH!Request
  <2>3. q.known \in BOOLEAN
    BY <1>3, <1>4 DEF SSH!Request
  <2> QED BY <2>1, <2>2, <2>3
<1>9. q \in SSH!Request
  <2>1. q = [at |-> q.at, name |-> q.name, access |-> q.access, line |-> q.line,
             known |-> q.known, set |-> q.set]
    BY <1>3, <1>4 DEF SSH!Request
  <2>2. 0 \in 0 .. Len(Folders)
    BY FolderPaths
  <2> QED BY <1>7, <1>8, <2>1, <2>2 DEF SSH!Request
<1>10. SSHTrue(n) => q.line = q.access.key
  BY <1>1, <1>2, <1>5, <1>8 DEF SSHTrue
<1> QED BY <1>6, <1>8, <1>9, <1>10, SSHBeginStep

LEMMA SSHDeleteStep ==
    ASSUME SSH!SSHAssumption, SSHInv, NEW s \in Slots, NEW n \in Names, SSH!Delete(s, n)
    PROVE  SSHInv'
<1> PICK i \in SSH!Request : i = SSH!Idle /\ i.set = 0
  BY SSHIdleTyped
<1> PICK q : q = [i EXCEPT !.at = "acls", !.name = n]
  OBVIOUS
<1>1. SSH!Begin(s, q) /\ n \in SSH!Recorded /\ UNCHANGED <<SSH!server, sshFiles, sshMade>>
  BY DEF SSH!Delete
<1>2. q \in SSH!Request /\ q.name = n /\ q.set = 0 /\ q.at = "acls"
  BY DEF SSH!Request
<1>3. n \notin Foreign
  BY <1>1 DEF SSHInv, SSH!ForeignersAreLeftAlone
<1> QED BY <1>1, <1>2, <1>3, SSHBeginStep

\* A request that is under way goes on with q, or ends.
LEMMA SSHGoOnStep ==
    ASSUME SSH!SSHAssumption, SSHInv, NEW s \in Slots, SSHActive(s),
           NEW n, n = SSHName(s), NEW q \in SSH!Request,
           sshRequests' = [sshRequests EXCEPT ![s] = q],
           q.at = "idle" => q = SSH!Idle,
           q.at # "idle" => q.name = n,
           q.at \in {"find", "useradd", "key"} => q.set = 0,
           q.at = "folders" => q.set < Len(Folders),
           UNCHANGED <<sshBegun, sshMet>>,
           sshFaults' \in 0 .. MaxSSHFaults,
           sshDisturbed \subseteq sshDisturbed', sshDisturbed' \subseteq Names,
           sshLinux' \subseteq Names,
           sshKeys' \in [Names -> Keys \cup {SSH!NoKey}],
           sshGranted' \subseteq Names \X SSH!Paths,
           DOMAIN sshFiles' \subseteq Names, sshFiles' \in [DOMAIN sshFiles' -> SSH!Access],
           sshMade' \subseteq Names,
           \A m \in Names \ {n} : SSHKept(m),
           n \in Foreign =>
              /\ n \in sshLinux' /\ n \notin DOMAIN sshFiles' /\ sshKeys'[n] = SSH!NoKey
              /\ q.at # "idle" => q.at = "find" /\ ~q.known,
           n \in sshMade' => n \in DOMAIN sshFiles' \/ n \in sshMet,
           q.at = "remove" => n \notin sshMade' \/ n \in sshMet,
           n \notin Foreign \cup sshDisturbed' =>
              IF q.at = "idle" THEN SSHTrue(n)' ELSE SSHProgress(s)'
    PROVE  SSHInv'
<1>1. n \in Names
  BY DEF SSHInv, SSHShape
<1>2. SSH!TypeOK /\ sshRequests'[s] = q
  BY DEF SSHInv, SSH!TypeOK
<1>3. SSH!TypeOK'
  <2>1. sshRequests' \in [Slots -> SSH!Request]
    BY <1>2 DEF SSH!TypeOK
  <2> QED BY <1>2, <2>1 DEF SSH!TypeOK
<1>4. SSHShape(s)'
  BY <1>1, <1>2 DEF SSHShape, SSHActive, SSHName
<1>5. \A t \in Slots \ {s} : SSHActive(t) /\ SSHName(t) = n => n \in sshMet'
  BY DEF SSHInv, SSHMeetingsKnown
<1> QED BY <1>1, <1>3, <1>4, <1>5, SSHStep

LEMMA SSHFacts ==
    ASSUME SSHInv, NEW s \in Slots, SSHActive(s)
    PROVE  /\ sshRequests[s] \in SSH!Request
           /\ SSHName(s) \in Names
           /\ SSHName(s) \in Foreign =>
                 /\ sshRequests[s].at = "find" /\ ~sshRequests[s].known
                 /\ SSHName(s) \in sshLinux /\ SSHName(s) \notin DOMAIN sshFiles
                 /\ sshKeys[SSHName(s)] = SSH!NoKey
           /\ SSHName(s) \in sshMade => SSHName(s) \in DOMAIN sshFiles \/ SSHName(s) \in sshMet
           /\ SSHName(s) \notin Foreign \cup sshDisturbed => SSHProgress(s)
           /\ sshRequests[s].at \in {"find", "useradd", "key"} => sshRequests[s].set = 0
           /\ sshRequests[s].at = "folders" => sshRequests[s].set < Len(Folders)
BY DEF SSHInv, SSH!TypeOK, SSHShape, SSHForeignRefused, SSH!ForeignersAreLeftAlone,
       SSHAloneSound, SSH!RecordedUntilGone, SSH!Recorded

\* A request that goes on says what it did.
LEMMA SSHMoved ==
    ASSUME NEW r \in SSH!Request,
           NEW at \in {"idle", "find", "useradd", "key", "folders", "record", "acls", "userdel",
                       "remove"}
    PROVE  LET q == [r EXCEPT !.at = at]
           IN  /\ q \in SSH!Request /\ q.at = at /\ q.name = r.name /\ q.access = r.access
               /\ q.line = r.line /\ (q.known <=> r.known) /\ q.set = r.set
BY DEF SSH!Request

\* A step that changes only where its request is.
LEMMA SSHServerKept ==
    ASSUME SSHInv, UNCHANGED <<SSH!server, sshFiles, sshMade>>
    PROVE  /\ sshLinux' \subseteq Names
           /\ sshKeys' \in [Names -> Keys \cup {SSH!NoKey}]
           /\ sshGranted' \subseteq Names \X SSH!Paths
           /\ DOMAIN sshFiles' \subseteq Names /\ sshFiles' \in [DOMAIN sshFiles' -> SSH!Access]
           /\ sshMade' \subseteq Names
BY DEF SSHInv, SSH!TypeOK, SSH!server

\* A request that ends and leaves everything as it is.
LEMMA SSHReturnStep ==
    ASSUME SSH!SSHAssumption, SSHInv, NEW s \in Slots, SSHActive(s),
           NEW n, n = SSHName(s),
           sshRequests' = [sshRequests EXCEPT ![s] = SSH!Idle],
           UNCHANGED <<SSH!server, sshFiles, sshMade, sshBegun, sshMet>>,
           sshFaults' \in 0 .. MaxSSHFaults,
           sshDisturbed \subseteq sshDisturbed', sshDisturbed' \subseteq Names,
           n \notin Foreign \cup sshDisturbed' => SSHTrue(n)
    PROVE  SSHInv'
<1>1. \A m : SSHKept(m)
  BY SSHUntouched
<1>2. UNCHANGED <<sshLinux, sshKeys, sshGranted, sshFiles, sshMade>>
  BY DEF SSH!server
<1>3. n \in Foreign => n \in sshLinux' /\ n \notin DOMAIN sshFiles' /\ sshKeys'[n] = SSH!NoKey
  BY <1>2, SSHFacts
<1>4. n \in sshMade' => n \in DOMAIN sshFiles' \/ n \in sshMet
  BY <1>2, SSHFacts
<1>5. n \notin Foreign \cup sshDisturbed' => SSHTrue(n)'
  BY <1>1, SSHKeptTrue
<1>6. PICK q \in SSH!Request : q = SSH!Idle /\ q.at = "idle"
  BY SSHIdleTyped
<1>7. UNCHANGED <<sshBegun, sshMet>>
  OBVIOUS
<1> QED BY <1>1, <1>3, <1>4, <1>5, <1>6, <1>7, SSHServerKept, SSHGoOnStep

LEMMA SSHFindStep ==
    ASSUME SSH!SSHAssumption, SSHInv, NEW s \in Slots, SSH!FindUser(s)
    PROVE  SSHInv'
<1>1. PICK r : r = sshRequests[s]
  OBVIOUS
<1>2. PICK n : n = SSHName(s)
  OBVIOUS
<1>3. r.at = "find" /\ SSHActive(s) /\ r.name = n
  BY <1>1, <1>2 DEF SSH!FindUser, SSHActive, SSHName
<1>4. UNCHANGED <<SSH!server, sshFiles, sshMade, sshBegun, sshFaults, sshDisturbed, sshMet>>
  BY DEF SSH!FindUser, SSH!Step, SSH!Return
<1>5. UNCHANGED <<sshLinux, sshKeys, sshGranted, sshFiles, sshMade>>
  BY <1>4 DEF SSH!server
<1>6. SSH!TypeOK
  BY DEF SSHInv
<1>7. \A m : SSHKept(m)
  BY <1>4, SSHUntouched
<1>8. CASE SSH!MayManage(r)
  <2>1. PICK at : at = IF n \in sshLinux THEN "key" ELSE "useradd"
    OBVIOUS
  <2>2. PICK q : q = [r EXCEPT !.at = at]
    OBVIOUS
  <2>3. sshRequests' = [sshRequests EXCEPT ![s] = q]
    BY <1>1, <1>3, <1>8, <2>1, <2>2 DEF SSH!FindUser, SSH!Step
  <2>4. /\ q \in SSH!Request /\ q.at = at /\ q.name = n /\ q.access = r.access
        /\ q.line = r.line /\ q.set = 0
    <3>1. r \in SSH!Request /\ r.set = 0 /\ at \in {"key", "useradd"}
      BY <1>1, <1>3, <2>1, SSHFacts
    <3>2. /\ q \in SSH!Request /\ q.at = at /\ q.name = r.name /\ q.access = r.access
          /\ q.line = r.line /\ q.set = r.set
      BY <2>2, <3>1 DEF SSH!Request
    <3> QED BY <1>3, <3>1, <3>2
  <2>5. n \notin Foreign
    BY <1>1, <1>2, <1>3, <1>8, SSHFacts DEF SSH!MayManage
  <2>6. ASSUME n \notin Foreign \cup sshDisturbed PROVE SSHProgress(s)'
    <3>1. SSHProgress(s)
      BY <1>2, <1>3, <2>6, SSHFacts
    <3>2. sshRequests'[s] = q
      BY <1>6, <2>3 DEF SSH!TypeOK
    <3>3. r.line = r.access.key
      BY <1>1, <1>3, <3>1 DEF SSHProgress
    <3> QED BY <1>5, <2>1, <2>4, <3>2, <3>3 DEF SSHProgress
  <2>7. n \in sshMade' => n \in DOMAIN sshFiles' \/ n \in sshMet
    BY <1>2, <1>3, <1>5, SSHFacts
  <2>8. sshFaults' \in 0 .. MaxSSHFaults /\ sshDisturbed' = sshDisturbed /\ sshDisturbed \subseteq Names
    BY <1>4, <1>6 DEF SSH!TypeOK
  <2>9. q.at \in {"key", "useradd"} /\ UNCHANGED <<sshBegun, sshMet>>
    BY <1>4, <2>1, <2>4
  <2> QED BY <1>2, <1>3, <1>4, <1>7, <2>3, <2>4, <2>5, <2>6, <2>7, <2>8, <2>9, SSHServerKept, SSHGoOnStep
<1>9. CASE ~SSH!MayManage(r)
  <2>1. sshRequests' = [sshRequests EXCEPT ![s] = SSH!Idle]
    BY <1>1, <1>9 DEF SSH!FindUser, SSH!Return
  <2>2. n \notin Foreign \cup sshDisturbed => SSHTrue(n)
    BY <1>1, <1>2, <1>3, SSHFacts DEF SSHProgress, SSHName
  <2>3. sshFaults' \in 0 .. MaxSSHFaults /\ sshDisturbed' = sshDisturbed /\ sshDisturbed \subseteq Names
    BY <1>4, <1>6 DEF SSH!TypeOK
  <2> QED BY <1>2, <1>3, <1>4, <2>1, <2>2, <2>3, SSHReturnStep
<1> QED BY <1>8, <1>9

LEMMA SSHAddUserStep ==
    ASSUME SSH!SSHAssumption, SSHInv, NEW s \in Slots, SSH!AddUser(s)
    PROVE  SSHInv'
<1>1. PICK r : r = sshRequests[s]
  OBVIOUS
<1>2. PICK n : n = SSHName(s)
  OBVIOUS
<1>3. r.at = "useradd" /\ SSHActive(s) /\ r.name = n /\ n \in Names
  BY <1>1, <1>2, SSHFacts DEF SSH!AddUser, SSHActive, SSHName
<1>4. UNCHANGED <<sshKeys, sshGranted, sshFiles, sshMade, sshBegun, sshFaults, sshDisturbed, sshMet>>
  BY DEF SSH!AddUser, SSH!Step, SSH!Return
<1>5. SSH!TypeOK
  BY DEF SSHInv
<1>6. sshFaults' \in 0 .. MaxSSHFaults /\ sshDisturbed' = sshDisturbed /\ sshDisturbed \subseteq Names
  BY <1>4, <1>5 DEF SSH!TypeOK
<1>7. CASE n \in sshLinux
  <2>1. sshRequests' = [sshRequests EXCEPT ![s] = SSH!Idle] /\ sshLinux' = sshLinux
    BY <1>1, <1>3, <1>7 DEF SSH!AddUser, SSH!Return
  <2>2. n \notin Foreign \cup sshDisturbed => SSHTrue(n)
    BY <1>1, <1>2, <1>3, <1>7, SSHFacts DEF SSHProgress, SSHName
  <2> QED BY <1>2, <1>3, <1>4, <1>6, <2>1, <2>2, SSHReturnStep DEF SSH!server
<1>8. CASE n \notin sshLinux
  <2>1. PICK q : q = [r EXCEPT !.at = "key"]
    OBVIOUS
  <2>2. sshRequests' = [sshRequests EXCEPT ![s] = q] /\ sshLinux' = sshLinux \cup {n}
    BY <1>1, <1>3, <1>8, <2>1 DEF SSH!AddUser, SSH!Step
  <2>3. /\ q \in SSH!Request /\ q.at = "key" /\ q.name = n /\ q.access = r.access
        /\ q.line = r.line /\ q.set = 0
    <3>1. r \in SSH!Request /\ r.set = 0
      BY <1>1, <1>3, SSHFacts
    <3> QED BY <1>3, <2>1, <3>1, SSHMoved
  <2>4. \A m \in Names \ {n} : SSHKept(m)
    BY <1>4, <2>2 DEF SSHKept
  <2>5. n \notin Foreign
    BY <1>1, <1>2, <1>3, SSHFacts
  <2>6. ASSUME n \notin Foreign \cup sshDisturbed PROVE SSHProgress(s)'
    <3>1. r.line = r.access.key
      BY <1>1, <1>2, <1>3, <2>6, SSHFacts DEF SSHProgress
    <3>2. sshRequests'[s] = q
      BY <1>5, <2>2 DEF SSH!TypeOK
    <3> QED BY <2>2, <2>3, <3>1, <3>2 DEF SSHProgress
  <2>7. n \in sshMade' => n \in DOMAIN sshFiles' \/ n \in sshMet
    BY <1>2, <1>3, <1>4, SSHFacts
  <2>8. /\ sshLinux' \subseteq Names
        /\ sshKeys' \in [Names -> Keys \cup {SSH!NoKey}]
        /\ sshGranted' \subseteq Names \X SSH!Paths
        /\ DOMAIN sshFiles' \subseteq Names /\ sshFiles' \in [DOMAIN sshFiles' -> SSH!Access]
        /\ sshMade' \subseteq Names
    BY <1>3, <1>4, <1>5, <2>2 DEF SSH!TypeOK
  <2> QED BY <1>2, <1>3, <1>4, <1>6, <2>2, <2>3, <2>4, <2>5, <2>6, <2>7, <2>8, SSHGoOnStep
<1> QED BY <1>7, <1>8

LEMMA SSHWriteKeyStep ==
    ASSUME SSH!SSHAssumption, SSHInv, NEW s \in Slots, SSH!WriteAuthorizedKey(s)
    PROVE  SSHInv'
<1>1. PICK r : r = sshRequests[s]
  OBVIOUS
<1>2. PICK n : n = SSHName(s)
  OBVIOUS
<1>3. r.at = "key" /\ SSHActive(s) /\ r.name = n /\ n \in Names
  BY <1>1, <1>2, SSHFacts DEF SSH!WriteAuthorizedKey, SSHActive, SSHName
<1>4. /\ UNCHANGED <<sshLinux, sshGranted, sshFiles, sshMade, sshBegun, sshFaults, sshDisturbed, sshMet>>
      /\ sshKeys' = [sshKeys EXCEPT ![n] = r.line]
  BY <1>1, <1>3 DEF SSH!WriteAuthorizedKey, SSH!Step, SSH!Return
<1>5. SSH!TypeOK
  BY DEF SSHInv
<1>6. sshFaults' \in 0 .. MaxSSHFaults /\ sshDisturbed' = sshDisturbed /\ sshDisturbed \subseteq Names
  BY <1>4, <1>5 DEF SSH!TypeOK
<1>7. PICK q : q = IF n \in sshLinux THEN [r EXCEPT !.at = "folders"] ELSE SSH!Idle
  OBVIOUS
<1>8. sshRequests' = [sshRequests EXCEPT ![s] = q]
  BY <1>1, <1>3, <1>7 DEF SSH!WriteAuthorizedKey, SSH!Step, SSH!Return
<1>9. r \in SSH!Request /\ r.set = 0 /\ n \notin Foreign
  BY <1>1, <1>2, <1>3, SSHFacts
<1>10. q \in SSH!Request /\ q.at \in {"folders", "idle"}
       /\ (q.at = "idle" => q = SSH!Idle)
       /\ (q.at = "folders" => n \in sshLinux /\ q.name = n /\ q.line = r.line
                               /\ q.access = r.access /\ q.set = 0)
  <2>1. CASE n \in sshLinux
    BY <1>3, <1>7, <1>9, <2>1, SSHMoved
  <2>2. CASE n \notin sshLinux
    BY <1>7, <2>2, SSHIdleTyped
  <2> QED BY <2>1, <2>2
<1>11. sshKeys' \in [Names -> Keys \cup {SSH!NoKey}] /\ sshKeys'[n] = r.line
       /\ \A m \in Names \ {n} : sshKeys'[m] = sshKeys[m]
  BY <1>3, <1>4, <1>5, <1>9 DEF SSH!TypeOK, SSH!Request
<1>12. \A m \in Names \ {n} : SSHKept(m)
  BY <1>4, <1>11 DEF SSHKept
<1>13. ASSUME n \notin Foreign \cup sshDisturbed PROVE q.at = "folders" /\ SSHProgress(s)'
  <2>1. r.line = r.access.key /\ n \in sshLinux
    BY <1>1, <1>2, <1>3, <1>13, SSHFacts DEF SSHProgress, SSHName
  <2>2. sshRequests'[s] = q
    BY <1>5, <1>8 DEF SSH!TypeOK
  <2>3. q.at = "folders"
    BY <1>7, <1>9, <2>1, SSHMoved
  <2>4. \A i \in 1 .. q.set : FALSE
    BY <1>10, <2>3
  <2> QED BY <1>4, <1>10, <1>11, <2>1, <2>2, <2>3, <2>4 DEF SSHProgress
<1>14. n \in sshMade' => n \in DOMAIN sshFiles' \/ n \in sshMet
  BY <1>2, <1>3, <1>4, SSHFacts
<1>15. /\ sshLinux' \subseteq Names
       /\ sshGranted' \subseteq Names \X SSH!Paths
       /\ DOMAIN sshFiles' \subseteq Names /\ sshFiles' \in [DOMAIN sshFiles' -> SSH!Access]
       /\ sshMade' \subseteq Names
  BY <1>4, <1>5 DEF SSH!TypeOK
<1>16. q.at # "remove" /\ q.at \notin {"find", "useradd", "key"} /\ (q.at = "folders" => q.set < Len(Folders))
  BY <1>10, FolderPaths
<1> QED BY <1>2, <1>3, <1>4, <1>6, <1>8, <1>9, <1>10, <1>11, <1>12, <1>13, <1>14, <1>15, <1>16, SSHGoOnStep

LEMMA SSHApplyStep ==
    ASSUME SSH!SSHAssumption, SSHInv, NEW s \in Slots, SSH!ApplyPathACL(s)
    PROVE  SSHInv'
<1>1. PICK r : r = sshRequests[s]
  OBVIOUS
<1>2. PICK n : n = SSHName(s)
  OBVIOUS
<1>3. r.at = "folders" /\ SSHActive(s) /\ r.name = n /\ n \in Names
  BY <1>1, <1>2, SSHFacts DEF SSH!ApplyPathACL, SSHActive, SSHName
<1>4. UNCHANGED <<sshLinux, sshKeys, sshFiles, sshMade, sshBegun, sshFaults, sshDisturbed, sshMet>>
  BY DEF SSH!ApplyPathACL, SSH!Return
<1>5. SSH!TypeOK
  BY DEF SSHInv
<1>6. sshFaults' \in 0 .. MaxSSHFaults /\ sshDisturbed' = sshDisturbed /\ sshDisturbed \subseteq Names
  BY <1>4, <1>5 DEF SSH!TypeOK
<1>7. CASE n \notin sshLinux
  <2>1. sshRequests' = [sshRequests EXCEPT ![s] = SSH!Idle] /\ sshGranted' = sshGranted
    BY <1>1, <1>3, <1>7 DEF SSH!ApplyPathACL, SSH!Return
  <2>2. n \notin Foreign \cup sshDisturbed => SSHTrue(n)
    BY <1>1, <1>2, <1>3, <1>7, SSHFacts DEF SSHProgress, SSHName
  <2> QED BY <1>2, <1>3, <1>4, <1>6, <2>1, <2>2, SSHReturnStep DEF SSH!server
<1>8. CASE n \in sshLinux
  <2>1. r \in SSH!Request /\ r.set < Len(Folders) /\ n \notin Foreign
    BY <1>1, <1>2, <1>3, SSHFacts
  <2>2. r.set \in Nat /\ r.set + 1 \in 1 .. Len(Folders)
    BY <2>1, FolderPaths DEF SSH!Request
  <2>3. PICK f \in SSH!Paths : f = Folders[r.set + 1]
    BY <2>2, FolderPaths
  <2>4. PICK at : at = IF r.set + 1 = Len(Folders) THEN "record" ELSE "folders"
    OBVIOUS
  <2>5. PICK q : q = [r EXCEPT !.set = r.set + 1, !.at = at]
    OBVIOUS
  <2>6. /\ sshGranted' = IF f \in r.access.folders THEN sshGranted \cup {<<n, f>>}
                         ELSE sshGranted \ {<<n, f>>}
        /\ sshRequests' = [sshRequests EXCEPT ![s] = q]
    <3>1. sshRequests' = [sshRequests EXCEPT
             ![s].set = @ + 1,
             ![s].at = IF r.set + 1 = Len(Folders) THEN "record" ELSE @]
      BY <1>1, <1>3, <1>8 DEF SSH!ApplyPathACL
    <3>2. sshRequests \in [Slots -> SSH!Request]
      BY <1>5 DEF SSH!TypeOK
    <3>3. sshRequests' = [sshRequests EXCEPT ![s] = q]
      BY <1>1, <1>3, <2>1, <2>4, <2>5, <3>1, <3>2 DEF SSH!Request
    <3> QED BY <1>1, <1>3, <1>8, <2>3, <3>3 DEF SSH!ApplyPathACL
  <2>7. /\ q.set = r.set + 1 /\ q.at = at /\ q.name = n /\ q.access = r.access /\ q.line = r.line
        /\ q.known = r.known
    BY <1>3, <2>1, <2>5 DEF SSH!Request
  <2>8. q \in SSH!Request
    <3>1. q = [at |-> q.at, name |-> q.name, access |-> q.access, line |-> q.line,
               known |-> q.known, set |-> q.set]
      BY <2>1, <2>5 DEF SSH!Request
    <3>2. q.set \in 0 .. Len(Folders) /\ q.at \in {"record", "folders"}
      BY <2>2, <2>4, <2>7, FolderPaths
    <3>3. r.access \in SSH!Access /\ r.line \in Keys \cup {SSH!NoKey} /\ r.known \in BOOLEAN
      BY <2>1 DEF SSH!Request
    <3> QED BY <1>3, <2>7, <3>1, <3>2, <3>3 DEF SSH!Request
  <2>9. \A m \in Names \ {n} : SSHKept(m)
    BY <1>4, <2>6 DEF SSHKept
  <2>10. /\ <<n, f>> \in sshGranted' <=> f \in r.access.folders
         /\ \A g : g # f => (<<n, g>> \in sshGranted' <=> <<n, g>> \in sshGranted)
    BY <2>6
  <2>11. ASSUME n \notin Foreign \cup sshDisturbed PROVE SSHProgress(s)'
    <3>1. SSHProgress(s)
      BY <1>2, <1>3, <2>11, SSHFacts
    <3>2. /\ r.line = r.access.key /\ sshKeys[n] = r.line
          /\ \A i \in 1 .. r.set : <<n, Folders[i]>> \in sshGranted <=> Folders[i] \in r.access.folders
      BY <1>1, <1>3, <3>1 DEF SSHProgress
    <3>3. \A i \in 1 .. r.set + 1 :
             <<n, Folders[i]>> \in sshGranted' <=> Folders[i] \in r.access.folders
      <4> SUFFICES ASSUME NEW i \in 1 .. r.set + 1
                   PROVE  <<n, Folders[i]>> \in sshGranted' <=> Folders[i] \in r.access.folders
        OBVIOUS
      <4>1. CASE Folders[i] = f
        BY <2>10, <4>1
      <4>2. CASE Folders[i] # f
        <5>1. i \in 1 .. r.set
          BY <2>2, <2>3, <4>2
        <5> QED BY <2>10, <3>2, <4>2, <5>1
      <4> QED BY <4>1, <4>2
    <3>4. q.at = "record" => \A g \in SSH!Paths : <<n, g>> \in sshGranted' <=> g \in r.access.folders
      <4> SUFFICES ASSUME q.at = "record", NEW g \in SSH!Paths
                   PROVE  <<n, g>> \in sshGranted' <=> g \in r.access.folders
        OBVIOUS
      <4>1. r.set + 1 = Len(Folders)
        BY <2>4, <2>7
      <4>2. PICK i \in 1 .. Len(Folders) : Folders[i] = g
        BY FolderPaths
      <4> QED BY <3>3, <4>1, <4>2
    <3>5. sshRequests'[s] = q
      BY <1>5, <2>6 DEF SSH!TypeOK
    <3>6. q.at \in {"record", "folders"}
      BY <2>4, <2>7
    <3> QED BY <1>4, <1>8, <2>7, <3>2, <3>3, <3>4, <3>5, <3>6 DEF SSHProgress
  <2>12. n \in sshMade' => n \in DOMAIN sshFiles' \/ n \in sshMet
    BY <1>2, <1>3, <1>4, SSHFacts
  <2>13. /\ sshLinux' \subseteq Names
         /\ sshKeys' \in [Names -> Keys \cup {SSH!NoKey}]
         /\ DOMAIN sshFiles' \subseteq Names /\ sshFiles' \in [DOMAIN sshFiles' -> SSH!Access]
         /\ sshMade' \subseteq Names
    BY <1>4, <1>5 DEF SSH!TypeOK
  <2>14. sshGranted' \subseteq Names \X SSH!Paths
    BY <1>3, <1>5, <2>6 DEF SSH!TypeOK
  <2>15. q.at \in {"record", "folders"} /\ (q.at = "folders" => q.set < Len(Folders))
    BY <2>2, <2>4, <2>7, FolderPaths
  <2> QED BY <1>2, <1>3, <1>4, <1>6, <2>1, <2>6, <2>7, <2>8, <2>9, <2>11, <2>12, <2>13, <2>14,
             <2>15, SSHGoOnStep
<1> QED BY <1>7, <1>8

LEMMA SSHWriteStateStep ==
    ASSUME SSH!SSHAssumption, SSHInv, NEW s \in Slots, SSH!WriteState(s)
    PROVE  SSHInv'
<1>1. PICK r : r = sshRequests[s]
  OBVIOUS
<1>2. PICK n : n = SSHName(s)
  OBVIOUS
<1>3. r.at = "record" /\ SSHActive(s) /\ r.name = n /\ n \in Names
  BY <1>1, <1>2, SSHFacts DEF SSH!WriteState, SSHActive, SSHName
<1>4. UNCHANGED <<sshLinux, sshKeys, sshGranted, sshBegun, sshFaults, sshDisturbed, sshMet>>
  BY DEF SSH!WriteState, SSH!Return, SSH!server
<1>5. SSH!TypeOK
  BY DEF SSHInv
<1>6. r \in SSH!Request /\ n \notin Foreign /\ r.access \in SSH!Access
  <2>1. r \in SSH!Request /\ n \notin Foreign
    BY <1>1, <1>2, <1>3, SSHFacts
  <2> QED BY <2>1 DEF SSH!Request
<1>7. /\ sshFiles' = [m \in SSH!Recorded \cup {n} |-> IF m = n THEN r.access ELSE sshFiles[m]]
      /\ sshMade' = sshMade \cup {n}
      /\ sshRequests' = [sshRequests EXCEPT ![s] = SSH!Idle]
  BY <1>1, <1>3 DEF SSH!WriteState, SSH!Return
<1>8. /\ DOMAIN sshFiles' = DOMAIN sshFiles \cup {n} /\ sshFiles'[n] = r.access
      /\ \A m \in DOMAIN sshFiles \ {n} : sshFiles'[m] = sshFiles[m]
  BY <1>7 DEF SSH!Recorded
<1>9. sshFiles' \in [DOMAIN sshFiles' -> SSH!Access]
  BY <1>5, <1>6, <1>7, <1>8 DEF SSH!TypeOK, SSH!Recorded
<1>10. \A m \in Names \ {n} : SSHKept(m)
  BY <1>4, <1>7, <1>8 DEF SSHKept
<1>11. ASSUME n \notin Foreign \cup sshDisturbed PROVE SSHTrue(n)'
  <2>1. /\ r.line = r.access.key /\ n \in sshLinux /\ sshKeys[n] = r.line
        /\ \A f \in SSH!Paths : <<n, f>> \in sshGranted <=> f \in r.access.folders
    <3>1. SSHProgress(s)
      BY <1>2, <1>3, <1>11, SSHFacts
    <3> QED BY <1>1, <1>3, <3>1 DEF SSHProgress
  <2>2. {f \in SSH!Paths : <<n, f>> \in sshGranted'} = r.access.folders
    BY <1>4, <1>6, <2>1 DEF SSH!Access
  <2>3. r.access = [key |-> sshKeys'[n], folders |-> {f \in SSH!Paths : <<n, f>> \in sshGranted'}]
    BY <1>4, <1>6, <2>1, <2>2 DEF SSH!Access
  <2> QED BY <1>4, <1>8, <2>1, <2>3 DEF SSHTrue, SSH!Recorded
<1>12. /\ sshLinux' \subseteq Names
       /\ sshKeys' \in [Names -> Keys \cup {SSH!NoKey}]
       /\ sshGranted' \subseteq Names \X SSH!Paths
       /\ DOMAIN sshFiles' \subseteq Names
       /\ sshMade' \subseteq Names
       /\ sshFaults' \in 0 .. MaxSSHFaults /\ sshDisturbed' = sshDisturbed /\ sshDisturbed \subseteq Names
  BY <1>3, <1>4, <1>5, <1>7, <1>8 DEF SSH!TypeOK
<1>13. PICK q \in SSH!Request : q = SSH!Idle /\ q.at = "idle"
  BY SSHIdleTyped
<1> QED BY <1>2, <1>3, <1>4, <1>6, <1>7, <1>8, <1>9, <1>10, <1>11, <1>12, <1>13, SSHGoOnStep

LEMMA SSHRemoveAclsStep ==
    ASSUME SSH!SSHAssumption, SSHInv, NEW s \in Slots, NEW failed \in SUBSET SSH!Paths,
           SSH!RemovePathACLs(s, failed)
    PROVE  SSHInv'
<1>1. PICK r : r = sshRequests[s]
  OBVIOUS
<1>2. PICK n : n = SSHName(s)
  OBVIOUS
<1>3. r.at = "acls" /\ SSHActive(s) /\ r.name = n /\ n \in Names
  BY <1>1, <1>2, SSHFacts DEF SSH!RemovePathACLs, SSHActive, SSHName
<1>4. /\ UNCHANGED <<sshLinux, sshKeys, sshFiles, sshMade, sshBegun, sshFaults, sshDisturbed, sshMet>>
      /\ sshGranted' = {g \in sshGranted : g[1] # n \/ g[2] \in failed}
  BY <1>1, <1>3 DEF SSH!RemovePathACLs, SSH!Step
<1>5. SSH!TypeOK
  BY DEF SSHInv
<1>6. PICK q : q = [r EXCEPT !.at = "userdel"]
  OBVIOUS
<1>7. sshRequests' = [sshRequests EXCEPT ![s] = q]
  BY <1>1, <1>6 DEF SSH!RemovePathACLs, SSH!Step
<1>8. q \in SSH!Request /\ q.at = "userdel" /\ q.name = n /\ n \notin Foreign
  <2>1. r \in SSH!Request /\ n \notin Foreign
    BY <1>1, <1>2, <1>3, SSHFacts
  <2> QED BY <1>3, <1>6, <2>1 DEF SSH!Request
<1>9. \A m \in Names \ {n} : SSHKept(m)
  BY <1>4 DEF SSHKept
<1>10. SSHProgress(s)'
  <2>1. sshRequests'[s] = q
    BY <1>5, <1>7 DEF SSH!TypeOK
  <2> QED BY <1>8, <2>1 DEF SSHProgress
<1>11. n \in sshMade' => n \in DOMAIN sshFiles' \/ n \in sshMet
  BY <1>2, <1>3, <1>4, SSHFacts
<1>12. /\ sshLinux' \subseteq Names
       /\ sshKeys' \in [Names -> Keys \cup {SSH!NoKey}]
       /\ sshGranted' \subseteq Names \X SSH!Paths
       /\ DOMAIN sshFiles' \subseteq Names /\ sshFiles' \in [DOMAIN sshFiles' -> SSH!Access]
       /\ sshMade' \subseteq Names
       /\ sshFaults' \in 0 .. MaxSSHFaults /\ sshDisturbed' = sshDisturbed /\ sshDisturbed \subseteq Names
  BY <1>4, <1>5 DEF SSH!TypeOK
<1> QED BY <1>2, <1>3, <1>4, <1>7, <1>8, <1>9, <1>10, <1>11, <1>12, SSHGoOnStep

LEMMA SSHDeleteUserStep ==
    ASSUME SSH!SSHAssumption, SSHInv, NEW s \in Slots, SSH!DeleteUser(s)
    PROVE  SSHInv'
<1>1. PICK r : r = sshRequests[s]
  OBVIOUS
<1>2. PICK n : n = SSHName(s)
  OBVIOUS
<1>3. r.at = "userdel" /\ SSHActive(s) /\ r.name = n /\ n \in Names
  BY <1>1, <1>2, SSHFacts DEF SSH!DeleteUser, SSHActive, SSHName
<1>4. /\ UNCHANGED <<sshGranted, sshFiles, sshBegun, sshFaults, sshDisturbed, sshMet>>
      /\ sshLinux' = sshLinux \ {n} /\ sshMade' = sshMade \ {n}
      /\ sshKeys' = IF n \in sshLinux THEN [sshKeys EXCEPT ![n] = SSH!NoKey] ELSE sshKeys
  BY <1>1, <1>3 DEF SSH!DeleteUser, SSH!Step
<1>5. SSH!TypeOK
  BY DEF SSHInv
<1>6. PICK q : q = [r EXCEPT !.at = "remove"]
  OBVIOUS
<1>7. sshRequests' = [sshRequests EXCEPT ![s] = q]
  BY <1>1, <1>6 DEF SSH!DeleteUser, SSH!Step
<1>8. q \in SSH!Request /\ q.at = "remove" /\ q.name = n /\ n \notin Foreign
  <2>1. r \in SSH!Request /\ n \notin Foreign
    BY <1>1, <1>2, <1>3, SSHFacts
  <2> QED BY <1>3, <1>6, <2>1 DEF SSH!Request
<1>9. sshKeys' \in [Names -> Keys \cup {SSH!NoKey}] /\ \A m \in Names \ {n} : sshKeys'[m] = sshKeys[m]
  BY <1>3, <1>4, <1>5 DEF SSH!TypeOK
<1>10. \A m \in Names \ {n} : SSHKept(m)
  BY <1>4, <1>9 DEF SSHKept
<1>11. SSHProgress(s)'
  <2>1. sshRequests'[s] = q
    BY <1>5, <1>7 DEF SSH!TypeOK
  <2> QED BY <1>4, <1>8, <2>1 DEF SSHProgress
<1>12. n \notin sshMade'
  BY <1>4
<1>13. /\ sshLinux' \subseteq Names
       /\ sshGranted' \subseteq Names \X SSH!Paths
       /\ DOMAIN sshFiles' \subseteq Names /\ sshFiles' \in [DOMAIN sshFiles' -> SSH!Access]
       /\ sshMade' \subseteq Names
       /\ sshFaults' \in 0 .. MaxSSHFaults /\ sshDisturbed' = sshDisturbed /\ sshDisturbed \subseteq Names
  BY <1>4, <1>5 DEF SSH!TypeOK
<1> QED BY <1>2, <1>3, <1>4, <1>7, <1>8, <1>9, <1>10, <1>11, <1>12, <1>13, SSHGoOnStep

LEMMA SSHNotSeenStep ==
    ASSUME SSH!SSHAssumption, SSHInv, NEW s \in Slots, SSH!UserNotSeen(s)
    PROVE  SSHInv'
<1>1. PICK r : r = sshRequests[s]
  OBVIOUS
<1>2. PICK n : n = SSHName(s)
  OBVIOUS
<1>3. r.at = "userdel" /\ SSHActive(s) /\ r.name = n /\ n \in Names
  BY <1>1, <1>2, SSHFacts DEF SSH!UserNotSeen, SSHActive, SSHName
<1>4. /\ UNCHANGED <<sshLinux, sshKeys, sshGranted, sshFiles, sshBegun, sshMet>>
      /\ sshMade' = sshMade \ {n} /\ sshDisturbed' = sshDisturbed \cup {n}
      /\ sshFaults < MaxSSHFaults /\ sshFaults' = sshFaults + 1
  BY <1>1, <1>3 DEF SSH!UserNotSeen, SSH!server
<1>5. SSH!TypeOK
  BY DEF SSHInv
<1>6. PICK q : q = [r EXCEPT !.at = "remove"]
  OBVIOUS
<1>7. sshRequests' = [sshRequests EXCEPT ![s] = q]
  BY <1>1, <1>6 DEF SSH!UserNotSeen
<1>8. q \in SSH!Request /\ q.at = "remove" /\ q.name = n /\ n \notin Foreign
  <2>1. r \in SSH!Request /\ n \notin Foreign
    BY <1>1, <1>2, <1>3, SSHFacts
  <2> QED BY <1>3, <1>6, <2>1 DEF SSH!Request
<1>9. \A m \in Names \ {n} : SSHKept(m)
  BY <1>4 DEF SSHKept
<1>10. n \in sshDisturbed' /\ n \notin sshMade'
  BY <1>4
<1>11. sshFaults' \in 0 .. MaxSSHFaults
  BY <1>4, <1>5 DEF SSH!TypeOK, SSH!SSHAssumption
<1>12. /\ sshLinux' \subseteq Names
       /\ sshKeys' \in [Names -> Keys \cup {SSH!NoKey}]
       /\ sshGranted' \subseteq Names \X SSH!Paths
       /\ DOMAIN sshFiles' \subseteq Names /\ sshFiles' \in [DOMAIN sshFiles' -> SSH!Access]
       /\ sshMade' \subseteq Names
       /\ sshDisturbed \subseteq sshDisturbed' /\ sshDisturbed' \subseteq Names
  BY <1>3, <1>4, <1>5 DEF SSH!TypeOK
<1> QED BY <1>2, <1>3, <1>4, <1>7, <1>8, <1>9, <1>10, <1>11, <1>12, SSHGoOnStep

LEMMA SSHRemoveStateStep ==
    ASSUME SSH!SSHAssumption, SSHInv, NEW s \in Slots, SSH!RemoveState(s)
    PROVE  SSHInv'
<1>1. PICK r : r = sshRequests[s]
  OBVIOUS
<1>2. PICK n : n = SSHName(s)
  OBVIOUS
<1>3. r.at = "remove" /\ SSHActive(s) /\ r.name = n /\ n \in Names /\ n \notin Foreign
  BY <1>1, <1>2, SSHFacts DEF SSH!RemoveState, SSHActive, SSHName
<1>4. /\ UNCHANGED <<sshLinux, sshKeys, sshGranted, sshMade, sshBegun, sshFaults, sshDisturbed, sshMet>>
      /\ sshFiles' = [m \in SSH!Recorded \ {n} |-> sshFiles[m]]
      /\ sshRequests' = [sshRequests EXCEPT ![s] = SSH!Idle]
  BY <1>1, <1>3 DEF SSH!RemoveState, SSH!Return, SSH!server
<1>5. SSH!TypeOK
  BY DEF SSHInv
<1>6. /\ DOMAIN sshFiles' = DOMAIN sshFiles \ {n}
      /\ \A m \in DOMAIN sshFiles \ {n} : sshFiles'[m] = sshFiles[m]
  BY <1>4 DEF SSH!Recorded
<1>7. sshFiles' \in [DOMAIN sshFiles' -> SSH!Access]
  BY <1>4, <1>5, <1>6 DEF SSH!TypeOK, SSH!Recorded
<1>8. \A m \in Names \ {n} : SSHKept(m)
  BY <1>4, <1>6 DEF SSHKept
<1>9. ASSUME n \notin Foreign \cup sshDisturbed PROVE SSHTrue(n)'
  <2>1. n \notin sshLinux
    <3>1. SSHProgress(s)
      BY <1>2, <1>3, <1>9, SSHFacts
    <3> QED BY <1>1, <1>3, <3>1 DEF SSHProgress
  <2> QED BY <1>4, <1>6, <2>1 DEF SSHTrue, SSH!Recorded
<1>10. n \notin sshMade' \/ n \in sshMet
  BY <1>1, <1>2, <1>3, <1>4 DEF SSHInv, SSHGoneBeforeFile
<1>11. /\ sshLinux' \subseteq Names
       /\ sshKeys' \in [Names -> Keys \cup {SSH!NoKey}]
       /\ sshGranted' \subseteq Names \X SSH!Paths
       /\ DOMAIN sshFiles' \subseteq Names
       /\ sshMade' \subseteq Names
       /\ sshFaults' \in 0 .. MaxSSHFaults /\ sshDisturbed' = sshDisturbed /\ sshDisturbed \subseteq Names
  BY <1>4, <1>5, <1>6 DEF SSH!TypeOK
<1>12. PICK q \in SSH!Request : q = SSH!Idle /\ q.at = "idle"
  BY SSHIdleTyped
<1> QED BY <1>2, <1>3, <1>4, <1>7, <1>8, <1>9, <1>10, <1>11, <1>12, SSHGoOnStep

LEMMA SSHAbortsStep ==
    ASSUME SSH!SSHAssumption, SSHInv, NEW s \in Slots, SSH!Aborts(s)
    PROVE  SSHInv'
<1>1. PICK n : n = SSHName(s)
  OBVIOUS
<1>2. SSHActive(s) /\ n \in Names
  BY <1>1, SSHFacts DEF SSH!Aborts, SSHActive
<1>3. /\ sshRequests' = [sshRequests EXCEPT ![s] = SSH!Idle]
      /\ UNCHANGED <<SSH!server, sshFiles, sshMade, sshBegun, sshMet>>
      /\ sshDisturbed' = sshDisturbed \cup {n}
      /\ sshFaults < MaxSSHFaults /\ sshFaults' = sshFaults + 1
  BY <1>1 DEF SSH!Aborts, SSHName
<1>4. /\ sshFaults' \in 0 .. MaxSSHFaults
      /\ sshDisturbed \subseteq sshDisturbed' /\ sshDisturbed' \subseteq Names
      /\ n \in sshDisturbed'
  BY <1>2, <1>3 DEF SSHInv, SSH!TypeOK, SSH!SSHAssumption
<1> QED BY <1>1, <1>2, <1>3, <1>4, SSHReturnStep

LEMMA SSHInit ==
    ASSUME SSH!SSHAssumption, SSH!Init
    PROVE  SSHInv
<1> USE DEF SSH!Init
<1>1. \A s \in Slots : sshRequests[s] = SSH!Idle /\ sshRequests[s].at = "idle"
  BY SSHIdleTyped
<1>2. SSH!TypeOK
  <2>1. sshRequests \in [Slots -> SSH!Request]
    BY SSHIdleTyped
  <2>2. DOMAIN sshFiles = {} /\ sshFiles \in [DOMAIN sshFiles -> SSH!Access]
    OBVIOUS
  <2> QED BY <2>1, <2>2 DEF SSH!TypeOK, SSH!SSHAssumption
<1>3. \A s \in Slots : SSHShape(s)
  BY <1>1 DEF SSHShape, SSHActive
<1>4. SSH!ForeignersAreLeftAlone
  BY DEF SSH!ForeignersAreLeftAlone, SSH!Recorded, SSH!SSHAssumption
<1>5. SSHQuietTrue
  BY DEF SSHQuietTrue, SSHTrue, SSH!Recorded
<1> QED BY <1>1, <1>2, <1>3, <1>4, <1>5 DEF SSHInv, SSHMeetingsKnown, SSHForeignRefused,
       SSH!RecordedUntilGone, SSHGoneBeforeFile, SSHAloneSound, SSHActive

LEMMA SSHNext ==
    ASSUME SSH!SSHAssumption, SSHInv, [SSH!Next]_(SSH!vars)
    PROVE  SSHInv'
<1>1. CASE UNCHANGED SSH!vars
  BY <1>1 DEF SSH!vars, SSHInv, SSH!TypeOK, SSHShape, SSHActive, SSHName, SSHProgress, SSHTrue,
       SSHMeetingsKnown, SSH!ForeignersAreLeftAlone, SSHForeignRefused, SSH!RecordedUntilGone,
       SSHGoneBeforeFile, SSHQuietTrue, SSHAloneSound, SSH!Recorded
<1>2. ASSUME NEW s \in Slots, SSH!Serve(s) PROVE SSHInv'
  <2>1. ASSUME NEW n \in Names, NEW key \in Keys \cup {SSH!NoKey}, NEW folders \in SUBSET SSH!Paths,
               SSH!Upsert(s, n, key, folders)
        PROVE  SSHInv'
    BY <2>1, SSHUpsertStep
  <2>2. ASSUME NEW n \in Names, SSH!Delete(s, n) PROVE SSHInv'
    BY <2>2, SSHDeleteStep
  <2>3. ASSUME NEW failed \in SUBSET SSH!Paths, SSH!RemovePathACLs(s, failed) PROVE SSHInv'
    BY <2>3, SSHRemoveAclsStep
  <2> QED BY <1>2, <2>1, <2>2, <2>3, SSHFindStep, SSHAddUserStep, SSHWriteKeyStep, SSHApplyStep,
             SSHWriteStateStep, SSHDeleteUserStep, SSHNotSeenStep, SSHRemoveStateStep,
             SSHAbortsStep DEF SSH!Serve
<1> QED BY <1>1, <1>2 DEF SSH!Next

LEMMA SSHInvImplies ==
    ASSUME SSHInv
    PROVE  SSHAccessConsistent
<1>1. ASSUME NEW n \in Names \ (Foreign \cup sshDisturbed), SSH!Busy(n) = {}
      PROVE  SSHTrue(n)
  <2>1. \A s \in Slots : SSHActive(s) => SSHName(s) # n
    BY <1>1 DEF SSH!Busy, SSHName
  <2> QED BY <2>1 DEF SSHInv, SSHQuietTrue
<1>2. SSH!RecordsAreTrue
  BY <1>1 DEF SSH!RecordsAreTrue, SSHTrue
<1> QED BY <1>2 DEF SSHInv, SSHAccessConsistent, SSH!SSHAccessConsistent

\* However requests for SSH accesses interleave and whichever of their steps
\* fail: users of others are left alone, a state file is the last to go, and
\* it tells the truth of every user no request failed on or met another.
THEOREM SSHAccessesStayConsistent == Spec => []SSHAccessConsistent
<1>1. SSH!SSHAssumption
  BY Constants
<1>2. Init => SSHInv
  BY <1>1, SSHInit DEF Init
<1>3. SSHInv /\ [Next]_vars => SSHInv'
  BY <1>1, SSHNext, ServicesRun
<1>4. SSHInv => SSHAccessConsistent
  BY SSHInvImplies
<1> QED BY <1>2, <1>3, <1>4, PTL DEF Spec

-----------------------------------------------------------------------------
(* WeddingAccess.                                                          *)
(*                                                                         *)
(* The inductive invariant.  No version is newer than the newest that has  *)
(* come into use, and the one in force, unless an input brought it back,   *)
(* has been in force since: the settings a request has read are of another *)
(* version or are those in force, and a cookie given for them names the    *)
(* code of its version.  The attempts on record end with a lock, and with  *)
(* no lock on record the last one earned is over, because the time of a    *)
(* request is not ahead of the clock.                                      *)

AccessTyped ==
    /\ Access!TypeOK
    /\ \A s \in Slots : accessRequests[s].at # "idle" =>
          accessRequests[s].address \in Guests /\ accessRequests[s].code \in Codes

SnapshotsSound ==
    \A s \in Slots : accessRequests[s].at = "count" =>
        /\ accessRequests[s].settings.enabled
        /\ accessRequests[s].settings.version <= accessNamed
        /\ accessRequests[s].settings.version = accessSettings.version =>
              \/ accessSettings.version \in accessReturned
              \/ accessRequests[s].settings = accessSettings

CookiesSound ==
    /\ accessSettings.version <= accessNamed
    /\ \A k \in accessCookies : k.version <= accessNamed
    /\ Access!CookieNamesItsCode

LocksSound ==
    /\ accessEarly = FALSE
    /\ \A s \in Slots : accessRequests[s].now <= accessNow
    /\ \A a \in Guests :
        /\ accessAttempts[a].failed = accessMissed[a]
        /\ accessAttempts[a].until = 0 =>
              accessAttempts[a].failed < MaxAttempts /\ accessLockEnd[a] <= accessNow
        /\ accessAttempts[a].until # 0 =>
              accessAttempts[a].failed = MaxAttempts /\ accessLockEnd[a] = accessAttempts[a].until

AccessInv ==
    /\ AccessTyped
    /\ SnapshotsSound
    /\ CookiesSound
    /\ LocksSound

LEMMA AccessInit ==
    ASSUME Access!AccessAssumption, Access!Init
    PROVE  AccessInv
<1>1. MaxAccessTime \in Nat /\ 0 < MaxAccessTime /\ MaxChanges \in Nat /\ MaxAttempts \in Nat /\ 0 < MaxAttempts /\ LockDuration \in Nat
  BY DEF Access!AccessAssumption
<1>2. Access!First \in Access!Settings
  BY <1>1 DEF Access!First, Access!Settings, Access!AccessAssumption
<1>3. Access!Idle \in Access!Request
  BY <1>1, <1>2 DEF Access!Idle, Access!Request
<1>4. Access!Fresh \in Access!Attempt
  BY <1>1 DEF Access!Fresh, Access!Attempt
<1>5. AccessTyped
  <2>1. Access!Idle.at = "idle"
    BY DEF Access!Idle
  <2>2. accessNow \in 1 .. MaxAccessTime /\ 0 \in 0 .. MaxAttempts /\ 0 \in 0 .. MaxAccessTime + LockDuration
    BY <1>1 DEF Access!Init
  <2>3. 1 \in 1 .. MaxChanges + 1
    BY <1>1
  <2> QED BY <1>2, <1>3, <1>4, <2>1, <2>2, <2>3 DEF AccessTyped, Access!TypeOK, Access!Init
<1>6. SnapshotsSound
  BY DEF SnapshotsSound, Access!Init, Access!Idle
<1>7. CookiesSound
  BY DEF CookiesSound, Access!Init, Access!First, Access!CookieNamesItsCode
<1>8. LocksSound
  BY <1>1 DEF LocksSound, Access!Init, Access!Idle, Access!Fresh
<1> QED BY <1>5, <1>6, <1>7, <1>8 DEF AccessInv

\* The requests of the slots, one of which may change.
LEMMA AccessSlots ==
    ASSUME AccessTyped, NEW s \in Slots, NEW r \in Access!Request,
           accessRequests' = [accessRequests EXCEPT ![s] = r]
    PROVE  /\ accessRequests' \in [Slots -> Access!Request]
           /\ accessRequests'[s] = r
           /\ \A q \in Slots : q # s => accessRequests'[q] = accessRequests[q]
BY DEF AccessTyped, Access!TypeOK

LEMMA AccessIdle ==
    ASSUME AccessTyped
    PROVE  Access!Idle \in Access!Request /\ Access!Idle.at = "idle" /\ Access!Idle.now = 0
<1>1. MaxChanges \in Nat /\ MaxAccessTime \in Nat /\ Access!First \in Access!Settings
  BY Constants DEF Access!AccessAssumption, Access!First, Access!Settings
<1> QED BY <1>1 DEF Access!Idle, Access!Request

LEMMA AccessConstants ==
    /\ MaxAccessTime \in Nat /\ MaxChanges \in Nat /\ MaxAttempts \in Nat /\ LockDuration \in Nat
    /\ 0 < MaxAttempts /\ 0 < LockDuration
BY Constants DEF Access!AccessAssumption

LEMMA AccessArrive ==
    ASSUME AccessInv, NEW s \in Slots, NEW a \in Guests, NEW c \in Codes, Access!Arrive(s, a, c)
    PROVE  AccessInv'
<1>1. AccessTyped /\ accessNow \in 1 .. MaxAccessTime
  BY DEF AccessInv, AccessTyped, Access!TypeOK
<1>2. PICK idle \in Access!Request : idle = Access!Idle
  BY <1>1, AccessIdle
<1>3. PICK q : q = [idle EXCEPT !.at = "read", !.address = a, !.code = c, !.now = accessNow]
  OBVIOUS
<1>4. q \in Access!Request /\ q.at = "read" /\ q.address = a /\ q.code = c /\ q.now = accessNow
  <2>1. /\ "read" \in {"idle", "read", "count"} /\ a \in Guests \cup {Access!Nobody}
        /\ c \in Codes \cup {Access!NoCode} /\ accessNow \in 0 .. MaxAccessTime
    BY <1>1, AccessConstants
  <2> QED BY <1>2, <1>3, <2>1 DEF Access!Request
<1>5. accessRequests' = [accessRequests EXCEPT ![s] = q]
  BY <1>2, <1>3 DEF Access!Arrive
<1>6. UNCHANGED <<accessNow, accessSettings, accessAttempts, accessCookies, accessNamed, accessReturned>>
  BY DEF Access!Arrive, Access!versions
<1>7. UNCHANGED <<accessMissed, accessLockEnd, accessEarly>>
  BY DEF Access!Arrive, Access!ghosts
<1>8. /\ accessRequests' \in [Slots -> Access!Request] /\ accessRequests'[s] = q
      /\ \A p \in Slots : p # s => accessRequests'[p] = accessRequests[p]
  BY <1>1, <1>4, <1>5, AccessSlots
<1>9. AccessTyped'
  BY <1>4, <1>6, <1>7, <1>8 DEF AccessInv, AccessTyped, Access!TypeOK
<1>10. SnapshotsSound'
  BY <1>4, <1>6, <1>8 DEF AccessInv, SnapshotsSound
<1>11. CookiesSound'
  BY <1>6 DEF AccessInv, CookiesSound, Access!CookieNamesItsCode
<1>12. LocksSound'
  BY <1>1, <1>4, <1>6, <1>7, <1>8 DEF AccessInv, LocksSound
<1> QED BY <1>9, <1>10, <1>11, <1>12 DEF AccessInv

LEMMA AccessRead ==
    ASSUME AccessInv, NEW s \in Slots, Access!ReadSettings(s)
    PROVE  AccessInv'
<1>1. /\ AccessTyped /\ accessSettings \in Access!Settings /\ accessRequests[s] \in Access!Request
      /\ accessCookies \subseteq [version : 1 .. MaxChanges + 1, code : Codes]
  BY DEF AccessInv, AccessTyped, Access!TypeOK
<1>2. PICK q : q = [accessRequests[s] EXCEPT !.settings = accessSettings]
  OBVIOUS
<1>3. /\ q \in Access!Request /\ q.at = accessRequests[s].at /\ q.address = accessRequests[s].address
      /\ q.code = accessRequests[s].code /\ q.now = accessRequests[s].now /\ q.settings = accessSettings
  BY <1>1, <1>2 DEF Access!Request
<1>4. /\ UNCHANGED <<accessNow, accessSettings, accessAttempts, accessMissed, accessLockEnd, accessEarly,
                      accessNamed, accessReturned>>
      /\ q.at = "read"
      /\ IF accessSettings.enabled
         THEN /\ accessRequests' = [accessRequests EXCEPT ![s] = [q EXCEPT !.at = "count"]]
              /\ accessCookies' = accessCookies
         ELSE /\ accessRequests' = [accessRequests EXCEPT ![s] = Access!Idle]
              /\ accessCookies' = accessCookies \cup {[version |-> q.settings.version, code |-> q.code]}
  BY <1>2 DEF Access!ReadSettings, Access!Cookies, Access!ghosts, Access!versions
<1>5. q.address \in Guests /\ q.code \in Codes
  BY <1>3, <1>4 DEF AccessInv, AccessTyped
<1>6. accessSettings.version \in 1 .. MaxChanges + 1
  BY <1>1 DEF Access!Settings
<1>7. PICK p : p = IF accessSettings.enabled THEN [q EXCEPT !.at = "count"] ELSE Access!Idle
  OBVIOUS
<1>8. accessRequests' = [accessRequests EXCEPT ![s] = p]
  BY <1>4, <1>7
<1>9. /\ p \in Access!Request
      /\ p.at # "idle" => p.address \in Guests /\ p.code \in Codes /\ accessSettings.enabled /\ p.settings = accessSettings
      /\ p.now = 0 \/ p.now = accessRequests[s].now
  <2>1. CASE accessSettings.enabled
    BY <2>1, <1>3, <1>5, <1>7 DEF Access!Request
  <2>2. CASE ~accessSettings.enabled
    BY <2>2, <1>1, <1>7, AccessIdle
  <2> QED BY <2>1, <2>2
<1>10. /\ accessRequests' \in [Slots -> Access!Request] /\ accessRequests'[s] = p
       /\ \A o \in Slots : o # s => accessRequests'[o] = accessRequests[o]
  BY <1>1, <1>8, <1>9, AccessSlots
<1>11. accessCookies' \subseteq [version : 1 .. MaxChanges + 1, code : Codes]
  BY <1>1, <1>3, <1>4, <1>5, <1>6
<1>12. AccessTyped'
  BY <1>4, <1>9, <1>10, <1>11 DEF AccessInv, AccessTyped, Access!TypeOK
<1>13. SnapshotsSound'
  BY <1>4, <1>6, <1>9, <1>10 DEF AccessInv, SnapshotsSound, CookiesSound
<1>14. CookiesSound'
  <2>1. CASE accessSettings.enabled
    BY <2>1, <1>4 DEF AccessInv, CookiesSound, Access!CookieNamesItsCode
  <2>2. CASE ~accessSettings.enabled
    BY <2>2, <1>3, <1>4, <1>6 DEF AccessInv, CookiesSound, Access!CookieNamesItsCode
  <2> QED BY <2>1, <2>2
<1>15. accessNow \in Nat
  BY DEF AccessInv, AccessTyped, Access!TypeOK
<1>16. LocksSound'
  BY <1>4, <1>9, <1>10, <1>15 DEF AccessInv, LocksSound
<1> QED BY <1>12, <1>13, <1>14, <1>16 DEF AccessInv

\* A request that is over leaves the others as they are.
LEMMA AccessReturns ==
    ASSUME AccessInv, NEW s \in Slots, accessRequests' = [accessRequests EXCEPT ![s] = Access!Idle],
           UNCHANGED <<accessNow, accessSettings, accessNamed, accessReturned>>
    PROVE  /\ accessRequests' \in [Slots -> Access!Request]
           /\ SnapshotsSound'
           /\ \A q \in Slots : accessRequests'[q].now <= accessNow
           /\ \A q \in Slots : accessRequests'[q].at # "idle" =>
                 accessRequests'[q].address \in Guests /\ accessRequests'[q].code \in Codes
<1>1. AccessTyped
  BY DEF AccessInv
<1>2. PICK idle \in Access!Request : idle = Access!Idle /\ idle.at = "idle" /\ idle.now = 0
  BY <1>1, AccessIdle
<1>3. /\ accessRequests' \in [Slots -> Access!Request] /\ accessRequests'[s] = idle
      /\ \A q \in Slots : q # s => accessRequests'[q] = accessRequests[q]
  BY <1>1, <1>2, AccessSlots
<1>4. accessNow \in Nat
  BY DEF AccessInv, AccessTyped, Access!TypeOK
<1> QED BY <1>2, <1>3, <1>4 DEF AccessInv, AccessTyped, SnapshotsSound, LocksSound

LEMMA AccessRefuseLocked ==
    ASSUME AccessInv, NEW s \in Slots, Access!RefuseLocked(s)
    PROVE  AccessInv'
<1>1. /\ accessRequests' = [accessRequests EXCEPT ![s] = Access!Idle]
      /\ UNCHANGED <<accessNow, accessSettings, accessAttempts, accessCookies, accessMissed, accessLockEnd, accessEarly,
                      accessNamed, accessReturned>>
  BY DEF Access!RefuseLocked, Access!ghosts, Access!versions
<1>2. AccessTyped'
  BY <1>1, AccessReturns DEF AccessInv, AccessTyped, Access!TypeOK
<1>3. SnapshotsSound'
  BY <1>1, AccessReturns
<1>4. CookiesSound'
  BY <1>1 DEF AccessInv, CookiesSound, Access!CookieNamesItsCode
<1>5. LocksSound'
  BY <1>1, AccessReturns DEF AccessInv, LocksSound
<1> QED BY <1>2, <1>3, <1>4, <1>5 DEF AccessInv

LEMMA AccessAccept ==
    ASSUME AccessInv, NEW s \in Slots, Access!AcceptCode(s)
    PROVE  AccessInv'
<1> DEFINE r == accessRequests[s]
<1>1. /\ AccessTyped /\ r \in Access!Request /\ accessAttempts \in [Guests -> Access!Attempt]
      /\ accessMissed \in [Guests -> 0 .. MaxAttempts]
      /\ accessLockEnd \in [Guests -> 0 .. MaxAccessTime + LockDuration]
      /\ accessNow \in Nat /\ accessCookies \subseteq [version : 1 .. MaxChanges + 1, code : Codes]
      /\ accessSettings \in Access!Settings
  BY DEF AccessInv, AccessTyped, Access!TypeOK
<1>2. /\ r.at = "count" /\ ~(accessAttempts[r.address].until > r.now) /\ r.code = r.settings.code
      /\ accessAttempts' = [accessAttempts EXCEPT ![r.address] = Access!Fresh]
      /\ accessCookies' = accessCookies \cup {[version |-> r.settings.version, code |-> r.code]}
      /\ accessMissed' = [accessMissed EXCEPT ![r.address] = 0]
      /\ accessRequests' = [accessRequests EXCEPT ![s] = Access!Idle]
      /\ UNCHANGED <<accessNow, accessSettings, accessNamed, accessReturned>>
  BY DEF Access!AcceptCode, Access!Cookies, Access!Locked, Access!Compares, Access!versions
<1>3. /\ accessLockEnd' = IF 0 = MaxAttempts
                          THEN [accessLockEnd EXCEPT ![r.address] = r.now + LockDuration] ELSE accessLockEnd
      /\ accessEarly' = (accessEarly \/ accessNow < accessLockEnd[r.address])
  BY DEF Access!AcceptCode, Access!Compares
<1>4. accessLockEnd' = accessLockEnd
  BY <1>3, AccessConstants
<1>5. r.address \in Guests /\ r.code \in Codes
  BY <1>2 DEF AccessInv, AccessTyped
<1>6. /\ accessAttempts[r.address].until \in Nat /\ accessLockEnd[r.address] \in Nat
      /\ r.now \in Nat /\ r.now <= accessNow /\ r.settings \in Access!Settings
  <2>1. r.now \in 0 .. MaxAccessTime /\ r.settings \in Access!Settings
    BY <1>1 DEF Access!Request
  <2> QED BY <2>1, <1>1, <1>5, AccessConstants DEF Access!Attempt, AccessInv, LocksSound
<1>7. accessLockEnd[r.address] <= accessNow
  BY <1>1, <1>2, <1>5, <1>6 DEF AccessInv, LocksSound
<1>8. accessEarly' = FALSE
  <2>1. ~(accessNow < accessLockEnd[r.address])
    BY <1>1, <1>6, <1>7
  <2>2. accessEarly = FALSE
    BY DEF AccessInv, LocksSound
  <2> QED BY <1>3, <2>1, <2>2, Zenon
<1>9. PICK fresh : fresh = Access!Fresh
  OBVIOUS
<1>10. fresh \in Access!Attempt /\ fresh.failed = 0 /\ fresh.until = 0
  BY <1>9, AccessConstants DEF Access!Fresh, Access!Attempt
<1>11. r.settings.version \in 1 .. MaxChanges + 1
  BY <1>6 DEF Access!Settings
<1>12. AccessTyped'
  <2>1. accessAttempts' \in [Guests -> Access!Attempt]
    BY <1>1, <1>2, <1>9, <1>10
  <2>2. accessMissed' \in [Guests -> 0 .. MaxAttempts]
    <3>1. 0 \in 0 .. MaxAttempts
      BY AccessConstants
    <3> QED BY <1>1, <1>2, <1>5, <3>1
  <2>3. accessCookies' \subseteq [version : 1 .. MaxChanges + 1, code : Codes]
    BY <1>1, <1>2, <1>5, <1>11
  <2> QED BY <1>1, <1>2, <1>4, <1>8, <2>1, <2>2, <2>3, AccessReturns DEF AccessInv, AccessTyped, Access!TypeOK
<1>13. SnapshotsSound'
  BY <1>2, AccessReturns
<1>14. CookiesSound'
  <2>1. r.settings.version <= accessNamed
    BY <1>2 DEF AccessInv, SnapshotsSound
  <2>2. r.settings.version = accessSettings.version =>
           accessSettings.version \in accessReturned \/ r.code = accessSettings.code
    BY <1>2 DEF AccessInv, SnapshotsSound
  <2> QED BY <1>2, <2>1, <2>2 DEF AccessInv, CookiesSound, Access!CookieNamesItsCode
<1>15. LocksSound'
  <2> SUFFICES ASSUME NEW a \in Guests
               PROVE  /\ accessAttempts'[a].failed = accessMissed'[a]
                      /\ accessAttempts'[a].until = 0 =>
                            accessAttempts'[a].failed < MaxAttempts /\ accessLockEnd[a] <= accessNow
                      /\ accessAttempts'[a].until # 0 =>
                            accessAttempts'[a].failed = MaxAttempts /\ accessLockEnd[a] = accessAttempts'[a].until
    BY <1>2, <1>4, <1>8, AccessReturns DEF LocksSound
  <2>1. CASE a = r.address
    BY <2>1, <1>1, <1>2, <1>7, <1>9, <1>10, AccessConstants
  <2>2. CASE a # r.address
    <3>1. accessAttempts'[a] = accessAttempts[a] /\ accessMissed'[a] = accessMissed[a]
      BY <2>2, <1>1, <1>2
    <3> QED BY <3>1 DEF AccessInv, LocksSound
  <2> QED BY <2>1, <2>2
<1> QED BY <1>12, <1>13, <1>14, <1>15 DEF AccessInv

LEMMA NextMiss ==
    ASSUME NEW m \in Nat, NEW n \in Nat, 0 < n, m <= n
    PROVE  m % n = IF m = n THEN 0 ELSE m
OBVIOUS

\* A wrong code: the count of the attempts on record, without those a lock
\* that is over has left, and the wrong codes in a row are counted alike.
LEMMA AccessMiss ==
    ASSUME AccessInv, NEW s \in Slots, Access!RefuseCode(s)
    PROVE  AccessInv'
<1> DEFINE r == accessRequests[s]
<1>1. /\ AccessTyped /\ r \in Access!Request /\ accessAttempts \in [Guests -> Access!Attempt]
      /\ accessMissed \in [Guests -> 0 .. MaxAttempts]
      /\ accessLockEnd \in [Guests -> 0 .. MaxAccessTime + LockDuration]
      /\ accessNow \in Nat
  BY DEF AccessInv, AccessTyped, Access!TypeOK
<1>2. PICK failed : failed = Access!Standing(r.address).failed + 1
  OBVIOUS
<1>3. PICK count : count = (accessMissed[r.address] % MaxAttempts) + 1
  OBVIOUS
<1>4. PICK until : until = IF failed >= MaxAttempts THEN r.now + LockDuration ELSE 0
  OBVIOUS
<1>5. /\ r.at = "count" /\ ~(accessAttempts[r.address].until > r.now)
      /\ accessAttempts' = [accessAttempts EXCEPT ![r.address] = [failed |-> failed, until |-> until]]
      /\ accessMissed' = [accessMissed EXCEPT ![r.address] = count]
      /\ accessLockEnd' = IF count = MaxAttempts
                          THEN [accessLockEnd EXCEPT ![r.address] = r.now + LockDuration] ELSE accessLockEnd
      /\ accessEarly' = (accessEarly \/ accessNow < accessLockEnd[r.address])
      /\ accessRequests' = [accessRequests EXCEPT ![s] = Access!Idle]
      /\ UNCHANGED <<accessNow, accessSettings, accessCookies, accessNamed, accessReturned>>
  BY <1>2, <1>3, <1>4 DEF Access!RefuseCode, Access!Locked, Access!Compares, Access!versions
<1>6. r.address \in Guests
  BY <1>5 DEF AccessInv, AccessTyped
<1>7. PICK old \in Access!Attempt : old = accessAttempts[r.address]
  BY <1>1, <1>6
<1>8. /\ old.until \in Nat /\ old.failed \in Nat /\ accessLockEnd[r.address] \in Nat
      /\ r.now \in 0 .. MaxAccessTime /\ r.now <= accessNow
  <2>1. r.now \in 0 .. MaxAccessTime
    BY <1>1 DEF Access!Request
  <2> QED BY <2>1, <1>1, <1>6, AccessConstants DEF Access!Attempt, AccessInv, LocksSound
<1>9. /\ old.failed = accessMissed[r.address]
      /\ old.until = 0 => old.failed < MaxAttempts /\ accessLockEnd[r.address] <= accessNow
      /\ old.until # 0 => old.failed = MaxAttempts /\ accessLockEnd[r.address] = old.until
  BY <1>6, <1>7 DEF AccessInv, LocksSound
<1>10. accessLockEnd[r.address] <= accessNow
  BY <1>1, <1>5, <1>7, <1>8, <1>9
<1>11. accessEarly' = FALSE
  <2>1. ~(accessNow < accessLockEnd[r.address])
    BY <1>1, <1>8, <1>10
  <2>2. accessEarly = FALSE
    BY DEF AccessInv, LocksSound
  <2> QED BY <1>5, <2>1, <2>2, Zenon
<1>12. failed = (IF old.until = 0 THEN old.failed ELSE 0) + 1
  BY <1>2, <1>7 DEF Access!Standing, Access!Fresh
<1>13. accessMissed[r.address] % MaxAttempts =
          IF accessMissed[r.address] = MaxAttempts THEN 0 ELSE accessMissed[r.address]
  <2>1. accessMissed[r.address] \in Nat /\ accessMissed[r.address] <= MaxAttempts
    BY <1>1, <1>6, AccessConstants
  <2> QED BY <2>1, AccessConstants, NextMiss
<1>14. failed = count /\ failed \in 1 .. MaxAttempts
  BY <1>3, <1>8, <1>9, <1>12, <1>13, AccessConstants
<1>15. /\ until \in 0 .. MaxAccessTime + LockDuration
       /\ until = 0 => failed < MaxAttempts
       /\ until # 0 => failed = MaxAttempts /\ until = r.now + LockDuration
       /\ failed = MaxAttempts => until # 0
  BY <1>4, <1>8, <1>14, AccessConstants
<1>16. PICK attempt : attempt = [failed |-> failed, until |-> until]
  OBVIOUS
<1>17. attempt \in Access!Attempt /\ attempt.failed = failed /\ attempt.until = until
  <2>1. failed \in 0 .. MaxAttempts
    BY <1>14, AccessConstants
  <2> QED BY <2>1, <1>15, <1>16 DEF Access!Attempt
<1>18. accessAttempts' \in [Guests -> Access!Attempt]
  BY <1>1, <1>5, <1>16, <1>17
<1>19. accessMissed' \in [Guests -> 0 .. MaxAttempts]
  <2>1. count \in 0 .. MaxAttempts
    BY <1>14, AccessConstants
  <2> QED BY <1>1, <1>5, <2>1
<1>20. accessLockEnd' \in [Guests -> 0 .. MaxAccessTime + LockDuration]
  <2>1. r.now + LockDuration \in 0 .. MaxAccessTime + LockDuration
    BY <1>8, AccessConstants
  <2>2. CASE count = MaxAttempts
    BY <1>1, <1>5, <2>1, <2>2
  <2>3. CASE count # MaxAttempts
    BY <1>1, <1>5, <2>3
  <2> QED BY <2>2, <2>3
<1>21. AccessTyped'
  BY <1>1, <1>5, <1>11, <1>18, <1>19, <1>20, AccessReturns DEF AccessInv, AccessTyped, Access!TypeOK
<1>22. SnapshotsSound'
  BY <1>5, AccessReturns
<1>23. CookiesSound'
  BY <1>5 DEF AccessInv, CookiesSound, Access!CookieNamesItsCode
<1>24. LocksSound'
  <2> SUFFICES ASSUME NEW a \in Guests
               PROVE  /\ accessAttempts'[a].failed = accessMissed'[a]
                      /\ accessAttempts'[a].until = 0 =>
                            accessAttempts'[a].failed < MaxAttempts /\ accessLockEnd'[a] <= accessNow
                      /\ accessAttempts'[a].until # 0 =>
                            accessAttempts'[a].failed = MaxAttempts /\ accessLockEnd'[a] = accessAttempts'[a].until
    BY <1>5, <1>11, AccessReturns DEF LocksSound
  <2>1. CASE a = r.address
    <3>1. accessAttempts'[a].failed = failed /\ accessAttempts'[a].until = until /\ accessMissed'[a] = count
      BY <2>1, <1>1, <1>5, <1>16, <1>17
    <3>2. accessLockEnd'[a] = IF count = MaxAttempts THEN r.now + LockDuration ELSE accessLockEnd[a]
      BY <2>1, <1>1, <1>5
    <3> QED BY <2>1, <3>1, <3>2, <1>10, <1>14, <1>15
  <2>2. CASE a # r.address
    <3>1. /\ accessAttempts'[a] = accessAttempts[a] /\ accessMissed'[a] = accessMissed[a]
          /\ accessLockEnd'[a] = accessLockEnd[a]
      BY <2>2, <1>1, <1>5
    <3> QED BY <3>1 DEF AccessInv, LocksSound
  <2> QED BY <2>1, <2>2
<1> QED BY <1>21, <1>22, <1>23, <1>24 DEF AccessInv

\* What a saving leaves: the settings as they are, a version that is new, or
\* one an input brought back.
LEMMA AccessSave ==
    ASSUME AccessInv, NEW enabled \in BOOLEAN, NEW code \in Codes, NEW version \in 0 .. accessNamed + 1,
           Access!SaveSettings(enabled, code, version)
    PROVE  AccessInv'
<1>1. PICK next : next = Access!NextVersion(enabled, code, version)
  OBVIOUS
<1>2. PICK new : new = accessSettings'
  OBVIOUS
<1>3. PICK old \in Access!Settings : old = accessSettings
  BY DEF AccessInv, AccessTyped, Access!TypeOK
<1>4. /\ UNCHANGED <<accessNow, accessAttempts, accessRequests, accessCookies, accessMissed, accessLockEnd, accessEarly>>
      /\ next <= MaxChanges + 1
      /\ new = [enabled |-> enabled, code |-> code, version |-> next]
      /\ accessNamed' = IF next > accessNamed THEN next ELSE accessNamed
      /\ accessReturned' = IF next \in (1 .. accessNamed) \ {old.version}
                           THEN accessReturned \cup {next} ELSE accessReturned
  BY <1>1, <1>2, <1>3 DEF Access!SaveSettings, Access!Returns, Access!ghosts
<1>5. /\ accessNamed \in 1 .. MaxChanges + 1 /\ accessNamed \in Nat
      /\ accessReturned \subseteq 1 .. MaxChanges + 1
      /\ old.version \in Nat /\ 1 <= old.version /\ old.version <= accessNamed
  BY <1>3, AccessConstants DEF AccessInv, AccessTyped, Access!TypeOK, CookiesSound, Access!Settings
<1>6. /\ next \in 1 .. accessNamed + 1
      /\ next = old.version => enabled = old.enabled /\ code = old.code
  <2>1. CASE Access!Changed(enabled, code)
    BY <2>1, <1>1, <1>5 DEF Access!NextVersion
  <2>2. CASE ~Access!Changed(enabled, code)
    BY <2>2, <1>1, <1>3, <1>5 DEF Access!NextVersion, Access!Changed
  <2> QED BY <2>1, <2>2
<1>7. next \in Nat /\ next \in 1 .. MaxChanges + 1
  BY <1>4, <1>5, <1>6, AccessConstants
<1>8. new \in Access!Settings /\ new.enabled = enabled /\ new.code = code /\ new.version = next
  BY <1>4, <1>7 DEF Access!Settings
<1>9. /\ accessNamed' \in 1 .. MaxChanges + 1 /\ accessNamed' \in Nat
      /\ accessNamed <= accessNamed' /\ next <= accessNamed'
  BY <1>4, <1>5, <1>7
<1>10. accessReturned' \subseteq 1 .. MaxChanges + 1 /\ accessReturned \subseteq accessReturned'
  BY <1>4, <1>5, <1>7
\* A version in force that has not come back was in force before, with the
\* same switch and code, or nobody has seen it.
<1>11. \/ next \in accessReturned'
       \/ next = old.version /\ new = old
       \/ next = accessNamed + 1
  <2>1. CASE next = old.version
    BY <2>1, <1>3, <1>4, <1>6 DEF Access!Settings
  <2>2. CASE next # old.version /\ next # accessNamed + 1
    <3>1. next \in (1 .. accessNamed) \ {old.version}
      BY <2>2, <1>5, <1>6
    <3> QED BY <3>1, <1>4
  <2> QED BY <2>1, <2>2
<1>12. AccessTyped'
  BY <1>2, <1>4, <1>8, <1>9, <1>10 DEF AccessInv, AccessTyped, Access!TypeOK
<1>13. SnapshotsSound'
  <2> SUFFICES ASSUME NEW s \in Slots, accessRequests[s].at = "count"
               PROVE  /\ accessRequests[s].settings.enabled
                      /\ accessRequests[s].settings.version <= accessNamed'
                      /\ accessRequests[s].settings.version = new.version =>
                            new.version \in accessReturned' \/ accessRequests[s].settings = new
    BY <1>2, <1>4 DEF SnapshotsSound
  <2>1. /\ accessRequests[s].settings.enabled
        /\ accessRequests[s].settings.version <= accessNamed
        /\ accessRequests[s].settings.version = old.version =>
              old.version \in accessReturned \/ accessRequests[s].settings = old
    BY <1>3 DEF AccessInv, SnapshotsSound
  <2>2. accessRequests[s].settings.version \in Nat
    <3>1. accessRequests[s] \in Access!Request
      BY DEF AccessInv, AccessTyped, Access!TypeOK
    <3>2. accessRequests[s].settings \in Access!Settings
      BY <3>1 DEF Access!Request
    <3> QED BY <3>2, AccessConstants DEF Access!Settings
  <2>3. accessRequests[s].settings.version <= accessNamed'
    BY <2>1, <2>2, <1>5, <1>9
  <2>4. accessRequests[s].settings.version = next =>
           next \in accessReturned' \/ accessRequests[s].settings = new
    BY <2>1, <2>2, <1>5, <1>10, <1>11
  <2> QED BY <2>1, <2>3, <2>4, <1>8
<1>14. CookiesSound'
  <2>1. new.version <= accessNamed'
    BY <1>8, <1>9
  <2> SUFFICES ASSUME NEW k \in accessCookies
               PROVE  /\ k.version <= accessNamed'
                      /\ new.enabled /\ k.version = new.version /\ k.version \notin accessReturned' =>
                            k.code = new.code
    BY <2>1, <1>2, <1>4 DEF CookiesSound, Access!CookieNamesItsCode
  <2>2. /\ k.version <= accessNamed
        /\ old.enabled /\ k.version = old.version /\ k.version \notin accessReturned => k.code = old.code
    BY <1>3 DEF AccessInv, CookiesSound, Access!CookieNamesItsCode
  <2>3. k.version \in Nat
    BY AccessConstants DEF AccessInv, AccessTyped, Access!TypeOK
  <2>4. k.version <= accessNamed'
    BY <2>2, <2>3, <1>5, <1>9
  <2>5. new.enabled /\ k.version = next /\ k.version \notin accessReturned' => k.code = new.code
    BY <2>2, <2>3, <1>5, <1>10, <1>11
  <2> QED BY <2>4, <2>5, <1>8
<1>15. LocksSound'
  BY <1>4 DEF AccessInv, LocksSound
<1> QED BY <1>12, <1>13, <1>14, <1>15 DEF AccessInv

LEMMA AccessTick ==
    ASSUME AccessInv, Access!Tick
    PROVE  AccessInv'
<1>1. /\ UNCHANGED <<accessSettings, accessAttempts, accessRequests, accessCookies, accessMissed, accessLockEnd, accessEarly,
                      accessNamed, accessReturned>>
      /\ accessNow < MaxAccessTime /\ accessNow' = accessNow + 1
  BY DEF Access!Tick, Access!ghosts, Access!versions
<1>2. accessNow \in Nat /\ 1 <= accessNow
  BY AccessConstants DEF AccessInv, AccessTyped, Access!TypeOK
<1>3. accessNow' \in 1 .. MaxAccessTime
  BY <1>1, <1>2, AccessConstants
<1>4. AccessTyped'
  BY <1>1, <1>3 DEF AccessInv, AccessTyped, Access!TypeOK
<1>5. SnapshotsSound' /\ CookiesSound'
  BY <1>1 DEF AccessInv, SnapshotsSound, CookiesSound, Access!CookieNamesItsCode
<1>6. \A s \in Slots : accessRequests[s].now \in Nat
  BY AccessConstants DEF AccessInv, AccessTyped, Access!TypeOK, Access!Request
<1>7. \A a \in Guests : accessLockEnd[a] \in Nat
  BY AccessConstants DEF AccessInv, AccessTyped, Access!TypeOK
<1>8. LocksSound'
  BY <1>1, <1>2, <1>6, <1>7 DEF AccessInv, LocksSound
<1> QED BY <1>4, <1>5, <1>8 DEF AccessInv

LEMMA AccessNext ==
    ASSUME AccessInv, [Access!Next]_(Access!vars)
    PROVE  AccessInv'
<1>1. CASE UNCHANGED Access!vars
  BY <1>1 DEF Access!vars, Access!ghosts, Access!versions, AccessInv, AccessTyped, Access!TypeOK, SnapshotsSound,
       CookiesSound, Access!CookieNamesItsCode, LocksSound
<1>2. CASE Access!Next
  BY <1>2, AccessArrive, AccessRead, AccessRefuseLocked, AccessAccept, AccessMiss, AccessSave,
     AccessTick DEF Access!Next
<1> QED BY <1>1, <1>2

\* A cookie in force names the code in force, and a lock holds for its time.
LEMMA AccessInvImplies == AccessInv => Access!AccessConsistent
BY DEF AccessInv, AccessTyped, CookiesSound, LocksSound, Access!AccessConsistent, Access!LocksHold

-----------------------------------------------------------------------------
(* WeddingRsvp.                                                            *)
(*                                                                         *)
(* The inductive invariant.  Each address has a set of starts, the numbers *)
(* of the hits that opened a bucket: starts are a window apart, no Limit   *)
(* hits go by without one, and the last of them tells the bucket in the    *)
(* table or is over.  Between a hit and the one 2 * Limit later there are  *)
(* then two starts.                                                        *)

Ascending(times) == \A i, j \in DOMAIN times : i <= j => times[i] <= times[j]

StartsFit(times, starts) ==
    /\ starts \subseteq DOMAIN times
    /\ \A i, j \in starts : i < j => times[i] + Window <= times[j]
    /\ \A i \in DOMAIN times : i + Limit <= Len(times) => \E j \in starts : i < j /\ j <= i + Limit

BucketOpen(a) == a \in DOMAIN rsvpHits /\ rsvpNow < rsvpHits[a].resetAt

\* The last start, if there is one, is that of the bucket.
LastStart(a, times, starts) ==
    IF starts = {} THEN times = <<>> /\ a \notin DOMAIN rsvpHits
    ELSE \E l \in starts :
            /\ \A i \in starts : i <= l
            /\ IF BucketOpen(a)
               THEN /\ rsvpHits[a].resetAt = times[l] + Window
                    /\ rsvpHits[a].count = Len(times) - l + 1
               ELSE times[l] + Window <= rsvpNow

Bounded(a) ==
    /\ Ascending(rsvpAllowed[a])
    /\ \A i \in DOMAIN rsvpAllowed[a] : rsvpAllowed[a][i] <= rsvpNow
    /\ \E starts \in SUBSET DOMAIN rsvpAllowed[a] :
        StartsFit(rsvpAllowed[a], starts) /\ LastStart(a, rsvpAllowed[a], starts)

RsvpInv ==
    /\ Rsvp!TypeOK
    /\ IsFiniteSet(DOMAIN rsvpHits) /\ Cardinality(DOMAIN rsvpHits) <= MaxEntries
    /\ \A a \in Addresses : Bounded(a)
    /\ Rsvp!AnswersAreKept

LEMMA RsvpConstants ==
    /\ Limit \in Nat /\ 0 < Limit /\ Window \in Nat /\ 0 < Window
    /\ MaxEntries \in Nat /\ 0 < MaxEntries
    /\ MaxRsvpTime \in Nat /\ 0 < MaxRsvpTime /\ MaxRsvps \in Nat /\ MaxRsvpCrashes \in Nat
<1>1. Limit \in Nat /\ 0 < Limit /\ Window \in Nat /\ 0 < Window
  BY Constants DEF Rsvp!RsvpAssumption
<1>2. MaxEntries \in Nat /\ 0 < MaxEntries
  BY Constants DEF Rsvp!RsvpAssumption
<1>3. MaxRsvpTime \in Nat /\ 0 < MaxRsvpTime /\ MaxRsvps \in Nat /\ MaxRsvpCrashes \in Nat
  BY Constants DEF Rsvp!RsvpAssumption
<1> QED BY <1>1, <1>2, <1>3

\* Two starts between a hit and the one 2 * Limit later.
LEMMA StartsSpread ==
    ASSUME NEW times \in Seq(Nat), Ascending(times), NEW starts, StartsFit(times, starts),
           NEW first \in DOMAIN times, NEW last \in DOMAIN times, last = first + 2 * Limit
    PROVE  times[last] >= times[first] + Window
<1>1. DOMAIN times = 1 .. Len(times) /\ Len(times) \in Nat
  OBVIOUS
<1>2. first \in Nat /\ 1 <= first /\ first + Limit + Limit <= Len(times) /\ first + Limit <= Len(times)
      /\ first + Limit \in DOMAIN times /\ last = first + Limit + Limit
  BY <1>1, RsvpConstants
<1>3. PICK i \in starts : first < i /\ i <= first + Limit
  BY <1>2 DEF StartsFit
<1>4. PICK j \in starts : first + Limit < j /\ j <= first + Limit + Limit
  BY <1>2 DEF StartsFit
<1>5. i \in DOMAIN times /\ j \in DOMAIN times
  BY DEF StartsFit
<1>6. times[first] <= times[i] /\ times[j] <= times[last]
  BY <1>1, <1>2, <1>3, <1>4, <1>5 DEF Ascending
<1>7. times[i] + Window <= times[j]
  <2>1. i < j
    BY <1>1, <1>2, <1>3, <1>4, <1>5, RsvpConstants
  <2> QED BY <2>1 DEF StartsFit
<1>8. times[first] \in Nat /\ times[i] \in Nat /\ times[j] \in Nat /\ times[last] \in Nat
  <2>1. \A k \in DOMAIN times : times[k] \in Nat
    OBVIOUS
  <2>2. first \in DOMAIN times /\ last \in DOMAIN times
    OBVIOUS
  <2> QED BY <2>1, <2>2, <1>5
<1>9. Window \in Nat
  BY RsvpConstants
<1>10. \A p, q, r, z \in Nat : p <= q /\ q + Window <= r /\ r <= z => z >= p + Window
  BY <1>9
<1> QED BY ONLY <1>6, <1>7, <1>8, <1>10

\* A hit at the end, later than all before.
LEMMA AppendAscends ==
    ASSUME NEW times \in Seq(Nat), Ascending(times), NEW t \in Nat,
           \A i \in DOMAIN times : times[i] <= t
    PROVE  /\ Append(times, t) \in Seq(Nat) /\ Len(Append(times, t)) = Len(times) + 1
           /\ DOMAIN Append(times, t) = 1 .. Len(times) + 1
           /\ \A i \in DOMAIN times : Append(times, t)[i] = times[i]
           /\ Append(times, t)[Len(times) + 1] = t
           /\ Ascending(Append(times, t))
           /\ \A i \in DOMAIN Append(times, t) : Append(times, t)[i] <= t
<1>1. PICK more : more = Append(times, t)
  OBVIOUS
<1>2. /\ more \in Seq(Nat) /\ Len(more) = Len(times) + 1 /\ DOMAIN more = 1 .. Len(times) + 1
      /\ \A i \in DOMAIN times : more[i] = times[i]
      /\ more[Len(times) + 1] = t
      /\ DOMAIN times = 1 .. Len(times) /\ Len(times) \in Nat
  BY <1>1
<1>3. \A i \in DOMAIN more : i \in DOMAIN times \/ i = Len(times) + 1
  BY <1>2
<1>4. \A i \in DOMAIN more : more[i] <= t
  BY <1>2, <1>3
<1>5. Ascending(more)
  <2> SUFFICES ASSUME NEW i \in DOMAIN more, NEW j \in DOMAIN more, i <= j
               PROVE  more[i] <= more[j]
    BY DEF Ascending
  <2>1. CASE j = Len(times) + 1
    BY <2>1, <1>2, <1>4
  <2>2. CASE j \in DOMAIN times
    <3>1. i \in DOMAIN times
      BY <2>2, <1>2
    <3> QED BY <2>2, <3>1, <1>2 DEF Ascending
  <2> QED BY <2>1, <2>2, <1>3
<1> QED BY <1>1, <1>2, <1>4, <1>5

LEMMA HitWithin ==
    ASSUME NEW times \in Seq(Nat), NEW starts, StartsFit(times, starts), NEW t \in Nat,
           NEW l \in starts, Len(times) - l + 1 < Limit
    PROVE  StartsFit(Append(times, t), starts)
<1>1. PICK more : more = Append(times, t)
  OBVIOUS
<1>2. /\ Len(more) = Len(times) + 1 /\ DOMAIN more = 1 .. Len(times) + 1
      /\ \A i \in DOMAIN times : more[i] = times[i]
      /\ DOMAIN times = 1 .. Len(times) /\ Len(times) \in Nat
  BY <1>1
<1>3. starts \subseteq DOMAIN times /\ starts \subseteq DOMAIN more
  BY <1>2 DEF StartsFit
<1>4. \A i, j \in starts : i < j => more[i] + Window <= more[j]
  BY <1>2, <1>3 DEF StartsFit
<1>5. ASSUME NEW i \in DOMAIN more, i + Limit <= Len(more)
      PROVE  \E j \in starts : i < j /\ j <= i + Limit
  <2>1. CASE i + Limit <= Len(times)
    <3>1. i \in DOMAIN times
      BY <2>1, <1>2, RsvpConstants
    <3> QED BY <2>1, <3>1 DEF StartsFit
  <2>2. CASE i + Limit = Len(times) + 1
    <3>1. i < l /\ l <= i + Limit
      BY <2>2, <1>2, <1>3, RsvpConstants
    <3> QED BY <3>1
  <2> QED BY <1>2, <1>5, <2>1, <2>2, RsvpConstants
<1>6. StartsFit(more, starts)
  BY <1>3, <1>4, <1>5 DEF StartsFit
<1> QED BY <1>1, <1>6

LEMMA HitStarts ==
    ASSUME NEW times \in Seq(Nat), NEW starts, StartsFit(times, starts), NEW t \in Nat,
           \A i \in starts : times[i] + Window <= t
    PROVE  StartsFit(Append(times, t), starts \cup {Len(times) + 1})
<1>1. PICK more : more = Append(times, t)
  OBVIOUS
<1>2. /\ Len(more) = Len(times) + 1 /\ DOMAIN more = 1 .. Len(times) + 1
      /\ \A i \in DOMAIN times : more[i] = times[i]
      /\ more[Len(times) + 1] = t
      /\ DOMAIN times = 1 .. Len(times) /\ Len(times) \in Nat
  BY <1>1
<1>3. PICK all : all = starts \cup {Len(times) + 1}
  OBVIOUS
<1>4. starts \subseteq DOMAIN times /\ all \subseteq DOMAIN more
  BY <1>2, <1>3 DEF StartsFit
<1>5. ASSUME NEW i \in all, NEW j \in all, i < j
      PROVE  more[i] + Window <= more[j]
  <2>1. i \in starts
    BY <1>2, <1>3, <1>4, <1>5
  <2>2. CASE j \in starts
    BY <2>1, <2>2, <1>2, <1>4, <1>5 DEF StartsFit
  <2>3. CASE j = Len(times) + 1
    BY <2>1, <2>3, <1>2, <1>4
  <2> QED BY <2>2, <2>3, <1>3
<1>6. ASSUME NEW i \in DOMAIN more, i + Limit <= Len(more)
      PROVE  \E j \in all : i < j /\ j <= i + Limit
  <2>1. CASE i + Limit <= Len(times)
    <3>1. i \in DOMAIN times
      BY <2>1, <1>2, RsvpConstants
    <3> QED BY <2>1, <3>1, <1>3 DEF StartsFit
  <2>2. CASE i + Limit = Len(times) + 1
    <3>1. i < Len(times) + 1 /\ Len(times) + 1 <= i + Limit
      BY <2>2, <1>2, RsvpConstants
    <3> QED BY <3>1, <1>3
  <2> QED BY <1>2, <1>6, <2>1, <2>2, RsvpConstants
<1>7. StartsFit(more, all)
  BY <1>4, <1>5, <1>6 DEF StartsFit
<1> QED BY <1>1, <1>3, <1>7

-----------------------------------------------------------------------------
(* The table of the limiter.                                               *)

LEMMA RsvpTable ==
    ASSUME Rsvp!TypeOK
    PROVE  /\ DOMAIN rsvpHits \subseteq Addresses
           /\ \A a \in DOMAIN rsvpHits : rsvpHits[a] \in Rsvp!Bucket
           /\ DOMAIN Rsvp!Reaped \subseteq DOMAIN rsvpHits
           /\ \A a \in DOMAIN Rsvp!Reaped : Rsvp!Reaped[a] = rsvpHits[a]
           /\ \A a \in DOMAIN rsvpHits : BucketOpen(a) => a \in DOMAIN Rsvp!Reaped
<1>1. DOMAIN rsvpHits \subseteq Addresses /\ \A a \in DOMAIN rsvpHits : rsvpHits[a] \in Rsvp!Bucket
  BY DEF Rsvp!TypeOK
<1>2. CASE Rsvp!Due
  BY <1>1, <1>2 DEF Rsvp!Reaped, Rsvp!Live, BucketOpen
<1>3. CASE ~Rsvp!Due
  BY <1>1, <1>3 DEF Rsvp!Reaped
<1> QED BY <1>2, <1>3

\* A table with some closed buckets gone.
LEMMA DenyKeepsStarts ==
    ASSUME NEW a, NEW times, NEW starts, LastStart(a, times, starts),
           UNCHANGED rsvpNow,
           DOMAIN rsvpHits' \subseteq DOMAIN rsvpHits,
           a \in DOMAIN rsvpHits' => rsvpHits'[a] = rsvpHits[a],
           BucketOpen(a) => a \in DOMAIN rsvpHits'
    PROVE  LastStart(a, times, starts)'
BY DEF LastStart, BucketOpen

\* A hit that is let through: the table, and the starts of its address.
LEMMA AllowEffect ==
    ASSUME RsvpInv, NEW a \in Addresses, Rsvp!Allow(a)
    PROVE  /\ DOMAIN rsvpHits' \subseteq Addresses
           /\ \A b \in DOMAIN rsvpHits' : rsvpHits'[b] \in Rsvp!Bucket
           /\ IsFiniteSet(DOMAIN rsvpHits') /\ Cardinality(DOMAIN rsvpHits') <= MaxEntries
           /\ a \in DOMAIN rsvpHits'
           /\ \A b \in DOMAIN rsvpHits' : b # a => b \in DOMAIN rsvpHits /\ rsvpHits'[b] = rsvpHits[b]
           /\ \A b \in DOMAIN rsvpHits : b # a /\ BucketOpen(b) => b \in DOMAIN rsvpHits'
           /\ IF BucketOpen(a)
              THEN /\ rsvpHits[a].count < Limit
                   /\ rsvpHits'[a].resetAt = rsvpHits[a].resetAt
                   /\ rsvpHits'[a].count = rsvpHits[a].count + 1
              ELSE /\ rsvpHits'[a].resetAt = rsvpNow + Window
                   /\ rsvpHits'[a].count = 1
<1> USE DEF RsvpInv
<1>1. /\ DOMAIN rsvpHits \subseteq Addresses /\ \A b \in DOMAIN rsvpHits : rsvpHits[b] \in Rsvp!Bucket
      /\ rsvpNow \in 1 .. MaxRsvpTime
  BY RsvpTable DEF Rsvp!TypeOK
<1>2. PICK table : table = Rsvp!Reaped
  OBVIOUS
<1>3. /\ DOMAIN table \subseteq DOMAIN rsvpHits
      /\ \A b \in DOMAIN table : table[b] = rsvpHits[b]
      /\ \A b \in DOMAIN rsvpHits : BucketOpen(b) => b \in DOMAIN table
  BY <1>2, RsvpTable
<1>4. IsFiniteSet(DOMAIN table) /\ Cardinality(DOMAIN table) <= MaxEntries
      /\ Cardinality(DOMAIN table) \in Nat
  <2>1. IsFiniteSet(DOMAIN table) /\ Cardinality(DOMAIN table) <= Cardinality(DOMAIN rsvpHits)
    BY <1>3, FS_Subset
  <2>2. Cardinality(DOMAIN table) \in Nat /\ Cardinality(DOMAIN rsvpHits) \in Nat
    BY <2>1, FS_CardinalityType
  <2> QED BY <2>1, <2>2, RsvpConstants
<1>5. /\ Rsvp!MayPass(table, a) /\ rsvpHits' = Rsvp!Hit(table, a)
  BY <1>2 DEF Rsvp!Allow
<1>6. Rsvp!Within(table, a) <=> BucketOpen(a)
  BY <1>3 DEF Rsvp!Within, BucketOpen
<1>7. CASE BucketOpen(a)
  <2>1. a \in DOMAIN table /\ table[a] = rsvpHits[a]
    BY <1>3, <1>7 DEF BucketOpen
  <2>2. PICK old \in Rsvp!Bucket : old = table[a]
    BY <1>1, <1>3, <2>1
  <2>3. old.count < Limit
    BY <1>5, <1>6, <1>7, <2>2 DEF Rsvp!MayPass
  <2>4. PICK new : new = [old EXCEPT !.count = @ + 1]
    OBVIOUS
  <2>5. /\ new \in Rsvp!Bucket /\ new.count = old.count + 1 /\ new.resetAt = old.resetAt
    BY <2>2, <2>3, <2>4, RsvpConstants DEF Rsvp!Bucket
  <2>6. rsvpHits' = [table EXCEPT ![a] = new]
    BY <1>5, <1>6, <1>7, <2>2, <2>4 DEF Rsvp!Hit
  <2>7. DOMAIN rsvpHits' = DOMAIN table /\ rsvpHits'[a] = new
        /\ \A b \in DOMAIN table : b # a => rsvpHits'[b] = table[b]
    BY <2>1, <2>6
  <2> QED BY <1>1, <1>3, <1>4, <1>7, <2>1, <2>2, <2>3, <2>5, <2>7
<1>8. CASE ~BucketOpen(a)
  <2>1. PICK new : new = [count |-> 1, resetAt |-> rsvpNow + Window]
    OBVIOUS
  <2>2. new \in Rsvp!Bucket /\ new.count = 1 /\ new.resetAt = rsvpNow + Window
    <3>1. 1 \in 1 .. Limit /\ rsvpNow + Window \in 1 .. MaxRsvpTime + Window
      BY <1>1, RsvpConstants
    <3> QED BY <2>1, <3>1 DEF Rsvp!Bucket
  <2>3. rsvpHits' = [b \in DOMAIN table \cup {a} |-> IF b = a THEN new ELSE table[b]]
    BY <1>5, <1>6, <1>8, <2>1 DEF Rsvp!Hit
  <2>4. DOMAIN rsvpHits' = DOMAIN table \cup {a} /\ rsvpHits'[a] = new
        /\ \A b \in DOMAIN table : b # a => rsvpHits'[b] = table[b]
    BY <2>3
  <2>5. ~Rsvp!Full(table, a)
    BY <1>5, <1>6, <1>8 DEF Rsvp!MayPass
  <2>6. IsFiniteSet(DOMAIN rsvpHits') /\ Cardinality(DOMAIN rsvpHits') <= MaxEntries
    <3>1. CASE a \in DOMAIN table
      <4>1. DOMAIN rsvpHits' = DOMAIN table
        BY <3>1, <2>4
      <4> QED BY <4>1, <1>4
    <3>2. CASE a \notin DOMAIN table
      <4>1. Cardinality(DOMAIN table) < MaxEntries
        <5>1. Rsvp!Cardinality(DOMAIN table) = Cardinality(DOMAIN table)
          BY DEF Rsvp!Cardinality, Cardinality
        <5> QED BY <5>1, <2>5, <3>2, <1>4, RsvpConstants DEF Rsvp!Full
      <4>2. IsFiniteSet(DOMAIN rsvpHits') /\ Cardinality(DOMAIN rsvpHits') = Cardinality(DOMAIN table) + 1
        BY <2>4, <3>2, <1>4, FS_AddElement
      <4> QED BY <4>1, <4>2, <1>4, RsvpConstants
    <3> QED BY <3>1, <3>2
  <2> QED BY <1>1, <1>3, <1>8, <2>2, <2>4, <2>6
<1> QED BY <1>7, <1>8

\* An address whose hits and clock are left alone keeps its starts.
LEMMA OthersStayBounded ==
    ASSUME NEW a, Bounded(a), UNCHANGED rsvpNow, rsvpAllowed'[a] = rsvpAllowed[a],
           a \in DOMAIN rsvpHits' => a \in DOMAIN rsvpHits /\ rsvpHits'[a] = rsvpHits[a],
           BucketOpen(a) => a \in DOMAIN rsvpHits'
    PROVE  Bounded(a)'
<1>1. PICK starts \in SUBSET DOMAIN rsvpAllowed[a] :
        StartsFit(rsvpAllowed[a], starts) /\ LastStart(a, rsvpAllowed[a], starts)
  BY DEF Bounded
<1>2. LastStart(a, rsvpAllowed[a], starts)'
  BY <1>1 DEF LastStart, BucketOpen
<1>3. StartsFit(rsvpAllowed[a], starts)'
  BY <1>1 DEF StartsFit
<1>4. /\ Ascending(rsvpAllowed[a])'
      /\ \A i \in DOMAIN rsvpAllowed'[a] : rsvpAllowed'[a][i] <= rsvpNow'
  BY DEF Bounded, Ascending
<1> QED BY <1>1, <1>2, <1>3, <1>4 DEF Bounded

LEMMA HitStaysBounded ==
    ASSUME RsvpInv, NEW a \in Addresses, Rsvp!Allow(a), UNCHANGED rsvpNow
    PROVE  Bounded(a)'
<1>1. /\ rsvpNow \in Nat /\ rsvpAllowed \in [Addresses -> Seq(1 .. MaxRsvpTime)]
      /\ Bounded(a)
  BY RsvpConstants DEF RsvpInv, Rsvp!TypeOK
<1>2. PICK times : times = rsvpAllowed[a]
  OBVIOUS
<1>3. times \in Seq(Nat)
  <2>1. times \in Seq(1 .. MaxRsvpTime)
    BY <1>1, <1>2
  <2> QED BY <2>1, RsvpConstants
<1>4. /\ Ascending(times) /\ \A i \in DOMAIN times : times[i] <= rsvpNow
  BY <1>1, <1>2 DEF Bounded
<1>5. PICK starts \in SUBSET DOMAIN times : StartsFit(times, starts) /\ LastStart(a, times, starts)
  BY <1>1, <1>2 DEF Bounded
<1>6. PICK more : more = Append(times, rsvpNow)
  OBVIOUS
<1>7. /\ more \in Seq(Nat) /\ Len(more) = Len(times) + 1
      /\ DOMAIN more = 1 .. Len(times) + 1
      /\ \A i \in DOMAIN times : more[i] = times[i]
      /\ more[Len(times) + 1] = rsvpNow
      /\ Ascending(more)
      /\ \A i \in DOMAIN more : more[i] <= rsvpNow
  BY <1>1, <1>3, <1>4, <1>6, AppendAscends
<1>8. rsvpAllowed'[a] = more
  BY <1>1, <1>2, <1>6 DEF Rsvp!Allow
<1>9. DOMAIN times = 1 .. Len(times) /\ Len(times) \in Nat
  BY <1>3
<1>10. /\ a \in DOMAIN rsvpHits'
       /\ IF BucketOpen(a)
          THEN /\ rsvpHits[a].count < Limit
               /\ rsvpHits'[a].resetAt = rsvpHits[a].resetAt
               /\ rsvpHits'[a].count = rsvpHits[a].count + 1
          ELSE /\ rsvpHits'[a].resetAt = rsvpNow + Window
               /\ rsvpHits'[a].count = 1
  BY AllowEffect
<1>11. \E s \in SUBSET DOMAIN more : StartsFit(more, s) /\ LastStart(a, more, s)'
  <2>1. CASE BucketOpen(a)
    <3>1. starts # {}
      BY <2>1, <1>5 DEF LastStart, BucketOpen
    <3>2. PICK l \in starts :
            /\ \A i \in starts : i <= l
            /\ rsvpHits[a].resetAt = times[l] + Window
            /\ rsvpHits[a].count = Len(times) - l + 1
      BY <2>1, <3>1, <1>5 DEF LastStart
    <3>3. l \in DOMAIN times /\ more[l] = times[l] /\ l \in Nat
      BY <1>5, <1>7, <1>9
    <3>4. StartsFit(more, starts)
      BY <1>1, <1>3, <1>5, <1>6, <1>10, <2>1, <3>2, HitWithin
    <3>5. BucketOpen(a)'
      BY <1>10, <2>1 DEF BucketOpen
    <3>6. /\ rsvpHits'[a].resetAt = more[l] + Window
          /\ rsvpHits'[a].count = Len(more) - l + 1
      BY <1>7, <1>9, <1>10, <2>1, <3>2, <3>3
    <3>7. LastStart(a, more, starts)'
      BY <3>1, <3>2, <3>5, <3>6 DEF LastStart
    <3>8. starts \in SUBSET DOMAIN more
      BY <1>7, <1>9
    <3> QED BY <3>4, <3>7, <3>8
  <2>2. CASE ~BucketOpen(a)
    <3> DEFINE new == Len(times) + 1
    <3>1. \A i \in starts : times[i] + Window <= rsvpNow
      <4>1. CASE starts = {}
        BY <4>1
      <4>2. CASE starts # {}
        <5>1. PICK l \in starts : (\A i \in starts : i <= l) /\ times[l] + Window <= rsvpNow
          BY <2>2, <4>2, <1>5 DEF LastStart
        <5> SUFFICES ASSUME NEW i \in starts PROVE times[i] + Window <= rsvpNow
          OBVIOUS
        <5>2. i <= l /\ i \in DOMAIN times /\ l \in DOMAIN times
          BY <5>1
        <5>3. times[i] <= times[l]
          BY <5>2, <1>4 DEF Ascending
        <5>4. times[i] \in Nat /\ times[l] \in Nat
          <6>1. \A k \in DOMAIN times : times[k] \in Nat
            BY <1>3
          <6> QED BY <5>2, <6>1
        <5>5. Window \in Nat
          BY RsvpConstants
        <5>6. \A p, q \in Nat : p <= q /\ q + Window <= rsvpNow => p + Window <= rsvpNow
          BY <5>5, <1>1
        <5> QED BY ONLY <5>1, <5>3, <5>4, <5>6
      <4> QED BY <4>1, <4>2
    <3>2. PICK all : all = starts \cup {new}
      OBVIOUS
    <3>3. StartsFit(more, all)
      BY <1>1, <1>3, <1>5, <1>6, <3>1, <3>2, HitStarts
    <3>4. BucketOpen(a)'
      BY <1>1, <1>10, <2>2, RsvpConstants DEF BucketOpen
    <3>5. /\ rsvpHits'[a].resetAt = more[new] + Window
          /\ rsvpHits'[a].count = Len(more) - new + 1
      BY <1>7, <1>9, <1>10, <2>2
    <3>6. new \in all /\ \A i \in all : i <= new
      BY <1>5, <1>9, <3>2
    <3>7. LastStart(a, more, all)'
      BY <3>4, <3>5, <3>6 DEF LastStart
    <3>8. all \in SUBSET DOMAIN more
      BY <1>5, <1>7, <1>9, <3>2
    <3> QED BY <3>3, <3>7, <3>8
  <2> QED BY <2>1, <2>2
<1> QED BY <1>7, <1>8, <1>11 DEF Bounded

LEMMA RsvpAllow ==
    ASSUME RsvpInv, NEW a \in Addresses, Rsvp!Allow(a), UNCHANGED rsvpNow
    PROVE  /\ DOMAIN rsvpHits' \subseteq Addresses /\ rsvpHits' \in [DOMAIN rsvpHits' -> Rsvp!Bucket]
           /\ IsFiniteSet(DOMAIN rsvpHits') /\ Cardinality(DOMAIN rsvpHits') <= MaxEntries
           /\ rsvpLastReap' \in 0 .. MaxRsvpTime
           /\ rsvpAllowed' \in [Addresses -> Seq(1 .. MaxRsvpTime)]
           /\ \A b \in Addresses : Bounded(b)'
<1>1. /\ rsvpNow \in 1 .. MaxRsvpTime /\ rsvpLastReap \in 0 .. MaxRsvpTime
      /\ rsvpAllowed \in [Addresses -> Seq(1 .. MaxRsvpTime)]
  BY DEF RsvpInv, Rsvp!TypeOK
<1>2. rsvpLastReap' \in 0 .. MaxRsvpTime
  <2>1. rsvpNow \in 0 .. MaxRsvpTime
    BY <1>1, RsvpConstants
  <2> QED BY <1>1, <2>1 DEF Rsvp!Allow, Rsvp!Reap
<1>3. rsvpAllowed' = [rsvpAllowed EXCEPT ![a] = Append(@, rsvpNow)]
  BY DEF Rsvp!Allow
<1>4. rsvpAllowed' \in [Addresses -> Seq(1 .. MaxRsvpTime)]
  <2>1. PICK times : times = rsvpAllowed[a]
    OBVIOUS
  <2>2. times \in Seq(1 .. MaxRsvpTime)
    BY <1>1, <2>1
  <2>3. PICK more : more = Append(times, rsvpNow)
    OBVIOUS
  <2>4. more \in Seq(1 .. MaxRsvpTime)
    BY <1>1, <2>2, <2>3
  <2> QED BY <1>1, <1>3, <2>1, <2>3, <2>4
<1>5. rsvpHits' = [b \in DOMAIN rsvpHits' |-> rsvpHits'[b]]
  <2>1. PICK table : table = Rsvp!Reaped
    OBVIOUS
  <2>2. table = [b \in DOMAIN table |-> table[b]]
    BY <2>1 DEF Rsvp!Reaped, RsvpInv, Rsvp!TypeOK
  <2>3. rsvpHits' = Rsvp!Hit(table, a)
    BY <2>1 DEF Rsvp!Allow
  <2> QED BY <2>2, <2>3 DEF Rsvp!Hit
<1>6. DOMAIN rsvpHits' \subseteq Addresses /\ rsvpHits' \in [DOMAIN rsvpHits' -> Rsvp!Bucket]
      /\ IsFiniteSet(DOMAIN rsvpHits') /\ Cardinality(DOMAIN rsvpHits') <= MaxEntries
  <2>1. \A b \in DOMAIN rsvpHits' : rsvpHits'[b] \in Rsvp!Bucket
    BY AllowEffect
  <2> QED BY <1>5, <2>1, AllowEffect
<1>7. ASSUME NEW b \in Addresses PROVE Bounded(b)'
  <2>1. CASE b = a
    BY <2>1, HitStaysBounded
  <2>2. CASE b # a
    <3>1. rsvpAllowed'[b] = rsvpAllowed[b]
      BY <2>2, <1>1, <1>3
    <3>2. /\ b \in DOMAIN rsvpHits' => b \in DOMAIN rsvpHits /\ rsvpHits'[b] = rsvpHits[b]
          /\ BucketOpen(b) => b \in DOMAIN rsvpHits'
      BY <2>2, AllowEffect DEF BucketOpen
    <3>3. Bounded(b)
      BY DEF RsvpInv
    <3> QED BY <3>1, <3>2, <3>3, OthersStayBounded
  <2> QED BY <2>1, <2>2
<1> QED BY <1>2, <1>4, <1>6, <1>7

\* Nothing hit yet, and an empty table.
NothingAllowed == rsvpHits = <<>> /\ rsvpAllowed = [a \in Addresses |-> <<>>]

EmptyTable ==
    /\ DOMAIN rsvpHits \subseteq Addresses /\ rsvpHits \in [DOMAIN rsvpHits -> Rsvp!Bucket]
    /\ IsFiniteSet(DOMAIN rsvpHits) /\ Cardinality(DOMAIN rsvpHits) <= MaxEntries
    /\ rsvpAllowed \in [Addresses -> Seq(1 .. MaxRsvpTime)]
    /\ \A a \in Addresses : Bounded(a)

LEMMA RsvpEmpty == NothingAllowed => EmptyTable
<1> SUFFICES ASSUME NothingAllowed PROVE EmptyTable
  OBVIOUS
<1> USE DEF NothingAllowed
<1>1. DOMAIN rsvpHits = {}
  OBVIOUS
<1>2. DOMAIN rsvpHits \subseteq Addresses /\ rsvpHits \in [DOMAIN rsvpHits -> Rsvp!Bucket]
  <2>1. rsvpHits = [x \in DOMAIN rsvpHits |-> rsvpHits[x]]
    OBVIOUS
  <2> QED BY <1>1, <2>1
<1>3. IsFiniteSet(DOMAIN rsvpHits) /\ Cardinality(DOMAIN rsvpHits) <= MaxEntries
  BY <1>1, FS_EmptySet, RsvpConstants
<1>4. rsvpAllowed \in [Addresses -> Seq(1 .. MaxRsvpTime)]
  OBVIOUS
<1>5. ASSUME NEW a \in Addresses PROVE Bounded(a)
  <2>1. rsvpAllowed[a] = <<>> /\ DOMAIN rsvpAllowed[a] = {}
    OBVIOUS
  <2>2. StartsFit(rsvpAllowed[a], {}) /\ LastStart(a, rsvpAllowed[a], {})
    BY <1>1, <2>1 DEF StartsFit, LastStart
  <2>3. {} \in SUBSET DOMAIN rsvpAllowed[a]
    OBVIOUS
  <2> QED BY <2>1, <2>2, <2>3 DEF Bounded, Ascending
<1> QED BY <1>2, <1>3, <1>4, <1>5 DEF EmptyTable

LEMMA RsvpInit == Rsvp!Init => RsvpInv
<1> SUFFICES ASSUME Rsvp!Init PROVE RsvpInv
  OBVIOUS
<1>1. EmptyTable
  BY RsvpEmpty DEF Rsvp!Init, NothingAllowed
<1>2. /\ rsvpNow \in 1 .. MaxRsvpTime /\ rsvpLastReap \in 0 .. MaxRsvpTime
      /\ rsvpSequence \in 0 .. MaxRsvps /\ rsvpCrashes \in 0 .. MaxRsvpCrashes
  BY RsvpConstants DEF Rsvp!Init
<1>3. Rsvp!TypeOK
  BY <1>1, <1>2 DEF EmptyTable, Rsvp!TypeOK, Rsvp!Init
<1>4. Rsvp!AnswersAreKept
  BY DEF Rsvp!Init, Rsvp!AnswersAreKept
<1> QED BY <1>1, <1>3, <1>4 DEF EmptyTable, RsvpInv

LEMMA RsvpDeny ==
    ASSUME RsvpInv, NEW a \in Addresses, Rsvp!Deny(a)
    PROVE  RsvpInv'
<1>1. /\ rsvpHits' = Rsvp!Reaped
      /\ UNCHANGED <<rsvpNow, rsvpSequence, rsvpRsvps, rsvpNotices, rsvpCrashes, rsvpAllowed,
                     rsvpDeleted, rsvpNotified>>
  BY DEF Rsvp!Deny
<1>2. /\ DOMAIN rsvpHits' \subseteq DOMAIN rsvpHits
      /\ \A b \in DOMAIN rsvpHits' : rsvpHits'[b] = rsvpHits[b]
      /\ \A b \in DOMAIN rsvpHits : BucketOpen(b) => b \in DOMAIN rsvpHits'
      /\ DOMAIN rsvpHits \subseteq Addresses
      /\ \A b \in DOMAIN rsvpHits : rsvpHits[b] \in Rsvp!Bucket
  BY <1>1, RsvpTable DEF RsvpInv
<1>3. rsvpHits' \in [DOMAIN rsvpHits' -> Rsvp!Bucket]
  <2>1. PICK table : table = Rsvp!Reaped
    OBVIOUS
  <2>2. table = [b \in DOMAIN table |-> table[b]]
    BY <2>1 DEF Rsvp!Reaped, RsvpInv, Rsvp!TypeOK
  <2> QED BY <1>1, <1>2, <2>1, <2>2
<1>4. rsvpLastReap' \in 0 .. MaxRsvpTime
  <2>1. rsvpNow \in 0 .. MaxRsvpTime /\ rsvpLastReap \in 0 .. MaxRsvpTime
    BY RsvpConstants DEF RsvpInv, Rsvp!TypeOK
  <2> QED BY <2>1 DEF Rsvp!Deny, Rsvp!Reap
<1>5. IsFiniteSet(DOMAIN rsvpHits') /\ Cardinality(DOMAIN rsvpHits') <= MaxEntries
  <2>1. IsFiniteSet(DOMAIN rsvpHits) /\ Cardinality(DOMAIN rsvpHits) <= MaxEntries
    BY DEF RsvpInv
  <2>2. IsFiniteSet(DOMAIN rsvpHits') /\ Cardinality(DOMAIN rsvpHits') <= Cardinality(DOMAIN rsvpHits)
    BY <1>2, <2>1, FS_Subset
  <2>3. Cardinality(DOMAIN rsvpHits') \in Nat /\ Cardinality(DOMAIN rsvpHits) \in Nat
    BY <2>1, <2>2, FS_CardinalityType
  <2> QED BY <2>1, <2>2, <2>3, RsvpConstants
<1>6. Rsvp!TypeOK'
  BY <1>1, <1>2, <1>3, <1>4 DEF RsvpInv, Rsvp!TypeOK
<1>7. ASSUME NEW b \in Addresses PROVE Bounded(b)'
  <2>1. Bounded(b)
    BY DEF RsvpInv
  <2>2. /\ b \in DOMAIN rsvpHits' => b \in DOMAIN rsvpHits /\ rsvpHits'[b] = rsvpHits[b]
        /\ BucketOpen(b) => b \in DOMAIN rsvpHits'
    BY <1>2 DEF BucketOpen
  <2> QED BY <1>1, <2>1, <2>2, OthersStayBounded
<1>8. Rsvp!AnswersAreKept'
  BY <1>1 DEF RsvpInv, Rsvp!AnswersAreKept
<1> QED BY <1>5, <1>6, <1>7, <1>8 DEF RsvpInv

LEMMA RsvpRefuse ==
    ASSUME RsvpInv, NEW a \in Addresses, Rsvp!RefuseRSVP(a)
    PROVE  RsvpInv'
<1>1. /\ Rsvp!Allow(a)
      /\ UNCHANGED <<rsvpNow, rsvpSequence, rsvpRsvps, rsvpNotices, rsvpCrashes, rsvpDeleted, rsvpNotified>>
  BY DEF Rsvp!RefuseRSVP
<1>2. Rsvp!TypeOK'
  BY <1>1, RsvpAllow DEF RsvpInv, Rsvp!TypeOK
<1>3. Rsvp!AnswersAreKept'
  BY <1>1 DEF RsvpInv, Rsvp!AnswersAreKept
<1> QED BY <1>1, <1>2, <1>3, RsvpAllow DEF RsvpInv

LEMMA RsvpCreate ==
    ASSUME RsvpInv, NEW a \in Addresses, Rsvp!CreateRSVP(a)
    PROVE  RsvpInv'
<1>1. /\ Rsvp!Allow(a) /\ rsvpSequence < MaxRsvps
      /\ rsvpSequence' = rsvpSequence + 1
      /\ rsvpRsvps' = rsvpRsvps \cup {rsvpSequence + 1}
      /\ rsvpNotices' = rsvpNotices \cup {rsvpSequence + 1}
      /\ UNCHANGED <<rsvpNow, rsvpCrashes, rsvpDeleted, rsvpNotified>>
  BY DEF Rsvp!CreateRSVP
<1>2. /\ rsvpSequence \in 0 .. MaxRsvps
      /\ rsvpRsvps \subseteq 1 .. rsvpSequence /\ rsvpNotices \subseteq 1 .. rsvpSequence
      /\ rsvpDeleted \subseteq 1 .. rsvpSequence /\ rsvpNotified \subseteq 1 .. rsvpSequence
  BY DEF RsvpInv, Rsvp!TypeOK
<1>3. PICK n \in Nat : n = rsvpSequence
  BY <1>2, RsvpConstants
<1>4. 1 .. n + 1 = (1 .. n) \cup {n + 1} /\ n + 1 \notin 1 .. n
  OBVIOUS
<1>5. rsvpSequence' \in 0 .. MaxRsvps
  BY <1>1, <1>2, RsvpConstants
<1>6. /\ rsvpRsvps' \subseteq 1 .. rsvpSequence' /\ rsvpNotices' \subseteq 1 .. rsvpSequence'
      /\ rsvpDeleted' \subseteq 1 .. rsvpSequence' /\ rsvpNotified' \subseteq 1 .. rsvpSequence'
  BY <1>1, <1>2, <1>3, <1>4
<1>7. Rsvp!TypeOK'
  BY <1>1, <1>5, <1>6, RsvpAllow DEF RsvpInv, Rsvp!TypeOK
<1>8. Rsvp!AnswersAreKept'
  BY <1>1, <1>2, <1>3, <1>4 DEF RsvpInv, Rsvp!AnswersAreKept
<1> QED BY <1>1, <1>7, <1>8, RsvpAllow DEF RsvpInv

\* A step of the answers leaves the limiter alone.
LEMMA LimiterUntouched ==
    ASSUME RsvpInv, UNCHANGED <<rsvpNow, rsvpHits, rsvpAllowed>>
    PROVE  /\ IsFiniteSet(DOMAIN rsvpHits') /\ Cardinality(DOMAIN rsvpHits') <= MaxEntries
           /\ \A a \in Addresses : Bounded(a)'
BY OthersStayBounded DEF RsvpInv, BucketOpen

LEMMA RsvpAnswer ==
    ASSUME RsvpInv, NEW id \in 1 .. MaxRsvps,
           Rsvp!Notify(id) \/ Rsvp!PatchWeddingRSVP(id) \/ Rsvp!DeleteRSVP(id)
    PROVE  RsvpInv'
<1>1. UNCHANGED <<rsvpNow, rsvpHits, rsvpLastReap, rsvpSequence, rsvpCrashes, rsvpAllowed>>
  BY DEF Rsvp!Notify, Rsvp!PatchWeddingRSVP, Rsvp!DeleteRSVP
<1>2. /\ rsvpRsvps' \subseteq 1 .. rsvpSequence /\ rsvpNotices' \subseteq 1 .. rsvpSequence
      /\ rsvpDeleted' \subseteq 1 .. rsvpSequence /\ rsvpNotified' \subseteq 1 .. rsvpSequence
  BY DEF RsvpInv, Rsvp!TypeOK, Rsvp!Notify, Rsvp!PatchWeddingRSVP, Rsvp!UpdateRSVP, Rsvp!DeleteRSVP
<1>3. Rsvp!TypeOK'
  BY <1>1, <1>2 DEF RsvpInv, Rsvp!TypeOK
<1>4. Rsvp!AnswersAreKept'
  <2>1. CASE Rsvp!Notify(id)
    BY <2>1 DEF RsvpInv, Rsvp!AnswersAreKept, Rsvp!Notify
  <2>2. CASE Rsvp!PatchWeddingRSVP(id)
    BY <2>2 DEF RsvpInv, Rsvp!AnswersAreKept, Rsvp!PatchWeddingRSVP, Rsvp!UpdateRSVP
  <2>3. CASE Rsvp!DeleteRSVP(id)
    BY <2>3 DEF RsvpInv, Rsvp!AnswersAreKept, Rsvp!DeleteRSVP
  <2> QED BY <2>1, <2>2, <2>3
<1> QED BY <1>1, <1>3, <1>4, LimiterUntouched DEF RsvpInv

LEMMA RsvpTick ==
    ASSUME RsvpInv, Rsvp!Tick
    PROVE  RsvpInv'
<1>1. /\ rsvpNow < MaxRsvpTime /\ rsvpNow' = rsvpNow + 1
      /\ UNCHANGED <<rsvpHits, rsvpLastReap, rsvpSequence, rsvpRsvps, rsvpNotices, rsvpCrashes,
                     rsvpAllowed, rsvpDeleted, rsvpNotified>>
  BY DEF Rsvp!Tick
<1>2. rsvpNow \in Nat /\ rsvpNow' \in 1 .. MaxRsvpTime
  BY <1>1, RsvpConstants DEF RsvpInv, Rsvp!TypeOK
<1>3. Rsvp!TypeOK'
  BY <1>1, <1>2 DEF RsvpInv, Rsvp!TypeOK
<1>4. Rsvp!AnswersAreKept'
  BY <1>1 DEF RsvpInv, Rsvp!AnswersAreKept
<1>5. ASSUME NEW a \in Addresses PROVE Bounded(a)'
  <2>1. Bounded(a)
    BY DEF RsvpInv
  <2>2. PICK times : times = rsvpAllowed[a]
    OBVIOUS
  <2>3. times \in Seq(Nat)
    <3>1. times \in Seq(1 .. MaxRsvpTime)
      BY <2>2 DEF RsvpInv, Rsvp!TypeOK
    <3> QED BY <3>1, RsvpConstants
  <2>4. \A i \in DOMAIN times : times[i] \in Nat
    BY <2>3
  <2>5. \A i \in DOMAIN times : times[i] <= rsvpNow'
    BY <1>1, <1>2, <2>1, <2>2, <2>4 DEF Bounded
  <2>6. PICK starts \in SUBSET DOMAIN times : StartsFit(times, starts) /\ LastStart(a, times, starts)
    BY <2>1, <2>2 DEF Bounded
  <2>7. LastStart(a, times, starts)'
    <3>1. CASE starts = {}
      BY <3>1, <1>1, <2>6 DEF LastStart
    <3>2. CASE starts # {}
      <4>1. PICK l \in starts :
              /\ \A i \in starts : i <= l
              /\ IF BucketOpen(a)
                 THEN /\ rsvpHits[a].resetAt = times[l] + Window
                      /\ rsvpHits[a].count = Len(times) - l + 1
                 ELSE times[l] + Window <= rsvpNow
        BY <3>2, <2>6 DEF LastStart
      <4>2. times[l] \in Nat
        BY <2>4, <2>6
      <4>3. IF BucketOpen(a)'
            THEN /\ rsvpHits[a].resetAt = times[l] + Window
                 /\ rsvpHits[a].count = Len(times) - l + 1
            ELSE times[l] + Window <= rsvpNow'
        <5>1. CASE BucketOpen(a)'
          <6>1. BucketOpen(a)
            <7>1. a \in DOMAIN rsvpHits /\ rsvpHits[a].resetAt \in Nat
              BY <5>1, <1>1, RsvpTable, RsvpConstants DEF BucketOpen, RsvpInv, Rsvp!Bucket
            <7> QED BY <5>1, <7>1, <1>1, <1>2 DEF BucketOpen
          <6> QED BY <5>1, <6>1, <4>1
        <5>2. CASE ~BucketOpen(a)'
          <6>1. CASE BucketOpen(a)
            <7>1. rsvpHits[a].resetAt = times[l] + Window /\ ~(rsvpNow' < rsvpHits[a].resetAt)
              BY <5>2, <6>1, <4>1, <1>1 DEF BucketOpen
            <7> QED BY <7>1, <5>2, <4>2, <1>2, RsvpConstants
          <6>2. CASE ~BucketOpen(a)
            <7>1. times[l] + Window <= rsvpNow
              BY <6>2, <4>1
            <7> QED BY <7>1, <5>2, <4>2, <1>1, <1>2, RsvpConstants
          <6> QED BY <6>1, <6>2
        <5> QED BY <5>1, <5>2
      <4> QED BY <3>2, <4>1, <4>3, <1>1 DEF LastStart
    <3> QED BY <3>1, <3>2
  <2> QED BY <1>1, <2>1, <2>2, <2>5, <2>6, <2>7 DEF Bounded, Ascending
<1> QED BY <1>1, <1>3, <1>4, <1>5 DEF RsvpInv

LEMMA RsvpCrash ==
    ASSUME RsvpInv, Rsvp!Crash
    PROVE  RsvpInv'
<1>1. /\ rsvpCrashes < MaxRsvpCrashes /\ rsvpCrashes' = rsvpCrashes + 1
      /\ rsvpHits' = <<>> /\ rsvpLastReap' = 0 /\ rsvpNotices' = {}
      /\ rsvpAllowed' = [a \in Addresses |-> <<>>]
      /\ UNCHANGED <<rsvpNow, rsvpSequence, rsvpRsvps, rsvpDeleted, rsvpNotified>>
  BY DEF Rsvp!Crash
<1>2. rsvpCrashes \in Nat /\ rsvpCrashes' \in 0 .. MaxRsvpCrashes /\ 0 \in 0 .. MaxRsvpTime
  BY <1>1, RsvpConstants DEF RsvpInv, Rsvp!TypeOK
<1>3. EmptyTable'
  <2>1. NothingAllowed'
    BY <1>1 DEF NothingAllowed
  <2> QED BY <2>1, RsvpEmpty, PTL
<1>4. Rsvp!TypeOK'
  BY <1>1, <1>2, <1>3 DEF EmptyTable, RsvpInv, Rsvp!TypeOK
<1>5. Rsvp!AnswersAreKept'
  BY <1>1, <1>2 DEF RsvpInv, Rsvp!AnswersAreKept
<1> QED BY <1>3, <1>4, <1>5 DEF EmptyTable, RsvpInv

LEMMA RsvpNext ==
    ASSUME RsvpInv, [Rsvp!Next]_(Rsvp!vars)
    PROVE  RsvpInv'
<1>1. CASE UNCHANGED Rsvp!vars
  <2>1. UNCHANGED <<rsvpNow, rsvpHits, rsvpAllowed>>
    BY <1>1 DEF Rsvp!vars
  <2>2. Rsvp!TypeOK' /\ Rsvp!AnswersAreKept'
    BY <1>1 DEF RsvpInv, Rsvp!vars, Rsvp!TypeOK, Rsvp!AnswersAreKept
  <2> QED BY <2>1, <2>2, LimiterUntouched DEF RsvpInv
<1>2. CASE Rsvp!Next
  BY <1>2, RsvpDeny, RsvpRefuse, RsvpCreate, RsvpAnswer, RsvpTick, RsvpCrash DEF Rsvp!Next
<1> QED BY <1>1, <1>2

LEMMA RsvpInvImplies == RsvpInv => Rsvp!RsvpConsistent
<1> SUFFICES ASSUME RsvpInv PROVE Rsvp!RsvpConsistent
  OBVIOUS
<1>1. Rsvp!Cardinality(DOMAIN rsvpHits) <= MaxEntries
  <2>1. Rsvp!Cardinality(DOMAIN rsvpHits) = Cardinality(DOMAIN rsvpHits)
    BY DEF Rsvp!Cardinality, Cardinality
  <2> QED BY <2>1 DEF RsvpInv
<1>2. ASSUME NEW a \in Addresses, NEW first \in DOMAIN rsvpAllowed[a],
             NEW last \in DOMAIN rsvpAllowed[a], last = first + 2 * Limit
      PROVE  rsvpAllowed[a][last] >= rsvpAllowed[a][first] + Window
  <2>1. rsvpAllowed[a] \in Seq(Nat)
    <3>1. rsvpAllowed[a] \in Seq(1 .. MaxRsvpTime)
      BY DEF RsvpInv, Rsvp!TypeOK
    <3> QED BY <3>1, RsvpConstants
  <2>2. Ascending(rsvpAllowed[a]) /\ \E starts : StartsFit(rsvpAllowed[a], starts)
    BY DEF RsvpInv, Bounded
  <2> QED BY <1>2, <2>1, <2>2, StartsSpread
<1>3. Rsvp!BurstsAreBounded
  BY <1>1, <1>2 DEF Rsvp!BurstsAreBounded
<1> QED BY <1>3 DEF RsvpInv, Rsvp!RsvpConsistent

\* A cookie in force names the code in force, unless an input has brought its
\* version back, and a lock earned with wrong codes lasts, whatever requests
\* and changes of the settings overlap; no window of time lets
\* more than two limits' worth of answers of an address through, for any
\* limit, window and size of the table; and an answer is kept until it is
\* deleted, for good.
THEOREM GuestsStayConsistent == Spec => []GuestsConsistent
<1>1. Init => AccessInv /\ RsvpInv
  BY Constants, AccessInit, RsvpInit DEF Init
<1>2. AccessInv /\ RsvpInv /\ [Next]_vars => (AccessInv /\ RsvpInv)'
  BY AccessNext, RsvpNext, ServicesRun
<1>3. AccessInv /\ RsvpInv => GuestsConsistent
  BY AccessInvImplies, RsvpInvImplies DEF GuestsConsistent
<1> QED BY <1>1, <1>2, <1>3, PTL DEF Spec

-----------------------------------------------------------------------------
(* WeddingSummary.                                                         *)
(*                                                                         *)
(* The inductive invariant.  What a count has read holds, of the media of  *)
(* the pages read, those that had been completed when its request came,    *)
(* and, while its generation is the present one, those completed by now.   *)

CountSound(q) ==
    /\ q.had \subseteq summaryUploaded
    /\ q.at \in {"start", "count", "store"} => q.generation <= summaryGeneration
    /\ q.at = "count" => ~q.failed
    /\ q.at = "store" /\ ~q.failed => q.left = {}
    /\ q.at \in {"count", "store"} /\ ~q.failed =>
          /\ q.had \ q.left \subseteq q.seen
          /\ q.generation = summaryGeneration => summaryUploaded \ q.left \subseteq q.seen

SummaryInv ==
    /\ Summary!TypeOK
    /\ summaryGeneration = Cardinality(summaryUploaded)
    /\ \A r, w \in summaryLoading : r = w
    /\ Summary!SomebodyCounts
    /\ Summary!NumbersAreCurrent
    /\ \A r \in Requests : CountSound(summaryRequests[r])

Counters == {"start", "count", "store"}

LEMMA SummaryCardinality == ASSUME NEW S PROVE Summary!Cardinality(S) = Cardinality(S)
BY DEF Summary!Cardinality, Cardinality

LEMMA SummaryConstants ==
    /\ IsFiniteSet(Media) /\ SummaryPlaces \in Nat /\ MaxOthers \in Nat
<1>1. Summary!IsFiniteSet(Media) /\ SummaryPlaces \in Nat /\ MaxOthers \in Nat
  BY Constants DEF Summary!SummaryAssumption
<1>2. Summary!IsFiniteSet(Media) <=> IsFiniteSet(Media)
  BY DEF Summary!IsFiniteSet, IsFiniteSet
<1> QED BY <1>1, <1>2

\* The types, spelled out, and how they are put together again.
LEMMA SummaryTypes ==
    Summary!TypeOK <=>
        /\ summaryUploaded \subseteq summaryDrive /\ summaryDrive \subseteq Media
        /\ summaryCache \subseteq SUBSET Media /\ Cardinality(summaryCache) <= 1
        /\ summaryGeneration \in 0 .. Cardinality(Media)
        /\ summaryLoading \subseteq Requests /\ Cardinality(summaryLoading) <= 1
        /\ summaryOthers \in 0 .. MaxOthers
        /\ summaryRequests \in [Requests -> Summary!Request]
        /\ summaryAnswers \subseteq [media: SUBSET Media, had: SUBSET Media]
BY SummaryCardinality DEF Summary!TypeOK

LEMMA SummaryNew == Summary!New \in Summary!Request
BY DEF Summary!New, Summary!Request

LEMMA SummaryInit ==
    ASSUME Summary!Init
    PROVE  SummaryInv
<1>1. Cardinality(Media) \in Nat /\ Cardinality({}) = 0
  BY SummaryConstants, FS_CardinalityType, FS_EmptySet
<1>2. Summary!TypeOK
  BY <1>1, SummaryTypes, SummaryNew, SummaryConstants DEF Summary!Init
<1>3. \A r \in Requests : summaryRequests[r] = Summary!New
  BY DEF Summary!Init
<1>4. Summary!SomebodyCounts /\ \A r \in Requests : CountSound(summaryRequests[r])
  BY <1>3 DEF Summary!Init, Summary!New, Summary!SomebodyCounts, Summary!At, CountSound
<1> QED BY <1>1, <1>2, <1>4 DEF Summary!Init, SummaryInv, Summary!NumbersAreCurrent

\* A step of one request that neither begins nor ends a count.
LEMMA RequestMoves ==
    ASSUME SummaryInv, NEW r \in Requests, NEW q \in Summary!Request,
           summaryRequests' = [summaryRequests EXCEPT ![r] = q],
           UNCHANGED <<summaryDrive, summaryUploaded, summaryCache, summaryGeneration,
                       summaryLoading, summaryOthers>>,
           summaryAnswers' \subseteq [media: SUBSET Media, had: SUBSET Media],
           \A a \in summaryAnswers' : a.had \subseteq a.media,
           q.at \in Counters <=> summaryRequests[r].at \in Counters,
           q.at = "wait" => summaryLoading # {},
           CountSound(q)
    PROVE  SummaryInv'
<1>0. summaryRequests \in [Requests -> Summary!Request]
  BY DEF SummaryInv, Summary!TypeOK
<1>1. Summary!TypeOK'
  BY <1>0 DEF SummaryInv, Summary!TypeOK
<1>2. /\ \A w \in Requests : summaryRequests'[w] = IF w = r THEN q ELSE summaryRequests[w]
      /\ \A w \in Requests : summaryRequests'[w].at \in Counters <=> summaryRequests[w].at \in Counters
  BY <1>0
<1>3. Summary!SomebodyCounts'
  BY <1>2 DEF SummaryInv, Summary!SomebodyCounts, Summary!At, Counters
<1>4. \A w \in Requests : CountSound(summaryRequests'[w])
  BY <1>2 DEF SummaryInv
<1>5. \A w \in Requests : CountSound(summaryRequests[w])'
  BY <1>4 DEF CountSound
<1> QED BY <1>1, <1>3, <1>5 DEF SummaryInv, Summary!NumbersAreCurrent

LEMMA SummaryArrive ==
    ASSUME SummaryInv, NEW r \in Requests, Summary!Arrive(r)
    PROVE  SummaryInv'
<1> DEFINE q == [Summary!New EXCEPT !.at = "look", !.had = summaryUploaded]
<1>1. q.at = "look" /\ q.had = summaryUploaded /\ q \in Summary!Request
  BY SummaryNew, SummaryTypes DEF Summary!New, Summary!Request, SummaryInv
<1>2. CountSound(q) /\ q.at # "wait" /\ q.at \notin Counters
  BY <1>1 DEF CountSound, Counters
<1> HIDE DEF q
<1> QED BY <1>1, <1>2, RequestMoves DEF Summary!Arrive, q, SummaryInv, Summary!TypeOK,
          Summary!NumbersAreCurrent, Summary!At, Counters

LEMMA SummaryLook ==
    ASSUME SummaryInv, NEW r \in Requests, Summary!Look(r)
    PROVE  SummaryInv'
<1>0. /\ summaryRequests \in [Requests -> Summary!Request] /\ summaryRequests[r].at = "look"
      /\ summaryRequests[r] \in Summary!Request /\ CountSound(summaryRequests[r])
      /\ UNCHANGED <<summaryDrive, summaryUploaded, summaryCache, summaryGeneration, summaryOthers>>
  BY DEF SummaryInv, Summary!TypeOK, Summary!Look, Summary!At
<1>1. ASSUME NEW media \in summaryCache, Summary!Answer(r, media), UNCHANGED summaryLoading,
             summaryRequests' = [summaryRequests EXCEPT ![r] = [Summary!New EXCEPT !.at = "done"]]
      PROVE  SummaryInv'
  <2> DEFINE q == [Summary!New EXCEPT !.at = "done"]
  <2>1. q \in Summary!Request /\ q.at = "done" /\ q.had = {}
    BY SummaryNew DEF Summary!New, Summary!Request
  <2>2. CountSound(q) /\ q.at # "wait" /\ q.at \notin Counters
    BY <2>1 DEF CountSound, Counters
  <2>3. summaryRequests[r].had \subseteq media /\ media \in SUBSET Media
    BY <1>0 DEF SummaryInv, Summary!NumbersAreCurrent, CountSound, Summary!TypeOK
  <2>4. /\ summaryAnswers' \subseteq [media: SUBSET Media, had: SUBSET Media]
        /\ \A a \in summaryAnswers' : a.had \subseteq a.media
    BY <1>1, <2>3 DEF SummaryInv, Summary!NumbersAreCurrent, Summary!Answer, Summary!TypeOK
  <2> HIDE DEF q
  <2> QED BY <1>0, <1>1, <2>1, <2>2, <2>4, RequestMoves DEF q, Counters
<1>2. ASSUME summaryLoading # {}, UNCHANGED <<summaryLoading, summaryAnswers>>,
             summaryRequests' = [summaryRequests EXCEPT ![r].at = "wait"]
      PROVE  SummaryInv'
  <2> DEFINE q == [summaryRequests[r] EXCEPT !.at = "wait"]
  <2>1. q \in Summary!Request /\ q.at = "wait" /\ q.had = summaryRequests[r].had
    BY <1>0 DEF Summary!Request
  <2>2. CountSound(q) /\ q.at \notin Counters
    BY <1>0, <2>1 DEF CountSound, Counters
  <2>3. summaryRequests' = [summaryRequests EXCEPT ![r] = q]
    BY <1>0, <1>2
  <2> HIDE DEF q
  <2> QED BY <1>0, <1>2, <2>1, <2>2, <2>3, RequestMoves DEF Counters, SummaryInv, Summary!TypeOK,
            Summary!NumbersAreCurrent
<1>3. ASSUME summaryCache = {}, summaryLoading = {}, summaryLoading' = {r}, UNCHANGED summaryAnswers,
             summaryRequests' = [summaryRequests EXCEPT ![r].at = "start", ![r].generation = summaryGeneration]
      PROVE  SummaryInv'
  <2> DEFINE q == [summaryRequests[r] EXCEPT !.at = "start", !.generation = summaryGeneration]
  <2>1. summaryGeneration \in Nat
    BY SummaryConstants, FS_CardinalityType DEF SummaryInv, Summary!TypeOK
  <2>2. q \in Summary!Request /\ q.at = "start" /\ q.had = summaryRequests[r].had /\ q.generation = summaryGeneration
    BY <1>0, <2>1 DEF Summary!Request
  <2>3. CountSound(q)
    BY <1>0, <2>1, <2>2 DEF CountSound
  <2>4. summaryRequests' = [summaryRequests EXCEPT ![r] = q]
    BY <1>0, <1>3
  <2> HIDE DEF q
  <2>5. \A w \in Requests : summaryRequests'[w] = IF w = r THEN q ELSE summaryRequests[w]
    BY <1>0, <2>4
  <2>6. Cardinality({r}) = 1
    BY FS_Singleton
  <2>7. Summary!TypeOK'
    <3>1. summaryRequests' \in [Requests -> Summary!Request]
      BY <1>0, <2>2, <2>4
    <3>2. Summary!Cardinality({r}) <= 1
      BY <2>6, SummaryCardinality
    <3> QED BY <1>0, <1>3, <3>1, <3>2 DEF SummaryInv, Summary!TypeOK
  <2>8. Summary!SomebodyCounts'
    BY <1>0, <1>3, <2>2, <2>5 DEF SummaryInv, Summary!SomebodyCounts, Summary!At
  <2>9. \A w \in Requests : CountSound(summaryRequests'[w])
    BY <2>3, <2>5 DEF SummaryInv
  <2>10. \A w \in Requests : CountSound(summaryRequests[w])'
    BY <1>0, <2>9 DEF CountSound
  <2> QED BY <1>0, <1>3, <2>7, <2>8, <2>10 DEF SummaryInv, Summary!NumbersAreCurrent
<1> QED BY <1>1, <1>2, <1>3 DEF Summary!Look

LEMMA SummaryStart ==
    ASSUME SummaryInv, NEW r \in Requests, Summary!Start(r)
    PROVE  SummaryInv'
<1>0. /\ summaryRequests \in [Requests -> Summary!Request] /\ summaryRequests[r].at = "start"
      /\ summaryRequests[r] \in Summary!Request /\ CountSound(summaryRequests[r])
      /\ summaryUploaded \subseteq Media
  BY DEF SummaryInv, Summary!TypeOK, Summary!Start, Summary!At
<1> DEFINE free == Summary!PlaceFree
<1> DEFINE q == [summaryRequests[r] EXCEPT !.at = IF free THEN "count" ELSE "store",
                    !.failed = ~free, !.left = IF free THEN Media ELSE {}]
<1> HIDE DEF free
<1>1. /\ q \in Summary!Request /\ q.at = (IF free THEN "count" ELSE "store")
      /\ q.failed = ~free /\ q.left = (IF free THEN Media ELSE {})
      /\ q.had = summaryRequests[r].had /\ q.generation = summaryRequests[r].generation
  BY <1>0 DEF Summary!Request
<1> HIDE DEF q
<1>2. CountSound(q)
  <2>1. CASE free
    BY <1>0, <1>1, <2>1 DEF CountSound
  <2>2. CASE ~free
    BY <1>0, <1>1, <2>2 DEF CountSound
  <2> QED BY <2>1, <2>2
<1>3. summaryRequests' = [summaryRequests EXCEPT ![r] = q]
  BY <1>0 DEF Summary!Start, free, q
<1> QED BY <1>0, <1>1, <1>2, <1>3, RequestMoves DEF Summary!Start, Counters, SummaryInv, Summary!TypeOK,
          Summary!NumbersAreCurrent

LEMMA SummaryCountPage ==
    ASSUME SummaryInv, NEW r \in Requests, NEW m \in Media, Summary!CountPage(r, m)
    PROVE  SummaryInv'
<1>0. /\ summaryRequests \in [Requests -> Summary!Request] /\ summaryRequests[r].at = "count"
      /\ summaryRequests[r] \in Summary!Request /\ CountSound(summaryRequests[r])
      /\ summaryUploaded \subseteq summaryDrive /\ summaryDrive \subseteq Media
  BY DEF SummaryInv, Summary!TypeOK, Summary!CountPage, Summary!At
<1> DEFINE p == summaryRequests[r]
<1> DEFINE q == [p EXCEPT !.seen = p.seen \cup ({m} \cap summaryDrive), !.left = p.left \ {m},
                    !.at = IF p.left = {m} THEN "store" ELSE "count"]
<1>1. /\ q \in Summary!Request /\ q.at = (IF p.left = {m} THEN "store" ELSE "count")
      /\ q.failed = p.failed /\ q.left = p.left \ {m} /\ q.seen = p.seen \cup ({m} \cap summaryDrive)
      /\ q.had = p.had /\ q.generation = p.generation
  BY <1>0 DEF Summary!Request
<1>2. summaryRequests' = [summaryRequests EXCEPT ![r] = q]
  BY <1>0 DEF Summary!CountPage
<1> HIDE DEF q
<1>3. CountSound(q)
  BY <1>0, <1>1 DEF CountSound
<1> QED BY <1>0, <1>1, <1>2, <1>3, RequestMoves DEF Summary!CountPage, Counters, SummaryInv,
          Summary!TypeOK, Summary!NumbersAreCurrent

LEMMA SummaryCountFails ==
    ASSUME SummaryInv, NEW r \in Requests, Summary!CountFails(r)
    PROVE  SummaryInv'
<1>0. /\ summaryRequests \in [Requests -> Summary!Request] /\ summaryRequests[r].at = "count"
      /\ summaryRequests[r] \in Summary!Request /\ CountSound(summaryRequests[r])
  BY DEF SummaryInv, Summary!TypeOK, Summary!CountFails, Summary!At
<1> DEFINE q == [summaryRequests[r] EXCEPT !.at = "store", !.failed = TRUE]
<1>1. /\ q \in Summary!Request /\ q.at = "store" /\ q.failed
      /\ q.had = summaryRequests[r].had /\ q.generation = summaryRequests[r].generation
  BY <1>0 DEF Summary!Request
<1>2. CountSound(q)
  BY <1>0, <1>1 DEF CountSound
<1>3. summaryRequests' = [summaryRequests EXCEPT ![r] = q]
  BY <1>0 DEF Summary!CountFails
<1> HIDE DEF q
<1> QED BY <1>0, <1>1, <1>2, <1>3, RequestMoves DEF Summary!CountFails, Counters, SummaryInv,
          Summary!TypeOK, Summary!NumbersAreCurrent

LEMMA SummaryGiveUp ==
    ASSUME SummaryInv, NEW r \in Requests, Summary!GiveUp(r)
    PROVE  SummaryInv'
<1> DEFINE q == [Summary!New EXCEPT !.at = "done"]
<1>1. q \in Summary!Request /\ q.at = "done" /\ q.had = {}
  BY SummaryNew DEF Summary!New, Summary!Request
<1>2. CountSound(q) /\ q.at # "wait" /\ q.at \notin Counters
  BY <1>1 DEF CountSound, Counters
<1> HIDE DEF q
<1> QED BY <1>1, <1>2, RequestMoves DEF Summary!GiveUp, q, Summary!At, Counters, SummaryInv,
          Summary!TypeOK, Summary!NumbersAreCurrent

LEMMA SummaryStore ==
    ASSUME SummaryInv, NEW r \in Requests, Summary!Store(r)
    PROVE  SummaryInv'
<1> DEFINE q == summaryRequests[r]
<1> DEFINE done == [Summary!New EXCEPT !.at = "done"]
<1>0. /\ summaryRequests \in [Requests -> Summary!Request] /\ q.at = "store"
      /\ q \in Summary!Request /\ CountSound(q)
      /\ UNCHANGED <<summaryDrive, summaryUploaded, summaryGeneration, summaryOthers>>
      /\ summaryLoading' = {}
      /\ summaryCache' = IF ~q.failed /\ q.generation = summaryGeneration THEN {q.seen} ELSE summaryCache
      /\ IF q.failed THEN UNCHANGED summaryAnswers
         ELSE summaryAnswers' = summaryAnswers \cup {[media |-> q.seen, had |-> q.had]}
  BY DEF SummaryInv, Summary!TypeOK, Summary!Store, Summary!At, Summary!Released, Summary!Current,
     Summary!Answer
<1>1. done \in Summary!Request /\ done.at = "done" /\ done.had = {}
  BY SummaryNew DEF Summary!New, Summary!Request
<1>2. summaryRequests' = [w \in Requests |->
          IF w = r THEN done
          ELSE IF summaryRequests[w].at = "wait" THEN [summaryRequests[w] EXCEPT !.at = "look"]
          ELSE summaryRequests[w]]
  BY <1>0 DEF Summary!Store, Summary!At
<1> HIDE DEF done
<1>3. \A w \in Requests \ {r} : summaryRequests[w].at \notin Counters
  BY <1>0 DEF SummaryInv, Summary!SomebodyCounts, Summary!At, Counters
<1>4. ASSUME NEW w \in Requests
      PROVE  /\ summaryRequests'[w] \in Summary!Request
             /\ summaryRequests'[w].at \notin Counters \cup {"wait"}
             /\ summaryRequests'[w].had \subseteq summaryUploaded
  <2>1. summaryRequests[w] \in Summary!Request /\ CountSound(summaryRequests[w])
    BY <1>0 DEF SummaryInv
  <2>2. CASE w = r
    BY <1>1, <1>2, <2>2 DEF Counters
  <2>3. CASE w # r /\ summaryRequests[w].at = "wait"
    <3>1. summaryRequests'[w] = [summaryRequests[w] EXCEPT !.at = "look"]
      BY <1>2, <2>3
    <3> QED BY <2>1, <3>1 DEF Summary!Request, Counters, CountSound
  <2>4. CASE w # r /\ summaryRequests[w].at # "wait"
    BY <1>2, <1>3, <2>1, <2>4 DEF CountSound
  <2> QED BY <2>2, <2>3, <2>4
<1>5. Summary!TypeOK'
  <2>1. Summary!Cardinality({q.seen}) <= 1 /\ Summary!Cardinality({}) <= 1
    <3>1. Cardinality({q.seen}) = 1 /\ Cardinality({}) = 0
      BY FS_Singleton, FS_EmptySet
    <3>2. Summary!Cardinality({q.seen}) = Cardinality({q.seen}) /\ Summary!Cardinality({}) = Cardinality({})
      BY SummaryCardinality
    <3> QED BY <3>1, <3>2
  <2>2. q.seen \in SUBSET Media /\ q.had \in SUBSET Media
    BY <1>0 DEF Summary!Request
  <2>3. summaryRequests' \in [Requests -> Summary!Request]
    BY <1>2, <1>4
  <2> QED BY <1>0, <2>1, <2>2, <2>3 DEF SummaryInv, Summary!TypeOK
<1>6. Summary!SomebodyCounts'
  BY <1>0, <1>4 DEF Summary!SomebodyCounts, Summary!At, Counters
<1>7. Summary!NumbersAreCurrent'
  <2>1. ~q.failed => q.had \subseteq q.seen /\ (q.generation = summaryGeneration => summaryUploaded \subseteq q.seen)
    BY <1>0 DEF CountSound
  <2> QED BY <1>0, <2>1 DEF SummaryInv, Summary!NumbersAreCurrent
<1>8. \A w \in Requests : CountSound(summaryRequests[w])'
  BY <1>0, <1>4 DEF CountSound, Counters
<1> QED BY <1>0, <1>5, <1>6, <1>7, <1>8 DEF SummaryInv

LEMMA SummaryExpire ==
    ASSUME SummaryInv, Summary!Expire
    PROVE  SummaryInv'
<1>1. Summary!Cardinality({}) <= 1
  BY SummaryCardinality, FS_EmptySet
<1> QED BY <1>1 DEF Summary!Expire, SummaryInv, Summary!TypeOK, Summary!SomebodyCounts, Summary!At,
          Summary!NumbersAreCurrent, CountSound

LEMMA SummaryDriveFinishes ==
    ASSUME SummaryInv, NEW m \in Media, Summary!DriveFinishes(m)
    PROVE  SummaryInv'
BY DEF Summary!DriveFinishes, SummaryInv, Summary!TypeOK, Summary!SomebodyCounts, Summary!At,
       Summary!NumbersAreCurrent, CountSound

\* A completed upload is missing in what is being counted, whose generation
\* is past.
LEMMA SummaryCompleteUpload ==
    ASSUME SummaryInv, NEW m \in Media, Summary!CompleteUpload(m)
    PROVE  SummaryInv'
<1>1. /\ m \in summaryDrive \ summaryUploaded /\ summaryUploaded' = summaryUploaded \cup {m}
      /\ summaryCache' = {} /\ summaryGeneration' = summaryGeneration + 1
      /\ UNCHANGED <<summaryDrive, summaryLoading, summaryOthers, summaryRequests, summaryAnswers>>
  BY DEF Summary!CompleteUpload
<1>2. IsFiniteSet(summaryUploaded) /\ IsFiniteSet(summaryUploaded') /\ summaryUploaded' \in SUBSET Media
  BY <1>1, SummaryConstants, FS_Subset DEF SummaryInv, Summary!TypeOK
<1>3. /\ Cardinality(summaryUploaded') = Cardinality(summaryUploaded) + 1
      /\ Cardinality(summaryUploaded') <= Cardinality(Media)
      /\ Cardinality(summaryUploaded) \in Nat
  BY <1>1, <1>2, SummaryConstants, FS_AddElement, FS_Subset, FS_CardinalityType
<1>4. summaryGeneration' = Cardinality(summaryUploaded') /\ summaryGeneration \in Nat
  BY <1>1, <1>3 DEF SummaryInv
<1>5. summaryGeneration' \in 0 .. Summary!Cardinality(Media)
  BY <1>3, <1>4, SummaryConstants, SummaryCardinality, FS_CardinalityType
<1>6. Summary!Cardinality({}) <= 1
  BY SummaryCardinality, FS_EmptySet
<1>7. Summary!TypeOK'
  BY <1>1, <1>5, <1>6 DEF SummaryInv, Summary!TypeOK
<1>8. ASSUME NEW r \in Requests PROVE CountSound(summaryRequests[r])'
  <2>1. CountSound(summaryRequests[r]) /\ summaryRequests[r].generation \in Nat
    BY DEF SummaryInv, Summary!TypeOK, Summary!Request
  <2>2. summaryRequests[r].at \in Counters =>
            summaryRequests[r].generation <= summaryGeneration'
            /\ summaryRequests[r].generation # summaryGeneration'
    BY <1>1, <1>4, <2>1 DEF CountSound, Counters
  <2> QED BY <1>1, <2>1, <2>2 DEF CountSound, Counters
<1> QED BY <1>1, <1>4, <1>7, <1>8 DEF SummaryInv, Summary!SomebodyCounts, Summary!At,
          Summary!NumbersAreCurrent

LEMMA SummaryOthers ==
    ASSUME SummaryInv, NEW n \in 0 .. MaxOthers, Summary!OthersChange(n)
    PROVE  SummaryInv'
BY DEF Summary!OthersChange, SummaryInv, Summary!TypeOK, Summary!SomebodyCounts, Summary!At,
       Summary!NumbersAreCurrent, CountSound

LEMMA SummaryNext ==
    ASSUME SummaryInv, [Summary!Next]_(Summary!vars)
    PROVE  SummaryInv'
<1>1. CASE UNCHANGED Summary!vars
  BY <1>1 DEF Summary!vars, SummaryInv, Summary!TypeOK, Summary!SomebodyCounts, Summary!At,
     Summary!NumbersAreCurrent, CountSound
<1>2. CASE Summary!Next
  BY <1>2, SummaryArrive, SummaryLook, SummaryStart, SummaryCountPage, SummaryCountFails,
     SummaryStore, SummaryGiveUp, SummaryExpire, SummaryDriveFinishes, SummaryCompleteUpload,
     SummaryOthers DEF Summary!Next
<1> QED BY <1>1, <1>2

-----------------------------------------------------------------------------
(* MediaRequests.                                                          *)
(*                                                                         *)
(* The inductive invariant.  Each pool counts the requests that hold a     *)
(* place of it, and the tokens are told apart at the place of the request  *)
(* that holds the mutex: between Google's answer and the file there is one *)
(* token newer than the file's, and between file and memory none.          *)

Places3(q) ==
    [pending |-> q.at # "new" /\ q.kind = "upload",
     uploading |-> q.at \notin {"new", "queued"} /\ q.kind = "upload",
     serving |-> q.at \in {"working", "token", "save", "set"}]

HoldersOf(place) == {r \in Requests : Places3(mediaRequests[r])[place]}

ServingViews == {r \in HoldersOf("serving") : mediaRequests[r].kind # "upload"}

One(b) == IF b THEN 1 ELSE 0

PlacesCounted ==
    /\ \A place \in {"pending", "uploading", "serving"} : IsFiniteSet(HoldersOf(place))
    /\ mediaUploadRequests = Cardinality(HoldersOf("pending"))
    /\ mediaUploadInFlight = Cardinality(HoldersOf("uploading"))
    /\ mediaInFlight = Cardinality(HoldersOf("serving"))

ViewsHaveTheRest == mediaRefused = "view" => Cardinality(ServingViews) + MaxUploads >= Places

AtPlace(step) == \E r \in Requests : mediaRequests[r].at = step

TokensTold ==
    /\ \A r, w \in mediaTokenMu : r = w
    /\ \A r \in Requests : mediaRequests[r].at \in {"token", "save", "set"} <=> r \in mediaTokenMu
    /\ mediaLost \subseteq 1 .. mediaIssued
    /\ mediaConfig \in (1 .. mediaIssued) \ mediaLost
    /\ \A t \in (1 .. mediaIssued) \ mediaLost :
          t <= mediaConfig \/ (t = mediaIssued /\ AtPlace("save"))
    /\ AtPlace("save") => mediaConfig < mediaIssued /\ mediaIssued \notin mediaLost
    /\ AtPlace("set") => mediaConfig = mediaIssued
    /\ ~AtPlace("set") => mediaRefreshToken = mediaConfig

OnlyUploadsQueue == \A r \in Requests : mediaRequests[r].at = "queued" => mediaRequests[r].kind = "upload"

MediaInv ==
    /\ Serving!TypeOK
    /\ OnlyUploadsQueue
    /\ PlacesCounted
    /\ ViewsHaveTheRest
    /\ TokensTold

MediaRequest == [kind : {"upload", "view"}, at : {"new", "queued", "entering", "working", "token", "save", "set"}]

LEMMA MediaConstants ==
    /\ MaxPending \in Nat /\ MaxUploads \in Nat /\ Places \in Nat
    /\ MaxRotations \in Nat \ {0} /\ MaxMediaCrashes \in Nat
BY Constants DEF Serving!MediaRequestsAssumption

LEMMA MediaTypes ==
    Serving!TypeOK <=>
        /\ mediaRequests \in [Requests -> MediaRequest]
        /\ mediaUploadRequests \in 0 .. MaxPending
        /\ mediaUploadInFlight \in 0 .. MaxUploads
        /\ mediaInFlight \in 0 .. Places
        /\ mediaTokenMu \in SUBSET Requests /\ Cardinality(mediaTokenMu) <= 1
        /\ {mediaRefreshToken, mediaConfig, mediaIssued} \subseteq 1 .. MaxRotations
        /\ mediaLost \subseteq 1 .. MaxRotations
        /\ mediaAccessToken \in BOOLEAN
        /\ mediaRefused \in {"upload", "view", "none"}
        /\ mediaCrashes \in 0 .. MaxMediaCrashes
<1>1. Serving!Cardinality(mediaTokenMu) = Cardinality(mediaTokenMu)
  BY DEF Serving!Cardinality, Cardinality
<1>2. Serving!Kinds \cup {"none"} = {"upload", "view", "none"}
  BY DEF Serving!Kinds
<1> QED BY <1>1, <1>2 DEF Serving!TypeOK, Serving!Kinds, Serving!Steps, MediaRequest

\* A set that changes by one element at most.
LEMMA CountOne ==
    ASSUME NEW S, NEW T, NEW r, IsFiniteSet(S), S \ {r} = T \ {r}
    PROVE  /\ IsFiniteSet(T)
           /\ Cardinality(T) \in Nat /\ Cardinality(S) \in Nat
           /\ Cardinality(T) = Cardinality(S) - One(r \in S) + One(r \in T)
<1>1. IsFiniteSet(S \ {r}) /\ Cardinality(S \ {r}) = Cardinality(S) - One(r \in S)
  BY FS_RemoveElement, FS_CardinalityType DEF One
<1>2. Cardinality(S) \in Nat /\ Cardinality(S \ {r}) \in Nat
  BY <1>1, FS_CardinalityType
<1>3. CASE r \in T
  <2>1. T = (S \ {r}) \cup {r} /\ r \notin S \ {r}
    BY <1>3
  <2>2. IsFiniteSet(T) /\ Cardinality(T) = Cardinality(S \ {r}) + 1
    BY <1>1, <2>1, FS_AddElement
  <2> QED BY <1>1, <1>2, <1>3, <2>2, FS_CardinalityType DEF One
<1>4. CASE r \notin T
  <2>1. T = S \ {r}
    BY <1>4
  <2> QED BY <1>1, <1>2, <1>4, <2>1 DEF One
<1> QED BY <1>3, <1>4

\* A request that moves takes and gives back what its places say.
LEMMA PlacesMove ==
    ASSUME MediaInv, NEW r \in Requests, NEW q \in MediaRequest,
           mediaRequests' = [mediaRequests EXCEPT ![r] = q],
           mediaUploadRequests' = mediaUploadRequests - One(Places3(mediaRequests[r]).pending)
                                    + One(Places3(q).pending),
           mediaUploadInFlight' = mediaUploadInFlight - One(Places3(mediaRequests[r]).uploading)
                                    + One(Places3(q).uploading),
           mediaInFlight' = mediaInFlight - One(Places3(mediaRequests[r]).serving)
                                    + One(Places3(q).serving)
    PROVE  /\ PlacesCounted'
           /\ mediaRequests' \in [Requests -> MediaRequest]
           /\ mediaUploadRequests' \in Nat /\ mediaUploadInFlight' \in Nat /\ mediaInFlight' \in Nat
<1>0. mediaRequests \in [Requests -> MediaRequest]
  BY MediaTypes DEF MediaInv
<1>1. \A w \in Requests : mediaRequests'[w] = IF w = r THEN q ELSE mediaRequests[w]
  BY <1>0
<1>2. ASSUME NEW place \in {"pending", "uploading", "serving"}
      PROVE  /\ IsFiniteSet(HoldersOf(place)')
             /\ Cardinality(HoldersOf(place)') \in Nat
             /\ Cardinality(HoldersOf(place)') = Cardinality(HoldersOf(place))
                   - One(Places3(mediaRequests[r])[place]) + One(Places3(q)[place])
  <2>1. IsFiniteSet(HoldersOf(place))
    BY DEF MediaInv, PlacesCounted
  <2>2. HoldersOf(place) \ {r} = HoldersOf(place)' \ {r}
    BY <1>1 DEF HoldersOf
  <2>3. /\ (r \in HoldersOf(place)) <=> Places3(mediaRequests[r])[place]
        /\ (r \in HoldersOf(place)') <=> Places3(q)[place]
    BY <1>1 DEF HoldersOf
  <2>4. /\ Cardinality(HoldersOf(place)') = Cardinality(HoldersOf(place))
              - One(r \in HoldersOf(place)) + One(r \in HoldersOf(place)')
        /\ IsFiniteSet(HoldersOf(place)') /\ Cardinality(HoldersOf(place)') \in Nat
    BY <2>1, <2>2, CountOne
  <2> QED BY <2>3, <2>4 DEF One
<1>3. PlacesCounted'
  <2>1. /\ Cardinality(HoldersOf("pending")') = mediaUploadRequests'
        /\ Cardinality(HoldersOf("uploading")') = mediaUploadInFlight'
        /\ Cardinality(HoldersOf("serving")') = mediaInFlight'
    BY <1>2 DEF MediaInv, PlacesCounted
  <2> QED BY <1>2, <2>1 DEF PlacesCounted
<1>4. mediaRequests' \in [Requests -> MediaRequest]
  BY <1>0
<1> QED BY <1>2, <1>3, <1>4 DEF PlacesCounted

\* What the tokens say does not depend on requests without the mutex.
LEMMA TokensKept ==
    ASSUME MediaInv, NEW r \in Requests, NEW q \in MediaRequest,
           mediaRequests' = [mediaRequests EXCEPT ![r] = q],
           mediaRequests[r].at \notin {"token", "save", "set"}, q.at \notin {"token", "save", "set"},
           UNCHANGED <<mediaTokenMu, mediaRefreshToken, mediaConfig, mediaIssued, mediaLost>>
    PROVE  TokensTold'
<1>0. mediaRequests \in [Requests -> MediaRequest]
  BY MediaTypes DEF MediaInv
<1>1. \A w \in Requests : mediaRequests'[w] = IF w = r THEN q ELSE mediaRequests[w]
  BY <1>0
<1>2. (AtPlace("save")' <=> AtPlace("save")) /\ (AtPlace("set")' <=> AtPlace("set"))
  BY <1>1 DEF AtPlace
<1> QED BY <1>1, <1>2 DEF MediaInv, TokensTold

LEMMA MediaInit ==
    ASSUME Serving!Init
    PROVE  MediaInv
<1>1. \A r \in Requests : mediaRequests[r] = Serving!New
  BY DEF Serving!Init
<1>2. Serving!New \in MediaRequest /\ Serving!New.at = "new" /\ Serving!New.kind = "view"
  BY DEF Serving!New, MediaRequest
<1>3. Cardinality({}) = 0 /\ IsFiniteSet({})
  BY FS_EmptySet
<1>4. Serving!TypeOK
  <2>1. /\ 0 \in 0 .. MaxPending /\ 0 \in 0 .. MaxUploads /\ 0 \in 0 .. Places
        /\ 0 \in 0 .. MaxMediaCrashes /\ 1 \in 1 .. MaxRotations /\ 0 <= 1
    BY MediaConstants
  <2>2. mediaRequests \in [Requests -> MediaRequest]
    BY <1>2 DEF Serving!Init
  <2> QED BY <1>3, <2>1, <2>2, MediaTypes DEF Serving!Init
<1>5. HoldersOf("pending") = {} /\ HoldersOf("uploading") = {} /\ HoldersOf("serving") = {}
  BY <1>1, <1>2 DEF HoldersOf, Places3
<1>6. PlacesCounted /\ ViewsHaveTheRest
  BY <1>3, <1>5 DEF PlacesCounted, ViewsHaveTheRest, Serving!Init
<1>7. TokensTold
  BY <1>1, <1>2 DEF TokensTold, AtPlace, Serving!Init
<1> QED BY <1>1, <1>2, <1>4, <1>6, <1>7 DEF MediaInv, OnlyUploadsQueue

\* A step outside of the token's mutex: places move, refusals aside.
LEMMA PlacesStep ==
    ASSUME MediaInv, NEW r \in Requests, NEW q \in MediaRequest,
           mediaRequests' = [mediaRequests EXCEPT ![r] = q],
           mediaRequests[r].at \notin {"token", "save", "set"}, q.at \notin {"token", "save", "set"},
           q.at = "queued" => q.kind = "upload",
           mediaUploadRequests' = mediaUploadRequests - One(Places3(mediaRequests[r]).pending)
                                    + One(Places3(q).pending),
           mediaUploadInFlight' = mediaUploadInFlight - One(Places3(mediaRequests[r]).uploading)
                                    + One(Places3(q).uploading),
           mediaInFlight' = mediaInFlight - One(Places3(mediaRequests[r]).serving)
                                    + One(Places3(q).serving),
           Places3(q).pending => Places3(mediaRequests[r]).pending \/ mediaUploadRequests < MaxPending,
           Places3(q).uploading => Places3(mediaRequests[r]).uploading \/ mediaUploadInFlight < MaxUploads,
           Places3(q).serving => Places3(mediaRequests[r]).serving \/ mediaInFlight < Places,
           mediaRefused' \in {"upload", "view", "none"}, ViewsHaveTheRest',
           UNCHANGED Serving!tokens
    PROVE  MediaInv'
<1>1. /\ PlacesCounted'
      /\ mediaRequests' \in [Requests -> MediaRequest]
      /\ mediaUploadRequests' \in Nat /\ mediaUploadInFlight' \in Nat /\ mediaInFlight' \in Nat
  BY PlacesMove
<1>2. TokensTold'
  BY TokensKept DEF Serving!tokens
<1>3. /\ mediaUploadRequests \in 0 .. MaxPending /\ mediaUploadInFlight \in 0 .. MaxUploads
      /\ mediaInFlight \in 0 .. Places
  BY MediaTypes DEF MediaInv
<1>4. /\ mediaUploadRequests' <= MaxPending /\ mediaUploadInFlight' <= MaxUploads
      /\ mediaInFlight' <= Places
  BY <1>3, MediaConstants DEF One
<1>5. Serving!TypeOK'
  <2>1. /\ mediaUploadRequests' \in 0 .. MaxPending /\ mediaUploadInFlight' \in 0 .. MaxUploads
        /\ mediaInFlight' \in 0 .. Places
    BY <1>1, <1>4, MediaConstants
  <2> QED BY <1>1, <2>1 DEF MediaInv, Serving!tokens, Serving!TypeOK, Serving!Kinds,
            Serving!Steps, MediaRequest
<1>6. OnlyUploadsQueue'
  <2>1. \A w \in Requests : mediaRequests'[w] = IF w = r THEN q ELSE mediaRequests[w]
    BY MediaTypes DEF MediaInv
  <2> QED BY <2>1 DEF MediaInv, OnlyUploadsQueue
<1> QED BY <1>1, <1>2, <1>5, <1>6 DEF MediaInv

LEMMA MediaArrive ==
    ASSUME MediaInv, NEW r \in Requests, NEW kind \in Serving!Kinds, Serving!Arrive(r, kind)
    PROVE  MediaInv'
<1>0. /\ mediaRequests[r].at = "new" /\ kind \in {"upload", "view"}
      /\ UNCHANGED <<mediaUploadInFlight, mediaInFlight, Serving!tokens>>
      /\ mediaUploadRequests \in 0 .. MaxPending /\ mediaUploadInFlight \in Nat /\ mediaInFlight \in Nat
  BY MediaTypes, MediaConstants DEF MediaInv, Serving!Arrive, Serving!At, Serving!Kinds, Serving!tokens
<1>1. CASE kind = "upload" /\ mediaUploadRequests = MaxPending
  <2>1. mediaRefused' = "upload" /\ UNCHANGED <<mediaRequests, mediaUploadRequests>>
    BY <1>1 DEF Serving!Arrive
  <2>2. PlacesCounted' /\ TokensTold' /\ OnlyUploadsQueue'
    BY <1>0, <2>1 DEF MediaInv, PlacesCounted, HoldersOf, TokensTold, AtPlace, Serving!tokens, OnlyUploadsQueue
  <2>3. Serving!TypeOK' /\ ViewsHaveTheRest'
    BY <1>0, <2>1 DEF MediaInv, Serving!TypeOK, ViewsHaveTheRest, Serving!Kinds, Serving!tokens
  <2> QED BY <2>2, <2>3 DEF MediaInv
<1>2. CASE ~(kind = "upload" /\ mediaUploadRequests = MaxPending)
  <2> DEFINE q == [kind |-> kind, at |-> IF kind = "upload" THEN "queued" ELSE "entering"]
  <2>1. q \in MediaRequest /\ q.kind = kind /\ q.at = IF kind = "upload" THEN "queued" ELSE "entering"
    BY <1>0 DEF MediaRequest
  <2>2. /\ mediaRequests' = [mediaRequests EXCEPT ![r] = q] /\ mediaRefused' = "none"
        /\ mediaUploadRequests' = IF kind = "upload" THEN mediaUploadRequests + 1 ELSE mediaUploadRequests
    BY <1>0, <1>2 DEF Serving!Arrive
  <2> HIDE DEF q
  <2>3. /\ ~Places3(mediaRequests[r]).pending /\ ~Places3(mediaRequests[r]).uploading
        /\ ~Places3(mediaRequests[r]).serving
        /\ Places3(q).pending <=> kind = "upload"
        /\ ~Places3(q).uploading /\ ~Places3(q).serving
    BY <1>0, <2>1 DEF Places3
  <2>4. kind = "upload" => mediaUploadRequests < MaxPending
    BY <1>0, <1>2, MediaConstants
  <2>5. ViewsHaveTheRest'
    BY <2>2 DEF ViewsHaveTheRest
  <2>6. /\ mediaUploadRequests' = mediaUploadRequests - One(Places3(mediaRequests[r]).pending)
                                    + One(Places3(q).pending)
        /\ mediaUploadInFlight' = mediaUploadInFlight - One(Places3(mediaRequests[r]).uploading)
                                    + One(Places3(q).uploading)
        /\ mediaInFlight' = mediaInFlight - One(Places3(mediaRequests[r]).serving)
                                    + One(Places3(q).serving)
    BY <1>0, <2>2, <2>3 DEF One
  <2>7. q.at \notin {"token", "save", "set"} /\ mediaRequests[r].at \notin {"token", "save", "set"}
        /\ (q.at = "queued" => q.kind = "upload")
    BY <1>0, <2>1
  <2> QED BY <1>0, <2>1, <2>2, <2>3, <2>4, <2>5, <2>6, <2>7, PlacesStep
<1> QED BY <1>1, <1>2

LEMMA MediaBeginUpload ==
    ASSUME MediaInv, NEW r \in Requests, Serving!BeginUpload(r)
    PROVE  MediaInv'
<1>0. /\ mediaRequests[r] \in MediaRequest /\ mediaRequests[r].at = "queued"
      /\ mediaRequests[r].kind = "upload"
      /\ mediaUploadInFlight < MaxUploads /\ mediaUploadInFlight' = mediaUploadInFlight + 1
      /\ UNCHANGED <<mediaUploadRequests, mediaInFlight, Serving!tokens>> /\ mediaRefused' = "none"
      /\ mediaUploadRequests \in Nat /\ mediaUploadInFlight \in Nat /\ mediaInFlight \in Nat
  BY MediaTypes, MediaConstants DEF MediaInv, OnlyUploadsQueue, Serving!BeginUpload, Serving!At,
     Serving!MayUpload, Serving!tokens
<1> DEFINE q == [mediaRequests[r] EXCEPT !.at = "entering"]
<1>1. q \in MediaRequest /\ q.kind = "upload" /\ q.at = "entering"
  BY <1>0 DEF MediaRequest
<1>2. mediaRequests' = [mediaRequests EXCEPT ![r] = q]
  BY <1>0 DEF Serving!BeginUpload, Serving!Goes
<1> HIDE DEF q
<1>3. /\ Places3(mediaRequests[r]).pending /\ ~Places3(mediaRequests[r]).uploading
      /\ ~Places3(mediaRequests[r]).serving
      /\ Places3(q).pending /\ Places3(q).uploading /\ ~Places3(q).serving
  BY <1>0, <1>1 DEF Places3
<1>4. ViewsHaveTheRest'
  BY <1>0 DEF ViewsHaveTheRest
<1>5. /\ mediaUploadRequests' = mediaUploadRequests - One(Places3(mediaRequests[r]).pending)
                                  + One(Places3(q).pending)
      /\ mediaUploadInFlight' = mediaUploadInFlight - One(Places3(mediaRequests[r]).uploading)
                                  + One(Places3(q).uploading)
      /\ mediaInFlight' = mediaInFlight - One(Places3(mediaRequests[r]).serving)
                                  + One(Places3(q).serving)
  BY <1>0, <1>3 DEF One
<1> QED BY <1>0, <1>1, <1>2, <1>3, <1>4, <1>5, PlacesStep

\* A request that ends outside of the mutex gives back all its places.
LEMMA MediaEnds ==
    ASSUME MediaInv, NEW r \in Requests, Serving!GiveBack(r), Serving!Ends(r),
           mediaRequests[r].at \in {"queued", "entering", "working"},
           mediaRefused' \in {"upload", "view", "none"}, ViewsHaveTheRest',
           UNCHANGED Serving!tokens
    PROVE  MediaInv'
<1>0. /\ mediaRequests[r] \in MediaRequest
      /\ mediaUploadRequests \in Nat /\ mediaUploadInFlight \in Nat /\ mediaInFlight \in Nat
  BY MediaTypes, MediaConstants DEF MediaInv
<1> DEFINE q == Serving!New
<1>1. q \in MediaRequest /\ q.at = "new"
  BY DEF MediaRequest, Serving!New
<1>2. mediaRequests' = [mediaRequests EXCEPT ![r] = q]
  BY DEF Serving!Ends
<1> HIDE DEF q
<1>3. /\ Places3(mediaRequests[r]).pending <=> mediaRequests[r].kind = "upload"
      /\ Places3(mediaRequests[r]).uploading <=> mediaRequests[r].kind = "upload" /\ mediaRequests[r].at # "queued"
      /\ Places3(mediaRequests[r]).serving <=> mediaRequests[r].at = "working"
      /\ ~Places3(q).pending /\ ~Places3(q).uploading /\ ~Places3(q).serving
  BY <1>0, <1>1 DEF Places3
<1>4. /\ Serving!Pending(r) = One(Places3(mediaRequests[r]).pending)
      /\ Serving!Uploading(r) = One(Places3(mediaRequests[r]).uploading)
      /\ Serving!Serving(r) = One(Places3(mediaRequests[r]).serving)
  BY <1>3 DEF One, Serving!Pending, Serving!Uploading, Serving!Serving, Serving!Upload, Serving!At,
     Serving!InService
<1>5. /\ mediaUploadRequests' = mediaUploadRequests - One(Places3(mediaRequests[r]).pending)
                                  + One(Places3(q).pending)
      /\ mediaUploadInFlight' = mediaUploadInFlight - One(Places3(mediaRequests[r]).uploading)
                                  + One(Places3(q).uploading)
      /\ mediaInFlight' = mediaInFlight - One(Places3(mediaRequests[r]).serving)
                                  + One(Places3(q).serving)
  <2>1. One(Places3(q).pending) = 0 /\ One(Places3(q).uploading) = 0 /\ One(Places3(q).serving) = 0
    BY <1>3 DEF One
  <2>2. \A b : One(b) \in {0, 1}
    BY DEF One
  <2> QED BY <1>0, <1>4, <2>1, <2>2 DEF Serving!GiveBack
<1> QED BY <1>0, <1>1, <1>2, <1>3, <1>5, PlacesStep

LEMMA MediaGiveUp ==
    ASSUME MediaInv, NEW r \in Requests, Serving!GiveUp(r) \/ Serving!Return(r)
    PROVE  MediaInv'
<1>1. mediaRefused' = "none" /\ mediaRequests[r].at \in {"queued", "entering", "working"}
  BY DEF Serving!GiveUp, Serving!Return, Serving!At
<1>2. ViewsHaveTheRest'
  BY <1>1 DEF ViewsHaveTheRest
<1>3. Serving!GiveBack(r) /\ Serving!Ends(r) /\ UNCHANGED Serving!tokens
  BY DEF Serving!GiveUp, Serving!Return
<1> QED BY <1>1, <1>2, <1>3, MediaEnds

\* Of the requests in the general places no more are uploads than may be
\* under way.
LEMMA ViewsInPlaces ==
    ASSUME MediaInv
    PROVE  /\ IsFiniteSet(ServingViews) /\ Cardinality(ServingViews) \in Nat
           /\ mediaInFlight <= Cardinality(ServingViews) + MaxUploads
<1> DEFINE uploads == {r \in HoldersOf("serving") : mediaRequests[r].kind = "upload"}
<1>1. uploads \in SUBSET HoldersOf("uploading")
  BY DEF HoldersOf, Places3
<1>2. /\ IsFiniteSet(HoldersOf("serving")) /\ IsFiniteSet(HoldersOf("uploading"))
      /\ mediaInFlight = Cardinality(HoldersOf("serving"))
      /\ Cardinality(HoldersOf("uploading")) \in 0 .. MaxUploads
  BY MediaTypes DEF MediaInv, PlacesCounted
<1>3. /\ IsFiniteSet(uploads) /\ Cardinality(uploads) \in Nat
      /\ Cardinality(uploads) <= Cardinality(HoldersOf("uploading"))
  BY <1>1, <1>2, FS_Subset, FS_CardinalityType
<1>4. HoldersOf("serving") \ uploads = ServingViews /\ HoldersOf("serving") \cap uploads = uploads
  BY DEF ServingViews
<1> HIDE DEF uploads
<1>5. /\ IsFiniteSet(ServingViews)
      /\ Cardinality(ServingViews) = mediaInFlight - Cardinality(uploads)
  BY <1>2, <1>4, FS_Difference
<1> QED BY <1>2, <1>3, <1>5, FS_CardinalityType, MediaConstants

LEMMA MediaEnter ==
    ASSUME MediaInv, NEW r \in Requests, Serving!Enter(r)
    PROVE  MediaInv'
<1>0. /\ mediaRequests[r] \in MediaRequest /\ mediaRequests[r].at = "entering"
      /\ mediaUploadRequests \in Nat /\ mediaUploadInFlight \in Nat /\ mediaInFlight \in 0 .. Places
      /\ mediaInFlight \in Nat /\ UNCHANGED Serving!tokens
  BY MediaTypes, MediaConstants DEF MediaInv, Serving!Enter, Serving!At
<1>1. CASE mediaInFlight < Places
  <2> DEFINE q == [mediaRequests[r] EXCEPT !.at = "working"]
  <2>1. q \in MediaRequest /\ q.kind = mediaRequests[r].kind /\ q.at = "working"
    BY <1>0 DEF MediaRequest
  <2>2. /\ mediaRequests' = [mediaRequests EXCEPT ![r] = q] /\ mediaRefused' = "none"
        /\ mediaInFlight' = mediaInFlight + 1 /\ UNCHANGED <<mediaUploadRequests, mediaUploadInFlight>>
    BY <1>1 DEF Serving!Enter, Serving!Goes
  <2> HIDE DEF q
  <2>3. /\ Places3(q).pending <=> Places3(mediaRequests[r]).pending
        /\ Places3(q).uploading <=> Places3(mediaRequests[r]).uploading
        /\ ~Places3(mediaRequests[r]).serving /\ Places3(q).serving
    BY <1>0, <2>1 DEF Places3
  <2>4. ViewsHaveTheRest'
    BY <2>2 DEF ViewsHaveTheRest
  <2>5. /\ mediaUploadRequests' = mediaUploadRequests - One(Places3(mediaRequests[r]).pending)
                                    + One(Places3(q).pending)
        /\ mediaUploadInFlight' = mediaUploadInFlight - One(Places3(mediaRequests[r]).uploading)
                                    + One(Places3(q).uploading)
        /\ mediaInFlight' = mediaInFlight - One(Places3(mediaRequests[r]).serving)
                                    + One(Places3(q).serving)
    BY <1>0, <2>2, <2>3 DEF One
  <2> QED BY <1>0, <1>1, <2>1, <2>2, <2>3, <2>4, <2>5, PlacesStep
<1>2. CASE ~(mediaInFlight < Places)
  <2>1. Serving!GiveBack(r) /\ Serving!Ends(r) /\ mediaRefused' = mediaRequests[r].kind
    BY <1>2 DEF Serving!Enter
  <2>2. mediaRefused' \in {"upload", "view", "none"}
    BY <1>0, <2>1 DEF MediaRequest
  <2>3. ServingViews' = ServingViews
    <3>1. \A w \in Requests : w # r => mediaRequests'[w] = mediaRequests[w]
      BY <2>1, MediaTypes DEF MediaInv, Serving!Ends
    <3>2. mediaRequests'[r].at = "new"
      BY <2>1, MediaTypes DEF MediaInv, Serving!Ends, Serving!New
    <3> QED BY <1>0, <3>1, <3>2 DEF ServingViews, HoldersOf, Places3
  <2>4. Cardinality(ServingViews) + MaxUploads >= Places
    BY <1>0, <1>2, ViewsInPlaces, MediaConstants
  <2>5. ViewsHaveTheRest'
    BY <2>3, <2>4 DEF ViewsHaveTheRest
  <2> QED BY <1>0, <2>1, <2>2, <2>5, MediaEnds
<1> QED BY <1>1, <1>2

\* A request in the general places that gets or holds the mutex keeps its
\* places; what remains to be shown of such a step is about tokens.
LEMMA TokenMoves ==
    ASSUME MediaInv, NEW r \in Requests, NEW step \in {"working", "token", "save", "set"},
           mediaRequests[r].at \in {"working", "token", "save", "set"}, Serving!Goes(r, step),
           UNCHANGED <<mediaUploadRequests, mediaUploadInFlight, mediaInFlight, mediaCrashes>>,
           mediaRefused' = "none", mediaTokenMu' = {} \/ mediaTokenMu' = {r},
           {mediaRefreshToken', mediaConfig', mediaIssued'} \subseteq 1 .. MaxRotations,
           mediaLost' \subseteq 1 .. MaxRotations, mediaAccessToken' \in BOOLEAN
    PROVE  /\ TokensTold' => MediaInv'
           /\ \A w \in Requests : mediaRequests'[w].at = IF w = r THEN step ELSE mediaRequests[w].at
<1>0. /\ mediaRequests[r] \in MediaRequest /\ mediaRequests \in [Requests -> MediaRequest]
      /\ mediaUploadRequests \in Nat /\ mediaUploadInFlight \in Nat /\ mediaInFlight \in Nat
  BY MediaTypes, MediaConstants DEF MediaInv
<1> DEFINE q == [mediaRequests[r] EXCEPT !.at = step]
<1>1. q \in MediaRequest /\ q.at = step /\ q.kind = mediaRequests[r].kind
  BY <1>0 DEF MediaRequest
<1>2. mediaRequests' = [mediaRequests EXCEPT ![r] = q]
  BY <1>0 DEF Serving!Goes
<1> HIDE DEF q
<1>3. \A w \in Requests : mediaRequests'[w] = IF w = r THEN q ELSE mediaRequests[w]
  BY <1>0, <1>2
<1>4. /\ Places3(q).pending <=> Places3(mediaRequests[r]).pending
      /\ Places3(q).uploading <=> Places3(mediaRequests[r]).uploading
      /\ Places3(q).serving <=> Places3(mediaRequests[r]).serving
  BY <1>0, <1>1 DEF Places3
<1>5. /\ mediaUploadRequests' = mediaUploadRequests - One(Places3(mediaRequests[r]).pending)
                                  + One(Places3(q).pending)
      /\ mediaUploadInFlight' = mediaUploadInFlight - One(Places3(mediaRequests[r]).uploading)
                                  + One(Places3(q).uploading)
      /\ mediaInFlight' = mediaInFlight - One(Places3(mediaRequests[r]).serving)
                                  + One(Places3(q).serving)
  BY <1>0, <1>4 DEF One
<1>6. PlacesCounted' /\ mediaRequests' \in [Requests -> MediaRequest]
  BY <1>1, <1>2, <1>5, PlacesMove
<1>7. OnlyUploadsQueue' /\ ViewsHaveTheRest'
  BY <1>1, <1>3 DEF MediaInv, OnlyUploadsQueue, ViewsHaveTheRest
<1>8. Serving!TypeOK'
  <2>1. Cardinality(mediaTokenMu') <= 1 /\ mediaTokenMu' \in SUBSET Requests
    <3>1. Cardinality({}) = 0 /\ Cardinality({r}) = 1
      BY FS_EmptySet, FS_Singleton
    <3> QED BY <3>1
  <2>2. Serving!Cardinality(mediaTokenMu') = Cardinality(mediaTokenMu')
    BY DEF Serving!Cardinality, Cardinality
  <2> QED BY <1>6, <2>1, <2>2 DEF MediaInv, Serving!TypeOK, Serving!Kinds, Serving!Steps, MediaRequest
<1>9. \A w \in Requests : mediaRequests'[w].at = IF w = r THEN step ELSE mediaRequests[w].at
  BY <1>1, <1>3
<1> QED BY <1>6, <1>7, <1>8, <1>9 DEF MediaInv

\* The mutex tells where the others are.
LEMMA OneHolder ==
    ASSUME MediaInv, NEW r \in Requests, mediaRequests[r].at \in {"token", "save", "set"}
    PROVE  /\ mediaTokenMu = {r}
           /\ \A w \in Requests : w # r => mediaRequests[w].at \notin {"token", "save", "set"}
BY DEF MediaInv, TokensTold

LEMMA TokenTypes ==
    ASSUME MediaInv
    PROVE  /\ mediaRefreshToken \in 1 .. MaxRotations /\ mediaConfig \in 1 .. MaxRotations
           /\ mediaIssued \in 1 .. MaxRotations /\ mediaLost \subseteq 1 .. MaxRotations
           /\ mediaAccessToken \in BOOLEAN /\ MaxRotations \in Nat
BY MediaTypes, MediaConstants DEF MediaInv

LEMMA MediaLockToken ==
    ASSUME MediaInv, NEW r \in Requests, Serving!LockToken(r)
    PROVE  MediaInv'
<1>1. /\ mediaRequests[r].at = "working" /\ mediaTokenMu = {} /\ mediaTokenMu' = {r}
      /\ Serving!Goes(r, "token") /\ mediaRefused' = "none"
      /\ UNCHANGED <<mediaUploadRequests, mediaUploadInFlight, mediaInFlight, mediaRefreshToken,
                     mediaConfig, mediaAccessToken, mediaIssued, mediaLost, mediaCrashes>>
  BY DEF Serving!LockToken, Serving!At, Serving!places
<1>2. /\ TokensTold' => MediaInv'
      /\ \A w \in Requests : mediaRequests'[w].at = IF w = r THEN "token" ELSE mediaRequests[w].at
  BY <1>1, TokenTypes, TokenMoves
<1>3. \A w \in Requests : mediaRequests[w].at \notin {"token", "save", "set"}
  BY <1>1 DEF MediaInv, TokensTold
<1>4. ~AtPlace("save") /\ ~AtPlace("set") /\ ~AtPlace("save")' /\ ~AtPlace("set")'
  BY <1>2, <1>3 DEF AtPlace
<1>5. TokensTold'
  BY <1>1, <1>2, <1>3, <1>4 DEF MediaInv, TokensTold
<1> QED BY <1>2, <1>5

LEMMA MediaAskGoogle ==
    ASSUME MediaInv, NEW r \in Requests, Serving!AskGoogle(r)
    PROVE  MediaInv'
<1>0. /\ mediaRequests[r].at = "token" /\ mediaRefused' = "none"
      /\ UNCHANGED <<mediaUploadRequests, mediaUploadInFlight, mediaInFlight, mediaRefreshToken,
                     mediaConfig, mediaLost, mediaCrashes>>
  BY DEF Serving!AskGoogle, Serving!At, Serving!places
<1>1. /\ mediaTokenMu = {r}
      /\ \A w \in Requests : w # r => mediaRequests[w].at \notin {"token", "save", "set"}
  BY <1>0, OneHolder
<1>2. ~AtPlace("save") /\ ~AtPlace("set")
  BY <1>0, <1>1 DEF AtPlace
<1>3. CASE Serving!Unlock(r) /\ mediaAccessToken' \in BOOLEAN /\ mediaIssued' = mediaIssued
  <2>1. Serving!Goes(r, "working") /\ mediaTokenMu' = {}
    BY <1>3 DEF Serving!Unlock
  <2>2. /\ TokensTold' => MediaInv'
        /\ \A w \in Requests : mediaRequests'[w].at = IF w = r THEN "working" ELSE mediaRequests[w].at
    BY <1>0, <1>3, <2>1, TokenTypes, TokenMoves
  <2>3. ~AtPlace("save")' /\ ~AtPlace("set")'
    BY <1>1, <2>2 DEF AtPlace
  <2>4. TokensTold'
    BY <1>0, <1>1, <1>2, <1>3, <2>1, <2>2, <2>3 DEF MediaInv, TokensTold
  <2> QED BY <2>2, <2>4
<1>4. CASE /\ mediaIssued < MaxRotations /\ mediaIssued' = mediaIssued + 1
           /\ Serving!Goes(r, "save") /\ UNCHANGED <<mediaTokenMu, mediaAccessToken>>
  <2>1. mediaIssued' \in 1 .. MaxRotations
    BY <1>4, TokenTypes
  <2>2. /\ TokensTold' => MediaInv'
        /\ \A w \in Requests : mediaRequests'[w].at = IF w = r THEN "save" ELSE mediaRequests[w].at
    BY <1>0, <1>1, <1>4, <2>1, TokenTypes, TokenMoves
  <2>3. AtPlace("save")' /\ ~AtPlace("set")'
    BY <1>1, <2>2 DEF AtPlace
  <2>4. \A t \in 1 .. mediaIssued' : t \in 1 .. mediaIssued \/ t = mediaIssued'
    BY <1>4, TokenTypes
  <2>5. 1 .. mediaIssued \subseteq 1 .. mediaIssued' /\ mediaIssued' \notin 1 .. mediaIssued
    BY <1>4, TokenTypes
  <2>6. /\ mediaLost' \subseteq 1 .. mediaIssued' /\ mediaIssued' \notin mediaLost'
        /\ mediaConfig' \in (1 .. mediaIssued') \ mediaLost' /\ mediaConfig' < mediaIssued'
    <3>1. mediaConfig < mediaIssued'
      BY <1>4, TokenTypes DEF MediaInv, TokensTold
    <3> QED BY <1>0, <2>5, <3>1 DEF MediaInv, TokensTold
  <2>7. \A t \in (1 .. mediaIssued') \ mediaLost' : t <= mediaConfig' \/ t = mediaIssued'
    BY <1>0, <1>2, <2>4 DEF MediaInv, TokensTold
  <2>8. /\ \A v, w \in mediaTokenMu' : v = w
        /\ \A w \in Requests : mediaRequests'[w].at \in {"token", "save", "set"} <=> w \in mediaTokenMu'
        /\ mediaRefreshToken' = mediaConfig'
    BY <1>0, <1>1, <1>2, <1>4, <2>2 DEF MediaInv, TokensTold
  <2>9. TokensTold'
    BY <2>3, <2>6, <2>7, <2>8 DEF TokensTold
  <2> QED BY <2>2, <2>9
<1> QED BY <1>3, <1>4, TokenTypes DEF Serving!AskGoogle

LEMMA MediaSave ==
    ASSUME MediaInv, NEW r \in Requests, Serving!Save(r)
    PROVE  MediaInv'
<1>0. /\ mediaRequests[r].at = "save" /\ mediaRefused' = "none"
      /\ UNCHANGED <<mediaUploadRequests, mediaUploadInFlight, mediaInFlight, mediaRefreshToken,
                     mediaAccessToken, mediaIssued, mediaCrashes>>
  BY DEF Serving!Save, Serving!At, Serving!places
<1>1. /\ mediaTokenMu = {r}
      /\ \A w \in Requests : w # r => mediaRequests[w].at \notin {"token", "save", "set"}
  BY <1>0, OneHolder
<1>2. AtPlace("save") /\ ~AtPlace("set")
  BY <1>0, <1>1 DEF AtPlace
<1>3. mediaIssued \in 1 .. mediaIssued /\ mediaIssued \notin mediaLost
      /\ mediaConfig < mediaIssued /\ mediaRefreshToken = mediaConfig
  BY <1>2, TokenTypes DEF MediaInv, TokensTold
<1>4. CASE mediaConfig' = mediaIssued /\ Serving!Goes(r, "set") /\ UNCHANGED <<mediaTokenMu, mediaLost>>
  <2>2. /\ TokensTold' => MediaInv'
        /\ \A w \in Requests : mediaRequests'[w].at = IF w = r THEN "set" ELSE mediaRequests[w].at
    BY <1>0, <1>1, <1>4, TokenTypes, TokenMoves
  <2>3. ~AtPlace("save")' /\ AtPlace("set")'
    BY <1>1, <2>2 DEF AtPlace
  <2>4. \A t \in 1 .. mediaIssued : t <= mediaIssued
    BY TokenTypes
  <2>5. TokensTold'
    BY <1>0, <1>1, <1>3, <1>4, <2>2, <2>3, <2>4 DEF MediaInv, TokensTold
  <2> QED BY <2>2, <2>5
<1>5. CASE Serving!Unlock(r) /\ mediaLost' = mediaLost \cup {mediaIssued} /\ UNCHANGED mediaConfig
  <2>1. Serving!Goes(r, "working") /\ mediaTokenMu' = {}
    BY <1>5 DEF Serving!Unlock
  <2>2. /\ TokensTold' => MediaInv'
        /\ \A w \in Requests : mediaRequests'[w].at = IF w = r THEN "working" ELSE mediaRequests[w].at
    BY <1>0, <1>5, <2>1, TokenTypes, TokenMoves
  <2>3. ~AtPlace("save")' /\ ~AtPlace("set")'
    BY <1>1, <2>2 DEF AtPlace
  <2>4. mediaConfig # mediaIssued
    BY <1>3, TokenTypes
  <2>5. TokensTold'
    BY <1>0, <1>1, <1>3, <1>5, <2>1, <2>2, <2>3, <2>4 DEF MediaInv, TokensTold
  <2> QED BY <2>2, <2>5
<1> QED BY <1>4, <1>5 DEF Serving!Save, Serving!SaveConfig

LEMMA MediaSetTokens ==
    ASSUME MediaInv, NEW r \in Requests, Serving!SetTokens(r)
    PROVE  MediaInv'
<1>0. /\ mediaRequests[r].at = "set" /\ mediaRefused' = "none"
      /\ mediaRefreshToken' = mediaIssued /\ mediaAccessToken' = TRUE
      /\ mediaTokenMu' = {} /\ Serving!Goes(r, "working")
      /\ UNCHANGED <<mediaUploadRequests, mediaUploadInFlight, mediaInFlight, mediaConfig,
                     mediaIssued, mediaLost, mediaCrashes>>
  BY DEF Serving!SetTokens, Serving!At, Serving!places, Serving!Unlock
<1>1. /\ mediaTokenMu = {r}
      /\ \A w \in Requests : w # r => mediaRequests[w].at \notin {"token", "save", "set"}
  BY <1>0, OneHolder
<1>2. AtPlace("set") /\ ~AtPlace("save") /\ mediaConfig = mediaIssued
  BY <1>0, <1>1 DEF AtPlace, MediaInv, TokensTold
<1>3. /\ TokensTold' => MediaInv'
      /\ \A w \in Requests : mediaRequests'[w].at = IF w = r THEN "working" ELSE mediaRequests[w].at
  BY <1>0, TokenTypes, TokenMoves
<1>4. ~AtPlace("save")' /\ ~AtPlace("set")'
  BY <1>1, <1>3 DEF AtPlace
<1>5. TokensTold'
  BY <1>0, <1>1, <1>2, <1>3, <1>4 DEF MediaInv, TokensTold
<1> QED BY <1>3, <1>5

LEMMA MediaTokenExpires ==
    ASSUME MediaInv, Serving!TokenExpires
    PROVE  MediaInv'
<1>1. PlacesCounted' /\ TokensTold' /\ OnlyUploadsQueue' /\ ViewsHaveTheRest'
  BY DEF Serving!TokenExpires, Serving!places, MediaInv, PlacesCounted, HoldersOf, TokensTold, AtPlace,
     OnlyUploadsQueue, ViewsHaveTheRest
<1>2. Serving!TypeOK'
  BY DEF Serving!TokenExpires, Serving!places, MediaInv, Serving!TypeOK
<1> QED BY <1>1, <1>2 DEF MediaInv

\* What was between Google and the file when the process ended is lost.
LEMMA MediaRestart ==
    ASSUME MediaInv, Serving!Restart
    PROVE  MediaInv'
<1>0. /\ mediaRequests' = [r \in Requests |-> Serving!New] /\ mediaTokenMu' = {}
      /\ mediaUploadRequests' = 0 /\ mediaUploadInFlight' = 0 /\ mediaInFlight' = 0
      /\ mediaCrashes < MaxMediaCrashes /\ mediaCrashes' = mediaCrashes + 1
      /\ mediaRefreshToken' = mediaConfig /\ mediaAccessToken' = FALSE /\ mediaRefused' = "none"
      /\ UNCHANGED <<mediaConfig, mediaIssued>>
  BY DEF Serving!Restart
<1>1. /\ AtPlace("save") => mediaLost' = mediaLost \cup {mediaIssued}
      /\ ~AtPlace("save") => mediaLost' = mediaLost
  BY DEF Serving!Restart, Serving!At, AtPlace
<1>2. \A r \in Requests : mediaRequests'[r] = Serving!New
  BY <1>0
<1>3. Serving!New \in MediaRequest /\ Serving!New.at = "new" /\ Serving!New.kind = "view"
  BY DEF Serving!New, MediaRequest
<1>4. Cardinality({}) = 0 /\ IsFiniteSet({})
  BY FS_EmptySet
<1>5. ~AtPlace("save")' /\ ~AtPlace("set")'
  BY <1>2, <1>3 DEF AtPlace
<1>6. mediaIssued \in 1 .. mediaIssued /\ mediaIssued \in 1 .. MaxRotations
  BY TokenTypes
<1>7. TokensTold'
  <2>1. /\ mediaLost' \subseteq 1 .. mediaIssued
        /\ mediaConfig \in (1 .. mediaIssued) \ mediaLost'
        /\ \A t \in (1 .. mediaIssued) \ mediaLost' : t <= mediaConfig
    <3>1. AtPlace("save") => mediaConfig # mediaIssued
      BY TokenTypes DEF MediaInv, TokensTold
    <3> QED BY <1>1, <1>6, <3>1 DEF MediaInv, TokensTold
  <2> QED BY <1>0, <1>2, <1>3, <1>5, <2>1 DEF TokensTold
<1>8. HoldersOf("pending")' = {} /\ HoldersOf("uploading")' = {} /\ HoldersOf("serving")' = {}
  BY <1>2, <1>3 DEF HoldersOf, Places3
<1>9. PlacesCounted' /\ ViewsHaveTheRest' /\ OnlyUploadsQueue'
  BY <1>0, <1>2, <1>3, <1>4, <1>8 DEF PlacesCounted, ViewsHaveTheRest, OnlyUploadsQueue
<1>10. Serving!TypeOK'
  <2>1. /\ 0 \in 0 .. MaxPending /\ 0 \in 0 .. MaxUploads /\ 0 \in 0 .. Places /\ 0 <= 1
    BY MediaConstants
  <2>2. mediaCrashes' \in 0 .. MaxMediaCrashes
    BY <1>0, MediaTypes, MediaConstants DEF MediaInv
  <2>3. mediaRequests' \in [Requests -> MediaRequest]
    BY <1>0, <1>3
  <2>4. mediaLost' \subseteq 1 .. MaxRotations
    BY <1>1, <1>6, TokenTypes
  <2>5. Serving!Cardinality(mediaTokenMu') = Cardinality(mediaTokenMu')
    BY DEF Serving!Cardinality, Cardinality
  <2> QED BY <1>0, <1>4, <2>1, <2>2, <2>3, <2>4, <2>5, TokenTypes DEF Serving!TypeOK, Serving!Kinds,
            Serving!Steps, MediaRequest
<1> QED BY <1>7, <1>9, <1>10 DEF MediaInv

LEMMA MediaNext ==
    ASSUME MediaInv, [Serving!Next]_(Serving!vars)
    PROVE  MediaInv'
<1>1. CASE UNCHANGED Serving!vars
  <2>1. PlacesCounted' /\ TokensTold' /\ OnlyUploadsQueue' /\ ViewsHaveTheRest'
    BY <1>1 DEF Serving!vars, Serving!places, Serving!tokens, MediaInv, PlacesCounted, HoldersOf, TokensTold,
       AtPlace, OnlyUploadsQueue, ViewsHaveTheRest, ServingViews
  <2>2. Serving!TypeOK'
    BY <1>1 DEF Serving!vars, Serving!places, Serving!tokens, MediaInv, Serving!TypeOK
  <2> QED BY <2>1, <2>2 DEF MediaInv
<1>2. CASE Serving!Next
  BY <1>2, MediaArrive, MediaBeginUpload, MediaGiveUp, MediaEnter, MediaLockToken, MediaAskGoogle, MediaSave,
     MediaSetTokens, MediaTokenExpires, MediaRestart DEF Serving!Next
<1> QED BY <1>1, <1>2

LEMMA MediaConsistent ==
    ASSUME MediaInv
    PROVE  Serving!MediaRequestsConsistent
<1>0. \A r \in Requests : mediaRequests[r] \in MediaRequest
  BY MediaTypes DEF MediaInv
<1>1. /\ Serving!Holders(Serving!Pending) = HoldersOf("pending")
      /\ Serving!Holders(Serving!Uploading) = HoldersOf("uploading")
      /\ Serving!Holders(Serving!Serving) = HoldersOf("serving")
  <2>1. /\ Serving!Holders(Serving!Pending) = {r \in Requests : ~Serving!At(r, "new") /\ Serving!Pending(r) = 1}
        /\ Serving!Holders(Serving!Uploading) = {r \in Requests : ~Serving!At(r, "new") /\ Serving!Uploading(r) = 1}
        /\ Serving!Holders(Serving!Serving) = {r \in Requests : ~Serving!At(r, "new") /\ Serving!Serving(r) = 1}
    BY DEF Serving!Holders
  <2>2. ASSUME NEW r \in Requests
        PROVE  /\ (~Serving!At(r, "new") /\ Serving!Pending(r) = 1) <=> Places3(mediaRequests[r]).pending
               /\ (~Serving!At(r, "new") /\ Serving!Uploading(r) = 1) <=> Places3(mediaRequests[r]).uploading
               /\ (~Serving!At(r, "new") /\ Serving!Serving(r) = 1) <=> Places3(mediaRequests[r]).serving
    <3>1. /\ Serving!Pending(r) = 1 <=> mediaRequests[r].kind = "upload"
          /\ Serving!Uploading(r) = 1 <=> mediaRequests[r].kind = "upload" /\ mediaRequests[r].at # "queued"
          /\ Serving!Serving(r) = 1 <=> mediaRequests[r].at \in {"working", "token", "save", "set"}
          /\ Serving!At(r, "new") <=> mediaRequests[r].at = "new"
      BY DEF Serving!Pending, Serving!Uploading, Serving!Serving, Serving!Upload, Serving!At,
         Serving!InService
    <3>2. /\ Places3(mediaRequests[r]).pending <=> mediaRequests[r].at # "new" /\ mediaRequests[r].kind = "upload"
          /\ Places3(mediaRequests[r]).uploading <=>
                mediaRequests[r].at \notin {"new", "queued"} /\ mediaRequests[r].kind = "upload"
          /\ Places3(mediaRequests[r]).serving <=> mediaRequests[r].at \in {"working", "token", "save", "set"}
      BY DEF Places3
    <3> QED BY <3>1, <3>2
  <2> QED BY <2>1, <2>2 DEF HoldersOf
<1>2. \A S : Serving!Cardinality(S) = Cardinality(S)
  BY DEF Serving!Cardinality, Cardinality
<1>3. {r \in HoldersOf("serving") : ~Serving!Upload(r)} = ServingViews
  BY DEF ServingViews, Serving!Upload
<1>4. Serving!PlacesAreKept
  BY <1>1, <1>2, <1>3 DEF Serving!PlacesAreKept, MediaInv, PlacesCounted, ViewsHaveTheRest
<1>5. Serving!TokenSurvives
  <2>1. {r \in Requests : Serving!InService(r) /\ ~Serving!At(r, "working")} = mediaTokenMu
    BY MediaTypes DEF MediaInv, TokensTold, Serving!InService, Serving!At
  <2>2. (\A r \in Requests : ~Serving!At(r, "set")) => mediaRefreshToken = mediaConfig
    BY DEF MediaInv, TokensTold, AtPlace, Serving!At
  <2>3. /\ mediaConfig \in (1 .. mediaIssued) \ mediaLost
        /\ (\A r \in Requests : ~Serving!At(r, "save")) =>
              \A t \in (1 .. mediaIssued) \ mediaLost : t <= mediaConfig
    BY DEF MediaInv, TokensTold, AtPlace, Serving!At
  <2> QED BY <2>1, <2>2, <2>3 DEF Serving!TokenSurvives
<1> QED BY <1>4, <1>5 DEF MediaInv, Serving!MediaRequestsConsistent

-----------------------------------------------------------------------------
(* ThumbnailCache.                                                         *)
(*                                                                         *)
(* The bytes in the cache are a fold, a function defined by recursion over *)
(* the subsets of the keys.  What it satisfies is shown by the smallest    *)
(* set that does not satisfy it, which finite sets have.                   *)

First(S) == CHOOSE k \in S : TRUE

SizesFrom(c, S, g) == g = [s \in SUBSET S |->
    IF s = {} THEN 0 ELSE c[First(s)].size + g[s \ {First(s)}]]

Sizes(c, S) == (CHOOSE g : SizesFrom(c, S, g))[S]

LEMMA BytesAreSizes ==
    ASSUME NEW S
    PROVE Thumbnails!Bytes(S) = Sizes(thumbnailThumbnailCache, S)
BY DEF Thumbnails!Bytes, Thumbnails!MapThenSumSet, Thumbnails!MapThenFoldSet, Sizes, SizesFrom, First

LEMMA FirstIsIn == ASSUME NEW S, S # {} PROVE First(S) \in S
BY DEF First

LEMMA SmallestSet ==
    ASSUME NEW S, IsFiniteSet(S), NEW T \in SUBSET SUBSET S, T # {}
    PROVE  \E X \in T : IsFiniteSet(X) /\ \A Y \in T : Y \subseteq X => Y = X
<1>1. T \subseteq FiniteSubsetsOf(S)
  BY FS_Subset DEF FiniteSubsetsOf
<1>2. IsWellFoundedOn(StrictSubsetOrdering(S), FiniteSubsetsOf(S))
  BY FS_StrictSubsetOrderingWellFounded
<1>3. PICK X \in T : \A Y \in T : ~ (<<Y, X>> \in StrictSubsetOrdering(S))
  BY <1>1, <1>2, WFMin
<1>4. ASSUME NEW Y \in T, Y \subseteq X, Y # X PROVE FALSE
  <2>1. <<Y, X>> \in StrictSubsetOrdering(S)
    BY <1>4 DEF StrictSubsetOrdering
  <2> QED BY <1>3, <2>1
<1> QED BY <1>4, FS_Subset

\* Two functions of the recursion agree where both are defined.
LEMMA SizesUnique ==
    ASSUME NEW c, NEW S, NEW T, NEW g, NEW h, SizesFrom(c, S, g), SizesFrom(c, T, h),
           NEW u \in SUBSET S, u \in SUBSET T, IsFiniteSet(u)
    PROVE  g[u] = h[u]
<1> SUFFICES ASSUME g[u] # h[u] PROVE FALSE
  OBVIOUS
<1> DEFINE B == {s \in SUBSET u : g[s] # h[s]}
<1>1. B \in SUBSET SUBSET u /\ B # {}
  OBVIOUS
<1> HIDE DEF B
<1>2. PICK X \in B : IsFiniteSet(X) /\ \A Y \in B : Y \subseteq X => Y = X
  BY <1>1, SmallestSet
<1> USE DEF B
<1>3. X \in SUBSET S /\ X \in SUBSET T /\ X \in SUBSET u /\ g[X] # h[X]
  OBVIOUS
<1>4. g[X] = (IF X = {} THEN 0 ELSE c[First(X)].size + g[X \ {First(X)}])
  BY <1>3 DEF SizesFrom
<1>5. h[X] = (IF X = {} THEN 0 ELSE c[First(X)].size + h[X \ {First(X)}])
  BY <1>3 DEF SizesFrom
<1>6. X # {}
  BY <1>3, <1>4, <1>5
<1>7. PICK x : x = First(X)
  OBVIOUS
<1>8. x \in X /\ X \ {x} \in SUBSET u /\ X \ {x} # X
  BY <1>3, <1>6, <1>7, FirstIsIn
<1>9. g[X \ {x}] = h[X \ {x}]
  BY <1>2, <1>8
<1> QED BY <1>3, <1>4, <1>5, <1>6, <1>7, <1>9

LEMMA SizesStep ==
    ASSUME NEW c, NEW S, IsFiniteSet(S), S # {}, NEW x, x = First(S),
           \E g : SizesFrom(c, S, g), \E g : SizesFrom(c, S \ {x}, g)
    PROVE  Sizes(c, S) = c[x].size + Sizes(c, S \ {x})
<1>1. PICK g : g = CHOOSE f : SizesFrom(c, S, f)
  OBVIOUS
<1>2. PICK h : h = CHOOSE f : SizesFrom(c, S \ {x}, f)
  OBVIOUS
<1>3. SizesFrom(c, S, g) /\ SizesFrom(c, S \ {x}, h)
  BY <1>1, <1>2
<1>4. g[S] = c[x].size + g[S \ {x}]
  BY <1>3 DEF SizesFrom
<1>5. IsFiniteSet(S \ {x}) /\ S \ {x} \in SUBSET S
  BY FS_Subset
<1>6. g[S \ {x}] = h[S \ {x}]
  BY <1>3, <1>5, SizesUnique
<1> QED BY <1>1, <1>2, <1>4, <1>6 DEF Sizes

LEMMA SizesExist ==
    ASSUME NEW c, NEW S, IsFiniteSet(S)
    PROVE  \E g : SizesFrom(c, S, g)
<1> SUFFICES ASSUME ~ \E g : SizesFrom(c, S, g) PROVE FALSE
  OBVIOUS
<1> DEFINE B == {s \in SUBSET S : ~ \E g : SizesFrom(c, s, g)}
<1>1. B \in SUBSET SUBSET S /\ B # {}
  OBVIOUS
<1> HIDE DEF B
<1>2. PICK X \in B : IsFiniteSet(X) /\ \A Y \in B : Y \subseteq X => Y = X
  BY <1>1, SmallestSet
<1> USE DEF B
<1>3. X \in SUBSET S /\ ~ \E g : SizesFrom(c, X, g)
  OBVIOUS
<1>4. \A s \in SUBSET X : s # X => \E g : SizesFrom(c, s, g)
  BY <1>2, <1>3
<1> DEFINE G == [s \in SUBSET X |-> IF s # X THEN Sizes(c, s) ELSE
              IF X = {} THEN 0 ELSE c[First(X)].size + Sizes(c, X \ {First(X)})]
<1>5. ASSUME NEW s \in SUBSET X
      PROVE  G[s] = IF s = {} THEN 0
                    ELSE c[First(s)].size + G[s \ {First(s)}]
  <2>1. PICK x : x = First(s)
    OBVIOUS
  <2>2. CASE s = {}
    <3>1. CASE X = {}
      BY <2>2, <3>1
    <3>2. CASE X # {}
      <4>1. \E g : SizesFrom(c, {}, g)
        BY <1>4, <3>2
      <4>2. Sizes(c, {}) = 0
        BY <4>1 DEF Sizes, SizesFrom
      <4> QED BY <2>2, <3>2, <4>2
    <3> QED BY <3>1, <3>2
  <2>3. CASE s # {}
    <3>1. x \in s /\ s \ {x} \in SUBSET X /\ s \ {x} # X
      BY <2>1, <2>3, FirstIsIn
    <3>2. G[s \ {x}] = Sizes(c, s \ {x})
      BY <3>1
    <3>3. CASE s = X
      BY <2>1, <2>3, <3>2, <3>3
    <3>4. CASE s # X
      <4>1. G[s] = Sizes(c, s)
        BY <3>4
      <4>2. IsFiniteSet(s)
        BY <1>2, FS_Subset
      <4> HIDE DEF G
      <4>3. (\E g : SizesFrom(c, s, g)) /\ (\E g : SizesFrom(c, s \ {x}, g))
        BY <1>4, <3>1, <3>4
      <4>4. Sizes(c, s) = c[x].size + Sizes(c, s \ {x})
        BY ONLY <2>1, <2>3, <4>2, <4>3, SizesStep
      <4> QED BY <2>1, <2>3, <3>2, <4>1, <4>4
    <3> QED BY <3>3, <3>4
  <2> QED BY <2>2, <2>3
<1>6. G = [s \in SUBSET X |-> G[s]]
  OBVIOUS
<1>7. PICK g : g = G
  OBVIOUS
<1> HIDE DEF G
<1>8. SizesFrom(c, X, g)
  BY <1>5, <1>6, <1>7 DEF SizesFrom
<1> QED BY <1>3, <1>8

LEMMA SizesRec ==
    ASSUME NEW c, NEW S, IsFiniteSet(S)
    PROVE  /\ Sizes(c, {}) = 0
           /\ S # {} => \E x \in S : /\ x = First(S)
                                     /\ Sizes(c, S) = c[x].size + Sizes(c, S \ {x})
<1>1. Sizes(c, {}) = 0
  <2>1. \E g : SizesFrom(c, {}, g)
    BY SizesExist, FS_EmptySet
  <2> QED BY <2>1 DEF Sizes, SizesFrom
<1>2. ASSUME S # {} PROVE \E x \in S : /\ x = First(S)
                                       /\ Sizes(c, S) = c[x].size + Sizes(c, S \ {x})
  <2>1. PICK x : x = First(S)
    OBVIOUS
  <2>2. x \in S /\ IsFiniteSet(S \ {x})
    BY <1>2, <2>1, FS_Subset, FirstIsIn
  <2>3. (\E g : SizesFrom(c, S, g)) /\ (\E g : SizesFrom(c, S \ {x}, g))
    BY <2>2, SizesExist
  <2>4. Sizes(c, S) = c[x].size + Sizes(c, S \ {x})
    BY ONLY <1>2, <2>1, <2>3, IsFiniteSet(S), SizesStep
  <2> QED BY <2>1, <2>2, <2>4
<1> QED BY <1>1, <1>2

Sized(c, S) == \A k \in S : c[k].size \in Nat

LEMMA SizesNat ==
    ASSUME NEW c, NEW S, IsFiniteSet(S), Sized(c, S)
    PROVE  Sizes(c, S) \in Nat
<1> SUFFICES ASSUME Sizes(c, S) \notin Nat PROVE FALSE
  OBVIOUS
<1> DEFINE B == {s \in SUBSET S : Sizes(c, s) \notin Nat}
<1>1. B \in SUBSET SUBSET S /\ B # {}
  OBVIOUS
<1> HIDE DEF B
<1>2. PICK X \in B : IsFiniteSet(X) /\ \A Y \in B : Y \subseteq X => Y = X
  BY <1>1, SmallestSet
<1> USE DEF B
<1>3. X # {}
  <2>1. Sizes(c, {}) \in Nat
    BY FS_EmptySet, SizesRec
  <2>2. Sizes(c, X) \notin Nat
    OBVIOUS
  <2> QED BY ONLY <2>1, <2>2
<1>4. PICK x \in X : Sizes(c, X) = c[x].size + Sizes(c, X \ {x})
  BY <1>2, <1>3, SizesRec
<1>5. Sizes(c, X \ {x}) \in Nat /\ c[x].size \in Nat
  BY <1>2 DEF Sized
<1> QED BY <1>2, <1>4, <1>5

\* The element taken away first does not matter.
LEMMA SizesAdd ==
    ASSUME NEW c, NEW S, IsFiniteSet(S), Sized(c, S), NEW R \in SUBSET S, NEW j \in S \ R
    PROVE  Sizes(c, R \cup {j}) = c[j].size + Sizes(c, R)
<1> DEFINE B == {s \in SUBSET S : \E k \in S \ s : Sizes(c, s \cup {k}) # c[k].size + Sizes(c, s)}
<1> SUFFICES ASSUME B # {} PROVE FALSE
  OBVIOUS
<1>1. B \in SUBSET SUBSET S
  OBVIOUS
<1> HIDE DEF B
<1>2. PICK X \in B : IsFiniteSet(X) /\ \A Y \in B : Y \subseteq X => Y = X
  BY <1>1, SmallestSet
<1> USE DEF B
<1>3. PICK k \in S \ X : Sizes(c, X \cup {k}) # c[k].size + Sizes(c, X)
  BY <1>2
<1>4. IsFiniteSet(X \cup {k}) /\ X \cup {k} # {} /\ X \in SUBSET S
  BY <1>2, FS_AddElement
<1>5. PICK x \in X \cup {k} : Sizes(c, X \cup {k}) = c[x].size + Sizes(c, (X \cup {k}) \ {x})
  BY <1>4, SizesRec
<1>6. x # k
  <2>1. (X \cup {k}) \ {k} = X
    BY <1>3
  <2> QED BY <1>3, <1>5, <2>1
<1>7. x \in X /\ (X \cup {k}) \ {x} = (X \ {x}) \cup {k} /\ X \ {x} \in SUBSET S /\ k \in S \ (X \ {x})
      /\ X = (X \ {x}) \cup {x} /\ x \in S \ (X \ {x})
  BY <1>3, <1>4, <1>5, <1>6
<1>8. X \ {x} \notin B
  BY <1>2, <1>7
<1>9. /\ Sizes(c, (X \ {x}) \cup {k}) = c[k].size + Sizes(c, X \ {x})
      /\ Sizes(c, (X \ {x}) \cup {x}) = c[x].size + Sizes(c, X \ {x})
  BY <1>7, <1>8
<1>10. c[k].size \in Nat /\ c[x].size \in Nat /\ Sizes(c, X \ {x}) \in Nat
  <2>1. IsFiniteSet(X \ {x}) /\ Sized(c, X \ {x})
    BY <1>2, <1>4, FS_Subset DEF Sized
  <2>2. Sizes(c, X \ {x}) \in Nat
    BY ONLY <2>1, SizesNat
  <2>3. k \in S /\ x \in S
    BY <1>3, <1>7
  <2> QED BY ONLY <2>2, <2>3, Sized(c, S) DEF Sized
<1>11. /\ Sizes(c, X \cup {k}) = c[x].size + (c[k].size + Sizes(c, X \ {x}))
       /\ Sizes(c, X) = c[x].size + Sizes(c, X \ {x})
  <2>1. (X \cup {k}) \ {x} = (X \ {x}) \cup {k} /\ X = (X \ {x}) \cup {x}
    BY <1>7
  <2>2. Sizes(c, (X \cup {k}) \ {x}) = c[k].size + Sizes(c, X \ {x})
    BY ONLY <2>1, <1>9
  <2>3. Sizes(c, X) = c[x].size + Sizes(c, X \ {x})
    BY ONLY <2>1, <1>9
  <2> QED BY ONLY <1>5, <2>2, <2>3
<1>12. Sizes(c, X \cup {k}) = c[k].size + Sizes(c, X)
  BY ONLY <1>10, <1>11
<1> QED BY <1>3, <1>12

LEMMA SizesGrow ==
    ASSUME NEW c, NEW S, IsFiniteSet(S), Sized(c, S), NEW R \in SUBSET S
    PROVE  Sizes(c, R) <= Sizes(c, S)
<1> DEFINE B == {s \in SUBSET S : R \subseteq s /\ ~ (Sizes(c, R) <= Sizes(c, s))}
<1> SUFFICES ASSUME B # {} PROVE FALSE
  OBVIOUS
<1>1. B \in SUBSET SUBSET S
  OBVIOUS
<1> HIDE DEF B
<1>2. PICK X \in B : IsFiniteSet(X) /\ \A Y \in B : Y \subseteq X => Y = X
  BY <1>1, SmallestSet
<1> USE DEF B
<1>3. \A s \in SUBSET S : Sizes(c, s) \in Nat
  <2> SUFFICES ASSUME NEW s \in SUBSET S PROVE Sizes(c, s) \in Nat
    OBVIOUS
  <2>1. IsFiniteSet(s) /\ Sized(c, s)
    BY FS_Subset DEF Sized
  <2> QED BY <2>1, SizesNat
<1>4. X # R
  BY <1>2, <1>3
<1>5. PICK x \in X : x \notin R
  BY <1>2, <1>4
<1>6. X \ {x} \in SUBSET S /\ x \in S \ (X \ {x}) /\ (X \ {x}) \cup {x} = X /\ X \ {x} # X /\ R \subseteq X \ {x}
  BY <1>2, <1>5
<1>7. Sizes(c, X) = c[x].size + Sizes(c, X \ {x})
  BY <1>6, SizesAdd
<1>8. Sizes(c, R) <= Sizes(c, X \ {x})
  BY <1>2, <1>6
<1>9. c[x].size \in Nat /\ Sizes(c, X \ {x}) \in Nat /\ Sizes(c, R) \in Nat
  BY <1>3, <1>6 DEF Sized
<1>10. Sizes(c, R) <= Sizes(c, X)
  BY <1>7, <1>8, <1>9
<1> QED BY <1>2, <1>10

LEMMA SizesSame ==
    ASSUME NEW c, NEW d, NEW S, IsFiniteSet(S), \A k \in S : c[k].size = d[k].size
    PROVE  Sizes(c, S) = Sizes(d, S)
<1> DEFINE B == {s \in SUBSET S : Sizes(c, s) # Sizes(d, s)}
<1> SUFFICES ASSUME B # {} PROVE FALSE
  OBVIOUS
<1>1. B \in SUBSET SUBSET S
  OBVIOUS
<1> HIDE DEF B
<1>2. PICK X \in B : IsFiniteSet(X) /\ \A Y \in B : Y \subseteq X => Y = X
  BY <1>1, SmallestSet
<1> USE DEF B
<1>3. X # {}
  <2>1. Sizes(c, {}) = 0 /\ Sizes(d, {}) = 0
    BY FS_EmptySet, SizesRec
  <2> QED BY <1>2, <2>1
<1>4. PICK x : x = First(X)
  OBVIOUS
<1>5. /\ x \in X
      /\ Sizes(c, X) = c[x].size + Sizes(c, X \ {x}) /\ Sizes(d, X) = d[x].size + Sizes(d, X \ {x})
  <2>1. IsFiniteSet(X)
    BY <1>2
  <2> QED BY ONLY <1>3, <1>4, <2>1, SizesRec
<1>6. X \ {x} \in SUBSET S /\ X \ {x} # X
  BY <1>2, <1>5
<1>7. Sizes(c, X \ {x}) = Sizes(d, X \ {x})
  BY <1>2, <1>6
<1> QED BY <1>2, <1>5, <1>7

\* The inductive invariant: the property, with the cache a finite set.
ThumbnailInv ==
    /\ Thumbnails!TypeOK
    /\ IsFiniteSet(Thumbnails!Cached)
    /\ Cardinality(Thumbnails!Cached) <= MaxThumbnails
    /\ Sizes(thumbnailThumbnailCache, Thumbnails!Cached) <= MaxBytes
    /\ \A stays \in thumbnailKept.stayed, leaves \in thumbnailKept.left : leaves.used < stays.used

LEMMA ThumbnailConstants ==
    /\ MaxThumbnails \in Nat \ {0} /\ MaxBytes \in Nat /\ MaxSize \in Nat
    /\ Life \in Nat \ {0} /\ MaxThumbnailTime \in Nat \ {0} /\ MaxClock \in Nat
BY Constants DEF Thumbnails!ThumbnailAssumption

LEMMA ThumbnailTypes ==
    ASSUME ThumbnailInv
    PROVE  /\ thumbnailNow \in 1 .. MaxThumbnailTime
           /\ thumbnailThumbnailCache \in [Thumbnails!Cached -> Thumbnails!Entry]
           /\ Thumbnails!Cached \in SUBSET Files /\ IsFiniteSet(Thumbnails!Cached)
           /\ thumbnailThumbnailCacheClock \in 0 .. MaxClock
           /\ \A e \in Thumbnails!Entry : e.size \in Nat /\ e.used \in Nat
           /\ Sized(thumbnailThumbnailCache, Thumbnails!Cached)
<1>1. /\ thumbnailNow \in 1 .. MaxThumbnailTime
      /\ thumbnailThumbnailCache \in [Thumbnails!Cached -> Thumbnails!Entry]
      /\ Thumbnails!Cached \in SUBSET Files /\ IsFiniteSet(Thumbnails!Cached)
      /\ thumbnailThumbnailCacheClock \in 0 .. MaxClock
  BY DEF ThumbnailInv, Thumbnails!TypeOK
<1>2. \A e \in Thumbnails!Entry : e.size \in Nat /\ e.used \in Nat
  BY ThumbnailConstants DEF Thumbnails!Entry
<1>3. Sized(thumbnailThumbnailCache, Thumbnails!Cached)
  BY <1>1, <1>2 DEF Sized
<1> QED BY <1>1, <1>2, <1>3

\* Fewer entries take less of the cache.
LEMMA FewerThumbnails ==
    ASSUME ThumbnailInv, NEW T \in SUBSET Thumbnails!Cached, NEW S \in SUBSET T
    PROVE  /\ IsFiniteSet(S) /\ Cardinality(S) \in Nat /\ Cardinality(T) \in Nat
           /\ Cardinality(S) <= Cardinality(T)
           /\ Sizes(thumbnailThumbnailCache, S) \in Nat /\ Sizes(thumbnailThumbnailCache, T) \in Nat
           /\ Sizes(thumbnailThumbnailCache, S) <= Sizes(thumbnailThumbnailCache, T)
<1>1. IsFiniteSet(T) /\ IsFiniteSet(S) /\ Cardinality(S) <= Cardinality(T)
      /\ Cardinality(S) \in Nat /\ Cardinality(T) \in Nat
  BY ThumbnailTypes, FS_Subset, FS_CardinalityType
<1>2. Sized(thumbnailThumbnailCache, T) /\ Sized(thumbnailThumbnailCache, S)
  BY ThumbnailTypes DEF Sized
<1> QED BY <1>1, <1>2, SizesNat, SizesGrow

\* The cache keeps some of its entries, or all and one is used again.
LEMMA ThumbnailsKept ==
    ASSUME ThumbnailInv, NEW S \in SUBSET Thumbnails!Cached,
           thumbnailThumbnailCache' \in [S -> Thumbnails!Entry],
           \A k \in S : thumbnailThumbnailCache'[k].size = thumbnailThumbnailCache[k].size
    PROVE  /\ Thumbnails!Cached' = S /\ IsFiniteSet(S) /\ Cardinality(S) <= MaxThumbnails
           /\ Sizes(thumbnailThumbnailCache', S) <= MaxBytes
<1>1. Thumbnails!Cached' = S
  BY DEF Thumbnails!Cached
<1>2. /\ IsFiniteSet(S) /\ Cardinality(S) <= Cardinality(Thumbnails!Cached)
      /\ Sizes(thumbnailThumbnailCache, S) <= Sizes(thumbnailThumbnailCache, Thumbnails!Cached)
      /\ Cardinality(S) \in Nat /\ Cardinality(Thumbnails!Cached) \in Nat
      /\ Sizes(thumbnailThumbnailCache, S) \in Nat
      /\ Sizes(thumbnailThumbnailCache, Thumbnails!Cached) \in Nat
  BY FewerThumbnails
<1>3. PICK d : d = thumbnailThumbnailCache'
  OBVIOUS
<1>4. Sizes(d, S) = Sizes(thumbnailThumbnailCache, S)
  BY <1>2, <1>3, SizesSame
<1>5. Cardinality(S) <= MaxThumbnails /\ Sizes(thumbnailThumbnailCache, S) <= MaxBytes
  BY <1>2, ThumbnailConstants DEF ThumbnailInv
<1> QED BY <1>1, <1>2, <1>3, <1>4, <1>5

LEMMA NothingKept ==
    /\ Thumbnails!NothingLeaves \in [stayed : SUBSET Thumbnails!Entry, left : SUBSET Thumbnails!Entry]
    /\ Thumbnails!NothingLeaves.stayed = {}
BY DEF Thumbnails!NothingLeaves

LEMMA ThumbnailInit ==
    ASSUME Thumbnails!Init
    PROVE  ThumbnailInv
<1>1. thumbnailThumbnailCache = <<>> /\ Thumbnails!Cached = {}
  BY DEF Thumbnails!Init, Thumbnails!Cached
<1>2. thumbnailThumbnailCache \in [{} -> Thumbnails!Entry]
  BY <1>1
<1>3. IsFiniteSet({}) /\ Cardinality({}) = 0 /\ Sizes(thumbnailThumbnailCache, {}) = 0
  BY FS_EmptySet, SizesRec
<1>4. 0 <= MaxThumbnails /\ 0 <= MaxBytes /\ 0 \in 0 .. MaxClock
  BY ThumbnailConstants
<1>5. Thumbnails!TypeOK
  BY <1>1, <1>2, <1>4, NothingKept, ThumbnailConstants DEF Thumbnails!Init, Thumbnails!TypeOK
<1> QED BY <1>1, <1>3, <1>4, <1>5, NothingKept DEF ThumbnailInv, Thumbnails!Init

LEMMA ThumbnailLoad ==
    ASSUME ThumbnailInv, NEW k \in Files, Thumbnails!Load(k)
    PROVE  ThumbnailInv'
<1>1. k \in Thumbnails!Cached /\ thumbnailThumbnailCacheClock < MaxClock
      /\ thumbnailKept' = Thumbnails!NothingLeaves /\ thumbnailNow' = thumbnailNow
  BY DEF Thumbnails!Load
<1>2. PICK e : e = thumbnailThumbnailCache[k]
  OBVIOUS
<1>3. e \in Thumbnails!Entry /\ thumbnailThumbnailCache \in [Thumbnails!Cached -> Thumbnails!Entry]
  BY <1>1, <1>2, ThumbnailTypes
<1>4. CASE thumbnailNow < e.expires
  <2>1. /\ thumbnailThumbnailCacheClock' = thumbnailThumbnailCacheClock + 1
        /\ thumbnailThumbnailCache' = [thumbnailThumbnailCache EXCEPT ![k].used = thumbnailThumbnailCacheClock + 1]
    BY <1>2, <1>4 DEF Thumbnails!Load
  <2>2. thumbnailThumbnailCacheClock + 1 \in 1 .. MaxClock /\ thumbnailThumbnailCacheClock' \in 0 .. MaxClock
    BY <1>1, <2>1, ThumbnailTypes, ThumbnailConstants
  <2>3. PICK d : d = [e EXCEPT !.used = thumbnailThumbnailCacheClock + 1]
    OBVIOUS
  <2>4. d \in Thumbnails!Entry /\ d.size = e.size
    BY <1>3, <2>2, <2>3 DEF Thumbnails!Entry
  <2>5. thumbnailThumbnailCache' = [thumbnailThumbnailCache EXCEPT ![k] = d]
    BY <1>2, <2>1, <2>3
  <2>6. /\ thumbnailThumbnailCache' \in [Thumbnails!Cached -> Thumbnails!Entry]
        /\ \A j \in Thumbnails!Cached :
              thumbnailThumbnailCache'[j].size = thumbnailThumbnailCache[j].size
    BY <1>2, <1>3, <2>4, <2>5
  <2>7. /\ Thumbnails!Cached' = Thumbnails!Cached /\ IsFiniteSet(Thumbnails!Cached)
        /\ Cardinality(Thumbnails!Cached) <= MaxThumbnails
        /\ Sizes(thumbnailThumbnailCache', Thumbnails!Cached) <= MaxBytes
    BY <2>6, ThumbnailsKept
  <2>8. Thumbnails!TypeOK'
    BY <1>1, <2>2, <2>6, <2>7, NothingKept DEF ThumbnailInv, Thumbnails!TypeOK
  <2> QED BY <1>1, <2>7, <2>8, NothingKept DEF ThumbnailInv
<1>5. CASE ~(thumbnailNow < e.expires)
  <2>1. /\ thumbnailThumbnailCache' = Thumbnails!Remaining(Thumbnails!Cached \ {k})
        /\ UNCHANGED thumbnailThumbnailCacheClock
    BY <1>2, <1>5 DEF Thumbnails!Load
  <2>2. PICK S \in SUBSET Thumbnails!Cached : S = Thumbnails!Cached \ {k}
    OBVIOUS
  <2>3. /\ thumbnailThumbnailCache' \in [S -> Thumbnails!Entry]
        /\ \A j \in S : thumbnailThumbnailCache'[j].size = thumbnailThumbnailCache[j].size
    BY <1>3, <2>1, <2>2 DEF Thumbnails!Remaining
  <2>4. /\ Thumbnails!Cached' = S /\ IsFiniteSet(S) /\ Cardinality(S) <= MaxThumbnails
        /\ Sizes(thumbnailThumbnailCache', S) <= MaxBytes
    BY <2>3, ThumbnailsKept
  <2>5. Thumbnails!TypeOK'
    BY <1>1, <2>1, <2>3, <2>4, NothingKept DEF ThumbnailInv, Thumbnails!TypeOK
  <2> QED BY <1>1, <2>4, <2>5, NothingKept DEF ThumbnailInv
<1> QED BY <1>4, <1>5

LEMMA RoomIs ==
    ASSUME NEW S, NEW size
    PROVE  Thumbnails!Room(S, size) <=>
              /\ Cardinality(S) < MaxThumbnails
              /\ Sizes(thumbnailThumbnailCache, S) + size <= MaxBytes
<1>1. Thumbnails!Cardinality(S) = Cardinality(S)
  BY DEF Thumbnails!Cardinality, Cardinality
<1> QED BY <1>1, BytesAreSizes DEF Thumbnails!Room

LEMMA RoomForFewer ==
    ASSUME ThumbnailInv, NEW T \in SUBSET Thumbnails!Cached, NEW S \in SUBSET T, NEW size \in Nat,
           Thumbnails!Room(T, size)
    PROVE  Thumbnails!Room(S, size)
BY FewerThumbnails, RoomIs, ThumbnailConstants

\* Of what stays, the entry used longest ago and those used after it leave room.
LEMMA StayLeavesRoom ==
    ASSUME ThumbnailInv, NEW live \in SUBSET Thumbnails!Cached, NEW size \in Nat, NEW stay,
           stay = {j \in live : Thumbnails!Room(Thumbnails!Since(live, j), size)}, stay # {}
    PROVE  Thumbnails!Room(stay, size)
<1>0. \A j \in live : thumbnailThumbnailCache[j].used \in Nat
  BY ThumbnailTypes
<1> DEFINE Older(j) == {i \in stay : thumbnailThumbnailCache[i].used < thumbnailThumbnailCache[j].used}
<1> DEFINE B == {Older(j) : j \in stay}
<1>1. IsFiniteSet(stay) /\ stay \in SUBSET live
  BY ThumbnailTypes, FS_Subset
<1>2. B \in SUBSET SUBSET stay /\ B # {}
  <2>1. \A j \in stay : Older(j) \in SUBSET stay
    OBVIOUS
  <2> HIDE DEF Older
  <2> QED BY <2>1
<1> HIDE DEF B
<1>3. PICK X \in B : \A Y \in B : Y \subseteq X => Y = X
  BY <1>1, <1>2, SmallestSet
<1> USE DEF B
<1>4. PICK j \in stay : X = Older(j)
  BY <1>3
<1>5. ASSUME NEW i \in stay, thumbnailThumbnailCache[i].used < thumbnailThumbnailCache[j].used
      PROVE  FALSE
  <2>1. \A x \in stay : thumbnailThumbnailCache[x].used \in Nat
    BY <1>0, <1>1
  <2>2. Older(i) \subseteq Older(j)
    <3> SUFFICES ASSUME NEW x \in stay, thumbnailThumbnailCache[x].used < thumbnailThumbnailCache[i].used
                 PROVE  thumbnailThumbnailCache[x].used < thumbnailThumbnailCache[j].used
      OBVIOUS
    <3>1. /\ thumbnailThumbnailCache[x].used \in Nat /\ thumbnailThumbnailCache[i].used \in Nat
          /\ thumbnailThumbnailCache[j].used \in Nat
      BY <2>1
    <3> QED BY <1>5, <3>1
  <2>3. i \in Older(j) /\ i \notin Older(i)
    <3>1. thumbnailThumbnailCache[i].used \in Nat
      BY <2>1
    <3> QED BY <1>5, <3>1
  <2>4. Older(i) \in B
    OBVIOUS
  <2> QED BY <1>3, <1>4, <2>2, <2>3, <2>4
<1>6. stay \in SUBSET Thumbnails!Since(live, j)
  <2> SUFFICES ASSUME NEW i \in stay
               PROVE  thumbnailThumbnailCache[i].used >= thumbnailThumbnailCache[j].used
    BY <1>1 DEF Thumbnails!Since
  <2>1. thumbnailThumbnailCache[i].used \in Nat /\ thumbnailThumbnailCache[j].used \in Nat
    BY <1>0, <1>1
  <2>2. ~(thumbnailThumbnailCache[i].used < thumbnailThumbnailCache[j].used)
    BY <1>5
  <2> QED BY <2>1, <2>2
<1>7. Thumbnails!Since(live, j) \in SUBSET Thumbnails!Cached
  BY DEF Thumbnails!Since
<1>8. Thumbnails!Room(Thumbnails!Since(live, j), size)
  BY <1>4
<1> QED BY ONLY <1>6, <1>7, <1>8, ThumbnailInv, size \in Nat, RoomForFewer

\* An entry used later than one that stays has as much room, and stays.
LEMMA LaterStays ==
    ASSUME ThumbnailInv, NEW live \in SUBSET Thumbnails!Cached, NEW size \in Nat,
           NEW i \in live, NEW j \in live, Thumbnails!Room(Thumbnails!Since(live, i), size),
           ~(thumbnailThumbnailCache[j].used < thumbnailThumbnailCache[i].used)
    PROVE  Thumbnails!Room(Thumbnails!Since(live, j), size)
<1>1. \A x \in live : thumbnailThumbnailCache[x].used \in Nat
  BY ThumbnailTypes
<1>2. Thumbnails!Since(live, j) \in SUBSET Thumbnails!Since(live, i)
  <2> SUFFICES ASSUME NEW x \in live, thumbnailThumbnailCache[x].used >= thumbnailThumbnailCache[j].used
               PROVE  thumbnailThumbnailCache[x].used >= thumbnailThumbnailCache[i].used
    BY DEF Thumbnails!Since
  <2>1. /\ thumbnailThumbnailCache[x].used \in Nat /\ thumbnailThumbnailCache[i].used \in Nat
        /\ thumbnailThumbnailCache[j].used \in Nat
    BY <1>1
  <2> QED BY <2>1
<1>3. Thumbnails!Since(live, i) \in SUBSET Thumbnails!Cached
  BY DEF Thumbnails!Since
<1> QED BY <1>2, <1>3, RoomForFewer

LEMMA ThumbnailStore ==
    ASSUME ThumbnailInv, NEW k \in Files, NEW size \in 1 .. MaxSize, Thumbnails!Store(k, size)
    PROVE  ThumbnailInv'
<1>1. PICK live \in SUBSET Thumbnails!Cached :
        live = {j \in Thumbnails!Cached \ {k} : thumbnailNow < thumbnailThumbnailCache[j].expires}
  OBVIOUS
<1>2. PICK stay \in SUBSET live : stay = {j \in live : Thumbnails!Room(Thumbnails!Since(live, j), size)}
  OBVIOUS
<1>3. PICK entry : entry = [size |-> size, expires |-> thumbnailNow + Life,
                            used |-> thumbnailThumbnailCacheClock + 1]
  OBVIOUS
<1>4. /\ thumbnailThumbnailCacheClock < MaxClock /\ thumbnailNow' = thumbnailNow
      /\ thumbnailKept' = [stayed |-> {thumbnailThumbnailCache[j] : j \in stay},
                           left |-> {thumbnailThumbnailCache[j] : j \in live \ stay}]
      /\ size <= MaxBytes =>
            /\ thumbnailThumbnailCacheClock' = thumbnailThumbnailCacheClock + 1
            /\ thumbnailThumbnailCache' = [j \in stay \cup {k} |->
                                              IF j = k THEN entry ELSE thumbnailThumbnailCache[j]]
      /\ ~(size <= MaxBytes) =>
            /\ thumbnailThumbnailCache' = Thumbnails!Remaining(stay)
            /\ UNCHANGED thumbnailThumbnailCacheClock
  BY <1>1, <1>2, <1>3 DEF Thumbnails!Store
<1>5. /\ size \in Nat /\ stay \in SUBSET Thumbnails!Cached /\ k \notin stay
      /\ thumbnailThumbnailCache \in [Thumbnails!Cached -> Thumbnails!Entry]
  BY <1>1, <1>2, ThumbnailTypes, ThumbnailConstants
<1>6. /\ thumbnailKept' \in [stayed : SUBSET Thumbnails!Entry, left : SUBSET Thumbnails!Entry]
      /\ \A stays \in thumbnailKept'.stayed, leaves \in thumbnailKept'.left : leaves.used < stays.used
  <2>1. PICK in, out : /\ in = {thumbnailThumbnailCache[j] : j \in stay}
                       /\ out = {thumbnailThumbnailCache[j] : j \in live \ stay}
    OBVIOUS
  <2>2. in \in SUBSET Thumbnails!Entry /\ out \in SUBSET Thumbnails!Entry
    BY <1>5, <2>1
  <2>3. ASSUME NEW i \in stay, NEW j \in live \ stay
        PROVE  thumbnailThumbnailCache[j].used < thumbnailThumbnailCache[i].used
    BY <1>2, <1>5, LaterStays
  <2>4. \A stays \in in, leaves \in out : leaves.used < stays.used
    BY <2>1, <2>3
  <2>5. thumbnailKept' = [stayed |-> in, left |-> out]
    BY <1>4, <2>1
  <2> QED BY <2>2, <2>4, <2>5
<1>7. CASE size <= MaxBytes
  <2>1. entry \in Thumbnails!Entry /\ entry.size = size /\ thumbnailThumbnailCacheClock' \in 0 .. MaxClock
    <3>1. /\ size \in 0 .. MaxSize /\ thumbnailNow + Life \in 1 .. MaxThumbnailTime + Life
          /\ thumbnailThumbnailCacheClock + 1 \in 1 .. MaxClock
          /\ thumbnailThumbnailCacheClock + 1 \in 0 .. MaxClock
      BY <1>4, ThumbnailTypes, ThumbnailConstants
    <3> QED BY <1>3, <1>4, <1>7, <3>1 DEF Thumbnails!Entry
  <2>2. PICK d : d = thumbnailThumbnailCache'
    OBVIOUS
  <2>3. /\ d \in [stay \cup {k} -> Thumbnails!Entry] /\ d[k].size = size
        /\ \A j \in stay : d[j].size = thumbnailThumbnailCache[j].size
    BY <1>4, <1>5, <1>7, <2>1, <2>2
  <2>4. Thumbnails!Cached' = stay \cup {k} /\ Thumbnails!Cached' \in SUBSET Files
    BY <1>5, <2>2, <2>3, ThumbnailTypes DEF Thumbnails!Cached
  <2>5. /\ IsFiniteSet(stay) /\ Cardinality(stay) \in Nat
        /\ Sizes(thumbnailThumbnailCache, stay) \in Nat
    BY <1>5, FewerThumbnails
  <2>6. Cardinality(stay) < MaxThumbnails /\ Sizes(thumbnailThumbnailCache, stay) + size <= MaxBytes
    <3>1. CASE stay = {}
      BY <1>5, <1>7, <3>1, SizesRec, FS_EmptySet, ThumbnailConstants
    <3>2. CASE stay # {}
      BY <1>2, <1>5, <3>2, StayLeavesRoom, RoomIs
    <3> QED BY <3>1, <3>2
  <2>7. IsFiniteSet(stay \cup {k}) /\ Cardinality(stay \cup {k}) <= MaxThumbnails
    <3>1. IsFiniteSet(stay \cup {k}) /\ Cardinality(stay \cup {k}) = Cardinality(stay) + 1
      BY <1>5, <2>5, FS_AddElement
    <3> QED BY <2>5, <2>6, <3>1, ThumbnailConstants
  <2>8. Sizes(d, stay \cup {k}) <= MaxBytes
    <3>1. Sized(d, stay \cup {k})
      BY <2>3, ThumbnailTypes DEF Sized
    <3>2. Sizes(d, stay \cup {k}) = d[k].size + Sizes(d, stay)
      BY <1>5, <2>7, <3>1, SizesAdd
    <3>3. Sizes(d, stay) = Sizes(thumbnailThumbnailCache, stay)
      BY <2>3, <2>5, SizesSame
    <3> QED BY <1>5, <2>3, <2>5, <2>6, <3>2, <3>3, ThumbnailConstants
  <2>9. Thumbnails!TypeOK'
    BY <1>4, <1>6, <2>1, <2>2, <2>3, <2>4 DEF ThumbnailInv, Thumbnails!TypeOK
  <2> QED BY <1>6, <2>2, <2>4, <2>7, <2>8, <2>9 DEF ThumbnailInv
<1>8. CASE ~(size <= MaxBytes)
  <2>1. /\ thumbnailThumbnailCache' \in [stay -> Thumbnails!Entry]
        /\ \A j \in stay : thumbnailThumbnailCache'[j].size = thumbnailThumbnailCache[j].size
    BY <1>4, <1>5, <1>8 DEF Thumbnails!Remaining
  <2>2. /\ Thumbnails!Cached' = stay /\ IsFiniteSet(stay) /\ Cardinality(stay) <= MaxThumbnails
        /\ Sizes(thumbnailThumbnailCache', stay) <= MaxBytes
    BY <1>5, <2>1, ThumbnailsKept
  <2>3. stay \in SUBSET Files
    BY <1>5, ThumbnailTypes
  <2>4. Thumbnails!TypeOK'
    BY <1>4, <1>6, <1>8, <2>1, <2>2, <2>3 DEF ThumbnailInv, Thumbnails!TypeOK
  <2> QED BY <1>6, <2>2, <2>4 DEF ThumbnailInv
<1> QED BY <1>7, <1>8

LEMMA ThumbnailNext ==
    ASSUME ThumbnailInv, [Thumbnails!Next]_(Thumbnails!vars)
    PROVE  ThumbnailInv'
<1>1. CASE UNCHANGED Thumbnails!vars
  BY <1>1 DEF Thumbnails!vars, ThumbnailInv, Thumbnails!TypeOK, Thumbnails!Cached
<1>2. CASE Thumbnails!Tick
  <2>1. /\ thumbnailNow' \in 1 .. MaxThumbnailTime /\ thumbnailKept' = Thumbnails!NothingLeaves
        /\ UNCHANGED <<thumbnailThumbnailCache, thumbnailThumbnailCacheClock>>
    BY <1>2, ThumbnailTypes, ThumbnailConstants DEF Thumbnails!Tick
  <2> QED BY <2>1, NothingKept DEF ThumbnailInv, Thumbnails!TypeOK, Thumbnails!Cached
<1>3. CASE \E k \in Files : Thumbnails!Load(k)
  BY <1>3, ThumbnailLoad
<1>4. CASE \E k \in Files, size \in 1 .. MaxSize : Thumbnails!Store(k, size)
  BY <1>4, ThumbnailStore
<1> QED BY <1>1, <1>2, <1>3, <1>4 DEF Thumbnails!Next

LEMMA ThumbnailsAreConsistent ==
    ASSUME ThumbnailInv
    PROVE  Thumbnails!ThumbnailsConsistent
<1>1. Thumbnails!Cardinality(Thumbnails!Cached) = Cardinality(Thumbnails!Cached)
  BY DEF Thumbnails!Cardinality, Cardinality
<1> QED BY <1>1, BytesAreSizes DEF ThumbnailInv, Thumbnails!ThumbnailsConsistent

-----------------------------------------------------------------------------
(* The gallery.                                                            *)

\* Who waits for the number of media is woken and told no number that misses
\* an upload that had completed (summary, countMedia); the thumbnails keep
\* within their limits and the ones used last stay (storeThumbnail); requests
\* give back their places, uploads leave the gallery its own, and the newest
\* refresh token that could be saved is in use after any restart (ServeHTTP,
\* token).
THEOREM GalleryStaysConsistent == Spec => []GalleryConsistent
<1>1. Init => SummaryInv /\ ThumbnailInv /\ MediaInv
  BY SummaryInit, ThumbnailInit, MediaInit DEF Init
<1>2. SummaryInv /\ ThumbnailInv /\ MediaInv /\ [Next]_vars => (SummaryInv /\ ThumbnailInv /\ MediaInv)'
  BY SummaryNext, ThumbnailNext, MediaNext, ServicesRun
<1>3. SummaryInv /\ ThumbnailInv /\ MediaInv => GalleryConsistent
  <2>1. SummaryInv => Summary!SummaryConsistent
    BY DEF SummaryInv, Summary!SummaryConsistent
  <2> QED BY <2>1, ThumbnailsAreConsistent, MediaConsistent DEF GalleryConsistent
<1> QED BY <1>1, <1>2, <1>3, PTL DEF Spec

-----------------------------------------------------------------------------
(* AliceText.                                                              *)
(*                                                                         *)
(* The loops are folds: functions g, defined by recursion over the subsets *)
(* of S, that take the element p[s] of a set s last and do o.  They are    *)
(* functions here and not operators, which a lemma cannot be about.        *)

FoldsTo(o, p, base, S, g) ==
    \A s \in SUBSET S : g[s] = IF s = {} THEN base ELSE o[<<g[s \ {p[s]}], p[s]>>]

OnSubsets(g, S) == g = [s \in SUBSET S |-> g[s]]

PicksFrom(p, S) == \A s \in SUBSET S : s # {} => p[s] \in s

LEMMA FoldUnique ==
    ASSUME NEW o, NEW p, NEW base, NEW S, NEW T, NEW g, NEW h,
           FoldsTo(o, p, base, S, g), FoldsTo(o, p, base, T, h), PicksFrom(p, S),
           NEW u \in SUBSET S, u \in SUBSET T, IsFiniteSet(u)
    PROVE  g[u] = h[u]
<1> SUFFICES ASSUME g[u] # h[u] PROVE FALSE
  OBVIOUS
<1> DEFINE B == {s \in SUBSET u : g[s] # h[s]}
<1>1. B \in SUBSET SUBSET u /\ B # {}
  OBVIOUS
<1> HIDE DEF B
<1>2. PICK X \in B : IsFiniteSet(X) /\ \A Y \in B : Y \subseteq X => Y = X
  BY <1>1, SmallestSet
<1> USE DEF B
<1>3. X \in SUBSET S /\ X \in SUBSET T /\ X \in SUBSET u /\ g[X] # h[X]
  OBVIOUS
<1>4. /\ g[X] = IF X = {} THEN base ELSE o[<<g[X \ {p[X]}], p[X]>>]
      /\ h[X] = IF X = {} THEN base ELSE o[<<h[X \ {p[X]}], p[X]>>]
  BY <1>3 DEF FoldsTo
<1>5. X # {}
  BY <1>3, <1>4
<1>6. p[X] \in X /\ X \ {p[X]} \in SUBSET u /\ X \ {p[X]} # X
  BY <1>3, <1>5 DEF PicksFrom
<1>7. g[X \ {p[X]}] = h[X \ {p[X]}]
  BY <1>2, <1>6
<1> QED BY <1>3, <1>4, <1>5, <1>7

Folded(o, p, base, S) == (CHOOSE g : FoldsTo(o, p, base, S, g))[S]

LEMMA FoldStep ==
    ASSUME NEW o, NEW p, NEW base, NEW S, IsFiniteSet(S), PicksFrom(p, S), S # {},
           \E g : FoldsTo(o, p, base, S, g), \E g : FoldsTo(o, p, base, S \ {p[S]}, g)
    PROVE  Folded(o, p, base, S) = o[<<Folded(o, p, base, S \ {p[S]}), p[S]>>]
<1>1. PICK g : g = CHOOSE f : FoldsTo(o, p, base, S, f)
  OBVIOUS
<1>2. PICK h : h = CHOOSE f : FoldsTo(o, p, base, S \ {p[S]}, f)
  OBVIOUS
<1>3. FoldsTo(o, p, base, S, g) /\ FoldsTo(o, p, base, S \ {p[S]}, h)
  BY <1>1, <1>2
<1>4. g[S] = o[<<g[S \ {p[S]}], p[S]>>]
  BY <1>3 DEF FoldsTo
<1>5. IsFiniteSet(S \ {p[S]}) /\ S \ {p[S]} \in SUBSET S
  BY FS_Subset
<1>6. g[S \ {p[S]}] = h[S \ {p[S]}]
  BY <1>3, <1>5, FoldUnique
<1> QED BY <1>1, <1>2, <1>4, <1>6 DEF Folded

LEMMA FoldExists ==
    ASSUME NEW o, NEW p, NEW base, NEW S, IsFiniteSet(S), PicksFrom(p, S)
    PROVE  \E g : FoldsTo(o, p, base, S, g) /\ OnSubsets(g, S)
<1> DEFINE Has(s) == \E g : FoldsTo(o, p, base, s, g) /\ OnSubsets(g, s)
<1> SUFFICES ASSUME ~ Has(S) PROVE FALSE
  OBVIOUS
<1> DEFINE B == {s \in SUBSET S : ~ Has(s)}
<1>1. B \in SUBSET SUBSET S /\ B # {}
  OBVIOUS
<1> HIDE DEF B
<1>2. PICK X \in B : IsFiniteSet(X) /\ \A Y \in B : Y \subseteq X => Y = X
  BY <1>1, SmallestSet
<1> USE DEF B
<1>3. X \in SUBSET S /\ ~ Has(X)
  OBVIOUS
<1>4. \A s \in SUBSET X : s # X => \E g : FoldsTo(o, p, base, s, g)
  BY <1>2, <1>3
<1>5. \A s \in SUBSET X : IsFiniteSet(s) /\ PicksFrom(p, s)
  BY <1>2, <1>3, FS_Subset DEF PicksFrom
<1> DEFINE G == [s \in SUBSET X |-> IF s # X THEN Folded(o, p, base, s) ELSE
                  IF X = {} THEN base ELSE o[<<Folded(o, p, base, X \ {p[X]}), p[X]>>]]
<1>6. ASSUME NEW s \in SUBSET X
      PROVE  G[s] = IF s = {} THEN base ELSE o[<<G[s \ {p[s]}], p[s]>>]
  <2>1. CASE s = {}
    <3>1. CASE X = {}
      BY <2>1, <3>1
    <3>2. CASE X # {}
      <4>1. \E g : FoldsTo(o, p, base, {}, g)
        BY <1>4, <3>2
      <4>2. Folded(o, p, base, {}) = base
        BY <4>1 DEF Folded, FoldsTo
      <4> QED BY <2>1, <3>2, <4>2
    <3> QED BY <3>1, <3>2
  <2>2. CASE s # {}
    <3>1. p[s] \in s /\ s \ {p[s]} \in SUBSET X /\ s \ {p[s]} # X
      BY <1>3, <2>2 DEF PicksFrom
    <3>2. G[s \ {p[s]}] = Folded(o, p, base, s \ {p[s]})
      BY <3>1
    <3>3. CASE s = X
      BY <2>2, <3>2, <3>3
    <3>4. CASE s # X
      <4>1. G[s] = Folded(o, p, base, s)
        BY <3>4
      <4> HIDE DEF G
      <4>2. (\E g : FoldsTo(o, p, base, s, g)) /\ (\E g : FoldsTo(o, p, base, s \ {p[s]}, g))
        BY <1>4, <3>1, <3>4
      <4>3. IsFiniteSet(s) /\ PicksFrom(p, s)
        BY <1>5
      <4>4. Folded(o, p, base, s) = o[<<Folded(o, p, base, s \ {p[s]}), p[s]>>]
        BY ONLY <2>2, <4>2, <4>3, FoldStep
      <4> QED BY <2>2, <3>2, <4>1, <4>4
    <3> QED BY <3>3, <3>4
  <2> QED BY <2>1, <2>2
<1>7. OnSubsets(G, X)
  BY DEF OnSubsets
<1> HIDE DEF G
<1>8. FoldsTo(o, p, base, X, G)
  BY <1>6 DEF FoldsTo
<1> QED BY <1>3, <1>7, <1>8

LEMMA FoldTyped ==
    ASSUME NEW o, NEW p, NEW base, NEW S, IsFiniteSet(S), PicksFrom(p, S), NEW g,
           FoldsTo(o, p, base, S, g), NEW D, base \in D,
           \A d \in D : \A k \in S : o[<<d, k>>] \in D
    PROVE  \A s \in SUBSET S : g[s] \in D
<1> DEFINE B == {s \in SUBSET S : g[s] \notin D}
<1> SUFFICES ASSUME B # {} PROVE FALSE
  OBVIOUS
<1>1. B \in SUBSET SUBSET S
  OBVIOUS
<1> HIDE DEF B
<1>2. PICK X \in B : IsFiniteSet(X) /\ \A Y \in B : Y \subseteq X => Y = X
  BY <1>1, SmallestSet
<1> USE DEF B
<1>3. X \in SUBSET S /\ g[X] \notin D
  OBVIOUS
<1>4. g[X] = IF X = {} THEN base ELSE o[<<g[X \ {p[X]}], p[X]>>]
  BY <1>3 DEF FoldsTo
<1>5. X # {}
  BY <1>3, <1>4
<1>6. p[X] \in X /\ p[X] \in S /\ X \ {p[X]} \in SUBSET S /\ X \ {p[X]} # X
  BY <1>3, <1>5 DEF PicksFrom
<1>7. g[X \ {p[X]}] \in D
  BY <1>2, <1>6
<1> QED BY <1>3, <1>4, <1>5, <1>6, <1>7

\* The largest of a finite set of numbers.
LEMMA LargestOf ==
    ASSUME NEW S, NEW m \in S, m \in Int, \A y \in S : y \in Int /\ m >= y
    PROVE  Alice!Max(S) = m
<1>1. Alice!Max(S) \in S /\ \A y \in S : Alice!Max(S) >= y
  BY DEF Alice!Max
<1>2. Alice!Max(S) >= m /\ m >= Alice!Max(S) /\ Alice!Max(S) \in Int
  BY <1>1
<1> QED BY <1>2

LEMMA LargestExists ==
    ASSUME NEW S, IsFiniteSet(S), S # {}, \A y \in S : y \in Int
    PROVE  Alice!Max(S) \in S
<1> DEFINE Above(x) == {y \in S : y > x}
<1> DEFINE B == {Above(x) : x \in S}
<1>1. B \in SUBSET SUBSET S /\ B # {}
  <2>1. \A x \in S : Above(x) \in SUBSET S
    OBVIOUS
  <2> HIDE DEF Above
  <2> QED BY <2>1
<1> HIDE DEF B
<1>2. PICK X \in B : IsFiniteSet(X) /\ \A Y \in B : Y \subseteq X => Y = X
  BY ONLY <1>1, IsFiniteSet(S), SmallestSet
<1> USE DEF B
<1>3. PICK x \in S : X = Above(x)
  BY <1>2
<1>4. ASSUME NEW y \in S, y > x PROVE FALSE
  <2>1. Above(y) \subseteq Above(x)
    <3> SUFFICES ASSUME NEW z \in S, z > y PROVE z > x
      OBVIOUS
    <3>1. z \in Int /\ y \in Int /\ x \in Int
      OBVIOUS
    <3> QED BY <1>4, <3>1
  <2>2. y \in Above(x) /\ y \notin Above(y)
    <3>1. y \in Int
      OBVIOUS
    <3> QED BY <1>4, <3>1
  <2>3. Above(y) \in B
    OBVIOUS
  <2> QED BY <1>2, <1>3, <2>1, <2>2, <2>3
<1>5. \A y \in S : x >= y
  <2> SUFFICES ASSUME NEW y \in S PROVE x >= y
    OBVIOUS
  <2>1. x \in Int /\ y \in Int /\ ~(y > x)
    BY <1>4
  <2> QED BY <2>1
<1> QED BY ONLY <1>5, x \in S DEF Alice!Max

\* Pieces of words, and the loop of splitAliceAnnouncementText.
PieceSet == [word : Nat, first : Nat, last : Nat]

SplitSet == [chunks : Seq(Seq(PieceSet)), current : Seq(PieceSet)]

Begins == [chunks |-> <<>>, current |-> <<>>]

Text == Seq(Nat \ {0})

LEMMA PieceTyped ==
    ASSUME NEW w \in Nat, NEW a \in Nat, NEW b \in Nat
    PROVE  /\ Alice!Piece(w, a, b) \in PieceSet
           /\ Alice!Piece(w, a, b).word = w /\ Alice!Piece(w, a, b).first = a /\ Alice!Piece(w, a, b).last = b
BY DEF Alice!Piece, PieceSet

\* A piece by itself is as long as its runes.
LEMMA RunesOfOne ==
    ASSUME NEW q \in PieceSet, NEW n \in Nat, q.last + 1 = q.first + n
    PROVE  Alice!RuneCount(<<q>>) = n
<1>1. \A s \in SUBSET {1} : s # {} => s = {1} /\ Alice!Max(s) = 1
  <2>1. Alice!Max({1}) = 1
    BY LargestOf
  <2> QED BY <2>1
<1>2. PICK it : it = [s \in SUBSET {1} |-> IF s = {} THEN 0 ELSE q.last - q.first + 1]
  OBVIOUS
<1> DEFINE Rec(g) == g = [s \in SUBSET {1} |-> IF s = {} THEN 0
                            ELSE g[s \ {Alice!Max(s)}] + (<<q>>[Alice!Max(s)].last - <<q>>[Alice!Max(s)].first + 1)]
<1>3. q.last \in Int /\ q.first \in Int /\ q.last - q.first + 1 = n
  BY DEF PieceSet
<1>4. Rec(it)
  <2>1. <<q>>[1] = q
    OBVIOUS
  <2>2. ASSUME NEW s \in SUBSET {1}
        PROVE  it[s] = IF s = {} THEN 0
                       ELSE it[s \ {Alice!Max(s)}] + (<<q>>[Alice!Max(s)].last - <<q>>[Alice!Max(s)].first + 1)
    <3>1. CASE s = {}
      BY <1>2, <3>1
    <3>2. CASE s # {}
      <4>1. s = {1} /\ Alice!Max(s) = 1 /\ s \ {1} = {} /\ it[s \ {1}] = 0 /\ it[s] = q.last - q.first + 1
        BY <1>1, <1>2, <3>2
      <4>2. it[s \ {Alice!Max(s)}] = 0 /\ <<q>>[Alice!Max(s)] = q
        BY <2>1, <4>1
      <4> QED BY <1>3, <3>2, <4>1, <4>2
    <3> QED BY <3>1, <3>2
  <2>3. it = [s \in SUBSET {1} |-> it[s]]
    BY <1>2
  <2> QED BY <2>2, <2>3
<1>5. \A g : Rec(g) => g[{1}] = n
  <2> SUFFICES ASSUME NEW g, Rec(g) PROVE g[{1}] = n
    OBVIOUS
  <2>1. {} \in SUBSET {1} /\ {1} \in SUBSET {1} /\ {1} \ {1} = {} /\ {1} # {} /\ Alice!Max({1}) = 1 /\ <<q>>[1] = q
    BY <1>1
  <2>2. g[{}] = 0
    BY <2>1
  <2>3. g[{1}] = g[{}] + (q.last - q.first + 1)
    BY <2>1
  <2> QED BY <1>3, <2>2, <2>3
<1>6. (CHOOSE g : Rec(g))[{1}] = n
  <2> HIDE DEF Rec
  <2>1. Rec(CHOOSE g : Rec(g))
    BY <1>4
  <2> QED BY <1>5, <2>1
<1>7. Alice!RuneCount(<<q>>) = (CHOOSE g : Rec(g))[DOMAIN <<q>>] + (IF <<q>> = <<>> THEN 0 ELSE Len(<<q>>) - 1)
  BY DEF Alice!RuneCount, Alice!FoldLeft, Alice!MapThenFoldSet
<1>8. DOMAIN <<q>> = {1} /\ <<q>> # <<>> /\ Len(<<q>>) = 1
  OBVIOUS
<1> HIDE DEF Rec
<1> QED BY <1>6, <1>7, <1>8

\* The words are taken in order: what the loop has after each of them.
Runs(text, limit, run) ==
    /\ run \in [0 .. Len(text) -> SplitSet]
    /\ run[0] = Begins
    /\ \A i \in 1 .. Len(text) : run[i] = Alice!AddWord(run[i - 1], i, text[i], limit)

Numbers(n) == [w \in 1 .. n |-> w]

LoopFrom(text, limit, seq, g) ==
    g = [s \in SUBSET DOMAIN seq |->
            IF s = {} THEN Begins
            ELSE Alice!AddWord(g[s \ {Alice!Max(s)}], seq[Alice!Max(s)], text[seq[Alice!Max(s)]], limit)]

Loop(text, limit) ==
    (CHOOSE g : LoopFrom(text, limit, Numbers(Len(text)), g))[DOMAIN Numbers(Len(text))]

LEMMA SplitIsLoop ==
    ASSUME NEW text, NEW limit, text # <<>>, limit # 0,
           ~(Alice!RuneCount(Alice!Whole(text)) <= limit)
    PROVE  Alice!splitAliceAnnouncementText(text, limit) = Alice!Flush(Loop(text, limit))
BY DEF Alice!splitAliceAnnouncementText, Alice!FoldLeft, Alice!MapThenFoldSet, Loop, LoopFrom, Numbers, Begins

\* How many pieces a long word gives.
LEMMA PiecesOf ==
    ASSUME NEW length \in Nat \ {0}, NEW limit \in Nat \ {0},
           NEW n, n = (length + limit - 1) \div limit
    PROVE  /\ n \in Nat /\ n >= 1
           /\ length <= n * limit /\ (n - 1) * limit < length
<1>1. n \in Nat /\ n * limit <= length + limit - 1 /\ length + limit - 1 < n * limit + limit
  OBVIOUS
<1>2. n # 0
  BY <1>1
<1>3. (n - 1) * limit = n * limit - limit
  BY <1>1
<1> QED BY <1>1, <1>2, <1>3

\* Of a word of length runes, piece k is full, or what is left.
LEMMA PieceBounds ==
    ASSUME NEW length \in Nat \ {0}, NEW limit \in Nat \ {0}, NEW n \in Nat, n >= 1,
           length <= n * limit, (n - 1) * limit < length, NEW k \in 1 .. n,
           NEW last, last = IF k * limit < length THEN k * limit ELSE length
    PROVE  /\ last \in Nat /\ (k - 1) * limit \in Nat
           /\ (k - 1) * limit + 1 <= last /\ last <= (k - 1) * limit + limit /\ last <= length
           /\ k < n => last = k * limit
           /\ k = n => last = length
<1>1. k * limit \in Nat /\ (k - 1) * limit \in Nat /\ (k - 1) * limit + limit = k * limit
      /\ n * limit \in Nat /\ (n - 1) * limit \in Nat
  OBVIOUS
<1>2. (k - 1) * limit <= (n - 1) * limit
  <2>1. \A a, b, c \in Nat : a <= b => a * c <= b * c
    OBVIOUS
  <2>2. k - 1 \in Nat /\ n - 1 \in Nat /\ limit \in Nat /\ k - 1 <= n - 1
    OBVIOUS
  <2> QED BY ONLY <2>1, <2>2
<1>3. k < n => k * limit <= (n - 1) * limit
  <2>1. \A a, b, c \in Nat : a <= b => a * c <= b * c
    OBVIOUS
  <2>2. k \in Nat /\ n - 1 \in Nat /\ limit \in Nat /\ k < n => k <= n - 1
    OBVIOUS
  <2> QED BY <2>1, <2>2
<1>4. k = n => ~(k * limit < length)
  BY <1>1
<1>5. k < n => k * limit < length
  BY <1>1, <1>3
<1> QED BY <1>1, <1>2, <1>4, <1>5

\* A fold of the numbers in W, the largest last.
ByLargest(g, W, D, base, o) ==
    \A s \in SUBSET W :
        /\ g[s] \in D
        /\ s # {} => Alice!Max(s) \in s /\ g[s \ {Alice!Max(s)}] \in D
        /\ g[s] = IF s = {} THEN base ELSE o[<<g[s \ {Alice!Max(s)}], Alice!Max(s)>>]

LEMMA FoldByLargest ==
    ASSUME NEW W, IsFiniteSet(W), \A y \in W : y \in Int, NEW D, NEW base \in D, NEW o,
           \A d \in D : \A k \in W : o[<<d, k>>] \in D
    PROVE  \E g : OnSubsets(g, W) /\ ByLargest(g, W, D, base, o)
<1>1. PICK p : p = [s \in SUBSET W |-> Alice!Max(s)]
  OBVIOUS
<1>2. \A s \in SUBSET W : s # {} => Alice!Max(s) \in s
  BY LargestExists, FS_Subset
<1>3. \A s \in SUBSET W : p[s] = Alice!Max(s)
  BY <1>1
<1>4. PicksFrom(p, W)
  BY <1>2, <1>3 DEF PicksFrom
<1>5. PICK g : FoldsTo(o, p, base, W, g) /\ OnSubsets(g, W)
  BY ONLY <1>4, IsFiniteSet(W), FoldExists
<1>6. \A s \in SUBSET W : g[s] \in D
  BY <1>4, <1>5, FoldTyped
<1>7. ASSUME NEW s \in SUBSET W
      PROVE  /\ g[s] \in D
             /\ s # {} => Alice!Max(s) \in s /\ g[s \ {Alice!Max(s)}] \in D
             /\ g[s] = IF s = {} THEN base ELSE o[<<g[s \ {Alice!Max(s)}], Alice!Max(s)>>]
  <2>1. g[s] = IF s = {} THEN base ELSE o[<<g[s \ {p[s]}], p[s]>>]
    BY ONLY <1>5, s \in SUBSET W DEF FoldsTo
  <2>2. p[s] = Alice!Max(s)
    BY <1>3
  <2>3. s \ {Alice!Max(s)} \in SUBSET W
    OBVIOUS
  <2> QED BY ONLY <1>2, <1>6, <2>1, <2>2, <2>3, s \in SUBSET W
<1> QED BY ONLY <1>5, <1>7 DEF ByLargest

LEMMA LeastExists ==
    ASSUME NEW S, IsFiniteSet(S), S # {}, \A y \in S : y \in Int
    PROVE  \E x \in S : \A y \in S : x <= y
<1> DEFINE Below(x) == {y \in S : y < x}
<1> DEFINE B == {Below(x) : x \in S}
<1>1. B \in SUBSET SUBSET S /\ B # {}
  <2>1. \A x \in S : Below(x) \in SUBSET S
    OBVIOUS
  <2> HIDE DEF Below
  <2> QED BY <2>1
<1> HIDE DEF B
<1>2. PICK X \in B : IsFiniteSet(X) /\ \A Y \in B : Y \subseteq X => Y = X
  BY ONLY <1>1, IsFiniteSet(S), SmallestSet
<1> USE DEF B
<1>3. PICK x \in S : X = Below(x)
  BY <1>2
<1>4. ASSUME NEW y \in S, y < x PROVE FALSE
  <2>1. Below(y) \subseteq Below(x)
    <3> SUFFICES ASSUME NEW z \in S, z < y PROVE z < x
      OBVIOUS
    <3>1. z \in Int /\ y \in Int /\ x \in Int
      OBVIOUS
    <3> QED BY <1>4, <3>1
  <2>2. y \in Below(x) /\ y \notin Below(y)
    <3>1. y \in Int
      OBVIOUS
    <3> QED BY <1>4, <3>1
  <2>3. Below(y) \in B
    OBVIOUS
  <2> QED BY <1>2, <1>3, <2>1, <2>2, <2>3
<1> SUFFICES ASSUME NEW y \in S PROVE x <= y
  OBVIOUS
<1>5. x \in Int /\ y \in Int /\ ~(y < x)
  BY <1>4
<1> QED BY <1>5

\* Induction over the numbers up to n, for a function to the truth values.
LEMMA Stepwise ==
    ASSUME NEW n \in Nat, NEW P, P[0], \A i \in 1 .. n : P[i - 1] => P[i]
    PROVE  \A i \in 0 .. n : P[i]
<1> SUFFICES ASSUME \E i \in 0 .. n : ~P[i] PROVE FALSE
  OBVIOUS
<1>1. PICK S : S = {i \in 0 .. n : ~P[i]}
  OBVIOUS
<1>2. IsFiniteSet(S)
  <2>1. PICK I : I = 0 .. n
    OBVIOUS
  <2>2. IsFiniteSet(I)
    BY <2>1, FS_Interval
  <2>3. S \in SUBSET I
    BY <1>1, <2>1
  <2> QED BY ONLY <2>2, <2>3, FS_Subset
<1>3. S # {} /\ \A y \in S : y \in Int
  BY <1>1
<1>4. PICK m \in S : \A y \in S : m <= y
  BY ONLY <1>2, <1>3, LeastExists
<1>5. m \in 0 .. n /\ ~P[m] /\ m # 0
  BY <1>1, <1>4
<1>6. m \in 1 .. n /\ m - 1 \in 0 .. n /\ ~(m <= m - 1)
  BY <1>5
<1>7. P[m - 1]
  BY <1>1, <1>4, <1>6
<1> QED BY <1>5, <1>6, <1>7

LEMMA Intervals ==
    ASSUME NEW n \in Nat, NEW i \in 1 .. n, NEW s, s = 1 .. i, NEW t, t = 1 .. i - 1
    PROVE  s # {} /\ Alice!Max(s) = i /\ s \ {i} = t
<1>1. i \in s /\ i \in Int /\ \A y \in s : y \in Int /\ i >= y
  OBVIOUS
<1>2. Alice!Max(s) = i
  BY <1>1, LargestOf
<1> QED BY <1>1, <1>2

RunesFrom(c, g) ==
    g = [s \in SUBSET DOMAIN c |->
            IF s = {} THEN 0
            ELSE g[s \ {Alice!Max(s)}] + (c[Alice!Max(s)].last - c[Alice!Max(s)].first + 1)]

LEMMA RunesAreCounted ==
    ASSUME NEW c \in Seq(PieceSet)
    PROVE  Alice!RuneCount(c) = (CHOOSE g : RunesFrom(c, g))[DOMAIN c] + (IF c = <<>> THEN 0 ELSE Len(c) - 1)
BY DEF Alice!RuneCount, Alice!FoldLeft, Alice!MapThenFoldSet, RunesFrom

LEMMA RunesExist ==
    ASSUME NEW c \in Seq(PieceSet)
    PROVE  \E g : RunesFrom(c, g)
<1>1. PICK W : W = DOMAIN c
  OBVIOUS
<1>2. IsFiniteSet(W) /\ \A y \in W : y \in Int /\ c[y] \in PieceSet
  BY <1>1, FS_Interval
<1>3. PICK o : o = [x \in Int \X W |-> x[1] + (c[x[2]].last - c[x[2]].first + 1)]
  OBVIOUS
<1>4. \A d \in Int : \A k \in W : o[<<d, k>>] = d + (c[k].last - c[k].first + 1)
  BY <1>3
<1>5. ASSUME NEW d \in Int, NEW k \in W PROVE o[<<d, k>>] \in Int
  <2>1. c[k].last \in Int /\ c[k].first \in Int
    BY <1>2 DEF PieceSet
  <2>2. o[<<d, k>>] = d + (c[k].last - c[k].first + 1)
    BY <1>4
  <2> QED BY <2>1, <2>2
<1>6. PICK D, zero : D = Int /\ zero = 0
  OBVIOUS
<1>7. zero \in D /\ (\A d \in D : \A k \in W : o[<<d, k>>] \in D) /\ \A y \in W : y \in Int
  BY <1>2, <1>5, <1>6
<1>8. PICK g : OnSubsets(g, W) /\ ByLargest(g, W, D, zero, o)
  <2>1. IsFiniteSet(W)
    BY <1>2
  <2> QED BY ONLY <1>7, <2>1, FoldByLargest
<1>9. ASSUME NEW s \in SUBSET W
      PROVE  g[s] = IF s = {} THEN 0
                    ELSE g[s \ {Alice!Max(s)}] + (c[Alice!Max(s)].last - c[Alice!Max(s)].first + 1)
  BY <1>4, <1>6, <1>8 DEF ByLargest
<1> QED BY <1>1, <1>8, <1>9 DEF RunesFrom, OnSubsets

LEMMA RunesTyped ==
    ASSUME NEW c \in Seq(PieceSet)
    PROVE  Alice!RuneCount(c) \in Int
<1>1. PICK g : g = CHOOSE f : RunesFrom(c, f)
  OBVIOUS
<1>2. RunesFrom(c, g)
  BY <1>1, RunesExist
<1>3. PICK n : n = Len(c)
  OBVIOUS
<1>4. n \in Nat /\ DOMAIN c = 1 .. n /\ \A i \in 1 .. n : c[i].last \in Int /\ c[i].first \in Int
  <2>1. n \in Nat /\ DOMAIN c = 1 .. n /\ \A i \in 1 .. n : c[i] \in PieceSet
    BY <1>3
  <2> QED BY <2>1 DEF PieceSet
<1>5. PICK P : P = [i \in 0 .. n |-> g[1 .. i] \in Int]
  OBVIOUS
<1>6. P[0]
  <2>1. 1 .. 0 = {} /\ {} \in SUBSET DOMAIN c
    OBVIOUS
  <2>2. g[{}] = 0
    BY <1>2, <2>1 DEF RunesFrom
  <2>3. P[0] <=> g[1 .. 0] \in Int
    <3>1. 0 \in 0 .. n
      BY <1>4
    <3> QED BY <1>5, <3>1
  <2> QED BY <2>1, <2>2, <2>3
<1>7. ASSUME NEW i \in 1 .. n, P[i - 1] PROVE P[i]
  <2>1. PICK s, t : s = 1 .. i /\ t = 1 .. i - 1
    OBVIOUS
  <2>2. s # {} /\ Alice!Max(s) = i /\ s \ {i} = t
    BY <1>4, <2>1, Intervals
  <2>3. s \in SUBSET DOMAIN c
    BY <1>4, <2>1
  <2>4. g[s] = g[t] + (c[i].last - c[i].first + 1)
    BY <1>2, <2>2, <2>3 DEF RunesFrom
  <2>5. (P[i] <=> g[s] \in Int) /\ (P[i - 1] <=> g[t] \in Int)
    <3>1. i \in 0 .. n /\ i - 1 \in 0 .. n
      BY <1>4
    <3> QED BY <1>5, <2>1, <3>1
  <2>6. g[t] \in Int /\ c[i].last \in Int /\ c[i].first \in Int
    BY <1>4, <1>7, <2>5
  <2>7. g[s] \in Int
    BY ONLY <2>4, <2>6
  <2> QED BY <2>5, <2>7
<1>8. P[n]
  <2>1. \A i \in 0 .. n : P[i]
    BY <1>4, <1>6, <1>7, Stepwise
  <2> QED BY <1>4, <2>1
<1>9. g[DOMAIN c] \in Int
  <2>1. P[n] <=> g[1 .. n] \in Int
    <3>1. n \in 0 .. n
      BY <1>4
    <3> QED BY <1>5, <3>1
  <2> QED BY <1>4, <1>8, <2>1
<1>10. Alice!RuneCount(c) = g[DOMAIN c] + (IF c = <<>> THEN 0 ELSE Len(c) - 1)
  BY <1>1, RunesAreCounted
<1> QED BY <1>3, <1>4, <1>9, <1>10

\* What the loop works with.
LEMMA LongWordTyped ==
    ASSUME NEW w \in Nat, NEW length \in Nat \ {0}, NEW limit \in Nat \ {0}
    PROVE  Alice!splitLongAliceWord(w, length, limit) \in Seq(Seq(PieceSet))
<1>1. PICK n : n = (length + limit - 1) \div limit
  OBVIOUS
<1>2. n \in Nat /\ n >= 1 /\ length <= n * limit /\ (n - 1) * limit < length
  BY <1>1, PiecesOf
<1>3. ASSUME NEW k \in 1 .. n
      PROVE  <<Alice!Piece(w, (k - 1) * limit + 1,
                           IF k * limit < length THEN k * limit ELSE length)>> \in Seq(PieceSet)
  <2>1. PICK last : last = IF k * limit < length THEN k * limit ELSE length
    OBVIOUS
  <2>2. last \in Nat /\ (k - 1) * limit \in Nat
    BY <1>2, <2>1, PieceBounds
  <2>3. PICK first : first = (k - 1) * limit + 1
    OBVIOUS
  <2>4. Alice!Piece(w, first, last) \in PieceSet
    BY <2>2, <2>3, PieceTyped
  <2> QED BY <2>1, <2>3, <2>4
<1>4. Alice!splitLongAliceWord(w, length, limit) \in [1 .. n -> Seq(PieceSet)]
  BY <1>1, <1>3 DEF Alice!splitLongAliceWord
<1>5. PICK f : f = Alice!splitLongAliceWord(w, length, limit)
  OBVIOUS
<1>6. f \in Seq(Seq(PieceSet))
  BY <1>2, <1>4, <1>5
<1> QED BY <1>5, <1>6

LEMMA FlushTyped ==
    ASSUME NEW s \in SplitSet
    PROVE  Alice!Flush(s) \in Seq(Seq(PieceSet))
BY DEF SplitSet, Alice!Flush

LEMMA AddWordTyped ==
    ASSUME NEW s \in SplitSet, NEW w \in Nat, NEW length \in Nat \ {0}, NEW limit \in Nat \ {0}
    PROVE  Alice!AddWord(s, w, length, limit) \in SplitSet
<1>1. PICK q : q = Alice!Piece(w, 1, length)
  OBVIOUS
<1>2. q \in PieceSet
  BY <1>1, PieceTyped
<1>3. s.chunks \in Seq(Seq(PieceSet)) /\ s.current \in Seq(PieceSet)
  BY DEF SplitSet
<1>4. PICK long : long = Alice!splitLongAliceWord(w, length, limit)
  OBVIOUS
<1>5. long \in Seq(Seq(PieceSet))
  BY <1>4, LongWordTyped
<1>6. [chunks |-> Alice!Flush(s) \o long, current |-> <<>>] \in SplitSet
  BY <1>5, FlushTyped DEF SplitSet
<1>7. /\ [chunks |-> Append(s.chunks, s.current), current |-> <<q>>] \in SplitSet
      /\ [s EXCEPT !.current = Append(s.current, q)] \in SplitSet
  <2>1. /\ Append(s.chunks, s.current) \in Seq(Seq(PieceSet)) /\ <<q>> \in Seq(PieceSet)
        /\ Append(s.current, q) \in Seq(PieceSet)
    BY <1>2, <1>3
  <2>2. [s EXCEPT !.current = Append(s.current, q)] \in SplitSet
    <3>1. \A c \in Seq(PieceSet) : [s EXCEPT !.current = c] \in SplitSet
      BY DEF SplitSet
    <3> QED BY <2>1, <3>1
  <2> QED BY <1>3, <2>1, <2>2 DEF SplitSet
<1> QED BY <1>1, <1>4, <1>6, <1>7 DEF Alice!AddWord

LEMMA LoopExists ==
    ASSUME NEW text \in Text, NEW limit \in Nat \ {0}
    PROVE  \E g : LoopFrom(text, limit, Numbers(Len(text)), g)
<1>1. PICK n, seq : n = Len(text) /\ seq = Numbers(n)
  OBVIOUS
<1>2. PICK W : W = DOMAIN seq
  OBVIOUS
<1>3. n \in Nat /\ W = 1 .. n /\ \A k \in 1 .. n : seq[k] = k /\ text[k] \in Nat \ {0}
  BY <1>1, <1>2 DEF Numbers, Text
<1>4. IsFiniteSet(W)
  BY <1>3, FS_Interval
<1>5. PICK o : o = [x \in SplitSet \X W |-> Alice!AddWord(x[1], seq[x[2]], text[seq[x[2]]], limit)]
  OBVIOUS
<1>6. \A d \in SplitSet : \A k \in W : o[<<d, k>>] = Alice!AddWord(d, seq[k], text[seq[k]], limit)
  BY <1>5
<1>7. ASSUME NEW d \in SplitSet, NEW k \in W PROVE o[<<d, k>>] \in SplitSet
  <2>1. seq[k] \in Nat /\ text[seq[k]] \in Nat \ {0}
    BY <1>3
  <2> QED BY <1>6, <2>1, AddWordTyped
<1>8. Begins \in SplitSet
  BY DEF Begins, SplitSet
<1>9. PICK g : OnSubsets(g, W) /\ ByLargest(g, W, SplitSet, Begins, o)
  <2>1. \A y \in W : y \in Int
    BY <1>3
  <2>2. \A d \in SplitSet : \A k \in W : o[<<d, k>>] \in SplitSet
    BY <1>7
  <2> QED BY ONLY <1>4, <1>8, <2>1, <2>2, FoldByLargest
<1>10. ASSUME NEW s \in SUBSET W
       PROVE  g[s] = IF s = {} THEN Begins
                     ELSE Alice!AddWord(g[s \ {Alice!Max(s)}], seq[Alice!Max(s)], text[seq[Alice!Max(s)]], limit)
  <2>1. CASE s = {}
    BY <1>9, <2>1 DEF ByLargest
  <2>2. CASE s # {}
    <3>1. PICK m, t : m = Alice!Max(s) /\ t = s \ {m}
      OBVIOUS
    <3>2. m \in W /\ g[t] \in SplitSet /\ g[s] = o[<<g[t], m>>]
      BY <1>9, <2>2, <3>1 DEF ByLargest
    <3>3. g[s] = Alice!AddWord(g[t], seq[m], text[seq[m]], limit)
      BY <1>6, <3>2
    <3> QED BY <2>2, <3>1, <3>3
  <2> QED BY <2>1, <2>2
<1>11. g = [s \in SUBSET W |-> g[s]]
  BY <1>9 DEF OnSubsets
<1>12. LoopFrom(text, limit, seq, g)
  BY ONLY <1>2, <1>10, <1>11 DEF LoopFrom
<1> QED BY <1>1, <1>12

LEMMA LoopRuns ==
    ASSUME NEW text \in Text, NEW limit \in Nat \ {0}
    PROVE  \E run : Runs(text, limit, run) /\ run[Len(text)] = Loop(text, limit)
<1>1. PICK n, seq : n = Len(text) /\ seq = Numbers(n)
  OBVIOUS
<1>2. PICK g : g = CHOOSE f : LoopFrom(text, limit, seq, f)
  OBVIOUS
<1>3. LoopFrom(text, limit, seq, g)
  BY <1>1, <1>2, LoopExists
<1>4. n \in Nat /\ DOMAIN seq = 1 .. n /\ \A k \in 1 .. n : seq[k] = k /\ text[k] \in Nat \ {0}
  BY <1>1 DEF Numbers, Text
<1>5. PICK run : run = [i \in 0 .. n |-> g[1 .. i]]
  OBVIOUS
<1>6. run[0] = Begins
  <2>1. 1 .. 0 = {} /\ {} \in SUBSET DOMAIN seq
    OBVIOUS
  <2>2. g[{}] = Begins
    BY <1>3, <2>1 DEF LoopFrom
  <2>3. 0 \in 0 .. n
    BY <1>4
  <2> QED BY <1>5, <2>1, <2>2, <2>3
<1>7. ASSUME NEW i \in 1 .. n
      PROVE  run[i] = Alice!AddWord(run[i - 1], i, text[i], limit)
  <2>1. PICK s, t : s = 1 .. i /\ t = 1 .. i - 1
    OBVIOUS
  <2>2. s # {} /\ Alice!Max(s) = i /\ s \ {i} = t
    BY <1>4, <2>1, Intervals
  <2>3. s \in SUBSET DOMAIN seq
    BY <1>4, <2>1
  <2>4. g[s] = Alice!AddWord(g[t], seq[i], text[seq[i]], limit)
    BY <1>3, <2>2, <2>3 DEF LoopFrom
  <2>5. run[i] = g[s] /\ run[i - 1] = g[t]
    <3>1. i \in 0 .. n /\ i - 1 \in 0 .. n
      BY <1>4
    <3> QED BY <1>5, <2>1, <3>1
  <2> QED BY <1>4, <2>4, <2>5
<1>8. PICK P : P = [i \in 0 .. n |-> run[i] \in SplitSet]
  OBVIOUS
<1>9. \A i \in 0 .. n : P[i] <=> run[i] \in SplitSet
  BY <1>8
<1>10. P[0]
  <2>1. Begins \in SplitSet
    BY DEF Begins, SplitSet
  <2>2. 0 \in 0 .. n
    BY <1>4
  <2> QED BY <1>6, <1>9, <2>1, <2>2
<1>11. ASSUME NEW i \in 1 .. n, P[i - 1] PROVE P[i]
  <2>1. i \in 0 .. n /\ i - 1 \in 0 .. n /\ i \in Nat
    BY <1>4
  <2>2. run[i - 1] \in SplitSet
    BY <1>9, <1>11, <2>1
  <2>3. PICK s, l : s = Alice!AddWord(run[i - 1], i, l, limit) /\ l = text[i]
    OBVIOUS
  <2>4. l \in Nat \ {0}
    BY <1>4, <2>3
  <2>5. s \in SplitSet
    BY <2>1, <2>2, <2>3, <2>4, AddWordTyped
  <2>6. run[i] \in SplitSet
    BY <1>7, <2>3, <2>5
  <2> QED BY <1>9, <2>1, <2>6
<1>12. \A i \in 0 .. n : run[i] \in SplitSet
  <2>1. \A i \in 0 .. n : P[i]
    BY <1>4, <1>10, <1>11, Stepwise
  <2> QED BY <1>9, <2>1
<1>13. Runs(text, limit, run)
  <2>1. run \in [0 .. n -> SplitSet]
    BY <1>5, <1>12
  <2> QED BY <1>1, <1>6, <1>7, <2>1 DEF Runs
<1>14. run[n] = Loop(text, limit)
  <2>1. n \in 0 .. n
    BY <1>4
  <2>2. run[n] = g[DOMAIN seq]
    BY <1>4, <1>5, <2>1
  <2> QED BY <1>1, <1>2, <2>2 DEF Loop
<1> QED BY <1>1, <1>13, <1>14

\* Sequences whose elements are in C and whose neighbours are in J: the
\* pieces of a chunk, and the chunks.
Chain(c, C, J) == c \in Seq(C) /\ \A k \in 1 .. Len(c) - 1 : <<c[k], c[k + 1]>> \in J

LEMMA ChainJoins ==
    ASSUME NEW C, NEW J, NEW a, NEW b, Chain(a, C, J), Chain(b, C, J),
           a # <<>> /\ b # <<>> => <<a[Len(a)], b[1]>> \in J
    PROVE  Chain(a \o b, C, J)
<1>1. PICK m, n, c : m = Len(a) /\ n = Len(b) /\ c = a \o b
  OBVIOUS
<1>2. a \in Seq(C) /\ b \in Seq(C) /\ m \in Nat /\ n \in Nat
  BY <1>1 DEF Chain
<1>3. /\ c \in Seq(C) /\ Len(c) = m + n
      /\ \A k \in 1 .. m : c[k] = a[k]
      /\ \A k \in 1 .. n : c[m + k] = b[k]
  BY <1>1, <1>2
<1>4. ASSUME NEW k \in 1 .. m + n - 1
      PROVE  <<c[k], c[k + 1]>> \in J
  <2>1. CASE k < m
    <3>1. k \in 1 .. m - 1 /\ k \in 1 .. m /\ k + 1 \in 1 .. m
      BY <1>2, <2>1
    <3> QED BY <1>1, <1>3, <3>1 DEF Chain
  <2>2. CASE k = m
    <3>1. m \in 1 .. m /\ 1 \in 1 .. n
      BY <1>2, <2>2
    <3>2. c[k] = a[m] /\ c[k + 1] = b[1]
      BY <1>3, <2>2, <3>1
    <3>3. a # <<>> /\ b # <<>>
      BY <1>1, <3>1
    <3> QED BY <1>1, <3>2, <3>3
  <2>3. CASE k > m
    <3>1. PICK h : h = k - m
      OBVIOUS
    <3>2. h \in 1 .. n - 1 /\ h \in 1 .. n /\ h + 1 \in 1 .. n /\ k = m + h /\ k + 1 = m + (h + 1)
      BY <1>2, <2>3, <3>1
    <3>3. c[k] = b[h] /\ c[k + 1] = b[h + 1]
      BY <1>3, <3>2
    <3> QED BY <1>1, <3>2, <3>3 DEF Chain
  <2> QED BY <1>2, <2>1, <2>2, <2>3
<1> QED BY <1>1, <1>3, <1>4 DEF Chain

LEMMA ChainOfOne ==
    ASSUME NEW C, NEW J, NEW x \in C
    PROVE  Chain(<<x>>, C, J)
BY DEF Chain

LEMMA ChainGrows ==
    ASSUME NEW C, NEW J, NEW a, NEW x \in C, Chain(a, C, J),
           a # <<>> => <<a[Len(a)], x>> \in J
    PROVE  /\ Chain(Append(a, x), C, J)
           /\ Append(a, x) # <<>> /\ Append(a, x)[Len(Append(a, x))] = x
           /\ a # <<>> => Append(a, x)[1] = a[1]
           /\ a = <<>> => Append(a, x) = <<x>> /\ Append(a, x)[1] = x
<1>1. a \in Seq(C)
  BY DEF Chain
<1>2. Append(a, x) = a \o <<x>> /\ Len(Append(a, x)) = Len(a) + 1 /\ Len(a) \in Nat
  BY <1>1
<1>3. PICK b : b = <<x>>
  OBVIOUS
<1>4. Chain(b, C, J) /\ b # <<>> /\ b[1] = x
  BY <1>3, ChainOfOne
<1>5. Chain(a \o b, C, J)
  BY ONLY <1>4, Chain(a, C, J), a # <<>> => <<a[Len(a)], x>> \in J, ChainJoins
<1>6. Append(a, x) # <<>> /\ Append(a, x)[Len(a) + 1] = x
  BY <1>1, <1>2
<1>7. a # <<>> => Append(a, x)[1] = a[1]
  <2>1. a # <<>> => Len(a) >= 1
    BY <1>1
  <2> QED BY <1>1, <1>2, <2>1
<1>8. a = <<>> => Append(a, x) = <<x>> /\ Append(a, x)[1] = x
  OBVIOUS
<1> QED BY <1>2, <1>3, <1>5, <1>6, <1>7, <1>8

\* A joint sequence begins like the first and ends like the second.
LEMMA JoinedEnds ==
    ASSUME NEW C, NEW a \in Seq(C), NEW b \in Seq(C), b # <<>>
    PROVE  /\ a \o b # <<>>
           /\ (a \o b)[Len(a \o b)] = b[Len(b)]
           /\ (a \o b)[1] = IF a = <<>> THEN b[1] ELSE a[1]
<1>1. PICK m, n, c : m = Len(a) /\ n = Len(b) /\ c = a \o b
  OBVIOUS
<1>2. m \in Nat /\ n \in Nat /\ n >= 1
  BY <1>1
<1>3. /\ Len(c) = m + n /\ c \in Seq(C)
      /\ \A k \in 1 .. m : c[k] = a[k]
      /\ \A k \in 1 .. n : c[m + k] = b[k]
  BY <1>1
<1>4. c # <<>>
  BY <1>2, <1>3
<1>5. c[Len(c)] = b[Len(b)]
  BY <1>1, <1>2, <1>3
<1>6. CASE a = <<>>
  <2>1. m = 0 /\ c[m + 1] = b[1]
    BY <1>1, <1>2, <1>3, <1>6
  <2> QED BY <1>1, <1>4, <1>5, <1>6, <2>1
<1>7. CASE a # <<>>
  <2>1. m >= 1
    BY <1>1, <1>7
  <2>2. c[1] = a[1]
    BY <1>2, <1>3, <2>1
  <2> QED BY <1>1, <1>4, <1>5, <1>7, <2>2
<1> QED BY <1>6, <1>7

\* FlattenSeq: one sequence of all the elements.
FlattensFrom(cs, f) == f = [i \in 1 .. Len(cs) |-> IF i = 1 THEN cs[i] ELSE f[i - 1] \o cs[i]]

LEMMA FlattenExists ==
    ASSUME NEW C, NEW cs \in Seq(Seq(C))
    PROVE  \E f : FlattensFrom(cs, f)
<1>1. PICK n, W, D : n = Len(cs) /\ W = 1 .. n /\ D = Seq(C)
  OBVIOUS
<1>2. n \in Nat /\ \A k \in W : cs[k] \in D
  BY <1>1
<1>3. IsFiniteSet(W) /\ \A y \in W : y \in Int
  BY <1>1, <1>2, FS_Interval
<1>4. PICK o : o = [x \in D \X W |-> IF x[2] = 1 THEN cs[x[2]] ELSE x[1] \o cs[x[2]]]
  OBVIOUS
<1>5. \A d \in D : \A k \in W : o[<<d, k>>] = IF k = 1 THEN cs[k] ELSE d \o cs[k]
  BY <1>4
<1>6. ASSUME NEW d \in D, NEW k \in W PROVE o[<<d, k>>] \in D
  <2>1. d \o cs[k] \in D
    BY <1>1, <1>2
  <2> QED BY <1>2, <1>5, <2>1
<1>7. PICK empty : empty = <<>>
  OBVIOUS
<1>8. empty \in D
  BY <1>1, <1>7
<1>9. PICK g : OnSubsets(g, W) /\ ByLargest(g, W, D, empty, o)
  <2>1. \A d \in D : \A k \in W : o[<<d, k>>] \in D
    BY <1>6
  <2> QED BY ONLY <1>3, <1>8, <2>1, FoldByLargest
<1>10. PICK f : f = [i \in 1 .. n |-> g[1 .. i]]
  OBVIOUS
<1>11. ASSUME NEW i \in 1 .. n
       PROVE  f[i] = IF i = 1 THEN cs[i] ELSE f[i - 1] \o cs[i]
  <2>1. PICK s, t : s = 1 .. i /\ t = 1 .. i - 1
    OBVIOUS
  <2>2. s # {} /\ Alice!Max(s) = i /\ s \ {i} = t
    BY <1>2, <1>1, <2>1, Intervals
  <2>3. s \in SUBSET W /\ i \in W
    BY <1>1, <1>2, <2>1
  <2>4. g[t] \in D /\ g[s] = o[<<g[t], i>>]
    BY <1>9, <2>2, <2>3 DEF ByLargest
  <2>5. g[s] = IF i = 1 THEN cs[i] ELSE g[t] \o cs[i]
    BY <1>5, <2>3, <2>4
  <2>6. f[i] = g[s]
    BY <1>10, <2>1
  <2>7. i # 1 => f[i - 1] = g[t]
    <3>1. i # 1 => i - 1 \in 1 .. n
      BY <1>2
    <3> QED BY <1>10, <2>1, <3>1
  <2> QED BY <2>5, <2>6, <2>7
<1>12. f = [i \in 1 .. n |-> f[i]]
  BY <1>10
<1>13. FlattensFrom(cs, f)
  BY ONLY <1>1, <1>11, <1>12 DEF FlattensFrom
<1> QED BY <1>13

\* If the sequences are chains, and each goes on where the last one ended,
\* so is the sequence of all their elements.
LEMMA FlattenChain ==
    ASSUME NEW C, NEW J, NEW cs \in Seq(Seq(C)), cs # <<>>,
           \A k \in 1 .. Len(cs) : cs[k] # <<>> /\ Chain(cs[k], C, J),
           \A k \in 1 .. Len(cs) - 1 : <<cs[k][Len(cs[k])], cs[k + 1][1]>> \in J,
           NEW pieces, pieces = Alice!FlattenSeq(cs)
    PROVE  /\ pieces # <<>> /\ Chain(pieces, C, J)
           /\ pieces[1] = cs[1][1]
           /\ pieces[Len(pieces)] = cs[Len(cs)][Len(cs[Len(cs)])]
<1>1. PICK n, f : n = Len(cs) /\ f = CHOOSE h : FlattensFrom(cs, h)
  OBVIOUS
<1>2. FlattensFrom(cs, f)
  BY <1>1, FlattenExists
<1>3. n \in Nat /\ n >= 1
  BY <1>1
<1>4. pieces = f[n]
  BY <1>1, <1>3 DEF Alice!FlattenSeq, FlattensFrom
<1>5. \A i \in 1 .. n : f[i] = IF i = 1 THEN cs[i] ELSE f[i - 1] \o cs[i]
  BY <1>1, <1>2 DEF FlattensFrom
<1> DEFINE Good(i) == /\ f[i] # <<>> /\ Chain(f[i], C, J)
                      /\ f[i][1] = cs[1][1]
                      /\ f[i][Len(f[i])] = cs[i][Len(cs[i])]
<1>6. PICK P : P = [i \in 0 .. n |-> i = 0 \/ Good(i)]
  OBVIOUS
<1>7. \A i \in 0 .. n : P[i] <=> (i = 0 \/ Good(i))
  BY <1>6
<1>8. P[0]
  <2>1. 0 \in 0 .. n
    BY <1>3
  <2> QED BY <1>7, <2>1
<1>9. ASSUME NEW i \in 1 .. n, P[i - 1] PROVE P[i]
  <2>1. i \in 0 .. n /\ i - 1 \in 0 .. n /\ i # 0
    BY <1>3
  <2>2. CASE i = 1
    <3>1. f[i] = cs[i] /\ cs[i] # <<>> /\ Chain(cs[i], C, J)
      BY <1>1, <1>5, <2>2
    <3>2. Good(i)
      BY <2>2, <3>1
    <3> HIDE DEF Good
    <3> QED BY <1>7, <2>1, <3>2
  <2>3. CASE i # 1
    <3>1. i - 1 \in 1 .. n /\ i - 1 \in 1 .. n - 1 /\ i - 1 # 0 /\ (i - 1) + 1 = i
      BY <1>3, <2>3
    <3>2. PICK d, c, j : d = f[i - 1] /\ c = cs[i] /\ j = i - 1
      OBVIOUS
    <3>3. Good(i - 1)
      BY <1>7, <1>9, <2>1, <3>1
    <3>4. d # <<>> /\ Chain(d, C, J) /\ d[1] = cs[1][1] /\ d[Len(d)] = cs[j][Len(cs[j])]
      BY <3>2, <3>3
    <3>5. c # <<>> /\ Chain(c, C, J) /\ <<cs[j][Len(cs[j])], c[1]>> \in J
      BY <1>1, <3>1, <3>2
    <3>6. f[i] = d \o c
      BY <1>5, <2>3, <3>2
    <3> HIDE DEF Good
    <3>7. Chain(d \o c, C, J)
      BY ONLY <3>4, <3>5, ChainJoins
    <3>8. d \in Seq(C) /\ c \in Seq(C)
      BY <3>4, <3>5 DEF Chain
    <3>9. d \o c # <<>> /\ (d \o c)[Len(d \o c)] = c[Len(c)] /\ (d \o c)[1] = d[1]
      BY ONLY <3>4, <3>5, <3>8, JoinedEnds
    <3>10. Good(i)
      BY <3>2, <3>4, <3>6, <3>7, <3>9 DEF Good
    <3> QED BY <1>7, <2>1, <3>10
  <2> QED BY <2>2, <2>3
<1>10. Good(n)
  <2>1. \A i \in 0 .. n : P[i]
    BY <1>3, <1>8, <1>9, Stepwise
  <2>2. n \in 0 .. n /\ n # 0
    BY <1>3
  <2> HIDE DEF Good
  <2> QED BY <1>7, <2>1, <2>2
<1> QED BY <1>1, <1>4, <1>10

\* What a chunk is, and when one may come after another.
Solid == {p \in PieceSet : p.first <= p.last}

NextTo(text) ==
    {x \in Solid \X Solid :
        \/ x[2].word = x[1].word /\ x[2].first = x[1].last + 1
        \/ x[2].word = x[1].word + 1 /\ x[2].first = 1 /\ x[1].last = text[x[1].word]}

ChunkSet(text, limit) ==
    {c \in Seq(Solid) : c # <<>> /\ Chain(c, Solid, NextTo(text)) /\ Alice!RuneCount(c) <= limit}

Follows(text, limit) ==
    {x \in ChunkSet(text, limit) \X ChunkSet(text, limit) :
        /\ <<x[1][Len(x[1])], x[2][1]>> \in NextTo(text)
        /\ \/ Alice!RuneCount(Append(x[1], x[2][1])) > limit
           \/ text[x[1][1].word] > limit
           \/ text[x[2][1].word] > limit}

Starts(c, w) == c[1].word = w /\ c[1].first = 1

EndsAt(c, w, text) == c[Len(c)].word = w /\ c[Len(c)].last = text[w]

\* A word by itself.
LEMMA PieceOfWord ==
    ASSUME NEW text \in Text, NEW w \in 1 .. Len(text), NEW p, p = Alice!Piece(w, 1, text[w])
    PROVE  /\ p \in Solid /\ p.word = w /\ p.first = 1 /\ p.last = text[w]
           /\ Alice!RuneCount(<<p>>) = text[w]
<1>1. w \in Nat /\ text[w] \in Nat \ {0}
  BY DEF Text
<1>2. PICK n : n = text[w]
  OBVIOUS
<1>3. n \in Nat /\ n >= 1 /\ 1 \in Nat
  BY <1>1, <1>2
<1>4. p = Alice!Piece(w, 1, n)
  BY <1>2
<1>5. p \in PieceSet /\ p.word = w /\ p.first = 1 /\ p.last = n
  BY <1>1, <1>3, <1>4, PieceTyped
<1>6. p.last + 1 = p.first + n
  BY <1>3, <1>5
<1>7. Alice!RuneCount(<<p>>) = n
  BY <1>3, <1>5, <1>6, RunesOfOne
<1> QED BY <1>2, <1>3, <1>5, <1>7 DEF Solid

LEMMA ChunkOfOne ==
    ASSUME NEW text, NEW limit, NEW p \in Solid, Alice!RuneCount(<<p>>) <= limit
    PROVE  <<p>> \in ChunkSet(text, limit)
<1>1. PICK c : c = <<p>>
  OBVIOUS
<1>2. Chain(c, Solid, NextTo(text))
  BY <1>1, ChainOfOne
<1>3. c # <<>> /\ c \in Seq(Solid)
  BY <1>1
<1>4. Alice!RuneCount(c) <= limit
  BY <1>1
<1> QED BY <1>1, <1>2, <1>3, <1>4 DEF ChunkSet

LEMMA ChunkFacts ==
    ASSUME NEW text, NEW limit, NEW c \in ChunkSet(text, limit)
    PROVE  /\ c \in Seq(Solid) /\ c # <<>> /\ Chain(c, Solid, NextTo(text))
           /\ Alice!RuneCount(c) <= limit
           /\ Len(c) \in Nat /\ Len(c) >= 1 /\ c[1] \in Solid /\ c[Len(c)] \in Solid
<1>1. c \in Seq(Solid) /\ c # <<>> /\ Chain(c, Solid, NextTo(text)) /\ Alice!RuneCount(c) <= limit
  BY DEF ChunkSet
<1>2. Len(c) \in Nat /\ Len(c) >= 1
  BY <1>1
<1> QED BY <1>1, <1>2

\* The next word goes on where the last one ended.
LEMMA NextWord ==
    ASSUME NEW text, NEW w \in Nat, NEW p \in Solid, NEW q \in Solid,
           p.word = w, p.last = text[w], q.word = w + 1, q.first = 1
    PROVE  <<p, q>> \in NextTo(text)
BY DEF NextTo

\* The parts of a word longer than the limit.
LEMMA LongWordChunks ==
    ASSUME NEW text \in Text, NEW limit \in Nat \ {0}, NEW w \in 1 .. Len(text), text[w] > limit,
           NEW long, long = Alice!splitLongAliceWord(w, text[w], limit)
    PROVE  /\ long # <<>> /\ Chain(long, ChunkSet(text, limit), Follows(text, limit))
           /\ Starts(long[1], w) /\ EndsAt(long[Len(long)], w, text)
           /\ long[Len(long)][1].word = w
<1>1. PICK length, n : length = text[w] /\ n = (length + limit - 1) \div limit
  OBVIOUS
<1>2. w \in Nat /\ length \in Nat \ {0} /\ length > limit
  BY <1>1 DEF Text
<1>3. n \in Nat /\ n >= 1 /\ length <= n * limit /\ (n - 1) * limit < length
  BY <1>1, <1>2, PiecesOf
<1>4. PICK q : q = [k \in 1 .. n |-> Alice!Piece(w, (k - 1) * limit + 1,
                                              IF k * limit < length THEN k * limit ELSE length)]
  OBVIOUS
<1>5. long = [k \in 1 .. n |-> <<q[k]>>]
  BY <1>1, <1>4 DEF Alice!splitLongAliceWord
<1>6. ASSUME NEW k \in 1 .. n
      PROVE  /\ q[k] \in Solid /\ q[k].word = w /\ q[k].first = (k - 1) * limit + 1
             /\ k < n => q[k].last = k * limit
             /\ k = n => q[k].last = length
             /\ Alice!RuneCount(<<q[k]>>) <= limit
  <2>1. PICK first, last, p : /\ last = IF k * limit < length THEN k * limit ELSE length
                              /\ first = (k - 1) * limit + 1
                              /\ p = q[k]
    OBVIOUS
  <2>2. /\ last \in Nat /\ (k - 1) * limit \in Nat
        /\ (k - 1) * limit + 1 <= last /\ last <= (k - 1) * limit + limit
        /\ k < n => last = k * limit
        /\ k = n => last = length
    BY <1>2, <1>3, <2>1, PieceBounds
  <2>3. p = Alice!Piece(w, first, last)
    BY <1>4, <2>1
  <2>4. first \in Nat /\ first <= last
    <3>1. PICK z : z = (k - 1) * limit
      OBVIOUS
    <3>2. z \in Nat /\ z + 1 <= last /\ first = z + 1
      BY <2>1, <2>2, <3>1
    <3> QED BY ONLY <3>2
  <2>5. p \in PieceSet /\ p.word = w /\ p.first = first /\ p.last = last
    BY <1>2, <2>2, <2>3, <2>4, PieceTyped
  <2>6. PICK r : r = last + 1 - first
    OBVIOUS
  <2>7. r \in Nat /\ last + 1 = first + r
    BY <2>2, <2>4, <2>6
  <2>8. r <= limit
    <3>1. PICK z : z = (k - 1) * limit
      OBVIOUS
    <3>2. z \in Nat /\ last <= z + limit /\ first = z + 1
      BY <2>1, <2>2, <3>1
    <3> QED BY <2>2, <2>6, <3>2
  <2>9. Alice!RuneCount(<<p>>) = r
    BY <2>5, <2>7, RunesOfOne
  <2> QED BY <2>1, <2>2, <2>4, <2>5, <2>8, <2>9 DEF Solid
<1>7. PICK K, F : K = ChunkSet(text, limit) /\ F = Follows(text, limit)
  OBVIOUS
<1>8. \A k \in 1 .. n : long[k] = <<q[k]>> /\ long[k] \in K /\ Len(long[k]) = 1 /\ long[k][1] = q[k]
  <2> SUFFICES ASSUME NEW k \in 1 .. n
               PROVE  long[k] = <<q[k]>> /\ long[k] \in K /\ Len(long[k]) = 1 /\ long[k][1] = q[k]
    OBVIOUS
  <2>1. PICK p : p = q[k]
    OBVIOUS
  <2>2. p \in Solid /\ Alice!RuneCount(<<p>>) <= limit
    BY <1>6, <2>1
  <2>3. <<p>> \in K
    BY <1>7, <2>2, ChunkOfOne
  <2>4. long[k] = <<p>>
    BY <1>5, <2>1
  <2> QED BY <2>1, <2>3, <2>4
<1>9. Len(long) = n /\ long \in Seq(K) /\ long # <<>>
  <2>1. long \in [1 .. n -> K]
    BY <1>5, <1>8
  <2> QED BY <1>3, <2>1
<1>10. ASSUME NEW k \in 1 .. n - 1
       PROVE  <<long[k], long[k + 1]>> \in F
  <2>1. k \in 1 .. n /\ k + 1 \in 1 .. n /\ k < n /\ (k + 1) - 1 = k
    BY <1>3
  <2>2. PICK c, d, a, b : c = long[k] /\ d = long[k + 1] /\ a = q[k] /\ b = q[k + 1]
    OBVIOUS
  <2>3. /\ a \in Solid /\ a.word = w /\ a.last = k * limit
        /\ b \in Solid /\ b.word = w /\ b.first = k * limit + 1
    BY <1>6, <2>1, <2>2
  <2>4. <<a, b>> \in NextTo(text)
    BY <2>3 DEF NextTo
  <2>5. c \in K /\ d \in K /\ c[Len(c)] = a /\ c[1] = a /\ d[1] = b
    BY <1>8, <2>1, <2>2
  <2>6. text[c[1].word] > limit
    BY <1>1, <1>2, <2>3, <2>5
  <2>7. <<c, d>> \in F
    BY <1>7, <2>4, <2>5, <2>6 DEF Follows
  <2> QED BY <2>2, <2>7
<1>11. Chain(long, K, F)
  BY <1>9, <1>10 DEF Chain
<1>12. Starts(long[1], w)
  <2>1. 1 \in 1 .. n /\ (1 - 1) * limit + 1 = 1
    BY <1>3
  <2>2. q[1].word = w /\ q[1].first = 1
    BY <1>6, <2>1
  <2> QED BY <1>8, <2>1, <2>2 DEF Starts
<1>13. n \in 1 .. n
  BY <1>3
<1>14. EndsAt(long[n], w, text) /\ long[n][1].word = w
  <2>1. q[n].word = w /\ q[n].last = length
    BY <1>6, <1>13
  <2> QED BY <1>1, <1>8, <1>13, <2>1 DEF EndsAt
<1> QED BY <1>7, <1>9, <1>11, <1>12, <1>14

\* What the loop has after i words.
LoopInv(s, i, text, limit) ==
    /\ s \in SplitSet
    /\ Chain(s.chunks, ChunkSet(text, limit), Follows(text, limit))
    /\ i = 0 => s = Begins
    /\ i > 0 => (s.chunks # <<>> \/ s.current # <<>>)
                /\ Starts(IF s.chunks = <<>> THEN s.current ELSE s.chunks[1], 1)
    /\ s.current # <<>> =>
           /\ s.current \in ChunkSet(text, limit) /\ EndsAt(s.current, i, text)
           /\ s.chunks # <<>> => <<s.chunks[Len(s.chunks)], s.current>> \in Follows(text, limit)
    /\ s.current = <<>> /\ s.chunks # <<>> =>
           /\ EndsAt(s.chunks[Len(s.chunks)], i, text)
           /\ text[s.chunks[Len(s.chunks)][1].word] > limit

\* The chunks so far, with the one that is not full yet.
LEMMA FlushChain ==
    ASSUME NEW text, NEW limit, NEW i \in Nat, i > 0, NEW s, LoopInv(s, i, text, limit),
           NEW cs, cs = Alice!Flush(s)
    PROVE  /\ cs # <<>> /\ Chain(cs, ChunkSet(text, limit), Follows(text, limit))
           /\ Starts(cs[1], 1) /\ EndsAt(cs[Len(cs)], i, text)
<1>1. PICK K, F, a, c : /\ K = ChunkSet(text, limit) /\ F = Follows(text, limit)
                        /\ a = s.chunks /\ c = s.current
  OBVIOUS
<1>2. Chain(a, K, F) /\ Starts(IF a = <<>> THEN c ELSE a[1], 1) /\ (a # <<>> \/ c # <<>>)
  BY <1>1 DEF LoopInv
<1>3. CASE c = <<>>
  <2>1. cs = a /\ a # <<>>
    BY <1>1, <1>2, <1>3 DEF Alice!Flush
  <2>2. EndsAt(a[Len(a)], i, text)
    BY <1>1, <1>3, <2>1 DEF LoopInv
  <2> QED BY <1>1, <1>2, <2>1, <2>2
<1>4. CASE c # <<>>
  <2>1. cs = Append(a, c)
    BY <1>1, <1>4 DEF Alice!Flush
  <2>2. c \in K /\ EndsAt(c, i, text) /\ (a # <<>> => <<a[Len(a)], c>> \in F)
    BY <1>1, <1>4 DEF LoopInv
  <2>3. /\ Chain(cs, K, F) /\ cs # <<>> /\ cs[Len(cs)] = c
        /\ a # <<>> => cs[1] = a[1]
        /\ a = <<>> => cs[1] = c
    BY ONLY <1>2, <2>1, <2>2, ChainGrows
  <2>4. Starts(cs[1], 1)
    BY <1>2, <2>3
  <2> QED BY <1>1, <2>2, <2>3, <2>4
<1> QED BY <1>3, <1>4

LEMMA AddWordKeeps ==
    ASSUME NEW text \in Text, NEW limit \in Nat \ {0}, NEW i \in 1 .. Len(text), NEW s,
           LoopInv(s, i - 1, text, limit), NEW t, t = Alice!AddWord(s, i, text[i], limit)
    PROVE  LoopInv(t, i, text, limit)
<1>1. PICK j, a, c, p, length : /\ j = i - 1 /\ a = s.chunks /\ c = s.current
                                /\ p = Alice!Piece(i, 1, text[i]) /\ length = text[i]
  OBVIOUS
<1>2. PICK K, F : K = ChunkSet(text, limit) /\ F = Follows(text, limit)
  OBVIOUS
<1>3. i \in Nat /\ j \in Nat /\ i = j + 1 /\ i > 0 /\ i # 0 /\ length \in Nat \ {0}
      /\ (j # 0 => j > 0)
  BY <1>1 DEF Text
<1>4. s \in SplitSet /\ Chain(a, K, F) /\ a \in Seq(Seq(PieceSet)) /\ c \in Seq(PieceSet)
  BY <1>1, <1>2 DEF LoopInv, SplitSet
<1>5. t \in SplitSet
  BY <1>1, <1>3, <1>4, AddWordTyped
<1>6. p \in Solid /\ p.word = i /\ p.first = 1 /\ p.last = text[i] /\ Alice!RuneCount(<<p>>) = length
  BY <1>1, PieceOfWord
<1>7. j = 0 => a = <<>> /\ c = <<>>
  BY <1>1 DEF LoopInv, Begins
<1>8. j > 0 => (a # <<>> \/ c # <<>>) /\ Starts(IF a = <<>> THEN c ELSE a[1], 1)
  BY <1>1 DEF LoopInv
<1>9. c # <<>> => c \in K /\ EndsAt(c, j, text) /\ (a # <<>> => <<a[Len(a)], c>> \in F)
  BY <1>1, <1>2 DEF LoopInv
<1>10. c = <<>> /\ a # <<>> => EndsAt(a[Len(a)], j, text) /\ text[a[Len(a)][1].word] > limit
  BY <1>1 DEF LoopInv
<1>11. \A d \in K : EndsAt(d, j, text) => \A q \in Solid : q.word = i /\ q.first = 1 => <<d[Len(d)], q>> \in NextTo(text)
  <2> SUFFICES ASSUME NEW d \in K, EndsAt(d, j, text), NEW q \in Solid, q.word = i, q.first = 1
               PROVE  <<d[Len(d)], q>> \in NextTo(text)
    OBVIOUS
  <2>1. PICK e : e = d[Len(d)]
    OBVIOUS
  <2>2. e \in Solid /\ e.word = j /\ e.last = text[j]
    BY <1>2, <2>1, ChunkFacts DEF EndsAt
  <2>3. q.word = j + 1
    BY <1>3
  <2>4. <<e, q>> \in NextTo(text)
    BY <1>3, <2>2, <2>3, NextWord
  <2> QED BY <2>1, <2>4
<1>12. CASE length > limit
  <2>1. PICK long, f : long = Alice!splitLongAliceWord(i, text[i], limit) /\ f = Alice!Flush(s)
    OBVIOUS
  <2>2. /\ long # <<>> /\ Chain(long, K, F) /\ Starts(long[1], i) /\ EndsAt(long[Len(long)], i, text)
        /\ long[Len(long)][1].word = i
    <3>1. text[i] > limit
      BY <1>1, <1>12
    <3> QED BY <1>2, <2>1, <3>1, LongWordChunks
  <2>3. t = [chunks |-> f \o long, current |-> <<>>]
    BY <1>1, <1>12, <2>1 DEF Alice!AddWord
  <2>4. j > 0 => f # <<>> /\ Chain(f, K, F) /\ Starts(f[1], 1) /\ EndsAt(f[Len(f)], j, text)
    BY <1>1, <1>2, <1>3, <2>1, FlushChain
  <2>5. j = 0 => f = <<>>
    BY <1>1, <1>7, <2>1 DEF Alice!Flush
  <2>6. Chain(f, K, F)
    <3>1. Chain(<<>>, K, F)
      BY DEF Chain
    <3> QED BY <1>3, <2>4, <2>5, <3>1
  <2>7. f # <<>> => <<f[Len(f)], long[1]>> \in F
    <3> SUFFICES ASSUME f # <<>> PROVE <<f[Len(f)], long[1]>> \in F
      OBVIOUS
    <3>1. PICK d, e : d = f[Len(f)] /\ e = long[1]
      OBVIOUS
    <3>2. d \in K /\ e \in K
      <4>1. f \in Seq(K) /\ long \in Seq(K)
        BY <2>2, <2>6 DEF Chain
      <4> QED BY <2>2, <3>1, <4>1
    <3>3. EndsAt(d, j, text)
      BY <1>3, <2>4, <2>5, <3>1
    <3>4. e[1] \in Solid /\ e[1].word = i /\ e[1].first = 1
      BY <1>2, <2>2, <3>1, <3>2, ChunkFacts DEF Starts
    <3>5. <<d[Len(d)], e[1]>> \in NextTo(text)
      BY <1>11, <3>2, <3>3, <3>4
    <3>6. text[e[1].word] > limit
      BY <1>1, <1>12, <3>4
    <3>7. <<d, e>> \in F
      BY <1>2, <3>2, <3>5, <3>6 DEF Follows
    <3> QED BY <3>1, <3>7
  <2>8. Chain(f \o long, K, F)
    BY ONLY <2>2, <2>6, <2>7, ChainJoins
  <2>9. f \o long # <<>> /\ (f \o long)[Len(f \o long)] = long[Len(long)]
        /\ (f \o long)[1] = IF f = <<>> THEN long[1] ELSE f[1]
    <3>1. f \in Seq(K) /\ long \in Seq(K)
      BY <2>2, <2>6 DEF Chain
    <3> QED BY ONLY <2>2, <3>1, JoinedEnds
  <2>10. Starts((f \o long)[1], 1)
    <3>1. CASE j = 0
      <4>1. i = 1
        BY <1>3, <3>1
      <4> QED BY <2>2, <2>5, <2>9, <3>1, <4>1
    <3>2. CASE j # 0
      BY <1>3, <2>4, <2>9, <3>2
    <3> QED BY <3>1, <3>2
  <2>11. text[i] > limit
    BY <1>1, <1>12
  <2>12. t.chunks = f \o long /\ t.current = <<>>
    BY <2>3
  <2> QED BY <1>2, <1>3, <1>5, <2>2, <2>8, <2>9, <2>10, <2>11, <2>12 DEF LoopInv
<1>13. CASE ~(length > limit) /\ Alice!RuneCount(Append(c, p)) > limit
  <2>1. t = [chunks |-> Append(a, c), current |-> <<p>>]
    BY <1>1, <1>13 DEF Alice!AddWord
  <2>2. length <= limit
    BY <1>3, <1>13
  <2>3. c # <<>>
    <3>1. c = <<>> => Append(c, p) = <<p>>
      OBVIOUS
    <3>2. ~(length > limit) /\ Alice!RuneCount(Append(c, p)) > limit /\ Alice!RuneCount(<<p>>) = length
      BY <1>6, <1>13
    <3> QED BY ONLY <3>1, <3>2
  <2>4. PICK o : o = <<p>>
    OBVIOUS
  <2>5. o \in K /\ o # <<>> /\ o[1] = p /\ Len(o) = 1 /\ EndsAt(o, i, text)
    <3>1. Alice!RuneCount(<<p>>) <= limit
      BY <1>6, <2>2
    <3>2. o \in K
      BY <1>2, <1>6, <2>4, <3>1, ChunkOfOne
    <3>3. o # <<>> /\ o[1] = p /\ Len(o) = 1
      BY <2>4
    <3> QED BY <1>6, <3>2, <3>3 DEF EndsAt
  <2>6. c \in K /\ EndsAt(c, j, text) /\ (a # <<>> => <<a[Len(a)], c>> \in F)
    BY <1>9, <2>3
  <2>7. PICK b : b = Append(a, c)
    OBVIOUS
  <2>8. /\ Chain(b, K, F) /\ b # <<>> /\ b[Len(b)] = c
        /\ a # <<>> => b[1] = a[1]
        /\ a = <<>> => b[1] = c
    BY ONLY <1>4, <2>6, <2>7, ChainGrows
  <2>9. <<c, o>> \in F
    <3>1. <<c[Len(c)], p>> \in NextTo(text)
      BY <1>6, <1>11, <2>6
    <3>2. Alice!RuneCount(Append(c, o[1])) > limit
      BY <1>13, <2>5
    <3> QED BY <1>2, <2>5, <2>6, <3>1, <3>2 DEF Follows
  <2>10. Starts(b[1], 1)
    <3>1. j # 0
      BY <1>7, <2>3
    <3> QED BY <1>3, <1>8, <2>8, <3>1
  <2>11. t.chunks = b /\ t.current = o
    BY <2>1, <2>4, <2>7
  <2> QED BY <1>2, <1>3, <1>5, <2>5, <2>8, <2>9, <2>10, <2>11 DEF LoopInv
<1>14. CASE ~(length > limit) /\ ~(Alice!RuneCount(Append(c, p)) > limit)
  <2>1. PICK d : d = Append(c, p)
    OBVIOUS
  <2>2. t = [s EXCEPT !.current = d]
    BY <1>1, <1>14, <2>1 DEF Alice!AddWord
  <2>3. t.chunks = a /\ t.current = d
    BY <1>1, <1>4, <2>2 DEF SplitSet
  <2>4. Chain(c, Solid, NextTo(text)) /\ (c # <<>> => <<c[Len(c)], p>> \in NextTo(text))
    <3>1. CASE c = <<>>
      BY <3>1 DEF Chain
    <3>2. CASE c # <<>>
      <4>1. Chain(c, Solid, NextTo(text))
        BY <1>2, <1>9, <3>2, ChunkFacts
      <4>2. <<c[Len(c)], p>> \in NextTo(text)
        BY <1>6, <1>9, <1>11, <3>2
      <4> QED BY <4>1, <4>2
    <3> QED BY <3>1, <3>2
  <2>5. /\ Chain(d, Solid, NextTo(text)) /\ d # <<>> /\ d[Len(d)] = p
        /\ c # <<>> => d[1] = c[1]
        /\ c = <<>> => d[1] = p
    <3>1. p \in Solid
      BY <1>6
    <3> QED BY ONLY <2>1, <2>4, <3>1, ChainGrows
  <2>6. d \in Seq(Solid) /\ d[1] \in Solid
    <3>1. d \in Seq(Solid)
      BY <2>5 DEF Chain
    <3> QED BY <2>5, <3>1
  <2>7. d \in K
    <3>1. d \in Seq(PieceSet)
      <4>1. Solid \subseteq PieceSet
        BY DEF Solid
      <4> QED BY <2>6, <4>1
    <3>2. Alice!RuneCount(d) \in Int /\ ~(Alice!RuneCount(d) > limit)
      BY <1>14, <2>1, <3>1, RunesTyped
    <3>3. Alice!RuneCount(d) <= limit
      BY ONLY <3>2, limit \in Nat \ {0}
    <3> QED BY <1>2, <2>5, <2>6, <3>3 DEF ChunkSet
  <2>8. EndsAt(d, i, text)
    BY <1>6, <2>5 DEF EndsAt
  <2>9. a # <<>> => <<a[Len(a)], d>> \in F
    <3> SUFFICES ASSUME a # <<>> PROVE <<a[Len(a)], d>> \in F
      OBVIOUS
    <3>1. PICK e : e = a[Len(a)]
      OBVIOUS
    <3>2. e \in K
      <4>1. a \in Seq(K)
        BY <1>4 DEF Chain
      <4> QED BY <3>1, <4>1
    <3>3. CASE c = <<>>
      <4>1. EndsAt(e, j, text) /\ text[e[1].word] > limit
        BY <1>10, <3>1, <3>3
      <4>2. <<e[Len(e)], d[1]>> \in NextTo(text)
        BY <1>6, <1>11, <2>5, <3>2, <3>3, <4>1
      <4>3. <<e, d>> \in F
        BY <1>2, <2>7, <3>2, <4>1, <4>2 DEF Follows
      <4> QED BY <3>1, <4>3
    <3>4. CASE c # <<>>
      <4>1. <<e, c>> \in F /\ d[1] = c[1]
        BY <1>9, <2>5, <3>1, <3>4
      <4>2. /\ <<e[Len(e)], c[1]>> \in NextTo(text)
            /\ \/ Alice!RuneCount(Append(e, c[1])) > limit
               \/ text[e[1].word] > limit
               \/ text[c[1].word] > limit
        BY <1>2, <4>1 DEF Follows
      <4>3. <<e, d>> \in F
        BY <1>2, <2>7, <3>2, <4>1, <4>2 DEF Follows
      <4> QED BY <3>1, <4>3
    <3> QED BY <3>3, <3>4
  <2>10. Starts(IF a = <<>> THEN d ELSE a[1], 1)
    <3>1. CASE j = 0
      <4>1. a = <<>> /\ d[1] = p /\ i = 1
        BY <1>3, <1>7, <2>5, <3>1
      <4> QED BY <1>6, <4>1 DEF Starts
    <3>2. CASE j # 0
      <4>1. (a # <<>> \/ c # <<>>) /\ Starts(IF a = <<>> THEN c ELSE a[1], 1)
        BY <1>3, <1>8, <3>2
      <4>2. CASE a = <<>>
        BY <2>5, <4>1, <4>2 DEF Starts
      <4>3. CASE a # <<>>
        BY <4>1, <4>3
      <4> QED BY <4>2, <4>3
    <3> QED BY <3>1, <3>2
  <2> QED BY <1>2, <1>3, <1>4, <1>5, <2>3, <2>5, <2>7, <2>8, <2>9, <2>10 DEF LoopInv
<1> QED BY <1>12, <1>13, <1>14

LEMMA SplitChains ==
    ASSUME NEW text \in Text, NEW limit \in Nat \ {0}, text # <<>>,
           ~(Alice!RuneCount(Alice!Whole(text)) <= limit),
           NEW cs, cs = Alice!splitAliceAnnouncementText(text, limit)
    PROVE  /\ cs # <<>> /\ Chain(cs, ChunkSet(text, limit), Follows(text, limit))
           /\ Starts(cs[1], 1) /\ EndsAt(cs[Len(cs)], Len(text), text)
<1>1. PICK n, run : n = Len(text) /\ Runs(text, limit, run) /\ run[n] = Loop(text, limit)
  BY LoopRuns
<1>2. n \in Nat /\ n > 0
  <2>1. Len(text) \in Nat /\ Len(text) # 0
    BY DEF Text
  <2> QED BY <1>1, <2>1
<1>3. PICK P : P = [i \in 0 .. n |-> LoopInv(run[i], i, text, limit)]
  OBVIOUS
<1>4. \A i \in 0 .. n : P[i] <=> LoopInv(run[i], i, text, limit)
  BY <1>3
<1>5. P[0]
  <2>1. 0 \in 0 .. n
    BY <1>2
  <2>2. run[0] = Begins
    BY <1>1 DEF Runs
  <2>3. LoopInv(Begins, 0, text, limit)
    <3>1. Chain(<<>>, ChunkSet(text, limit), Follows(text, limit))
      BY DEF Chain
    <3> QED BY <3>1 DEF LoopInv, Begins, SplitSet
  <2> QED BY <1>4, <2>1, <2>2, <2>3
<1>6. ASSUME NEW i \in 1 .. n, P[i - 1] PROVE P[i]
  <2>1. i \in 0 .. n /\ i - 1 \in 0 .. n
    BY <1>2
  <2>2. PICK s, t : s = run[i - 1] /\ t = run[i]
    OBVIOUS
  <2>3. LoopInv(s, i - 1, text, limit)
    BY <1>4, <1>6, <2>1, <2>2
  <2>4. t = Alice!AddWord(s, i, text[i], limit)
    BY <1>1, <2>2 DEF Runs
  <2>5. i \in 1 .. Len(text)
    BY <1>1
  <2>6. LoopInv(t, i, text, limit)
    BY <2>3, <2>4, <2>5, AddWordKeeps
  <2> QED BY <1>4, <2>1, <2>2, <2>6
<1>7. LoopInv(Loop(text, limit), n, text, limit)
  <2>1. \A i \in 0 .. n : P[i]
    BY <1>2, <1>5, <1>6, Stepwise
  <2>2. n \in 0 .. n
    BY <1>2
  <2> QED BY <1>1, <1>4, <2>1, <2>2
<1>8. cs = Alice!Flush(Loop(text, limit))
  <2>1. limit # 0
    OBVIOUS
  <2> QED BY <2>1, SplitIsLoop
<1> QED BY <1>1, <1>2, <1>7, <1>8, FlushChain

\* Such pieces are the text.
LEMMA ChainSpells ==
    ASSUME NEW text \in Text, text # <<>>, NEW pieces, pieces # <<>>, Chain(pieces, Solid, NextTo(text)),
           Starts(pieces, 1), EndsAt(pieces, Len(text), text)
    PROVE  Alice!Spells(pieces, text)
<1>1. pieces \in Seq(Solid)
  BY DEF Chain
<1>2. \A k \in 1 .. Len(pieces) : pieces[k].first <= pieces[k].last
  <2>1. \A k \in 1 .. Len(pieces) : pieces[k] \in Solid
    BY <1>1
  <2> QED BY <2>1 DEF Solid
<1>3. ASSUME NEW k \in 1 .. Len(pieces) - 1
      PROVE  LET p == pieces[k]
                 q == pieces[k + 1]
             IN  \/ q.word = p.word /\ q.first = p.last + 1
                 \/ q.word = p.word + 1 /\ q.first = 1 /\ p.last = text[p.word]
  <2>1. PICK p, q : p = pieces[k] /\ q = pieces[k + 1]
    OBVIOUS
  <2>2. <<p, q>> \in NextTo(text)
    BY <2>1 DEF Chain
  <2>3. \/ q.word = p.word /\ q.first = p.last + 1
        \/ q.word = p.word + 1 /\ q.first = 1 /\ p.last = text[p.word]
    BY <2>2 DEF NextTo
  <2> QED BY <2>1, <2>3
<1> QED BY <1>2, <1>3 DEF Alice!Spells, Alice!Last, Starts, EndsAt

\* A text that is not cut.
LEMMA WholeChain ==
    ASSUME NEW text \in Text, text # <<>>, NEW c, c = Alice!Whole(text)
    PROVE  /\ c # <<>> /\ Chain(c, Solid, NextTo(text))
           /\ Starts(c, 1) /\ EndsAt(c, Len(text), text)
<1>1. PICK n : n = Len(text)
  OBVIOUS
<1>2. n \in Nat /\ n >= 1
  BY <1>1 DEF Text
<1>3. \A w \in 1 .. n : c[w] = Alice!Piece(w, 1, text[w])
  BY <1>1 DEF Alice!Whole
<1>4. \A w \in 1 .. n : c[w] \in Solid /\ c[w].word = w /\ c[w].first = 1 /\ c[w].last = text[w]
  <2> SUFFICES ASSUME NEW w \in 1 .. n
               PROVE  c[w] \in Solid /\ c[w].word = w /\ c[w].first = 1 /\ c[w].last = text[w]
    OBVIOUS
  <2>1. PICK p, last : p = c[w] /\ last = text[w]
    OBVIOUS
  <2>2. w \in Nat /\ 1 \in Nat /\ last \in Nat /\ 1 <= last
    BY <1>1, <2>1 DEF Text
  <2>3. p = Alice!Piece(w, 1, last)
    BY <1>3, <2>1
  <2>4. p \in PieceSet /\ p.word = w /\ p.first = 1 /\ p.last = last
    BY <2>2, <2>3, PieceTyped
  <2> QED BY <2>1, <2>2, <2>4 DEF Solid
<1>5. c \in Seq(Solid) /\ Len(c) = n /\ c # <<>>
  <2>1. c \in [1 .. n -> Solid]
    BY <1>1, <1>4 DEF Alice!Whole
  <2> QED BY <1>2, <2>1
<1>6. ASSUME NEW k \in 1 .. n - 1 PROVE <<c[k], c[k + 1]>> \in NextTo(text)
  <2>1. k \in Nat /\ k \in 1 .. n /\ k + 1 \in 1 .. n
    BY <1>2
  <2>2. PICK p, q : p = c[k] /\ q = c[k + 1]
    OBVIOUS
  <2>3. /\ p \in Solid /\ p.word = k /\ p.last = text[k]
        /\ q \in Solid /\ q.word = k + 1 /\ q.first = 1
    BY <1>4, <2>1, <2>2
  <2>4. <<p, q>> \in NextTo(text)
    BY <2>1, <2>3, NextWord
  <2> QED BY <2>2, <2>4
<1>7. Chain(c, Solid, NextTo(text))
  BY <1>5, <1>6 DEF Chain
<1>8. 1 \in 1 .. n /\ n \in 1 .. n
  BY <1>2
<1> QED BY <1>1, <1>4, <1>5, <1>7, <1>8 DEF Starts, EndsAt

\* splitAliceAnnouncementText keeps the text.
LEMMA SplitKeeps ==
    ASSUME NEW text \in Text, NEW limit \in Nat
    PROVE  Alice!SplitKeepsText(text, limit)
<1>1. PICK cs, pieces : cs = Alice!splitAliceAnnouncementText(text, limit) /\ pieces = Alice!FlattenSeq(cs)
  OBVIOUS
<1> SUFFICES ASSUME text # <<>>
             PROVE  /\ Alice!Spells(pieces, text)
                    /\ limit > 0 => /\ \A k \in 1 .. Len(cs) : Alice!RuneCount(cs[k]) <= limit
                                    /\ Alice!SplitsForAReason(cs, text, limit)
  BY <1>1 DEF Alice!SplitKeepsText, Alice!Pieces
<1>2. CASE limit = 0 \/ Alice!RuneCount(Alice!Whole(text)) <= limit
  <2>1. PICK c : c = Alice!Whole(text)
    OBVIOUS
  <2>2. cs = <<c>>
    BY <1>1, <1>2, <2>1 DEF Alice!splitAliceAnnouncementText
  <2>3. c # <<>> /\ Chain(c, Solid, NextTo(text)) /\ Starts(c, 1) /\ EndsAt(c, Len(text), text)
    BY <2>1, WholeChain
  <2>4. c \in Seq(Solid)
    BY <2>3 DEF Chain
  <2>5. Len(cs) = 1 /\ cs[1] = c /\ cs # <<>> /\ cs \in Seq(Seq(Solid))
    BY <2>2, <2>4
  <2>6. PICK J : J = NextTo(text)
    OBVIOUS
  <2>7. /\ \A k \in 1 .. Len(cs) : cs[k] # <<>> /\ Chain(cs[k], Solid, J)
        /\ \A k \in 1 .. Len(cs) - 1 : <<cs[k][Len(cs[k])], cs[k + 1][1]>> \in J
    BY <2>3, <2>5, <2>6
  <2>8. pieces # <<>> /\ Chain(pieces, Solid, J) /\ pieces[1] = c[1] /\ pieces[Len(pieces)] = c[Len(c)]
    <3>1. pieces = Alice!FlattenSeq(cs)
      BY <1>1
    <3>2. /\ pieces # <<>> /\ Chain(pieces, Solid, J) /\ pieces[1] = cs[1][1]
          /\ pieces[Len(pieces)] = cs[Len(cs)][Len(cs[Len(cs)])]
      <4>1. cs \in Seq(Seq(Solid)) /\ cs # <<>>
        BY <2>5
      <4>2. \A k \in 1 .. Len(cs) : cs[k] # <<>> /\ Chain(cs[k], Solid, J)
        BY <2>7
      <4>3. \A k \in 1 .. Len(cs) - 1 : <<cs[k][Len(cs[k])], cs[k + 1][1]>> \in J
        BY <2>7
      <4> QED BY ONLY <3>1, <4>1, <4>2, <4>3, FlattenChain
    <3> QED BY <2>5, <3>2
  <2>9. Starts(pieces, 1) /\ EndsAt(pieces, Len(text), text)
    BY <2>3, <2>8 DEF Starts, EndsAt
  <2>10. Alice!Spells(pieces, text)
    BY <2>6, <2>8, <2>9, ChainSpells
  <2>11. limit > 0 => \A k \in 1 .. Len(cs) : Alice!RuneCount(cs[k]) <= limit
    <3>1. limit > 0 => Alice!RuneCount(c) <= limit
      BY <1>2, <2>1
    <3> QED BY <2>5, <3>1
  <2>12. Alice!SplitsForAReason(cs, text, limit)
    <3>1. 1 .. Len(cs) - 1 = {}
      BY <2>5
    <3> QED BY <3>1 DEF Alice!SplitsForAReason
  <2> QED BY <2>10, <2>11, <2>12
<1>3. CASE ~(limit = 0 \/ Alice!RuneCount(Alice!Whole(text)) <= limit)
  <2>1. PICK K, F, J : K = ChunkSet(text, limit) /\ F = Follows(text, limit) /\ J = NextTo(text)
    OBVIOUS
  <2>2. limit \in Nat \ {0}
    BY <1>3
  <2>3. cs # <<>> /\ Chain(cs, K, F) /\ Starts(cs[1], 1) /\ EndsAt(cs[Len(cs)], Len(text), text)
    BY <1>1, <1>3, <2>1, <2>2, SplitChains
  <2>4. cs \in Seq(K) /\ \A k \in 1 .. Len(cs) : cs[k] \in K
    <3>1. cs \in Seq(K)
      BY <2>3 DEF Chain
    <3> QED BY <3>1
  <2>5. \A k \in 1 .. Len(cs) : /\ cs[k] \in Seq(Solid) /\ cs[k] # <<>> /\ Chain(cs[k], Solid, J)
                                /\ Alice!RuneCount(cs[k]) <= limit
    BY <2>1, <2>4, ChunkFacts
  <2>6. cs \in Seq(Seq(Solid))
    <3>1. cs \in [1 .. Len(cs) -> Seq(Solid)] /\ Len(cs) \in Nat
      BY <2>4, <2>5
    <3> QED BY <3>1
  <2>7. ASSUME NEW k \in 1 .. Len(cs) - 1
        PROVE  /\ <<cs[k][Len(cs[k])], cs[k + 1][1]>> \in J
               /\ \/ Alice!RuneCount(Append(cs[k], cs[k + 1][1])) > limit
                  \/ text[cs[k][1].word] > limit
                  \/ text[cs[k + 1][1].word] > limit
    <3>1. PICK c, d : c = cs[k] /\ d = cs[k + 1]
      OBVIOUS
    <3>2. <<c, d>> \in F
      BY <2>3, <3>1 DEF Chain
    <3>3. /\ <<c[Len(c)], d[1]>> \in J
          /\ \/ Alice!RuneCount(Append(c, d[1])) > limit
             \/ text[c[1].word] > limit
             \/ text[d[1].word] > limit
      BY <2>1, <3>2 DEF Follows
    <3> QED BY <3>1, <3>3
  <2>8. /\ pieces # <<>> /\ Chain(pieces, Solid, J) /\ pieces[1] = cs[1][1]
        /\ pieces[Len(pieces)] = cs[Len(cs)][Len(cs[Len(cs)])]
    <3>1. \A k \in 1 .. Len(cs) : cs[k] # <<>> /\ Chain(cs[k], Solid, J)
      BY <2>5
    <3>2. \A k \in 1 .. Len(cs) - 1 : <<cs[k][Len(cs[k])], cs[k + 1][1]>> \in J
      BY <2>7
    <3>3. pieces = Alice!FlattenSeq(cs) /\ cs # <<>>
      BY <1>1, <2>3
    <3> QED BY ONLY <2>6, <3>1, <3>2, <3>3, FlattenChain
  <2>9. Starts(pieces, 1) /\ EndsAt(pieces, Len(text), text)
    BY <2>3, <2>8 DEF Starts, EndsAt
  <2>10. Alice!Spells(pieces, text)
    BY <2>1, <2>8, <2>9, ChainSpells
  <2>11. Alice!SplitsForAReason(cs, text, limit)
    BY <2>7 DEF Alice!SplitsForAReason
  <2>12. \A k \in 1 .. Len(cs) : Alice!RuneCount(cs[k]) <= limit
    BY <2>5
  <2> QED BY <2>10, <2>11, <2>12
<1> QED BY <1>2, <1>3

\* effectiveAliceAnnouncementChunkLimit leaves the room the prefix takes.
LEMMA PrefixKeeps ==
    ASSUME NEW text \in Text, NEW prefix \in Nat, NEW limit \in Nat, NEW floor \in Nat \ {0}
    PROVE  Alice!PrefixFits(text, prefix, limit, floor)
<1>1. PICK room, cs : /\ room = Alice!effectiveAliceAnnouncementChunkLimit(prefix, limit, floor)
                      /\ cs = Alice!splitAliceAnnouncementText(text, room)
  OBVIOUS
<1> SUFFICES ASSUME prefix + floor <= limit, NEW k \in 1 .. Len(cs)
             PROVE  prefix + Alice!RuneCount(cs[k]) <= limit
  BY <1>1 DEF Alice!PrefixFits
<1>2. room = limit - prefix /\ room \in Nat \ {0}
  BY <1>1 DEF Alice!effectiveAliceAnnouncementChunkLimit
<1>3. text # <<>>
  <2>1. text = <<>> => cs = <<>>
    BY <1>1 DEF Alice!splitAliceAnnouncementText
  <2>2. cs # <<>>
    OBVIOUS
  <2> QED BY <2>1, <2>2
<1>4. PICK c : c = cs[k]
  OBVIOUS
<1>5. c \in Seq(PieceSet) /\ Alice!RuneCount(c) <= room
  <2>1. Solid \subseteq PieceSet
    BY DEF Solid
  <2>2. CASE Alice!RuneCount(Alice!Whole(text)) <= room
    <3>1. PICK d : d = Alice!Whole(text)
      OBVIOUS
    <3>2. cs = <<d>>
      BY <1>1, <1>3, <2>2, <3>1 DEF Alice!splitAliceAnnouncementText
    <3>3. c = d
      BY <1>4, <3>2
    <3>4. c \in Seq(Solid)
      BY <1>3, <3>1, <3>3, WholeChain DEF Chain
    <3> QED BY <2>1, <2>2, <3>1, <3>3, <3>4
  <2>3. CASE ~(Alice!RuneCount(Alice!Whole(text)) <= room)
    <3>1. Chain(cs, ChunkSet(text, room), Follows(text, room))
      BY <1>1, <1>2, <1>3, <2>3, SplitChains
    <3>2. cs \in Seq(ChunkSet(text, room))
      BY <3>1 DEF Chain
    <3>3. c \in ChunkSet(text, room)
      BY <1>4, <3>2
    <3> QED BY <2>1, <3>3, ChunkFacts
  <2> QED BY <2>2, <2>3
<1>6. Alice!RuneCount(c) \in Int
  BY <1>5, RunesTyped
<1>7. PICK r : r = Alice!RuneCount(c)
  OBVIOUS
<1>8. r \in Int /\ r <= room
  BY <1>5, <1>6, <1>7
<1>9. prefix + r <= limit
  BY <1>2, <1>8
<1> QED BY <1>4, <1>7, <1>9

\* isAliceQuietHoursActive goes around the clock.
LEMMA QuietKeeps ==
    ASSUME NEW day \in Nat \ {0}, NEW start \in 0 .. day - 1, NEW end \in 0 .. day - 1,
           NEW now \in 0 .. day - 1
    PROVE  Alice!QuietAroundTheClock(start, end, now, day)
<1>1. ASSUME NEW m \in 0 .. day - 1
      PROVE  (m + day - start) % day = IF start <= m THEN m - start ELSE m + day - start
  <2>1. CASE start <= m
    <3>1. PICK r : r = m - start
      OBVIOUS
    <3>2. r \in 0 .. day - 1 /\ m + day - start = day + r
      BY <2>1, <3>1
    <3>3. (day + r) % day = r
      BY <3>2
    <3> QED BY <2>1, <3>1, <3>2, <3>3
  <2>2. CASE ~(start <= m)
    <3>1. PICK r : r = m + day - start
      OBVIOUS
    <3>2. r \in 0 .. day - 1
      BY <2>2, <3>1
    <3>3. r % day = r
      BY <3>2
    <3> QED BY <2>2, <3>1, <3>3
  <2> QED BY <2>1, <2>2
<1>2. /\ (now + day - start) % day = IF start <= now THEN now - start ELSE now + day - start
      /\ (end + day - start) % day = IF start <= end THEN end - start ELSE end + day - start
  BY <1>1
<1>3. PICK x, y : x = (now + day - start) % day /\ y = (end + day - start) % day
  OBVIOUS
<1>4. /\ x = IF start <= now THEN now - start ELSE now + day - start
      /\ y = IF start <= end THEN end - start ELSE end + day - start
  BY <1>2, <1>3
<1>5. Alice!isAliceQuietHoursActive(start, end, now) <=> (start = end \/ x < y)
  BY <1>4 DEF Alice!isAliceQuietHoursActive
<1> QED BY <1>3, <1>5 DEF Alice!QuietAroundTheClock

\* Theorem.  Whatever the text and the limit: an announcement cut into chunks
\* loses nothing, repeats nothing and keeps the order, no chunk is longer than
\* the limit, nor, with a prefix there is room for, than what the prefix
\* leaves, and two chunks are two for a reason; and the quiet hours go around
\* the clock (splitAliceAnnouncementText, effectiveAliceAnnouncementChunkLimit,
\* isAliceQuietHoursActive).
THEOREM AliceTextStaysKept == Spec => []AliceTextIsKept
<1>1. AliceTextIsKept
  <2>1. Texts \subseteq Text /\ MaxLimit \in Nat /\ MaxPrefix \in Nat /\ Floor \in Nat \ {0} /\ Minutes \in Nat \ {0}
    BY Constants DEF Text
  <2>2. ASSUME NEW text \in Texts, NEW limit \in 0 .. MaxLimit
        PROVE  /\ Alice!SplitKeepsText(text, limit)
               /\ \A prefix \in 0 .. MaxPrefix : Alice!PrefixFits(text, prefix, limit, Floor)
    <3>1. text \in Text /\ limit \in Nat
      BY <2>1
    <3>2. \A prefix \in 0 .. MaxPrefix : prefix \in Nat
      BY <2>1
    <3> QED BY <2>1, <3>1, <3>2, SplitKeeps, PrefixKeeps
  <2>3. \A start, end, now \in 0 .. Minutes - 1 : Alice!QuietAroundTheClock(start, end, now, Minutes)
    BY <2>1, QuietKeeps
  <2> QED BY <2>2, <2>3 DEF AliceTextIsKept
<1> QED BY <1>1, PTL
=============================================================================
