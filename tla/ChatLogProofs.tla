--------------------------- MODULE ChatLogProofs ---------------------------
(***************************************************************************)
(* Proofs about ChatLog for every set of users, every limit and any number *)
(* of messages.                                                            *)
(***************************************************************************)
EXTENDS ChatLog, FiniteSetTheorems, WellFoundedInduction, TLAPS

-----------------------------------------------------------------------------
(* The newest message of a finite set exists.  Induction over sets is      *)
(* replaced by a minimal element of the well-founded strict subset order.  *)

After(S, m) == {k \in S : k > m}

LEMMA MaximumExists ==
    ASSUME NEW S \in SUBSET Nat, IsFiniteSet(S), S # {}
    PROVE  \E m \in S : \A k \in S : k <= m
<1> DEFINE T == {After(S, m) : m \in S}
<1>1. T \subseteq FiniteSubsetsOf(S)
  BY FS_Subset DEF After, FiniteSubsetsOf
<1>2. T # {}
  OBVIOUS
<1>3. IsWellFoundedOn(StrictSubsetOrdering(S), FiniteSubsetsOf(S))
  BY FS_StrictSubsetOrderingWellFounded
<1> HIDE DEF T
<1>4. PICK X \in T : \A Y \in T : ~ (<<Y, X>> \in StrictSubsetOrdering(S))
  BY <1>1, <1>2, <1>3, WFMin
<1>5. PICK m \in S : X = After(S, m)
  BY <1>4 DEF T
<1>6. ASSUME NEW k \in S, ~ (k <= m) PROVE FALSE
  <2>1. k > m /\ k \in After(S, m) /\ k \notin After(S, k)
    BY <1>6 DEF After
  <2>2. After(S, k) \subseteq After(S, m)
    <3> SUFFICES ASSUME NEW x \in S, x > k PROVE x > m
      BY DEF After
    <3>1. x \in Nat /\ k \in Nat /\ m \in Nat
      OBVIOUS
    <3> QED BY <2>1, <3>1
  <2>3. After(S, k) \in T
    BY DEF T
  <2>4. <<After(S, k), X>> \in StrictSubsetOrdering(S)
    BY <2>1, <2>2, <1>5 DEF StrictSubsetOrdering, After
  <2> QED BY <1>4, <2>3, <2>4
<1> QED BY <1>6

LEMMA NewestExists ==
    ASSUME NEW S \in SUBSET Nat, IsFiniteSet(S)
    PROVE  /\ Newest(S) \in Nat
           /\ S = {} => Newest(S) = None
           /\ S # {} => IsNewest(S, Newest(S))
<1>1. CASE S = {}
  BY <1>1 DEF Newest, None
<1>2. CASE S # {}
  <2>1. \E m \in S : IsNewest(S, m)
    BY <1>2, MaximumExists DEF IsNewest
  <2>2. IsNewest(S, Newest(S))
    BY <1>2, <2>1 DEF Newest
  <2> QED BY <1>2, <2>2 DEF IsNewest
<1> QED BY <1>1, <1>2

\* What a trim removes is older than all it leaves.
LEMMA OldestArePrefix ==
    ASSUME NEW S \in SUBSET Nat, IsFiniteSet(S), NEW n \in Nat,
           NEW r \in Oldest(S, n), NEW m \in S \ Oldest(S, n)
    PROVE  r < m
<1>0. r \in Nat /\ m \in Nat /\ r \in S /\ m \in S
  BY DEF Oldest
<1>1. SUFFICES ASSUME m <= r PROVE FALSE
  BY <1>0
<1>2. Before(S, m) \subseteq Before(S, r) /\ Before(S, r) \in SUBSET S
  <2>1. ASSUME NEW k \in S, k < m PROVE k < r
    <3>1. k \in Nat
      OBVIOUS
    <3> QED BY <1>0, <1>1, <2>1, <3>1
  <2> QED BY <2>1 DEF Before
<1>3. IsFiniteSet(Before(S, r)) /\ Cardinality(Before(S, r)) \in Nat
  BY <1>2, FS_Subset, FS_CardinalityType
<1>4. Cardinality(Before(S, m)) <= Cardinality(Before(S, r)) /\ Cardinality(Before(S, m)) \in Nat
  BY <1>2, <1>3, FS_Subset, FS_CardinalityType
<1> QED BY <1>3, <1>4 DEF Oldest

\* Both trims remove a prefix of what they are given.
LEMMA TrimsArePrefixes ==
    ASSUME TypeOK, NEW S \in SUBSET Nat, IsFiniteSet(S)
    PROVE  /\ TrimOnce(S) \subseteq S
           /\ \A r \in TrimOnce(S), m \in S \ TrimOnce(S) : r < m
           /\ TrimUntilBelow(S) \subseteq S
           /\ \A r \in TrimUntilBelow(S), m \in S \ TrimUntilBelow(S) : r < m
<1>1. limit \in Nat /\ limit \div 2 \in Nat /\ limit \div 2 > 0
  BY LimitsAssumption DEF TypeOK
<1>2. Cardinality(S) \in Nat
  BY FS_CardinalityType
<1>3. ASSUME ~ (Cardinality(S) < limit) PROVE TrimCount(Cardinality(S)) \in Nat
  <2> DEFINE h == limit \div 2
  <2> DEFINE d == Cardinality(S) - limit
  <2>1. h \in Nat /\ h > 0 /\ d \in Nat
    BY <1>1, <1>2, <1>3
  <2> HIDE DEF h, d
  <2>2. d \div h \in Nat
    BY <2>1
  <2>3. h * ((d \div h) + 1) \in Nat
    BY <2>1, <2>2
  <2> QED BY <2>3 DEF TrimCount, h, d
<1>4. \A n : Oldest(S, n) \subseteq S
  BY DEF Oldest
<1>5. \A n \in Nat : \A r \in Oldest(S, n), m \in S \ Oldest(S, n) : r < m
  BY OldestArePrefix
<1> QED BY <1>1, <1>3, <1>4, <1>5 DEF TrimOnce, TrimUntilBelow

-----------------------------------------------------------------------------
(* The inductive invariant: the checked invariants hold one another up.    *)
(* A pin names a number already given out, so that later messages cannot   *)
(* be older than a lost pin; a deleted conversation has no members, so     *)
(* that creating it again meets no old pointer.                            *)

DeletedHasNoMembers == ~exists => Members = {}

IInv ==
    /\ TypeOK
    /\ DeletedHasNoMembers
    /\ pinned < nextId
    /\ PreviewShowsNewest
    /\ PointerBackedByReceipts
    /\ AnnotationsOnStoredMessages
    /\ OneMessagePerClientId
    /\ LostPinIsOlder

\* Each of the two texts a message may be shown by is a label.
LEMMA TextsAreLabels ==
    ASSUME NEW m \in Message
    PROVE  Text(m) \in Label /\ chatMessagePreviewText(m) \in Label
BY DEF Message, Label, Text, chatMessagePreviewText

\* Removing messages from a log that extends the stored one repairs the
\* pointers and the annotations at once.
LEMMA WithoutStep ==
    ASSUME IInv,
           NEW log, NEW removed,
           nextId' \in Nat \ {0},
           DOMAIN log \subseteq 1 .. (nextId' - 1),
           log \in [DOMAIN log -> Message],
           Live \subseteq DOMAIN log,
           \A m \in Live : log[m] = messages[m],
           \A m \in DOMAIN log \ Live : m >= nextId,
           Without(log, removed)
    PROVE  /\ messages' = [m \in DOMAIN log \ removed |-> log[m]]
           /\ Live' = DOMAIN log \ removed
           /\ IsFiniteSet(Live')
           /\ Live' \subseteq 1 .. (nextId' - 1)
           /\ messages' \in [Live' -> Message]
           /\ Members' = Members
           /\ lastRead' \in [Members' -> Nat]
           /\ annotations' \subseteq Annotation
           /\ PointerBackedByReceipts'
           /\ AnnotationsOnStoredMessages'
<1> DEFINE kept == [m \in DOMAIN log \ removed |-> log[m]]
<1>1. /\ messages' = kept
      /\ Live' = DOMAIN log \ removed
      /\ DOMAIN kept = DOMAIN log \ removed
  BY DEF Without, Live
<1>2. Live' \subseteq 1 .. (nextId' - 1) /\ IsFiniteSet(Live')
  <2>1. IsFiniteSet(1 .. (nextId' - 1))
    BY FS_Interval
  <2> QED BY <1>1, <2>1, FS_Subset
<1>3. messages' \in [Live' -> Message]
  BY <1>1
<1>4. Members' = Members /\ lastRead' = Repaired(Live')
  BY <1>1 DEF Without, Members, Repaired
<1>5. lastRead' \in [Members' -> Nat]
  BY <1>4 DEF IInv, TypeOK, Members, Repaired, None
<1>6. annotations' \subseteq Annotation /\ AnnotationsOnStoredMessages'
  BY <1>1 DEF IInv, TypeOK, Without, WithoutAnnotationsOf, AnnotationsOnStoredMessages
<1>8. PointerBackedByReceipts'
  <2> SUFFICES ASSUME NEW u \in Members, lastRead'[u] # None
               PROVE  /\ lastRead'[u] \in Live'
                      /\ \A m \in Live' : m <= lastRead'[u] /\ messages'[m].author # u
                                            => u \in messages'[m].readBy
    BY <1>4 DEF PointerBackedByReceipts
  <2>1. lastRead'[u] = lastRead[u] /\ lastRead[u] \in Live' /\ lastRead[u] # None
    BY <1>4 DEF Repaired
  <2>2. lastRead[u] \in Live
    BY <2>1 DEF IInv, PointerBackedByReceipts
  <2>3. ASSUME NEW m \in Live', m <= lastRead[u] PROVE m \in Live /\ messages'[m] = messages[m]
    <3>1. lastRead[u] < nextId /\ lastRead[u] \in Nat /\ nextId \in Nat
      BY <2>2 DEF IInv, TypeOK
    <3>2. m \in DOMAIN log /\ m \in Nat
      BY <1>1, <1>2
    <3>3. m \in Live
      BY <3>1, <3>2, <2>3
    <3> QED BY <1>1, <3>2, <3>3
  <2> QED BY <2>1, <2>3 DEF IInv, PointerBackedByReceipts
<1> QED BY <1>1, <1>2, <1>3, <1>4, <1>5, <1>6, <1>8

\* The newest of what is left is what the list shows.
LEMMA ShowNewestStep ==
    ASSUME ShowNewest, messages' \in [Live' -> Message],
           IsFiniteSet(Live'), Live' \in SUBSET Nat
    PROVE  lastText' \in Label /\ PreviewShowsNewest'
<1>1. /\ last' = Newest(Live')
      /\ lastText' = IF Live' = {} THEN NoText ELSE Text(messages'[Newest(Live')])
  BY DEF ShowNewest, Live
<1>2. Live' # {} => Newest(Live') \in Live'
  BY NewestExists DEF IsNewest
<1>3. Live' # {} => messages'[Newest(Live')] \in Message
  BY <1>2
<1>4. lastText' \in Label
  BY <1>1, <1>3, TextsAreLabels DEF Label, NoText
<1> QED BY <1>1, <1>4 DEF PreviewShowsNewest

\* The largest number of a set of messages is the newest.
LEMMA LargestIsNewest ==
    ASSUME NEW S \in SUBSET Nat, IsFiniteSet(S), NEW x \in S, \A m \in S : m <= x
    PROVE  Newest(S) = x
<1>1. Newest(S) \in S /\ \A m \in S : m <= Newest(S)
  BY NewestExists DEF IsNewest
<1> HIDE DEF Newest
<1>2. Newest(S) \in Nat /\ x \in Nat /\ Newest(S) <= x /\ x <= Newest(S)
  BY <1>1
<1> QED BY <1>2

\* Removing messages with the preview repaired as well.
LEMMA KeepStep ==
    ASSUME IInv,
           NEW log, NEW removed,
           nextId' \in Nat \ {0},
           DOMAIN log \subseteq 1 .. (nextId' - 1),
           log \in [DOMAIN log -> Message],
           Live \subseteq DOMAIN log,
           \A m \in Live : log[m] = messages[m],
           \A m \in DOMAIN log \ Live : m >= nextId,
           Keep(log, removed)
    PROVE  /\ messages' = [m \in DOMAIN log \ removed |-> log[m]]
           /\ Live' = DOMAIN log \ removed
           /\ IsFiniteSet(Live')
           /\ Live' \subseteq 1 .. (nextId' - 1)
           /\ messages' \in [Live' -> Message]
           /\ Members' = Members
           /\ lastRead' \in [Members' -> Nat]
           /\ lastText' \in Label
           /\ annotations' \subseteq Annotation
           /\ PreviewShowsNewest'
           /\ PointerBackedByReceipts'
           /\ AnnotationsOnStoredMessages'
<1>1. Without(log, removed) /\ ShowNewest
  BY DEF Keep
<1>2. /\ messages' = [m \in DOMAIN log \ removed |-> log[m]]
      /\ Live' = DOMAIN log \ removed
      /\ IsFiniteSet(Live')
      /\ Live' \subseteq 1 .. (nextId' - 1)
      /\ messages' \in [Live' -> Message]
      /\ Members' = Members
      /\ lastRead' \in [Members' -> Nat]
      /\ annotations' \subseteq Annotation
      /\ PointerBackedByReceipts'
      /\ AnnotationsOnStoredMessages'
  BY <1>1, WithoutStep
<1>3. Live' \in SUBSET Nat
  BY <1>2
<1>4. lastText' \in Label /\ PreviewShowsNewest'
  BY <1>1, <1>2, <1>3, ShowNewestStep
<1> QED BY <1>2, <1>4

-----------------------------------------------------------------------------
(* Each transaction preserves the invariant.                               *)

LEMMA StoreStep ==
    ASSUME IInv,
           NEW n \in Nat \ {0}, NEW msg \in Message, NEW removed,
           \A r \in removed, m \in (Live \cup (nextId .. (nextId + n - 1))) \ removed : r < m,
           msg.client = NoClient \/ (n = 1 /\ Fresh(msg.author, msg.client)),
           Store(n, msg, removed)
    PROVE  IInv'
<1> DEFINE log == Appended(n, msg)
<1>1. nextId \in Nat \ {0} /\ nextId' = nextId + n /\ Live \subseteq 1 .. (nextId - 1)
  BY DEF Store, IInv, TypeOK
<1>2. DOMAIN log = Live \cup (nextId .. (nextId + n - 1))
  BY DEF Appended
<1>3. DOMAIN log \subseteq 1 .. (nextId' - 1) /\ nextId' \in Nat \ {0}
  BY <1>1, <1>2
<1>4. /\ \A m \in Live : log[m] = messages[m]
      /\ \A m \in DOMAIN log \ Live : log[m] = msg /\ m >= nextId
      /\ log \in [DOMAIN log -> Message]
  BY <1>1 DEF Appended, IInv, TypeOK
<1>5. Without(log, removed) /\ ShowStored(n, msg, removed)
  BY DEF Store
<1> HIDE DEF log
<1>6. /\ messages' = [m \in DOMAIN log \ removed |-> log[m]]
      /\ Live' = DOMAIN log \ removed
      /\ IsFiniteSet(Live')
      /\ Live' \subseteq 1 .. (nextId' - 1)
      /\ messages' \in [Live' -> Message]
      /\ Members' = Members
      /\ lastRead' \in [Members' -> Nat]
      /\ annotations' \subseteq Annotation
      /\ PointerBackedByReceipts'
      /\ AnnotationsOnStoredMessages'
  BY <1>1, <1>2, <1>3, <1>4, <1>5, WithoutStep
<1>13. lastText' \in Label /\ PreviewShowsNewest'
  <2>0. Live' \in SUBSET Nat
    BY <1>6
  <2>1. CASE removed = {}
    <3> DEFINE x == nextId + n - 1
    <3>1. last' = x /\ lastText' = chatMessagePreviewText(msg)
      BY <1>5, <2>1 DEF ShowStored
    <3>2. x \in Live' /\ x = nextId' - 1 /\ x \notin Live
      BY <1>1, <1>2, <1>6, <2>1
    <3>3. messages'[x] = msg
      BY <1>4, <1>6, <3>2
    <3>4. \A m \in Live' : m <= x
      BY <1>1, <1>6, <3>2
    <3> HIDE DEF x
    <3>5. Newest(Live') = x
      BY <1>6, <2>0, <3>2, <3>4, LargestIsNewest
    <3> QED BY <3>1, <3>2, <3>3, <3>5, TextsAreLabels DEF PreviewShowsNewest
  <2>2. CASE removed # {}
    BY <1>5, <1>6, <2>0, <2>2, ShowNewestStep DEF ShowStored
  <2> QED BY <2>1, <2>2
<1>7. pinned' = pinned /\ type' = type /\ exists' = exists /\ limit' = limit
  BY DEF Store
<1>8. TypeOK'
  BY <1>3, <1>6, <1>7, <1>13 DEF IInv, TypeOK
<1>9. (pinned < nextId)'
  BY <1>1, <1>7 DEF IInv, TypeOK
<1>10. OneMessagePerClientId'
  <2> SUFFICES ASSUME NEW m \in Live', NEW k \in Live',
                      messages'[m].client # NoClient,
                      messages'[m].client = messages'[k].client,
                      messages'[m].author = messages'[k].author
               PROVE  m = k
    BY DEF OneMessagePerClientId
  <2>1. messages'[m] = log[m] /\ messages'[k] = log[k] /\ m \in DOMAIN log /\ k \in DOMAIN log
    BY <1>6
  <2>2. CASE m \in Live /\ k \in Live
    BY <2>1, <2>2, <1>4 DEF IInv, OneMessagePerClientId
  <2>3. CASE m \in Live /\ k \notin Live
    BY <2>1, <2>3, <1>4 DEF Fresh
  <2>4. CASE m \notin Live /\ k \in Live
    BY <2>1, <2>4, <1>4 DEF Fresh
  <2>5. CASE m \notin Live /\ k \notin Live
    <3>1. n = 1
      BY <2>1, <2>5, <1>4
    <3> QED BY <2>1, <2>5, <3>1, <1>1, <1>2
  <2> QED BY <2>2, <2>3, <2>4, <2>5
<1>11. LostPinIsOlder'
  <2> SUFFICES ASSUME pinned # None, pinned \notin Live', NEW m \in Live' PROVE pinned < m
    BY <1>7 DEF LostPinIsOlder
  <2>1. CASE pinned \in Live
    BY <2>1, <1>2, <1>6
  <2>2. CASE pinned \notin Live
    <3>1. m \in Live \/ m >= nextId
      BY <1>4, <1>6
    <3>2. m \in Nat /\ pinned \in Nat /\ pinned < nextId /\ nextId \in Nat
      BY <1>6, <1>1 DEF IInv, TypeOK
    <3> QED BY <2>2, <3>1, <3>2 DEF IInv, LostPinIsOlder
  <2> QED BY <2>1, <2>2
<1>12. DeletedHasNoMembers'
  BY <1>6, <1>7 DEF IInv, DeletedHasNoMembers
<1> QED BY <1>6, <1>8, <1>9, <1>10, <1>11, <1>12, <1>13 DEF IInv

\* Removals that store nothing: one message, or all of them.
LEMMA RemoveStep ==
    ASSUME IInv, NEW removed \in SUBSET Live,
           Keep(messages, removed),
           pinned' \in {pinned, None},
           pinned \in removed => pinned' = None,
           UNCHANGED <<type, exists, nextId, limit>>
    PROVE  IInv'
<1>1. /\ messages' = [m \in Live \ removed |-> messages[m]]
      /\ Live' = Live \ removed
      /\ IsFiniteSet(Live')
      /\ Live' \subseteq 1 .. (nextId' - 1)
      /\ messages' \in [Live' -> Message]
      /\ Members' = Members
      /\ lastRead' \in [Members' -> Nat]
      /\ lastText' \in Label
      /\ annotations' \subseteq Annotation
      /\ PreviewShowsNewest'
      /\ PointerBackedByReceipts'
      /\ AnnotationsOnStoredMessages'
  <2>1. nextId' \in Nat \ {0} /\ Live \subseteq 1 .. (nextId' - 1) /\ messages \in [Live -> Message]
    BY DEF IInv, TypeOK
  <2> QED BY <2>1, KeepStep DEF Live
<1>2. TypeOK' /\ (pinned < nextId)'
  BY <1>1 DEF IInv, TypeOK, None
<1>3. OneMessagePerClientId'
  BY <1>1 DEF IInv, OneMessagePerClientId
<1>4. LostPinIsOlder'
  BY <1>1 DEF IInv, LostPinIsOlder
<1>5. DeletedHasNoMembers'
  BY <1>1 DEF IInv, DeletedHasNoMembers
<1> QED BY <1>1, <1>2, <1>3, <1>4, <1>5 DEF IInv

LEMMA InitIInv == Init => IInv
<1> SUFFICES ASSUME Init PROVE IInv
  OBVIOUS
<1>1. Live = {} /\ IsFiniteSet(Live)
  BY FS_EmptySet DEF Init, Live
<1>2. Members = InitialMembers[type]
  BY DEF Init, Members
<1> QED
  BY <1>1, <1>2, UsersAssumption
     DEF Init, IInv, TypeOK, PreviewShowsNewest, PointerBackedByReceipts, Newest,
         AnnotationsOnStoredMessages, OneMessagePerClientId, LostPinIsOlder, None,
         DeletedHasNoMembers, NoText, Label

\* The numbers a request may store, with those already stored, are finite.
LEMMA CandidatesFinite ==
    ASSUME IInv, NEW n \in Nat
    PROVE  /\ (Live \cup (nextId .. (nextId + n - 1))) \in SUBSET Nat
           /\ IsFiniteSet(Live \cup (nextId .. (nextId + n - 1)))
<1>1. nextId \in Nat /\ Live \subseteq 1 .. (nextId - 1) /\ IsFiniteSet(Live)
  BY DEF IInv, TypeOK
<1>2. IsFiniteSet(nextId .. (nextId + n - 1))
  BY <1>1, FS_Interval
<1> QED BY <1>1, <1>2, FS_Union

LEMMA AddMessagePreserves ==
    ASSUME IInv, NEW u \in Users, NEW c \in ClientIds \cup {NoClient}, NEW k \in Kinds,
           AddMessage(u, c, k)
    PROVE  IInv'
<1> DEFINE msg == NewMessage(u, c, k)
<1>1. msg \in Message /\ msg.author = u /\ msg.client = c
  BY DEF NewMessage, Message
<1> DEFINE R == TrimOnce(Live \cup {nextId})
<1>2. nextId .. (nextId + 1 - 1) = {nextId}
  BY DEF IInv, TypeOK
<1>3. \A r \in R, m \in (Live \cup {nextId}) \ R : r < m
  BY <1>2, CandidatesFinite, TrimsArePrefixes DEF IInv
<1>4. Fresh(msg.author, msg.client) /\ Store(1, msg, R)
  BY <1>1 DEF AddMessage
<1> HIDE DEF msg, R
<1>5. \A r \in R, m \in (Live \cup (nextId .. (nextId + 1 - 1))) \ R : r < m
  BY <1>2, <1>3
<1>6. 1 \in Nat \ {0}
  OBVIOUS
<1> QED BY <1>1, <1>4, <1>5, <1>6, StoreStep

LEMMA AddSystemNotificationPreserves ==
    ASSUME IInv, AddSystemNotification
    PROVE  IInv'
<1> DEFINE msg == NewMessage(SystemSender, NoClient, "system")
<1>1. msg \in Message /\ msg.client = NoClient
  BY DEF NewMessage, Message
<1> DEFINE R == TrimOnce(Live \cup {nextId})
<1>2. nextId .. (nextId + 1 - 1) = {nextId}
  BY DEF IInv, TypeOK
<1>3. \A r \in R, m \in (Live \cup {nextId}) \ R : r < m
  BY <1>2, CandidatesFinite, TrimsArePrefixes DEF IInv
<1>4. Store(1, msg, R)
  BY DEF AddSystemNotification
<1> HIDE DEF msg, R
<1>5. \A r \in R, m \in (Live \cup (nextId .. (nextId + 1 - 1))) \ R : r < m
  BY <1>2, <1>3
<1>6. 1 \in Nat \ {0}
  OBVIOUS
<1> QED BY <1>1, <1>4, <1>5, <1>6, StoreStep

LEMMA ForwardMessagesPreserves ==
    ASSUME IInv, NEW u \in Users, NEW n \in 1 .. MaxForward, ForwardMessages(u, n)
    PROVE  IInv'
<1> DEFINE msg == NewMessage(u, NoClient, "text")
<1> DEFINE all == Live \cup (nextId .. (nextId + n - 1))
<1>1. msg \in Message /\ msg.client = NoClient
  BY DEF NewMessage, Message
<1>2. n \in Nat \ {0}
  BY BoundsAssumption
<1>3. \A r \in TrimUntilBelow(all), m \in all \ TrimUntilBelow(all) : r < m
  BY <1>2, CandidatesFinite, TrimsArePrefixes DEF IInv
<1>4. Store(n, msg, TrimUntilBelow(all))
  BY DEF ForwardMessages
<1> HIDE DEF msg
<1> QED BY <1>1, <1>2, <1>3, <1>4, StoreStep

\* The preview depends on the kind and the text of the last message only.
LEMMA PreviewFollows ==
    ASSUME PreviewShowsNewest,
           Live' = Live,
           \A m \in Live : messages'[m].text = messages[m].text /\ messages'[m].kind = messages[m].kind,
           UNCHANGED <<nextId, last, lastText>>,
           Live # {} => last \in Live
    PROVE  PreviewShowsNewest'
<1>1. \A m \in Live : /\ Text(messages'[m]) = Text(messages[m])
                       /\ chatMessagePreviewText(messages'[m]) = chatMessagePreviewText(messages[m])
  BY DEF Text, chatMessagePreviewText
<1> QED BY <1>1 DEF PreviewShowsNewest

\* The message the list shows is stored.
LEMMA LastIsLive ==
    ASSUME IInv, Live # {}
    PROVE  last \in Live
<1>1. Live \in SUBSET Nat /\ IsFiniteSet(Live)
  BY DEF IInv, TypeOK
<1> QED BY <1>1, NewestExists DEF IInv, PreviewShowsNewest, IsNewest

\* Receipts only ever add to a message; nothing else that the invariant
\* reads of a message changes.
LEMMA ReceiptsPreserve ==
    ASSUME IInv,
           messages' \in [Live -> Message],
           \A m \in Live : /\ messages'[m].author = messages[m].author
                           /\ messages'[m].client = messages[m].client
                           /\ messages'[m].text = messages[m].text
                           /\ messages'[m].kind = messages[m].kind
                           /\ messages[m].readBy \subseteq messages'[m].readBy,
           UNCHANGED <<type, exists, nextId, lastRead, pinned, last, lastText, annotations, limit>>
    PROVE  /\ Live' = Live
           /\ IInv'
<1>1. Live' = Live /\ Members' = Members
  BY DEF Live, Members
<1>2. TypeOK' /\ (pinned < nextId)'
  BY <1>1 DEF IInv, TypeOK
<1>3. PreviewShowsNewest'
  BY <1>1, PreviewFollows, LastIsLive DEF IInv
<1>4. PointerBackedByReceipts'
  BY <1>1 DEF IInv, PointerBackedByReceipts
<1>5. AnnotationsOnStoredMessages' /\ LostPinIsOlder'
  BY <1>1 DEF IInv, AnnotationsOnStoredMessages, LostPinIsOlder
<1>6. OneMessagePerClientId'
  BY <1>1 DEF IInv, OneMessagePerClientId
<1>7. DeletedHasNoMembers'
  BY <1>1 DEF IInv, DeletedHasNoMembers
<1> QED BY <1>1, <1>2, <1>3, <1>4, <1>5, <1>6, <1>7 DEF IInv

LEMMA MarkMessageDeliveredPreserves ==
    ASSUME IInv, NEW u \in Users, NEW m \in Live, MarkMessageDelivered(u, m)
    PROVE  IInv'
<1>1. messages \in [Live -> Message]
  BY DEF IInv, TypeOK
<1>2. messages' = [messages EXCEPT ![m].deliveredTo = @ \cup {u}]
  BY DEF MarkMessageDelivered
<1>3. messages' \in [Live -> Message]
  BY <1>1, <1>2 DEF Message
<1>4. \A k \in Live : /\ messages'[k].author = messages[k].author
                      /\ messages'[k].client = messages[k].client
                      /\ messages'[k].text = messages[k].text
                      /\ messages'[k].kind = messages[k].kind
                      /\ messages[k].readBy \subseteq messages'[k].readBy
  BY <1>1, <1>2 DEF Message
<1>5. UNCHANGED <<type, exists, nextId, lastRead, pinned, last, lastText, annotations, limit>>
  BY DEF MarkMessageDelivered
<1> QED BY <1>3, <1>4, <1>5, ReceiptsPreserve

LEMMA MarkMessagesReadUpToPreserves ==
    ASSUME IInv, NEW u \in Users, NEW target \in Live, MarkMessagesReadUpTo(u, target)
    PROVE  IInv'
<1>1. messages \in [Live -> Message]
  BY DEF IInv, TypeOK
<1>2. /\ u \in Members
      /\ lastRead' = [lastRead EXCEPT ![u] = target]
      /\ messages' = [m \in Live |->
                         IF m <= target /\ messages[m].author # u
                         THEN [messages[m] EXCEPT !.readBy = @ \cup {u}]
                         ELSE messages[m]]
      /\ UNCHANGED <<type, exists, nextId, pinned, last, lastText, annotations, limit>>
  BY DEF MarkMessagesReadUpTo
<1>3. messages' \in [Live -> Message]
  BY <1>1, <1>2 DEF Message
<1>4. \A m \in Live : /\ messages'[m].author = messages[m].author
                      /\ messages'[m].client = messages[m].client
                      /\ messages'[m].text = messages[m].text
                      /\ messages'[m].kind = messages[m].kind
                      /\ messages[m].readBy \subseteq messages'[m].readBy
                      /\ m <= target /\ messages[m].author # u => u \in messages'[m].readBy
  BY <1>1, <1>2 DEF Message
<1>5. Live' = Live /\ Members' = Members
  BY <1>2, <1>3 DEF Live, Members
<1>6. TypeOK' /\ (pinned < nextId)'
  BY <1>2, <1>3, <1>5 DEF IInv, TypeOK, Members
<1>7. PreviewShowsNewest'
  BY <1>2, <1>4, <1>5, PreviewFollows, LastIsLive DEF IInv
<1>8. PointerBackedByReceipts'
  <2>1. \A v \in Members : lastRead'[v] = IF v = u THEN target ELSE lastRead[v]
    BY <1>2 DEF Members
  <2> QED BY <1>4, <1>5, <2>1 DEF IInv, PointerBackedByReceipts
<1>9. AnnotationsOnStoredMessages' /\ LostPinIsOlder'
  BY <1>2, <1>5 DEF IInv, AnnotationsOnStoredMessages, LostPinIsOlder
<1>10. OneMessagePerClientId'
  BY <1>4, <1>5 DEF IInv, OneMessagePerClientId
<1>11. DeletedHasNoMembers'
  BY <1>2, <1>5 DEF IInv, DeletedHasNoMembers
<1> QED BY <1>6, <1>7, <1>8, <1>9, <1>10, <1>11 DEF IInv

LEMMA UpdateTextMessagePreserves ==
    ASSUME IInv, NEW u \in Users, NEW m \in Live, UpdateTextMessage(u, m)
    PROVE  IInv'
<1>1. messages \in [Live -> Message]
  BY DEF IInv, TypeOK
<1>2. /\ messages' = [messages EXCEPT ![m].text = @ + 1]
      /\ lastText' = IF last = m THEN Text(messages'[m]) ELSE lastText
      /\ UNCHANGED <<type, exists, nextId, lastRead, pinned, last, annotations, limit>>
  BY DEF UpdateTextMessage
<1>3. messages' \in [Live -> Message]
  BY <1>1, <1>2 DEF Message
<1>4. \A k \in Live : /\ messages'[k].author = messages[k].author
                      /\ messages'[k].client = messages[k].client
                      /\ messages'[k].text = IF k = m THEN messages[m].text + 1 ELSE messages[k].text
                      /\ messages'[k].kind = messages[k].kind
                      /\ messages'[k].readBy = messages[k].readBy
  BY <1>1, <1>2 DEF Message
<1>5. Live' = Live /\ Members' = Members
  BY <1>2, <1>3 DEF Live, Members
<1>6. lastText' \in Label
  <2>1. Text(messages'[m]) \in Label
    BY <1>3, TextsAreLabels
  <2> QED BY <1>2, <2>1 DEF IInv, TypeOK
<1>7. TypeOK' /\ (pinned < nextId)'
  BY <1>2, <1>3, <1>5, <1>6 DEF IInv, TypeOK
<1>8. PreviewShowsNewest'
  <2>1. CASE last = m
    BY <1>2, <1>5, <2>1 DEF IInv, PreviewShowsNewest
  <2>2. CASE last # m
    <3>1. last \in Live /\ Live # {}
      BY LastIsLive
    <3>2. /\ Text(messages'[last]) = Text(messages[last])
          /\ chatMessagePreviewText(messages'[last]) = chatMessagePreviewText(messages[last])
      BY <1>4, <2>2, <3>1 DEF Text, chatMessagePreviewText
    <3> QED BY <1>2, <1>5, <2>2, <3>1, <3>2 DEF IInv, PreviewShowsNewest
  <2> QED BY <2>1, <2>2
<1>9. PointerBackedByReceipts'
  BY <1>2, <1>4, <1>5 DEF IInv, PointerBackedByReceipts
<1>10. AnnotationsOnStoredMessages' /\ LostPinIsOlder'
  BY <1>2, <1>5 DEF IInv, AnnotationsOnStoredMessages, LostPinIsOlder
<1>11. OneMessagePerClientId'
  BY <1>4, <1>5 DEF IInv, OneMessagePerClientId
<1>12. DeletedHasNoMembers'
  BY <1>2, <1>5 DEF IInv, DeletedHasNoMembers
<1> QED BY <1>7, <1>8, <1>9, <1>10, <1>11, <1>12 DEF IInv

\* The rest leaves the messages and the preview alone.
LEMMA SameLogPreserves ==
    ASSUME IInv,
           UNCHANGED <<type, messages, nextId, last, lastText>>,
           exists' \in BOOLEAN,
           DeletedHasNoMembers',
           limit' \in Limits,
           Members' \subseteq Users,
           lastRead' \in [Members' -> Nat],
           \A v \in Members' : lastRead'[v] = None \/ (v \in Members /\ lastRead'[v] = lastRead[v]),
           pinned' = pinned \/ pinned' \in Live \cup {None},
           annotations' \subseteq Annotation,
           \A a \in annotations' : a \in annotations \/ a.message \in Live
    PROVE  IInv'
<1>1. Live' = Live
  BY DEF Live
<1>2. TypeOK' /\ (pinned < nextId)'
  <2>1. pinned' \in Nat /\ pinned' < nextId
    <3>1. nextId \in Nat \ {0} /\ pinned \in Nat /\ pinned < nextId
      BY DEF IInv, TypeOK
    <3>2. \A m \in Live : m \in Nat /\ m < nextId
      BY <3>1 DEF IInv, TypeOK
    <3> QED BY <3>1, <3>2 DEF None
  <2> QED BY <1>1, <2>1 DEF IInv, TypeOK
<1>3. PreviewShowsNewest'
  BY <1>1 DEF IInv, PreviewShowsNewest
<1>4. PointerBackedByReceipts'
  BY <1>1 DEF IInv, PointerBackedByReceipts
<1>5. AnnotationsOnStoredMessages' /\ LostPinIsOlder'
  BY <1>1 DEF IInv, AnnotationsOnStoredMessages, LostPinIsOlder
<1>6. OneMessagePerClientId'
  BY <1>1 DEF IInv, OneMessagePerClientId
<1> QED BY <1>2, <1>3, <1>4, <1>5, <1>6 DEF IInv

LEMMA DeleteConversationPreserves ==
    ASSUME IInv, NEW u \in Users, DeleteConversation(u)
    PROVE  IInv'
<1>1. /\ messages' = [m \in {} |-> messages[m]] /\ lastRead' = [x \in {} |-> None]
      /\ exists' = FALSE /\ pinned' = None /\ last' = None /\ lastText' = NoText
      /\ type' = type /\ nextId' = nextId /\ limit' = limit
      /\ annotations' = WithoutAnnotationsOf(Live)
  BY DEF DeleteConversation
<1>2. Live' = {} /\ Members' = {} /\ IsFiniteSet(Live')
  BY <1>1, FS_EmptySet DEF Live, Members
<1>3. annotations' = {}
  BY <1>1 DEF IInv, AnnotationsOnStoredMessages, WithoutAnnotationsOf
<1>4. TypeOK' /\ (pinned < nextId)'
  <2>1. messages' \in [Live' -> Message] /\ lastRead' \in [Members' -> Nat]
    BY <1>1, <1>2
  <2>2. nextId' \in Nat \ {0} /\ limit' \in Limits /\ type' \in Types
    BY <1>1 DEF IInv, TypeOK
  <2>3. exists' \in BOOLEAN
    BY <1>1
  <2>4. /\ Live' \subseteq 1 .. (nextId' - 1) /\ Members' \subseteq Users
        /\ annotations' \subseteq Annotation
    BY <1>2, <1>3
  <2>5. pinned' = 0 /\ lastText' \in Label /\ pinned' < nextId'
    BY <1>1, <2>2 DEF None, NoText, Label
  <2> QED BY <1>2, <2>1, <2>2, <2>3, <2>4, <2>5 DEF TypeOK
<1>5. PreviewShowsNewest'
  BY <1>1, <1>2 DEF PreviewShowsNewest, Newest
<1> QED
  BY <1>1, <1>2, <1>3, <1>4, <1>5
     DEF IInv, PointerBackedByReceipts,
         AnnotationsOnStoredMessages, OneMessagePerClientId, LostPinIsOlder, DeletedHasNoMembers

LEMMA StutterPreserves == ASSUME IInv, UNCHANGED vars PROVE IInv'
<1> USE DEF vars
<1>1. Live' = Live /\ Members' = Members
  BY DEF Live, Members
<1>2. TypeOK' /\ (pinned < nextId)'
  BY <1>1 DEF IInv, TypeOK
<1>3. PreviewShowsNewest' /\ LostPinIsOlder'
  BY <1>1 DEF IInv, PreviewShowsNewest, LostPinIsOlder
<1>4. PointerBackedByReceipts' /\ AnnotationsOnStoredMessages'
  BY <1>1 DEF IInv, PointerBackedByReceipts, AnnotationsOnStoredMessages
<1>5. OneMessagePerClientId'
  BY <1>1 DEF IInv, OneMessagePerClientId
<1>6. DeletedHasNoMembers'
  BY <1>1 DEF IInv, DeletedHasNoMembers
<1> QED BY <1>2, <1>3, <1>4, <1>5, <1>6 DEF IInv

LEMMA NextIInv == IInv /\ [Next]_vars => IInv'
<1> SUFFICES ASSUME IInv, [Next]_vars PROVE IInv'
  OBVIOUS
<1>0. /\ exists \in BOOLEAN /\ limit \in Limits /\ Members \subseteq Users
      /\ lastRead \in [Members -> Nat] /\ annotations \subseteq Annotation
      /\ Live \subseteq Nat /\ (~exists => Members = {})
  BY DEF IInv, TypeOK, DeletedHasNoMembers
<1>1. ASSUME NEW u \in Users, NEW c \in ClientIds \cup {NoClient}, NEW k \in Kinds,
             AddMessage(u, c, k)
      PROVE IInv'
  BY <1>1, AddMessagePreserves
<1>2. CASE AddSystemNotification
  BY <1>2, AddSystemNotificationPreserves
<1>3. ASSUME NEW u \in Users, NEW n \in 1 .. MaxForward, ForwardMessages(u, n) PROVE IInv'
  BY <1>3, ForwardMessagesPreserves
<1>4. ASSUME NEW u \in Users, NEW m \in Live, MarkMessageDelivered(u, m) PROVE IInv'
  BY <1>4, MarkMessageDeliveredPreserves
<1>5. ASSUME NEW u \in Users, NEW m \in Live, MarkMessagesReadUpTo(u, m) PROVE IInv'
  BY <1>5, MarkMessagesReadUpToPreserves
<1>6. ASSUME NEW u \in Users, NEW m \in Live, UpdateTextMessage(u, m) PROVE IInv'
  BY <1>6, UpdateTextMessagePreserves
<1>7. ASSUME NEW u \in Users, NEW m \in Live, DeleteMessage(u, m) PROVE IInv'
  <2>1. Keep(messages, {m}) /\ pinned' = (IF pinned = m THEN None ELSE pinned)
    BY <1>7 DEF DeleteMessage
  <2>2. UNCHANGED <<type, exists, nextId, limit>>
    BY <1>7 DEF DeleteMessage
  <2>3. pinned' \in {pinned, None} /\ (pinned \in {m} => pinned' = None) /\ {m} \in SUBSET Live
    BY <2>1
  <2> QED BY <2>1, <2>2, <2>3, RemoveStep
<1>8. ASSUME NEW u \in Users, ClearConversationMessages(u) PROVE IInv'
  <2>1. Keep(messages, Live) /\ pinned' = None /\ UNCHANGED <<type, exists, nextId, limit>>
    BY <1>8 DEF ClearConversationMessages
  <2>2. Live \in SUBSET Live
    OBVIOUS
  <2> QED BY <2>1, <2>2, RemoveStep
<1>9. ASSUME NEW u \in Users, NEW m \in Live, SetPinnedMessage(u, m) PROVE IInv'
  BY <1>9, <1>0, SameLogPreserves DEF SetPinnedMessage, Members, DeletedHasNoMembers
<1>10. ASSUME NEW u \in Users, ClearPinnedMessage(u) PROVE IInv'
  BY <1>10, <1>0, SameLogPreserves DEF ClearPinnedMessage, Members, DeletedHasNoMembers
<1>11. ASSUME NEW kind \in {"reaction", "favorite", "reminder"}, NEW u \in Users, NEW m \in Live,
              Annotate(kind, u, m)
       PROVE IInv'
  <2>1. [kind |-> kind, user |-> u, message |-> m] \in Annotation
    BY <1>0 DEF Annotation
  <2>2. annotations' = annotations \cup {[kind |-> kind, user |-> u, message |-> m]}
    BY <1>11 DEF Annotate
  <2>3. UNCHANGED <<type, exists, messages, nextId, lastRead, pinned, last, lastText, limit>>
    BY <1>11 DEF Annotate
  <2> QED BY <2>1, <2>2, <2>3, <1>0, SameLogPreserves DEF Members, DeletedHasNoMembers
<1>12. ASSUME NEW a \in annotations, RemoveAnnotation(a) PROVE IInv'
  BY <1>12, <1>0, SameLogPreserves DEF RemoveAnnotation, Members, DeletedHasNoMembers
<1>13. ASSUME NEW u \in Users, AddGroupMember(u) PROVE IInv'
  <2>1. /\ lastRead' = [x \in Members \cup {u} |-> IF x = u THEN None ELSE lastRead[x]]
        /\ UNCHANGED <<type, exists, messages, nextId, pinned, last, lastText, annotations, limit>>
        /\ u \notin Members /\ exists
    BY <1>13 DEF AddGroupMember
  <2>2. Members' = Members \cup {u}
    BY <2>1 DEF Members
  <2>3. lastRead' \in [Members' -> Nat]
    BY <2>1, <2>2, <1>0 DEF None
  <2>4. DeletedHasNoMembers'
    BY <2>1, <2>2, <1>0 DEF DeletedHasNoMembers
  <2> QED BY <2>1, <2>2, <2>3, <2>4, <1>0, SameLogPreserves
<1>14. ASSUME NEW u \in Users, RemoveGroupMember(u) PROVE IInv'
  <2>1. /\ lastRead' = [x \in Members \ {u} |-> lastRead[x]]
        /\ UNCHANGED <<type, exists, messages, nextId, pinned, last, lastText, annotations, limit>>
    BY <1>14 DEF RemoveGroupMember
  <2>2. Members' = Members \ {u}
    BY <2>1 DEF Members
  <2>3. lastRead' \in [Members' -> Nat]
    BY <2>1, <2>2, <1>0
  <2>4. DeletedHasNoMembers'
    BY <2>1, <2>2, <1>0 DEF DeletedHasNoMembers
  <2> QED BY <2>1, <2>2, <2>3, <2>4, <1>0, SameLogPreserves
<1>15. ASSUME NEW u \in Users, DeleteConversation(u) PROVE IInv'
  BY <1>15, DeleteConversationPreserves
<1>16. CASE CreateDirectConversation
  <2>1. /\ lastRead' = [x \in InitialMembers[type] |-> None]
        /\ exists' = TRUE
        /\ UNCHANGED <<type, messages, nextId, pinned, last, lastText, annotations, limit>>
    BY <1>16 DEF CreateDirectConversation
  <2>2. Members' = InitialMembers[type]
    BY <2>1 DEF Members
  <2>3. lastRead' \in [Members' -> Nat] /\ Members' \subseteq Users
    <3>1. type \in Types
      BY DEF IInv, TypeOK
    <3> QED BY <2>1, <2>2, <3>1, UsersAssumption DEF None
  <2>4. exists' \in BOOLEAN /\ DeletedHasNoMembers'
    BY <2>1 DEF DeletedHasNoMembers
  <2> QED BY <2>1, <2>2, <2>3, <2>4, <1>0, SameLogPreserves
<1>17. CASE Restart
  BY <1>17, <1>0, SameLogPreserves DEF Restart, Members, DeletedHasNoMembers
<1>18. CASE UNCHANGED vars
  BY <1>18, StutterPreserves
<1> QED
  BY <1>1, <1>2, <1>3, <1>4, <1>5, <1>6, <1>7, <1>8, <1>9, <1>10, <1>11, <1>12,
     <1>13, <1>14, <1>15, <1>16, <1>17, <1>18 DEF Next

-----------------------------------------------------------------------------
(* The theorems.                                                           *)

\* The inductive invariant holds in every reachable state of the log.
THEOREM LogInvariant == Spec => []IInv
  BY InitIInv, NextIInv, PTL DEF Spec

\* Every stored record keeps its shape, whatever the operations.
THEOREM TypeCorrect == Spec => []TypeOK
<1>1. IInv => TypeOK
  BY DEF IInv
<1> QED BY <1>1, LogInvariant, PTL

\* The conversation list always shows the newest stored message, whatever
\* stored, edited or removed messages before: its text, or, for the message
\* stored last, the preview that its storing wrote.
THEOREM PreviewCorrect == Spec => []PreviewShowsNewest
<1>1. IInv => PreviewShowsNewest
  BY DEF IInv
<1> QED BY <1>1, LogInvariant, PTL

\* Read pointers and read receipts agree (MarkMessagesReadUpToWithResult
\* and repairMemberReadPointersAfterTrim).
THEOREM ReceiptsCorrect == Spec => []PointerBackedByReceipts
<1>1. IInv => PointerBackedByReceipts
  BY DEF IInv
<1> QED BY <1>1, LogInvariant, PTL

\* No reaction, favorite or reminder outlives its message.
THEOREM AnnotationsCorrect == Spec => []AnnotationsOnStoredMessages
<1>1. IInv => AnnotationsOnStoredMessages
  BY DEF IInv
<1> QED BY <1>1, LogInvariant, PTL

\* findMessageByClientMessageID never has two candidates.
THEOREM ClientIdsUnique == Spec => []OneMessagePerClientId
<1>1. IInv => OneMessagePerClientId
  BY DEF IInv
<1> QED BY <1>1, LogInvariant, PTL

\* A pin of a message that is gone is older than everything stored.
THEOREM LostPins == Spec => []LostPinIsOlder
<1>1. IInv => LostPinIsOlder
  BY DEF IInv
<1> QED BY <1>1, LogInvariant, PTL

-----------------------------------------------------------------------------
(* Action properties.  One fact about all steps carries both: authors of   *)
(* stored messages never change, and a pointer falls only when it was set  *)
(* and what it named is no longer stored.                                  *)

PointerStep ==
    /\ \A m \in Live \cap Live' : messages'[m].author = messages[m].author
    /\ \A u \in Members \cap Members' :
          lastRead[u] \in Live' \/ lastRead[u] = None => lastRead'[u] >= lastRead[u]

LEMMA WithoutPointerStep ==
    ASSUME IInv, NEW log, NEW removed, Live \subseteq DOMAIN log,
           \A m \in Live : log[m] = messages[m], Without(log, removed)
    PROVE  PointerStep
<1>1. /\ messages' = [m \in DOMAIN log \ removed |-> log[m]]
      /\ Live' = DOMAIN log \ removed
      /\ lastRead' = Repaired(Live')
  BY DEF Without, Live
<1>2. \A u \in Members : lastRead[u] \in Live' \/ lastRead[u] = None => lastRead'[u] = lastRead[u]
  BY <1>1 DEF Repaired
<1>3. \A u \in Members : lastRead[u] \in Nat
  BY DEF IInv, TypeOK
<1> QED BY <1>1, <1>2, <1>3 DEF PointerStep

LEMMA StorePointerStep ==
    ASSUME IInv, NEW n, NEW msg, NEW removed, Store(n, msg, removed)
    PROVE  PointerStep
<1> DEFINE log == Appended(n, msg)
<1>1. Live \subseteq DOMAIN log /\ \A m \in Live : log[m] = messages[m]
  BY DEF Appended
<1>2. Without(log, removed)
  BY DEF Store
<1> HIDE DEF log
<1> QED BY <1>1, <1>2, WithoutPointerStep

LEMMA SamePointersStep ==
    ASSUME IInv,
           \A m \in Live \cap Live' : messages'[m].author = messages[m].author,
           \A u \in Members \cap Members' : lastRead'[u] = lastRead[u]
    PROVE  PointerStep
<1>1. \A u \in Members : lastRead[u] \in Nat
  BY DEF IInv, TypeOK
<1> QED BY <1>1 DEF PointerStep

LEMMA NextPointerStep == IInv /\ [Next]_vars => PointerStep
<1> SUFFICES ASSUME IInv, [Next]_vars PROVE PointerStep
  OBVIOUS
<1>0. messages \in [Live -> Message] /\ lastRead \in [Members -> Nat] /\ Live \subseteq Nat
  BY DEF IInv, TypeOK
<1>1. ASSUME NEW u \in Users, NEW c \in ClientIds \cup {NoClient}, NEW k \in Kinds,
             AddMessage(u, c, k)
      PROVE PointerStep
  BY <1>1, StorePointerStep DEF AddMessage
<1>2. CASE AddSystemNotification
  BY <1>2, StorePointerStep DEF AddSystemNotification
<1>3. ASSUME NEW u \in Users, NEW n \in 1 .. MaxForward, ForwardMessages(u, n) PROVE PointerStep
  BY <1>3, StorePointerStep DEF ForwardMessages
<1>4. ASSUME NEW u \in Users, NEW m \in Live, MarkMessageDelivered(u, m) PROVE PointerStep
  <2>1. \A k \in Live : messages'[k].author = messages[k].author
    BY <1>0, <1>4 DEF MarkMessageDelivered, Message
  <2> QED BY <1>4, <2>1, SamePointersStep DEF MarkMessageDelivered
<1>5. ASSUME NEW u \in Users, NEW m \in Live, MarkMessagesReadUpTo(u, m) PROVE PointerStep
  <2>1. /\ lastRead[u] \in Live => lastRead[u] < m
        /\ lastRead' = [lastRead EXCEPT ![u] = m]
        /\ messages' = [k \in Live |->
                           IF k <= m /\ messages[k].author # u
                           THEN [messages[k] EXCEPT !.readBy = @ \cup {u}]
                           ELSE messages[k]]
        /\ u \in Members
    BY <1>5 DEF MarkMessagesReadUpTo
  <2>2. \A k \in Live : messages'[k].author = messages[k].author
    BY <1>0, <2>1 DEF Message
  <2>3. Live' = Live /\ Members' = Members
    BY <1>0, <2>1 DEF Live, Members
  <2>4. ASSUME NEW v \in Members, lastRead[v] \in Live \/ lastRead[v] = None
        PROVE lastRead'[v] >= lastRead[v]
    <3>1. lastRead[v] \in Nat /\ m \in Nat
      BY <1>0
    <3>2. CASE v # u
      BY <1>0, <2>1, <3>1, <3>2
    <3>3. CASE v = u
      <4>1. lastRead'[v] = m
        BY <1>0, <2>1, <3>3 DEF Members
      <4> QED BY <2>1, <2>4, <3>1, <3>3, <4>1 DEF None
    <3> QED BY <3>2, <3>3
  <2> QED BY <2>2, <2>3, <2>4 DEF PointerStep
<1>6. ASSUME NEW u \in Users, NEW m \in Live, UpdateTextMessage(u, m) PROVE PointerStep
  <2>1. \A k \in Live : messages'[k].author = messages[k].author
    BY <1>0, <1>6 DEF UpdateTextMessage, Message
  <2> QED BY <1>6, <2>1, SamePointersStep DEF UpdateTextMessage
<1>7. ASSUME NEW u \in Users, NEW m \in Live, DeleteMessage(u, m) PROVE PointerStep
  BY <1>7, WithoutPointerStep DEF DeleteMessage, Keep, Live
<1>8. ASSUME NEW u \in Users, ClearConversationMessages(u) PROVE PointerStep
  BY <1>8, WithoutPointerStep DEF ClearConversationMessages, Keep, Live
<1>9. ASSUME UNCHANGED <<messages, lastRead>> PROVE PointerStep
  BY <1>9, SamePointersStep
<1>10. ASSUME NEW u \in Users, NEW m \in Live, SetPinnedMessage(u, m) PROVE PointerStep
  BY <1>9, <1>10 DEF SetPinnedMessage
<1>11. ASSUME NEW u \in Users, ClearPinnedMessage(u) PROVE PointerStep
  BY <1>9, <1>11 DEF ClearPinnedMessage
<1>12. ASSUME NEW kind \in {"reaction", "favorite", "reminder"}, NEW u \in Users, NEW m \in Live,
              Annotate(kind, u, m)
       PROVE PointerStep
  BY <1>9, <1>12 DEF Annotate
<1>13. ASSUME NEW a \in annotations, RemoveAnnotation(a) PROVE PointerStep
  BY <1>9, <1>13 DEF RemoveAnnotation
<1>14. ASSUME NEW u \in Users, AddGroupMember(u) PROVE PointerStep
  BY <1>14, SamePointersStep DEF AddGroupMember, Members
<1>15. ASSUME NEW u \in Users, RemoveGroupMember(u) PROVE PointerStep
  BY <1>15, SamePointersStep DEF RemoveGroupMember, Members
<1>16. ASSUME NEW u \in Users, DeleteConversation(u) PROVE PointerStep
  <2>1. Live' = {} /\ Members' = {}
    BY <1>16 DEF DeleteConversation, Live, Members
  <2> QED BY <2>1 DEF PointerStep
<1>17. CASE CreateDirectConversation
  <2>1. messages' = messages /\ Members = {}
    BY <1>17 DEF CreateDirectConversation, IInv, DeletedHasNoMembers
  <2> QED BY <2>1 DEF PointerStep
<1>18. CASE Restart
  BY <1>9, <1>18 DEF Restart
<1>19. CASE UNCHANGED vars
  BY <1>9, <1>19 DEF vars
<1> QED
  BY <1>1, <1>2, <1>3, <1>4, <1>5, <1>6, <1>7, <1>8, <1>10, <1>11, <1>12,
     <1>13, <1>14, <1>15, <1>16, <1>17, <1>18, <1>19 DEF Next

\* Read commands delivered in any order never pull a pointer back while the
\* message it names is stored (the comparison in
\* MarkMessagesReadUpToWithResult).
THEOREM PointersAdvance == Spec => PointerNeverMovesBack
<1>1. IInv /\ [Next]_vars =>
        [\A u \in Members \cap Members' :
            lastRead[u] \in Live' => lastRead'[u] >= lastRead[u]]_vars
  BY NextPointerStep DEF PointerStep
<1> QED BY <1>1, LogInvariant, PTL DEF Spec, PointerNeverMovesBack

\* The unread count of the conversation list jumps back for one reason only:
\* the message the pointer named was removed (trim, delete or clear) and
\* repairMemberReadPointersAfterTrim emptied the pointer.
THEOREM UnreadReturns == Spec => UnreadComesBackOnlyByRemoval
<1>1. ASSUME IInv, [Next]_vars,
             NEW u \in Members \cap Members', NEW m \in Live,
             m \notin Unread(u), m \in Unread(u)'
      PROVE  lastRead[u] \in Live \ Live'
  <2>1. PointerStep
    BY <1>1, NextPointerStep
  <2>2. IInv'
    BY <1>1, NextIInv
  <2>3. /\ m \in Live' /\ m > lastRead'[u] /\ messages'[m].author # u
        /\ m \in Nat /\ lastRead[u] \in Nat /\ lastRead'[u] \in Nat
    BY <1>1, <2>2 DEF Unread, IInv, TypeOK
  <2>4. m <= lastRead[u]
    BY <1>1, <2>1, <2>3 DEF PointerStep, Unread
  <2>5. lastRead[u] \notin Live' /\ lastRead[u] # None
    BY <2>1, <2>3, <2>4 DEF PointerStep
  <2> QED BY <1>1, <2>5 DEF IInv, PointerBackedByReceipts
<1>2. IInv /\ [Next]_vars =>
        [\A u \in Members \cap Members' :
            (\E m \in Live : m \notin Unread(u) /\ m \in Unread(u)')
               => lastRead[u] \in Live \ Live']_vars
  BY <1>1
<1> QED BY <1>2, LogInvariant, PTL DEF Spec, UnreadComesBackOnlyByRemoval
-----------------------------------------------------------------------------
(* How much a trim takes.  The oldest message it leaves has n older ones,  *)
(* all of which it took.                                                   *)

LEMMA MinimumExists ==
    ASSUME NEW S \in SUBSET Nat, S # {}
    PROVE  \E m \in S : \A k \in S : m <= k
<1> DEFINE T == {Before(S, m) : m \in S}
<1>1. T \subseteq FiniteSubsetsOf(S)
  <2> SUFFICES ASSUME NEW m \in S PROVE Before(S, m) \in SUBSET S /\ IsFiniteSet(Before(S, m))
    BY DEF FiniteSubsetsOf
  <2>1. Before(S, m) \in SUBSET Nat /\ m \in Nat /\ \A k \in Before(S, m) : k <= m
    <3>1. ASSUME NEW k \in Before(S, m) PROVE k \in Nat /\ k <= m
      <4>1. k \in Nat /\ m \in Nat /\ k < m
        BY DEF Before
      <4> QED BY <4>1
    <3> QED BY <3>1
  <2> QED BY <2>1, FS_BoundedSetOfNaturals DEF Before
<1>2. T # {}
  OBVIOUS
<1>3. IsWellFoundedOn(StrictSubsetOrdering(S), FiniteSubsetsOf(S))
  BY FS_StrictSubsetOrderingWellFounded
<1> HIDE DEF T
<1>4. PICK X \in T : \A Y \in T : ~ (<<Y, X>> \in StrictSubsetOrdering(S))
  BY <1>1, <1>2, <1>3, WFMin
<1>5. PICK m \in S : X = Before(S, m)
  BY <1>4 DEF T
<1>6. ASSUME NEW k \in S, ~ (m <= k) PROVE FALSE
  <2>1. k \in Nat /\ m \in Nat /\ k < m
    BY <1>6
  <2>2. k \in Before(S, m) /\ k \notin Before(S, k)
    BY <2>1 DEF Before
  <2>3. Before(S, k) \subseteq Before(S, m)
    <3> SUFFICES ASSUME NEW x \in S, x < k PROVE x < m
      BY DEF Before
    <3>1. x \in Nat
      OBVIOUS
    <3> QED BY <2>1, <3>1
  <2>4. Before(S, k) \in T
    BY DEF T
  <2>5. <<Before(S, k), X>> \in StrictSubsetOrdering(S)
    BY <1>5, <2>2, <2>3 DEF StrictSubsetOrdering, Before
  <2> QED BY <1>4, <2>4, <2>5
<1> QED BY <1>6

LEMMA OldestAreMany ==
    ASSUME NEW S \in SUBSET Nat, IsFiniteSet(S), NEW n \in Nat, S \ Oldest(S, n) # {}
    PROVE  Cardinality(S \ Oldest(S, n)) + n <= Cardinality(S)
<1> DEFINE left == S \ Oldest(S, n)
<1>1. PICK m \in left : \A k \in left : m <= k
  <2>1. left \in SUBSET Nat /\ left # {}
    OBVIOUS
  <2> HIDE DEF left
  <2> QED BY <2>1, MinimumExists
<1>2. Before(S, m) \in SUBSET S /\ IsFiniteSet(Before(S, m)) /\ Cardinality(Before(S, m)) \in Nat
  BY FS_Subset, FS_CardinalityType DEF Before
<1>3. Cardinality(Before(S, m)) >= n
  BY <1>2 DEF Oldest
<1>4. left \subseteq S \ Before(S, m)
  <2> SUFFICES ASSUME NEW k \in left, k < m PROVE FALSE
    BY DEF Before
  <2>1. k \in Nat /\ m \in Nat /\ m <= k
    BY <1>1
  <2> QED BY <2>1
<1>5. Cardinality(S \ Before(S, m)) = Cardinality(S) - Cardinality(Before(S, m))
  <2>1. S \cap Before(S, m) = Before(S, m)
    BY <1>2
  <2> QED BY <2>1, FS_Difference
<1>6. Cardinality(left) <= Cardinality(S \ Before(S, m)) /\ Cardinality(left) \in Nat
  <2>1. IsFiniteSet(S \ Before(S, m)) /\ IsFiniteSet(left)
    BY FS_Subset
  <2> QED BY <1>4, <2>1, FS_Subset, FS_CardinalityType
<1>7. Cardinality(S) \in Nat
  BY FS_CardinalityType
<1> QED BY <1>2, <1>3, <1>5, <1>6, <1>7

\* A message with all others in front of it stays if less than all go.
LEMMA NewestStays ==
    ASSUME NEW S \in SUBSET Nat, IsFiniteSet(S), NEW m \in S, \A k \in S : k <= m,
           NEW n \in Nat, n < Cardinality(S)
    PROVE  m \in S \ Oldest(S, n)
<1>1. Before(S, m) = S \ {m}
  <2>1. ASSUME NEW k \in S PROVE k < m <=> k # m
    <3>1. k \in Nat /\ m \in Nat /\ k <= m
      OBVIOUS
    <3> QED BY <3>1
  <2> QED BY <2>1 DEF Before
<1>2. Cardinality(S \ {m}) = Cardinality(S) - 1 /\ Cardinality(S) \in Nat
  BY FS_RemoveElement, FS_CardinalityType
<1> QED BY <1>1, <1>2 DEF Oldest

\* The loop takes whole halves of the limit, from the first with which the
\* log is below the limit.
LEMMA HalvesGo ==
    ASSUME NEW c \in Nat, NEW l \in Nat \ {0, 1}, l <= c
    PROVE  LET n == (l \div 2) * ((c - l) \div (l \div 2) + 1)
           IN  n \in Nat /\ n < c /\ c - n < l
<1>1. PICK h \in Nat : h = l \div 2
  OBVIOUS
<1>2. h > 0 /\ h < l
  BY <1>1
<1>3. PICK d \in Nat : d = c - l
  OBVIOUS
<1>4. PICK q \in Nat : q = d \div h
  BY <1>2
<1>5. PICK p \in Nat : p = h * q
  OBVIOUS
<1>6. p <= d /\ d < p + h
  BY <1>2, <1>4, <1>5
<1>7. h * (q + 1) = p + h
  BY <1>5
<1>8. (l \div 2) * ((c - l) \div (l \div 2) + 1) = p + h
  BY <1>1, <1>3, <1>4, <1>7
<1> QED BY <1>2, <1>3, <1>6, <1>8

LEMMA TrimsLeaveNewest ==
    ASSUME TypeOK, NEW S \in SUBSET Nat, IsFiniteSet(S), NEW m \in S, \A k \in S : k <= m
    PROVE  /\ m \notin TrimOnce(S) /\ m \notin TrimUntilBelow(S)
           /\ \/ Cardinality(S \ TrimOnce(S)) < limit
              \/ Cardinality(S \ TrimOnce(S)) < Cardinality(S)
           /\ Cardinality(S \ TrimUntilBelow(S)) < limit
<1>1. limit \in Nat \ {0, 1} /\ limit \div 2 \in Nat /\ limit \div 2 > 0 /\ limit \div 2 < limit
  BY LimitsAssumption DEF TypeOK
<1>2. Cardinality(S) \in Nat
  BY FS_CardinalityType
<1>3. CASE Cardinality(S) < limit
  <2>1. S \ {} = S
    OBVIOUS
  <2> QED BY <1>3, <2>1 DEF TrimOnce, TrimUntilBelow
<1>4. CASE limit <= Cardinality(S)
  <2>1. /\ TrimOnce(S) = Oldest(S, limit \div 2)
        /\ TrimUntilBelow(S) = Oldest(S, TrimCount(Cardinality(S)))
    BY <1>1, <1>2, <1>4 DEF TrimOnce, TrimUntilBelow
  <2>2. PICK n \in Nat : n = TrimCount(Cardinality(S)) /\ n < Cardinality(S) /\ Cardinality(S) - n < limit
    BY <1>1, <1>2, <1>4, HalvesGo DEF TrimCount
  <2>3. PICK h \in Nat : h = limit \div 2 /\ h > 0 /\ h < Cardinality(S)
    BY <1>1, <1>2, <1>4
  <2>4. m \in S \ Oldest(S, n) /\ m \in S \ Oldest(S, h)
    BY <2>2, <2>3, NewestStays
  <2>5. /\ Cardinality(S \ Oldest(S, n)) + n <= Cardinality(S)
        /\ Cardinality(S \ Oldest(S, h)) + h <= Cardinality(S)
    BY <2>4, OldestAreMany
  <2>6. Cardinality(S \ Oldest(S, n)) \in Nat /\ Cardinality(S \ Oldest(S, h)) \in Nat
    BY FS_Subset, FS_CardinalityType
  <2> QED BY <1>1, <1>2, <2>1, <2>2, <2>3, <2>4, <2>5, <2>6
<1> QED BY <1>1, <1>2, <1>3, <1>4

TrimStep ==
    nextId' # nextId =>
        /\ nextId' - 1 \in Live'
        /\ \A r \in Live \ Live', m \in Live' : r < m
        /\ Cardinality(Live') > Cardinality(Live) => Cardinality(Live') < limit

LEMMA StoreTrims ==
    ASSUME IInv, NEW n \in Nat \ {0}, NEW msg, NEW removed, NEW all,
           all = Live \cup (nextId .. (nextId + n - 1)),
           Store(n, msg, removed),
           (n = 1 /\ removed = TrimOnce(all)) \/ removed = TrimUntilBelow(all)
    PROVE  TrimStep
<1>1. all \in SUBSET Nat /\ IsFiniteSet(all)
  BY CandidatesFinite
<1>2. nextId \in Nat \ {0} /\ nextId' = nextId + n /\ Live \subseteq 1 .. (nextId - 1) /\ IsFiniteSet(Live)
  BY DEF Store, IInv, TypeOK
<1>3. nextId' - 1 \in all /\ \A k \in all : k <= nextId' - 1
  BY <1>2
<1>4. Live' = all \ removed
  BY DEF Store, Without, Appended, Live
<1>5. \A r \in removed, m \in all \ removed : r < m
  BY <1>1, TrimsArePrefixes DEF IInv
<1>6. TypeOK
  BY DEF IInv
<1>7. /\ nextId' - 1 \notin removed
      /\ Cardinality(all \ removed) < limit \/ (n = 1 /\ Cardinality(all \ removed) < Cardinality(all))
  BY <1>1, <1>3, <1>6, TrimsLeaveNewest
<1>8. Cardinality(Live) \in Nat /\ Cardinality(all) \in Nat /\ Cardinality(Live') \in Nat
  BY <1>1, <1>2, <1>4, FS_CardinalityType, FS_Subset
<1>9. n = 1 => Cardinality(all) = Cardinality(Live) + 1
  <2> SUFFICES ASSUME n = 1 PROVE Cardinality(all) = Cardinality(Live) + 1
    OBVIOUS
  <2>1. all = Live \cup {nextId} /\ nextId \notin Live
    BY <1>2
  <2> QED BY <1>2, <2>1, FS_AddElement
<1>10. limit \in Nat
  BY <1>6, LimitsAssumption DEF TypeOK
<1>11. Cardinality(Live') > Cardinality(Live) => Cardinality(Live') < limit
  BY <1>4, <1>7, <1>8, <1>9, <1>10
<1> QED BY <1>3, <1>4, <1>5, <1>7, <1>11 DEF TrimStep

LEMMA NextTrimStep == IInv /\ [Next]_vars => TrimStep
<1> SUFFICES ASSUME IInv, [Next]_vars PROVE TrimStep
  OBVIOUS
<1>0. nextId .. (nextId + 1 - 1) = {nextId} /\ 1 \in Nat \ {0}
  BY DEF IInv, TypeOK
<1>1. ASSUME NEW u \in Users, NEW c \in ClientIds \cup {NoClient}, NEW k \in Kinds,
             AddMessage(u, c, k)
      PROVE TrimStep
  BY <1>0, <1>1, StoreTrims DEF AddMessage
<1>2. CASE AddSystemNotification
  BY <1>0, <1>2, StoreTrims DEF AddSystemNotification
<1>3. ASSUME NEW u \in Users, NEW n \in 1 .. MaxForward, ForwardMessages(u, n) PROVE TrimStep
  <2>1. n \in Nat \ {0}
    BY BoundsAssumption
  <2> QED BY <1>3, <2>1, StoreTrims DEF ForwardMessages
<1>4. CASE nextId' = nextId
  BY <1>4 DEF TrimStep
<1> QED
  BY <1>1, <1>2, <1>3, <1>4 DEF Next, vars, MarkMessageDelivered, MarkMessagesReadUpTo,
     UpdateTextMessage, DeleteMessage, ClearConversationMessages, SetPinnedMessage,
     ClearPinnedMessage, Annotate, RemoveAnnotation, AddGroupMember, RemoveGroupMember,
     DeleteConversation, CreateDirectConversation, Restart

\* A trim (trimMessagesWithResult, or the loop of ForwardMessages over halves
\* of the limit) takes the oldest messages only and never what was just
\* stored, and a log does not grow to the limit, even after the limit fell.
THEOREM TrimsTakeOldest == Spec => StoringTrimsOldest
<1>1. IInv /\ [Next]_vars =>
        [nextId' # nextId =>
            /\ nextId' - 1 \in Live'
            /\ \A r \in Live \ Live', m \in Live' : r < m
            /\ Cardinality(Live') > Cardinality(Live) => Cardinality(Live') < limit]_vars
  BY NextTrimStep DEF TrimStep
<1> QED BY <1>1, LogInvariant, PTL DEF Spec, StoringTrimsOldest
=============================================================================
