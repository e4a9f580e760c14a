-------------------------- MODULE ChatCallsProofs --------------------------
(***************************************************************************)
(* Proofs about ChatCalls for every set of users and conversations, every  *)
(* capacity and limit, and any number of requests between their two steps. *)
(***************************************************************************)
EXTENDS ChatCalls, FiniteSetTheorems, TLAPS

-----------------------------------------------------------------------------
(* The inductive invariant.  Its core is a predicate on the three records  *)
(* a transaction rewrites - the log lg, the calls cs and the cards cd - so *)
(* that the intermediate values inside a transaction can be spoken of too. *)
(* A message is in one log only; without that, deleting in one             *)
(* conversation could take the call of another.                            *)

Exclusive(cs) ==
    \A a, b \in DOMAIN cs :
        \/ cs[a].conversation = cs[b].conversation
        \/ cs[a].participants \cap cs[b].participants # {}
        => a = b

Populated(cs) ==
    \A id \in DOMAIN cs :
        /\ IsFiniteSet(cs[id].participants)
        /\ Cardinality(cs[id].participants) \in 1 .. MaxParticipants

Shown(lg, cs, cd) ==
    /\ \A id \in DOMAIN cs :
          /\ id \in lg[cs[id].conversation]
          /\ id \in DOMAIN cd
          /\ cd[id] = [joinable |-> TRUE, count |-> Cardinality(cs[id].participants)]
    /\ \A id \in DOMAIN cd : cd[id].joinable => id \in DOMAIN cs

Typed(lg, cs, cd) ==
    /\ lg \in [Conversations -> SUBSET Ids]
    /\ \A c, d \in Conversations : c # d => lg[c] \cap lg[d] = {}
    /\ DOMAIN cs \subseteq Ids
    /\ cs \in [DOMAIN cs -> Call]
    /\ \A id \in DOMAIN cd : \E c \in Conversations : id \in lg[c]
    /\ cd \in [DOMAIN cd -> Card]

Agree(lg, cs, cd) ==
    /\ Typed(lg, cs, cd)
    /\ Populated(cs)
    /\ Exclusive(cs)
    /\ Shown(lg, cs, cd)

IInv ==
    /\ members \in [Conversations -> SUBSET Users]
    /\ nextId \in 1 .. MaxSent + 1
    /\ requests \subseteq Request
    /\ \A c \in Conversations : log[c] \subseteq 1 .. nextId - 1
    /\ Agree(log, calls, cards)

-----------------------------------------------------------------------------
(* What the transactions do to the three records.                          *)

LEMMA SyncedCardType ==
    ASSUME NEW P, IsFiniteSet(P)
    PROVE  /\ SyncedCard(P) \in Card
           /\ P # {} => SyncedCard(P) = [joinable |-> TRUE, count |-> Cardinality(P)]
           /\ SyncedCard(P).joinable <=> P # {}
<1>1. Cardinality(P) \in Nat
  BY FS_CardinalityType
<1> QED BY <1>1 DEF SyncedCard, Card

\* Messages of one log are removed, with their calls and cards.
LEMMA RemoveKeeps ==
    ASSUME NEW lg, NEW cs, NEW cd, Agree(lg, cs, cd),
           NEW c \in Conversations, NEW removed
    PROVE  Agree([lg EXCEPT ![c] = @ \ removed],
                 Without(cs, removed \cap lg[c]), Without(cd, removed \cap lg[c]))
<1> DEFINE gone == removed \cap lg[c]
           lgN == [lg EXCEPT ![c] = @ \ removed]
           csN == Without(cs, gone)
           cdN == Without(cd, gone)
<1>1. /\ DOMAIN csN = DOMAIN cs \ gone /\ \A id \in DOMAIN csN : csN[id] = cs[id]
      /\ DOMAIN cdN = DOMAIN cd \ gone /\ \A id \in DOMAIN cdN : cdN[id] = cd[id]
  BY DEF Without
<1>2. /\ lgN \in [Conversations -> SUBSET Ids]
      /\ \A d \in Conversations : lgN[d] = lg[d] \ (IF d = c THEN gone ELSE {})
  BY DEF Agree, Typed
<1>3. Typed(lgN, csN, cdN)
  <2>1. \A d, e \in Conversations : d # e => lgN[d] \cap lgN[e] = {}
    BY <1>2 DEF Agree, Typed
  <2>2. DOMAIN csN \subseteq Ids /\ csN \in [DOMAIN csN -> Call]
    BY <1>1 DEF Agree, Typed, Without
  <2>3. cdN \in [DOMAIN cdN -> Card]
    BY <1>1 DEF Agree, Typed, Without
  <2>4. \A id \in DOMAIN cdN : \E d \in Conversations : id \in lgN[d]
    BY <1>1, <1>2 DEF Agree, Typed
  <2> QED BY <1>2, <2>1, <2>2, <2>3, <2>4 DEF Typed
<1>4. Populated(csN) /\ Exclusive(csN)
  BY <1>1 DEF Agree, Populated, Exclusive
<1>5. Shown(lgN, csN, cdN)
  <2> HIDE DEF lgN, csN, cdN
  <2>1. ASSUME NEW id \in DOMAIN csN
        PROVE  /\ id \in lgN[csN[id].conversation]
               /\ id \in DOMAIN cdN
               /\ cdN[id] = [joinable |-> TRUE, count |-> Cardinality(csN[id].participants)]
    <3>1. id \in DOMAIN cs /\ id \notin gone /\ csN[id] = cs[id]
      BY <1>1, <2>1
    <3>2. cs[id].conversation \in Conversations
      BY <3>1 DEF Agree, Typed, Call
    <3>3. id \in lg[cs[id].conversation] /\ id \in DOMAIN cd
          /\ cd[id] = [joinable |-> TRUE, count |-> Cardinality(cs[id].participants)]
      BY <3>1 DEF Agree, Shown
    <3> QED BY <1>1, <1>2, <3>1, <3>2, <3>3
  <2>2. \A id \in DOMAIN cdN : cdN[id].joinable => id \in DOMAIN csN
    BY <1>1 DEF Agree, Shown
  <2> QED BY <2>1, <2>2 DEF Shown
<1> QED BY <1>3, <1>4, <1>5 DEF Agree

\* A new message at the end of a log.
LEMMA AppendKeeps ==
    ASSUME NEW lg, NEW cs, NEW cd, Agree(lg, cs, cd),
           NEW c \in Conversations, NEW n \in Ids,
           \A d \in Conversations : n \notin lg[d]
    PROVE  Agree([lg EXCEPT ![c] = @ \cup {n}], cs, cd)
<1> DEFINE lgN == [lg EXCEPT ![c] = @ \cup {n}]
<1>1. /\ lgN \in [Conversations -> SUBSET Ids]
      /\ \A d \in Conversations : lgN[d] = lg[d] \cup (IF d = c THEN {n} ELSE {})
  BY DEF Agree, Typed
<1> HIDE DEF lgN
<1>2. Typed(lgN, cs, cd)
  BY <1>1 DEF Agree, Typed
<1>3. Shown(lgN, cs, cd)
  <2>1. \A id \in DOMAIN cs : cs[id].conversation \in Conversations
    BY DEF Agree, Typed, Call
  <2> QED BY <1>1, <2>1 DEF Agree, Shown
<1> QED BY <1>2, <1>3 DEF Agree, lgN

\* The message is the card of a new call.
LEMMA StartKeeps ==
    ASSUME NEW lg, NEW cs, NEW cd, Agree(lg, cs, cd),
           NEW c \in Conversations, NEW n \in Ids, NEW u \in Users,
           \A d \in Conversations : n \notin lg[d],
           \A id \in DOMAIN cs : cs[id].conversation # c /\ u \notin cs[id].participants,
           MaxParticipants \in Nat \ {0}
    PROVE  Agree([lg EXCEPT ![c] = @ \cup {n}],
                 With(cs, n, [conversation |-> c, participants |-> {u}, muted |-> {}]),
                 With(cd, n, SyncedCard({u})))
<1> DEFINE lgN == [lg EXCEPT ![c] = @ \cup {n}]
           call == [conversation |-> c, participants |-> {u}, muted |-> {}]
           card == SyncedCard({u})
           csN == With(cs, n, call)
           cdN == With(cd, n, card)
<1>1. /\ lgN \in [Conversations -> SUBSET Ids]
      /\ \A d \in Conversations : lgN[d] = lg[d] \cup (IF d = c THEN {n} ELSE {})
  BY DEF Agree, Typed
<1>2. /\ DOMAIN csN = DOMAIN cs \cup {n}
      /\ \A id \in DOMAIN csN : csN[id] = IF id = n THEN call ELSE cs[id]
      /\ DOMAIN cdN = DOMAIN cd \cup {n}
      /\ \A id \in DOMAIN cdN : cdN[id] = IF id = n THEN card ELSE cd[id]
  BY DEF With
<1>3. IsFiniteSet({u}) /\ Cardinality({u}) = 1
  BY FS_Singleton
<1>4. card \in Card /\ card = [joinable |-> TRUE, count |-> Cardinality({u})]
  BY <1>3, SyncedCardType
<1>5. call \in Call
  BY DEF Call
<1>6. n \notin DOMAIN cs /\ n \notin DOMAIN cd
  BY DEF Agree, Typed, Shown, Call
<1>7. csN \in [DOMAIN csN -> Call] /\ cdN \in [DOMAIN cdN -> Card]
  <2>1. \A id \in DOMAIN csN : csN[id] \in Call
    BY <1>2, <1>5 DEF Agree, Typed
  <2>2. \A id \in DOMAIN cdN : cdN[id] \in Card
    BY <1>2, <1>4 DEF Agree, Typed
  <2> QED BY <2>1, <2>2 DEF With
<1>8. Typed(lgN, csN, cdN)
  <2> HIDE DEF lgN, csN, cdN
  <2>1. \A id \in DOMAIN cdN : \E d \in Conversations : id \in lgN[d]
    BY <1>1, <1>2 DEF Agree, Typed
  <2> QED BY <1>1, <1>2, <1>7, <2>1 DEF Agree, Typed
<1>9. Populated(csN)
  <2> HIDE DEF csN
  <2>1. call.participants = {u} /\ 1 \in 1 .. MaxParticipants
    OBVIOUS
  <2> HIDE DEF call
  <2> QED BY <1>2, <1>3, <2>1 DEF Agree, Populated
<1>10. Exclusive(csN)
  <2> HIDE DEF csN
  <2>1. call.participants = {u} /\ call.conversation = c
    OBVIOUS
  <2> HIDE DEF call
  <2> QED BY <1>2, <2>1 DEF Agree, Exclusive
<1>11. Shown(lgN, csN, cdN)
  <2> HIDE DEF lgN, csN, cdN
  <2>1. call.participants = {u} /\ call.conversation = c
    OBVIOUS
  <2>2. \A id \in DOMAIN cs : cs[id].conversation \in Conversations
    BY DEF Agree, Typed, Call
  <2> HIDE DEF call
  <2>3. card.joinable /\ card = [joinable |-> TRUE, count |-> Cardinality(call.participants)]
    BY <1>4, <2>1
  <2> HIDE DEF card
  <2>4. ASSUME NEW id \in DOMAIN csN
        PROVE  /\ id \in lgN[csN[id].conversation]
               /\ id \in DOMAIN cdN
               /\ cdN[id] = [joinable |-> TRUE, count |-> Cardinality(csN[id].participants)]
    <3>1. CASE id = n
      <4>1. csN[id] = call /\ id \in DOMAIN cdN /\ cdN[id] = card
        BY <1>2, <3>1
      <4>2. id \in lgN[c]
        BY <1>1, <3>1
      <4> QED BY <2>1, <2>3, <4>1, <4>2
    <3>2. CASE id # n
      BY <1>1, <1>2, <2>2, <3>2 DEF Agree, Shown
    <3> QED BY <3>1, <3>2
  <2>5. \A id \in DOMAIN cdN : cdN[id].joinable => id \in DOMAIN csN
    BY <1>2 DEF Agree, Shown
  <2> QED BY <2>4, <2>5 DEF Shown
<1> QED BY <1>8, <1>9, <1>10, <1>11 DEF Agree

\* Somebody joins or leaves a call that goes on, or is muted in it: whoever is
\* new in it is in no other.
LEMMA CallChangeKeeps ==
    ASSUME NEW lg, NEW cs, NEW cd, Agree(lg, cs, cd),
           NEW id \in DOMAIN cs, NEW P \in SUBSET Users, NEW M \in SUBSET Users,
           IsFiniteSet(P), Cardinality(P) \in 1 .. MaxParticipants, P # {},
           \A a \in DOMAIN cs : a # id => P \cap cs[a].participants = {},
           NEW csN, DOMAIN csN = DOMAIN cs, \A a \in DOMAIN cs : a # id => csN[a] = cs[a],
           csN \in [DOMAIN cs -> Call],
           csN[id] = [conversation |-> cs[id].conversation, participants |-> P, muted |-> M]
    PROVE  Agree(lg, csN, With(cd, id, SyncedCard(P)))
<1> DEFINE card == SyncedCard(P)
           cdN == With(cd, id, card)
<1>1. /\ id \in DOMAIN cd /\ DOMAIN cdN = DOMAIN cd
      /\ \A a \in DOMAIN cdN : cdN[a] = IF a = id THEN card ELSE cd[a]
  BY DEF With, Agree, Shown
<1>2. card \in Card /\ card = [joinable |-> TRUE, count |-> Cardinality(P)]
  BY SyncedCardType
<1>3. csN[id].conversation = cs[id].conversation /\ csN[id].participants = P
  OBVIOUS
<1>4. cdN \in [DOMAIN cdN -> Card]
  <2>1. \A a \in DOMAIN cdN : cdN[a] \in Card
    BY <1>1, <1>2 DEF Agree, Typed
  <2> QED BY <2>1 DEF With
<1> HIDE DEF card, cdN
<1>5. Typed(lg, csN, cdN)
  BY <1>1, <1>4 DEF Agree, Typed
<1>6. Populated(csN)
  BY <1>3 DEF Agree, Populated
<1>7. Exclusive(csN)
  BY <1>3 DEF Agree, Exclusive
<1>8. Shown(lg, csN, cdN)
  BY <1>1, <1>2, <1>3 DEF Agree, Shown
<1> QED BY <1>5, <1>6, <1>7, <1>8 DEF Agree, card, cdN

\* A call that ends takes its record with it and leaves a card nobody can press.
LEMMA CallEndKeeps ==
    ASSUME NEW lg, NEW cs, NEW cd, Agree(lg, cs, cd), NEW id \in DOMAIN cs
    PROVE  Agree(lg, Without(cs, {id}), With(cd, id, SyncedCard({})))
<1> DEFINE card == SyncedCard({})
           csN == Without(cs, {id})
           cdN == With(cd, id, card)
<1>1. /\ DOMAIN csN = DOMAIN cs \ {id} /\ \A a \in DOMAIN csN : csN[a] = cs[a]
      /\ id \in DOMAIN cd /\ DOMAIN cdN = DOMAIN cd
      /\ \A a \in DOMAIN cdN : cdN[a] = IF a = id THEN card ELSE cd[a]
  BY DEF With, Without, Agree, Shown
<1>2. card \in Card /\ ~card.joinable
  BY SyncedCardType, FS_EmptySet
<1>3. csN \in [DOMAIN csN -> Call] /\ cdN \in [DOMAIN cdN -> Card]
  <2>1. \A a \in DOMAIN cdN : cdN[a] \in Card
    BY <1>1, <1>2 DEF Agree, Typed
  <2>2. \A a \in DOMAIN csN : csN[a] \in Call
    BY <1>1 DEF Agree, Typed
  <2> QED BY <2>1, <2>2 DEF With, Without
<1> HIDE DEF card, csN, cdN
<1>4. Typed(lg, csN, cdN)
  BY <1>1, <1>3 DEF Agree, Typed
<1>5. Populated(csN) /\ Exclusive(csN)
  BY <1>1 DEF Agree, Populated, Exclusive
<1>6. Shown(lg, csN, cdN)
  BY <1>1, <1>2 DEF Agree, Shown
<1> QED BY <1>4, <1>5, <1>6 DEF Agree, card, csN, cdN

-----------------------------------------------------------------------------
(* Every step keeps the inductive invariant.                               *)

\* Storing a message, with its call and card if it is one, and trimming.
LEMMA AppendStep ==
    ASSUME IInv, NEW c \in Conversations, NEW cs, NEW cd,
           Agree([log EXCEPT ![c] = @ \cup {nextId}], cs, cd),
           AppendAndTrim(c, cs, cd), UNCHANGED <<members, requests>>
    PROVE  IInv'
<1> DEFINE lg == [log EXCEPT ![c] = @ \cup {nextId}]
           removed == Trimmed(Stored(c))
<1>1. /\ nextId <= MaxSent /\ nextId' = nextId + 1
      /\ log' = [log EXCEPT ![c] = Stored(c) \ removed]
      /\ calls' = Without(cs, removed) /\ cards' = Without(cd, removed)
  BY DEF AppendAndTrim, RemoveMessages
<1>2. lg[c] = Stored(c) /\ removed \subseteq lg[c]
  BY DEF Trimmed, Stored, IInv, Agree, Typed
<1>3. log' = [lg EXCEPT ![c] = @ \ removed]
  BY <1>1, <1>2 DEF IInv, Agree, Typed
<1>4. removed \cap lg[c] = removed
  BY <1>2
<1> HIDE DEF removed
<1>5. Agree(log', calls', cards')
  <2>1. Agree(lg, cs, cd)
    OBVIOUS
  <2> HIDE DEF lg
  <2>2. Agree([lg EXCEPT ![c] = @ \ removed],
              Without(cs, removed \cap lg[c]), Without(cd, removed \cap lg[c]))
    BY <2>1, RemoveKeeps
  <2> QED BY <1>1, <1>3, <1>4, <2>2
<1>6. \A d \in Conversations : log'[d] \subseteq 1 .. nextId' - 1
  <2>1. \A d \in Conversations : log'[d] \subseteq log[d] \cup {nextId}
    BY <1>1 DEF Stored, IInv, Agree, Typed
  <2>2. nextId \in Nat /\ nextId >= 1 /\ nextId' = nextId + 1
    BY <1>1 DEF IInv
  <2>3. 1 .. nextId - 1 \subseteq 1 .. nextId' - 1 /\ nextId \in 1 .. nextId' - 1
    BY <2>2
  <2> QED BY <2>1, <2>3 DEF IInv
<1>7. nextId' \in 1 .. MaxSent + 1
  BY <1>1, CallsAssumption DEF IInv
<1> QED BY <1>5, <1>6, <1>7 DEF IInv

LEMMA NextIdIsNew ==
    ASSUME IInv, nextId <= MaxSent
    PROVE  nextId \in Ids /\ \A d \in Conversations : nextId \notin log[d]
BY CallsAssumption DEF IInv, Ids

LEMMA StartCallStep ==
    ASSUME IInv, NEW u \in Users, NEW c \in Conversations, StartCall(u, c)
    PROVE  IInv'
<1>1. nextId <= MaxSent
  BY DEF StartCall, AppendAndTrim
<1>2. \A id \in Active : calls[id].conversation # c /\ u \notin calls[id].participants
  BY DEF StartCall, HasActiveCall, CallsOf
<1>3. Agree([log EXCEPT ![c] = @ \cup {nextId}],
            With(calls, nextId, [conversation |-> c, participants |-> {u}, muted |-> {}]),
            With(cards, nextId, SyncedCard({u})))
  BY <1>1, <1>2, NextIdIsNew, StartKeeps, CallsAssumption DEF IInv, Active
<1> QED BY <1>3, AppendStep DEF StartCall

LEMMA AddMessageStep ==
    ASSUME IInv, NEW c \in Conversations, AddMessage(c)
    PROVE  IInv'
<1>1. nextId <= MaxSent
  BY DEF AddMessage, AppendAndTrim
<1>2. Agree([log EXCEPT ![c] = @ \cup {nextId}], calls, cards)
  BY <1>1, NextIdIsNew, AppendKeeps DEF IInv
<1> QED BY <1>2, AppendStep DEF AddMessage

\* What is known of an active call.
LEMMA CallFacts ==
    ASSUME IInv, NEW id \in Active
    PROVE  /\ calls[id].conversation \in Conversations
           /\ calls[id].participants \in SUBSET Users
           /\ calls[id].muted \in SUBSET Users
           /\ calls[id] = [conversation |-> calls[id].conversation,
                           participants |-> calls[id].participants,
                           muted |-> calls[id].muted]
           /\ IsFiniteSet(calls[id].participants)
           /\ Cardinality(calls[id].participants) \in 1 .. MaxParticipants
           /\ calls \in [Active -> Call]
<1>1. calls \in [Active -> Call]
  BY DEF IInv, Agree, Typed, Active
<1>2. calls[id] \in Call
  BY <1>1
<1>3. IsFiniteSet(calls[id].participants)
      /\ Cardinality(calls[id].participants) \in 1 .. MaxParticipants
  BY DEF IInv, Agree, Populated, Active
<1> QED BY <1>1, <1>2, <1>3 DEF Call

\* The step that gives the call id the participants P and the muted M.
LEMMA CallChangeStep ==
    ASSUME IInv, NEW id \in Active, NEW P \in SUBSET Users, NEW M \in SUBSET Users,
           IsFiniteSet(P), Cardinality(P) \in 1 .. MaxParticipants, P # {},
           \A a \in Active : a # id => P \cap calls[a].participants = {},
           calls' = [calls EXCEPT ![id].participants = P, ![id].muted = M],
           cards' = With(cards, id, SyncedCard(P))
    PROVE  Agree(log, calls', cards')
<1>1. calls \in [Active -> Call] /\ calls[id] \in Call
  BY CallFacts
<1> DEFINE new == [conversation |-> calls[id].conversation, participants |-> P, muted |-> M]
<1>2. new \in Call
  BY <1>1 DEF Call
<1>3. calls' = [calls EXCEPT ![id] = new]
  <2>1. [[calls[id] EXCEPT !.participants = P] EXCEPT !.muted = M] = new
    <3>1. PICK k, p, m : calls[id] = [conversation |-> k, participants |-> p, muted |-> m]
      BY CallFacts
    <3>2. PICK q : q = [calls[id] EXCEPT !.participants = P]
      OBVIOUS
    <3>3. q = [conversation |-> k, participants |-> P, muted |-> m]
      BY <3>1, <3>2
    <3>4. PICK n : n = [q EXCEPT !.muted = M]
      OBVIOUS
    <3>5. n = [conversation |-> k, participants |-> P, muted |-> M]
      BY <3>3, <3>4
    <3>6. new = n
      BY <3>1, <3>5
    <3> QED BY <3>2, <3>4, <3>6
  <2> HIDE DEF new
  <2>2. calls' = [calls EXCEPT ![id] = [[calls[id] EXCEPT !.participants = P] EXCEPT !.muted = M]]
    BY <1>1
  <2> QED BY <2>1, <2>2
<1>4. /\ DOMAIN calls' = Active /\ calls'[id] = new /\ calls' \in [Active -> Call]
      /\ \A a \in Active : a # id => calls'[a] = calls[a]
  BY <1>1, <1>2, <1>3
<1>5. Agree(log, calls, cards)
  BY DEF IInv
<1> QED BY <1>4, <1>5, CallChangeKeeps DEF Active

LEMMA JoinCallStep ==
    ASSUME IInv, NEW u \in Users, NEW id, JoinCall(u, id)
    PROVE  IInv'
<1>1. id \in Active
  BY DEF JoinCall
<1> DEFINE P == calls[id].participants
           joined == P \cup {u}
<1>2. /\ u \notin P /\ Cardinality(P) < MaxParticipants
      /\ \A a \in Active : a # id => u \notin calls[a].participants
      /\ calls' = [calls EXCEPT ![id].participants = joined]
      /\ cards' = With(cards, id, SyncedCard(joined))
      /\ UNCHANGED <<members, log, nextId, requests>>
  BY DEF JoinCall, CallsOf
<1>3. IsFiniteSet(joined) /\ Cardinality(joined) = Cardinality(P) + 1
      /\ Cardinality(P) \in 1 .. MaxParticipants /\ joined \in SUBSET Users
  BY <1>1, <1>2, CallFacts, FS_AddElement
<1>4. \A a \in Active : a # id => joined \cap calls[a].participants = {}
  BY <1>1, <1>2 DEF IInv, Agree, Exclusive, Active
<1>5. calls' = [calls EXCEPT ![id].participants = joined, ![id].muted = calls[id].muted]
  BY <1>1, <1>2, CallFacts DEF Call
<1>6. calls[id].muted \in SUBSET Users
  BY <1>1, CallFacts
<1>7. Cardinality(joined) \in 1 .. MaxParticipants
  BY <1>2, <1>3, CallsAssumption
<1>8. PICK Q : Q = joined
  OBVIOUS
<1>9. PICK M : M = calls[id].muted
  OBVIOUS
<1> HIDE DEF joined, P
<1>10. Agree(log, calls', cards')
  <2>1. /\ IsFiniteSet(Q) /\ Cardinality(Q) \in 1 .. MaxParticipants
        /\ Q \in SUBSET Users /\ M \in SUBSET Users /\ Q # {}
        /\ \A a \in Active : a # id => Q \cap calls[a].participants = {}
        /\ calls' = [calls EXCEPT ![id].participants = Q, ![id].muted = M]
        /\ cards' = With(cards, id, SyncedCard(Q))
    BY <1>2, <1>3, <1>4, <1>5, <1>6, <1>7, <1>8, <1>9 DEF joined
  <2> QED BY <1>1, <2>1, CallChangeStep
<1> QED BY <1>2, <1>10 DEF IInv

LEMMA LeaveCallStep ==
    ASSUME IInv, NEW r \in requests, LeaveCall(r)
    PROVE  IInv'
<1>1. PICK id, u, left :
          /\ id = r.call /\ u = r.user
          /\ left = calls[id].participants \ {u}
  OBVIOUS
<1>2. /\ id \in Active /\ u \in calls[id].participants
      /\ calls' = IF left = {} THEN Without(calls, {id})
                  ELSE [calls EXCEPT ![id].participants = left,
                                     ![id].muted = @ \ {u}]
      /\ cards' = With(cards, id, SyncedCard(left))
      /\ requests' = requests \ {r}
      /\ UNCHANGED <<members, log, nextId>>
  BY <1>1 DEF LeaveCall, InCall, Found, Finish
<1>3. Agree(log, calls', cards')
  <2>1. CASE left = {}
    BY <1>2, <2>1, CallEndKeeps DEF IInv, Active
  <2>2. CASE left # {}
    <3>1. IsFiniteSet(left) /\ Cardinality(left) = Cardinality(calls[id].participants) - 1
      BY <1>1, <1>2, CallFacts, FS_RemoveElement
    <3>2. Cardinality(left) \in Nat /\ Cardinality(left) # 0
      BY <2>2, <3>1, FS_CardinalityType, FS_EmptySet
    <3>3. Cardinality(left) \in 1 .. MaxParticipants
      <4>1. Cardinality(calls[id].participants) \in 1 .. MaxParticipants
        BY <1>2, CallFacts
      <4> QED BY <3>1, <3>2, <4>1, CallsAssumption
    <3>4. \A a \in Active : a # id => left \cap calls[a].participants = {}
      BY <1>1, <1>2 DEF IInv, Agree, Exclusive, Active
    <3>5. PICK M : M = calls[id].muted \ {u}
      OBVIOUS
    <3>6. left \in SUBSET Users /\ M \in SUBSET Users
      BY <1>1, <1>2, <3>5, CallFacts
    <3>7. calls' = [calls EXCEPT ![id].participants = left, ![id].muted = M]
      <4>1. calls \in [Active -> Call] /\ calls[id] \in Call
        BY <1>2, CallFacts
      <4> QED BY <1>2, <2>2, <3>5, <4>1 DEF Call
    <3> QED BY <1>2, <2>2, <3>1, <3>3, <3>4, <3>6, <3>7, CallChangeStep
  <2> QED BY <2>1, <2>2
<1> QED BY <1>2, <1>3 DEF IInv

LEMMA EndCallStep ==
    ASSUME IInv, NEW r \in requests, EndCall(r)
    PROVE  IInv'
<1>1. Agree(log, calls', cards')
  BY CallEndKeeps DEF EndCall, Found, IInv, Active
<1> QED BY <1>1 DEF EndCall, Finish, IInv

LEMMA SetCallMutedStep ==
    ASSUME IInv, NEW r \in requests, SetCallMuted(r)
    PROVE  IInv'
<1>1. PICK id, P, M :
          /\ id = r.call
          /\ P = calls[id].participants
          /\ M = IF r.op = "mute" THEN calls[id].muted \cup {r.user}
                 ELSE calls[id].muted \ {r.user}
  OBVIOUS
<1>2. id \in Active /\ r.user \in P
  BY <1>1 DEF SetCallMuted, InCall, Found
<1>3. /\ calls \in [Active -> Call] /\ calls[id] \in Call
      /\ P \in SUBSET Users /\ M \in SUBSET Users
      /\ IsFiniteSet(P) /\ Cardinality(P) \in 1 .. MaxParticipants
  BY <1>1, <1>2, CallFacts
<1>4. /\ calls' = [calls EXCEPT ![id].muted = M]
      /\ requests' = requests \ {r}
      /\ UNCHANGED <<members, log, nextId, cards>>
  BY <1>1 DEF SetCallMuted, Finish
<1>5. calls' = [calls EXCEPT ![id].participants = P, ![id].muted = M]
  BY <1>1, <1>2, <1>3, <1>4 DEF Call
<1>6. cards' = With(cards, id, SyncedCard(P))
  <2>1. /\ cards \in [DOMAIN cards -> Card] /\ id \in DOMAIN cards
        /\ cards[id] = SyncedCard(P)
    BY <1>1, <1>2, <1>3, SyncedCardType DEF IInv, Agree, Typed, Shown, Active
  <2> QED BY <1>4, <2>1 DEF With
<1>7. \A a \in Active : a # id => P \cap calls[a].participants = {}
  BY <1>1, <1>2 DEF IInv, Agree, Exclusive, Active
<1>8. Agree(log, calls', cards')
  BY <1>2, <1>3, <1>5, <1>6, <1>7, CallChangeStep
<1> QED BY <1>4, <1>8 DEF IInv

\* The messages that go are those of one log, so no other conversation's call
\* is touched.
LEMMA RemovalStep ==
    ASSUME IInv, NEW c \in Conversations, NEW removed, removed \subseteq log[c],
           log' = [log EXCEPT ![c] = log[c] \ removed],
           RemoveMessages(removed, calls, cards),
           UNCHANGED <<nextId, requests>>, members' \in [Conversations -> SUBSET Users]
    PROVE  IInv'
<1>1. removed \cap log[c] = removed
  OBVIOUS
<1>2. Agree(log, calls, cards)
  BY DEF IInv
<1>3. Agree([log EXCEPT ![c] = @ \ removed],
            Without(calls, removed \cap log[c]), Without(cards, removed \cap log[c]))
  BY <1>2, RemoveKeeps
<1>4. Agree(log', calls', cards')
  BY <1>1, <1>3 DEF RemoveMessages
<1>5. \A d \in Conversations : log'[d] \subseteq log[d]
  BY DEF IInv, Agree, Typed
<1> QED BY <1>4, <1>5 DEF IInv

LEMMA DeleteMessagesStep ==
    ASSUME IInv, NEW c \in Conversations, NEW removed, removed \subseteq log[c],
           DeleteMessages(c, removed)
    PROVE  IInv'
BY RemovalStep DEF DeleteMessages, IInv

LEMMA DeleteConversationStep ==
    ASSUME IInv, NEW c \in Conversations, DeleteConversation(c)
    PROVE  IInv'
<1>1. PICK removed : removed = log[c]
  OBVIOUS
<1>2. log' = [log EXCEPT ![c] = log[c] \ removed] /\ RemoveMessages(removed, calls, cards)
      /\ UNCHANGED <<nextId, requests>> /\ members' \in [Conversations -> SUBSET Users]
  BY <1>1 DEF DeleteConversation, IInv
<1> QED BY <1>1, <1>2, RemovalStep

\* Membership and requests are apart from the three records.
LEMMA OtherStep ==
    ASSUME IInv, UNCHANGED <<log, nextId, calls, cards>>,
           members' \in [Conversations -> SUBSET Users], requests' \subseteq Request
    PROVE  IInv'
BY DEF IInv

-----------------------------------------------------------------------------
LEMMA InitIInv == Init => IInv
<1> SUFFICES ASSUME Init PROVE IInv
  OBVIOUS
<1>1. DOMAIN calls = {} /\ DOMAIN cards = {} /\ calls \in [{} -> Call] /\ cards \in [{} -> Card]
  BY DEF Init
<1>2. Agree(log, calls, cards)
  BY <1>1 DEF Init, Agree, Typed, Populated, Exclusive, Shown
<1> QED BY <1>2, CallsAssumption DEF Init, IInv

LEMMA NextIInv == ASSUME IInv, [Next]_vars PROVE IInv'
<1>1. CASE \E u \in Users, c \in Conversations : StartCall(u, c)
  BY <1>1, StartCallStep
<1>2. CASE \E u \in Users, id \in 1 .. nextId - 1 : JoinCall(u, id)
  BY <1>2, JoinCallStep
<1>3. CASE \E r \in [op: {"leave", "end", "mute", "unmute"}, user: Users,
                     conversation: Conversations, call: 1 .. nextId - 1] : PassAccess(r)
  <2>1. UNCHANGED <<log, nextId, calls, cards, members>> /\ requests' \subseteq Request
    BY <1>3 DEF PassAccess, IInv
  <2> QED BY <2>1, OtherStep DEF IInv
<1>4. CASE \E r \in requests : Refuse(r)
  <2>1. UNCHANGED <<log, nextId, calls, cards, members>> /\ requests' \subseteq Request
    BY <1>4 DEF Refuse, Finish, IInv
  <2> QED BY <2>1, OtherStep DEF IInv
<1>5. CASE \E r \in requests : LeaveCall(r) \/ EndCall(r) \/ SetCallMuted(r)
  BY <1>5, LeaveCallStep, EndCallStep, SetCallMutedStep
<1>6. CASE \E c \in Conversations : AddMessage(c)
  BY <1>6, AddMessageStep
<1>7. CASE \E c \in Conversations : \E m \in log[c] : DeleteMessages(c, {m})
  BY <1>7, DeleteMessagesStep
<1>8. CASE \E c \in Conversations : DeleteMessages(c, log[c])
  <2>1. PICK c \in Conversations : DeleteMessages(c, log[c])
    BY <1>8
  <2>2. PICK removed : removed = log[c]
    OBVIOUS
  <2> QED BY <2>1, <2>2, DeleteMessagesStep
<1>9. CASE \E c \in Conversations, u \in Users : AddGroupMember(c, u)
  <2>1. UNCHANGED <<log, nextId, calls, cards>> /\ requests' \subseteq Request
        /\ members' \in [Conversations -> SUBSET Users]
    BY <1>9 DEF AddGroupMember, IInv
  <2> QED BY <2>1, OtherStep
<1>10. CASE \E c \in Conversations, u \in Users : RemoveGroupMember(c, u)
  <2>1. UNCHANGED <<log, nextId, calls, cards>> /\ requests' \subseteq Request
        /\ members' \in [Conversations -> SUBSET Users]
    BY <1>10 DEF RemoveGroupMember, IInv
  <2> QED BY <2>1, OtherStep
<1>11. CASE \E c \in Conversations : DeleteConversation(c)
  BY <1>11, DeleteConversationStep
<1>12. CASE UNCHANGED vars
  BY <1>12, OtherStep DEF vars, IInv
<1> QED BY <1>1, <1>2, <1>3, <1>4, <1>5, <1>6, <1>7, <1>8, <1>9, <1>10, <1>11, <1>12
        DEF Next

LEMMA InvariantHolds == Spec => []IInv
<1>1. IInv /\ [Next]_vars => IInv'
  BY NextIInv
<1> QED BY InitIInv, <1>1, PTL DEF Spec

-----------------------------------------------------------------------------
\* A conversation has one active call at most, nobody is in two calls and none
\* is over its capacity, whatever StartCall, JoinCall, the requests between
\* their two steps and the removals of messages do in any order (chat.go).
THEOREM CallsStayConsistent == Spec => []CallsConsistent
<1>1. ASSUME IInv PROVE CallsConsistent
  <2>1. Agree(log, calls, cards)
    BY <1>1 DEF IInv
  <2>2. OneCallPerConversation /\ OneCallPerUser
    BY <2>1 DEF Agree, Exclusive, OneCallPerConversation, OneCallPerUser, Active
  <2>3. TypeOK
    BY <1>1, <2>1 DEF IInv, Agree, Typed, Populated, TypeOK, Active
  <2> QED BY <2>2, <2>3 DEF CallsConsistent
<1> QED BY InvariantHolds, <1>1, PTL

\* Every active call has its joinable card with the right count in the log of
\* its conversation, and every joinable card its call (syncCallMessage and
\* removeMessageCall keep two buckets in step).
THEOREM CardsAlwaysShowCalls == Spec => []CardsShowCalls
<1>1. IInv => CardsShowCalls
  BY DEF IInv, Agree, Shown, CardsShowCalls, Active
<1> QED BY InvariantHolds, <1>1, PTL

\* A call that has ended is never there again: only StartCall adds one, under
\* a new number.
THEOREM CallsNeverReopen == Spec => CallNeverReopens
<1> DEFINE Opened == DOMAIN calls' \subseteq DOMAIN calls \cup {nextId}
<1>1. ASSUME IInv, [Next]_vars PROVE Opened
  <2>1. ASSUME NEW c, NEW cs, NEW cd, AppendAndTrim(c, cs, cd), DOMAIN cs \subseteq Active \cup {nextId}
        PROVE  Opened
    BY <2>1 DEF AppendAndTrim, RemoveMessages, Without, Active
  <2>2. ASSUME NEW u \in Users, NEW c \in Conversations, StartCall(u, c) PROVE Opened
    BY <2>1, <2>2 DEF StartCall, With, Active
  <2>3. ASSUME NEW c \in Conversations, AddMessage(c) PROVE Opened
    BY <2>1, <2>3 DEF AddMessage, Active
  <2>4. ASSUME NEW u, NEW id, JoinCall(u, id) PROVE Opened
    BY <2>4 DEF JoinCall
  <2>5. ASSUME NEW r \in requests, LeaveCall(r) PROVE Opened
    BY <2>5 DEF LeaveCall, Without
  <2>6. ASSUME NEW r \in requests, EndCall(r) \/ SetCallMuted(r) PROVE Opened
    BY <2>6 DEF EndCall, SetCallMuted, Without
  <2>7. ASSUME NEW c, NEW removed, DeleteMessages(c, removed) PROVE Opened
    BY <2>7 DEF DeleteMessages, RemoveMessages, Without
  <2>8. ASSUME NEW c, DeleteConversation(c) PROVE Opened
    BY <2>8 DEF DeleteConversation, RemoveMessages, Without
  <2>9. ASSUME UNCHANGED calls PROVE Opened
    BY <2>9
  <2> HIDE DEF Opened
  <2>10. ASSUME Next PROVE Opened
    BY <2>2, <2>3, <2>4, <2>5, <2>6, <2>7, <2>8, <2>9, <2>10
       DEF Next, PassAccess, Refuse, AddGroupMember, RemoveGroupMember
  <2> QED BY <1>1, <2>9, <2>10 DEF vars
<1>2. IInv /\ [Next]_vars =>
          [\A id \in 1 .. nextId - 1 : id \notin Active => id \notin DOMAIN calls']_vars
  <2>1. IInv => nextId \in Nat
    BY CallsAssumption DEF IInv
  <2>2. ASSUME nextId \in Nat PROVE nextId \notin 1 .. nextId - 1
    BY <2>2
  <2> QED BY <1>1, <2>1, <2>2 DEF Active
<1> QED BY InvariantHolds, <1>2, PTL DEF Spec, CallNeverReopens

=============================================================================
