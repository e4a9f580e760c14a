------------------------ MODULE BrokerListenerProofs ------------------------
(***************************************************************************)
(* Proofs about BrokerListener for every buffer, every pending limit and   *)
(* every number of messages.                                               *)
(***************************************************************************)
EXTENDS BrokerListener, SequenceTheorems, TLAPS

-----------------------------------------------------------------------------
(* The inductive invariant.                                                *)

Rising(s) == \A i, j \in DOMAIN s : i < j => s[i] < s[j]
Before(A, B) == \A x \in A, y \in B : x < y

\* What waits for the handler behind the channel, the callback, or is held by NATS.
Held == ToSet(pending)
Called == {callback} \ {0}
Buffered == ToSet(channel)
InHandler == {current} \ {0}
Past == ToSet(handled)

\* Each place holds its messages in order, and those nearer to the handler are
\* older.
InOrder ==
    /\ Rising(handled) /\ Rising(channel) /\ Rising(pending)
    /\ Before(Past, InHandler \cup Buffered \cup Called \cup Held)
    /\ Before(InHandler, Buffered \cup Called \cup Held)
    /\ Before(Buffered, Called \cup Held)
    /\ Before(Called, Held)

\* Only published messages move, and while the context lives none is missing.
Accounted ==
    LET all == Past \cup InHandler \cup Buffered \cup Called \cup Held \cup lost
    IN  /\ all \subseteq 1 .. sent
        /\ ~ctxDone => 1 .. sent \subseteq all

\* Who has closed the channel, and that the context went before.
Count(closed) == IF closed THEN 1 ELSE 0
ClosesFit ==
    /\ closes = Count(shutdown \in {"disconnect", "exit", "done"}) + Count(consumer = "done")
    /\ shutdown \notin {"wait", "cancel"} => ctxDone
    /\ consumer \in {"drain", "close", "done"} => shutdown \in {"disconnect", "exit", "done"}
    /\ process = "panicked" => ctxDone

IInv ==
    /\ TypeOK
    /\ current = 0 <=> consumer # "handle"
    /\ InOrder
    /\ Accounted
    /\ ClosesFit

-----------------------------------------------------------------------------
(* Sequences of messages.                                                  *)

LEMMA ConcatSet ==
    ASSUME NEW s \in Seq(Sent), NEW t \in Seq(Sent)
    PROVE  s \o t \in Seq(Sent) /\ ToSet(s \o t) = ToSet(s) \cup ToSet(t)
<1>1. /\ s \o t \in Seq(Sent) /\ Len(s \o t) = Len(s) + Len(t)
      /\ \A i \in 1 .. Len(s) + Len(t) :
            (s \o t)[i] = IF i <= Len(s) THEN s[i] ELSE t[i - Len(s)]
  BY ConcatProperties
<1>2. /\ Len(s) \in Nat /\ Len(t) \in Nat
      /\ DOMAIN s = 1 .. Len(s) /\ DOMAIN t = 1 .. Len(t)
      /\ DOMAIN (s \o t) = 1 .. Len(s) + Len(t)
  BY <1>1, LenProperties
<1>3. ASSUME NEW x \in ToSet(s \o t) PROVE x \in ToSet(s) \cup ToSet(t)
  <2>1. PICK i \in 1 .. Len(s) + Len(t) : x = (s \o t)[i]
    BY <1>2, <1>3 DEF ToSet
  <2>2. CASE i <= Len(s)
    BY <1>1, <1>2, <2>1, <2>2 DEF ToSet
  <2>3. CASE ~ (i <= Len(s))
    <3>1. i - Len(s) \in 1 .. Len(t)
      BY <1>2, <2>3
    <3> QED BY <1>1, <1>2, <2>1, <2>3, <3>1 DEF ToSet
  <2> QED BY <2>2, <2>3
<1>4. ASSUME NEW x \in ToSet(s) PROVE x \in ToSet(s \o t)
  <2>1. PICK i \in 1 .. Len(s) : x = s[i]
    BY <1>2, <1>4 DEF ToSet
  <2>2. i \in 1 .. Len(s) + Len(t) /\ (s \o t)[i] = x
    BY <1>1, <1>2, <2>1
  <2> QED BY <1>2, <2>2 DEF ToSet
<1>5. ASSUME NEW x \in ToSet(t) PROVE x \in ToSet(s \o t)
  <2>1. PICK i \in 1 .. Len(t) : x = t[i]
    BY <1>2, <1>5 DEF ToSet
  <2>2. /\ i + Len(s) \in 1 .. Len(s) + Len(t) /\ ~ (i + Len(s) <= Len(s))
        /\ (i + Len(s)) - Len(s) = i
    BY <1>2, <2>1
  <2>3. (s \o t)[i + Len(s)] = x
    BY <1>1, <2>1, <2>2
  <2> QED BY <1>2, <2>2, <2>3 DEF ToSet
<1> QED BY <1>1, <1>3, <1>4, <1>5

LEMMA ConcatRising ==
    ASSUME NEW s \in Seq(Sent), NEW t \in Seq(Sent), Rising(s), Rising(t),
           Before(ToSet(s), ToSet(t))
    PROVE  Rising(s \o t)
<1>1. /\ s \o t \in Seq(Sent) /\ Len(s \o t) = Len(s) + Len(t)
      /\ \A i \in 1 .. Len(s) + Len(t) :
            (s \o t)[i] = IF i <= Len(s) THEN s[i] ELSE t[i - Len(s)]
  BY ConcatProperties
<1>2. /\ Len(s) \in Nat /\ Len(t) \in Nat
      /\ DOMAIN s = 1 .. Len(s) /\ DOMAIN t = 1 .. Len(t)
      /\ DOMAIN (s \o t) = 1 .. Len(s) + Len(t)
  BY <1>1, LenProperties
<1>3. ASSUME NEW i \in 1 .. Len(s) + Len(t), NEW j \in 1 .. Len(s) + Len(t), i < j
      PROVE  (s \o t)[i] < (s \o t)[j]
  <2>1. CASE j <= Len(s)
    <3>1. i \in DOMAIN s /\ j \in DOMAIN s /\ i <= Len(s)
      BY <1>2, <1>3, <2>1
    <3> QED BY <1>1, <1>3, <2>1, <3>1 DEF Rising
  <2>2. CASE i <= Len(s) /\ ~ (j <= Len(s))
    <3>1. i \in DOMAIN s /\ j - Len(s) \in DOMAIN t
      BY <1>2, <1>3, <2>2
    <3>2. s[i] \in ToSet(s) /\ t[j - Len(s)] \in ToSet(t)
      BY <3>1 DEF ToSet
    <3> QED BY <1>1, <1>3, <2>2, <3>2 DEF Before
  <2>3. CASE ~ (i <= Len(s)) /\ ~ (j <= Len(s))
    <3>1. /\ i - Len(s) \in DOMAIN t /\ j - Len(s) \in DOMAIN t
          /\ i - Len(s) < j - Len(s)
      BY <1>2, <1>3, <2>3
    <3> QED BY <1>1, <1>3, <2>3, <3>1 DEF Rising
  <2>4. i <= Len(s) \/ ~ (j <= Len(s))
    BY <1>2, <1>3
  <2> QED BY <2>1, <2>2, <2>3, <2>4
<1> QED BY <1>2, <1>3 DEF Rising

LEMMA HeadTailFacts ==
    ASSUME NEW s \in Seq(Sent), s # <<>>
    PROVE  /\ Head(s) \in Sent /\ Tail(s) \in Seq(Sent) /\ Len(Tail(s)) = Len(s) - 1
           /\ ToSet(s) = {Head(s)} \cup ToSet(Tail(s))
           /\ Rising(s) => Rising(Tail(s)) /\ Before({Head(s)}, ToSet(Tail(s)))
<1>1. /\ Head(s) \in Sent /\ Tail(s) \in Seq(Sent) /\ Len(Tail(s)) = Len(s) - 1
      /\ \A i \in 1 .. Len(Tail(s)) : Tail(s)[i] = s[i + 1]
      /\ Head(s) = s[1]
  BY HeadTailProperties
<1>2. /\ Len(s) \in Nat \ {0} /\ DOMAIN s = 1 .. Len(s)
      /\ DOMAIN Tail(s) = 1 .. Len(s) - 1
  BY <1>1, LenProperties, EmptySeq
<1>3. ToSet(s) = {Head(s)} \cup ToSet(Tail(s))
  <2>1. ASSUME NEW x \in ToSet(s) PROVE x \in {Head(s)} \cup ToSet(Tail(s))
    <3>1. PICK i \in 1 .. Len(s) : x = s[i]
      BY <1>2, <2>1 DEF ToSet
    <3>2. CASE i = 1
      BY <1>1, <3>1, <3>2
    <3>3. CASE i # 1
      <4>1. i - 1 \in 1 .. Len(s) - 1 /\ (i - 1) + 1 = i
        BY <1>2, <3>3
      <4>2. Tail(s)[i - 1] = x
        BY <1>1, <3>1, <4>1
      <4> QED BY <1>2, <4>1, <4>2 DEF ToSet
    <3> QED BY <3>2, <3>3
  <2>2. Head(s) \in ToSet(s)
    <3>1. 1 \in DOMAIN s
      BY <1>2
    <3> QED BY <1>1, <3>1 DEF ToSet
  <2>3. ASSUME NEW x \in ToSet(Tail(s)) PROVE x \in ToSet(s)
    <3>1. PICK i \in 1 .. Len(s) - 1 : x = Tail(s)[i]
      BY <1>2, <2>3 DEF ToSet
    <3>2. i + 1 \in DOMAIN s /\ s[i + 1] = x
      BY <1>1, <1>2, <3>1
    <3> QED BY <3>2 DEF ToSet
  <2> QED BY <2>1, <2>2, <2>3
<1>4. ASSUME Rising(s) PROVE Rising(Tail(s)) /\ Before({Head(s)}, ToSet(Tail(s)))
  <2>1. ASSUME NEW i \in 1 .. Len(s) - 1, NEW j \in 1 .. Len(s) - 1, i < j
        PROVE  Tail(s)[i] < Tail(s)[j]
    <3>1. i + 1 \in DOMAIN s /\ j + 1 \in DOMAIN s /\ i + 1 < j + 1
      BY <1>2, <2>1
    <3>2. s[i + 1] < s[j + 1]
      BY <1>4, <3>1 DEF Rising
    <3> QED BY <1>1, <3>2
  <2>2. ASSUME NEW x \in ToSet(Tail(s)) PROVE Head(s) < x
    <3>1. PICK i \in 1 .. Len(s) - 1 : x = Tail(s)[i]
      BY <1>2, <2>2 DEF ToSet
    <3>2. 1 \in DOMAIN s /\ i + 1 \in DOMAIN s /\ 1 < i + 1 /\ s[i + 1] = x
      BY <1>1, <1>2, <3>1
    <3> QED BY <1>1, <1>4, <3>2 DEF Rising
  <2> QED BY <1>2, <2>1, <2>2 DEF Rising, Before
<1> QED BY <1>1, <1>3, <1>4

LEMMA OneFacts ==
    ASSUME NEW m \in 0 .. MaxSent
    PROVE  /\ One(m) \in Seq(Sent)
           /\ ToSet(One(m)) = {m} \ {0}
           /\ Rising(One(m))
<1>1. CASE m = 0
  <2>1. One(m) = <<>>
    BY <1>1 DEF One
  <2>2. DOMAIN <<>> = {}
    OBVIOUS
  <2> QED BY <1>1, <2>1, <2>2, EmptySeq DEF ToSet, Rising
<1>2. CASE m # 0
  <2>1. One(m) = <<m>> /\ m \in Sent
    BY <1>2, BrokerAssumption DEF One, Sent
  <2>2. <<m>> \in Seq(Sent) /\ DOMAIN <<m>> = {1} /\ <<m>>[1] = m
    BY <2>1
  <2>3. ToSet(<<m>>) = {m}
    BY <2>2 DEF ToSet
  <2>4. Rising(<<m>>)
    BY <2>2 DEF Rising
  <2> QED BY <1>2, <2>1, <2>2, <2>3, <2>4
<1> QED BY <1>1, <1>2

LEMMA AppendFacts ==
    ASSUME NEW s \in Seq(Sent), NEW m \in Sent
    PROVE  /\ Append(s, m) \in Seq(Sent) /\ Len(Append(s, m)) = Len(s) + 1
           /\ ToSet(Append(s, m)) = ToSet(s) \cup {m}
           /\ Rising(s) /\ Before(ToSet(s), {m}) => Rising(Append(s, m))
<1>1. m \in 0 .. MaxSent /\ m # 0
  BY BrokerAssumption DEF Sent
<1>2. /\ One(m) = <<m>>
      /\ One(m) \in Seq(Sent) /\ ToSet(One(m)) = {m} /\ Rising(One(m))
  BY <1>1, OneFacts DEF One
<1>3. Append(s, m) = s \o <<m>>
  BY AppendIsConcat
<1>4. Len(Append(s, m)) = Len(s) + 1 /\ Append(s, m) \in Seq(Sent)
  BY AppendProperties
<1>5. ToSet(s \o One(m)) = ToSet(s) \cup {m}
  BY <1>2, ConcatSet
<1>6. ASSUME Rising(s), Before(ToSet(s), {m}) PROVE Rising(s \o One(m))
  <2>1. Before(ToSet(s), ToSet(One(m)))
    BY <1>2, <1>6
  <2> QED BY <1>2, <1>6, <2>1, ConcatRising
<1> QED BY <1>2, <1>3, <1>4, <1>5, <1>6

-----------------------------------------------------------------------------
(* The steps.                                                              *)

\* The places of messages, and the sets they hold.
LEMMA Stay ==
    ASSUME IInv, UNCHANGED <<sent, pending, callback, channel, ctxDone, current, handled, lost>>
    PROVE  InOrder' /\ Accounted'
BY DEF IInv, InOrder, Accounted, Past, InHandler, Buffered, Called, Held

LEMMA ArriveStep == ASSUME IInv, Arrive PROVE IInv'
<1>1. /\ sent \in Nat /\ sent' = sent + 1 /\ sent + 1 \in Sent /\ sent' \in 0 .. MaxSent
      /\ 1 .. sent' = (1 .. sent) \cup {sent + 1}
      /\ \A x \in 1 .. sent : x < sent + 1
      /\ UNCHANGED <<subscription, callback, channel, closes, ctxDone, consumer, current,
                     handled, shutdown, process>>
  BY BrokerAssumption DEF Arrive, IInv, TypeOK, Sent
<1>2. CASE pending' = Append(pending, sent + 1) /\ UNCHANGED lost /\ Len(pending) < PendingLimit
  <2>1. /\ pending' \in Seq(Sent) /\ Len(pending') = Len(pending) + 1
        /\ Held' = Held \cup {sent + 1}
        /\ Rising(pending) /\ Before(Held, {sent + 1}) => Rising(pending')
    BY <1>1, <1>2, AppendFacts DEF IInv, TypeOK, Held
  <2>2. Len(pending') <= PendingLimit
    <3>1. Len(pending) \in Nat
      BY LenProperties DEF IInv, TypeOK
    <3> QED BY <1>2, <2>1, <3>1, BrokerAssumption
  <2>3. \A x \in Past \cup InHandler \cup Buffered \cup Called \cup Held : x < sent + 1
    BY <1>1 DEF IInv, Accounted
  <2>4. UNCHANGED <<Past, InHandler, Buffered, Called>>
    BY <1>1 DEF Past, InHandler, Buffered, Called
  <2>5. InOrder'
    BY <1>1, <2>1, <2>3, <2>4 DEF IInv, InOrder, Before
  <2>6. Accounted'
    BY <1>1, <1>2, <2>1, <2>4 DEF IInv, Accounted
  <2> QED BY <1>1, <1>2, <2>1, <2>2, <2>5, <2>6 DEF IInv, TypeOK, ClosesFit
<1>3. CASE lost' = lost \cup {sent + 1} /\ UNCHANGED pending
  <2>1. UNCHANGED <<Past, InHandler, Buffered, Called, Held>>
    BY <1>1, <1>3 DEF Past, InHandler, Buffered, Called, Held
  <2>2. InOrder' /\ Accounted'
    BY <1>1, <1>3, <2>1 DEF IInv, InOrder, Accounted
  <2> QED BY <1>1, <1>3, <2>2 DEF IInv, TypeOK, ClosesFit
<1> QED BY <1>2, <1>3 DEF Arrive

\* A message goes to the callback, or is refused; callback was empty.
LEMMA DeliverStep == ASSUME IInv, Deliver PROVE IInv'
<1>1. /\ callback = 0 /\ pending \in Seq(Sent) /\ pending # <<>> /\ pending' = Tail(pending)
      /\ UNCHANGED <<sent, subscription, channel, closes, ctxDone, consumer, current, handled,
                     shutdown, process>>
  BY DEF Deliver, IInv, TypeOK
<1>2. PICK m \in Sent : m = Head(pending)
  BY <1>1, HeadTailFacts
<1>3. /\ pending' \in Seq(Sent) /\ Len(pending') = Len(pending) - 1
      /\ Held = {m} \cup Held'
      /\ Rising(pending') /\ Before({m}, Held')
  BY <1>1, <1>2, HeadTailFacts DEF Held, IInv, InOrder
<1>4. Len(pending') <= PendingLimit
  <2>1. Len(pending) \in Nat /\ Len(pending) <= PendingLimit
    BY LenProperties DEF IInv, TypeOK
  <2> QED BY <1>3, <2>1, BrokerAssumption
<1>5. Called = {} /\ UNCHANGED <<Past, InHandler, Buffered>>
  BY <1>1 DEF Past, InHandler, Buffered, Called
<1>6. m # 0 /\ m \in 0 .. MaxSent
  BY BrokerAssumption DEF Sent
<1>7. CASE callback' = m /\ UNCHANGED lost
  <2>1. Called' = {m}
    BY <1>6, <1>7 DEF Called
  <2>2. InOrder'
    BY <1>1, <1>3, <1>5, <2>1 DEF IInv, InOrder, Before
  <2>3. Accounted'
    BY <1>1, <1>3, <1>5, <1>7, <2>1 DEF IInv, Accounted
  <2> QED BY <1>1, <1>3, <1>4, <1>6, <1>7, <2>2, <2>3 DEF IInv, TypeOK, ClosesFit
<1>8. CASE lost' = lost \cup {m} /\ UNCHANGED callback
  <2>1. Called' = {}
    BY <1>1, <1>8 DEF Called
  <2>2. InOrder'
    BY <1>1, <1>3, <1>5, <2>1 DEF IInv, InOrder, Before
  <2>3. Accounted'
    BY <1>1, <1>3, <1>5, <1>8, <2>1 DEF IInv, Accounted
  <2> QED BY <1>1, <1>3, <1>4, <1>8, <2>2, <2>3 DEF IInv, TypeOK, ClosesFit
<1> QED BY <1>2, <1>7, <1>8 DEF Deliver

LEMMA SendToChannelStep == ASSUME IInv, SendToChannel PROVE IInv'
<1>1. /\ callback \in Sent /\ callback # 0 /\ callback' = 0
      /\ channel \in Seq(Sent) /\ Len(channel) < BufferSize
      /\ channel' = Append(channel, callback)
      /\ UNCHANGED <<sent, subscription, pending, closes, ctxDone, consumer, current, handled,
                     lost, shutdown, process>>
  BY BrokerAssumption DEF SendToChannel, IInv, TypeOK, Sent
<1>2. Called = {callback} /\ Called' = {} /\ UNCHANGED <<Past, InHandler, Held>>
  BY <1>1 DEF Past, InHandler, Held, Called
<1>3. /\ channel' \in Seq(Sent) /\ Len(channel') = Len(channel) + 1
      /\ Buffered' = Buffered \cup {callback}
      /\ Rising(channel) /\ Before(Buffered, {callback}) => Rising(channel')
  BY <1>1, AppendFacts DEF Buffered
<1>4. Len(channel') <= BufferSize
  <2>1. Len(channel) \in Nat
    BY <1>1, LenProperties
  <2> QED BY <1>1, <1>3, <2>1, BrokerAssumption
<1>5. InOrder'
  BY <1>1, <1>2, <1>3 DEF IInv, InOrder, Before
<1>6. Accounted'
  BY <1>1, <1>2, <1>3 DEF IInv, Accounted
<1>7. callback' \in 0 .. MaxSent
  BY <1>1, BrokerAssumption
<1> QED BY <1>1, <1>3, <1>4, <1>5, <1>6, <1>7 DEF IInv, TypeOK, ClosesFit

LEMMA GiveUpStep == ASSUME IInv, GiveUp PROVE IInv'
<1>1. /\ callback \in Sent /\ callback' = 0 /\ lost' = lost \cup {callback}
      /\ callback # 0 /\ callback' \in 0 .. MaxSent
      /\ UNCHANGED <<sent, subscription, pending, channel, closes, ctxDone, consumer, current,
                     handled, shutdown, process>>
  BY BrokerAssumption DEF GiveUp, IInv, TypeOK, Sent
<1>2. /\ Called = {callback} /\ Called' = {}
      /\ UNCHANGED <<Past, InHandler, Buffered, Held>>
  BY <1>1 DEF Past, InHandler, Buffered, Held, Called
<1>3. InOrder'
  BY <1>1, <1>2 DEF IInv, InOrder, Before
<1>4. Accounted'
  BY <1>1, <1>2 DEF IInv, Accounted
<1> QED BY <1>1, <1>3, <1>4 DEF IInv, TypeOK, ClosesFit

LEMMA ReceiveStep == ASSUME IInv, Receive PROVE IInv'
<1>1. /\ consumer = "range" /\ consumer' = "handle" /\ channel \in Seq(Sent)
      /\ channel # <<>> /\ channel' = Tail(channel) /\ current = 0
      /\ UNCHANGED <<sent, subscription, pending, callback, closes, ctxDone, handled, lost,
                     shutdown, process>>
  BY DEF Receive, IInv, TypeOK
<1>2. PICK m \in Sent : m = Head(channel)
  BY <1>1, HeadTailFacts
<1>3. /\ channel' \in Seq(Sent) /\ Len(channel') = Len(channel) - 1
      /\ Buffered = {m} \cup Buffered'
      /\ Rising(channel') /\ Before({m}, Buffered')
  BY <1>1, <1>2, HeadTailFacts DEF Buffered, IInv, InOrder
<1>4. Len(channel') <= BufferSize
  <2>1. Len(channel) \in Nat /\ Len(channel) <= BufferSize
    BY LenProperties DEF IInv, TypeOK
  <2> QED BY <1>3, <2>1, BrokerAssumption
<1>5. current' = m /\ m # 0 /\ m \in 0 .. MaxSent
  BY <1>2, BrokerAssumption DEF Receive, Sent
<1>6. InHandler = {} /\ InHandler' = {m} /\ UNCHANGED <<Past, Called, Held>>
  BY <1>1, <1>5 DEF Past, InHandler, Called, Held
<1>7. InOrder'
  BY <1>1, <1>3, <1>6 DEF IInv, InOrder, Before
<1>8. Accounted'
  BY <1>1, <1>3, <1>6 DEF IInv, Accounted
<1> QED BY <1>1, <1>3, <1>4, <1>5, <1>7, <1>8 DEF IInv, TypeOK, ClosesFit, Count

LEMMA HandlerReturnsStep == ASSUME IInv, HandlerReturns PROVE IInv'
<1>1. /\ consumer = "handle" /\ consumer' = "range" /\ current \in Sent /\ current # 0
      /\ current' = 0 /\ current' \in 0 .. MaxSent
      /\ handled \in Seq(Sent) /\ handled' = Append(handled, current)
      /\ UNCHANGED <<sent, subscription, pending, callback, channel, closes, ctxDone, lost,
                     shutdown, process>>
  BY BrokerAssumption DEF HandlerReturns, IInv, TypeOK, Sent
<1>2. InHandler = {current} /\ InHandler' = {} /\ UNCHANGED <<Buffered, Called, Held>>
  BY <1>1 DEF InHandler, Buffered, Called, Held
<1>3. /\ handled' \in Seq(Sent) /\ Past' = Past \cup {current}
      /\ Rising(handled) /\ Before(Past, {current}) => Rising(handled')
  BY <1>1, AppendFacts DEF Past
<1>4. InOrder'
  BY <1>1, <1>2, <1>3 DEF IInv, InOrder, Before
<1>5. Accounted'
  BY <1>1, <1>2, <1>3 DEF IInv, Accounted
<1> QED BY <1>1, <1>3, <1>4, <1>5 DEF IInv, TypeOK, ClosesFit, Count

\* Steps that move no message: the end of the subscription and of the range,
\* cancelSub, and the shutdown.
LEMMA ControlStep ==
    ASSUME IInv,
           Drained \/ SendOnClosed \/ RangeEnds \/ ConsumerCancels \/ Signal \/ Cancel \/ Stop
              \/ Disconnect \/ Exit
    PROVE  IInv'
<1> USE DEF Drained, SendOnClosed, RangeEnds, ConsumerCancels, Signal, Cancel, Stop, Disconnect,
            Exit, CloseChannel, Drain, Running, Closed
<1>1. UNCHANGED <<sent, pending, callback, channel, current, handled, lost>>
  OBVIOUS
<1>2. ctxDone => ctxDone'
  OBVIOUS
<1>3. InOrder' /\ Accounted'
  BY <1>1, <1>2 DEF IInv, InOrder, Accounted, Past, InHandler, Buffered, Called, Held, TypeOK
<1>4. ClosesFit'
  BY DEF IInv, TypeOK, ClosesFit, Count
<1>5. consumer' # "handle" <=> consumer # "handle"
  OBVIOUS
<1>6. /\ subscription' \in {"active", "draining", "closed"}
      /\ consumer' \in {"range", "handle", "drain", "close", "done"}
      /\ shutdown' \in {"wait", "cancel", "drain", "close", "disconnect", "exit", "done"}
      /\ process' \in {"running", "panicked", "exited"}
      /\ ctxDone' \in BOOLEAN
  BY DEF IInv, TypeOK
<1>7. closes' \in 0 .. 2
  BY <1>4 DEF ClosesFit, Count
<1> QED BY <1>1, <1>3, <1>4, <1>5, <1>6, <1>7 DEF IInv, TypeOK

LEMMA InitIInv == Init => IInv
<1> SUFFICES ASSUME Init PROVE IInv
  OBVIOUS
<1>1. /\ <<>> \in Seq(Sent) /\ Len(<<>>) = 0 /\ ToSet(<<>>) = {} /\ Rising(<<>>)
      /\ 0 \in 0 .. MaxSent /\ 0 <= BufferSize /\ 0 <= PendingLimit /\ 1 .. 0 = {}
  <2>1. <<>> \in Seq(Sent) /\ Len(<<>>) = 0 /\ DOMAIN <<>> = {}
    BY EmptySeq
  <2> QED BY <2>1, BrokerAssumption DEF ToSet, Rising
<1>2. TypeOK
  <2>1. /\ pending \in Seq(Sent) /\ Len(pending) <= PendingLimit
        /\ channel \in Seq(Sent) /\ Len(channel) <= BufferSize
        /\ handled \in Seq(Sent)
    BY <1>1, Zenon DEF Init
  <2>2. sent \in 0 .. MaxSent /\ callback \in 0 .. MaxSent /\ current \in 0 .. MaxSent
    BY <1>1 DEF Init
  <2>3. closes \in 0 .. 2 /\ lost \subseteq Sent /\ ctxDone \in BOOLEAN
    <3>1. 0 \in 0 .. 2 /\ {} \subseteq Sent /\ FALSE \in BOOLEAN
      OBVIOUS
    <3> QED BY <3>1, Zenon DEF Init
  <2>4. /\ subscription = "active" /\ consumer = "range" /\ shutdown = "wait"
        /\ process = "running"
    BY Zenon DEF Init
  <2> QED BY <2>1, <2>2, <2>3, <2>4 DEF TypeOK
<1>3. Past = {} /\ InHandler = {} /\ Buffered = {} /\ Called = {} /\ Held = {}
  BY <1>1 DEF Init, Past, InHandler, Buffered, Called, Held
<1>4. InOrder
  BY <1>1, <1>3 DEF Init, InOrder, Before
<1>5. Accounted
  BY <1>1, <1>3 DEF Init, Accounted
<1>6. ClosesFit
  BY DEF Init, ClosesFit, Count
<1> QED BY <1>2, <1>4, <1>5, <1>6 DEF IInv, Init

LEMMA NextIInv == ASSUME IInv, [Next]_vars PROVE IInv'
<1>1. CASE UNCHANGED vars
  <2>1. InOrder' /\ Accounted'
    BY <1>1, Stay DEF vars
  <2> QED BY <1>1, <2>1 DEF vars, IInv, TypeOK, ClosesFit
<1>2. CASE Next
  BY <1>2, ArriveStep, DeliverStep, SendToChannelStep, GiveUpStep, ReceiveStep,
     HandlerReturnsStep, ControlStep DEF Next, Callback, Consumer, Shutdown
<1> QED BY <1>1, <1>2

LEMMA InvariantHolds == Spec => []IInv
<1>1. IInv /\ [Next]_vars => IInv'
  BY NextIInv
<1> QED BY InitIInv, <1>1, PTL DEF Spec

-----------------------------------------------------------------------------
\* Flow, taken apart into its five places.
LEMMA FlowFacts ==
    ASSUME IInv
    PROVE  /\ Rising(Flow)
           /\ ToSet(Flow) = Past \cup InHandler \cup Buffered \cup Called \cup Held
<1>1. /\ handled \in Seq(Sent) /\ channel \in Seq(Sent) /\ pending \in Seq(Sent)
      /\ current \in 0 .. MaxSent /\ callback \in 0 .. MaxSent
  BY DEF IInv, TypeOK
<1>2. /\ One(current) \in Seq(Sent) /\ ToSet(One(current)) = InHandler /\ Rising(One(current))
      /\ One(callback) \in Seq(Sent) /\ ToSet(One(callback)) = Called /\ Rising(One(callback))
  BY <1>1, OneFacts DEF InHandler, Called
<1>3. PICK s1 \in Seq(Sent) : /\ s1 = handled \o One(current)
                              /\ ToSet(s1) = Past \cup InHandler /\ Rising(s1)
  <2>1. Before(ToSet(handled), ToSet(One(current))) /\ Rising(handled)
    BY <1>2 DEF IInv, InOrder, Before, Past
  <2> QED BY <1>1, <1>2, <2>1, ConcatSet, ConcatRising DEF Past
<1>4. PICK s2 \in Seq(Sent) : /\ s2 = s1 \o channel
                              /\ ToSet(s2) = Past \cup InHandler \cup Buffered /\ Rising(s2)
  <2>1. Before(ToSet(s1), ToSet(channel)) /\ Rising(channel)
    BY <1>3 DEF IInv, InOrder, Before, Buffered
  <2> QED BY <1>1, <1>3, <2>1, ConcatSet, ConcatRising DEF Buffered
<1>5. PICK s3 \in Seq(Sent) :
          /\ s3 = s2 \o One(callback)
          /\ ToSet(s3) = Past \cup InHandler \cup Buffered \cup Called /\ Rising(s3)
  <2>1. Before(ToSet(s2), ToSet(One(callback)))
    BY <1>2, <1>4 DEF IInv, InOrder, Before
  <2> QED BY <1>2, <1>4, <2>1, ConcatSet, ConcatRising
<1>6. PICK s4 \in Seq(Sent) :
          /\ s4 = s3 \o pending
          /\ ToSet(s4) = Past \cup InHandler \cup Buffered \cup Called \cup Held /\ Rising(s4)
  <2>1. Before(ToSet(s3), ToSet(pending)) /\ Rising(pending)
    BY <1>5 DEF IInv, InOrder, Before, Held
  <2> QED BY <1>1, <1>5, <2>1, ConcatSet, ConcatRising DEF Held
<1>7. Flow = s4
  BY <1>3, <1>4, <1>5, <1>6 DEF Flow
<1> QED BY <1>6, <1>7

\* Commands are handled in the order they were published and at most once, none
\* is lost uncounted while the process is up, and every panic of the listener
\* falls into the shutdown (Subscribe, Listener, Shutdown.Wait).
THEOREM ListenersStayConsistent == Spec => []ListenerConsistent
<1>1. ASSUME IInv PROVE ListenerConsistent
  <2>1. HandledInOrder
    BY <1>1, FlowFacts DEF HandledInOrder, Rising
  <2>2. NothingVanishesWhileUp
    <3>1. ~ctxDone => (Past \cup InHandler \cup Buffered \cup Called \cup Held) \cup lost = 1 .. sent
      BY <1>1 DEF IInv, Accounted
    <3> QED BY <1>1, <3>1, FlowFacts DEF NothingVanishesWhileUp
  <2> QED BY <1>1, <2>1, <2>2 DEF IInv, ClosesFit, ListenerConsistent, PanicsOnlyInShutdown
<1> QED BY InvariantHolds, <1>1, PTL
=============================================================================
