--------------------------- MODULE BrokerListener ---------------------------
(***************************************************************************)
(* One NATS listener of the dashboard: Subscribe in pkg/broker/nats.go,    *)
(* Listener in pkg/broker/consumer.go, and the shutdown of cmd/dash that   *)
(* stops it (internal/event/broker.go, pkg/shutdown).                      *)
(*                                                                         *)
(* Three goroutines share the Go channel ch: the callback of the NATS      *)
(* subscription sends to it, the listener's goroutine ranges over it, and  *)
(* the shutdown goroutine closes it.  Messages are numbered in the order   *)
(* the server sends them.                                                  *)
(***************************************************************************)
EXTENDS Naturals, SequencesExt

CONSTANTS
    BufferSize,     \* capacity of ch, 100 in Listener.Start
    PendingLimit,   \* messages NATS keeps for a slow subscription
    MaxSent         \* bound: messages published on the subject

ASSUME BrokerAssumption ==
    /\ BufferSize \in Nat
    /\ PendingLimit \in Nat \ {0}
    /\ MaxSent \in Nat

VARIABLES
    sent,          \* messages published so far
    subscription,  \* "active", "draining", "closed"
    pending,       \* messages NATS holds for the subscription
    callback,      \* message in the callback's select, 0 if it is idle
    channel,       \* buffered elements of ch
    closes,        \* calls of close(ch)
    ctxDone,       \* the context given to NewListener is cancelled
    consumer,      \* the listener's goroutine
    current,       \* message in the handler, 0 if none
    handled,       \* messages whose handler returned
    lost,          \* messages dropped: malformed, or subscription too slow
    shutdown,      \* the shutdown goroutine
    process        \* "running", "panicked", "exited"

vars == <<sent, subscription, pending, callback, channel, closes, ctxDone,
          consumer, current, handled, lost, shutdown, process>>

Sent == 1 .. MaxSent

TypeOK ==
    /\ sent \in 0 .. MaxSent
    /\ subscription \in {"active", "draining", "closed"}
    /\ pending \in Seq(Sent) /\ Len(pending) <= PendingLimit
    /\ callback \in 0 .. MaxSent
    /\ channel \in Seq(Sent) /\ Len(channel) <= BufferSize
    /\ closes \in 0 .. 2
    /\ ctxDone \in BOOLEAN
    /\ consumer \in {"range", "handle", "drain", "close", "done"}
    /\ current \in 0 .. MaxSent
    /\ handled \in Seq(Sent)
    /\ lost \subseteq Sent
    /\ shutdown \in {"wait", "cancel", "drain", "close", "disconnect", "exit", "done"}
    /\ process \in {"running", "panicked", "exited"}

Running == process = "running"
Closed == closes > 0

-----------------------------------------------------------------------------
(* The NATS client.                                                        *)

\* Mutant: the pending messages have no limit.
Arrive_NoLimit ==
    /\ Running
    /\ sent < MaxSent
    /\ subscription # "closed"
    /\ sent' = sent + 1
    /\ pending' = Append(pending, sent + 1)
    /\ UNCHANGED <<subscription, callback, channel, closes, ctxDone, consumer,
                   current, handled, lost, shutdown, process>>

\* The server sends until it has seen the end of the subscription; NATS drops
\* what exceeds the pending limit of the subscription.
Arrive ==
    /\ Running
    /\ sent < MaxSent
    /\ subscription # "closed"
    /\ sent' = sent + 1
    /\ IF Len(pending) < PendingLimit
       THEN pending' = Append(pending, sent + 1) /\ UNCHANGED lost
       ELSE lost' = lost \cup {sent + 1} /\ UNCHANGED pending
    /\ UNCHANGED <<subscription, callback, channel, closes, ctxDone, consumer,
                   current, handled, shutdown, process>>

\* The callback gets the next message; json.Unmarshal may refuse it.
Deliver ==
    /\ Running
    /\ subscription # "closed"
    /\ callback = 0
    /\ pending # <<>>
    /\ pending' = Tail(pending)
    /\ \/ callback' = Head(pending) /\ UNCHANGED lost
       \/ lost' = lost \cup {Head(pending)} /\ UNCHANGED callback
    /\ UNCHANGED <<sent, subscription, channel, closes, ctxDone, consumer,
                   current, handled, shutdown, process>>

\* A draining subscription goes when everything pending was delivered.
Drained ==
    /\ Running
    /\ subscription = "draining"
    /\ pending = <<>>
    /\ callback = 0
    /\ subscription' = "closed"
    /\ UNCHANGED <<sent, pending, callback, channel, closes, ctxDone, consumer,
                   current, handled, lost, shutdown, process>>

-----------------------------------------------------------------------------
(* The callback's select: send to ch, or give up when the context is done. *)

\* Mutant: the message is not awaited but dropped when ch is full.
SendToChannel_Drops ==
    /\ Running
    /\ callback # 0
    /\ ~Closed
    /\ callback' = 0
    /\ channel' = IF Len(channel) < BufferSize THEN Append(channel, callback) ELSE channel
    /\ UNCHANGED <<sent, subscription, pending, closes, ctxDone, consumer,
                   current, handled, lost, shutdown, process>>

SendToChannel ==
    /\ Running
    /\ callback # 0
    /\ ~Closed
    /\ Len(channel) < BufferSize
    /\ channel' = Append(channel, callback)
    /\ callback' = 0
    /\ UNCHANGED <<sent, subscription, pending, closes, ctxDone, consumer,
                   current, handled, lost, shutdown, process>>

\* A send on the closed channel panics; select may look at it first.
SendOnClosed ==
    /\ Running
    /\ callback # 0
    /\ Closed
    /\ process' = "panicked"
    /\ UNCHANGED <<sent, subscription, pending, callback, channel, closes,
                   ctxDone, consumer, current, handled, lost, shutdown>>

GiveUp ==
    /\ Running
    /\ callback # 0
    /\ ctxDone
    /\ callback' = 0
    /\ lost' = lost \cup {callback}
    /\ UNCHANGED <<sent, subscription, pending, channel, closes, ctxDone,
                   consumer, current, handled, shutdown, process>>

-----------------------------------------------------------------------------
(* The listener's goroutine: range over ch, then the deferred cancelSub.   *)

\* Mutant: the youngest element is taken.
Receive_Youngest ==
    /\ Running
    /\ consumer = "range"
    /\ channel # <<>>
    /\ current' = Last(channel)
    /\ channel' = Front(channel)
    /\ consumer' = "handle"
    /\ UNCHANGED <<sent, subscription, pending, callback, closes, ctxDone,
                   handled, lost, shutdown, process>>

Receive ==
    /\ Running
    /\ consumer = "range"
    /\ channel # <<>>
    /\ current' = Head(channel)
    /\ channel' = Tail(channel)
    /\ consumer' = "handle"
    /\ UNCHANGED <<sent, subscription, pending, callback, closes, ctxDone,
                   handled, lost, shutdown, process>>

\* Mutant: the goroutine ends with the first message.
HandlerReturns_Ends ==
    /\ Running
    /\ consumer = "handle"
    /\ handled' = Append(handled, current)
    /\ current' = 0
    /\ consumer' = "done"
    /\ UNCHANGED <<sent, subscription, pending, callback, channel, closes,
                   ctxDone, lost, shutdown, process>>

HandlerReturns ==
    /\ Running
    /\ consumer = "handle"
    /\ handled' = Append(handled, current)
    /\ current' = 0
    /\ consumer' = "range"
    /\ UNCHANGED <<sent, subscription, pending, callback, channel, closes,
                   ctxDone, lost, shutdown, process>>

\* The closed channel is empty: the loop ends.
RangeEnds ==
    /\ Running
    /\ consumer = "range"
    /\ channel = <<>>
    /\ Closed
    /\ consumer' = "drain"
    /\ UNCHANGED <<sent, subscription, pending, callback, channel, closes,
                   ctxDone, current, handled, lost, shutdown, process>>

\* The two steps of cancelSub.  Drain only starts the draining; closing a
\* closed channel panics.
Drain == subscription' = IF subscription = "active" THEN "draining" ELSE subscription

CloseChannel ==
    /\ closes' = closes + 1
    /\ process' = IF Closed THEN "panicked" ELSE process

ConsumerCancels ==
    /\ Running
    /\ \/ /\ consumer = "drain"
          /\ Drain
          /\ consumer' = "close"
          /\ UNCHANGED <<closes, process>>
       \/ /\ consumer = "close"
          /\ CloseChannel
          /\ consumer' = "done"
          /\ UNCHANGED subscription
    /\ UNCHANGED <<sent, pending, callback, channel, ctxDone, current, handled,
                   lost, shutdown>>

-----------------------------------------------------------------------------
(* Shutdown.Wait: a signal, then the registered functions one after the    *)
(* other: cancel, Listener.Stop (drain, close), NatsBroker.Close, os.Exit. *)

Signal ==
    /\ Running
    /\ shutdown = "wait"
    /\ shutdown' = "cancel"
    /\ UNCHANGED <<sent, subscription, pending, callback, channel, closes,
                   ctxDone, consumer, current, handled, lost, process>>

\* Mutant: the listener is stopped before the context is cancelled.
Cancel_Later ==
    /\ Running
    /\ shutdown = "cancel"
    /\ shutdown' = "drain"
    /\ UNCHANGED <<sent, subscription, pending, callback, channel, closes,
                   consumer, current, handled, lost, ctxDone, process>>

Cancel ==
    /\ Running
    /\ shutdown = "cancel"
    /\ ctxDone' = TRUE
    /\ shutdown' = "drain"
    /\ UNCHANGED <<sent, subscription, pending, callback, channel, closes,
                   consumer, current, handled, lost, process>>

\* Mutant: Stop waits for the listener's goroutine before it closes ch.
Stop_WaitsForConsumer ==
    /\ Running
    /\ \/ /\ shutdown = "drain"
          /\ Drain
          /\ shutdown' = "close"
          /\ UNCHANGED <<closes, process>>
       \/ /\ shutdown = "close"
          /\ consumer = "done"
          /\ CloseChannel
          /\ shutdown' = "disconnect"
          /\ UNCHANGED subscription
    /\ UNCHANGED <<sent, pending, callback, channel, ctxDone, consumer,
                   current, handled, lost>>

Stop ==
    /\ Running
    /\ \/ /\ shutdown = "drain"
          /\ Drain
          /\ shutdown' = "close"
          /\ UNCHANGED <<closes, process>>
       \/ /\ shutdown = "close"
          /\ CloseChannel
          /\ shutdown' = "disconnect"
          /\ UNCHANGED subscription
    /\ UNCHANGED <<sent, pending, callback, channel, ctxDone, consumer,
                   current, handled, lost>>

\* b.Close: the connection goes with its subscriptions and what they hold.
Disconnect ==
    /\ Running
    /\ shutdown = "disconnect"
    /\ subscription' = "closed"
    /\ shutdown' = "exit"
    /\ UNCHANGED <<sent, pending, callback, channel, closes, ctxDone, consumer,
                   current, handled, lost, process>>

Exit ==
    /\ Running
    /\ shutdown = "exit"
    /\ shutdown' = "done"
    /\ process' = "exited"
    /\ UNCHANGED <<sent, subscription, pending, callback, channel, closes,
                   ctxDone, consumer, current, handled, lost>>

-----------------------------------------------------------------------------
Init ==
    /\ sent = 0
    /\ subscription = "active"
    /\ pending = <<>>
    /\ callback = 0
    /\ channel = <<>>
    /\ closes = 0
    /\ ctxDone = FALSE
    /\ consumer = "range"
    /\ current = 0
    /\ handled = <<>>
    /\ lost = {}
    /\ shutdown = "wait"
    /\ process = "running"

Callback == SendToChannel \/ SendOnClosed \/ GiveUp
Consumer == Receive \/ HandlerReturns \/ RangeEnds \/ ConsumerCancels
Shutdown == Cancel \/ Stop \/ Disconnect \/ Exit

Next ==
    \/ Arrive
    \/ Deliver
    \/ Drained
    \/ Callback
    \/ Consumer
    \/ Signal
    \/ Shutdown

Spec == Init /\ [][Next]_vars

\* Go and the NATS client schedule every goroutine that can run; handlers
\* return.  Nothing makes messages or the signal come.
Fairness ==
    /\ WF_vars(Deliver)
    /\ WF_vars(Drained)
    /\ WF_vars(Callback)
    /\ WF_vars(Consumer)
    /\ WF_vars(Shutdown)

FairSpec == Spec /\ Fairness

-----------------------------------------------------------------------------
(* Properties.                                                             *)

One(m) == IF m = 0 THEN <<>> ELSE <<m>>

\* Everything that is on its way to the handler or has been there, oldest
\* first.
Flow == handled \o One(current) \o channel \o One(callback) \o pending

\* Commands are handled one at a time, in the order they were published and
\* at most once, whatever the two queues and the shutdown do.
HandledInOrder ==
    \A i, j \in DOMAIN Flow : i < j => Flow[i] < Flow[j]

\* Until the shutdown begins a full channel holds messages back but never
\* loses one: everything published is handled, on its way or counted as lost
\* (malformed, or beyond what NATS keeps).
NothingVanishesWhileUp ==
    ~ctxDone => ToSet(Flow) \cup lost = 1 .. sent

\* nats.go:73 closes the channel "один раз" (once).
ChannelClosedOnce == closes <= 1

\* While the context lives no goroutine of the listener panics: the channel
\* is closed only behind the cancelled context, so every panic falls into the
\* shutdown.
PanicsOnlyInShutdown == process = "panicked" => ctxDone

\* What a subscription promises at every moment: the order, no loss while the
\* process is up, and no panic before the shutdown.
ListenerConsistent ==
    TypeOK /\ HandledInOrder /\ NothingVanishesWhileUp /\ PanicsOnlyInShutdown

\* Every published message is handled or given up, unless the process ends.
EveryMessageSettled ==
    \A m \in Sent : sent >= m ~> m \in ToSet(handled) \cup lost \/ ctxDone

\* The shutdown ends the process, by os.Exit or by the panic.
ShutdownEnds == shutdown # "wait" ~> ~Running
=============================================================================
