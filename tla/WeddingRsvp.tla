---------------------------- MODULE WeddingRsvp ----------------------------
(***************************************************************************)
(* The answers of wedding guests: PostWeddingRSVP and the administrators'  *)
(* routes of internal/http/routes/wedding_routes.go, the RSVP bucket of    *)
(* internal/store/wedding.go, and the limiter of pkg/ratelimit/limiter.go  *)
(* in front of the guests' route.                                          *)
(*                                                                         *)
(* The table of the limiter and the goroutines that notify are lost with   *)
(* the process; the bucket stays.  The time between the reading of the     *)
(* clock and the mutex of the limiter is taken to be none.                 *)
(***************************************************************************)
EXTENDS Naturals, Sequences, FiniteSets

CONSTANTS
    Addresses,
    Limit,       \* rsvpRateLimit, 5
    Window,      \* rsvpRateWindow, a minute, in units of time
    MaxEntries,  \* defaultMaxEntries, 50000
    MaxTime,     \* bound: units of time
    MaxRsvps,    \* bound: answers stored
    MaxCrashes   \* bound: crashes

\* On the constants; Services assumes it of its instance.
RsvpAssumption ==
    /\ Limit \in Nat \ {0} /\ Window \in Nat \ {0} /\ MaxEntries \in Nat \ {0}
    /\ MaxTime \in Nat \ {0} /\ MaxRsvps \in Nat /\ MaxCrashes \in Nat

VARIABLES
    now,
    hits,      \* Limiter.hits: address -> bucket
    lastReap,
    sequence,  \* NextSequence of the bucket
    rsvps,     \* keys of WeddingRSVPBucket
    notices,   \* goroutines of scheduleWeddingRSVPNotification
    crashes,
    \* What happened, for the properties: the times of the hits this process
    \* allowed to each address, the answers deleted and those notified.
    allowed, deleted, notified

vars == <<now, hits, lastReap, sequence, rsvps, notices, crashes, allowed, deleted, notified>>

Bucket == [count: 1 .. Limit, resetAt: 1 .. MaxTime + Window]

TypeOK ==
    /\ now \in 1 .. MaxTime
    /\ DOMAIN hits \subseteq Addresses /\ hits \in [DOMAIN hits -> Bucket]
    /\ lastReap \in 0 .. MaxTime
    /\ sequence \in 0 .. MaxRsvps
    /\ rsvps \subseteq 1 .. sequence /\ notices \subseteq 1 .. sequence
    /\ crashes \in 0 .. MaxCrashes
    /\ allowed \in [Addresses -> Seq(1 .. MaxTime)]
    /\ deleted \subseteq 1 .. sequence /\ notified \subseteq 1 .. sequence

-----------------------------------------------------------------------------
(* Allow                                                                   *)

\* reapLocked: every second window the buckets that are over are removed.
\* The zero time lastReap starts from is further away than that.
Due == lastReap = 0 \/ now - lastReap >= 2 * Window

Live(a) == now < hits[a].resetAt

Reaped ==
    IF Due THEN [a \in {b \in DOMAIN hits: Live(b)} |-> hits[a]] ELSE hits

Within(table, a) == a \in DOMAIN table /\ now < table[a].resetAt

Full(table, a) == a \notin DOMAIN table /\ Cardinality(DOMAIN table) >= MaxEntries

MayPass(table, a) ==
    IF Within(table, a) THEN table[a].count < Limit ELSE ~Full(table, a)

Hit(table, a) ==
    IF Within(table, a) THEN [table EXCEPT ![a].count = @ + 1]
    ELSE [b \in DOMAIN table \cup {a} |->
            IF b = a THEN [count |-> 1, resetAt |-> now + Window] ELSE table[b]]

Reap == lastReap' = IF Due THEN now ELSE lastReap

Deny(a) ==
    /\ ~MayPass(Reaped, a)
    /\ hits' = Reaped
    /\ Reap
    /\ UNCHANGED <<now, sequence, rsvps, notices, crashes, allowed, deleted, notified>>

Allow(a) ==
    /\ MayPass(Reaped, a)
    /\ hits' = Hit(Reaped, a)
    /\ Reap
    /\ allowed' = [allowed EXCEPT ![a] = Append(@, now)]

-----------------------------------------------------------------------------
(* PostWeddingRSVP: an answer that is not valid has used up its hit.       *)

RefuseRSVP(a) ==
    /\ Allow(a)
    /\ UNCHANGED <<now, sequence, rsvps, notices, crashes, deleted, notified>>

CreateRSVP(a) ==
    /\ sequence < MaxRsvps
    /\ Allow(a)
    /\ sequence' = sequence + 1
    /\ rsvps' = rsvps \cup {sequence + 1}
    /\ notices' = notices \cup {sequence + 1}
    /\ UNCHANGED <<now, crashes, deleted, notified>>

\* sendWeddingRSVPNotifications: one batch for all recipients.
Notify(id) ==
    /\ id \in notices
    /\ notices' = notices \ {id}
    /\ notified' = notified \cup {id}
    /\ UNCHANGED <<now, hits, lastReap, sequence, rsvps, crashes, allowed, deleted>>

\* Mutant: the answer is put without looking it up.
UpdateRSVP_Upserts(id) == rsvps' = rsvps \cup {id}

\* UpdateRSVP: the answer is looked up and put back in one transaction.
UpdateRSVP(id) == rsvps' = rsvps \cup ({id} \cap rsvps)

PatchWeddingRSVP(id) ==
    /\ id <= sequence
    /\ UpdateRSVP(id)
    /\ UNCHANGED <<now, hits, lastReap, sequence, notices, crashes, allowed, deleted, notified>>

DeleteRSVP(id) ==
    /\ id \in rsvps
    /\ rsvps' = rsvps \ {id}
    /\ deleted' = deleted \cup {id}
    /\ UNCHANGED <<now, hits, lastReap, sequence, notices, crashes, allowed, notified>>

Tick ==
    /\ now < MaxTime
    /\ now' = now + 1
    /\ UNCHANGED <<hits, lastReap, sequence, rsvps, notices, crashes, allowed, deleted, notified>>

Crash ==
    /\ crashes < MaxCrashes
    /\ crashes' = crashes + 1
    /\ hits' = <<>>
    /\ lastReap' = 0
    /\ notices' = {}
    /\ allowed' = [a \in Addresses |-> <<>>]
    /\ UNCHANGED <<now, sequence, rsvps, deleted, notified>>

-----------------------------------------------------------------------------
Init ==
    /\ now = 1
    /\ hits = <<>>
    /\ lastReap = 0
    /\ sequence = 0
    /\ rsvps = {}
    /\ notices = {}
    /\ crashes = 0
    /\ allowed = [a \in Addresses |-> <<>>]
    /\ deleted = {}
    /\ notified = {}

Next ==
    \/ \E a \in Addresses: Deny(a) \/ RefuseRSVP(a) \/ CreateRSVP(a)
    \/ \E id \in 1 .. MaxRsvps: Notify(id) \/ PatchWeddingRSVP(id) \/ DeleteRSVP(id)
    \/ Tick
    \/ Crash

Spec == Init /\ [][Next]_vars

-----------------------------------------------------------------------------
(* Properties                                                              *)

\* However an address times its answers around the ends of its buckets and
\* the reaping of the table, no window of time lets through more than twice
\* the limit of it: of that many hits and one more, the last comes a window
\* after the first.  The table has no more than MaxEntries buckets.
BurstsAreBounded ==
    /\ Cardinality(DOMAIN hits) <= MaxEntries
    /\ \A a \in Addresses: \A first, last \in DOMAIN allowed[a]:
        last = first + 2 * Limit => allowed[a][last] >= allowed[a][first] + Window

\* An answer is in the bucket from its creation to its deletion, and a change
\* of it that comes after the deletion does not bring it back; every answer
\* is notified or about to be, unless the process died.
AnswersAreKept ==
    /\ rsvps = (1 .. sequence) \ deleted
    /\ notices \cap notified = {}
    /\ crashes = 0 => notices \cup notified = 1 .. sequence

RsvpConsistent ==
    /\ TypeOK
    /\ BurstsAreBounded
    /\ AnswersAreKept
=============================================================================
