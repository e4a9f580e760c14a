--------------------------- MODULE ThumbnailCache ---------------------------
(***************************************************************************)
(* The thumbnails kept in memory: loadThumbnail and storeThumbnail of      *)
(* internal/weddingmedia/thumbnail_cache.go, called by content of          *)
(* service.go under cacheMu.  Entries that are over go first, then the     *)
(* entries used longest ago, until the new one fits.                       *)
(***************************************************************************)
EXTENDS Naturals, FiniteSets, FiniteSetsExt

CONSTANTS
    Files,       \* keys of the cache
    MaxEntries,  \* thumbnailCacheEntries, 64
    MaxBytes,    \* thumbnailCacheBytes, 8 MiB
    MaxSize,     \* largest thumbnail stored, 2 MiB, in the same units
    Life,        \* units of time an entry lives, a minute
    MaxTime,     \* bound: units of time
    MaxClock     \* bound: uses of the cache

\* On the constants; Services assumes it of its instance.
ThumbnailAssumption ==
    /\ MaxEntries \in Nat \ {0} /\ MaxBytes \in Nat /\ MaxSize \in Nat
    /\ Life \in Nat \ {0} /\ MaxTime \in Nat \ {0} /\ MaxClock \in Nat

VARIABLES
    now,
    thumbnailCache,
    thumbnailCacheClock,
    kept     \* for the properties: the entries a Store found and kept or let go

vars == <<now, thumbnailCache, thumbnailCacheClock, kept>>

Entry == [size: 0 .. MaxSize, expires: 1 .. MaxTime + Life, used: 1 .. MaxClock]

Cached == DOMAIN thumbnailCache

TypeOK ==
    /\ now \in 1 .. MaxTime
    /\ Cached \subseteq Files /\ thumbnailCache \in [Cached -> Entry]
    /\ thumbnailCacheClock \in 0 .. MaxClock
    /\ kept \in [stayed: SUBSET Entry, left: SUBSET Entry]

NothingLeaves == [stayed |-> {}, left |-> {}]

Bytes(keys) == MapThenSumSet(LAMBDA k: thumbnailCache[k].size, keys)

Remaining(keys) == [k \in keys |-> thumbnailCache[k]]

-----------------------------------------------------------------------------
\* loadThumbnail: an entry that is over is removed, another is used again.
Load(k) ==
    /\ k \in Cached
    /\ thumbnailCacheClock < MaxClock
    /\ IF now < thumbnailCache[k].expires
       THEN /\ thumbnailCacheClock' = thumbnailCacheClock + 1
            /\ thumbnailCache' = [thumbnailCache EXCEPT ![k].used = thumbnailCacheClock + 1]
       ELSE /\ thumbnailCache' = Remaining(Cached \ {k})
            /\ UNCHANGED thumbnailCacheClock
    /\ kept' = NothingLeaves
    /\ UNCHANGED now

\* Mutant: the number of entries is not limited.
Room_BytesOnly(keys, size) == Bytes(keys) + size <= MaxBytes

\* The loop of storeThumbnail removes the entry used longest ago while there
\* is no room: an entry stays when it and those used after it leave room.
Room(keys, size) == Cardinality(keys) < MaxEntries /\ Bytes(keys) + size <= MaxBytes

Since(keys, k) == {j \in keys: thumbnailCache[j].used >= thumbnailCache[k].used}

\* storeThumbnail; a thumbnail larger than the cache empties it and is not
\* stored.
Store(k, size) ==
    LET live == {j \in Cached \ {k}: now < thumbnailCache[j].expires}
        stay == {j \in live: Room(Since(live, j), size)}
        entry == [size |-> size, expires |-> now + Life, used |-> thumbnailCacheClock + 1]
    IN  /\ thumbnailCacheClock < MaxClock
        /\ kept' = [stayed |-> {thumbnailCache[j]: j \in stay},
                    left |-> {thumbnailCache[j]: j \in live \ stay}]
        /\ IF size <= MaxBytes
           THEN /\ thumbnailCacheClock' = thumbnailCacheClock + 1
                /\ thumbnailCache' = [j \in stay \cup {k} |->
                                        IF j = k THEN entry ELSE thumbnailCache[j]]
           ELSE /\ thumbnailCache' = Remaining(stay)
                /\ UNCHANGED thumbnailCacheClock
        /\ UNCHANGED now

Tick ==
    /\ now < MaxTime
    /\ now' = now + 1
    /\ kept' = NothingLeaves
    /\ UNCHANGED <<thumbnailCache, thumbnailCacheClock>>

Init ==
    /\ now = 1
    /\ thumbnailCache = <<>>
    /\ thumbnailCacheClock = 0
    /\ kept = NothingLeaves

Next ==
    \/ \E k \in Files: Load(k)
    \/ \E k \in Files, size \in 1 .. MaxSize: Store(k, size)
    \/ Tick

Spec == Init /\ [][Next]_vars

-----------------------------------------------------------------------------
(* Properties                                                              *)

\* The cache keeps within its two limits whatever is stored, and of two
\* entries the one used later is never let go to keep the other.
ThumbnailsConsistent ==
    /\ TypeOK
    /\ Cardinality(Cached) <= MaxEntries /\ Bytes(Cached) <= MaxBytes
    /\ \A stays \in kept.stayed, leaves \in kept.left: leaves.used < stays.used
=============================================================================
