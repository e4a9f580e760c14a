--------------------------- MODULE WeddingUpload ---------------------------
(***************************************************************************)
(* Resumable uploads of wedding guests (internal/weddingmedia/service.go): *)
(* start, resume and persist of Service, the sessions kept in memory and   *)
(* in the database, the session on Google Drive behind each of them, and   *)
(* the gallery list that is cached until an upload completes.              *)
(*                                                                         *)
(* Sizes count units of 256 KiB.  A request works on an upload under the   *)
(* upload's mutex, with calls of Drive and transactions in between; the    *)
(* answer of Drive may be lost, a transaction may fail, and the process    *)
(* may die and start again between any two of them.  Drive is external: it *)
(* keeps a prefix of the file and finishes it with the last byte.          *)
(***************************************************************************)
EXTENDS Naturals, FiniteSets

CONSTANTS
    Uploads,     \* random session IDs, each made once
    Videos,      \* uploads of videos
    Genuine,     \* uploads whose content matches the declared type
    Owner,       \* upload -> guest
    Requests,    \* concurrent PUT and GET requests
    Viewers,     \* concurrent requests for the gallery list
    Size,        \* units of a file
    Chunk,       \* units of a chunk, ChunkSize
    MaxSessions, \* maxSessions, 2048
    OwnerLimit,  \* sessions of a guest, 100
    MaxFaults    \* bound: crashes, failed transactions and lost answers

ASSUME UploadAssumption ==
    /\ IsFiniteSet(Uploads) /\ Uploads # {}
    /\ Videos \subseteq Uploads /\ Genuine \subseteq Uploads
    /\ Size \in Nat \ {0} /\ Chunk \in Nat \ {0}
    /\ MaxSessions \in Nat /\ OwnerLimit \in Nat
    /\ MaxFaults \in Nat

VARIABLES
    started,     \* control of start, one per upload
    sessions,    \* keys of Service.sessions
    memory,      \* the upload objects
    stored,      \* the uploads bucket
    expired,     \* uploads whose 24 hours are over
    drive,       \* units Drive has of each upload
    jobs,        \* videos enqueued
    requests,    \* control of resume, one per request
    told,        \* highest offset an answer reported, Size for complete
    cache,       \* listCache: no page or one, a set of files
    generation,  \* cacheGeneration
    viewers,     \* control of list, one per viewer
    faults       \* faults so far

gallery == <<cache, generation, viewers>>
vars == <<started, sessions, memory, stored, expired, drive, jobs, requests,
          told, gallery, faults>>

Upload == [offset: 0 .. Size, sniffed: BOOLEAN, complete: BOOLEAN]

NoUpload == [offset |-> 0, sniffed |-> FALSE, complete |-> FALSE]

\* A status query has to = 0; got is what Drive answered.
Request == [pc: {"idle", "lock", "sniff", "send", "answer", "save"},
            upload: Uploads, from: 0 .. Size, to: 0 .. Size, got: 0 .. Size]

Viewer == [pc: {"idle", "fetch", "store"}, generation: Nat, page: SUBSET Uploads]

TypeOK ==
    /\ started \in [Uploads -> {"new", "drive", "save", "open", "failed"}]
    /\ sessions \subseteq Uploads
    /\ memory \in [Uploads -> Upload]
    /\ DOMAIN stored \subseteq Uploads
    /\ stored \in [DOMAIN stored -> Upload]
    /\ expired \subseteq Uploads
    /\ drive \in [Uploads -> 0 .. Size]
    /\ jobs \subseteq Videos
    /\ requests \in [Requests -> Request]
    /\ told \in [Uploads -> 0 .. Size]
    /\ cache \subseteq SUBSET Uploads /\ Cardinality(cache) <= 1
    /\ generation \in Nat
    /\ viewers \in [Viewers -> Viewer]
    /\ faults \in 0 .. MaxFaults

NoRequest == [pc |-> "idle", upload |-> CHOOSE u \in Uploads : TRUE,
              from |-> 0, to |-> 0, got |-> 0]
NoViewer == [pc |-> "idle", generation |-> 0, page |-> {}]

Stored == DOMAIN stored
Fault == faults < MaxFaults /\ faults' = faults + 1
NoFault == faults' = faults
At(r, pc) == requests[r].pc = pc
Goto(r, pc) == requests' = [requests EXCEPT ![r].pc = pc]
Return(r) == requests' = [requests EXCEPT ![r] = NoRequest]
\* The request goes on at pc and needs only what Drive answered.
Advance(r, pc, got) ==
    requests' = [requests EXCEPT ![r] = [NoRequest EXCEPT !.pc = pc, !.got = got,
                                                          !.upload = requests[r].upload]]

\* The request that holds the mutex of an upload.
Holds(r, u) == requests[r].upload = u /\ requests[r].pc \in {"sniff", "send", "answer", "save"}

-----------------------------------------------------------------------------
(* persist: expired entries go, the upload is put, a completed video is    *)
(* enqueued, in one transaction.                                           *)

Persist(u) ==
    /\ NoFault
    /\ stored' = [x \in (Stored \ expired) \cup {u} |-> IF x = u THEN memory[u] ELSE stored[x]]
    /\ jobs' = IF memory[u].complete THEN jobs \cup ({u} \cap Videos) ELSE jobs

PersistFails ==
    /\ Fault
    /\ UNCHANGED <<stored, jobs>>

-----------------------------------------------------------------------------
(* start                                                                   *)

\* Under the service's mutex: expired sessions go, the limits are checked,
\* the session takes its place.
ReserveSession(u) ==
    LET left == sessions \ expired
    IN  /\ started[u] = "new"
        /\ Cardinality(left) < MaxSessions
        /\ Cardinality({x \in left : Owner[x] = Owner[u]}) < OwnerLimit
        /\ sessions' = left \cup {u}
        /\ started' = [started EXCEPT ![u] = "drive"]
        /\ UNCHANGED <<memory, stored, expired, drive, jobs, requests, told,
                       gallery, faults>>

\* Mutant: a failed start keeps its place.
Abandon_Keeps(u) ==
    /\ started' = [started EXCEPT ![u] = "failed"]
    /\ UNCHANGED sessions

\* The deferred removal of a session that was not created.
Abandon(u) ==
    /\ started' = [started EXCEPT ![u] = "failed"]
    /\ sessions' = sessions \ {u}

\* Drive opens its session, or not.
OpenDriveSession(u) ==
    /\ started[u] = "drive"
    /\ \/ NoFault /\ started' = [started EXCEPT ![u] = "save"] /\ UNCHANGED sessions
       \/ Fault /\ Abandon(u)
    /\ UNCHANGED <<memory, stored, expired, drive, jobs, requests, told, gallery>>

SaveSession(u) ==
    /\ started[u] = "save"
    /\ \/ Persist(u) /\ started' = [started EXCEPT ![u] = "open"] /\ UNCHANGED sessions
       \/ PersistFails /\ Abandon(u)
    /\ UNCHANGED <<memory, expired, drive, requests, told, gallery>>

-----------------------------------------------------------------------------
(* resume                                                                  *)

\* The session is looked up; to = 0 asks for the status, else the chunk from
\* .. to is sent.
Ask(r, u, from, to) ==
    /\ At(r, "idle")
    /\ started[u] = "open"
    /\ u \in sessions \ expired
    /\ requests' = [requests EXCEPT ![r] =
          [pc |-> "lock", upload |-> u, from |-> from, to |-> to, got |-> 0]]
    /\ UNCHANGED <<started, sessions, memory, stored, expired, drive, jobs, told,
                   gallery, faults>>

AskStatus(r, u) == Ask(r, u, 0, 0)
\* Mutant: the end of the range is not compared with the size.
SendChunk_PastEnd(r, u, from) ==
    \E to \in (from + 1) .. (from + Chunk) : Ask(r, u, from, to)

SendChunk(r, u, from) ==
    \E to \in (from + 1) .. Size : to - from <= Chunk /\ Ask(r, u, from, to)

\* Under the upload's mutex: a completed upload is only stored again, a chunk
\* has to start at the offset, and the first one has to match its media type.
Lock(r) ==
    LET q == requests[r]
        u == memory[q.upload]
    IN  /\ At(r, "lock")
        /\ \A other \in Requests : ~Holds(other, q.upload)
        /\ \/ /\ u.complete
              /\ Advance(r, "save", 0)
              /\ UNCHANGED memory
           \/ /\ ~u.complete
              /\ q.to > 0 /\ q.from # u.offset
              /\ Return(r)
              /\ UNCHANGED memory
           \/ /\ ~u.complete
              /\ q.to > 0 /\ q.from = u.offset /\ q.from = 0
              /\ IF q.upload \in Genuine
                 THEN /\ memory' = [memory EXCEPT ![q.upload].sniffed = TRUE]
                      /\ Goto(r, "sniff")
                 ELSE Return(r) /\ UNCHANGED memory
           \/ /\ ~u.complete
              /\ q.to = 0 \/ (q.from = u.offset /\ q.from > 0)
              /\ Goto(r, "send")
              /\ UNCHANGED memory
        /\ UNCHANGED <<started, sessions, stored, expired, drive, jobs, told,
                       gallery, faults>>

\* Mutant: the validation is not saved before the bytes are sent.
SaveSniffed_Skipped(r) ==
    /\ At(r, "sniff")
    /\ Goto(r, "send")
    /\ UNCHANGED <<started, sessions, memory, stored, expired, drive, jobs, told,
                   gallery, faults>>

\* "Save validation before sending: Drive may accept the bytes and lose its
\* response."
SaveSniffed(r) ==
    /\ At(r, "sniff")
    /\ \/ Persist(requests[r].upload) /\ Goto(r, "send")
       \/ PersistFails /\ Return(r)
    /\ UNCHANGED <<started, sessions, memory, expired, drive, told, gallery>>

\* Mutant: the range Drive reports is not looked at.
SendToDrive_AssumesAll(r) ==
    LET q == requests[r]
        has == drive[q.upload]
    IN  /\ At(r, "send")
        /\ \E n \in has .. Size :
              /\ n > has => q.from <= has /\ n <= q.to
              /\ has < q.to /\ q.from <= has => n > has
              /\ drive' = [drive EXCEPT ![q.upload] = n]
              /\ Advance(r, "answer", IF q.to = 0 THEN n ELSE q.to)
        /\ UNCHANGED <<started, sessions, memory, stored, expired, jobs, told,
                       gallery, faults>>

\* Drive takes the chunk or the beginning of it; a status query sends nothing.
SendToDrive(r) ==
    LET q == requests[r]
        has == drive[q.upload]
    IN  /\ At(r, "send")
        /\ \E n \in has .. Size :
              /\ n > has => q.from <= has /\ n <= q.to
              /\ has < q.to /\ q.from <= has => n > has
              /\ drive' = [drive EXCEPT ![q.upload] = n]
              /\ Advance(r, "answer", n)
        /\ UNCHANGED <<started, sessions, memory, stored, expired, jobs, told,
                       gallery, faults>>

\* The request to Drive fails before or after Drive took the bytes.
DriveFails(r) ==
    /\ At(r, "send") \/ At(r, "answer")
    /\ Fault
    /\ Return(r)
    /\ UNCHANGED <<started, sessions, memory, stored, expired, drive, jobs, told,
                   gallery>>

\* Mutant: a page under way is stored all the same.
InvalidateCaches_KeepsGeneration ==
    /\ cache' = {}
    /\ UNCHANGED <<generation, viewers>>

\* A completion empties the gallery's caches.
InvalidateCaches ==
    /\ cache' = {}
    /\ generation' = generation + 1
    /\ UNCHANGED viewers

\* Mutant: an answer that repeats the offset is refused.
HandleAnswer_OnlyForward(r) ==
    LET q == requests[r]
        u == q.upload
    IN  /\ At(r, "answer")
        /\ \/ /\ q.got < Size
              /\ IF q.got <= memory[u].offset
                 THEN Return(r) /\ UNCHANGED memory
                 ELSE memory' = [memory EXCEPT ![u].offset = q.got] /\ Advance(r, "save", 0)
              /\ UNCHANGED gallery
           \/ /\ q.got = Size
              /\ IF memory[u].sniffed
                 THEN /\ memory' = [memory EXCEPT ![u].offset = Size, ![u].complete = TRUE]
                      /\ Advance(r, "save", 0)
                      /\ InvalidateCaches
                 ELSE Return(r) /\ UNCHANGED <<memory, gallery>>
        /\ UNCHANGED <<started, sessions, stored, expired, drive, jobs, told, faults>>

\* 308 reports what Drive has, 200 the finished file; an offset that moved
\* back and a file whose start was never validated are refused.
HandleAnswer(r) ==
    LET q == requests[r]
        u == q.upload
    IN  /\ At(r, "answer")
        /\ \/ /\ q.got < Size
              /\ IF q.got < memory[u].offset
                 THEN Return(r) /\ UNCHANGED memory
                 ELSE memory' = [memory EXCEPT ![u].offset = q.got] /\ Advance(r, "save", 0)
              /\ UNCHANGED gallery
           \/ /\ q.got = Size
              /\ IF memory[u].sniffed
                 THEN /\ memory' = [memory EXCEPT ![u].offset = Size, ![u].complete = TRUE]
                      /\ Advance(r, "save", 0)
                      /\ InvalidateCaches
                 ELSE Return(r) /\ UNCHANGED <<memory, gallery>>
        /\ UNCHANGED <<started, sessions, stored, expired, drive, jobs, told, faults>>

\* Mutant: the guest is answered although the state could not be stored.
SaveAndAnswer_Anyway(r) ==
    LET u == requests[r].upload
    IN  /\ At(r, "save")
        /\ Persist(u) \/ PersistFails
        /\ told' = [told EXCEPT ![u] = memory[u].offset]
        /\ Return(r)
        /\ UNCHANGED <<started, sessions, memory, expired, drive, gallery>>

SaveAndAnswer(r) ==
    LET u == requests[r].upload
    IN  /\ At(r, "save")
        /\ \/ Persist(u) /\ told' = [told EXCEPT ![u] = memory[u].offset]
           \/ PersistFails /\ UNCHANGED told
        /\ Return(r)
        /\ UNCHANGED <<started, sessions, memory, expired, drive, gallery>>

-----------------------------------------------------------------------------
(* list: the cached page, or one fetched from Drive, which is cached unless *)
(* an upload has completed since.                                          *)

StartList(v) ==
    /\ viewers[v].pc = "idle"
    /\ cache = {}
    /\ viewers' = [viewers EXCEPT ![v] = [pc |-> "fetch", generation |-> generation, page |-> {}]]
    /\ UNCHANGED <<started, sessions, memory, stored, expired, drive, jobs,
                   requests, told, cache, generation, faults>>

FetchPage(v) ==
    /\ viewers[v].pc = "fetch"
    /\ viewers' = [viewers EXCEPT ![v].pc = "store",
                                  ![v].page = {u \in Uploads : drive[u] = Size}]
    /\ UNCHANGED <<started, sessions, memory, stored, expired, drive, jobs,
                   requests, told, cache, generation, faults>>

StorePage(v) ==
    /\ viewers[v].pc = "store"
    /\ cache' = IF viewers[v].generation = generation THEN {viewers[v].page} ELSE cache
    /\ viewers' = [viewers EXCEPT ![v] = NoViewer]
    /\ UNCHANGED <<started, sessions, memory, stored, expired, drive, jobs,
                   requests, told, generation, faults>>

\* Ten seconds are over.
PageExpires ==
    /\ cache # {}
    /\ cache' = {}
    /\ UNCHANGED <<started, sessions, memory, stored, expired, drive, jobs,
                   requests, told, generation, viewers, faults>>

-----------------------------------------------------------------------------
(* Time and the process.                                                   *)

Expire(u) ==
    /\ started[u] # "new"
    /\ u \notin expired
    /\ expired' = expired \cup {u}
    /\ UNCHANGED <<started, sessions, memory, stored, drive, jobs, requests, told,
                   gallery, faults>>

\* newService loads what has not expired, up to the limit.
Loadable ==
    {S \in SUBSET (Stored \ expired) :
        Cardinality(S) <= MaxSessions /\ (Cardinality(S) < MaxSessions => S = Stored \ expired)}

\* The process dies at any moment, or is closed, and starts again.
Restart ==
    /\ Fault
    /\ sessions' \in Loadable
    /\ memory' = [u \in Uploads |-> IF u \in sessions' THEN stored[u] ELSE NoUpload]
    /\ started' = [u \in Uploads |->
                      IF started[u] \in {"drive", "save"} THEN "failed" ELSE started[u]]
    /\ requests' = [r \in Requests |-> NoRequest]
    /\ cache' = {}
    /\ generation' = 0
    /\ viewers' = [v \in Viewers |-> NoViewer]
    /\ UNCHANGED <<stored, expired, drive, jobs, told>>

-----------------------------------------------------------------------------
Init ==
    /\ started = [u \in Uploads |-> "new"]
    /\ sessions = {}
    /\ memory = [u \in Uploads |-> NoUpload]
    /\ stored = [u \in {} |-> NoUpload]
    /\ expired = {}
    /\ drive = [u \in Uploads |-> 0]
    /\ jobs = {}
    /\ requests = [r \in Requests |-> NoRequest]
    /\ told = [u \in Uploads |-> 0]
    /\ cache = {}
    /\ generation = 0
    /\ viewers = [v \in Viewers |-> NoViewer]
    /\ faults = 0

Starting(u) == OpenDriveSession(u) \/ SaveSession(u)

Serving(r) ==
    \/ SaveSniffed(r)
    \/ SendToDrive(r)
    \/ DriveFails(r)
    \/ HandleAnswer(r)
    \/ SaveAndAnswer(r)

Listing(v) == StartList(v) \/ FetchPage(v) \/ StorePage(v)

Next ==
    \/ \E u \in Uploads : ReserveSession(u)
    \/ \E u \in Uploads : Starting(u)
    \/ \E r \in Requests, u \in Uploads : AskStatus(r, u)
    \/ \E r \in Requests, u \in Uploads, from \in 0 .. Size : SendChunk(r, u, from)
    \/ \E r \in Requests : Lock(r)
    \/ \E r \in Requests : Serving(r)
    \/ \E v \in Viewers : Listing(v)
    \/ PageExpires
    \/ \E u \in Uploads : Expire(u)
    \/ Restart

Spec == Init /\ [][Next]_vars

\* Requests are served (each has a timeout of three minutes), Go's mutexes do
\* not starve a waiter, and a guest asks for the status and sends the chunk
\* behind the offset the last answer reported, again and again.
Fairness ==
    /\ \A r \in Requests : SF_vars(Lock(r)) /\ WF_vars(Serving(r))
    /\ \A u \in Genuine :
          /\ SF_vars(\E r \in Requests : AskStatus(r, u))
          /\ SF_vars(\E r \in Requests : SendChunk(r, u, told[u]))

FairSpec == Spec /\ Fairness

-----------------------------------------------------------------------------
(* Properties.                                                             *)

\* An answer is durable: the progress a guest was told is in the database
\* until the session expires, so no crash takes it back.
AnswersAreDurable ==
    \A u \in Uploads \ expired : told[u] > 0 => u \in Stored /\ stored[u].offset >= told[u]

\* The record never runs ahead of Drive, although Drive may take a part of a
\* chunk, and lags behind when an answer is lost; what counts as complete here is finished there.
RecordBehindDrive ==
    \A u \in Uploads : memory[u].offset <= drive[u] /\ (u \in Stored => stored[u].offset <= drive[u])

\* Drive gets bytes of genuine media only, and the database knows of the
\* validation before Drive has them: after any crash the finished file is accepted.
BytesOnlyAfterValidation ==
    \A u \in Uploads : drive[u] > 0 =>
        u \in Genuine /\ (u \in Stored => stored[u].sniffed)

\* What the guest, the database and Drive know of an upload agrees.
UploadsConsistent ==
    TypeOK /\ AnswersAreDurable /\ RecordBehindDrive /\ BytesOnlyAfterValidation

\* Memory and database hold the same sessions, but for starts under way and
\* expired ones: no failed start keeps its place, no restart loses a guest's upload.
SessionsAreRecorded ==
    /\ \A u \in sessions \ expired : started[u] = "open" => u \in Stored
    /\ \A u \in sessions : started[u] # "failed"
    /\ Stored \ expired \subseteq sessions

\* A cached page shows every upload that completed here: a page fetched
\* before the completion is not stored after it.
CachedPageIsCurrent ==
    \A page \in cache : {u \in Uploads : memory[u].complete} \subseteq page

\* TestAmbiguousUploadResumesAfterRestart, for every loss and crash: an upload
\* a guest keeps sending completes, a video with its job for the preview,
\* unless the session expires.
Finished(u) == told[u] = Size /\ (u \in Videos => u \in jobs)

EveryUploadCompletes ==
    \A u \in Genuine : started[u] = "open" ~> Finished(u) \/ u \in expired
=============================================================================
