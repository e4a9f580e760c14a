--------------------------- MODULE WeddingSummary ---------------------------
(***************************************************************************)
(* The number of media in the gallery: summary and countMedia of           *)
(* internal/weddingmedia/service.go.  Of several requests one counts, page *)
(* by page of the Drive folder, and the others wait for it; what it found  *)
(* is cached for 30 seconds, unless an upload completed meanwhile.         *)
(*                                                                         *)
(* The media an upload adds appear on Drive first and in the caches'       *)
(* generation later, when resume has the answer.  Drive is external.       *)
(***************************************************************************)
EXTENDS Naturals, FiniteSets

CONSTANTS
    Requests,  \* requests for the summary
    Media,     \* media uploaded, each page of Drive's list holds one
    Places,    \* capacity of inFlight, 8
    MaxOthers  \* bound: other media requests in flight at a time

\* On the constants; Services assumes it of its instance.
SummaryAssumption == IsFiniteSet(Media) /\ Places \in Nat \ {0} /\ MaxOthers \in Nat

VARIABLES
    drive,       \* media in the Drive folder
    uploaded,    \* media of which resume has completed the upload
    cache,       \* summaryCache, at most one set of media, for its number
    generation,  \* cacheGeneration
    loading,     \* summaryLoading: the request that counts, or none
    others,      \* places of inFlight other requests hold
    requests,    \* control of summary
    answers      \* the sets counted in the answers, and those refused

vars == <<drive, uploaded, cache, generation, loading, others, requests, answers>>

\* had is what resume had completed when the request came.
Request == [at: {"new", "look", "wait", "start", "count", "store", "done"},
            generation: Nat, seen: SUBSET Media, left: SUBSET Media,
            failed: BOOLEAN, had: SUBSET Media]

New == [at |-> "new", generation |-> 0, seen |-> {}, left |-> {}, failed |-> FALSE, had |-> {}]

TypeOK ==
    /\ uploaded \subseteq drive /\ drive \subseteq Media
    /\ cache \subseteq SUBSET Media /\ Cardinality(cache) <= 1
    /\ generation \in 0 .. Cardinality(Media)
    /\ loading \subseteq Requests /\ Cardinality(loading) <= 1
    /\ others \in 0 .. MaxOthers
    /\ requests \in [Requests -> Request]
    /\ answers \subseteq [media: SUBSET Media, had: SUBSET Media]

At(r, pc) == requests[r].at = pc
Counting == {r \in Requests: At(r, "count")}

\* inFlight is a channel of Places places.
PlaceFree == others + Cardinality(Counting) < Places

Answer(r, media) == answers' = answers \cup {[media |-> media, had |-> requests[r].had]}

-----------------------------------------------------------------------------
Arrive(r) ==
    /\ At(r, "new")
    /\ requests' = [requests EXCEPT ![r] = [New EXCEPT !.at = "look", !.had = uploaded]]
    /\ UNCHANGED <<drive, uploaded, cache, generation, loading, others, answers>>

\* The look at the caches under their mutex: a number that is still good is
\* the answer, a count under way is waited for, and else this one counts.
Look(r) ==
    /\ At(r, "look")
    /\ \/ \E media \in cache:
            /\ Answer(r, media)
            /\ requests' = [requests EXCEPT ![r] = [New EXCEPT !.at = "done"]]
            /\ UNCHANGED loading
       \/ /\ cache = {} /\ loading # {}
          /\ requests' = [requests EXCEPT ![r].at = "wait"]
          /\ UNCHANGED <<loading, answers>>
       \/ /\ cache = {} /\ loading = {}
          /\ loading' = {r}
          /\ requests' = [requests EXCEPT ![r].at = "start", ![r].generation = generation]
          /\ UNCHANGED answers
    /\ UNCHANGED <<drive, uploaded, cache, generation, others>>

\* Without a free place the count has failed already.
Start(r) ==
    /\ At(r, "start")
    /\ requests' = [requests EXCEPT
            ![r].at = IF PlaceFree THEN "count" ELSE "store", ![r].failed = ~PlaceFree,
            ![r].left = IF PlaceFree THEN Media ELSE {}]
    /\ UNCHANGED <<drive, uploaded, cache, generation, loading, others, answers>>

\* countMedia: the next page; what was added to a page already read is missed.
CountPage(r, m) ==
    /\ At(r, "count") /\ m \in requests[r].left
    /\ requests' = [requests EXCEPT
            ![r].seen = @ \cup ({m} \cap drive), ![r].left = @ \ {m},
            ![r].at = IF requests[r].left = {m} THEN "store" ELSE @]
    /\ UNCHANGED <<drive, uploaded, cache, generation, loading, others, answers>>

\* An error of Drive, pages that do not end, or the deadline.
CountFails(r) ==
    /\ At(r, "count")
    /\ requests' = [requests EXCEPT ![r].at = "store", ![r].failed = TRUE]
    /\ UNCHANGED <<drive, uploaded, cache, generation, loading, others, answers>>

\* Mutant: a count that failed keeps its place.
Released_OnSuccess(r) == IF requests[r].failed THEN loading ELSE {}

\* Under the mutex: the number is cached if no upload completed, and the
\* waiting requests look again, whether there is a number or not.
Released(r) == {}

\* Mutant: the generation is not compared.
Current_Always(r) == TRUE

Current(r) == requests[r].generation = generation

Store(r) ==
    LET q == requests[r]
    IN  /\ At(r, "store")
        /\ cache' = IF ~q.failed /\ Current(r) THEN {q.seen} ELSE cache
        /\ loading' = Released(r)
        /\ IF q.failed THEN UNCHANGED answers ELSE Answer(r, q.seen)
        /\ requests' = [w \in Requests |->
                CASE w = r -> [New EXCEPT !.at = "done"]
                  [] w # r /\ At(w, "wait") /\ loading' = {} -> [requests[w] EXCEPT !.at = "look"]
                  [] OTHER -> requests[w]]
        /\ UNCHANGED <<drive, uploaded, generation, others>>

\* The deadline of a waiting request.
GiveUp(r) ==
    /\ At(r, "wait")
    /\ requests' = [requests EXCEPT ![r] = [New EXCEPT !.at = "done"]]
    /\ UNCHANGED <<drive, uploaded, cache, generation, loading, others, answers>>

Expire ==
    /\ cache # {}
    /\ cache' = {}
    /\ UNCHANGED <<drive, uploaded, generation, loading, others, requests, answers>>

\* The last chunk of an upload reaches Drive, and resume clears the caches.
DriveFinishes(m) ==
    /\ m \notin drive
    /\ drive' = drive \cup {m}
    /\ UNCHANGED <<uploaded, cache, generation, loading, others, requests, answers>>

CompleteUpload(m) ==
    /\ m \in drive \ uploaded
    /\ uploaded' = uploaded \cup {m}
    /\ cache' = {}
    /\ generation' = generation + 1
    /\ UNCHANGED <<drive, loading, others, requests, answers>>

OthersChange(n) ==
    /\ n + Cardinality(Counting) <= Places
    /\ others' = n
    /\ UNCHANGED <<drive, uploaded, cache, generation, loading, requests, answers>>

-----------------------------------------------------------------------------
Init ==
    /\ drive = {} /\ uploaded = {}
    /\ cache = {} /\ generation = 0
    /\ loading = {}
    /\ others = 0
    /\ requests = [r \in Requests |-> New]
    /\ answers = {}

Next ==
    \/ \E r \in Requests: Arrive(r) \/ Look(r) \/ Start(r) \/ CountFails(r) \/ Store(r) \/ GiveUp(r)
    \/ \E r \in Requests, m \in Media: CountPage(r, m)
    \/ Expire
    \/ \E m \in Media: DriveFinishes(m) \/ CompleteUpload(m)
    \/ \E n \in 0 .. MaxOthers: OthersChange(n)

Spec == Init /\ [][Next]_vars

-----------------------------------------------------------------------------
(* Properties                                                              *)

\* Somebody counts for those who wait: a request waits only while the one
\* it waits for is on its way to the end that wakes it.
SomebodyCounts ==
    /\ \A r \in loading: \E pc \in {"start", "count", "store"}: At(r, pc)
    /\ \A r \in Requests: At(r, "wait") => loading # {}
    /\ {r \in Requests: \E pc \in {"start", "count", "store"}: At(r, pc)} = loading

\* A cached number counts every upload that has completed, and so does every
\* answer for the uploads that had completed before its request came.
NumbersAreCurrent ==
    /\ \A media \in cache: uploaded \subseteq media
    /\ \A a \in answers: a.had \subseteq a.media

SummaryConsistent ==
    /\ TypeOK
    /\ SomebodyCounts
    /\ NumbersAreCurrent
=============================================================================
