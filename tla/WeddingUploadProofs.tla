------------------------ MODULE WeddingUploadProofs ------------------------
(***************************************************************************)
(* Proofs about WeddingUpload for every set of uploads, guests' requests   *)
(* and viewers, every size and limit, and any number of crashes, failed    *)
(* transactions and lost answers.                                          *)
(***************************************************************************)
EXTENDS WeddingUpload, FiniteSetTheorems, TLAPS

-----------------------------------------------------------------------------
(* The inductive invariant.                                                *)

\* The limit of newService never cuts off a session that has not expired.
SessionsFit == Cardinality(sessions \ expired) <= MaxSessions

\* Where the session of an upload is, by the control of its start.
SessionSound(u) ==
    /\ started[u] = "open" /\ u \notin expired => u \in Stored
    /\ u \in Stored => started[u] = "open"
    /\ u \in Stored \ expired => u \in sessions
    /\ u \in sessions => started[u] # "failed"
    /\ started[u] \in {"drive", "save"} => u \in sessions \cup expired

\* What memory, the database, Drive and the guest hold of an upload.
UploadSound(u) ==
    /\ memory[u].offset <= drive[u]
    /\ memory[u].complete => memory[u].offset = Size
    /\ u \in Stored => /\ stored[u].offset <= drive[u]
                       /\ stored[u].complete => stored[u].offset = Size
    /\ drive[u] > 0 => /\ u \in Genuine
                       /\ started[u] = "open"
                       /\ u \in Stored => stored[u].sniffed
                       /\ u \notin expired => memory[u].sniffed
    /\ u \notin expired => told[u] <= memory[u].offset
    /\ u \in Stored \ expired => told[u] <= stored[u].offset

\* What a request knows at its line of resume.
RequestSound(q) ==
    /\ q.pc # "idle" => /\ started[q.upload] = "open"
                        /\ drive[q.upload] > 0 => memory[q.upload].sniffed
    /\ q.pc = "sniff" => q.upload \in Genuine /\ memory[q.upload].sniffed
    /\ q.pc = "send" /\ q.to > 0 => /\ q.upload \in Genuine
                                    /\ memory[q.upload].sniffed
                                    /\ q.upload \in Stored => stored[q.upload].sniffed
    /\ q.pc = "answer" => q.got <= drive[q.upload]

\* A page that is cached, or would still be, has every completed upload.
Complete == {u \in Uploads : memory[u].complete}

ViewerSound(v) ==
    /\ v.pc # "idle" => v.generation <= generation
    /\ v.pc = "store" /\ v.generation = generation => Complete \subseteq v.page

IInv ==
    /\ TypeOK
    /\ SessionsFit
    /\ \A u \in Uploads : SessionSound(u)
    /\ \A u \in Uploads : UploadSound(u)
    /\ \A r \in Requests : RequestSound(requests[r])
    /\ \A page \in cache : Complete \subseteq page
    /\ \A v \in Viewers : ViewerSound(viewers[v])

-----------------------------------------------------------------------------
(* Lemmas: the steps of one actor, and what they leave alone.              *)

LEMMA NoRequestFacts == NoRequest \in Request /\ NoRequest.pc = "idle"
<1>1. (CHOOSE u \in Uploads : TRUE) \in Uploads
  BY UploadAssumption
<1>2. 0 \in 0 .. Size
  BY UploadAssumption
<1> QED BY <1>1, <1>2 DEF NoRequest, Request

\* A request moves on: its new control is q.
LEMMA RequestMoves ==
    ASSUME TypeOK, NEW r \in Requests, NEW q \in Request,
           requests' = [requests EXCEPT ![r] = q]
    PROVE  /\ requests' \in [Requests -> Request]
           /\ requests'[r] = q
           /\ \A s \in Requests : s # r => requests'[s] = requests[s]
BY DEF TypeOK

LEMMA GotoFacts ==
    ASSUME TypeOK, NEW r \in Requests,
           NEW pc \in {"idle", "lock", "sniff", "send", "answer", "save"}, Goto(r, pc)
    PROVE  \E q \in Request : /\ requests' = [requests EXCEPT ![r] = q]
                              /\ q.pc = pc /\ q.upload = requests[r].upload
                              /\ q.from = requests[r].from /\ q.to = requests[r].to
<1>1. PICK q : q = [requests[r] EXCEPT !.pc = pc]
  OBVIOUS
<1>2. requests' = [requests EXCEPT ![r] = q]
  BY <1>1 DEF Goto
<1>3. requests[r] \in Request
  BY DEF TypeOK
<1>4. /\ q \in Request /\ q.pc = pc /\ q.upload = requests[r].upload
      /\ q.from = requests[r].from /\ q.to = requests[r].to
  BY <1>1, <1>3 DEF Request
<1> QED BY <1>2, <1>4

LEMMA AdvanceFacts ==
    ASSUME TypeOK, NEW r \in Requests, NEW got \in 0 .. Size,
           NEW pc \in {"idle", "lock", "sniff", "send", "answer", "save"}, Advance(r, pc, got)
    PROVE  \E q \in Request : /\ requests' = [requests EXCEPT ![r] = q]
                              /\ q.pc = pc /\ q.upload = requests[r].upload /\ q.got = got
<1>1. PICK none : none = NoRequest
  OBVIOUS
<1>2. PICK q : q = [none EXCEPT !.pc = pc, !.got = got, !.upload = requests[r].upload]
  OBVIOUS
<1>3. requests' = [requests EXCEPT ![r] = q]
  BY <1>1, <1>2 DEF Advance
<1>4. requests[r] \in Request /\ none \in Request
  BY <1>1, NoRequestFacts DEF TypeOK
<1>5. q \in Request /\ q.pc = pc /\ q.upload = requests[r].upload /\ q.got = got
  BY <1>2, <1>4 DEF Request
<1> QED BY <1>3, <1>5

LEMMA ReturnFacts ==
    ASSUME TypeOK, NEW r \in Requests, Return(r)
    PROVE  \E q \in Request : requests' = [requests EXCEPT ![r] = q] /\ q.pc = "idle"
BY NoRequestFacts DEF Return

\* What a request knows stays true, and the one that moved knows enough.
LEMMA RequestsStaySound ==
    ASSUME IInv, NEW r \in Requests, NEW q \in Request,
           requests' = [requests EXCEPT ![r] = q], RequestSound(q)',
           \A o \in Request : RequestSound(o) => RequestSound(o)'
    PROVE  requests' \in [Requests -> Request] /\ \A s \in Requests : RequestSound(requests[s])'
<1>1. /\ requests' \in [Requests -> Request] /\ requests'[r] = q
      /\ \A s \in Requests : s # r => requests'[s] = requests[s]
  BY RequestMoves DEF IInv
<1>2. \A s \in Requests : requests[s] \in Request /\ RequestSound(requests[s])
  BY DEF IInv, TypeOK
<1>3. ASSUME NEW s \in Requests PROVE RequestSound(requests[s])'
  <2>1. CASE s = r
    BY <1>1, <2>1 DEF RequestSound
  <2>2. CASE s # r
    <3>1. PICK o \in Request : o = requests[s] /\ requests'[s] = o
      BY <1>1, <1>2, <2>2
    <3>2. RequestSound(o)'
      BY <1>2, <3>1
    <3> QED BY <3>1, <3>2 DEF RequestSound
  <2> QED BY <2>1, <2>2
<1> QED BY <1>1, <1>3

\* Steps that leave the sessions, the uploads or the gallery alone.
LEMMA SessionsStay ==
    ASSUME IInv, UNCHANGED <<started, sessions, stored, expired>>
    PROVE  SessionsFit' /\ \A u \in Uploads : SessionSound(u)'
BY DEF IInv, SessionsFit, SessionSound, Stored

LEMMA UploadsStay ==
    ASSUME IInv, UNCHANGED <<memory, stored, drive, started, expired, told>>
    PROVE  \A u \in Uploads : UploadSound(u)'
BY DEF IInv, UploadSound, Stored

LEMMA RequestsStay ==
    ASSUME IInv, UNCHANGED <<memory, stored, drive, started, requests>>
    PROVE  \A r \in Requests : RequestSound(requests[r])'
BY DEF IInv, RequestSound, Stored

LEMMA GalleryStays ==
    ASSUME IInv, UNCHANGED gallery, Complete' = Complete
    PROVE  /\ \A page \in cache' : Complete' \subseteq page
           /\ \A v \in Viewers : ViewerSound(viewers[v])'
BY DEF IInv, gallery, ViewerSound

\* persist: the upload is in the database as it is in memory, what has
\* expired is not, and the rest stays.
LEMMA PersistFacts ==
    ASSUME TypeOK, NEW u \in Uploads, Persist(u)
    PROVE  /\ DOMAIN stored' = (Stored \ expired) \cup {u}
           /\ stored'[u] = memory[u]
           /\ \A x \in Stored \ expired : x # u => stored'[x] = stored[x]
           /\ DOMAIN stored' \subseteq Uploads
           /\ stored' \in [DOMAIN stored' -> Upload]
           /\ jobs' \subseteq Videos
           /\ faults' \in 0 .. MaxFaults
<1>1. /\ memory[u] \in Upload /\ Stored \subseteq Uploads
      /\ \A x \in Stored : stored[x] \in Upload
  BY DEF TypeOK, Stored
<1>2. stored' = [x \in (Stored \ expired) \cup {u} |-> IF x = u THEN memory[u] ELSE stored[x]]
  BY DEF Persist
<1>3. jobs' \subseteq Videos /\ faults' \in 0 .. MaxFaults
  BY DEF Persist, NoFault, TypeOK
<1> QED BY <1>1, <1>2, <1>3

LEMMA PersistKeeps ==
    ASSUME IInv, NEW u \in Uploads, Persist(u), UNCHANGED <<memory, drive, sessions, expired>>,
           u \in sessions \cup expired,
           started' = [started EXCEPT ![u] = "open"],
           drive[u] > 0 => memory[u].sniffed,
           \A x \in Uploads : x # u => told'[x] = told[x],
           u \notin expired => told'[u] <= memory[u].offset
    PROVE  /\ SessionsFit'
           /\ \A x \in Uploads : SessionSound(x)' /\ UploadSound(x)'
           /\ \A o \in Request : RequestSound(o) => RequestSound(o)'
<1>1. /\ Stored' = (Stored \ expired) \cup {u}
      /\ stored'[u] = memory[u]
      /\ \A x \in Stored \ expired : x # u => stored'[x] = stored[x]
  BY PersistFacts DEF IInv, Stored
<1>2. /\ started'[u] = "open"
      /\ \A x \in Uploads : x # u => started'[x] = started[x]
      /\ \A x \in Uploads : started[x] = "open" => started'[x] = "open"
  BY DEF IInv, TypeOK
<1>3. ASSUME NEW x \in Uploads PROVE SessionSound(x)'
  BY <1>1, <1>2 DEF IInv, SessionSound
<1>4. ASSUME NEW x \in Uploads PROVE UploadSound(x)'
  <2>1. CASE x = u
    BY <1>1, <1>2, <2>1 DEF IInv, UploadSound
  <2>2. CASE x # u
    BY <1>1, <1>2, <2>2 DEF IInv, UploadSound
  <2> QED BY <2>1, <2>2
<1>5. ASSUME NEW o \in Request, RequestSound(o) PROVE RequestSound(o)'
  <2>1. o.upload \in Uploads
    BY DEF Request
  <2> QED BY <1>1, <1>2, <1>5, <2>1 DEF RequestSound
<1> QED BY <1>3, <1>4, <1>5 DEF IInv, SessionsFit

-----------------------------------------------------------------------------
(* start.                                                                  *)

\* The new session takes a place that is free.
LEMMA ReserveSessionStep == ASSUME IInv, NEW u \in Uploads, ReserveSession(u) PROVE IInv'
<1> DEFINE left == sessions \ expired
<1>1. /\ started[u] = "new" /\ Cardinality(left) < MaxSessions
      /\ sessions' = left \cup {u}
      /\ started' = [started EXCEPT ![u] = "drive"]
      /\ UNCHANGED <<memory, stored, expired, drive, jobs, requests, told, gallery, faults>>
  BY DEF ReserveSession
<1>2. /\ started'[u] = "drive"
      /\ \A x \in Uploads : x # u => started'[x] = started[x]
      /\ \A x \in Uploads : started[x] = "open" => started'[x] = "open"
      /\ \A x \in Uploads : started'[x] = "open" => started[x] = "open"
  BY <1>1 DEF IInv, TypeOK
<1>3. TypeOK'
  BY <1>1 DEF IInv, TypeOK, gallery, Stored
<1>4. SessionsFit'
  <2>1. IsFiniteSet(left)
    <3>1. left \subseteq Uploads
      BY DEF IInv, TypeOK
    <3> QED BY <3>1, UploadAssumption, FS_Subset
  <2>2. IsFiniteSet(left \cup {u}) /\ Cardinality(left \cup {u}) <= Cardinality(left) + 1
    BY <2>1, FS_AddElement, FS_CardinalityType
  <2>3. (sessions \ expired)' \subseteq left \cup {u}
    BY <1>1
  <2>4. /\ Cardinality((sessions \ expired)') <= Cardinality(left \cup {u})
        /\ IsFiniteSet((sessions \ expired)')
    BY <2>2, <2>3, FS_Subset
  <2>5. /\ Cardinality(left) \in Nat /\ Cardinality(left \cup {u}) \in Nat
        /\ Cardinality((sessions \ expired)') \in Nat /\ MaxSessions \in Nat
    BY <2>1, <2>2, <2>4, FS_CardinalityType, UploadAssumption
  <2> QED BY <1>1, <2>2, <2>4, <2>5 DEF SessionsFit
<1>5. ASSUME NEW x \in Uploads PROVE SessionSound(x)'
  BY <1>1, <1>2 DEF IInv, SessionSound, Stored
<1>6. ASSUME NEW x \in Uploads PROVE UploadSound(x)'
  BY <1>1, <1>2 DEF IInv, UploadSound, Stored
<1>7. ASSUME NEW r \in Requests PROVE RequestSound(requests[r])'
  BY <1>1, <1>2 DEF IInv, TypeOK, Request, RequestSound, Stored
<1>8. Complete' = Complete
  BY <1>1 DEF Complete
<1> QED BY <1>1, <1>3, <1>4, <1>5, <1>6, <1>7, <1>8, GalleryStays DEF IInv

\* A failed start gives its place back.
LEMMA AbandonStep ==
    ASSUME IInv, NEW u \in Uploads, started[u] \in {"drive", "save"}, Abandon(u), Fault,
           UNCHANGED <<memory, stored, expired, drive, jobs, requests, told, gallery>>
    PROVE  IInv'
<1>1. /\ started'[u] = "failed" /\ sessions' = sessions \ {u}
      /\ \A x \in Uploads : x # u => started'[x] = started[x]
      /\ \A x \in Uploads : started[x] = "open" <=> started'[x] = "open"
  BY DEF Abandon, IInv, TypeOK
<1>2. TypeOK'
  BY UploadAssumption DEF Abandon, Fault, IInv, TypeOK, gallery, Stored
<1>3. SessionsFit'
  <2>1. (sessions \ expired)' \subseteq sessions \ expired
    BY <1>1
  <2>2. IsFiniteSet(sessions \ expired)
    BY UploadAssumption, FS_Subset DEF IInv, TypeOK
  <2>3. /\ Cardinality((sessions \ expired)') <= Cardinality(sessions \ expired)
        /\ IsFiniteSet((sessions \ expired)')
    BY <2>1, <2>2, FS_Subset
  <2> QED BY <2>2, <2>3, FS_CardinalityType, UploadAssumption DEF IInv, SessionsFit
<1>4. ASSUME NEW x \in Uploads PROVE SessionSound(x)'
  BY <1>1 DEF IInv, SessionSound, Stored
<1>5. ASSUME NEW x \in Uploads PROVE UploadSound(x)'
  BY <1>1 DEF IInv, UploadSound, Stored
<1>6. ASSUME NEW r \in Requests PROVE RequestSound(requests[r])'
  BY <1>1 DEF IInv, TypeOK, Request, RequestSound, Stored
<1>7. Complete' = Complete
  BY DEF Complete
<1> QED BY <1>2, <1>3, <1>4, <1>5, <1>6, <1>7, GalleryStays DEF IInv

LEMMA OpenDriveSessionStep == ASSUME IInv, NEW u \in Uploads, OpenDriveSession(u) PROVE IInv'
<1>1. /\ started[u] = "drive"
      /\ UNCHANGED <<memory, stored, expired, drive, jobs, requests, told, gallery>>
  BY DEF OpenDriveSession
<1>2. CASE NoFault /\ started' = [started EXCEPT ![u] = "save"] /\ UNCHANGED sessions
  <2>1. /\ started'[u] = "save"
        /\ \A x \in Uploads : x # u => started'[x] = started[x]
        /\ \A x \in Uploads : started[x] = "open" <=> started'[x] = "open"
    BY <1>1, <1>2 DEF IInv, TypeOK
  <2>2. TypeOK' /\ SessionsFit'
    BY <1>1, <1>2 DEF IInv, TypeOK, SessionsFit, gallery, Stored, NoFault
  <2>3. ASSUME NEW x \in Uploads PROVE SessionSound(x)'
    BY <1>1, <1>2, <2>1 DEF IInv, SessionSound, Stored
  <2>4. ASSUME NEW x \in Uploads PROVE UploadSound(x)'
    BY <1>1, <2>1 DEF IInv, UploadSound, Stored
  <2>5. ASSUME NEW r \in Requests PROVE RequestSound(requests[r])'
    BY <1>1, <2>1 DEF IInv, TypeOK, Request, RequestSound, Stored
  <2>6. Complete' = Complete
    BY <1>1 DEF Complete
  <2> QED BY <1>1, <2>2, <2>3, <2>4, <2>5, <2>6, GalleryStays DEF IInv
<1>3. CASE Fault /\ Abandon(u)
  BY <1>1, <1>3, AbandonStep
<1> QED BY <1>2, <1>3 DEF OpenDriveSession

LEMMA SaveSessionStep == ASSUME IInv, NEW u \in Uploads, SaveSession(u) PROVE IInv'
<1>1. /\ started[u] = "save"
      /\ UNCHANGED <<memory, expired, drive, requests, told, gallery>>
  BY DEF SaveSession
<1>2. CASE Persist(u) /\ started' = [started EXCEPT ![u] = "open"] /\ UNCHANGED sessions
  <2>1. /\ u \in sessions \cup expired
        /\ ~ (drive[u] > 0)
        /\ u \notin expired => told[u] <= memory[u].offset
    BY <1>1 DEF IInv, SessionSound, UploadSound
  <2>2. /\ SessionsFit'
        /\ \A x \in Uploads : SessionSound(x)' /\ UploadSound(x)'
        /\ \A o \in Request : RequestSound(o) => RequestSound(o)'
    BY <1>1, <1>2, <2>1, PersistKeeps
  <2>3. TypeOK'
    BY <1>1, <1>2, PersistFacts DEF IInv, TypeOK, gallery, Stored
  <2>4. ASSUME NEW r \in Requests PROVE RequestSound(requests[r])'
    <3>1. PICK o \in Request : o = requests[r]
      BY DEF IInv, TypeOK
    <3>2. RequestSound(o)'
      BY <2>2, <3>1 DEF IInv
    <3> QED BY <1>1, <3>1, <3>2 DEF RequestSound
  <2>5. Complete' = Complete
    BY <1>1 DEF Complete
  <2> QED BY <1>1, <2>2, <2>3, <2>4, <2>5, GalleryStays DEF IInv
<1>3. CASE PersistFails /\ Abandon(u)
  BY <1>1, <1>3, AbandonStep DEF PersistFails
<1> QED BY <1>2, <1>3 DEF SaveSession

-----------------------------------------------------------------------------
(* resume.                                                                 *)

\* A request that moves to q while the uploads stay as they are.
LEMMA RequestStep ==
    ASSUME IInv, NEW r \in Requests, NEW q \in Request,
           requests' = [requests EXCEPT ![r] = q], RequestSound(q), faults' \in 0 .. MaxFaults,
           UNCHANGED <<started, sessions, memory, stored, expired, drive, jobs, told, gallery>>
    PROVE  IInv'
<1>1. \A o \in Request : RequestSound(o) => RequestSound(o)'
  BY DEF RequestSound, Stored
<1>2. /\ requests' \in [Requests -> Request]
      /\ \A s \in Requests : RequestSound(requests[s])'
  BY <1>1, RequestsStaySound
<1>3. TypeOK'
  BY <1>2 DEF IInv, TypeOK, gallery, Stored
<1>4. Complete' = Complete
  BY DEF Complete
<1> QED BY <1>2, <1>3, <1>4, SessionsStay, UploadsStay, GalleryStays DEF IInv

LEMMA ReturnStep ==
    ASSUME IInv, NEW r \in Requests, Return(r), faults' \in 0 .. MaxFaults,
           UNCHANGED <<started, sessions, memory, stored, expired, drive, jobs, told, gallery>>
    PROVE  IInv'
<1>1. PICK q \in Request : requests' = [requests EXCEPT ![r] = q] /\ q.pc = "idle"
  BY ReturnFacts DEF IInv
<1>2. RequestSound(q)
  BY <1>1 DEF RequestSound
<1> QED BY <1>1, <1>2, RequestStep

LEMMA AskStep ==
    ASSUME IInv, NEW r \in Requests, NEW u \in Uploads, NEW from \in 0 .. Size,
           NEW to \in 0 .. Size, Ask(r, u, from, to)
    PROVE  IInv'
<1>1. PICK q : q = [pc |-> "lock", upload |-> u, from |-> from, to |-> to, got |-> 0]
  OBVIOUS
<1>2. q \in Request
  <2>1. 0 \in 0 .. Size
    BY UploadAssumption
  <2> QED BY <1>1, <2>1 DEF Request
<1>3. RequestSound(q)
  BY <1>1 DEF Ask, IInv, UploadSound, RequestSound
<1>4. faults' \in 0 .. MaxFaults
  BY DEF Ask, IInv, TypeOK
<1> QED BY <1>1, <1>2, <1>3, <1>4, RequestStep DEF Ask

\* Under the mutex: the first chunk of a genuine file marks it as validated,
\* a later one follows bytes that were.
LEMMA LockStep == ASSUME IInv, NEW r \in Requests, Lock(r) PROVE IInv'
<1>1. PICK c \in Request : c = requests[r]
  BY DEF IInv, TypeOK
<1>2. PICK u \in Uploads : u = c.upload
  BY DEF Request
<1>3. /\ c.pc = "lock" /\ RequestSound(c)
      /\ UNCHANGED <<started, sessions, stored, expired, drive, jobs, told, gallery, faults>>
  BY <1>1 DEF Lock, At, IInv
<1>4. /\ faults' \in 0 .. MaxFaults /\ 0 \in 0 .. Size
      /\ memory[u] \in Upload /\ drive[u] \in Nat
  BY <1>3, UploadAssumption DEF IInv, TypeOK
<1>5. CASE memory[u].complete /\ Advance(r, "save", 0) /\ UNCHANGED memory
  <2>1. PICK q \in Request : requests' = [requests EXCEPT ![r] = q] /\ q.pc = "save"
                             /\ q.upload = u
    BY <1>1, <1>2, <1>4, <1>5, AdvanceFacts DEF IInv
  <2>2. RequestSound(q)
    BY <1>2, <1>3, <2>1 DEF RequestSound
  <2> QED BY <1>3, <1>4, <1>5, <2>1, <2>2, RequestStep
<1>6. CASE Return(r) /\ UNCHANGED memory
  BY <1>3, <1>4, <1>6, ReturnStep
<1>7. CASE u \in Genuine /\ memory' = [memory EXCEPT ![u].sniffed = TRUE] /\ Goto(r, "sniff")
  <2>1. PICK q \in Request : requests' = [requests EXCEPT ![r] = q] /\ q.pc = "sniff"
                             /\ q.upload = u
    BY <1>1, <1>2, <1>7, GotoFacts DEF IInv
  <2>2. PICK m : m = [memory[u] EXCEPT !.sniffed = TRUE]
    OBVIOUS
  <2>3. /\ m \in Upload /\ m.offset = memory[u].offset /\ m.complete = memory[u].complete
        /\ m.sniffed
    BY <1>4, <2>2 DEF Upload
  <2>4. memory' = [memory EXCEPT ![u] = m]
    BY <1>7, <2>2
  <2>5. /\ memory' \in [Uploads -> Upload] /\ memory'[u] = m
        /\ \A x \in Uploads : x # u => memory'[x] = memory[x]
    BY <2>3, <2>4 DEF IInv, TypeOK
  <2>6. \A x \in Uploads : /\ memory'[x].offset = memory[x].offset
                           /\ memory'[x].complete = memory[x].complete
                           /\ memory[x].sniffed => memory'[x].sniffed
    BY <2>3, <2>5
  <2>7. ASSUME NEW o \in Request, RequestSound(o) PROVE RequestSound(o)'
    <3>1. o.upload \in Uploads
      BY DEF Request
    <3> QED BY <1>3, <2>6, <2>7, <3>1 DEF RequestSound, Stored
  <2>8. RequestSound(q)'
    BY <1>2, <1>3, <1>7, <2>1, <2>3, <2>5 DEF RequestSound
  <2>9. /\ requests' \in [Requests -> Request]
        /\ \A s \in Requests : RequestSound(requests[s])'
    BY <2>1, <2>7, <2>8, RequestsStaySound
  <2>10. TypeOK'
    BY <1>3, <2>5, <2>9 DEF IInv, TypeOK, gallery, Stored
  <2>11. ASSUME NEW x \in Uploads PROVE UploadSound(x)'
    BY <1>3, <2>6 DEF IInv, UploadSound, Stored
  <2>12. Complete' = Complete
    BY <2>6 DEF Complete
  <2> QED BY <1>3, <2>9, <2>10, <2>11, <2>12, SessionsStay, GalleryStays DEF IInv
<1>8. CASE /\ c.to = 0 \/ (c.from = memory[u].offset /\ c.from > 0)
           /\ Goto(r, "send") /\ UNCHANGED memory
  <2>1. PICK q \in Request : requests' = [requests EXCEPT ![r] = q] /\ q.pc = "send"
                             /\ q.upload = u /\ q.to = c.to
    BY <1>1, <1>2, <1>8, GotoFacts DEF IInv
  <2>2. q.to > 0 => drive[u] > 0
    <3>1. c.to = 0 => ~ (c.to > 0)
      OBVIOUS
    <3>2. c.from > 0 /\ c.from = memory[u].offset => drive[u] > 0
      <4>1. memory[u].offset <= drive[u] /\ memory[u].offset \in Nat
        BY <1>4, UploadAssumption DEF IInv, UploadSound, Upload
      <4> QED BY <1>4, <4>1
    <3> QED BY <1>8, <2>1, <3>1, <3>2
  <2>3. RequestSound(q)
    BY <1>2, <1>3, <2>1, <2>2 DEF IInv, UploadSound, RequestSound
  <2> QED BY <1>3, <1>4, <1>8, <2>1, <2>3, RequestStep
<1> QED BY <1>1, <1>2, <1>5, <1>6, <1>7, <1>8 DEF Lock

\* persist by a request, of an upload whose bytes are validated.
LEMMA PersistStep ==
    ASSUME IInv, NEW r \in Requests, requests[r].pc \in {"sniff", "save"},
           NEW u \in Uploads, u = requests[r].upload, Persist(u),
           NEW q \in Request, requests' = [requests EXCEPT ![r] = q],
           q.pc = "idle" \/ (q.pc = "send" /\ q.upload = u /\ u \in Genuine /\ memory[u].sniffed),
           told' \in [Uploads -> 0 .. Size],
           \A x \in Uploads : x # u => told'[x] = told[x],
           u \notin expired => told'[u] <= memory[u].offset,
           UNCHANGED <<started, sessions, memory, expired, drive, gallery>>
    PROVE  IInv'
<1>1. started[u] = "open" /\ (drive[u] > 0 => memory[u].sniffed)
  BY DEF IInv, RequestSound
<1>2. started' = [started EXCEPT ![u] = "open"]
  BY <1>1 DEF IInv, TypeOK
<1>3. u \in sessions \cup expired
  BY <1>1 DEF IInv, SessionSound
<1>4. /\ SessionsFit'
      /\ \A x \in Uploads : SessionSound(x)' /\ UploadSound(x)'
      /\ \A o \in Request : RequestSound(o) => RequestSound(o)'
  BY <1>1, <1>2, <1>3, PersistKeeps
<1>5. stored'[u] = memory[u]
  BY PersistFacts DEF IInv
<1>6. RequestSound(q)'
  BY <1>1, <1>5 DEF RequestSound
<1>7. /\ requests' \in [Requests -> Request]
      /\ \A s \in Requests : RequestSound(requests[s])'
  BY <1>4, <1>6, RequestsStaySound
<1>8. TypeOK'
  BY <1>7, PersistFacts DEF IInv, TypeOK, gallery, Stored
<1>9. Complete' = Complete
  BY DEF Complete
<1> QED BY <1>4, <1>7, <1>8, <1>9, GalleryStays DEF IInv

LEMMA SaveSniffedStep == ASSUME IInv, NEW r \in Requests, SaveSniffed(r) PROVE IInv'
<1>1. PICK u \in Uploads : u = requests[r].upload
  BY DEF IInv, TypeOK, Request
<1>2. /\ requests[r].pc = "sniff"
      /\ UNCHANGED <<started, sessions, memory, expired, drive, told, gallery>>
  BY DEF SaveSniffed, At
<1>3. CASE Persist(u) /\ Goto(r, "send")
  <2>1. PICK q \in Request : requests' = [requests EXCEPT ![r] = q] /\ q.pc = "send"
                             /\ q.upload = u
    BY <1>1, <1>3, GotoFacts DEF IInv
  <2>2. /\ u \in Genuine /\ memory[u].sniffed /\ told' \in [Uploads -> 0 .. Size]
        /\ u \notin expired => told'[u] <= memory[u].offset
    BY <1>1, <1>2 DEF IInv, TypeOK, RequestSound, UploadSound
  <2> QED BY <1>1, <1>2, <1>3, <2>1, <2>2, PersistStep
<1>4. CASE PersistFails /\ Return(r)
  <2>1. faults' \in 0 .. MaxFaults
    BY <1>4, UploadAssumption DEF PersistFails, Fault, IInv, TypeOK
  <2> QED BY <1>2, <1>4, <2>1, ReturnStep DEF PersistFails
<1> QED BY <1>1, <1>3, <1>4 DEF SaveSniffed

LEMMA SaveAndAnswerStep == ASSUME IInv, NEW r \in Requests, SaveAndAnswer(r) PROVE IInv'
<1>1. PICK u \in Uploads : u = requests[r].upload
  BY DEF IInv, TypeOK, Request
<1>2. /\ requests[r].pc = "save" /\ Return(r)
      /\ UNCHANGED <<started, sessions, memory, expired, drive, gallery>>
  BY DEF SaveAndAnswer, At
<1>3. CASE Persist(u) /\ told' = [told EXCEPT ![u] = memory[u].offset]
  <2>1. PICK q \in Request : requests' = [requests EXCEPT ![r] = q] /\ q.pc = "idle"
    BY <1>2, ReturnFacts DEF IInv
  <2>2. memory[u].offset \in 0 .. Size
    BY DEF IInv, TypeOK, Upload
  <2>3. /\ told' \in [Uploads -> 0 .. Size] /\ told'[u] = memory[u].offset
        /\ \A x \in Uploads : x # u => told'[x] = told[x]
    BY <1>3, <2>2 DEF IInv, TypeOK
  <2>4. told'[u] <= memory[u].offset
    BY <2>2, <2>3, UploadAssumption
  <2> QED BY <1>1, <1>2, <1>3, <2>1, <2>3, <2>4, PersistStep
<1>4. CASE PersistFails /\ UNCHANGED told
  <2>1. faults' \in 0 .. MaxFaults
    BY <1>4, UploadAssumption DEF PersistFails, Fault, IInv, TypeOK
  <2> QED BY <1>2, <1>4, <2>1, ReturnStep DEF PersistFails
<1> QED BY <1>1, <1>3, <1>4 DEF SaveAndAnswer

\* Drive gets the first bytes from a request that validated them.
LEMMA SendToDriveStep == ASSUME IInv, NEW r \in Requests, SendToDrive(r) PROVE IInv'
<1>1. PICK c \in Request : c = requests[r]
  BY DEF IInv, TypeOK
<1>2. PICK u \in Uploads : u = c.upload
  BY DEF Request
<1>3. /\ c.pc = "send" /\ RequestSound(c)
      /\ UNCHANGED <<started, sessions, memory, stored, expired, jobs, told, gallery, faults>>
  BY <1>1 DEF SendToDrive, At, IInv
<1>4. PICK n \in drive[u] .. Size :
          /\ n > drive[u] => n <= c.to
          /\ drive' = [drive EXCEPT ![u] = n]
          /\ Advance(r, "answer", n)
  BY <1>1, <1>2 DEF SendToDrive
<1>5. /\ drive[u] \in 0 .. Size /\ n \in 0 .. Size /\ drive[u] <= n
      /\ c.to \in Nat /\ n \in Nat /\ drive[u] \in Nat
  BY <1>4, UploadAssumption DEF IInv, TypeOK, Request
<1>6. /\ drive' \in [Uploads -> 0 .. Size] /\ drive'[u] = n
      /\ \A x \in Uploads : x # u => drive'[x] = drive[x]
  BY <1>4, <1>5 DEF IInv, TypeOK
<1>7. n > 0 => /\ u \in Genuine /\ started[u] = "open" /\ memory[u].sniffed
               /\ u \in Stored => stored[u].sniffed
  <2>1. CASE drive[u] > 0
    BY <1>2, <1>3, <2>1 DEF IInv, RequestSound, UploadSound
  <2>2. CASE ~ (drive[u] > 0)
    <3>1. n > 0 => n > drive[u]
      BY <1>5, <2>2
    <3>2. n > 0 => c.to > 0
      BY <1>4, <1>5, <3>1
    <3> QED BY <1>2, <1>3, <3>2 DEF RequestSound
  <2> QED BY <2>1, <2>2
<1>8. PICK q \in Request : requests' = [requests EXCEPT ![r] = q] /\ q.pc = "answer"
                           /\ q.upload = u /\ q.got = n
  BY <1>1, <1>2, <1>4, <1>5, AdvanceFacts DEF IInv
<1>9. ASSUME NEW o \in Request, RequestSound(o) PROVE RequestSound(o)'
  <2>1. o.upload \in Uploads /\ o.got \in Nat
    BY UploadAssumption DEF Request
  <2>2. CASE o.upload = u
    <3>1. o.got <= drive[u] => o.got <= n
      BY <1>5, <2>1
    <3> QED BY <1>3, <1>6, <1>7, <1>9, <2>2, <3>1 DEF RequestSound, Stored
  <2>3. CASE o.upload # u
    BY <1>3, <1>6, <1>9, <2>1, <2>3 DEF RequestSound, Stored
  <2> QED BY <2>2, <2>3
<1>10. RequestSound(q)'
  <2>1. n <= n
    BY <1>5
  <2> QED BY <1>2, <1>3, <1>6, <1>7, <1>8, <2>1 DEF RequestSound
<1>11. /\ requests' \in [Requests -> Request]
       /\ \A s \in Requests : RequestSound(requests[s])'
  BY <1>8, <1>9, <1>10, RequestsStaySound
<1>12. TypeOK'
  BY <1>3, <1>6, <1>11 DEF IInv, TypeOK, gallery, Stored
<1>13. ASSUME NEW x \in Uploads PROVE UploadSound(x)'
  <2>1. CASE x = u
    <3>1. /\ memory[u].offset \in Nat
          /\ u \in Stored => stored[u].offset \in Nat
      BY UploadAssumption DEF IInv, TypeOK, Upload, Stored
    <3>2. /\ memory[u].offset <= n
          /\ u \in Stored => stored[u].offset <= n
      BY <1>5, <3>1 DEF IInv, UploadSound
    <3> QED BY <1>3, <1>6, <1>7, <2>1, <3>2 DEF IInv, UploadSound, Stored
  <2>2. CASE x # u
    BY <1>3, <1>6, <2>2 DEF IInv, UploadSound, Stored
  <2> QED BY <2>1, <2>2
<1>14. Complete' = Complete
  BY <1>3 DEF Complete
<1> QED BY <1>3, <1>11, <1>12, <1>13, <1>14, SessionsStay, GalleryStays DEF IInv

LEMMA DriveFailsStep == ASSUME IInv, NEW r \in Requests, DriveFails(r) PROVE IInv'
<1>1. faults' \in 0 .. MaxFaults
  BY UploadAssumption DEF DriveFails, Fault, IInv, TypeOK
<1> QED BY <1>1, ReturnStep DEF DriveFails

\* The record follows what Drive reports; a completion empties the gallery's
\* caches and makes the pages under way stale.
LEMMA HandleAnswerStep == ASSUME IInv, NEW r \in Requests, HandleAnswer(r) PROVE IInv'
<1>1. PICK c \in Request : c = requests[r]
  BY DEF IInv, TypeOK
<1>2. PICK u \in Uploads : u = c.upload
  BY DEF Request
<1>3. /\ c.pc = "answer" /\ RequestSound(c)
      /\ UNCHANGED <<started, sessions, stored, expired, drive, jobs, told, faults>>
  BY <1>1 DEF HandleAnswer, At, IInv
<1>4. /\ faults' \in 0 .. MaxFaults /\ 0 \in 0 .. Size /\ Size \in 0 .. Size
      /\ Size \in Nat \ {0} /\ memory[u] \in Upload /\ memory[u].offset \in 0 .. Size
      /\ memory[u].complete \in BOOLEAN
      /\ drive[u] \in 0 .. Size /\ told[u] \in 0 .. Size /\ c.got \in 0 .. Size
  BY <1>3, UploadAssumption DEF IInv, TypeOK, Upload, Request
<1>5. c.got <= drive[u] /\ UploadSound(u)
  BY <1>2, <1>3 DEF RequestSound, IInv
<1>6. ASSUME NEW m \in Upload, memory' = [memory EXCEPT ![u] = m], Advance(r, "save", 0),
             m.sniffed = memory[u].sniffed, memory[u].offset <= m.offset, m.offset <= drive[u],
             m.complete => m.offset = Size
      PROVE  /\ requests' \in [Requests -> Request] /\ memory' \in [Uploads -> Upload]
             /\ \A x \in Uploads : UploadSound(x)'
             /\ \A s \in Requests : RequestSound(requests[s])'
             /\ memory'[u] = m
             /\ \A x \in Uploads : x # u => memory'[x] = memory[x]
  <2>1. /\ memory' \in [Uploads -> Upload] /\ memory'[u] = m
        /\ \A x \in Uploads : x # u => memory'[x] = memory[x]
        /\ \A x \in Uploads : memory'[x].sniffed = memory[x].sniffed
    BY <1>6 DEF IInv, TypeOK
  <2>2. PICK q \in Request : requests' = [requests EXCEPT ![r] = q] /\ q.pc = "save"
                             /\ q.upload = u
    BY <1>1, <1>2, <1>4, <1>6, AdvanceFacts DEF IInv
  <2>3. ASSUME NEW o \in Request, RequestSound(o) PROVE RequestSound(o)'
    <3>1. o.upload \in Uploads
      BY DEF Request
    <3> QED BY <1>3, <2>1, <2>3, <3>1 DEF RequestSound, Stored
  <2>4. RequestSound(q)'
    BY <1>2, <1>3, <2>1, <2>2 DEF RequestSound
  <2>5. /\ requests' \in [Requests -> Request]
        /\ \A s \in Requests : RequestSound(requests[s])'
    BY <2>2, <2>3, <2>4, RequestsStaySound
  <2>6. ASSUME NEW x \in Uploads PROVE UploadSound(x)'
    <3>1. CASE x = u
      <4>1. m.offset \in Nat /\ memory[u].offset \in Nat /\ told[u] \in Nat
        BY <1>4, UploadAssumption DEF Upload
      <4>2. told[u] <= memory[u].offset => told[u] <= m.offset
        BY <1>6, <4>1
      <4> QED BY <1>3, <1>5, <1>6, <2>1, <3>1, <4>2 DEF UploadSound, Stored
    <3>2. CASE x # u
      BY <1>3, <2>1, <3>2 DEF IInv, UploadSound, Stored
    <3> QED BY <3>1, <3>2
  <2> QED BY <2>1, <2>5, <2>6
<1>7. CASE Return(r) /\ UNCHANGED <<memory, gallery>>
  BY <1>3, <1>4, <1>7, ReturnStep
<1>8. CASE /\ c.got < Size /\ ~ (c.got < memory[u].offset)
           /\ memory' = [memory EXCEPT ![u].offset = c.got] /\ Advance(r, "save", 0)
           /\ UNCHANGED gallery
  <2>1. PICK m : m = [memory[u] EXCEPT !.offset = c.got]
    OBVIOUS
  <2>2. /\ m \in Upload /\ m.offset = c.got /\ m.sniffed = memory[u].sniffed
        /\ m.complete = memory[u].complete
    BY <1>4, <2>1 DEF Upload
  <2>3. memory' = [memory EXCEPT ![u] = m]
    BY <1>8, <2>1
  <2>4. ~memory[u].complete
    BY <1>4, <1>5, <1>8 DEF UploadSound
  <2>5. memory[u].offset <= m.offset /\ m.offset <= drive[u]
    BY <1>4, <1>5, <1>8, <2>2
  <2>6. /\ requests' \in [Requests -> Request] /\ memory' \in [Uploads -> Upload]
        /\ \A x \in Uploads : UploadSound(x)'
        /\ \A s \in Requests : RequestSound(requests[s])'
        /\ memory'[u] = m
        /\ \A x \in Uploads : x # u => memory'[x] = memory[x]
    BY <1>6, <1>8, <2>2, <2>3, <2>4, <2>5
  <2>7. Complete' = Complete
    BY <2>2, <2>6 DEF Complete
  <2>8. TypeOK'
    BY <1>3, <1>8, <2>6 DEF IInv, TypeOK, gallery, Stored
  <2> QED BY <1>3, <1>8, <2>6, <2>7, <2>8, SessionsStay, GalleryStays DEF IInv
<1>9. CASE /\ c.got = Size /\ memory[u].sniffed
           /\ memory' = [memory EXCEPT ![u].offset = Size, ![u].complete = TRUE]
           /\ Advance(r, "save", 0)
           /\ InvalidateCaches
  <2>1. PICK m : m = [memory[u] EXCEPT !.offset = Size, !.complete = TRUE]
    OBVIOUS
  <2>2. /\ m \in Upload /\ m.offset = Size /\ m.sniffed = memory[u].sniffed /\ m.complete
    BY <1>4, <2>1 DEF Upload
  <2>3. memory' = [memory EXCEPT ![u] = m]
    BY <1>9, <2>1 DEF IInv, TypeOK
  <2>4. memory[u].offset <= m.offset /\ m.offset <= drive[u]
    BY <1>4, <1>5, <1>9, <2>2
  <2>5. cache' = {} /\ generation' = generation + 1 /\ generation \in Nat /\ viewers' = viewers
    BY <1>9 DEF InvalidateCaches, IInv, TypeOK
  <2>6. generation' # generation
    BY <2>5
  <2>7. /\ requests' \in [Requests -> Request] /\ memory' \in [Uploads -> Upload]
        /\ \A x \in Uploads : UploadSound(x)'
        /\ \A s \in Requests : RequestSound(requests[s])'
    BY <1>6, <1>9, <2>2, <2>3, <2>4, <2>6 DEF gallery, TypeOK
  <2>8. TypeOK'
    <3>1. Cardinality({}) <= 1
      BY FS_EmptySet
    <3> QED BY <1>3, <2>5, <2>7, <3>1 DEF IInv, TypeOK, Stored
  <2>9. ASSUME NEW v \in Viewers PROVE ViewerSound(viewers[v])'
    <3>1. viewers[v].generation \in Nat
      BY DEF IInv, TypeOK, Viewer
    <3>2. viewers[v].pc # "idle" => viewers[v].generation <= generation
      BY DEF IInv, ViewerSound
    <3>3. viewers[v].pc # "idle" => /\ viewers[v].generation <= generation + 1
                                    /\ viewers[v].generation # generation + 1
      BY <2>5, <3>1, <3>2
    <3> QED BY <2>5, <3>3 DEF ViewerSound
  <2> QED BY <1>3, <2>5, <2>7, <2>8, <2>9, SessionsStay DEF IInv
<1> QED BY <1>1, <1>2, <1>7, <1>8, <1>9 DEF HandleAnswer

-----------------------------------------------------------------------------
(* list.                                                                   *)

LEMMA ListStep ==
    ASSUME IInv, NEW v \in Viewers, NEW w \in Viewer, viewers' = [viewers EXCEPT ![v] = w],
           ViewerSound(w), cache' \subseteq SUBSET Uploads, Cardinality(cache') <= 1,
           \A page \in cache' : Complete \subseteq page,
           UNCHANGED <<started, sessions, memory, stored, expired, drive, jobs, requests, told,
                       generation, faults>>
    PROVE  IInv'
<1>1. /\ viewers' \in [Viewers -> Viewer] /\ viewers'[v] = w
      /\ \A x \in Viewers : x # v => viewers'[x] = viewers[x]
  BY DEF IInv, TypeOK
<1>2. TypeOK'
  BY <1>1 DEF IInv, TypeOK, Stored
<1>3. Complete' = Complete
  BY DEF Complete
<1>4. ASSUME NEW x \in Viewers PROVE ViewerSound(viewers[x])'
  BY <1>1, <1>3 DEF IInv, ViewerSound
<1> QED BY <1>2, <1>3, <1>4, SessionsStay, UploadsStay, RequestsStay DEF IInv

LEMMA StartListStep == ASSUME IInv, NEW v \in Viewers, StartList(v) PROVE IInv'
<1>1. PICK w : w = [pc |-> "fetch", generation |-> generation, page |-> {}]
  OBVIOUS
<1>2. generation \in Nat /\ generation <= generation
  BY DEF IInv, TypeOK
<1>3. w \in Viewer /\ ViewerSound(w)
  BY <1>1, <1>2 DEF Viewer, ViewerSound
<1> QED BY <1>1, <1>3, ListStep DEF StartList, IInv, TypeOK

\* Drive has every upload that is complete here.
LEMMA FetchPageStep == ASSUME IInv, NEW v \in Viewers, FetchPage(v) PROVE IInv'
<1> DEFINE page == {u \in Uploads : drive[u] = Size}
<1>1. PICK w : w = [viewers[v] EXCEPT !.pc = "store", !.page = page]
  OBVIOUS
<1>2. viewers[v] \in Viewer /\ ViewerSound(viewers[v])
  BY DEF IInv, TypeOK
<1>3. Complete \subseteq page
  <2>1. ASSUME NEW u \in Uploads, memory[u].complete PROVE drive[u] = Size
    <3>1. memory[u].offset = Size /\ memory[u].offset <= drive[u] /\ drive[u] \in 0 .. Size
      BY <2>1 DEF IInv, UploadSound, TypeOK
    <3> QED BY <3>1, UploadAssumption
  <2> QED BY <2>1 DEF Complete
<1>4. page \subseteq Uploads
  OBVIOUS
<1>5. viewers' = [viewers EXCEPT ![v] = w]
  BY <1>1 DEF FetchPage, IInv, TypeOK
<1> HIDE DEF page
<1>6. /\ w \in Viewer /\ w.pc = "store" /\ w.page = page
      /\ w.generation = viewers[v].generation
  BY <1>1, <1>2, <1>4 DEF Viewer
<1>7. ViewerSound(w)
  BY <1>2, <1>3, <1>6 DEF ViewerSound, FetchPage
<1> QED BY <1>5, <1>6, <1>7, ListStep DEF FetchPage, IInv, TypeOK

LEMMA StorePageStep == ASSUME IInv, NEW v \in Viewers, StorePage(v) PROVE IInv'
<1>1. PICK w : w = NoViewer
  OBVIOUS
<1>2. w \in Viewer /\ ViewerSound(w)
  BY <1>1 DEF NoViewer, Viewer, ViewerSound
<1>3. viewers[v] \in Viewer /\ ViewerSound(viewers[v]) /\ viewers[v].pc = "store"
  BY DEF IInv, TypeOK, StorePage
<1>4. CASE viewers[v].generation = generation /\ cache' = {viewers[v].page}
  <2>1. Complete \subseteq viewers[v].page /\ viewers[v].page \subseteq Uploads
    BY <1>3, <1>4 DEF ViewerSound, Viewer
  <2>2. Cardinality(cache') <= 1
    BY <1>4, FS_Singleton
  <2> QED BY <1>1, <1>2, <1>4, <2>1, <2>2, ListStep DEF StorePage
<1>5. CASE cache' = cache
  BY <1>1, <1>2, <1>5, ListStep DEF StorePage, IInv, TypeOK
<1> QED BY <1>4, <1>5 DEF StorePage

LEMMA PageExpiresStep == ASSUME IInv, PageExpires PROVE IInv'
<1>1. Complete' = Complete
  BY DEF PageExpires, Complete
<1>2. TypeOK'
  <2>1. Cardinality({}) <= 1
    BY FS_EmptySet
  <2> QED BY <2>1 DEF PageExpires, IInv, TypeOK, Stored
<1>3. ASSUME NEW v \in Viewers PROVE ViewerSound(viewers[v])'
  BY <1>1 DEF PageExpires, IInv, ViewerSound
<1>4. cache' = {} /\ UNCHANGED <<started, sessions, memory, stored, expired, drive, requests, told>>
  BY DEF PageExpires
<1> QED BY <1>2, <1>3, <1>4, SessionsStay, UploadsStay, RequestsStay DEF IInv

-----------------------------------------------------------------------------
(* Time and the process.                                                   *)

LEMMA ExpireStep == ASSUME IInv, NEW u \in Uploads, Expire(u) PROVE IInv'
<1>1. /\ expired' = expired \cup {u}
      /\ UNCHANGED <<started, sessions, memory, stored, drive, jobs, requests, told, gallery,
                     faults>>
  BY DEF Expire
<1>2. TypeOK'
  BY <1>1 DEF IInv, TypeOK, gallery, Stored
<1>3. SessionsFit'
  <2>1. (sessions \ expired)' \subseteq sessions \ expired
    BY <1>1
  <2>2. IsFiniteSet(sessions \ expired)
    BY UploadAssumption, FS_Subset DEF IInv, TypeOK
  <2>3. /\ Cardinality((sessions \ expired)') <= Cardinality(sessions \ expired)
        /\ IsFiniteSet((sessions \ expired)')
    BY <2>1, <2>2, FS_Subset
  <2> QED BY <2>2, <2>3, FS_CardinalityType, UploadAssumption DEF IInv, SessionsFit
<1>4. ASSUME NEW x \in Uploads PROVE SessionSound(x)' /\ UploadSound(x)'
  BY <1>1 DEF IInv, SessionSound, UploadSound, Stored
<1>5. Complete' = Complete
  BY <1>1 DEF Complete
<1> QED BY <1>1, <1>2, <1>3, <1>4, <1>5, RequestsStay, GalleryStays DEF IInv

\* newService loads every session that has not expired: they are no more than
\* memory held.
LEMMA RestartLoadsAll == ASSUME IInv, NEW S \in Loadable PROVE S = Stored \ expired
<1>1. Stored \ expired \subseteq sessions \ expired
  BY DEF IInv, TypeOK, SessionSound, Stored
<1>2. IsFiniteSet(sessions \ expired)
  BY UploadAssumption, FS_Subset DEF IInv, TypeOK
<1>3. /\ IsFiniteSet(Stored \ expired)
      /\ Cardinality(Stored \ expired) <= Cardinality(sessions \ expired)
  BY <1>1, <1>2, FS_Subset
<1>4. /\ S \subseteq Stored \ expired /\ Cardinality(S) <= MaxSessions
      /\ Cardinality(S) < MaxSessions => S = Stored \ expired
  BY DEF Loadable
<1>5. /\ Cardinality(S) \in Nat /\ Cardinality(Stored \ expired) \in Nat
      /\ Cardinality(sessions \ expired) \in Nat /\ MaxSessions \in Nat
      /\ Cardinality(S) <= Cardinality(Stored \ expired)
      /\ Cardinality(S) = Cardinality(Stored \ expired) => S = Stored \ expired
  BY <1>2, <1>3, <1>4, FS_Subset, FS_CardinalityType, UploadAssumption
<1>6. Cardinality(sessions \ expired) <= MaxSessions
  BY DEF IInv, SessionsFit
<1>7. CASE Cardinality(S) < MaxSessions
  BY <1>4, <1>7
<1>8. CASE ~ (Cardinality(S) < MaxSessions)
  <2>1. Cardinality(S) = Cardinality(Stored \ expired)
    BY <1>3, <1>5, <1>6, <1>8
  <2> QED BY <1>5, <2>1
<1> QED BY <1>7, <1>8

LEMMA RestartStep == ASSUME IInv, Restart PROVE IInv'
<1>1. PICK S \in Loadable : sessions' = S
  BY DEF Restart
<1>2. sessions' = Stored \ expired
  BY <1>1, RestartLoadsAll
<1>3. UNCHANGED <<stored, expired, drive, jobs, told>>
  BY DEF Restart
<1>4. /\ \A u \in Uploads : started'[u] = IF started[u] \in {"drive", "save"}
                                          THEN "failed" ELSE started[u]
      /\ started' \in [Uploads -> {"new", "drive", "save", "open", "failed"}]
  BY DEF Restart, IInv, TypeOK
<1>5. NoUpload \in Upload /\ NoUpload.offset = 0 /\ ~NoUpload.complete
  <2>1. 0 \in 0 .. Size
    BY UploadAssumption
  <2> QED BY <2>1 DEF NoUpload, Upload
<1>6. /\ \A u \in Uploads : memory'[u] = IF u \in sessions' THEN stored[u] ELSE NoUpload
      /\ memory' \in [Uploads -> Upload]
  <2>1. \A u \in sessions' : stored[u] \in Upload
    BY <1>2 DEF IInv, TypeOK, Stored
  <2> QED BY <1>5, <2>1 DEF Restart
<1>7. /\ cache' = {} /\ generation' = 0
      /\ \A v \in Viewers : viewers'[v].pc = "idle"
      /\ viewers' \in [Viewers -> Viewer]
  BY DEF Restart, NoViewer, Viewer
<1>8. /\ \A r \in Requests : requests'[r].pc = "idle"
      /\ requests' \in [Requests -> Request]
  BY NoRequestFacts DEF Restart
<1>9. TypeOK'
  <2>1. faults' \in 0 .. MaxFaults
    BY UploadAssumption DEF Restart, Fault, IInv, TypeOK
  <2>2. Cardinality({}) <= 1
    BY FS_EmptySet
  <2>3. sessions' \subseteq Uploads
    BY <1>2 DEF IInv, TypeOK, Stored
  <2> QED BY <1>3, <1>4, <1>6, <1>7, <1>8, <2>1, <2>2, <2>3 DEF IInv, TypeOK
<1>10. SessionsFit'
  <2>1. (sessions \ expired)' \subseteq sessions \ expired
    BY <1>2, <1>3 DEF IInv, SessionSound, TypeOK, Stored
  <2>2. IsFiniteSet(sessions \ expired)
    BY UploadAssumption, FS_Subset DEF IInv, TypeOK
  <2>3. /\ Cardinality((sessions \ expired)') <= Cardinality(sessions \ expired)
        /\ IsFiniteSet((sessions \ expired)')
    BY <2>1, <2>2, FS_Subset
  <2> QED BY <2>2, <2>3, FS_CardinalityType, UploadAssumption DEF IInv, SessionsFit
<1>11. ASSUME NEW u \in Uploads PROVE SessionSound(u)'
  BY <1>2, <1>3, <1>4 DEF IInv, SessionSound, Stored
<1>12. ASSUME NEW u \in Uploads PROVE UploadSound(u)'
  <2>1. SessionSound(u) /\ UploadSound(u) /\ drive[u] \in 0 .. Size /\ told[u] \in 0 .. Size
        /\ memory[u].offset \in 0 .. Size /\ Size \in Nat
    BY UploadAssumption DEF IInv, TypeOK, Upload
  <2>2. started'[u] = "open" <=> started[u] = "open"
    BY <1>4
  <2>3. CASE u \in sessions'
    BY <1>2, <1>3, <1>6, <2>1, <2>2, <2>3 DEF UploadSound, Stored
  <2>4. CASE u \notin sessions'
    <3>1. u \notin expired => started[u] # "open"
      BY <1>2, <2>1, <2>4 DEF SessionSound
    <3>2. u \notin expired => ~ (drive[u] > 0)
      BY <2>1, <3>1 DEF UploadSound
    <3>3. u \notin expired => told[u] <= 0
      BY <2>1, <3>2 DEF UploadSound
    <3>4. 0 <= drive[u]
      BY <2>1
    <3>5. memory'[u] = NoUpload
      BY <1>6, <2>4
    <3> QED BY <1>2, <1>3, <1>5, <2>1, <2>2, <2>4, <3>1, <3>2, <3>3, <3>4, <3>5
            DEF UploadSound, Stored
  <2> QED BY <2>3, <2>4
<1>13. ASSUME NEW r \in Requests PROVE RequestSound(requests[r])'
  BY <1>8 DEF RequestSound
<1>14. ASSUME NEW v \in Viewers PROVE ViewerSound(viewers[v])'
  BY <1>7 DEF ViewerSound
<1> QED BY <1>7, <1>9, <1>10, <1>11, <1>12, <1>13, <1>14 DEF IInv

-----------------------------------------------------------------------------
LEMMA InitIInv == Init => IInv
<1> SUFFICES ASSUME Init PROVE IInv
  OBVIOUS
<1>1. 0 \in 0 .. Size /\ 0 \in 0 .. MaxFaults /\ 0 <= 0 /\ ~ (0 > 0)
  BY UploadAssumption
<1>2. NoUpload \in Upload /\ NoUpload.offset = 0 /\ ~NoUpload.complete
  BY <1>1 DEF NoUpload, Upload
<1>3. Stored = {} /\ stored \in [DOMAIN stored -> Upload]
  BY DEF Init, Stored
<1>4. TypeOK
  <2>1. Cardinality({}) <= 1
    BY FS_EmptySet
  <2> QED BY <1>1, <1>2, <1>3, <2>1, NoRequestFacts DEF Init, TypeOK, NoViewer, Viewer, Stored
<1>5. SessionsFit
  <2>1. sessions \ expired = {}
    BY DEF Init
  <2> QED BY <2>1, FS_EmptySet, UploadAssumption DEF SessionsFit
<1>6. ASSUME NEW u \in Uploads PROVE SessionSound(u) /\ UploadSound(u)
  <2>1. started[u] = "new" /\ memory[u] = NoUpload /\ drive[u] = 0 /\ told[u] = 0
    BY DEF Init
  <2> QED BY <1>1, <1>2, <1>3, <2>1 DEF SessionSound, UploadSound, Init
<1>7. ASSUME NEW r \in Requests PROVE RequestSound(requests[r])
  <2>1. requests[r].pc = "idle"
    BY NoRequestFacts DEF Init
  <2> QED BY <2>1 DEF RequestSound
<1>8. ASSUME NEW v \in Viewers PROVE ViewerSound(viewers[v])
  <2>1. viewers[v].pc = "idle"
    BY DEF Init, NoViewer
  <2> QED BY <2>1 DEF ViewerSound
<1>9. cache = {}
  BY DEF Init
<1> QED BY <1>4, <1>5, <1>6, <1>7, <1>8, <1>9 DEF IInv

LEMMA NextIInv == ASSUME IInv, [Next]_vars PROVE IInv'
<1>1. ASSUME NEW u \in Uploads, ReserveSession(u) \/ Starting(u) \/ Expire(u) PROVE IInv'
  BY <1>1, ReserveSessionStep, OpenDriveSessionStep, SaveSessionStep, ExpireStep DEF Starting
<1>2. ASSUME NEW r \in Requests, NEW u \in Uploads, AskStatus(r, u) PROVE IInv'
  <2>1. 0 \in 0 .. Size
    BY UploadAssumption
  <2> QED BY <1>2, <2>1, AskStep DEF AskStatus
<1>3. ASSUME NEW r \in Requests, NEW u \in Uploads, NEW from \in 0 .. Size,
             SendChunk(r, u, from)
      PROVE  IInv'
  <2>1. PICK to \in (from + 1) .. Size : Ask(r, u, from, to)
    BY <1>3 DEF SendChunk
  <2>2. to \in 0 .. Size
    BY UploadAssumption
  <2> QED BY <2>1, <2>2, AskStep
<1>4. ASSUME NEW r \in Requests, Lock(r) \/ Serving(r) PROVE IInv'
  BY <1>4, LockStep, SaveSniffedStep, SendToDriveStep, DriveFailsStep, HandleAnswerStep,
     SaveAndAnswerStep DEF Serving
<1>5. ASSUME NEW v \in Viewers, Listing(v) PROVE IInv'
  BY <1>5, StartListStep, FetchPageStep, StorePageStep DEF Listing
<1>6. CASE PageExpires \/ Restart
  BY <1>6, PageExpiresStep, RestartStep
<1>7. CASE UNCHANGED vars
  <2>1. /\ UNCHANGED <<started, sessions, memory, stored, expired, drive, jobs, requests, told,
                       gallery, faults>>
        /\ UNCHANGED <<cache, generation, viewers>>
    BY <1>7 DEF vars, gallery
  <2>2. TypeOK' /\ Complete' = Complete
    BY <2>1 DEF IInv, TypeOK, Complete, Stored
  <2> QED BY <2>1, <2>2, SessionsStay, UploadsStay, RequestsStay, GalleryStays DEF IInv
<1> QED BY <1>1, <1>2, <1>3, <1>4, <1>5, <1>6, <1>7 DEF Next

LEMMA InvariantHolds == Spec => []IInv
<1>1. IInv /\ [Next]_vars => IInv'
  BY NextIInv
<1> QED BY InitIInv, <1>1, PTL DEF Spec

-----------------------------------------------------------------------------
\* Guest, database and Drive agree on every upload: what an answer reported is
\* durable, the record never runs ahead of Drive, and Drive gets bytes of
\* validated media only, whatever answers and transactions are lost (resume).
THEOREM UploadsStayConsistent == Spec => []UploadsConsistent
<1>1. ASSUME IInv PROVE UploadsConsistent
  <2>1. TypeOK
    BY <1>1 DEF IInv
  <2>2. ASSUME NEW u \in Uploads, u \notin expired, told[u] > 0
        PROVE  u \in Stored /\ stored[u].offset >= told[u]
    <3>1. /\ told[u] \in Nat /\ memory[u].offset \in Nat /\ drive[u] \in Nat
          /\ SessionSound(u) /\ UploadSound(u)
      BY <1>1, UploadAssumption DEF IInv, TypeOK, Upload
    <3>2. drive[u] > 0
      BY <2>2, <3>1 DEF UploadSound
    <3>3. u \in Stored
      BY <2>2, <3>1, <3>2 DEF UploadSound, SessionSound
    <3>4. stored[u].offset \in Nat /\ told[u] <= stored[u].offset
      BY <1>1, <2>2, <3>1, <3>3, UploadAssumption DEF UploadSound, IInv, TypeOK, Upload, Stored
    <3> QED BY <3>1, <3>3, <3>4
  <2>3. RecordBehindDrive /\ BytesOnlyAfterValidation
    BY <1>1 DEF IInv, UploadSound, RecordBehindDrive, BytesOnlyAfterValidation
  <2> QED BY <2>1, <2>2, <2>3 DEF UploadsConsistent, AnswersAreDurable
<1> QED BY InvariantHolds, <1>1, PTL

\* Memory and database hold the same sessions: a failed start gives its place
\* back, and newService finds room for every upload it finds (start, newService).
THEOREM SessionsStayRecorded == Spec => []SessionsAreRecorded
<1>1. IInv => SessionsAreRecorded
  BY DEF IInv, TypeOK, SessionSound, SessionsAreRecorded, Stored
<1> QED BY InvariantHolds, <1>1, PTL

\* A page fetched before an upload completed is not cached after it
\* (list, invalidateCaches).
THEOREM CachedPagesStayCurrent == Spec => []CachedPageIsCurrent
<1>1. IInv => CachedPageIsCurrent
  BY DEF IInv, Complete, CachedPageIsCurrent
<1> QED BY InvariantHolds, <1>1, PTL
=============================================================================
