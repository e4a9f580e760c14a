--------------------------- MODULE MediaRequests ---------------------------
(***************************************************************************)
(* The requests of the gallery: ServeHTTP of internal/weddingmedia/        *)
(* service.go with its three pools of places, and token, which fetches     *)
(* Google's access token under tokenMu and keeps a refresh token that      *)
(* Google replaced.                                                        *)
(*                                                                         *)
(* Refresh tokens are numbered as Google gives them out; which of them it  *)
(* still accepts is its own affair.  A request that is refused before it   *)
(* asks for a place (origin, invitation code, no connection) is no step.   *)
(***************************************************************************)
EXTENDS Naturals, FiniteSets

CONSTANTS
    Requests,     \* requests that may be under way
    MaxPending,   \* capacity of uploadRequests, 8
    MaxUploads,   \* capacity of uploadInFlight, 2
    Places,       \* capacity of inFlight, 8
    MaxRotations, \* bound: refresh tokens Google gives out
    MaxCrashes    \* bound

\* On the constants; Services assumes it of its instance.
MediaRequestsAssumption ==
    /\ MaxPending \in Nat /\ MaxUploads \in Nat /\ Places \in Nat
    /\ MaxRotations \in Nat \ {0} /\ MaxCrashes \in Nat

VARIABLES
    requests,        \* what each request is for and where it is
    uploadRequests, uploadInFlight, inFlight,  \* places taken
    tokenMu,         \* the request that holds the mutex, or none
    refreshToken,    \* in memory
    config,          \* the refresh token in the configuration file
    accessToken,     \* whether one is cached that is good for a minute
    issued,          \* refresh tokens Google has given out
    lost,            \* for the properties: tokens that were never saved
    refused,         \* for the properties: what the last step refused
    crashes

places == <<uploadRequests, uploadInFlight, inFlight>>
tokens == <<tokenMu, refreshToken, config, accessToken, issued, lost, crashes>>
vars == <<requests, places, tokens, refused>>

Kinds == {"upload", "view"}
Steps == {"new", "queued", "entering", "working", "token", "save", "set"}

TypeOK ==
    /\ requests \in [Requests -> [kind: Kinds, at: Steps]]
    /\ uploadRequests \in 0 .. MaxPending
    /\ uploadInFlight \in 0 .. MaxUploads
    /\ inFlight \in 0 .. Places
    /\ tokenMu \in SUBSET Requests /\ Cardinality(tokenMu) <= 1
    /\ {refreshToken, config, issued} \subseteq 1 .. MaxRotations
    /\ lost \subseteq 1 .. MaxRotations
    /\ accessToken \in BOOLEAN
    /\ refused \in Kinds \cup {"none"}
    /\ crashes \in 0 .. MaxCrashes

New == [kind |-> "view", at |-> "new"]

At(r, step) == requests[r].at = step
Upload(r) == requests[r].kind = "upload"
InService(r) == requests[r].at \in {"working", "token", "save", "set"}

Goes(r, step) == requests' = [requests EXCEPT ![r].at = step]
Ends(r) == requests' = [requests EXCEPT ![r] = New]

\* What the deferred functions of a request that ends give back.
Pending(r) == IF Upload(r) THEN 1 ELSE 0
Uploading(r) == IF Upload(r) /\ ~At(r, "queued") THEN 1 ELSE 0
Serving(r) == IF InService(r) THEN 1 ELSE 0

\* Mutant: who gave up waiting keeps the place among the waiting.
GiveBack_NotQueued(r) ==
    /\ uploadRequests' = uploadRequests - Uploading(r)
    /\ uploadInFlight' = uploadInFlight - Uploading(r)
    /\ inFlight' = inFlight - Serving(r)

GiveBack(r) ==
    /\ uploadRequests' = uploadRequests - Pending(r)
    /\ uploadInFlight' = uploadInFlight - Uploading(r)
    /\ inFlight' = inFlight - Serving(r)

-----------------------------------------------------------------------------
(* Places                                                                  *)

\* A chunk of an upload needs a place among those active or waiting, and is
\* refused without one; other requests go on to the general places.
Arrive(r, kind) ==
    /\ At(r, "new")
    /\ IF kind = "upload" /\ uploadRequests = MaxPending
       THEN refused' = kind /\ UNCHANGED <<requests, uploadRequests>>
       ELSE /\ requests' = [requests EXCEPT ![r] = [kind |-> kind,
                                at |-> IF kind = "upload" THEN "queued" ELSE "entering"]]
            /\ uploadRequests' = IF kind = "upload" THEN uploadRequests + 1 ELSE uploadRequests
            /\ refused' = "none"
    /\ UNCHANGED <<uploadInFlight, inFlight, tokens>>

\* Mutant: as many uploads at a time as may wait.
MayUpload_AllPending == uploadInFlight < MaxPending

MayUpload == uploadInFlight < MaxUploads

BeginUpload(r) ==
    /\ At(r, "queued") /\ MayUpload
    /\ uploadInFlight' = uploadInFlight + 1
    /\ Goes(r, "entering")
    /\ refused' = "none"
    /\ UNCHANGED <<uploadRequests, inFlight, tokens>>

\* The client has gone, or three minutes are over.
GiveUp(r) ==
    /\ At(r, "queued") \/ (At(r, "entering") /\ Upload(r))
    /\ GiveBack(r) /\ Ends(r)
    /\ refused' = "none"
    /\ UNCHANGED tokens

Enter(r) ==
    /\ At(r, "entering")
    /\ IF inFlight < Places
       THEN /\ inFlight' = inFlight + 1 /\ Goes(r, "working")
            /\ refused' = "none"
            /\ UNCHANGED <<uploadRequests, uploadInFlight>>
       ELSE /\ GiveBack(r) /\ Ends(r)
            /\ refused' = requests[r].kind
    /\ UNCHANGED tokens

\* list, start, resume or content has returned.
Return(r) ==
    /\ At(r, "working")
    /\ GiveBack(r) /\ Ends(r)
    /\ refused' = "none"
    /\ UNCHANGED tokens

-----------------------------------------------------------------------------
(* Tokens                                                                  *)

Unlock(r) == tokenMu' = {} /\ Goes(r, "working")

LockToken(r) ==
    /\ At(r, "working") /\ tokenMu = {} /\ ~accessToken
    /\ tokenMu' = {r} /\ Goes(r, "token")
    /\ refused' = "none"
    /\ UNCHANGED <<places, refreshToken, config, accessToken, issued, lost, crashes>>

\* Google refuses or does not answer, answers, or answers with a new refresh
\* token, which is saved first.
AskGoogle(r) ==
    /\ At(r, "token")
    /\ \/ Unlock(r) /\ UNCHANGED <<accessToken, issued>>
       \/ Unlock(r) /\ accessToken' = TRUE /\ UNCHANGED issued
       \/ /\ issued < MaxRotations
          /\ issued' = issued + 1
          /\ Goes(r, "save")
          /\ UNCHANGED <<tokenMu, accessToken>>
    /\ refused' = "none"
    /\ UNCHANGED <<places, refreshToken, config, lost, crashes>>

\* Mutant: a file that cannot be written does not matter.
SaveConfig_GoesOn(r) ==
    /\ config' \in {config, issued}
    /\ Goes(r, "set")
    /\ UNCHANGED <<tokenMu, lost>>

\* A file beside the old one takes its name once it is on the disk, so the old
\* one stays if anything fails, and the answer of Google is dropped.
SaveConfig(r) ==
    \/ config' = issued /\ Goes(r, "set") /\ UNCHANGED <<tokenMu, lost>>
    \/ Unlock(r) /\ lost' = lost \cup {issued} /\ UNCHANGED config

Save(r) ==
    /\ At(r, "save")
    /\ SaveConfig(r)
    /\ refused' = "none"
    /\ UNCHANGED <<places, refreshToken, accessToken, issued, crashes>>

SetTokens(r) ==
    /\ At(r, "set")
    /\ refreshToken' = issued /\ accessToken' = TRUE
    /\ Unlock(r)
    /\ refused' = "none"
    /\ UNCHANGED <<places, config, issued, lost, crashes>>

TokenExpires ==
    /\ accessToken
    /\ accessToken' = FALSE
    /\ refused' = "none"
    /\ UNCHANGED <<requests, places, tokenMu, refreshToken, config, issued, lost, crashes>>

\* The process ends and Load reads the file.
Restart ==
    /\ crashes < MaxCrashes
    /\ crashes' = crashes + 1
    /\ lost' = lost \cup {issued: r \in {q \in Requests: At(q, "save")}}
    /\ requests' = [r \in Requests |-> New]
    /\ uploadRequests' = 0 /\ uploadInFlight' = 0 /\ inFlight' = 0
    /\ tokenMu' = {} /\ refreshToken' = config /\ accessToken' = FALSE
    /\ refused' = "none"
    /\ UNCHANGED <<config, issued>>

-----------------------------------------------------------------------------
Init ==
    /\ requests = [r \in Requests |-> New]
    /\ uploadRequests = 0 /\ uploadInFlight = 0 /\ inFlight = 0
    /\ tokenMu = {} /\ refreshToken = 1 /\ config = 1 /\ accessToken = FALSE
    /\ issued = 1 /\ lost = {} /\ refused = "none" /\ crashes = 0

Next ==
    \/ \E r \in Requests, kind \in Kinds: Arrive(r, kind)
    \/ \E r \in Requests:
        \/ BeginUpload(r) \/ GiveUp(r) \/ Enter(r) \/ Return(r)
        \/ LockToken(r) \/ AskGoogle(r) \/ Save(r) \/ SetTokens(r)
    \/ TokenExpires \/ Restart

Spec == Init /\ [][Next]_vars

-----------------------------------------------------------------------------
(* Properties                                                              *)

Holders(place(_)) == {r \in Requests: ~At(r, "new") /\ place(r) = 1}

\* However a request ends, its places are given back; uploads, those that
\* wait included, leave the gallery all general places but MaxUploads: who
\* looks at it is refused only when others who look have taken the rest.
PlacesAreKept ==
    /\ uploadRequests = Cardinality(Holders(Pending))
    /\ uploadInFlight = Cardinality(Holders(Uploading))
    /\ inFlight = Cardinality(Holders(Serving))
    /\ refused = "view" =>
        Cardinality({r \in Holders(Serving): ~Upload(r)}) + MaxUploads >= Places

\* The refresh token in use is the one on file, but for the moment between
\* the two assignments, and that is the newest one that could be saved.
TokenSurvives ==
    LET held == {r \in Requests: InService(r) /\ ~At(r, "working")}
        known == (1 .. issued) \ lost
    IN  /\ held = tokenMu
        /\ (\A r \in Requests: ~At(r, "set")) => refreshToken = config
        /\ (\A r \in Requests: ~At(r, "save")) =>
                config \in known /\ \A t \in known: t <= config

MediaRequestsConsistent ==
    /\ TypeOK
    /\ PlacesAreKept
    /\ TokenSurvives
=============================================================================
