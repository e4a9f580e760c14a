------------------------------ MODULE Services ------------------------------
(***************************************************************************)
(* The components that share no state with each other, in one              *)
(* specification: a behaviour chooses one of them and runs it, and the     *)
(* others stay as they begin.  Letting all of them move would multiply     *)
(* their states and add nothing.                                           *)
(***************************************************************************)
EXTENDS Naturals, Sequences

CONSTANTS
    \* AliceText
    Texts,      \* announcements
    MaxLimit,   \* bound: runes a chunk may have, 220
    MaxPrefix,  \* bound: runes of a prefix
    Floor,      \* 40
    Minutes,    \* of a day
    \* ChatGroups
    Users, GroupIds, DirectIds, SystemIds, Sees, Drafters, MaxGroupRequests,
    \* UserAccounts; Slots are those of WeddingAccess and SSHAccess, too
    Emails, Devices, Tokens, Slots, MaxAccountRequests,
    \* WeddingAccess
    Guests, Codes, DefaultCode, MaxAttempts, LockDuration, MaxAccessTime, MaxChanges, MaxReturns,
    \* WeddingRsvp
    Addresses, Limit, Window, MaxEntries, MaxRsvpTime, MaxRsvps, MaxRsvpCrashes,
    \* SSHAccess
    Names, Foreign, Keys, Folders, MaxSSHRequests, MaxSSHFaults,
    \* WeddingSummary; its Requests are those of MediaRequests, too
    Requests, Media, SummaryPlaces, MaxOthers,
    \* ThumbnailCache
    Files, MaxThumbnails, MaxBytes, MaxSize, Life, MaxThumbnailTime, MaxClock,
    \* MediaRequests
    MaxPending, MaxUploads, Places, MaxRotations, MaxMediaCrashes

VARIABLES
    focus,  \* the component that runs
    groupExists, groupCreator, groupRole, groupIndex, groupDrafts, groupRequest,
    accountUsers, accountSubscriptions, accountTokens, accountRequests, accountBegun, accountBorn, accountDeleted, accountLastSet, accountKept, accountResets, accountRaced,
    accessNow, accessSettings, accessAttempts, accessRequests, accessCookies, accessMissed, accessLockEnd, accessEarly, accessNamed, accessReturned,
    rsvpNow, rsvpHits, rsvpLastReap, rsvpSequence, rsvpRsvps, rsvpNotices, rsvpCrashes, rsvpAllowed, rsvpDeleted, rsvpNotified,
    sshLinux, sshKeys, sshGranted, sshFiles, sshRequests, sshBegun, sshFaults, sshDisturbed, sshMet, sshMade,
    summaryDrive, summaryUploaded, summaryCache, summaryGeneration, summaryLoading, summaryOthers, summaryRequests, summaryAnswers,
    thumbnailNow, thumbnailThumbnailCache, thumbnailThumbnailCacheClock, thumbnailKept,
    mediaRequests, mediaUploadRequests, mediaUploadInFlight, mediaInFlight, mediaTokenMu, mediaRefreshToken, mediaConfig, mediaAccessToken, mediaIssued, mediaLost, mediaRefused, mediaCrashes

groupVars == <<groupExists, groupCreator, groupRole, groupIndex, groupDrafts,
    groupRequest>>
accountVars == <<accountUsers, accountSubscriptions, accountTokens,
    accountRequests, accountBegun, accountBorn, accountDeleted,
    accountLastSet, accountKept, accountResets, accountRaced>>
accessVars == <<accessNow, accessSettings, accessAttempts, accessRequests,
    accessCookies, accessMissed, accessLockEnd, accessEarly, accessNamed,
    accessReturned>>
rsvpVars == <<rsvpNow, rsvpHits, rsvpLastReap, rsvpSequence, rsvpRsvps,
    rsvpNotices, rsvpCrashes, rsvpAllowed, rsvpDeleted, rsvpNotified>>
sshVars == <<sshLinux, sshKeys, sshGranted, sshFiles, sshRequests, sshBegun,
    sshFaults, sshDisturbed, sshMet, sshMade>>
summaryVars == <<summaryDrive, summaryUploaded, summaryCache,
    summaryGeneration, summaryLoading, summaryOthers, summaryRequests,
    summaryAnswers>>
thumbnailVars == <<thumbnailNow, thumbnailThumbnailCache,
    thumbnailThumbnailCacheClock, thumbnailKept>>
mediaVars == <<mediaRequests, mediaUploadRequests, mediaUploadInFlight,
    mediaInFlight, mediaTokenMu, mediaRefreshToken, mediaConfig,
    mediaAccessToken, mediaIssued, mediaLost, mediaRefused, mediaCrashes>>

Groups == INSTANCE ChatGroups WITH Groups <- GroupIds, Directs <- DirectIds,
    Systems <- SystemIds, MaxRequests <- MaxGroupRequests, exists <-
    groupExists, creator <- groupCreator, role <- groupRole, index <-
    groupIndex, drafts <- groupDrafts, request <- groupRequest

Accounts == INSTANCE UserAccounts WITH MaxRequests <- MaxAccountRequests,
    users <- accountUsers, subscriptions <- accountSubscriptions, tokens <-
    accountTokens, requests <- accountRequests, begun <- accountBegun, born <-
    accountBorn, deleted <- accountDeleted, lastSet <- accountLastSet, kept <-
    accountKept, resets <- accountResets, raced <- accountRaced

Access == INSTANCE WeddingAccess WITH Addresses <- Guests, MaxTime <-
    MaxAccessTime, now <- accessNow, settings <- accessSettings, attempts <-
    accessAttempts, requests <- accessRequests, cookies <- accessCookies,
    missed <- accessMissed, lockEnd <- accessLockEnd, early <- accessEarly,
    named <- accessNamed, returned <- accessReturned

Rsvp == INSTANCE WeddingRsvp WITH MaxTime <- MaxRsvpTime, MaxCrashes <-
    MaxRsvpCrashes, now <- rsvpNow, hits <- rsvpHits, lastReap <-
    rsvpLastReap, sequence <- rsvpSequence, rsvps <- rsvpRsvps, notices <-
    rsvpNotices, crashes <- rsvpCrashes, allowed <- rsvpAllowed, deleted <-
    rsvpDeleted, notified <- rsvpNotified

SSH == INSTANCE SSHAccess WITH MaxRequests <- MaxSSHRequests, MaxFaults <-
    MaxSSHFaults, linux <- sshLinux, keys <- sshKeys, granted <- sshGranted,
    files <- sshFiles, requests <- sshRequests, begun <- sshBegun, faults <-
    sshFaults, disturbed <- sshDisturbed, met <- sshMet, made <- sshMade

Summary == INSTANCE WeddingSummary WITH Places <- SummaryPlaces, drive <-
    summaryDrive, uploaded <- summaryUploaded, cache <- summaryCache,
    generation <- summaryGeneration, loading <- summaryLoading, others <-
    summaryOthers, requests <- summaryRequests, answers <- summaryAnswers

Thumbnails == INSTANCE ThumbnailCache WITH MaxEntries <- MaxThumbnails,
    MaxTime <- MaxThumbnailTime, now <- thumbnailNow, thumbnailCache <-
    thumbnailThumbnailCache, thumbnailCacheClock <-
    thumbnailThumbnailCacheClock, kept <- thumbnailKept

Serving == INSTANCE MediaRequests WITH MaxCrashes <- MaxMediaCrashes, requests
    <- mediaRequests, uploadRequests <- mediaUploadRequests, uploadInFlight <-
    mediaUploadInFlight, inFlight <- mediaInFlight, tokenMu <- mediaTokenMu,
    refreshToken <- mediaRefreshToken, config <- mediaConfig, accessToken <-
    mediaAccessToken, issued <- mediaIssued, lost <- mediaLost, refused <-
    mediaRefused, crashes <- mediaCrashes

Alice == INSTANCE AliceText

\* The constants of every instance are what its module takes them to be.
ASSUME Constants ==
    /\ Texts \subseteq Seq(Nat \ {0}) /\ MaxLimit \in Nat /\ MaxPrefix \in Nat
    /\ Floor \in Nat \ {0} /\ Minutes \in Nat \ {0}
    /\ Groups!IdsAssumption /\ Groups!SeesAssumption
    /\ Accounts!AccountsAssumption
    /\ Access!AccessAssumption
    /\ Rsvp!RsvpAssumption
    /\ SSH!SSHAssumption
    /\ Summary!SummaryAssumption
    /\ Thumbnails!ThumbnailAssumption
    /\ Serving!MediaRequestsAssumption

-----------------------------------------------------------------------------
Init ==
    /\ focus \in {"text", "group", "account", "access", "rsvp", "ssh", "summary", "thumbnail", "media"}
    /\ Groups!Init
    /\ Accounts!Init
    /\ Access!Init
    /\ Rsvp!Init
    /\ SSH!Init
    /\ Summary!Init
    /\ Thumbnails!Init
    /\ Serving!Init

RunGroups ==
    /\ focus = "group"
    /\ Groups!Next
    /\ UNCHANGED <<focus, accountVars, accessVars, rsvpVars, sshVars, summaryVars, thumbnailVars, mediaVars>>

RunAccounts ==
    /\ focus = "account"
    /\ Accounts!Next
    /\ UNCHANGED <<focus, groupVars, accessVars, rsvpVars, sshVars, summaryVars, thumbnailVars, mediaVars>>

RunAccess ==
    /\ focus = "access"
    /\ Access!Next
    /\ UNCHANGED <<focus, groupVars, accountVars, rsvpVars, sshVars, summaryVars, thumbnailVars, mediaVars>>

RunRsvp ==
    /\ focus = "rsvp"
    /\ Rsvp!Next
    /\ UNCHANGED <<focus, groupVars, accountVars, accessVars, sshVars, summaryVars, thumbnailVars, mediaVars>>

RunSSH ==
    /\ focus = "ssh"
    /\ SSH!Next
    /\ UNCHANGED <<focus, groupVars, accountVars, accessVars, rsvpVars, summaryVars, thumbnailVars, mediaVars>>

RunSummary ==
    /\ focus = "summary"
    /\ Summary!Next
    /\ UNCHANGED <<focus, groupVars, accountVars, accessVars, rsvpVars, sshVars, thumbnailVars, mediaVars>>

RunThumbnails ==
    /\ focus = "thumbnail"
    /\ Thumbnails!Next
    /\ UNCHANGED <<focus, groupVars, accountVars, accessVars, rsvpVars, sshVars, summaryVars, mediaVars>>

RunMedia ==
    /\ focus = "media"
    /\ Serving!Next
    /\ UNCHANGED <<focus, groupVars, accountVars, accessVars, rsvpVars, sshVars, summaryVars, thumbnailVars>>

Next == RunGroups \/ RunAccounts \/ RunAccess \/ RunRsvp \/ RunSSH \/ RunSummary \/ RunThumbnails \/ RunMedia

vars == <<focus, groupVars, accountVars, accessVars, rsvpVars, sshVars, summaryVars, thumbnailVars, mediaVars>>

Spec == Init /\ [][Next]_vars

-----------------------------------------------------------------------------
(* Properties                                                              *)

\* Announcements cut into parts lose nothing, keep the order and fit; quiet
\* hours are the minutes from their start to their end around the clock.
AliceTextIsKept ==
    focus = "text" =>
        /\ \A text \in Texts, limit \in 0 .. MaxLimit:
            /\ Alice!SplitKeepsText(text, limit)
            /\ \A prefix \in 0 .. MaxPrefix: Alice!PrefixFits(text, prefix, limit, Floor)
        /\ \A start, end, now \in 0 .. Minutes - 1: Alice!QuietAroundTheClock(start, end, now, Minutes)

\* Lists, roles and members of the conversations agree, every group keeps its
\* owner, and nobody is in a conversation that is not for them, however the
\* checks of the routes and their transactions interleave.
GroupsConsistent == focus = "group" => Groups!GroupsConsistent

\* An account has one record from its creation to its deletion, with the last
\* password set and the devices subscribed, unless a request wrote over what
\* another had done; a reset token sets one password at most.
AccountsConsistent == focus = "account" => Accounts!AccountsConsistent

\* A cookie that is accepted was given for the present code, unless an input
\* brought its version back, and a lock earned with wrong codes lasts, while
\* settings change and requests overlap; an
\* address gets no more than two limits' worth of answers through in any
\* window, and an answer stays until it is deleted and then stays away.
GuestsConsistent ==
    /\ focus = "access" => Access!AccessConsistent
    /\ focus = "rsvp" => Rsvp!RsvpConsistent

\* The manager of SSH accesses leaves other users of the server alone, keeps
\* the record of an access until its user is gone, and records the truth
\* unless a request failed or met another one.
SSHAccessConsistent == focus = "ssh" => SSH!SSHAccessConsistent

\* Who waits for the number of media is woken, and no number, cached or
\* answered, misses an upload that had completed; the thumbnails in memory
\* keep within their limits, and the ones used last stay; requests give back
\* their places, uploads leave places to who looks at the gallery, and the
\* newest refresh token that could be saved is in use after any restart.
GalleryConsistent ==
    /\ focus = "summary" => Summary!SummaryConsistent
    /\ focus = "thumbnail" => Thumbnails!ThumbnailsConsistent
    /\ focus = "media" => Serving!MediaRequestsConsistent
=============================================================================
