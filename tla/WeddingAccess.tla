--------------------------- MODULE WeddingAccess ---------------------------
(***************************************************************************)
(* The access code of the wedding site: VerifyAccessCode, SaveSettings and *)
(* GetSettings of internal/store/wedding.go, and the cookies that          *)
(* internal/weddingmedia/service.go gives and accepts.                     *)
(*                                                                         *)
(* PostWeddingAccessVerify takes the time, reads the settings in one       *)
(* transaction and counts the attempt in another; an administrator may     *)
(* save new settings, and other requests of the same address may be        *)
(* served, in between.                                                     *)
(*                                                                         *)
(* Versions are numbered as they come into use.  The input of an           *)
(* administrator may name one, and a code and a switch that stay keep it:  *)
(* the version of an earlier code comes back that way.                     *)
(***************************************************************************)
EXTENDS Naturals, FiniteSets

CONSTANTS
    Addresses,
    Codes,         \* codes of six digits
    DefaultCode,
    Slots,         \* verifications under way at a time
    MaxAttempts,   \* WeddingAccessMaxAttempts, 3
    LockDuration,  \* WeddingAccessLockDuration, in units of time
    MaxTime,       \* bound: units of time
    MaxChanges,    \* bound: versions after the first
    MaxReturns     \* bound: versions brought back, after which nothing is saved

\* On the constants; Services assumes it of its instance.
AccessAssumption ==
    /\ DefaultCode \in Codes
    /\ MaxAttempts \in Nat \ {0} /\ LockDuration \in Nat \ {0}
    /\ MaxTime \in Nat \ {0} /\ MaxChanges \in Nat /\ MaxReturns \in Nat

VARIABLES
    now,
    settings,   \* WeddingSettingsBucket
    attempts,   \* WeddingAccessAttemptsBucket
    requests,   \* control of PostWeddingAccessVerify
    cookies,    \* the versions guests hold, each with the code they gave
    named,      \* versions there have been
    \* What happened, for the properties: the wrong codes in a row of each
    \* address, when the lock they earned ends, and whether a code was ever
    \* compared before that.
    missed, lockEnd, early,
    returned    \* the versions an input has brought back

ghosts == <<missed, lockEnd, early>>
versions == <<named, returned>>
vars == <<now, settings, attempts, requests, cookies, ghosts, versions>>

NoCode == "no code"
Nobody == "nobody"

\* A time of 0 is the zero time; the clock starts at 1.
Settings == [enabled: BOOLEAN, code: Codes, version: 1 .. MaxChanges + 1]
Attempt == [failed: 0 .. MaxAttempts, until: 0 .. MaxTime + LockDuration]
Request == [at: {"idle", "read", "count"}, address: Addresses \cup {Nobody},
            code: Codes \cup {NoCode}, now: 0 .. MaxTime, settings: Settings]

First == [enabled |-> FALSE, code |-> DefaultCode, version |-> 1]
Fresh == [failed |-> 0, until |-> 0]
Idle == [at |-> "idle", address |-> Nobody, code |-> NoCode, now |-> 0, settings |-> First]

TypeOK ==
    /\ now \in 1 .. MaxTime
    /\ settings \in Settings
    /\ attempts \in [Addresses -> Attempt]
    /\ requests \in [Slots -> Request]
    /\ cookies \subseteq [version: 1 .. MaxChanges + 1, code: Codes]
    /\ missed \in [Addresses -> 0 .. MaxAttempts]
    /\ lockEnd \in [Addresses -> 0 .. MaxTime + LockDuration]
    /\ early \in BOOLEAN
    /\ named \in 1 .. MaxChanges + 1
    /\ returned \subseteq 1 .. MaxChanges + 1

-----------------------------------------------------------------------------
\* PostWeddingAccessVerify: the time is taken before anything is read.
Arrive(s, a, c) ==
    /\ requests[s].at = "idle"
    /\ requests' = [requests EXCEPT ![s] = [Idle EXCEPT !.at = "read", !.address = a,
                                                        !.code = c, !.now = now]]
    /\ UNCHANGED <<now, settings, attempts, cookies, ghosts, versions>>

\* Authorize: the cookie names the version, and the model the code given.
Cookies(r) == cookies \cup {[version |-> r.settings.version, code |-> r.code]}

\* GetSettings; with the code switched off everyone is let in at once.
ReadSettings(s) ==
    LET r == [requests[s] EXCEPT !.settings = settings]
    IN  /\ r.at = "read"
        /\ IF settings.enabled
           THEN /\ requests' = [requests EXCEPT ![s] = [r EXCEPT !.at = "count"]]
                /\ UNCHANGED cookies
           ELSE /\ requests' = [requests EXCEPT ![s] = Idle]
                /\ cookies' = Cookies(r)
        /\ UNCHANGED <<now, settings, attempts, ghosts, versions>>

\* The attempts left by a lock that is over no longer count.
Standing(a) == IF attempts[a].until = 0 THEN attempts[a] ELSE Fresh

\* Mutant: the lock is counted and not asked for.
Locked_Never(a, t) == FALSE

Locked(a, t) == attempts[a].until > t

RefuseLocked(s) ==
    LET r == requests[s]
    IN  /\ r.at = "count"
        /\ Locked(r.address, r.now)
        /\ requests' = [requests EXCEPT ![s] = Idle]
        /\ UNCHANGED <<now, settings, attempts, cookies, ghosts, versions>>

Compares(r, count) ==
    /\ missed' = [missed EXCEPT ![r.address] = count]
    /\ lockEnd' = IF count = MaxAttempts
                  THEN [lockEnd EXCEPT ![r.address] = r.now + LockDuration] ELSE lockEnd
    /\ early' = (early \/ now < lockEnd[r.address])

AcceptCode(s) ==
    LET r == requests[s]
    IN  /\ r.at = "count"
        /\ ~Locked(r.address, r.now)
        /\ r.code = r.settings.code
        /\ attempts' = [attempts EXCEPT ![r.address] = Fresh]
        /\ cookies' = Cookies(r)
        /\ Compares(r, 0)
        /\ requests' = [requests EXCEPT ![s] = Idle]
        /\ UNCHANGED <<now, settings, versions>>

RefuseCode(s) ==
    LET r == requests[s]
        failed == Standing(r.address).failed + 1
    IN  /\ r.at = "count"
        /\ ~Locked(r.address, r.now)
        /\ r.code # r.settings.code
        /\ attempts' = [attempts EXCEPT ![r.address] =
                            [failed |-> failed,
                             until |-> IF failed >= MaxAttempts THEN r.now + LockDuration ELSE 0]]
        /\ Compares(r, (missed[r.address] % MaxAttempts) + 1)
        /\ requests' = [requests EXCEPT ![s] = Idle]
        /\ UNCHANGED <<now, settings, cookies, versions>>

\* Mutant: the switch makes no new version.
Changed_CodeOnly(enabled, code) == code # settings.code

\* SaveSettings: a code or a switch that changes makes a new version.
Changed(enabled, code) == enabled # settings.enabled \/ code # settings.code

\* The version the settings get: a new one after a change, else the one the
\* input names, else the one they have.  An input names no version, 0, one
\* there has been, or one nobody has heard of.
NextVersion(enabled, code, version) ==
    IF Changed(enabled, code) THEN named + 1
    ELSE IF version = 0 THEN settings.version ELSE version

Returns(version) == version \in (1 .. named) \ {settings.version}

SaveSettings(enabled, code, version) ==
    LET next == NextVersion(enabled, code, version)
    IN  /\ next <= MaxChanges + 1
        /\ Cardinality(returned) < MaxReturns
        /\ settings' = [enabled |-> enabled, code |-> code, version |-> next]
        /\ named' = IF next > named THEN next ELSE named
        /\ returned' = IF Returns(next) THEN returned \cup {next} ELSE returned
        /\ UNCHANGED <<now, attempts, requests, cookies, ghosts>>

Tick ==
    /\ now < MaxTime
    /\ now' = now + 1
    /\ UNCHANGED <<settings, attempts, requests, cookies, ghosts, versions>>

-----------------------------------------------------------------------------
Init ==
    /\ now = 1
    /\ settings = First
    /\ attempts = [a \in Addresses |-> Fresh]
    /\ requests = [s \in Slots |-> Idle]
    /\ cookies = {}
    /\ missed = [a \in Addresses |-> 0]
    /\ lockEnd = [a \in Addresses |-> 0]
    /\ early = FALSE
    /\ named = 1
    /\ returned = {}

Next ==
    \/ \E s \in Slots, a \in Addresses, c \in Codes: Arrive(s, a, c)
    \/ \E s \in Slots: ReadSettings(s) \/ RefuseLocked(s) \/ AcceptCode(s) \/ RefuseCode(s)
    \/ \E enabled \in BOOLEAN, code \in Codes, version \in 0 .. named + 1:
            SaveSettings(enabled, code, version)
    \/ Tick

Spec == Init /\ [][Next]_vars

-----------------------------------------------------------------------------
(* Properties                                                              *)

\* A cookie the site accepts while the code is on was given to a guest who
\* knew that very code: not to one who came while it was off, nor with the
\* code before, however the saving of the settings and the verification
\* interleave.  The one way around is an administrator's: settings saved
\* again with the version of an earlier code let its guests in.
CookieNamesItsCode ==
    \A k \in cookies:
        settings.enabled /\ k.version = settings.version /\ k.version \notin returned
            => k.code = settings.code

\* A lock lasts: after MaxAttempts wrong codes in a row of an address no
\* code of it is compared until the lock is over, whatever the order in
\* which its requests are served; and the attempts on record are the wrong
\* codes in a row, so that nobody is locked for fewer.
LocksHold ==
    /\ ~early
    /\ \A a \in Addresses: attempts[a].failed = missed[a]

AccessConsistent ==
    /\ TypeOK
    /\ CookieNamesItsCode
    /\ LocksHold
=============================================================================
