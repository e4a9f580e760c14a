---------------------------- MODULE UserAccounts ----------------------------
(***************************************************************************)
(* Accounts, password resets and push subscriptions: internal/store/user.go *)
(* and the routes that call it.                                            *)
(*                                                                         *)
(* A user's record is stored under the e-mail.  Every route reads in one   *)
(* transaction and writes the whole record in another, so two of them may  *)
(* overlap; a request may also end with an error, or with the process,     *)
(* between the two.  Of a record the model keeps whose it is, a number     *)
(* given to each new account, and the password, the number of the request  *)
(* that set it.                                                            *)
(***************************************************************************)
EXTENDS Naturals, FiniteSets

CONSTANTS
    Emails,
    Devices,     \* endpoints of push subscriptions
    Tokens,      \* reset tokens, each made once
    Slots,       \* requests under way at a time, numbered
    MaxRequests  \* bound: requests

\* On the constants; Services assumes it of its instance.
AccountsAssumption ==
    /\ Slots \subseteq Nat /\ MaxRequests \in Nat \ {0}
    /\ "no token" \notin Tokens

VARIABLES
    users,         \* UserBucket: e-mail -> record
    subscriptions, \* UserPushSubscriptionsBucket: pairs of e-mail and device
    tokens,        \* PasswordResetTokensBucket
    requests,      \* control of the routes
    begun,         \* requests so far
    \* What happened, for the properties: accounts made and deleted, the last
    \* password and the devices of each, the passwords set with each token,
    \* and the accounts on which one request wrote over another.
    born, deleted, lastSet, kept, resets, raced

ghosts == <<born, deleted, lastSet, kept, resets, raced>>
vars == <<users, subscriptions, tokens, requests, begun, ghosts>>

Record == [id: 0 .. MaxRequests, password: 0 .. MaxRequests]
None == [id |-> 0, password |-> 0]

NoEmail == "no e-mail"
NoDevice == "no device"
NoToken == "no token"

\* seen is the record read at prev; record is what goes under email.
Request == [at: {"idle", "create", "check", "update", "issue", "find", "subscribe", "unsubscribe"},
            by: {"guest", "site"},
            email: Emails \cup {NoEmail}, prev: Emails \cup {NoEmail},
            seen: Record, record: Record,
            token: Tokens \cup {NoToken}, device: Devices \cup {NoDevice}]

Idle == [at |-> "idle", by |-> "guest", email |-> NoEmail, prev |-> NoEmail,
         seen |-> None, record |-> None, token |-> NoToken, device |-> NoDevice]

TypeOK ==
    /\ users \in [Emails -> Record]
    /\ subscriptions \subseteq Emails \X Devices
    /\ tokens \in [Tokens -> [email: Emails \cup {NoEmail}, state: {"none", "fresh", "used", "expired"}]]
    /\ requests \in [Slots -> Request]
    /\ begun \in 0 .. MaxRequests /\ born \in 0 .. MaxRequests
    /\ deleted \subseteq 1 .. born /\ raced \subseteq 0 .. born
    /\ lastSet \in [1 .. MaxRequests -> 0 .. MaxRequests]
    /\ kept \in [1 .. MaxRequests -> SUBSET Devices]
    /\ resets \in [Tokens -> Nat]

Exists(e) == users[e] # None

\* A new request, in the first slot that is free; its number is the password
\* it may set.
Begin(s, r) ==
    /\ requests[s].at = "idle"
    /\ \A t \in Slots: t < s => requests[t].at # "idle"
    /\ begun < MaxRequests
    /\ begun' = begun + 1
    /\ requests' = [requests EXCEPT ![s] = r]

Continue(s, r) == requests' = [requests EXCEPT ![s] = r] /\ UNCHANGED begun
Return(s) == Continue(s, Idle)

-----------------------------------------------------------------------------
(* CreateUser, from PostRegister, PostAdminUser and upsertGoogleUser: the  *)
(* e-mail is looked up in one transaction and taken in another.  A guest   *)
(* registers; the site, an administrator or the sign-in with Google, also  *)
(* stores the record a second time, with its permissions.                  *)

CreateUser(s, by, e) ==
    /\ ~Exists(e)
    /\ Begin(s, [Idle EXCEPT !.at = "create", !.by = by, !.email = e, !.prev = e,
                             !.record.password = begun + 1])
    /\ UNCHANGED <<users, subscriptions, tokens, ghosts>>

PutUser(s) ==
    LET r == requests[s]
        new == [r.record EXCEPT !.id = born + 1]
    IN  /\ r.at = "create"
        /\ born' = born + 1
        /\ users' = [users EXCEPT ![r.email] = new]
        /\ lastSet' = [lastSet EXCEPT ![born + 1] = new.password]
        /\ raced' = raced \cup ({users[r.email].id} \ {0})
        /\ IF r.by = "guest" THEN Return(s)
           ELSE Continue(s, [r EXCEPT !.at = "update", !.seen = new, !.record = new])
        /\ UNCHANGED <<subscriptions, tokens, deleted, kept, resets>>

-----------------------------------------------------------------------------
(* PatchProfile and PatchAdminUser: the record is read, an e-mail that     *)
(* changes must be free in a transaction of its own, and the whole record  *)
(* is written.                                                             *)

Patch(s, e, f, setsPassword) ==
    /\ Exists(e)
    /\ Begin(s, [Idle EXCEPT !.at = IF f = e THEN "update" ELSE "check", 
                             !.prev = e, !.email = f, !.seen = users[e],
                             !.record = IF setsPassword
                                        THEN [users[e] EXCEPT !.password = begun + 1]
                                        ELSE users[e]])
    /\ UNCHANGED <<users, subscriptions, tokens, ghosts>>

CheckEmail(s) ==
    LET r == requests[s]
    IN  /\ r.at = "check"
        /\ IF Exists(r.email) THEN Return(s)
           ELSE Continue(s, [r EXCEPT !.at = "update"])
        /\ UNCHANGED <<users, subscriptions, tokens, ghosts>>

\* migratePushSubscriptions
Migrated(from, to) ==
    IF from = to THEN subscriptions
    ELSE {p \in subscriptions: p[1] # from}
         \cup {<<to, p[2]>>: p \in {q \in subscriptions: q[1] = from}}

\* The write is late when the record is no longer the one that was read, or
\* the new e-mail has been taken since.
Late(r) == users[r.prev] # r.seen \/ (r.email # r.prev /\ Exists(r.email))

\* Mutant: the record under the old e-mail stays.
Written_KeepsOld(r) == [users EXCEPT ![r.email] = r.record]

\* The record under its e-mail, and nothing under the one it had.
Written(r) == [users EXCEPT ![r.prev] = None, ![r.email] = r.record]

UpdateUser(s) ==
    LET r == requests[s]
    IN  /\ r.at = "update"
        /\ users' = Written(r)
        /\ subscriptions' = Migrated(r.prev, r.email)
        /\ lastSet' = [lastSet EXCEPT ![r.record.id] = r.record.password]
        /\ resets' = IF r.token = NoToken THEN resets ELSE [resets EXCEPT ![r.token] = @ + 1]
        /\ raced' = IF Late(r)
                    THEN raced \cup ({r.record.id, users[r.prev].id, users[r.email].id} \ {0})
                    ELSE raced
        /\ Return(s)
        /\ UNCHANGED <<tokens, born, deleted, kept>>

\* DeleteUser, from DeleteAdminUser: the subscriptions stay.
DeleteUser(e) ==
    /\ Exists(e)
    /\ users' = [users EXCEPT ![e] = None]
    /\ deleted' = deleted \cup {users[e].id}
    /\ UNCHANGED <<subscriptions, tokens, requests, begun, born, lastSet, kept, resets, raced>>

-----------------------------------------------------------------------------
(* PostForgotPassword and PostResetPassword                                *)

ForgotPassword(s, e) ==
    /\ Exists(e)
    /\ Begin(s, [Idle EXCEPT !.at = "issue", !.email = e])
    /\ UNCHANGED <<users, subscriptions, tokens, ghosts>>

CreatePasswordResetToken(s, t) ==
    /\ requests[s].at = "issue"
    /\ tokens[t].state = "none"
    /\ tokens' = [tokens EXCEPT ![t] = [email |-> requests[s].email, state |-> "fresh"]]
    /\ Return(s)
    /\ UNCHANGED <<users, subscriptions, ghosts>>

TokenExpires(t) ==
    /\ tokens[t].state = "fresh"
    /\ tokens' = [tokens EXCEPT ![t].state = "expired"]
    /\ UNCHANGED <<users, subscriptions, requests, begun, ghosts>>

\* Mutant: the token is found and not marked as used.
ConsumePasswordResetToken_Unmarked(s, t) ==
    /\ tokens[t].state = "fresh"
    /\ Begin(s, [Idle EXCEPT !.at = "find", !.prev = tokens[t].email, !.email = tokens[t].email,
                             !.token = t, !.record.password = begun + 1])
    /\ UNCHANGED <<users, subscriptions, tokens, ghosts>>

\* ConsumePasswordResetToken: found, not used, not expired, and used from
\* now on, in one transaction.
ConsumePasswordResetToken(s, t) ==
    /\ tokens[t].state = "fresh"
    /\ tokens' = [tokens EXCEPT ![t].state = "used"]
    /\ Begin(s, [Idle EXCEPT !.at = "find", !.prev = tokens[t].email, !.email = tokens[t].email,
                             !.token = t, !.record.password = begun + 1])
    /\ UNCHANGED <<users, subscriptions, ghosts>>

\* FindUserByEmail of the token's e-mail and HashPassword.
FindForReset(s) ==
    LET r == requests[s]
    IN  /\ r.at = "find"
        /\ IF Exists(r.email)
           THEN Continue(s, [r EXCEPT !.at = "update", !.seen = users[r.email],
                                      !.record.id = users[r.email].id])
           ELSE Return(s)
        /\ UNCHANGED <<users, subscriptions, tokens, ghosts>>

-----------------------------------------------------------------------------
(* PostProfilePushSubscriptions and DeleteProfilePushSubscriptions: the    *)
(* user is looked up, then the subscription changes under the e-mail.      *)
(* No device means all of them.                                            *)

Subscribe(s, e, d) ==
    /\ Exists(e)
    /\ Begin(s, [Idle EXCEPT !.at = "subscribe", !.prev = e, !.email = e,
                             !.seen = users[e], !.device = d])
    /\ UNCHANGED <<users, subscriptions, tokens, ghosts>>

Unsubscribe(s, e, d) ==
    /\ Exists(e)
    /\ Begin(s, [Idle EXCEPT !.at = "unsubscribe", !.prev = e, !.email = e,
                             !.seen = users[e], !.device = d])
    /\ UNCHANGED <<users, subscriptions, tokens, ghosts>>

Chosen(d) == IF d = NoDevice THEN Devices ELSE {d}

\* The e-mail belongs to another account, or to none, by now.
Moved(r) == IF users[r.email].id = r.seen.id THEN {} ELSE {r.seen.id, users[r.email].id} \ {0}

SavePushSubscription(s) ==
    LET r == requests[s]
    IN  /\ r.at = "subscribe"
        /\ subscriptions' = subscriptions \cup {<<r.email, r.device>>}
        /\ kept' = [kept EXCEPT ![r.seen.id] = @ \cup {r.device}]
        /\ raced' = raced \cup Moved(r)
        /\ Return(s)
        /\ UNCHANGED <<users, tokens, born, deleted, lastSet, resets>>

DeletePushSubscription(s) ==
    LET r == requests[s]
    IN  /\ r.at = "unsubscribe"
        /\ subscriptions' = subscriptions \ ({r.email} \X Chosen(r.device))
        /\ kept' = [kept EXCEPT ![r.seen.id] = @ \ Chosen(r.device)]
        /\ raced' = raced \cup Moved(r)
        /\ Return(s)
        /\ UNCHANGED <<users, tokens, born, deleted, lastSet, resets>>

\* A request ends early: an error of the database, a password bcrypt
\* refuses, or the end of the process.
Fails(s) ==
    /\ requests[s].at # "idle"
    /\ Return(s)
    /\ UNCHANGED <<users, subscriptions, tokens, ghosts>>

-----------------------------------------------------------------------------
Init ==
    /\ users = [e \in Emails |-> None]
    /\ subscriptions = {}
    /\ tokens = [t \in Tokens |-> [email |-> NoEmail, state |-> "none"]]
    /\ requests = [s \in Slots |-> Idle]
    /\ begun = 0
    /\ born = 0
    /\ deleted = {}
    /\ lastSet = [n \in 1 .. MaxRequests |-> 0]
    /\ kept = [n \in 1 .. MaxRequests |-> {}]
    /\ resets = [t \in Tokens |-> 0]
    /\ raced = {}

Serve(s) ==
    \/ \E by \in {"guest", "site"}, e \in Emails: CreateUser(s, by, e)
    \/ PutUser(s)
    \/ \E e, f \in Emails, sets \in BOOLEAN: Patch(s, e, f, sets)
    \/ CheckEmail(s)
    \/ UpdateUser(s)
    \/ \E e \in Emails: ForgotPassword(s, e)
    \/ \E t \in Tokens: CreatePasswordResetToken(s, t)
    \/ \E t \in Tokens: ConsumePasswordResetToken(s, t)
    \/ FindForReset(s)
    \/ \E e \in Emails, d \in Devices: Subscribe(s, e, d)
    \/ \E e \in Emails, d \in Devices \cup {NoDevice}: Unsubscribe(s, e, d)
    \/ SavePushSubscription(s)
    \/ DeletePushSubscription(s)
    \/ Fails(s)

Next ==
    \/ \E s \in Slots: Serve(s)
    \/ \E e \in Emails: DeleteUser(e)
    \/ \E t \in Tokens: TokenExpires(t)

Spec == Init /\ [][Next]_vars

-----------------------------------------------------------------------------
(* Properties                                                              *)

Quiet == (1 .. born) \ raced

HeldBy(id) == {e \in Emails: users[e].id = id}

\* An account has one record from its creation to its deletion and none
\* after it: a change of the e-mail leaves nothing behind, and nothing comes
\* back, unless one request wrote over what another had done meanwhile.
OneRecordPerAccount ==
    \A id \in Quiet:
        IF id \in deleted THEN HeldBy(id) = {} ELSE \E e \in Emails: HeldBy(id) = {e}

\* The password of such an account is the last one that was set for it, by
\* its owner, by an administrator or with a token, and the devices its owner
\* has asked to notify are found under its present e-mail.
RecordIsUpToDate ==
    \A id \in Quiet: \A e \in HeldBy(id):
        /\ users[e].password = lastSet[id]
        /\ \A d \in kept[id]: <<e, d>> \in subscriptions

\* A reset token sets one password at most, however many requests present
\* it, and none before it is used up.
TokenSetsOnePassword ==
    \A t \in Tokens: resets[t] <= 1 /\ (resets[t] = 1 => tokens[t].state = "used")

AccountsConsistent ==
    /\ TypeOK
    /\ OneRecordPerAccount
    /\ RecordIsUpToDate
    /\ TokenSetsOnePassword
=============================================================================
