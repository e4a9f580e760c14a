----------------------------- MODULE SSHAccess -----------------------------
(***************************************************************************)
(* The SSH accesses of the server: Upsert and Delete of                    *)
(* LocalSSHAccessManager in internal/system/ssh_access.go, as              *)
(* internal/http/routes/serverSSHAccess.go calls them.                     *)
(*                                                                         *)
(* An access is a Linux user, its authorized_keys, the access lists of two *)
(* folders and a state file, changed one after another by commands and     *)
(* file operations.  Any of them may fail, by itself or because the 30     *)
(* seconds of the request are over; the process may end between two; and   *)
(* nothing keeps two requests for one user apart.  The commands are        *)
(* external: what they do is what the manager relies on.                   *)
(***************************************************************************)
EXTENDS Naturals, FiniteSets, Sequences

CONSTANTS
    Names,       \* names of Linux users that may have access
    Foreign,     \* those that are users of the server without the manager
    Keys,        \* public keys
    Folders,     \* the sequence of /var/go and /var/www
    Slots,       \* requests under way at a time
    MaxRequests, \* bound: requests
    MaxFaults    \* bound: failures

Paths == {Folders[i]: i \in DOMAIN Folders}

\* On the constants; Services assumes it of its instance.
SSHAssumption ==
    /\ Foreign \subseteq Names
    /\ Folders \in Seq(Paths) /\ Folders # <<>>
    /\ MaxRequests \in Nat /\ MaxFaults \in Nat

VARIABLES
    linux,     \* users of the server
    keys,      \* authorized_keys
    granted,   \* pairs of user and folder the access lists allow
    files,     \* state files: name -> what they record
    requests,  \* control of Upsert and Delete
    begun, faults,
    disturbed, \* names of which a request failed, or met another one
    met,       \* names of which a request met another one
    made       \* names recorded and not taken for gone since

vars == <<linux, keys, granted, files, requests, begun, faults, disturbed, met, made>>

NoKey == "no key"
NoName == "no name"

\* What a state file records; key stands for its preview.
Access == [key: Keys \cup {NoKey}, folders: SUBSET Paths]

\* known says that the state file was there, line is the key to be written,
\* set counts the folders done.
Request == [at: {"idle", "find", "useradd", "key", "folders", "record",
                 "acls", "userdel", "remove"},
            name: Names \cup {NoName}, access: Access, line: Keys \cup {NoKey},
            known: BOOLEAN, set: 0 .. Len(Folders)]

Idle == [at |-> "idle", name |-> NoName, access |-> [key |-> NoKey, folders |-> {}],
         line |-> NoKey, known |-> FALSE, set |-> 0]

TypeOK ==
    /\ linux \subseteq Names
    /\ keys \in [Names -> Keys \cup {NoKey}]
    /\ granted \subseteq Names \X Paths
    /\ DOMAIN files \subseteq Names /\ files \in [DOMAIN files -> Access]
    /\ requests \in [Slots -> Request]
    /\ begun \in 0 .. MaxRequests /\ faults \in 0 .. MaxFaults
    /\ met \subseteq disturbed /\ disturbed \subseteq Names /\ made \subseteq Names

server == <<linux, keys, granted>>

Recorded == DOMAIN files
Busy(n) == {s \in Slots: requests[s].name = n}

Begin(s, r) ==
    /\ requests[s].at = "idle"
    /\ begun < MaxRequests
    /\ begun' = begun + 1
    /\ requests' = [requests EXCEPT ![s] = r]
    /\ met' = IF Busy(r.name) = {} THEN met ELSE met \cup {r.name}
    /\ disturbed' = disturbed \cup met'
    /\ UNCHANGED faults

Step(s, at) ==
    /\ requests' = [requests EXCEPT ![s].at = at]
    /\ UNCHANGED <<begun, faults, disturbed, met>>

Return(s) ==
    /\ requests' = [requests EXCEPT ![s] = Idle]
    /\ UNCHANGED <<begun, faults, disturbed, met>>

-----------------------------------------------------------------------------
(* Upsert                                                                  *)

\* The state file is read; without a key in the request the present one is
\* kept, and a new access must come with one.
Upsert(s, n, key, folders) ==
    /\ key = NoKey => n \in Recorded /\ keys[n] # NoKey
    /\ Begin(s, [Idle EXCEPT
            !.at = "find", !.name = n, !.known = n \in Recorded,
            !.line = IF key = NoKey THEN keys[n] ELSE key,
            !.access = [key |-> IF key = NoKey THEN files[n].key ELSE key, folders |-> folders]])
    /\ UNCHANGED <<server, files, made>>

\* Mutant: a Linux user the manager did not make is taken.
MayManage_Anyone(r) == TRUE

\* userExists: a user without a state file is not the manager's to change.
MayManage(r) == r.known \/ r.name \notin linux

FindUser(s) ==
    LET r == requests[s]
    IN  /\ r.at = "find"
        /\ IF MayManage(r)
           THEN Step(s, IF r.name \in linux THEN "key" ELSE "useradd")
           ELSE Return(s)
        /\ UNCHANGED <<server, files, made>>

\* useradd fails for a user that is there by now.
AddUser(s) ==
    LET r == requests[s]
    IN  /\ r.at = "useradd"
        /\ IF r.name \in linux THEN Return(s) /\ UNCHANGED linux
           ELSE Step(s, "key") /\ linux' = linux \cup {r.name}
        /\ UNCHANGED <<keys, granted, files, made>>

\* writeAuthorizedKey: the file is written even for a user who is gone, and
\* then chown fails.
WriteAuthorizedKey(s) ==
    LET r == requests[s]
    IN  /\ r.at = "key"
        /\ keys' = [keys EXCEPT ![r.name] = r.line]
        /\ IF r.name \in linux THEN Step(s, "folders") ELSE Return(s)
        /\ UNCHANGED <<linux, granted, files, made>>

\* applyPathACL: /var/go, then /var/www.
ApplyPathACL(s) ==
    LET r == requests[s]
        f == Folders[r.set + 1]
    IN  /\ r.at = "folders"
        /\ IF r.name \in linux
           THEN /\ granted' = IF f \in r.access.folders THEN granted \cup {<<r.name, f>>}
                              ELSE granted \ {<<r.name, f>>}
                /\ requests' = [requests EXCEPT
                        ![s].set = @ + 1,
                        ![s].at = IF r.set + 1 = Len(Folders) THEN "record" ELSE @]
                /\ UNCHANGED <<begun, faults, disturbed, met>>
           ELSE Return(s) /\ UNCHANGED granted
        /\ UNCHANGED <<linux, keys, files, made>>

WriteState(s) ==
    LET r == requests[s]
    IN  /\ r.at = "record"
        /\ files' = [n \in Recorded \cup {r.name} |-> IF n = r.name THEN r.access ELSE files[n]]
        /\ made' = made \cup {r.name}
        /\ Return(s)
        /\ UNCHANGED server

-----------------------------------------------------------------------------
(* Delete: the state file goes last.                                       *)

\* Mutant: the state file goes first.
Delete_StateFirst(s, n) ==
    /\ n \in Recorded
    /\ Begin(s, [Idle EXCEPT !.at = "acls", !.name = n])
    /\ files' = [m \in Recorded \ {n} |-> files[m]]
    /\ UNCHANGED <<server, made>>

Delete(s, n) ==
    /\ n \in Recorded
    /\ Begin(s, [Idle EXCEPT !.at = "acls", !.name = n])
    /\ UNCHANGED <<server, files, made>>

\* removePathACLs ignores what fails.
RemovePathACLs(s, failed) ==
    /\ requests[s].at = "acls"
    /\ granted' = {g \in granted: g[1] # requests[s].name \/ g[2] \in failed}
    /\ Step(s, "userdel")
    /\ UNCHANGED <<linux, keys, files, made>>

\* userdel -r takes the home directory along.
DeleteUser(s) ==
    LET n == requests[s].name
    IN  /\ requests[s].at = "userdel"
        /\ linux' = linux \ {n}
        /\ keys' = IF n \in linux THEN [keys EXCEPT ![n] = NoKey] ELSE keys
        /\ made' = made \ {n}
        /\ Step(s, "remove")
        /\ UNCHANGED <<granted, files>>

\* `id` fails, by itself or because the request's time is over: the user is
\* taken for gone, and only its state file goes.
UserNotSeen(s) ==
    /\ requests[s].at = "userdel"
    /\ faults < MaxFaults
    /\ faults' = faults + 1
    /\ disturbed' = disturbed \cup {requests[s].name}
    /\ made' = made \ {requests[s].name}
    /\ requests' = [requests EXCEPT ![s].at = "remove"]
    /\ UNCHANGED <<server, files, begun, met>>

RemoveState(s) ==
    /\ requests[s].at = "remove"
    /\ files' = [n \in Recorded \ {requests[s].name} |-> files[n]]
    /\ Return(s)
    /\ UNCHANGED <<server, made>>

-----------------------------------------------------------------------------
\* The step a request is at fails, or the process ends before it.
Aborts(s) ==
    /\ requests[s].at # "idle"
    /\ faults < MaxFaults
    /\ faults' = faults + 1
    /\ requests' = [requests EXCEPT ![s] = Idle]
    /\ disturbed' = disturbed \cup {requests[s].name}
    /\ UNCHANGED <<server, files, begun, met, made>>

Init ==
    /\ linux = Foreign
    /\ keys = [n \in Names |-> NoKey]
    /\ granted = {}
    /\ files = <<>>
    /\ requests = [s \in Slots |-> Idle]
    /\ begun = 0
    /\ faults = 0
    /\ disturbed = {}
    /\ met = {}
    /\ made = {}

Serve(s) ==
    \/ \E n \in Names, key \in Keys \cup {NoKey}, folders \in SUBSET Paths:
        Upsert(s, n, key, folders)
    \/ FindUser(s)
    \/ AddUser(s)
    \/ WriteAuthorizedKey(s)
    \/ ApplyPathACL(s)
    \/ WriteState(s)
    \/ \E n \in Names: Delete(s, n)
    \/ \E failed \in SUBSET Paths: RemovePathACLs(s, failed)
    \/ DeleteUser(s)
    \/ UserNotSeen(s)
    \/ RemoveState(s)
    \/ Aborts(s)

Next == \E s \in Slots: Serve(s)

Spec == Init /\ [][Next]_vars

-----------------------------------------------------------------------------
(* Properties                                                              *)

\* A user the manager did not make is never changed, removed or recorded,
\* whatever fails and however the requests interleave.
ForeignersAreLeftAlone ==
    \A n \in Foreign: n \in linux /\ n \notin Recorded /\ keys[n] = NoKey

\* A user whose access was recorded can be changed and deleted until it is
\* gone or taken for gone: its state file is the last thing to go, so a
\* deletion that failed half way can be tried again.  Names are excepted on
\* which two requests worked at a time.
RecordedUntilGone == made \ met \subseteq Recorded

\* With no request under way a state file tells what the server has: the
\* user, the key and the folders, unless a request of that name failed or
\* met another one.
RecordsAreTrue ==
    \A n \in Names \ (Foreign \cup disturbed):
        Busy(n) = {} =>
            /\ n \in Recorded <=> n \in linux
            /\ n \in Recorded => files[n] = [key |-> keys[n],
                                             folders |-> {f \in Paths: <<n, f>> \in granted}]

SSHAccessConsistent ==
    /\ TypeOK
    /\ ForeignersAreLeftAlone
    /\ RecordedUntilGone
    /\ RecordsAreTrue
=============================================================================
