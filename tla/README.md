# A TLA+ model of the dashboard backend

This directory keeps the formal model of the Go backend in `src/` (module
`botDashboard`): the chat with its log, groups, calls, media, presence and gateway,
the message broker, the wedding site with its code, answers, uploads, gallery and
video queue, the accounts, and the SSH accesses of the server. TLC checks the model
on small instances, and TLAPS proves most of the safety properties for every value of
the constants.

1. [The system](#1-the-system)
2. [Modules](#2-modules)
3. [How to read an action](#3-how-to-read-an-action)
4. [The models](#4-the-models)
5. [Runs and bounds](#5-runs-and-bounds)
6. [Fairness](#6-fairness)
7. [Proofs](#7-proofs)
8. [What the model says about the code](#8-what-the-model-says-about-the-code)
9. [Not modelled, and the plan](#9-not-modelled-and-the-plan)

To check: `tlc -config X.cfg M` for the runs of section 5, `tlapm M.tla` for each
module `M` whose name ends in `Proofs`.

## 1. The system

Four programs are built from the repository.

| program | role |
|---|---|
| `cmd/dash` | HTTP API, the bbolt database, the NATS listeners that execute chat commands, an hourly cleanup of media, the wedding site and its video worker |
| `cmd/chat` | websocket gateway: passes the commands of clients on to NATS and persisted events back to clients |
| `cmd/cli` | administration |
| `cmd/wedding-drive-auth` | one-time authorisation of Google Drive |

A command of a websocket client (send, edit, delete, react, read, pin) is
published to NATS by `cmd/chat`, executed in one bbolt transaction by the
listener of `cmd/dash`, and announced by an event published after the commit;
the gateway's listener of that event broadcasts it. HTTP handlers of `cmd/dash`
call the same store methods and publish the same events. bbolt has one writer at
a time, so an `Update` transaction is atomic and all of them are totally
ordered; whatever is outside a transaction (a check made on a snapshot, a file,
an event, a call of Drive or systemd) is not.

### Components

Each with the state it keeps, its operations, what is hard about it and what
makes it correct. The names are those of `PROJECT.json`.

**chat message log** (`internal/store/chat.go`). State: conversations, with a
hand-kept preview (`LastMessageID`, `LastMessageText`) and pin, members with a
read pointer, messages with receipts, and reactions, favourites and reminders in
buckets of their own. Operations: the four `Add*` methods with deduplication by
`client_message_id`, system notifications, forwarding, receipts, editing,
deleting, clearing, pinning, annotations, membership, deletion, recreation.
Storing trims: at `CHAT_MAX_MESSAGES` the oldest half goes. Hard: every path
that removes messages must repair five kinds of references. Correct when the
preview, pointers, pins and annotations agree with the stored messages, a retry
is not stored twice, and nothing read becomes unread by itself.

**chat calls** (`chat.go`, `internal/http/routes/*ChatCall*.go`). State: a record
per call and its card, a message in the log. Operations: start, join, leave, end,
mute; and everything that removes the card. Hard: two records; a route checks
access in a transaction before the one that changes the call; a trim in one
conversation ends a call. Correct when a conversation and a user have one call
at most, and card and call agree.

**chat gateway** (`internal/chat`). State: the map of clients, a channel of eight
messages per client, two goroutines per client. Operations: register,
unregister, broadcast, read, write, close. Hard: a broadcast uses a snapshot;
clients are closed from both loops and from broadcasts; presence is published
outside the mutex. Correct when a connection that ends leaves nothing behind, a
broadcast reaches whoever is connected, and presence is right in the end.

**presence of users** (`chat.go`, `internal/event/chat_handlers.go`). State: online
flag and time per user, expiring after `CHAT_PRESENCE_ONLINE_TTL`. Driven by
commands of the gateway that may come late and out of order.

**broker listeners and shutdown** (`pkg/broker`, `pkg/shutdown`,
`internal/event/broker.go`). State: a subscription, a Go channel of 100, a
goroutine, a context. Hard: three goroutines share the channel, one closes it.
Correct when messages are handled in order, none is lost without the subscription
being too slow, and the shutdown ends.

**wedding video queue** (`internal/weddingmedia/video_jobs.go`, `video_worker.go`)
and **wedding video processing** (`video_processing.go`, `video_copy.go`,
`video_hls_processing.go`, `video_drive.go`). State: a durable queue with
attempts, backoff and the name of the systemd unit that runs FFmpeg; work files;
private copies on Drive. Hard: FFmpeg outlives the process, systemctl may fail,
the answer of an upload may be lost, every database write may fail. Correct when
one job runs at a time, no copy is made twice, a video is offered only when both
copies exist, and each one settles.

**chat conversations, groups and drafts** (`chat.go`, group routes). State: members
with roles, the index of a user's conversations, drafts. Operations: create a
group, a direct or a system conversation, add and remove members, change roles,
delete, save and clear a draft. Hard: routes check roles on a snapshot, then change
in another transaction. Correct when a group keeps its one owner, and the index
agrees with the members.

**chat commands and events pipeline** (`internal/event`). No state of its own; commit,
speak, publish. Hard: a crash between commit and event, duplicates answered
without an event, events that overtake one another. Correct when whatever is stored
or removed is announced once unless the process dies.

**chat media files** (`chat.go`, media routes, `cmd/dash/main.go`). State: files
beside message records, consumption, expiry. Hard: files are written before the
message and removed inside a transaction that may roll back; a file is read before
its message is consumed. Correct when a stored message has its file, media is served
once, and a file without a message goes away.

**wedding media uploads** (`weddingmedia/service.go`). State: resumable Drive
sessions, kept in a database; pools of places for requests. Hard: Drive's answer to
a chunk may be lost; crash before the session is stored; quotas. Correct when what
a guest was told is durable, the record never runs ahead of Drive, a completed
video has its job, and uploads never take the places of those who look.

**wedding gallery, caches and Drive token** (`service.go`, `thumbnail_cache.go`).
State: a list and a number with generations, thumbnails in memory, the tokens of
Google. Hard: an answer older than a change must not be cached; waiters of a count
that fails; a refresh token that Google replaces. Correct when no cached or
answered number misses a completed upload, every waiter is woken, and the newest
token that could be saved is in use.

**wedding site: RSVP and access code** (`internal/store/wedding.go`,
`wedding_routes.go`). State: the code with a version, wrong attempts and locks of
addresses, answers, goroutines that notify. Hard: the settings are read before the
transaction that counts; answers are changed while they are deleted. Correct when a
cookie names its code, locks hold, and an answer stays deleted.

**users, sessions and password reset** (`internal/store/user.go`, profile and admin
routes). State: a record per e-mail, subscriptions of devices, reset tokens. Hard: a
record is read in one transaction and written whole in another; an e-mail may
change. Correct when an account has one record, with the last password set, and a
token sets one.

**rate limiter** (`pkg/ratelimit`). A table of windows under a mutex; correct when the
number of hits in any window and the size of the table are bounded.

**SSH access manager** (`internal/system/ssh_access.go`). State: Linux users,
`authorized_keys`, access lists, state files. Hard: several commands, any of which may
fail, and nothing keeps two requests apart. Correct when other users of the server
are left alone and a record stays until its user is gone.

**Alice announcements** (`internal/alice`, `chat_handlers.go`). Which speakers say a
message, cutting a text into parts, quiet hours.

**audit log**, **server maintenance and status**, **push and mail**, **drawing and
proxy clients**, **HTTP server, middleware, validators and command line**, **generic
helpers**: see section 9.

## 2. Modules

| module | models | checked with |
|---|---|---|
| `ChatLog` | the message log of one conversation | `MCChatLog`, `ChatLogDirect.cfg`, `ChatLogGroup.cfg` |
| `ChatCalls` | calls over several conversations, with the routes | `MCChatCalls`, `ChatCalls.cfg` |
| `ChatHub` | the gateway and presence | `MCChatHub`, `ChatHub.cfg`, `ChatHubBroadcast.cfg` |
| `BrokerListener` | one subscription and the shutdown | `BrokerListener.cfg`, `BrokerListenerClose.cfg` |
| `VideoJobs` | the video queue, its worker and the processing steps | `MCVideoJobs`, `VideoJobs.cfg`, `VideoJobsUnitRecord.cfg` |
| `VideoQueue` | what the queue promises, implemented by `VideoJobs` | as a property of `VideoJobs` |
| `WeddingUpload` | resumable uploads of guests and the cached gallery list | `MCWeddingUpload`, `WeddingUpload.cfg` |
| `ChatDelivery` | what happens around a log's transactions: events, speakers, media files | `MCChatDelivery`, `ChatDelivery.cfg` |
| `Services` | the eight components below, one at a time | `MCServices`, `Services.cfg` |
| `ChatGroups` | conversations, members, roles, lists and drafts | the same |
| `UserAccounts` | accounts, subscriptions, reset tokens | the same |
| `WeddingAccess` | the invitation code, locks and cookies | the same |
| `WeddingRsvp` | answers of guests behind the rate limiter | the same |
| `SSHAccess` | SSH accesses, command by command | the same |
| `WeddingSummary` | the number of media and its cache | the same |
| `ThumbnailCache` | thumbnails in memory | the same |
| `MediaRequests` | places of requests and the tokens of Google | the same |
| `AliceText` | cutting of texts and quiet hours, as operators | the same |
| `ChatLogProofs`, `ChatDeliveryProofs`, `ChatCallsProofs`, `ChatHubProofs`, `BrokerListenerProofs`, `VideoJobsProofs`, `WeddingUploadProofs`, `ServicesProofs` | the inductive invariant of the module named and its theorems (section 7) | tlapm |

`VideoJobs` instantiates `VideoQueue` with the refinement mapping `outcome`
(queued and processing are "pending"). `ChatDelivery` instantiates `ChatLog`: the
log's transactions are conjuncts of its own steps, so a file follows its message
through the same trims and deletions the log's proofs are about. `ChatCalls` repeats
of the log only what calls see: which messages are stored and what a trim takes.
The other components touch in three places. A call lives in the log as a card (`ChatCalls` has both). The
hub's presence commands travel through a `BrokerListener` (in `ChatHub` a FIFO
that loses nothing: the case `BrokerListener` shows for a subscription that is
not too slow). A completed upload enqueues a video: `Persist` of `WeddingUpload`
puts it into `jobs`, and `EnqueueVideoJob` of `VideoJobs` begins there.

`Services` holds eight components in one specification that share no state in the
program either: the databases' buckets, files and memory of each are its own.
The functions of `AliceText`, which has no state, go with them; `MCServices` gives the
constants values. A behaviour picks one (`focus`) and runs it; the others stay in their initial states.
Interleaving them would multiply the states and show nothing, as no action of one
reads a variable of another.

Mutated definitions (`Name_What`) stand in front of the definition they vary,
with a comment "Mutant". No specification uses them: they are plausible bugs
that show which property would catch them, as `PROJECT.json` lists.

## 3. How to read an action

An action is one bbolt transaction, one section under a mutex, one channel
operation, or one external call. Its guard holds the code's early returns: a call
that returns an error and changes nothing is not a step. Names are the code's.
`map` in `PROJECT.json` has the lines of every definition.

Data is reduced to what the properties tell apart: a message is its number (the
storing order), author, client ID, kind, edit number and receipts; a text is the
number of its last edit, a preview that number with the form it is shown in; a file
exists or not.

## 4. The models

### ChatLog

`messages`, `lastRead`, `pinned`, `last`, `lastText` and `annotations` are the
buckets and fields of one conversation; `limit` is `CHAT_MAX_MESSAGES`, which may
differ after `Restart`. `AddMessage` stands for the text, audio, image and file
variants (their storing part is the same); `Store` is their common tail,
`TrimOnce` and `TrimUntilBelow` are the two ways the code trims.

Where it departs from the code's shape:

- The code orders messages by `CreatedAt`, then ID; the model by storing order.
  They agree unless the wall clock steps back.
- `Keep` repairs the read pointers on every removal, the code only if something
  was removed. Without a removal pointers are on stored messages
  (`PointerBackedByReceipts`), and the repair changes nothing.
- Several reminders of a user on one message are one.
- `trimMessagesUntilBelowLimitWithResult` is a loop; `TrimCount` is its closed
  form (whole halves until the log is below the limit).
- Audio and images have a fixed text that is their preview, too. A file has its bare
  name as text, and `chatMessagePreviewText` puts a prefix in front when it is stored;
  the repair of the preview after a removal takes the bare text. Hence the two
  forms of `Label`, and `PreviewShowsNewest` allows a file either.

`LostPinIsOlder` states what the code does with pins: deleting and clearing take
the pin away, a trim does not, so a conversation may name a pinned message that
is gone. It is always one the trim pushed out.

A notification chat (`Types` with "system") is written by its member through the
ordinary commands too, although README.md calls it read-only; the model has
these writes, since no store method looks at the type.

### ChatCalls

`calls` is the bucket of call records, `cards` the `Call` field of stored
messages. `StartCall` and `JoinCall` check everything in their transaction.
Leave, end and mute are two steps, `PassAccess` (the route's
`ensureConversationAccess`) and the transaction, with anything between; the
transaction does not ask again. A request that fails is `Refuse`.

A removed group member stays a participant of a running call: `RemoveGroupMember`
touches no call. The routes then refuse the member's leave, and the member can
be in no other call until somebody ends this one. The code promises nothing
about this; the invariants hold in spite of it.

### ChatHub

An actor is a goroutine that works on the hub: a listener's broadcast, or a
client's read loop. `registered` is the map under the mutex, `queued` the number
of messages in `Client.send`, `closed` and `connected` what `Close` changes.
`SendToClient` is the select of `broadcast` with its panic on a closed channel;
`panicked` ends the process. `commands` is the way to `cmd/dash`, where
`HandlePresence` changes `online`, and `PresenceExpires` is the TTL.

Typing notices with their timers, authentication and a second gateway process
are left out. What a peer sent before it went away counts as read before.

### BrokerListener

The callback of the subscription, the listener's goroutine (`consumer`) and the
shutdown goroutine, at the grain of channel operations. NATS is external: a
server that sends in order (`Arrive`), a pending limit beyond which it drops, and
`Drain` and `Close`. A malformed message is dropped by the callback. `lost`
collects what is dropped, so that `NothingVanishesWhileUp` can say that nothing
else disappears. `cmd/chat` never calls `Listener.Stop`; the model has the
shutdown of `cmd/dash`.

### VideoJobs

`jobs` is the bucket, `worker` the goroutine with its local variables, `units`
the FFmpegs that systemd runs, `files` the work directory, `copies` the copies
on Drive. An attempt is find, download, record the unit, run, publish, and the
same for HLS, then `SetVideoJobHLS` and `FinishVideoJob`. Probes and conversions
count as one command with one unit name. Every failure the code handles is a
disjunct: a database write that fails, no disk space, a command that fails, a
unit that cannot be stopped, an upload whose answer is lost, a crash at any
step, a shutdown at any step. An error of Drive or FFmpeg is free; the others
count against `MaxFaults`, else no video would have to settle.

A failed attempt with `errVideoUnitStopFailed` is given back by the recovery,
like a crash (so `attempts` counts failures only). The HLS copy made again from
the same MP4 copy is taken to have the same layout digest. `cmd/dash` has two
goroutines that wait for the same signal, one of which calls `os.Exit` while the
other may still be in `Close`; for the queue that is `Crash`.

### WeddingUpload

`started` is where `start` of an upload is, `sessions` and `memory` are the map of
sessions and the objects in it, `stored` the bucket, `requests` the PUT and GET
requests in `resume`, which hold the upload's mutex from `Lock` to their return.
`drive` is what Google Drive has: it keeps a prefix of the file and may take only
the beginning of a chunk. `Ask` is the lookup before the mutex; between the two
the process may forget or finish the upload. An error of Drive, a transaction that
fails and a restart (a crash, or a `Close` at any moment, which stores nothing)
count against `MaxFaults`.

- Sizes count units of 256 KiB. Files are multiples of it; a last unit that is
  shorter changes nothing.
- Guests ask for sessions of their own that they were told of; the owner's check
  and malformed ranges are refusals without a change.
- The folder of a session and the configured one agree; video processing is on.
- The job of a video is named by its file on Drive, of which an upload has one.
- Drive is up to date when it is listed, as the code takes it.
- `list` is modelled for one cursor. A page fetched before a completion must not
  be cached after it; that is what `generation` is for. A restart begins at
  generation 0 with no viewer left from before.
- Left out: the limit of 60 new sessions a minute. The places of concurrent requests
  are `MediaRequests`.

### ChatDelivery

A `task` is a request of `cmd/dash` and what it holds: the listener of send commands
is one, uploads, fetches and deletions are others. `messages` and the rest of the log
are `ChatLog`'s, and `FilesFollow` says what a transaction that removes messages
does to their files (`disk`). After its commit a request speaks (`Speak`), then
publishes (`Publish`); `told`, `toldGone`, `spoken` and `served` count what clients
and speakers got. Faults: a crash that ends every request, an event that cannot be
published, a file that cannot be removed, a commit that fails after the transaction
removed files.

- The persisted event carries the message as it was at the commit, and may be
  overtaken by the event of a later edit or deletion. `StoreIsAnnounced` counts
  events and says nothing of their order.
- A file is left for good by a crash between the file and the message (or between
  consumption and removal) or by a removal that fails; `abandoned` collects these. It
  is also left by an upload whose client ID names a stored message of another kind:
  the transaction answers with that message whatever its kind, and the route removes its
  new file only next to a record of its own kind (`UploadRepeated`). `unclaimed`
  collects these. Nothing in the code looks for files without a message.
- A transaction that is rolled back after it removed files leaves a message whose
  file is gone; a fetch then answers 404, and expiry clears the path later.
- Client IDs are the clients' choice: an upload may repeat that of a text, of its own kind
  or of another (`MediaKinds`), of a message still stored or long trimmed.
- Alice speaks audio from the upload's request; images and files are published only.
- Edits, reactions, reads and pins publish in the same way and are left out.

### ChatGroups

`role` is the bucket of members, `index` that of the users' conversations, `request`
the routes that have passed their check and not yet begun their transaction.

- An admin demoted between check and transaction still removes or adds, and the
  removal of a user who was no member in the snapshot is not checked at all: the
  code loads the snapshot and skips them. None of this touches the owner, whom no
  approved request may name, because the role of the owner never changes hands.
- A send command without a conversation creates the direct chat without the look
  at visibility that `PostChatDirect` makes.
- Drafts stay when the member is removed and when the conversation is deleted; they
  show again when a direct chat is created anew.

### UserAccounts

A record has an id (which account it is; the code has none) and a password, which is
the number of the request that set it. Routes read a record, then write it whole:
two that overlap lose an update, bring back a deleted account, or take an e-mail
twice. `raced` collects the accounts that happened to, and the properties are about
the others. A reset token is used up before the password is stored, so an error in
between costs the user the token. Subscriptions are kept by e-mail and survive the
account, and the next owner of the e-mail has them.

### WeddingAccess, WeddingRsvp

`WeddingAccess` has the verification of a code in its three parts (the time, the
settings, the transaction that counts), the settings with their version, and the
cookies. A version is the number it came into use with. The settings an administrator
sends may name one, and keep it if they change neither the code nor the switch: one
that was in use before is brought back (`returned`), or one nobody knew comes into use.
`WeddingRsvp` has the route of answers behind `Limiter.Allow`, and the
administrators' changes. The notice of an answer is a goroutine and is lost with the
process. The model keeps the times of the hits it allowed each address, to say that of
`2 * Limit + 1` in a row the last comes a window after the first. A limiter full of buckets that are over refuses newcomers until the next
reap, at most two windows later.

### SSHAccess

A step is a command or a file operation; each may fail, and two requests may work on
one name. A creation that failed after `useradd` leaves a Linux user without a
record, which neither Upsert nor Delete touches any more. When `id` fails in Delete
(with the 30 seconds of the request used up, say), `userdel` is skipped and only the
record goes. The writes of a state file count as atomic.

### WeddingSummary, ThumbnailCache, MediaRequests

`WeddingSummary` is the number of media: one request counts page by page, others wait
for it, uploads complete meanwhile. The number is that of a moment in between and
may be ahead of the completed uploads, never behind those before the request.
`ThumbnailCache` states the eviction loop by its result. `MediaRequests` has the pools of
`ServeHTTP` and `token`: which refresh tokens Google still accepts is not the
program's to know, so the model says which one is kept. A refresh token that could
not be saved is dropped with Google's answer, and the old one is tried again.

### AliceText

A text is the sequence of its words' lengths; the functions cut it as the code does and
are compared with what a cut should be: nothing lost, in order, short enough, no
cut without a reason. The label "part i of n" is added after the cut and may take a
part over the limit, and a prefix is given all room but 40 runes.

## 5. Runs and bounds

| run | instance | what it shows |
|---|---|---|
| `ChatLogDirect` | direct conversation, 2 users, limit 3, 5 messages, texts and files, forwards of 1, 1 edit, a client ID | preview in both forms, deduplication, pins, unread counters through every path of removal |
| `ChatLogGroup` | group and notification chat, limits 2 and 3, 4 messages, forwards of 2, 1 annotation | pointers and receipts with members who come back, annotations, trimming with a limit that changes |
| `ChatCalls` | 3 users, 2 conversations, capacity 2, limit 3, 3 messages, 1 request under way | one call per conversation and user, cards and calls agree, no call reopens |
| `VideoJobs` | 2 videos, 2 attempts, 2 faults | one job at a time, no second copy, files kept, refinement of `VideoQueue`, every video settles |
| `VideoJobsUnitRecord` | 1 fault less would do | violation, section 8 |
| `BrokerListener` | buffer 2, pending 2, 5 messages | order, no silent loss, panics only in shutdown, shutdown ends |
| `BrokerListenerClose` | buffer 1, 1 message | violation, section 8 |
| `ChatHub` | 1 user with 2 devices, buffer of 1, 1 command under way | one farewell per last client, broadcasts end, everything released, presence right in the end |
| `ChatHubBroadcast` | 2 users, 1 listener | violation, section 8 |
| `WeddingUpload` | 2 uploads of a guest, one a video, one with wrong content, 2 units each, 1 session at a time, 2 requests, 1 viewer, 2 faults | durable answers, record and Drive agree, completed videos have jobs, no stale list, every upload a guest keeps sending completes |
| `ChatDelivery` | group and direct conversation, limit 2, 2 messages, 1 sender, 1 reader, 1 shared speaker, 2 HTTP requests and the listener, 1 client ID for texts, audio and files, 2 files, 1 fault | files follow messages, media is served once, everything is announced, no double announcement, no file stays but the ones named in section 4 |
| `Services` | see below | the six properties of its components |

Why these bounds are enough to meet the cases:

- `ChatLog`: limit 3 with 5 messages trims one and keeps two, three times, so a trim can
  take the pointer's, the pin's or the edited message and leave others, and its repair
  shows the newest message anew; texts and files are the two ways a preview is made.
  Limits 2 and 3 have the halves 1 and 1, the smallest even and odd limit; forwarding 2 to a full
  log makes the loop go round more than once, and the limit falls from 3 to 2 at a
  restart. A client ID used twice by two users separates "same ID" from "same
  sender and ID".
- `ChatCalls`: two conversations and three users let a user be removed from the
  one while calling in the other; capacity 2 with 3 users is exceeded by one;
  the third message of a conversation trims the card of a running call, and with a
  limit of 3 two calls of one conversation would have room.
- `VideoJobs`: the second attempt is the last; two faults are a crash and a failed
  stop in the recovery after it, or a shutdown and a failed stop; two videos tell
  "one job" from "this job".
- `BrokerListener`: five messages exceed the two buffers, the callback and the
  handler together.
- `ChatHub`: two devices of one user are where register and unregister race on
  "first" and "last"; a buffer of one is full after one message. The devices
  broadcast to one another through `HandleCallSignal`, so there is no listener. Either may
  stop reading for good with its buffer full while the other broadcasts.
- `WeddingUpload`: two units and chunks of up to two give a whole file, two halves
  and a chunk of which Drive takes half; two requests race for the mutex with one
  answer; two faults are a lost answer and a crash after it. With one session at a
  time the second upload starts after the first failed or expired, or finds the
  place taken; it is the limit that a failed start would use up.
- `ChatDelivery`: with a limit of 2 the second message trims the first, whose file
  and events may be anywhere at that time; two requests are an upload and its retry, two
  fetches of one file, or a fetch and a deletion. One fault is enough for each kind;
  what a second would add is more of `abandoned` and `forgotten`. With one client ID (and
  none) every upload and text of the sender may repeat any other, of the same kind or not.
- `Services`: groups with 3 users, one group, one direct and one system conversation and 2
  approved requests (a request and one that overtakes it; an owner, an admin and a
  member); accounts with 2 e-mails, 1 device, 1 token, 4 requests of which 2 overlap;
  the code with 2 codes, 2 attempts, 2 verifications, a lock of one unit
  of two, and 3 versions, so that the one of an earlier code may come back, with which
  the changes end; answers with 2 addresses, a limit
  of 2 in 3 units of time, a table of 1 and 7 units, in which two windows and a reap
  fit; SSH with one name of the manager and one that is not, 2 keys, 2 folders, 3
  requests, 1 failure; 3 requests for the number of 2 media with one place, which
  other requests may take; 3 thumbnails of sizes 1 to 4 in a cache of 2 entries and
  3 bytes; 3 requests for 2 places, one of them for uploads, with 2 rotations and
  a crash; texts of up to 4 words of up to 5 runes and limits up to 7, and a
  clock of 7 minutes.

Symmetry is used for users in `ChatLogDirect` (both are founders) and for users
and conversations in `ChatCalls`, where no liveness is checked. Deadlock is
checked only where a system cannot stop; a bounded counter or a finished process
stops the others, hence `CHECK_DEADLOCK FALSE`.

## 6. Fairness

- `BrokerListener`: weak fairness on each goroutine, since Go schedules every
  goroutine that can run and NATS delivers what it holds. Handlers return. None on
  `Arrive` and `Signal`.
- `VideoJobs`: weak fairness on the worker, the backoff timers, the end of `Close`,
  and the start of a stopped service (systemd restarts it). None on uploads,
  crashes or shutdowns, of which there are at most `MaxFaults`.
- `ChatHub`: weak fairness on every goroutine, but for a write to a connection that is
  up: the code sets no write deadline, so it may never return (`WritingGoesOn`). A
  write to a connection that is over does. Strong fairness on `Publish`, only because the bound
  `MaxCommands` makes publishing wait, which the code does not. Strong fairness on
  the ping of a connected user: clients ping every few seconds. `PresenceExpires`
  is weakly fair: time passes. None on `Register` and `Disconnect`.
- `WeddingUpload`: weak fairness on a request that holds the mutex (calls of Drive
  have a timeout of three minutes), strong fairness on `Lock`, since Go's mutex hands
  itself to a waiter after a millisecond, and strong fairness on the guest of a
  genuine file, who asks for the status and sends the chunk behind the offset the
  last answer told, as the frontend does after an error. None on faults,
  viewers, expiry or restarts.
- `ChatDelivery`: weak fairness on the requests together (while one is under way one
  goes on), on time, which brings the expiry of every medium, and on `Cleanup`, which
  the ticker of `cmd/dash` runs every hour. None on faults, clients or deletions.
- `ChatLog`, `ChatCalls` and the modules of `Services` have safety properties only.

## 7. Proofs

Eight modules hold the theorems, each for any values of the constants that meet the
named assumptions of the component's module. `PROJECT.json` lists every theorem
with what it says; these are the ones that state a property of a run.

| module | theorems and their properties |
|---|---|
| `ChatLogProofs` | `TypeCorrect`, `PreviewCorrect`, `ReceiptsCorrect`, `AnnotationsCorrect`, `ClientIdsUnique`, `LostPins` (the invariants of the two runs); `PointersAdvance`, `UnreadReturns` and `TrimsTakeOldest` (`StoringTrimsOldest`; action properties) |
| `ChatDeliveryProofs` | `DeliveryStaysConsistent` (`DeliveryConsistent`), `MediaServedOnce` (`ServedOnce`), `StoresAreAnnounced` (`StoreIsAnnounced`), `SpeakersSayOnce` (`SpokenOncePerDevice`) |
| `ChatCallsProofs` | `CallsStayConsistent` (`CallsConsistent`), `CardsAlwaysShowCalls` (`CardsShowCalls`), `CallsNeverReopen` (`CallNeverReopens`) |
| `ChatHubProofs` | `OfflineSaidOnce` (`OfflineOncePerLastClient`) |
| `BrokerListenerProofs` | `ListenersStayConsistent` (`ListenerConsistent`) |
| `VideoJobsProofs` | `QueueStaysConsistent` (`QueueConsistent`), `OutcomesAreEarned` (`OutcomeIsEarned`), `OnlyShutdownForgetsUnits` (`UnitForgottenOnlyByShutdown`), `FilesStayWhileUnitsRun` (`FilesKeptWhileUnitRuns`), `QueueImplementsPromise` (`ImplementsQueue`: the refinement of `VideoQueue`) |
| `WeddingUploadProofs` | `UploadsStayConsistent` (`UploadsConsistent`), `SessionsStayRecorded` (`SessionsAreRecorded`), `CachedPagesStayCurrent` (`CachedPageIsCurrent`) |
| `ServicesProofs` | `GroupsStayConsistent` (`GroupsConsistent`), `AccountsStayConsistent` (`AccountsConsistent`), `SSHAccessesStayConsistent` (`SSHAccessConsistent`), `GuestsStayConsistent` (`GuestsConsistent`, which is `WeddingAccess` and `WeddingRsvp`), `GalleryStaysConsistent` (`GalleryConsistent`, which is `WeddingSummary`, `ThumbnailCache` and `MediaRequests`), `AliceTextStaysKept` (`AliceTextIsKept`) |

Invariants named `...Consistent` are conjunctions of the type invariant and of the
safety invariants whose names their modules give.

**Assumed of the constants.** Message limits are at least 2, as
`ConfigureChatMaxMessages` enforces; a call holds at least one user, a subscription
keeps at least one pending message; clients, videos, uploads and media are finite sets, with
at least one upload and one value of `VideoPreviews`; the words of a text have one rune at
least, as `strings.Fields` leaves none without; a video has at least one attempt,
a file and a chunk at least one byte. The system's names are apart from those of
users, and every client of the hub has one owner. `Services` takes what each of its
components assumes (`Constants`). All other constants are any sets and
natural numbers (in `Services` some, such as windows and lives, not 0). TLC evaluates every assumption in the runs.

**How a proof is built.** `IInv` (in `ServicesProofs`: `GroupsInv`, `AccountsInv`,
`SSHInv`, `AccessInv`, `RsvpInv`, `SummaryInv`, `ThumbnailInv`, `MediaInv`; in `ChatHubProofs`: `HubInv`) is the inductive
invariant; there is a lemma per action that it is preserved, under it a step per
conjunct the action disturbs, and the temporal theorems follow by PTL. Lemmas on the
operators come first. What a conjunct is needed for:

- `ChatLog`: a deleted conversation has no members, no messages and no pin (else
  `CreateDirectConversation` would come back with old pointers), and a pin is never
  a number not given out yet (else a new message would be the pinned one). The
  invariants need one another: `PreviewShowsNewest` is needed for the preview after
  an edit, `PointerBackedByReceipts` for `UnreadReturns`. `KeepStep`, `StoreStep`
  and `RemoveStep` say once what the steps share. For `TrimsTakeOldest` a trim is split at
  the oldest message it leaves, which has exactly as many older ones as the trim takes
  (`OldestAreMany`); `HalvesGo` bounds that number from below for odd and even
  limits.
- `ChatDelivery`: `LogStaysAChatLog` shows that every step is a step of the log it
  instantiates or leaves it alone, so the theorems of `ChatLogProofs` hold in it. On
  top: `TasksSound` (what a request or the listener has done so far, at each place in
  its code), `FilesOwned` and `FilesHandled` (a file belongs to one message or to one
  task), `UnclaimedSound` (a file an upload left next to a message of another kind is
  nobody's, and stays so), `ServedSound`, `ToldSound`, `AllAccounted` and `SpokenSound` for the sets
  that record what was served, published and said.
- `ChatCalls`: `Agree` relates log, calls and cards at once: an active call has
  somebody in it, and no more than fit (`Populated`), shares neither conversation nor
  user with another (`Exclusive`) and has its card in its log (`Shown`). With it go
  facts the runs do not check: a number is in one log only and has been given out, and
  a request under way is one the routes can send. `Exclusive` alone is not
  inductive: `StartCall` and `JoinCall` find the active call through its card.
- `ChatHub`: `NobodyLeftBehind`: every client that is registered has an
  `Unregister` of its own still to come. Without it a loop that is over
  could leave a client behind, and "last client" would mean nothing.
- `BrokerListener`: what was handled, is being handled, is in the channel and is
  pending is one ascending sequence (`InOrder`), each number up to `sent` is in it or
  was lost noticeably (`Accounted`), and the number of closes fits the places
  of the goroutines (`ClosesFit`).
- `VideoJobs`: the worker's place says what its job looks like
  (`WorkerHasTheJob`), which copies of it there are (`CopiesFitStage`), what the
  result rests on (`ResultIsEarned`) and which units may run (`UnitsAccounted`).
  `OneMove` says that a step moves one job at most, along the pairs of `Moves`, each
  of which is a step of `VideoQueue` or none.
- `WeddingUpload`: the session in memory, the record and Drive agree up to what a
  start or a request is in the middle of (`SessionSound`, `UploadSound`,
  `RequestSound`); a cached page has every completed upload, and so has a list a viewer
  may still store, whose generation is the present one (`ViewerSound`).
- `Services`: the lemma `ServicesRun` says that a step of the whole is a step of a
  component or leaves its variables alone; each component is then proved by itself.
  - `ChatGroups`: an approved removal or change of role is not about the creator,
    however old the approval (`ApprovedSparesCreator`), and a user's list is exactly the
    conversations with the user as a member (`IndexIsMembers`).
  - `UserAccounts`: what a request under way has read (`Carried`), the creations under
    way, which have a number to come (`CreatingCounted`), the one record of an account nobody
    wrote over (`AccountHeld`), and one request per token (`TokensSound`).
  - `SSHAccess`: two requests under way for one name have met (`SSHMeetingsKnown`), a
    user of others is never past the first check (`SSHForeignRefused`), a user is gone before
    the file (`SSHGoneBeforeFile`), the record is true of a name nobody disturbed while no
    request is under way (`SSHQuietTrue`), and in between it is what the request has done so
    far (`SSHAloneSound`).
  - `WeddingAccess`: no version is newer than the newest that came into use; the snapshot
    of a verification with the version in force equals the settings unless that version was
    brought back (`SnapshotsSound`), the code of a cookie is then the one in force
    (`CookiesSound`), and the attempts on record are the wrong codes sent, all
    `MaxAttempts` of them exactly while the last lock earned is on record
    (`LocksSound`).
  - `WeddingRsvp`: the limiter's table forgets, so the invariant says of the hits of each
    address which of them opened a bucket (`StartsFit`: they are a window apart and no
    `Limit` hits pass without one) and that the last of these tells the bucket in
    the table or is over (`LastStart`). Between a hit and the one `2 * Limit` later there
    are then two starts, so a window lies between the two.
  - `WeddingSummary`: while a request counts, a medium it is done with is in its number if
    it had been completed before the request, and every completed one is while
    the generation is the one it started with (`CountSound`).
  - `MediaRequests`: the three counters are the numbers of requests in the places
    (`PlacesCounted`), a view is refused only with the rest of the places taken by views
    (`ViewsHaveTheRest`), and which tokens Google may still accept at each step of a
    rotation (`TokensTold`).
  - `ThumbnailCache`: the bytes are a fold of the library. The lemmas `Sizes...` show for
    finite sets that the recursion it stands for has a solution and one only, and that no
    order of taking elements away matters; each by a smallest set without the
    property (`SmallestSet`).
  - `AliceText` is shown for all texts: `LoopRuns` unrolls the fold over the words into
    the states of the loop one after another, `Stepwise` is the induction over them, and
    `LoopInv` the loop's invariant: the chunks so far are chunks (`ChunkSet`), each may come
    after the one before (`Follows`), and they end with the last word taken. `FlattenChain`
    makes one sequence of pieces of them, which `ChainSpells` reads as the text.

**Only model-checked.** Every safety invariant and action property of a passing run has
its theorem; what TLC alone checks is:

- Liveness: `EveryMessageSettled`, `ShutdownEnds`, `EveryFileGoes`,
  `BroadcastsEnd`, `GoneClientsAreReleased`, `PresenceSettles`, `EveryVideoSettles` and
  `EveryUploadCompletes`. `QueueImplementsPromise` is about the steps of `VideoQueue`;
  its `Settles` is checked as `EveryVideoSettles`.
- What the runs of section 8 show to be violated, which has no proof.

## 8. What the model says about the code

Three runs show the code doing other than it says:

- **The running unit is forgotten** (`VideoJobsUnitRecord`). `videoCopyProbeFailure`
  (`video_copy.go:221`) and `convertVideo` return the context's error before they
  look for `errVideoUnitStopFailed`. A shutdown during a stream copy whose unit
  cannot be stopped then cleans the work files and requeues the job without a unit,
  while FFmpeg goes on; `video_worker.go:207` wants the name kept until recovery
  confirms that FFmpeg stopped. `UnitForgottenOnlyByShutdown` shows this is the only
  way.
- **The channel is closed twice** (`BrokerListenerClose`). At a shutdown both `Stop`
  and the goroutine's deferred `cancelSub` close the channel; the comment at
  `nats.go:73` says once. The second close panics. `PanicsOnlyInShutdown` shows that
  no panic comes before the context is cancelled.
- **A broadcast can kill the gateway** (`ChatHubBroadcast`). `broadcast` sends to the
  clients of a snapshot; one may have been closed since by its write loop or by
  another broadcast. The send panics, and the connected participants still to be
  served (`hub_test.go:435` expects them to be) get nothing.

Described without a run, since no line of the repository says otherwise: lost pins and
writable notification chats (ChatLog), the removed member who stays in the call
(ChatCalls), stale approvals and drafts that survive (ChatGroups), overlapping
writes of accounts (UserAccounts), files left by a crash or by an upload under the
client ID of another kind of message, and overtaken events (ChatDelivery), the preview of
a file that loses its prefix when it is repaired (ChatLog), an old version of the
wedding settings sent again, which lets in the cookies given for its code
(WeddingAccess), the half-made Linux user (SSHAccess).

## 9. Not modelled, and the plan

The order was and is by how much of the program's own logic a component holds.

1. `ChatLog` with proofs, `VideoJobs` with `VideoQueue`, `BrokerListener`,
   `ChatCalls`, `ChatHub`, `WeddingUpload`: done.
2. `ChatDelivery` over `ChatLog`; `ChatGroups`, `UserAccounts`, `WeddingAccess`,
   `WeddingRsvp`, `SSHAccess`, `WeddingSummary`, `ThumbnailCache`, `MediaRequests`,
   `AliceText` in `Services` and `MCServices`: done.
3. Proofs of every safety invariant and action property the passing runs check, and of
   the steps of `VideoQueue`: done.
4. Out of this prover's reach: liveness, with the part of `VideoQueue` that is about
   it.

Not modelled:

- typing notices and their timers in the gateway, and a second gateway process;
- the order of events between requests, and the events of calls;
- the race of the two goroutines that wait for a signal in `cmd/dash` (for the
  video queue it is `Crash`);
- playlists, profiles and the chunks of a video's upload, the streaming of media;
- JWT sessions and the sign-in through Google, which keep no state here;
- the audit log: how many entries it keeps depends on what bbolt's `Bucket.Stats`
  counts inside a write transaction, and bbolt's source is not in the repository;
- server maintenance, push, mail, drawing and proxy clients, HTTP wiring and
  `cmd/wedding-drive-auth`: I/O without state of their own;
- the wall clock (order of `CreatedAt`), and the contents of playlists and files;
- `ClearAll`, which empties its buckets in ten transactions and serves tests and the
  command line.
