----------------------------- MODULE VideoJobs -----------------------------
(***************************************************************************)
(* Background preparation of uploaded wedding videos: the durable queue    *)
(* (internal/weddingmedia/video_jobs.go), its single worker                *)
(* (video_worker.go), the processing steps (video_processing.go,           *)
(* video_copy.go, video_hls_processing.go) and the private copies on Drive *)
(* (video_drive.go).                                                       *)
(*                                                                         *)
(* A database transaction is one step.  FFmpeg runs in a systemd transient *)
(* unit that outlives the process; the queue records its name.  The        *)
(* contents of files and copies are left out: a copy exists or not, and an *)
(* HLS copy made again from the same MP4 copy has the same layout digest.  *)
(* Drive is taken to finish an upload when it has received the last byte   *)
(* and to list what it has finished.                                       *)
(***************************************************************************)
EXTENDS Naturals, FiniteSets

CONSTANTS
    Videos,       \* completed uploads
    Mappings,     \* values cfg.VideoPreviews may have after a start
    MaxAttempts,  \* 3 in finishVideoJob
    MaxFaults     \* bound: crashes, shutdowns, failed transactions, failed
                  \* stops and deferrals for lack of disk space

ASSUME VideoJobsAssumption ==
    /\ IsFiniteSet(Videos)
    /\ Mappings \subseteq SUBSET Videos /\ Mappings # {}
    /\ MaxAttempts \in Nat \ {0}
    /\ MaxFaults \in Nat

VARIABLES
    jobs,      \* video_jobs bucket
    service,   \* "up", "closing" (the worker's context is cancelled), "down"
    worker,    \* the worker goroutine: control and local variables
    mapped,    \* cfg.VideoPreviews of the running process
    units,     \* transient units running in systemd, by video
    files,     \* videos with files in the work directory
    copies,    \* finished private copies on Drive
    faults     \* faults so far

vars == <<jobs, service, worker, mapped, units, files, copies, faults>>

Stages == {"mp4", "hls"}

NoJob == [status |-> "none", attempts |-> 0, later |-> FALSE, unit |-> FALSE,
          preview |-> "none", hls |-> FALSE, created |-> 0]

Job == [status: {"none", "queued", "processing", "ready", "failed"},
        attempts: 0 .. MaxAttempts,
        later: BOOLEAN,                 \* NextAttemptAt is in the future
        unit: BOOLEAN,                  \* Unit is recorded
        preview: {"none", "copy", "mapped"},
        hls: BOOLEAN,
        created: 0 .. Cardinality(Videos)]

Worker == [pc: {"off", "loop", "wait", "recover", "requeue", "claim", "find",
                "prepare", "record", "start", "running", "publish", "sethls",
                "finish"},
           job: Videos,
           stage: Stages,
           command: {"copy", "encode"},
           result: {"none", "ok", "error", "deferred", "stopFailed"},
           recovering: BOOLEAN]

TypeOK ==
    /\ jobs \in [Videos -> Job]
    /\ service \in {"up", "closing", "down"}
    /\ worker \in Worker
    /\ mapped \subseteq Videos
    /\ units \subseteq Videos
    /\ files \subseteq Videos
    /\ copies \in [Videos -> [Stages -> Nat]]
    /\ faults \in 0 .. MaxFaults

Processing == {v \in Videos : jobs[v].status = "processing"}
At(pc) == worker.pc = pc
Fault == faults < MaxFaults /\ faults' = faults + 1
NoFault == faults' = faults
Goto(pc) == worker' = [worker EXCEPT !.pc = pc]

-----------------------------------------------------------------------------
(* Completed uploads.                                                      *)

\* Mutant: a settled job is started again.
EnqueueVideoJob_Again(v) ==
    /\ service # "down"
    /\ jobs[v].status \notin {"queued", "processing"}
    /\ v \notin mapped
    /\ jobs' = [jobs EXCEPT ![v] =
          [NoJob EXCEPT !.status = "queued",
                        !.created = Cardinality({w \in Videos \ {v} : jobs[w] # NoJob}) + 1]]
    /\ UNCHANGED <<service, worker, mapped, units, files, copies, faults>>

\* enqueueVideoJob, in the transaction of persist that completes the upload:
\* a job already there stays as it is, a mapped video needs none.
EnqueueVideoJob(v) ==
    /\ service # "down"
    /\ jobs[v].status = "none"
    /\ v \notin mapped
    /\ jobs' = [jobs EXCEPT ![v] =
          [NoJob EXCEPT !.status = "queued",
                        !.created = Cardinality({w \in Videos : jobs[w] # NoJob}) + 1]]
    /\ UNCHANGED <<service, worker, mapped, units, files, copies, faults>>

BackoffElapses(v) ==
    /\ jobs[v].later
    /\ jobs' = [jobs EXCEPT ![v].later = FALSE]
    /\ UNCHANGED <<service, worker, mapped, units, files, copies, faults>>

-----------------------------------------------------------------------------
(* The worker loop: runVideoWorker.                                        *)

Iterate ==
    /\ At("loop")
    /\ Goto(IF service = "closing" THEN "off"
            ELSE IF worker.recovering THEN "recover" ELSE "claim")
    /\ UNCHANGED <<jobs, service, mapped, units, files, copies, faults>>

\* The 30 s timer or a wake-up; a cancelled context ends the worker.
Wait ==
    /\ At("wait")
    /\ Goto(IF service = "closing" THEN "off" ELSE "loop")
    /\ UNCHANGED <<jobs, service, mapped, units, files, copies, faults>>

Due(v) == jobs[v].status = "queued" /\ ~jobs[v].later

OldestDue(v) == Due(v) /\ \A w \in Videos : Due(w) => jobs[v].created <= jobs[w].created

\* Mutant: the attempt is not counted when it is claimed.
Claimed_NotCounted(v) == [jobs[v] EXCEPT !.status = "processing", !.unit = FALSE]

Claimed(v) == [jobs[v] EXCEPT !.status = "processing",
                              !.attempts = @ + 1,
                              !.unit = FALSE]

\* claimVideoJob: nothing due or a failed transaction waits; a video that got
\* a manual mapping becomes ready at once; else the oldest due job is taken.
ClaimVideoJob ==
    /\ At("claim")
    /\ \/ /\ \A v \in Videos : ~Due(v)
          /\ Goto("wait")
          /\ NoFault
          /\ UNCHANGED jobs
       \/ \E v \in Videos :
          /\ OldestDue(v)
          /\ NoFault
          /\ IF v \in mapped
             THEN /\ jobs' = [jobs EXCEPT ![v].status = "ready", ![v].preview = "mapped"]
                  /\ Goto("wait")
             ELSE /\ jobs' = [jobs EXCEPT ![v] = Claimed(v)]
                  /\ worker' = [worker EXCEPT !.pc = "find", !.job = v, !.stage = "mp4",
                                              !.result = "none"]
       \/ /\ Fault
          /\ Goto("wait")
          /\ UNCHANGED jobs
    /\ UNCHANGED <<service, mapped, units, files, copies>>

-----------------------------------------------------------------------------
(* One attempt: processVideoAndHLS.  processVideo prepares the MP4 copy,   *)
(* processVideoHLS the HLS copy; the steps they share carry the stage.     *)

\* Mutant: the work files go even if the unit could not be stopped.
Return_CleansAlways(result) ==
    /\ worker' = [worker EXCEPT !.pc = "finish", !.result = result]
    /\ files' = files \ {worker.job}

\* The deferred cleanup: files stay while the unit may still run.
Return(result) ==
    /\ worker' = [worker EXCEPT !.pc = "finish", !.result = result]
    /\ files' = IF result = "stopFailed" THEN files ELSE files \ {worker.job}

\* Mutant: a finished copy is not looked for.
FindVideoCopy_Skipped ==
    /\ At("find")
    /\ \/ Goto("prepare")
       \/ worker' = [worker EXCEPT !.pc = "finish", !.result = "error"]
    /\ UNCHANGED <<jobs, service, mapped, units, files, copies, faults>>

\* Mutant: a finished MP4 copy ends the attempt.
FindVideoCopy_NoHls ==
    /\ At("find")
    /\ \/ /\ copies[worker.job]["mp4"] = 0
          /\ Goto("prepare")
       \/ /\ copies[worker.job]["mp4"] > 0
          /\ worker' = [worker EXCEPT !.pc = "finish", !.result = "ok"]
       \/ worker' = [worker EXCEPT !.pc = "finish", !.result = "error"]
    /\ UNCHANGED <<jobs, service, mapped, units, files, copies, faults>>

\* processVideo asks Drive for the original and for a finished copy before
\* it touches the work directory.
FindVideoCopy ==
    /\ At("find")
    /\ \/ /\ copies[worker.job]["mp4"] = 0
          /\ Goto("prepare")
       \/ /\ copies[worker.job]["mp4"] > 0
          /\ worker' = [worker EXCEPT !.pc = "prepare", !.stage = "hls"]
       \/ worker' = [worker EXCEPT !.pc = "finish", !.result = "error"]
    /\ UNCHANGED <<jobs, service, mapped, units, files, copies, faults>>

\* Space check and download; the input is created exclusively, so files left
\* behind by an earlier attempt make this one fail.
PrepareInput ==
    /\ At("prepare")
    /\ \/ Fault /\ Return("deferred")
       \/ NoFault /\ Return("error")
       \/ /\ NoFault
          /\ worker.job \notin files
          /\ files' = files \cup {worker.job}
          /\ Goto("record")
    /\ UNCHANGED <<jobs, service, mapped, units, copies>>

\* setVideoJobUnit, then the commands: probes and conversions count as one,
\* and a stream copy is tried before an encode when the source allows it
\* (convertVideo).
SetVideoJobUnit ==
    /\ At("record")
    /\ \/ /\ NoFault
          /\ jobs' = [jobs EXCEPT ![worker.job].unit = TRUE]
          /\ \E c \in IF worker.stage = "mp4" THEN {"copy", "encode"} ELSE {"encode"} :
                worker' = [worker EXCEPT !.pc = "start", !.command = c]
          /\ UNCHANGED files
       \/ Fault /\ Return("error") /\ UNCHANGED jobs
    /\ UNCHANGED <<service, mapped, units, copies>>

\* runVideoCommand; systemd refuses a unit name that is in use.
RunVideoCommand ==
    /\ At("start")
    /\ worker.job \notin units
    /\ units' = units \cup {worker.job}
    /\ Goto("running")
    /\ UNCHANGED <<jobs, service, mapped, files, copies, faults>>

CommandSucceeds ==
    /\ At("running")
    /\ units' = units \ {worker.job}
    /\ Goto("publish")
    /\ UNCHANGED <<jobs, service, mapped, files, copies, faults>>

\* A command that fails, or is killed by the cancelled context, stops its
\* unit; a failed copy is followed by an encode unless the context is done.
CommandFails ==
    /\ At("running") \/ (At("start") /\ worker.job \in units)
    /\ units' = units \ {worker.job}
    /\ IF worker.command = "copy" /\ service # "closing"
       THEN worker' = [worker EXCEPT !.pc = "start", !.command = "encode"] /\ UNCHANGED files
       ELSE Return("error")
    /\ UNCHANGED <<jobs, service, mapped, copies, faults>>

\* As above, but systemctl stop fails and the unit may go on.  While the
\* context is cancelled, videoCopyProbeFailure and convertVideo return its
\* error in place of errVideoUnitStopFailed.
StopFails ==
    /\ At("running") \/ (At("start") /\ worker.job \in units)
    /\ Fault
    /\ units' \in {units, units \ {worker.job}}
    /\ Return(IF worker.command = "copy" /\ service = "closing"
              THEN "error" ELSE "stopFailed")
    /\ UNCHANGED <<jobs, service, mapped, copies>>

\* The attempt goes on after the copy of its stage is published; processVideo
\* and processVideoHLS clean the work directory when they return.
Published ==
    /\ worker' = IF worker.stage = "mp4"
                 THEN [worker EXCEPT !.pc = "prepare", !.stage = "hls"]
                 ELSE [worker EXCEPT !.pc = "sethls"]
    /\ files' = files \ {worker.job}

\* uploadVideoCopy, or the finished HLS copy found again; the upload may be
\* complete on Drive although its last response is lost.
PublishCopy ==
    /\ At("publish")
    /\ \/ /\ worker.stage = "hls" /\ copies[worker.job]["hls"] > 0
          /\ Published
          /\ UNCHANGED copies
       \/ /\ worker.stage = "mp4" \/ copies[worker.job]["hls"] = 0
          /\ copies' = [copies EXCEPT ![worker.job][worker.stage] = @ + 1]
          /\ Published \/ Return("error")
       \/ Return("error") /\ UNCHANGED copies
    /\ UNCHANGED <<jobs, service, mapped, units, faults>>

\* setVideoJobHLS
SetVideoJobHLS ==
    /\ At("sethls")
    /\ \/ /\ NoFault
          /\ jobs' = [jobs EXCEPT ![worker.job].hls = TRUE]
          /\ worker' = [worker EXCEPT !.pc = "finish", !.result = "ok"]
       \/ /\ Fault
          /\ worker' = [worker EXCEPT !.pc = "finish", !.result = "error"]
          /\ UNCHANGED jobs
    /\ UNCHANGED <<service, mapped, units, files, copies>>

Requeued(job, refund, later) ==
    [job EXCEPT !.status = "queued", !.unit = FALSE, !.later = later,
                !.attempts = IF refund THEN @ - 1 ELSE @]

\* Mutant: the last attempt is retried like the others.
Finished_NeverFails(job, cancelled) ==
    CASE cancelled -> Requeued(job, TRUE, FALSE)
      [] ~cancelled /\ worker.result = "ok" ->
            [job EXCEPT !.status = "ready", !.unit = FALSE, !.preview = "copy"]
      [] ~cancelled /\ worker.result # "ok" -> Requeued(job, TRUE, TRUE)

\* finishVideoJob: a cancelled or deferred attempt is given back.
Finished(job, cancelled) ==
    CASE cancelled -> Requeued(job, TRUE, FALSE)
      [] ~cancelled /\ worker.result = "deferred" -> Requeued(job, TRUE, TRUE)
      [] ~cancelled /\ worker.result = "ok" ->
            [job EXCEPT !.status = "ready", !.unit = FALSE, !.preview = "copy"]
      [] ~cancelled /\ worker.result = "error" /\ job.attempts >= MaxAttempts ->
            [job EXCEPT !.status = "failed", !.unit = FALSE]
      [] ~cancelled /\ worker.result = "error" /\ job.attempts < MaxAttempts ->
            Requeued(job, FALSE, TRUE)

\* The end of an attempt: a unit that could not be stopped, and a result that
\* could not be stored, are left to the next recovery.
FinishVideoJob ==
    /\ At("finish")
    /\ \/ /\ worker.result = "stopFailed"
          /\ NoFault
          /\ worker' = [worker EXCEPT !.recovering = TRUE,
                          !.pc = IF service = "closing" THEN "off" ELSE "wait"]
          /\ UNCHANGED jobs
       \/ /\ worker.result # "stopFailed"
          /\ NoFault
          /\ jobs' = [jobs EXCEPT ![worker.job] =
                         Finished(jobs[worker.job], service = "closing")]
          /\ Goto("loop")
       \/ /\ worker.result # "stopFailed"
          /\ Fault
          /\ worker' = [worker EXCEPT !.recovering = TRUE, !.pc = "loop"]
          /\ UNCHANGED jobs
    /\ UNCHANGED <<service, mapped, units, files, copies>>

-----------------------------------------------------------------------------
(* Recovery: recoverVideoJobs, at every start and after such an end.       *)

\* Mutant: recovery goes on when the unit could not be stopped.
StopInterrupted_GoesOn ==
    /\ At("recover")
    /\ \/ /\ Processing = {}
          /\ worker' = [worker EXCEPT !.pc = "claim", !.recovering = FALSE]
          /\ NoFault
          /\ UNCHANGED <<units, files>>
       \/ \E v \in Processing :
          /\ service # "closing"
          /\ NoFault
          /\ units' = IF jobs[v].unit THEN units \ {v} ELSE units
          /\ files' = files \ {v}
          /\ worker' = [worker EXCEPT !.pc = "requeue", !.job = v]
       \/ \E v \in Processing :
          /\ service # "closing"
          /\ Fault
          /\ worker' = [worker EXCEPT !.pc = "requeue", !.job = v]
          /\ UNCHANGED <<units, files>>
       \/ /\ service = "closing"
          /\ Goto("off")
          /\ NoFault
          /\ UNCHANGED <<units, files>>
    /\ UNCHANGED <<jobs, service, mapped, copies>>

\* Each interrupted job: stop the recorded unit, clean up, then requeue.  The
\* next round waits when the stop or the cleanup fails.
StopInterrupted ==
    /\ At("recover")
    /\ \/ /\ Processing = {}
          /\ worker' = [worker EXCEPT !.pc = "claim", !.recovering = FALSE]
          /\ NoFault
          /\ UNCHANGED <<units, files>>
       \/ \E v \in Processing :
          /\ service # "closing"
          /\ NoFault
          /\ units' = IF jobs[v].unit THEN units \ {v} ELSE units
          /\ files' = files \ {v}
          /\ worker' = [worker EXCEPT !.pc = "requeue", !.job = v]
       \/ \E v \in Processing :
          /\ service # "closing"
          /\ Fault
          /\ units' \in IF jobs[v].unit THEN {units, units \ {v}} ELSE {units}
          /\ Goto("wait")
          /\ UNCHANGED files
       \/ /\ service = "closing"
          /\ Processing # {}
          /\ Goto("off")
          /\ NoFault
          /\ UNCHANGED <<units, files>>
    /\ UNCHANGED <<jobs, service, mapped, copies>>

RequeueInterrupted ==
    /\ At("requeue")
    /\ \/ /\ NoFault
          /\ jobs' = [jobs EXCEPT ![worker.job] = Requeued(@, TRUE, FALSE)]
          /\ Goto("recover")
       \/ /\ Fault
          /\ Goto("wait")
          /\ UNCHANGED jobs
    /\ UNCHANGED <<service, mapped, units, files, copies>>

-----------------------------------------------------------------------------
(* The process and systemd.                                                *)

\* Mutant: the worker starts without recovery.
StartVideoWorker_NoRecovery ==
    /\ service = "down"
    /\ service' = "up"
    /\ mapped' \in Mappings
    /\ worker' = [worker EXCEPT !.pc = "loop", !.recovering = FALSE]
    /\ UNCHANGED <<jobs, units, files, copies, faults>>

\* New and StartVideoWorker; the configuration file may have been edited.
StartVideoWorker ==
    /\ service = "down"
    /\ service' = "up"
    /\ mapped' \in Mappings
    /\ worker' = [worker EXCEPT !.pc = "loop", !.recovering = TRUE]
    /\ UNCHANGED <<jobs, units, files, copies, faults>>

\* Close: cancel the worker's context, wait for it, close the database.
Close ==
    /\ service = "up"
    /\ Fault
    /\ service' = "closing"
    /\ UNCHANGED <<jobs, worker, mapped, units, files, copies>>

Closed ==
    /\ service = "closing"
    /\ At("off")
    /\ service' = "down"
    /\ UNCHANGED <<jobs, worker, mapped, units, files, copies, faults>>

Crash ==
    /\ service # "down"
    /\ Fault
    /\ service' = "down"
    /\ Goto("off")
    /\ UNCHANGED <<jobs, mapped, units, files, copies>>

\* A unit nobody waits for comes to its end (RuntimeMaxSec at the latest).
UnitExits(v) ==
    /\ v \in units
    /\ ~(At("running") /\ worker.job = v)
    /\ units' = units \ {v}
    /\ UNCHANGED <<jobs, service, worker, mapped, files, copies, faults>>

-----------------------------------------------------------------------------
Init ==
    /\ jobs = [v \in Videos |-> NoJob]
    /\ service = "down"
    /\ \E v \in Videos :
          worker = [pc |-> "off", job |-> v, stage |-> "mp4", command |-> "encode",
                    result |-> "none", recovering |-> TRUE]
    /\ mapped \in Mappings
    /\ units = {}
    /\ files = {}
    /\ copies = [v \in Videos |-> [s \in Stages |-> 0]]
    /\ faults = 0

WorkerStep ==
    \/ Iterate
    \/ Wait
    \/ ClaimVideoJob
    \/ FindVideoCopy
    \/ PrepareInput
    \/ SetVideoJobUnit
    \/ RunVideoCommand
    \/ CommandSucceeds
    \/ CommandFails
    \/ StopFails
    \/ PublishCopy
    \/ SetVideoJobHLS
    \/ FinishVideoJob
    \/ StopInterrupted
    \/ RequeueInterrupted

Next ==
    \/ WorkerStep
    \/ \E v \in Videos : EnqueueVideoJob(v)
    \/ \E v \in Videos : BackoffElapses(v)
    \/ \E v \in Videos : UnitExits(v)
    \/ StartVideoWorker
    \/ Close
    \/ Closed
    \/ Crash

Spec == Init /\ [][Next]_vars

\* The worker goroutine is scheduled and its calls return (every command and
\* request has a timeout), timers fire, and a stopped service is started
\* again.  Nothing makes uploads, faults or shutdowns happen.
Fairness ==
    /\ WF_vars(WorkerStep)
    /\ WF_vars(StartVideoWorker)
    /\ WF_vars(Closed)
    /\ \A v \in Videos : WF_vars(BackoffElapses(v))

FairSpec == Spec /\ Fairness

-----------------------------------------------------------------------------
(* Properties.                                                             *)

\* One worker, one job at a time: whatever crashes, failed stops and failed
\* transactions come between, no second job is claimed before the
\* interrupted one went through recovery.
OneJobProcessing == Cardinality(Processing) <= 1

\* Drive holds at most one copy of each kind of a video: an attempt after a
\* lost response, a crash or a discarded result finds what was uploaded.
OneCopyPerVideo == \A v \in Videos, s \in Stages : copies[v][s] <= 1

\* The worker's state is sound: it works on one job at a time, and Drive never
\* gets a second copy, however attempts are interrupted and repeated.
QueueConsistent == TypeOK /\ OneJobProcessing /\ OneCopyPerVideo

\* A video is offered to guests only with both of its finished copies, and
\* given up after its last attempt only: cancelled and deferred ones do not count.
OutcomeIsEarned ==
    \A v \in Videos :
        /\ jobs[v].status = "ready" /\ jobs[v].preview = "copy" =>
              jobs[v].hls /\ \A s \in Stages : copies[v][s] > 0
        /\ jobs[v].status = "failed" => jobs[v].attempts = MaxAttempts

Recorded(v) == jobs[v].status = "processing" /\ jobs[v].unit

\* "Keep the durable unit name until recovery confirms that FFmpeg stopped":
\* every running unit is on record, so that recovery will stop it.
RunningUnitRecorded == \A v \in units : Recorded(v)

\* Only an attempt cancelled by a shutdown can forget a unit that still runs;
\* crashes, failed stops, failed transactions and recoveries never do.
UnitForgottenOnlyByShutdown ==
    [][\A v \in units' : Recorded(v) /\ ~Recorded(v)' => service = "closing"]_vars

\* Work files are not taken away from under a running FFmpeg, except then.
FilesKeptWhileUnitRuns ==
    [][\A v \in files \ files' : v \in units' /\ Recorded(v) => service = "closing"]_vars

\* The queue keeps the promise of VideoQueue.
outcome == [v \in Videos |->
    CASE jobs[v].status = "none" -> "none"
      [] jobs[v].status \in {"queued", "processing"} -> "pending"
      [] jobs[v].status \in {"ready", "failed"} -> jobs[v].status]

Queue == INSTANCE VideoQueue WITH Videos <- Videos, outcome <- outcome

\* No restart loses a job, and a ready or failed video stays so.
ImplementsQueue == Queue!Spec

\* Every enqueued video becomes ready or failed once the faults end.
EveryVideoSettles == Queue!Settles
=============================================================================
