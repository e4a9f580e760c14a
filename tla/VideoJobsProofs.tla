-------------------------- MODULE VideoJobsProofs --------------------------
(***************************************************************************)
(* Proofs about VideoJobs for every set of videos, every number of         *)
(* attempts and any number of crashes, shutdowns and failed calls.         *)
(***************************************************************************)
EXTENDS VideoJobs, FiniteSetTheorems, TLAPS

-----------------------------------------------------------------------------
(* The inductive invariant: what the queue, Drive and systemd hold at each *)
(* line of the worker.                                                     *)

Attempt == {"find", "prepare", "record", "start", "running", "publish", "sethls", "finish"}
BeforePublished == {"prepare", "record", "start", "running", "publish"}

\* A job that waits has an attempt left, one in progress has used one.
JobsSound ==
    \A v \in Videos :
        /\ jobs[v].status = "none" => jobs[v] = NoJob
        /\ jobs[v].status = "queued" => jobs[v].attempts < MaxAttempts
        /\ jobs[v].status = "processing" => jobs[v].attempts > 0
        /\ jobs[v].status = "failed" => jobs[v].attempts = MaxAttempts

InProgress(v) == jobs[v].status = "processing"

\* At most one job is in progress; unless the worker is bound for recovery it
\* is the worker's.
WorkerHasTheJob ==
    /\ \A v, w \in Videos : InProgress(v) /\ InProgress(w) => v = w
    /\ worker.pc \in {"loop", "wait"} /\ ~worker.recovering => \A v \in Videos : ~InProgress(v)
    /\ worker.pc = "claim" => ~worker.recovering /\ \A v \in Videos : ~InProgress(v)
    /\ worker.pc \in {"recover", "requeue"} => worker.recovering
    /\ worker.pc = "requeue" => InProgress(worker.job)
    /\ worker.pc \in Attempt => InProgress(worker.job) /\ ~worker.recovering

\* The stage says what Drive has.
CopiesFitStage ==
    /\ OneCopyPerVideo
    /\ worker.pc = "find" => worker.stage = "mp4"
    /\ worker.pc \in BeforePublished /\ worker.stage = "mp4" => copies[worker.job]["mp4"] = 0
    /\ worker.pc \in BeforePublished /\ worker.stage = "hls" => copies[worker.job]["mp4"] > 0
    /\ worker.pc = "sethls" => \A s \in Stages : copies[worker.job][s] > 0

\* What an attempt reports, and what is offered, has its copies.
ResultIsEarned ==
    /\ worker.pc = "finish" => worker.result # "none"
    /\ worker.pc = "finish" /\ worker.result = "ok" =>
          jobs[worker.job].hls /\ \A s \in Stages : copies[worker.job][s] > 0
    /\ \A v \in Videos : jobs[v].status = "ready" /\ jobs[v].preview = "copy" =>
          jobs[v].hls /\ \A s \in Stages : copies[v][s] > 0

\* Where the worker is about to forget a recorded unit, the unit does not run,
\* unless the shutdown hid that it could not be stopped.
UnitsAccounted ==
    /\ worker.pc \in {"find", "prepare", "record", "publish", "sethls"}
          /\ worker.job \in units => ~jobs[worker.job].unit
    /\ worker.pc = "requeue" /\ worker.job \in units => ~jobs[worker.job].unit
    /\ worker.pc = "finish" /\ worker.result # "stopFailed" /\ worker.job \in units
          /\ jobs[worker.job].unit => service = "closing"

IInv ==
    /\ TypeOK
    /\ JobsSound
    /\ WorkerHasTheJob
    /\ CopiesFitStage
    /\ ResultIsEarned
    /\ UnitsAccounted

-----------------------------------------------------------------------------
(* The moves of one job that a step may make; each is a step of VideoQueue *)
(* or none.                                                                *)

Moves == {<<"none", "queued">>, <<"queued", "processing">>, <<"queued", "ready">>,
          <<"processing", "queued">>, <<"processing", "ready">>, <<"processing", "failed">>}

Moved(v, job) ==
    /\ jobs' = [jobs EXCEPT ![v] = job]
    /\ jobs[v].status = job.status \/ <<jobs[v].status, job.status>> \in Moves

OneMove == jobs' = jobs \/ \E v \in Videos, job \in Job : Moved(v, job)

LEMMA JobChange ==
    ASSUME TypeOK, NEW v \in Videos, NEW job \in Job, jobs' = [jobs EXCEPT ![v] = job]
    PROVE  /\ jobs' \in [Videos -> Job]
           /\ jobs'[v] = job
           /\ \A w \in Videos : w # v => jobs'[w] = jobs[w]
BY DEF TypeOK

-----------------------------------------------------------------------------
(* Steps of the worker that change no job.                                 *)

LEMMA StaysWithJob ==
    ASSUME IInv, jobs' = jobs, worker.pc \in Attempt, worker'.pc \in Attempt,
           worker'.job = worker.job, worker'.recovering = worker.recovering
    PROVE  WorkerHasTheJob'
BY DEF IInv, WorkerHasTheJob, InProgress, Attempt

LEMMA IterateStep ==
    ASSUME IInv, Iterate
    PROVE  IInv' /\ jobs' = jobs
<1> USE DEF Iterate, At, Goto, Fault, NoFault, Return, Published
<1>1. TypeOK'
  BY VideoJobsAssumption
     DEF IInv, TypeOK, Worker, WorkerHasTheJob, CopiesFitStage, Stages
<1>2. JobsSound'
  BY VideoJobsAssumption
     DEF IInv, TypeOK, Worker, WorkerHasTheJob, CopiesFitStage, JobsSound
<1>3. WorkerHasTheJob'
  BY VideoJobsAssumption
     DEF IInv, TypeOK, Worker, WorkerHasTheJob, CopiesFitStage, InProgress, Processing,
         Attempt
<1>4. CopiesFitStage'
  BY VideoJobsAssumption
     DEF IInv, TypeOK, Worker, WorkerHasTheJob, CopiesFitStage, OneCopyPerVideo,
         BeforePublished, Stages
<1>5. ResultIsEarned'
  BY VideoJobsAssumption
     DEF IInv, TypeOK, Worker, WorkerHasTheJob, CopiesFitStage, ResultIsEarned
<1>6. UnitsAccounted'
  BY VideoJobsAssumption
     DEF IInv, TypeOK, Worker, WorkerHasTheJob, CopiesFitStage, UnitsAccounted, Attempt
<1> QED BY <1>1, <1>2, <1>3, <1>4, <1>5, <1>6 DEF IInv

LEMMA WaitStep ==
    ASSUME IInv, Wait
    PROVE  IInv' /\ jobs' = jobs
<1> USE DEF Wait, At, Goto, Fault, NoFault, Return, Published
<1>1. TypeOK'
  BY VideoJobsAssumption
     DEF IInv, TypeOK, Worker, WorkerHasTheJob, CopiesFitStage, Stages
<1>2. JobsSound'
  BY VideoJobsAssumption
     DEF IInv, TypeOK, Worker, WorkerHasTheJob, CopiesFitStage, JobsSound
<1>3. WorkerHasTheJob'
  BY VideoJobsAssumption
     DEF IInv, TypeOK, Worker, WorkerHasTheJob, CopiesFitStage, InProgress, Processing,
         Attempt
<1>4. CopiesFitStage'
  BY VideoJobsAssumption
     DEF IInv, TypeOK, Worker, WorkerHasTheJob, CopiesFitStage, OneCopyPerVideo,
         BeforePublished, Stages
<1>5. ResultIsEarned'
  BY VideoJobsAssumption
     DEF IInv, TypeOK, Worker, WorkerHasTheJob, CopiesFitStage, ResultIsEarned
<1>6. UnitsAccounted'
  BY VideoJobsAssumption
     DEF IInv, TypeOK, Worker, WorkerHasTheJob, CopiesFitStage, UnitsAccounted, Attempt
<1> QED BY <1>1, <1>2, <1>3, <1>4, <1>5, <1>6 DEF IInv

LEMMA FindVideoCopyStep ==
    ASSUME IInv, FindVideoCopy
    PROVE  IInv' /\ jobs' = jobs
<1> USE DEF FindVideoCopy, At, Goto, Fault, NoFault, Return, Published
<1>1. TypeOK'
  BY VideoJobsAssumption
     DEF IInv, TypeOK, Worker, WorkerHasTheJob, CopiesFitStage, Stages
<1>2. JobsSound'
  BY VideoJobsAssumption
     DEF IInv, TypeOK, Worker, WorkerHasTheJob, CopiesFitStage, JobsSound
<1>3. WorkerHasTheJob'
  <2>1. /\ worker.pc \in Attempt /\ worker'.pc \in Attempt
        /\ worker'.job = worker.job /\ worker'.recovering = worker.recovering
    BY DEF IInv, TypeOK, Worker, Attempt
  <2> QED BY <2>1, StaysWithJob
<1>4. CopiesFitStage'
  BY VideoJobsAssumption
     DEF IInv, TypeOK, Worker, WorkerHasTheJob, CopiesFitStage, OneCopyPerVideo,
         BeforePublished, Stages
<1>5. ResultIsEarned'
  BY VideoJobsAssumption
     DEF IInv, TypeOK, Worker, WorkerHasTheJob, CopiesFitStage, ResultIsEarned
<1>6. UnitsAccounted'
  BY VideoJobsAssumption
     DEF IInv, TypeOK, Worker, WorkerHasTheJob, CopiesFitStage, UnitsAccounted, Attempt
<1> QED BY <1>1, <1>2, <1>3, <1>4, <1>5, <1>6 DEF IInv

LEMMA PrepareInputStep ==
    ASSUME IInv, PrepareInput
    PROVE  IInv' /\ jobs' = jobs
<1> USE DEF PrepareInput, At, Goto, Fault, NoFault, Return, Published
<1>1. TypeOK'
  <2>1. worker' \in Worker
    BY DEF IInv, TypeOK, Worker, Stages
  <2>2. files' \subseteq Videos /\ units' \subseteq Videos
    BY DEF IInv, TypeOK, Worker, Processing
  <2>3. faults' \in 0 .. MaxFaults
    BY VideoJobsAssumption DEF IInv, TypeOK
  <2>4. copies' \in [Videos -> [Stages -> Nat]]
    BY DEF IInv, TypeOK, Worker
  <2> QED BY <2>1, <2>2, <2>3, <2>4 DEF IInv, TypeOK
<1>2. JobsSound'
  BY VideoJobsAssumption
     DEF IInv, TypeOK, Worker, WorkerHasTheJob, CopiesFitStage, JobsSound
<1>3. WorkerHasTheJob'
  <2>1. /\ worker.pc \in Attempt /\ worker'.pc \in Attempt
        /\ worker'.job = worker.job /\ worker'.recovering = worker.recovering
    BY DEF IInv, TypeOK, Worker, Attempt
  <2> QED BY <2>1, StaysWithJob
<1>4. CopiesFitStage'
  BY VideoJobsAssumption
     DEF IInv, TypeOK, Worker, WorkerHasTheJob, CopiesFitStage, OneCopyPerVideo,
         BeforePublished, Stages
<1>5. ResultIsEarned'
  BY VideoJobsAssumption
     DEF IInv, TypeOK, Worker, WorkerHasTheJob, CopiesFitStage, ResultIsEarned
<1>6. UnitsAccounted'
  BY VideoJobsAssumption
     DEF IInv, TypeOK, Worker, WorkerHasTheJob, CopiesFitStage, UnitsAccounted, Attempt
<1> QED BY <1>1, <1>2, <1>3, <1>4, <1>5, <1>6 DEF IInv

LEMMA RunVideoCommandStep ==
    ASSUME IInv, RunVideoCommand
    PROVE  IInv' /\ jobs' = jobs
<1> USE DEF RunVideoCommand, At, Goto, Fault, NoFault, Return, Published
<1>1. TypeOK'
  BY VideoJobsAssumption
     DEF IInv, TypeOK, Worker, WorkerHasTheJob, CopiesFitStage, Stages
<1>2. JobsSound'
  BY VideoJobsAssumption
     DEF IInv, TypeOK, Worker, WorkerHasTheJob, CopiesFitStage, JobsSound
<1>3. WorkerHasTheJob'
  BY VideoJobsAssumption
     DEF IInv, TypeOK, Worker, WorkerHasTheJob, CopiesFitStage, InProgress, Processing,
         Attempt
<1>4. CopiesFitStage'
  BY VideoJobsAssumption
     DEF IInv, TypeOK, Worker, WorkerHasTheJob, CopiesFitStage, OneCopyPerVideo,
         BeforePublished, Stages
<1>5. ResultIsEarned'
  BY VideoJobsAssumption
     DEF IInv, TypeOK, Worker, WorkerHasTheJob, CopiesFitStage, ResultIsEarned
<1>6. UnitsAccounted'
  BY VideoJobsAssumption
     DEF IInv, TypeOK, Worker, WorkerHasTheJob, CopiesFitStage, UnitsAccounted, Attempt
<1> QED BY <1>1, <1>2, <1>3, <1>4, <1>5, <1>6 DEF IInv

LEMMA CommandSucceedsStep ==
    ASSUME IInv, CommandSucceeds
    PROVE  IInv' /\ jobs' = jobs
<1> USE DEF CommandSucceeds, At, Goto, Fault, NoFault, Return, Published
<1>1. TypeOK'
  BY VideoJobsAssumption
     DEF IInv, TypeOK, Worker, WorkerHasTheJob, CopiesFitStage, Stages
<1>2. JobsSound'
  BY VideoJobsAssumption
     DEF IInv, TypeOK, Worker, WorkerHasTheJob, CopiesFitStage, JobsSound
<1>3. WorkerHasTheJob'
  BY VideoJobsAssumption
     DEF IInv, TypeOK, Worker, WorkerHasTheJob, CopiesFitStage, InProgress, Processing,
         Attempt
<1>4. CopiesFitStage'
  BY VideoJobsAssumption
     DEF IInv, TypeOK, Worker, WorkerHasTheJob, CopiesFitStage, OneCopyPerVideo,
         BeforePublished, Stages
<1>5. ResultIsEarned'
  BY VideoJobsAssumption
     DEF IInv, TypeOK, Worker, WorkerHasTheJob, CopiesFitStage, ResultIsEarned
<1>6. UnitsAccounted'
  BY VideoJobsAssumption
     DEF IInv, TypeOK, Worker, WorkerHasTheJob, CopiesFitStage, UnitsAccounted, Attempt
<1> QED BY <1>1, <1>2, <1>3, <1>4, <1>5, <1>6 DEF IInv

LEMMA CommandFailsStep ==
    ASSUME IInv, CommandFails
    PROVE  IInv' /\ jobs' = jobs
<1> USE DEF CommandFails, At, Goto, Fault, NoFault, Return, Published
<1>1. TypeOK'
  <2>1. worker' \in Worker
    BY DEF IInv, TypeOK, Worker, Stages
  <2>2. files' \subseteq Videos /\ units' \subseteq Videos
    BY DEF IInv, TypeOK, Worker, Processing
  <2>3. faults' \in 0 .. MaxFaults
    BY VideoJobsAssumption DEF IInv, TypeOK
  <2>4. copies' \in [Videos -> [Stages -> Nat]]
    BY DEF IInv, TypeOK, Worker
  <2> QED BY <2>1, <2>2, <2>3, <2>4 DEF IInv, TypeOK
<1>2. JobsSound'
  BY VideoJobsAssumption
     DEF IInv, TypeOK, Worker, WorkerHasTheJob, CopiesFitStage, JobsSound
<1>3. WorkerHasTheJob'
  BY VideoJobsAssumption
     DEF IInv, TypeOK, Worker, WorkerHasTheJob, CopiesFitStage, InProgress, Processing,
         Attempt
<1>4. CopiesFitStage'
  BY VideoJobsAssumption
     DEF IInv, TypeOK, Worker, WorkerHasTheJob, CopiesFitStage, OneCopyPerVideo,
         BeforePublished, Stages
<1>5. ResultIsEarned'
  BY VideoJobsAssumption
     DEF IInv, TypeOK, Worker, WorkerHasTheJob, CopiesFitStage, ResultIsEarned
<1>6. UnitsAccounted'
  BY VideoJobsAssumption
     DEF IInv, TypeOK, Worker, WorkerHasTheJob, CopiesFitStage, UnitsAccounted, Attempt
<1> QED BY <1>1, <1>2, <1>3, <1>4, <1>5, <1>6 DEF IInv

LEMMA StopFailsStep ==
    ASSUME IInv, StopFails
    PROVE  IInv' /\ jobs' = jobs
<1> USE DEF StopFails, At, Goto, Fault, NoFault, Return, Published
<1>1. TypeOK'
  <2>1. worker' \in Worker
    BY DEF IInv, TypeOK, Worker, Stages
  <2>2. files' \subseteq Videos /\ units' \subseteq Videos
    BY DEF IInv, TypeOK, Worker, Processing
  <2>3. faults' \in 0 .. MaxFaults
    BY VideoJobsAssumption DEF IInv, TypeOK
  <2>4. copies' \in [Videos -> [Stages -> Nat]]
    BY DEF IInv, TypeOK, Worker
  <2> QED BY <2>1, <2>2, <2>3, <2>4 DEF IInv, TypeOK
<1>2. JobsSound'
  BY VideoJobsAssumption
     DEF IInv, TypeOK, Worker, WorkerHasTheJob, CopiesFitStage, JobsSound
<1>3. WorkerHasTheJob'
  BY VideoJobsAssumption
     DEF IInv, TypeOK, Worker, WorkerHasTheJob, CopiesFitStage, InProgress, Processing,
         Attempt
<1>4. CopiesFitStage'
  BY VideoJobsAssumption
     DEF IInv, TypeOK, Worker, WorkerHasTheJob, CopiesFitStage, OneCopyPerVideo,
         BeforePublished, Stages
<1>5. ResultIsEarned'
  BY VideoJobsAssumption
     DEF IInv, TypeOK, Worker, WorkerHasTheJob, CopiesFitStage, ResultIsEarned
<1>6. UnitsAccounted'
  BY VideoJobsAssumption
     DEF IInv, TypeOK, Worker, WorkerHasTheJob, CopiesFitStage, UnitsAccounted, Attempt
<1> QED BY <1>1, <1>2, <1>3, <1>4, <1>5, <1>6 DEF IInv

LEMMA PublishCopyStep ==
    ASSUME IInv, PublishCopy
    PROVE  IInv' /\ jobs' = jobs
<1>1. PICK j, s : j = worker.job /\ s = worker.stage
  OBVIOUS
<1>2. /\ j \in Videos /\ s \in Stages /\ worker \in Worker
      /\ copies \in [Videos -> [Stages -> Nat]]
      /\ \A v \in Videos, t \in Stages : copies[v][t] <= 1
      /\ s = "mp4" \/ s = "hls"
  BY <1>1 DEF IInv, TypeOK, Worker, CopiesFitStage, OneCopyPerVideo, Stages
<1>3. /\ worker.pc = "publish"
      /\ UNCHANGED <<jobs, service, mapped, units, faults>>
  BY DEF PublishCopy, At
<1>4. /\ worker' \in Worker /\ worker'.job = j /\ worker'.recovering = worker.recovering
      /\ \/ worker'.pc = "prepare" /\ s = "mp4" /\ worker'.stage = "hls"
         \/ worker'.pc = "sethls" /\ s = "hls"
         \/ worker'.pc = "finish" /\ worker'.result = "error"
      /\ files' \subseteq Videos
  <2>1. Published \/ Return("error")
    BY DEF PublishCopy
  <2>2. CASE Published
    BY <1>1, <1>2, <2>2 DEF Published, Worker, Stages, IInv, TypeOK
  <2>3. CASE Return("error")
    BY <1>1, <1>2, <2>3 DEF Return, Worker, IInv, TypeOK
  <2> QED BY <2>1, <2>2, <2>3
<1>5. /\ copies' \in [Videos -> [Stages -> Nat]]
      /\ \A v \in Videos, t \in Stages : copies'[v][t] >= copies[v][t] /\ copies'[v][t] <= 1
      /\ worker'.pc # "finish" => copies'[j][s] > 0
  <2>1. CASE /\ s = "mp4" \/ copies[j]["hls"] = 0
             /\ copies' = [copies EXCEPT ![j][s] = @ + 1]
    <3>1. copies[j][s] = 0
      BY <1>1, <1>2, <1>3, <2>1 DEF IInv, CopiesFitStage, BeforePublished
    <3>2. copies' = [copies EXCEPT ![j] = [copies[j] EXCEPT ![s] = 1]]
      BY <1>2, <2>1, <3>1
    <3>3. [copies[j] EXCEPT ![s] = 1] \in [Stages -> Nat]
      BY <1>2
    <3>4. copies' \in [Videos -> [Stages -> Nat]]
      BY <1>2, <3>2, <3>3
    <3>5. \A v \in Videos, t \in Stages :
              copies'[v][t] = IF v = j /\ t = s THEN 1 ELSE copies[v][t]
      BY <1>2, <3>2, <3>3
    <3>6. \A v \in Videos, t \in Stages : copies[v][t] \in Nat
      BY <1>2
    <3> QED BY <1>2, <3>1, <3>4, <3>5, <3>6
  <2>2. CASE UNCHANGED copies /\ s = "hls" /\ copies[j]["hls"] > 0
    BY <1>2, <2>2
  <2>3. CASE UNCHANGED copies /\ Return("error")
    BY <1>2, <2>3 DEF Return, Worker
  <2> QED BY <1>1, <2>1, <2>2, <2>3 DEF PublishCopy
<1>6. TypeOK'
  BY <1>3, <1>4, <1>5 DEF IInv, TypeOK
<1>7. WorkerHasTheJob'
  BY <1>1, <1>3, <1>4, StaysWithJob DEF Attempt
<1>8. \A v \in Videos, t \in Stages : copies[v][t] > 0 => copies'[v][t] > 0
  BY <1>2, <1>5
<1>9. CopiesFitStage'
  <2>1. worker'.pc = "prepare" => copies'[j]["mp4"] > 0
    BY <1>4, <1>5
  <2>2. worker'.pc = "sethls" => copies'[j]["hls"] > 0 /\ copies'[j]["mp4"] > 0
    BY <1>1, <1>2, <1>3, <1>4, <1>5, <1>8
       DEF IInv, CopiesFitStage, BeforePublished, Stages
  <2>3. OneCopyPerVideo'
    BY <1>5 DEF OneCopyPerVideo
  <2> QED BY <1>4, <2>1, <2>2, <2>3 DEF CopiesFitStage, BeforePublished, Stages
<1>10. ResultIsEarned'
  BY <1>3, <1>4, <1>8 DEF IInv, ResultIsEarned
<1>11. UnitsAccounted'
  BY <1>1, <1>3, <1>4 DEF IInv, UnitsAccounted
<1> QED BY <1>3, <1>6, <1>7, <1>9, <1>10, <1>11 DEF IInv, JobsSound

LEMMA StopInterruptedStep ==
    ASSUME IInv, StopInterrupted
    PROVE  IInv' /\ jobs' = jobs
<1>1. /\ worker.pc = "recover" /\ worker.recovering /\ worker \in Worker
      /\ UNCHANGED <<jobs, service, mapped, copies>>
  BY DEF IInv, TypeOK, WorkerHasTheJob, StopInterrupted, At
<1>2. CASE Processing = {} /\ worker' = [worker EXCEPT !.pc = "claim", !.recovering = FALSE]
           /\ NoFault /\ UNCHANGED <<units, files>>
  <2>1. worker' \in Worker /\ worker'.pc = "claim" /\ ~worker'.recovering
    BY <1>1, <1>2 DEF Worker
  <2>2. \A v \in Videos : ~InProgress(v)
    BY <1>2 DEF Processing, InProgress
  <2> QED BY <1>1, <1>2, <2>1, <2>2
          DEF IInv, TypeOK, JobsSound, WorkerHasTheJob, InProgress, Attempt, CopiesFitStage,
              OneCopyPerVideo, BeforePublished, ResultIsEarned, UnitsAccounted, NoFault
<1>3. ASSUME NEW v \in Processing, NoFault,
             units' = IF jobs[v].unit THEN units \ {v} ELSE units,
             files' = files \ {v},
             worker' = [worker EXCEPT !.pc = "requeue", !.job = v]
      PROVE  IInv'
  <2>1. v \in Videos /\ InProgress(v)
    BY <1>3 DEF Processing, InProgress
  <2>2. worker' \in Worker /\ worker'.pc = "requeue" /\ worker'.recovering /\ worker'.job = v
    BY <1>1, <1>3, <2>1 DEF Worker
  <2>3. v \in units' => ~jobs[v].unit
    BY <1>3
  <2>4. TypeOK'
    BY <1>1, <1>3, <2>2 DEF IInv, TypeOK, NoFault
  <2> QED BY <1>1, <2>1, <2>2, <2>3, <2>4
          DEF IInv, JobsSound, WorkerHasTheJob, InProgress, Attempt, CopiesFitStage,
              OneCopyPerVideo, BeforePublished, ResultIsEarned, UnitsAccounted
<1>4. ASSUME Goto("wait") \/ Goto("off"), Fault \/ NoFault,
             units' \subseteq units, UNCHANGED files
      PROVE  IInv'
  <2>1. worker' \in Worker /\ worker'.pc \in {"wait", "off"} /\ worker'.recovering
    BY <1>1, <1>4 DEF Goto, Worker
  <2>2. faults' \in 0 .. MaxFaults
    BY <1>4, VideoJobsAssumption DEF Fault, NoFault, IInv, TypeOK
  <2>3. TypeOK'
    BY <1>1, <1>4, <2>1, <2>2 DEF IInv, TypeOK
  <2> QED BY <1>1, <2>1, <2>3
          DEF IInv, JobsSound, WorkerHasTheJob, InProgress, Attempt, CopiesFitStage,
              OneCopyPerVideo, BeforePublished, ResultIsEarned, UnitsAccounted
<1> QED BY <1>1, <1>2, <1>3, <1>4 DEF StopInterrupted

-----------------------------------------------------------------------------
(* Steps that change a job.                                                *)

\* What a requeued job and a finished one hold.
LEMMA RequeuedFacts ==
    ASSUME NEW job \in Job, NEW refund \in BOOLEAN, NEW later \in BOOLEAN,
           refund => job.attempts > 0, NEW r, r = Requeued(job, refund, later)
    PROVE  /\ r \in Job
           /\ r.status = "queued" /\ r.unit = FALSE
           /\ r.attempts = IF refund THEN job.attempts - 1 ELSE job.attempts
<1>1. job.attempts \in 0 .. MaxAttempts
  BY DEF Job
<1>2. (IF refund THEN job.attempts - 1 ELSE job.attempts) \in 0 .. MaxAttempts
  BY <1>1, VideoJobsAssumption
<1> QED BY <1>2 DEF Requeued, Job

LEMMA FinishedFacts ==
    ASSUME NEW job \in Job, NEW cancelled \in BOOLEAN, job.attempts > 0,
           worker.result \in {"ok", "error", "deferred"},
           NEW f, f = Finished(job, cancelled)
    PROVE  /\ f \in Job
           /\ f.unit = FALSE
           /\ \/ f.status = "queued" /\ f.attempts < MaxAttempts
              \/ f.status = "ready" /\ f.hls = job.hls /\ worker.result = "ok"
              \/ f.status = "failed" /\ f.attempts = MaxAttempts
<1>1. job.attempts \in 0 .. MaxAttempts /\ MaxAttempts \in Nat
  BY VideoJobsAssumption DEF Job
<1>2. CASE cancelled
  <2>1. f = Requeued(job, TRUE, FALSE)
    BY <1>2 DEF Finished
  <2>2. f \in Job /\ f.status = "queued" /\ f.unit = FALSE /\ f.attempts = job.attempts - 1
    BY <2>1, RequeuedFacts
  <2> QED BY <1>1, <2>2
<1>3. CASE ~cancelled /\ worker.result = "deferred"
  <2>1. f = Requeued(job, TRUE, TRUE)
    BY <1>3 DEF Finished
  <2>2. f \in Job /\ f.status = "queued" /\ f.unit = FALSE /\ f.attempts = job.attempts - 1
    BY <2>1, RequeuedFacts
  <2> QED BY <1>1, <2>2
<1>4. CASE ~cancelled /\ worker.result = "ok"
  <2>1. f = [job EXCEPT !.status = "ready", !.unit = FALSE, !.preview = "copy"]
    BY <1>4 DEF Finished
  <2> QED BY <1>4, <2>1 DEF Job
<1>5. CASE ~cancelled /\ worker.result = "error" /\ job.attempts >= MaxAttempts
  <2>1. f = [job EXCEPT !.status = "failed", !.unit = FALSE]
    <3>1. ~ (job.attempts < MaxAttempts)
      BY <1>1, <1>5
    <3>2. worker.result # "deferred" /\ worker.result # "ok"
      BY <1>5
    <3> QED BY <1>5, <3>1, <3>2, Zenon DEF Finished
  <2>2. job.attempts = MaxAttempts
    BY <1>1, <1>5
  <2> QED BY <2>1, <2>2 DEF Job
<1>6. CASE ~cancelled /\ worker.result = "error" /\ job.attempts < MaxAttempts
  <2>1. f = Requeued(job, FALSE, TRUE)
    <3>1. ~ (job.attempts >= MaxAttempts)
      BY <1>1, <1>6
    <3>2. worker.result # "deferred" /\ worker.result # "ok"
      BY <1>6
    <3> QED BY <1>6, <3>1, <3>2, Zenon DEF Finished
  <2>2. f \in Job /\ f.status = "queued" /\ f.unit = FALSE /\ f.attempts = job.attempts
    BY <2>1, RequeuedFacts
  <2> QED BY <1>6, <2>2
<1>7. job.attempts >= MaxAttempts \/ job.attempts < MaxAttempts
  BY <1>1
<1> QED BY <1>2, <1>3, <1>4, <1>5, <1>6, <1>7, Zenon

\* The first completed upload of a video is the queue's newest job.
LEMMA EnqueueStep ==
    ASSUME IInv, NEW v \in Videos, EnqueueVideoJob(v)
    PROVE  IInv' /\ OneMove
<1> DEFINE known == {w \in Videos : jobs[w] # NoJob}
           n == Cardinality(known) + 1
           job == [NoJob EXCEPT !.status = "queued", !.created = n]
<1>1. n \in 0 .. Cardinality(Videos)
  <2>1. IsFiniteSet(Videos) /\ Cardinality(Videos) \in Nat
    BY VideoJobsAssumption, FS_CardinalityType
  <2>2. v \notin known
    BY DEF EnqueueVideoJob, IInv, JobsSound
  <2>3. IsFiniteSet(Videos \ {v}) /\ Cardinality(Videos \ {v}) = Cardinality(Videos) - 1
    BY <2>1, FS_RemoveElement
  <2>4. known \subseteq Videos \ {v}
    BY <2>2
  <2>5. IsFiniteSet(known) /\ Cardinality(known) <= Cardinality(Videos \ {v})
        /\ Cardinality(known) \in Nat
    BY <2>3, <2>4, FS_Subset, FS_CardinalityType
  <2> QED BY <2>1, <2>3, <2>5
<1>2. jobs' = [jobs EXCEPT ![v] = job]
      /\ UNCHANGED <<service, worker, mapped, units, files, copies, faults>>
  BY DEF EnqueueVideoJob
<1> HIDE DEF n
<1>3. /\ job \in Job /\ job.status = "queued" /\ job.attempts = 0 /\ ~job.unit
  <2>1. PICK empty : empty = NoJob
    OBVIOUS
  <2>2. empty \in Job /\ empty.attempts = 0 /\ ~empty.unit
    <3>1. 0 \in 0 .. MaxAttempts /\ 0 \in 0 .. Cardinality(Videos)
      BY VideoJobsAssumption, FS_CardinalityType
    <3> QED BY <2>1, <3>1 DEF NoJob, Job
  <2>3. job = [empty EXCEPT !.status = "queued", !.created = n]
    BY <2>1
  <2> HIDE DEF job
  <2> QED BY <1>1, <2>2, <2>3 DEF Job
<1>4. jobs[v].status = "none"
  BY DEF EnqueueVideoJob
<1> HIDE DEF job
<1>5. /\ jobs' \in [Videos -> Job] /\ jobs'[v] = job
      /\ \A w \in Videos : w # v => jobs'[w] = jobs[w]
  BY <1>2, <1>3, JobChange DEF IInv
<1>6. TypeOK' /\ JobsSound'
  BY <1>2, <1>3, <1>5, VideoJobsAssumption DEF IInv, TypeOK, JobsSound
<1>7. \A w \in Videos : InProgress(w)' <=> InProgress(w)
  BY <1>3, <1>4, <1>5 DEF InProgress
<1>8. worker \in Worker /\ worker.job \in Videos
  BY DEF IInv, TypeOK, Worker
<1>9. WorkerHasTheJob'
  BY <1>2, <1>7, <1>8 DEF IInv, WorkerHasTheJob
<1>10. CopiesFitStage' /\ UnitsAccounted'
  BY <1>2, <1>3, <1>4, <1>5, <1>8
     DEF IInv, CopiesFitStage, OneCopyPerVideo, UnitsAccounted
<1>11. ResultIsEarned'
  <2>1. worker.pc = "finish" => worker.job # v
    BY <1>4 DEF IInv, WorkerHasTheJob, InProgress, Attempt
  <2> QED BY <1>2, <1>3, <1>5, <1>8, <2>1 DEF IInv, ResultIsEarned
<1> QED BY <1>2, <1>3, <1>4, <1>6, <1>9, <1>10, <1>11 DEF IInv, OneMove, Moved, Moves

\* No invariant looks at the backoff.
LEMMA BackoffStep ==
    ASSUME IInv, NEW v \in Videos, BackoffElapses(v)
    PROVE  IInv' /\ OneMove
<1> DEFINE job == [jobs[v] EXCEPT !.later = FALSE]
<1>1. jobs' = [jobs EXCEPT ![v] = job] /\ jobs[v].later
      /\ UNCHANGED <<service, worker, mapped, units, files, copies, faults>>
  BY DEF BackoffElapses
<1>2. jobs[v] \in Job /\ jobs[v] # NoJob
  BY <1>1 DEF IInv, TypeOK, NoJob
<1>3. /\ job \in Job /\ job.status = jobs[v].status /\ job.attempts = jobs[v].attempts
      /\ job.unit = jobs[v].unit /\ job.hls = jobs[v].hls /\ job.preview = jobs[v].preview
  BY <1>2 DEF Job
<1> HIDE DEF job
<1>4. /\ jobs' \in [Videos -> Job] /\ jobs'[v] = job
      /\ \A w \in Videos : w # v => jobs'[w] = jobs[w]
  BY <1>1, <1>3, JobChange DEF IInv
<1>5. \A w \in Videos :
          /\ jobs'[w].status = jobs[w].status /\ jobs'[w].attempts = jobs[w].attempts
          /\ jobs'[w].unit = jobs[w].unit /\ jobs'[w].hls = jobs[w].hls
          /\ jobs'[w].preview = jobs[w].preview
  BY <1>3, <1>4
<1>6. TypeOK'
  BY <1>1, <1>4 DEF IInv, TypeOK
<1>7. JobsSound'
  BY <1>2, <1>3, <1>4 DEF IInv, JobsSound
<1>8. worker.job \in Videos
  BY DEF IInv, TypeOK, Worker
<1>9. WorkerHasTheJob'
  BY <1>1, <1>5, <1>8 DEF IInv, WorkerHasTheJob, InProgress
<1>10. CopiesFitStage' /\ ResultIsEarned' /\ UnitsAccounted'
  BY <1>1, <1>5, <1>8
     DEF IInv, CopiesFitStage, OneCopyPerVideo, ResultIsEarned, UnitsAccounted
<1> QED BY <1>1, <1>3, <1>6, <1>7, <1>9, <1>10 DEF IInv, OneMove, Moved

\* setVideoJobUnit and setVideoJobHLS raise a flag of the job in progress.
LEMMA SetUnitStep ==
    ASSUME IInv, SetVideoJobUnit
    PROVE  IInv' /\ OneMove
<1>1. PICK v : v = worker.job
  OBVIOUS
<1>2. /\ worker.pc = "record" /\ worker \in Worker /\ v \in Videos /\ jobs[v] \in Job
      /\ UNCHANGED <<service, mapped, units, copies>>
  BY <1>1 DEF SetVideoJobUnit, At, IInv, TypeOK, Worker
<1>3. InProgress(v) /\ (v \in units => ~jobs[v].unit)
  BY <1>1, <1>2 DEF IInv, WorkerHasTheJob, Attempt, UnitsAccounted
<1>4. ASSUME NoFault, jobs' = [jobs EXCEPT ![v].unit = TRUE], UNCHANGED files,
             NEW c \in {"copy", "encode"},
             worker' = [worker EXCEPT !.pc = "start", !.command = c]
      PROVE  IInv' /\ OneMove
  <2> DEFINE job == [jobs[v] EXCEPT !.unit = TRUE]
  <2>1. /\ job \in Job /\ job.status = jobs[v].status /\ job.attempts = jobs[v].attempts
        /\ job.hls = jobs[v].hls /\ job.preview = jobs[v].preview
    BY <1>2 DEF Job
  <2>2. jobs' = [jobs EXCEPT ![v] = job]
    BY <1>4
  <2> HIDE DEF job
  <2>3. /\ jobs' \in [Videos -> Job] /\ jobs'[v] = job
        /\ \A w \in Videos : w # v => jobs'[w] = jobs[w]
    BY <1>2, <2>1, <2>2, JobChange DEF IInv
  <2>4. /\ worker' \in Worker /\ worker'.pc = "start" /\ worker'.job = v
        /\ worker'.stage = worker.stage /\ worker'.recovering = worker.recovering
    BY <1>1, <1>2, <1>4 DEF Worker
  <2>5. TypeOK' /\ JobsSound'
    BY <1>2, <1>3, <1>4, <2>1, <2>3, <2>4 DEF IInv, TypeOK, JobsSound, NoFault, InProgress
  <2>6. \A w \in Videos : jobs'[w].status = jobs[w].status /\ jobs'[w].hls = jobs[w].hls
                          /\ jobs'[w].preview = jobs[w].preview
    BY <2>1, <2>3
  <2>7. WorkerHasTheJob' /\ CopiesFitStage' /\ ResultIsEarned' /\ UnitsAccounted'
    BY <1>1, <1>2, <2>4, <2>6
       DEF IInv, WorkerHasTheJob, InProgress, Attempt, CopiesFitStage, OneCopyPerVideo,
           BeforePublished, ResultIsEarned, UnitsAccounted
  <2> QED BY <1>2, <2>1, <2>2, <2>5, <2>7 DEF IInv, OneMove, Moved
<1>5. ASSUME Fault, Return("error"), UNCHANGED jobs
      PROVE  IInv' /\ OneMove
  <2>1. /\ worker' \in Worker /\ worker'.pc = "finish" /\ worker'.job = v
        /\ worker'.result = "error" /\ worker'.recovering = worker.recovering
    BY <1>1, <1>2, <1>5 DEF Worker, Return
  <2>2. faults' \in 0 .. MaxFaults
    BY <1>5, VideoJobsAssumption DEF Fault, IInv, TypeOK
  <2>3. TypeOK' /\ JobsSound'
    BY <1>2, <1>5, <2>1, <2>2 DEF IInv, TypeOK, JobsSound, Return
  <2>4. WorkerHasTheJob'
    BY <1>1, <1>2, <1>5, <2>1, StaysWithJob DEF Attempt
  <2>5. CopiesFitStage' /\ ResultIsEarned' /\ UnitsAccounted'
    BY <1>2, <1>3, <1>5, <2>1
       DEF IInv, CopiesFitStage, OneCopyPerVideo, BeforePublished, ResultIsEarned, UnitsAccounted
  <2> QED BY <1>5, <2>3, <2>4, <2>5 DEF IInv, OneMove
<1> QED BY <1>1, <1>4, <1>5 DEF SetVideoJobUnit

LEMMA SetHLSStep ==
    ASSUME IInv, SetVideoJobHLS
    PROVE  IInv' /\ OneMove
<1>1. PICK v : v = worker.job
  OBVIOUS
<1>2. /\ worker.pc = "sethls" /\ worker \in Worker /\ v \in Videos /\ jobs[v] \in Job
      /\ UNCHANGED <<service, mapped, units, files, copies>>
  BY <1>1 DEF SetVideoJobHLS, At, IInv, TypeOK, Worker
<1>3. InProgress(v) /\ (v \in units => ~jobs[v].unit) /\ \A s \in Stages : copies[v][s] > 0
  BY <1>1, <1>2 DEF IInv, WorkerHasTheJob, Attempt, UnitsAccounted, CopiesFitStage
<1>4. ASSUME NoFault, jobs' = [jobs EXCEPT ![v].hls = TRUE],
             worker' = [worker EXCEPT !.pc = "finish", !.result = "ok"]
      PROVE  IInv' /\ OneMove
  <2> DEFINE job == [jobs[v] EXCEPT !.hls = TRUE]
  <2>1. /\ job \in Job /\ job.status = jobs[v].status /\ job.attempts = jobs[v].attempts
        /\ job.unit = jobs[v].unit /\ job.hls
    BY <1>2 DEF Job
  <2>2. jobs' = [jobs EXCEPT ![v] = job]
    BY <1>4
  <2> HIDE DEF job
  <2>3. /\ jobs' \in [Videos -> Job] /\ jobs'[v] = job
        /\ \A w \in Videos : w # v => jobs'[w] = jobs[w]
    BY <1>2, <2>1, <2>2, JobChange DEF IInv
  <2>4. /\ worker' \in Worker /\ worker'.pc = "finish" /\ worker'.job = v
        /\ worker'.result = "ok" /\ worker'.recovering = worker.recovering
    BY <1>1, <1>2, <1>4 DEF Worker
  <2>5. TypeOK' /\ JobsSound'
    BY <1>2, <1>3, <1>4, <2>1, <2>3, <2>4 DEF IInv, TypeOK, JobsSound, NoFault, InProgress
  <2>6. \A w \in Videos : jobs'[w].status = jobs[w].status
    BY <2>1, <2>3
  <2>7. WorkerHasTheJob' /\ CopiesFitStage'
    BY <1>1, <1>2, <2>4, <2>6
       DEF IInv, WorkerHasTheJob, InProgress, Attempt, CopiesFitStage, OneCopyPerVideo,
           BeforePublished
  <2>8. ResultIsEarned' /\ UnitsAccounted'
    BY <1>2, <1>3, <2>1, <2>3, <2>4, <2>6
       DEF IInv, InProgress, ResultIsEarned, UnitsAccounted
  <2> QED BY <1>2, <2>1, <2>2, <2>5, <2>7, <2>8 DEF IInv, OneMove, Moved
<1>5. ASSUME Fault, worker' = [worker EXCEPT !.pc = "finish", !.result = "error"],
             UNCHANGED jobs
      PROVE  IInv' /\ OneMove
  <2>1. /\ worker' \in Worker /\ worker'.pc = "finish" /\ worker'.job = v
        /\ worker'.result = "error" /\ worker'.recovering = worker.recovering
    BY <1>1, <1>2, <1>5 DEF Worker
  <2>2. faults' \in 0 .. MaxFaults
    BY <1>5, VideoJobsAssumption DEF Fault, IInv, TypeOK
  <2>3. TypeOK' /\ JobsSound'
    BY <1>2, <1>5, <2>1, <2>2 DEF IInv, TypeOK, JobsSound
  <2>4. WorkerHasTheJob'
    BY <1>1, <1>2, <1>5, <2>1, StaysWithJob DEF Attempt
  <2>5. CopiesFitStage' /\ ResultIsEarned' /\ UnitsAccounted'
    BY <1>2, <1>3, <1>5, <2>1
       DEF IInv, CopiesFitStage, OneCopyPerVideo, BeforePublished, ResultIsEarned, UnitsAccounted
  <2> QED BY <1>5, <2>3, <2>4, <2>5 DEF IInv, OneMove
<1> QED BY <1>1, <1>4, <1>5 DEF SetVideoJobHLS

\* claimVideoJob: only when nothing is in progress.
LEMMA ClaimStep ==
    ASSUME IInv, ClaimVideoJob
    PROVE  IInv' /\ OneMove
<1>1. /\ worker.pc = "claim" /\ worker \in Worker /\ ~worker.recovering
      /\ \A v \in Videos : ~InProgress(v)
      /\ UNCHANGED <<service, mapped, units, files, copies>>
  BY DEF ClaimVideoJob, At, IInv, TypeOK, WorkerHasTheJob
<1>2. ASSUME Goto("wait"), UNCHANGED jobs, NoFault \/ Fault
      PROVE  IInv' /\ OneMove
  <2>1. /\ worker' \in Worker /\ worker'.pc = "wait"
        /\ worker'.job = worker.job /\ ~worker'.recovering
    BY <1>1, <1>2 DEF Worker, Goto
  <2>2. faults' \in 0 .. MaxFaults
    BY <1>2, VideoJobsAssumption DEF Fault, NoFault, IInv, TypeOK
  <2>3. TypeOK' /\ JobsSound'
    BY <1>1, <1>2, <2>1, <2>2 DEF IInv, TypeOK, JobsSound
  <2> QED BY <1>1, <1>2, <2>1, <2>3
          DEF IInv, OneMove, WorkerHasTheJob, InProgress, Attempt, CopiesFitStage,
              OneCopyPerVideo, BeforePublished, ResultIsEarned, UnitsAccounted
<1>3. ASSUME NEW v \in Videos, OldestDue(v), NoFault, v \in mapped,
             jobs' = [jobs EXCEPT ![v].status = "ready", ![v].preview = "mapped"],
             Goto("wait")
      PROVE  IInv' /\ OneMove
  <2>1. jobs[v] \in Job /\ jobs[v].status = "queued"
    BY <1>3 DEF IInv, TypeOK, OldestDue, Due
  <2>2. PICK job : job = [jobs[v] EXCEPT !.status = "ready", !.preview = "mapped"]
    OBVIOUS
  <2>3. /\ job \in Job /\ job.status = "ready" /\ job.preview = "mapped"
    BY <2>1, <2>2 DEF Job
  <2>4. jobs' = [jobs EXCEPT ![v] = job]
    BY <1>3, <2>2 DEF IInv, TypeOK
  <2>5. /\ jobs' \in [Videos -> Job] /\ jobs'[v] = job
        /\ \A w \in Videos : w # v => jobs'[w] = jobs[w]
    BY <2>3, <2>4, JobChange DEF IInv
  <2>6. /\ worker' \in Worker /\ worker'.pc = "wait"
        /\ worker'.job = worker.job /\ ~worker'.recovering
    BY <1>1, <1>3 DEF Worker, Goto
  <2>7. TypeOK' /\ JobsSound'
    BY <1>1, <1>3, <2>3, <2>5, <2>6 DEF IInv, TypeOK, JobsSound, NoFault
  <2>8. \A w \in Videos : ~InProgress(w)'
    BY <1>1, <2>3, <2>5 DEF InProgress
  <2>9. WorkerHasTheJob' /\ CopiesFitStage' /\ ResultIsEarned' /\ UnitsAccounted'
    BY <1>1, <2>3, <2>5, <2>6, <2>8
       DEF IInv, WorkerHasTheJob, Attempt, CopiesFitStage, OneCopyPerVideo, BeforePublished,
           ResultIsEarned, UnitsAccounted
  <2> QED BY <2>1, <2>3, <2>4, <2>7, <2>9 DEF IInv, OneMove, Moved, Moves
<1>4. ASSUME NEW v \in Videos, OldestDue(v), NoFault,
             jobs' = [jobs EXCEPT ![v] = Claimed(v)],
             worker' = [worker EXCEPT !.pc = "find", !.job = v, !.stage = "mp4",
                                      !.result = "none"]
      PROVE  IInv' /\ OneMove
  <2>1. jobs[v] \in Job /\ jobs[v].status = "queued" /\ jobs[v].attempts < MaxAttempts
    BY <1>4 DEF IInv, TypeOK, OldestDue, Due, JobsSound
  <2>2. PICK job : job = Claimed(v)
    OBVIOUS
  <2>3. jobs[v].attempts + 1 \in 0 .. MaxAttempts /\ jobs[v].attempts + 1 > 0
    BY <2>1, VideoJobsAssumption DEF Job
  <2>4. /\ job \in Job /\ job.status = "processing" /\ ~job.unit /\ job.attempts > 0
    BY <2>1, <2>2, <2>3 DEF Job, Claimed
  <2>5. /\ jobs' \in [Videos -> Job] /\ jobs'[v] = job
        /\ \A w \in Videos : w # v => jobs'[w] = jobs[w]
    BY <1>4, <2>2, <2>4, JobChange DEF IInv
  <2>6. /\ worker' \in Worker /\ worker'.pc = "find" /\ worker'.job = v
        /\ worker'.stage = "mp4" /\ ~worker'.recovering
    BY <1>1, <1>4 DEF Worker, Stages
  <2>7. TypeOK' /\ JobsSound'
    BY <1>1, <1>4, <2>4, <2>5, <2>6 DEF IInv, TypeOK, JobsSound, NoFault
  <2>8. \A w \in Videos : InProgress(w)' <=> w = v
    BY <1>1, <2>4, <2>5 DEF InProgress
  <2>9. WorkerHasTheJob' /\ CopiesFitStage' /\ ResultIsEarned' /\ UnitsAccounted'
    BY <1>1, <2>4, <2>5, <2>6, <2>8
       DEF IInv, WorkerHasTheJob, Attempt, CopiesFitStage, OneCopyPerVideo, BeforePublished,
           ResultIsEarned, UnitsAccounted
  <2> QED BY <1>4, <2>1, <2>2, <2>4, <2>7, <2>9 DEF IInv, OneMove, Moved, Moves
<1> QED BY <1>2, <1>3, <1>4 DEF ClaimVideoJob

\* The job leaves the worker: nothing is in progress then.
LEMMA JobLeavesWorker ==
    ASSUME IInv, NEW v \in Videos, InProgress(v), NEW job \in Job,
           jobs' = [jobs EXCEPT ![v] = job], job.unit = FALSE,
           \/ job.status = "queued" /\ job.attempts < MaxAttempts
           \/ job.status = "ready" /\ job.hls /\ \A s \in Stages : copies[v][s] > 0
           \/ job.status = "failed" /\ job.attempts = MaxAttempts,
           worker' \in Worker, worker'.pc \in {"loop", "recover"},
           worker'.pc = "recover" => worker'.recovering,
           UNCHANGED <<service, mapped, units, files, copies, faults>>
    PROVE  IInv' /\ OneMove
<1>1. /\ jobs' \in [Videos -> Job] /\ jobs'[v] = job
      /\ \A w \in Videos : w # v => jobs'[w] = jobs[w]
  BY JobChange DEF IInv
<1>2. TypeOK' /\ JobsSound'
  BY <1>1 DEF IInv, TypeOK, JobsSound
<1>3. \A w \in Videos : ~InProgress(w)'
  BY <1>1 DEF IInv, WorkerHasTheJob, InProgress
<1>4. WorkerHasTheJob' /\ CopiesFitStage'
  BY <1>3
     DEF IInv, WorkerHasTheJob, Attempt, CopiesFitStage, OneCopyPerVideo, BeforePublished
<1>5. ResultIsEarned' /\ UnitsAccounted'
  BY <1>1 DEF IInv, ResultIsEarned, UnitsAccounted
<1> QED BY <1>2, <1>4, <1>5 DEF IInv, OneMove, Moved, Moves, InProgress

LEMMA FinishStep ==
    ASSUME IInv, FinishVideoJob
    PROVE  IInv' /\ OneMove
<1>1. PICK v : v = worker.job
  OBVIOUS
<1>2. /\ worker.pc = "finish" /\ worker \in Worker /\ v \in Videos /\ jobs[v] \in Job
      /\ InProgress(v)
      /\ UNCHANGED <<service, mapped, units, files, copies>>
  BY <1>1 DEF FinishVideoJob, At, IInv, TypeOK, Worker, WorkerHasTheJob, Attempt
<1>3. ASSUME worker.result # "stopFailed", NoFault,
             jobs' = [jobs EXCEPT ![v] = Finished(jobs[v], service = "closing")],
             Goto("loop")
      PROVE  IInv' /\ OneMove
  <2>1. PICK job, cancelled :
            cancelled = (service = "closing") /\ job = Finished(jobs[v], cancelled)
    OBVIOUS
  <2>2. cancelled \in BOOLEAN
    BY <2>1
  <2>3. jobs[v].attempts > 0 /\ worker.result \in {"ok", "error", "deferred"}
    BY <1>2, <1>3 DEF IInv, JobsSound, InProgress, ResultIsEarned, Worker
  <2>4. /\ job \in Job
        /\ job.unit = FALSE
        /\ \/ job.status = "queued" /\ job.attempts < MaxAttempts
           \/ job.status = "ready" /\ job.hls = jobs[v].hls /\ worker.result = "ok"
           \/ job.status = "failed" /\ job.attempts = MaxAttempts
    BY <1>2, <2>1, <2>2, <2>3, FinishedFacts
  <2>5. worker.result = "ok" => jobs[v].hls /\ \A s \in Stages : copies[v][s] > 0
    BY <1>1, <1>2 DEF IInv, ResultIsEarned
  <2>6. worker' \in Worker /\ worker'.pc = "loop"
    BY <1>2, <1>3 DEF Goto, Worker
  <2> QED BY <1>2, <1>3, <2>1, <2>4, <2>5, <2>6, JobLeavesWorker DEF NoFault
<1>4. ASSUME UNCHANGED jobs, NoFault \/ Fault, NEW pc \in {"loop", "wait", "off"},
             worker' = [worker EXCEPT !.recovering = TRUE, !.pc = pc]
      PROVE  IInv' /\ OneMove
  <2>1. worker' \in Worker /\ worker'.pc = pc /\ worker'.recovering
    BY <1>2, <1>4 DEF Worker
  <2>2. faults' \in 0 .. MaxFaults
    BY <1>4, VideoJobsAssumption DEF Fault, NoFault, IInv, TypeOK
  <2>3. TypeOK' /\ JobsSound'
    BY <1>2, <1>4, <2>1, <2>2 DEF IInv, TypeOK, JobsSound
  <2> QED BY <1>2, <1>4, <2>1, <2>3
          DEF IInv, OneMove, WorkerHasTheJob, InProgress, Attempt, CopiesFitStage,
              OneCopyPerVideo, BeforePublished, ResultIsEarned, UnitsAccounted
<1> QED BY <1>1, <1>3, <1>4 DEF FinishVideoJob

LEMMA RequeueStep ==
    ASSUME IInv, RequeueInterrupted
    PROVE  IInv' /\ OneMove
<1>1. PICK v : v = worker.job
  OBVIOUS
<1>2. /\ worker.pc = "requeue" /\ worker \in Worker /\ v \in Videos /\ jobs[v] \in Job
      /\ InProgress(v) /\ worker.recovering
      /\ UNCHANGED <<service, mapped, units, files, copies>>
  BY <1>1 DEF RequeueInterrupted, At, IInv, TypeOK, Worker, WorkerHasTheJob
<1>3. ASSUME NoFault, jobs' = [jobs EXCEPT ![v] = Requeued(@, TRUE, FALSE)], Goto("recover")
      PROVE  IInv' /\ OneMove
  <2>1. PICK job : job = Requeued(jobs[v], TRUE, FALSE)
    OBVIOUS
  <2>2. jobs[v].attempts > 0 /\ jobs[v].attempts \in 0 .. MaxAttempts
    BY <1>2 DEF IInv, JobsSound, InProgress, Job
  <2>3. job \in Job /\ job.status = "queued" /\ job.unit = FALSE
        /\ job.attempts = jobs[v].attempts - 1
    BY <1>2, <2>1, <2>2, RequeuedFacts
  <2>4. job.attempts < MaxAttempts
    BY <2>2, <2>3, VideoJobsAssumption
  <2>5. jobs' = [jobs EXCEPT ![v] = job]
    BY <1>2, <1>3, <2>1 DEF IInv, TypeOK
  <2>6. worker' \in Worker /\ worker'.pc = "recover" /\ worker'.recovering
    BY <1>2, <1>3 DEF Goto, Worker
  <2> QED BY <1>2, <1>3, <2>3, <2>4, <2>5, <2>6, JobLeavesWorker DEF NoFault
<1>4. ASSUME Fault, Goto("wait"), UNCHANGED jobs
      PROVE  IInv' /\ OneMove
  <2>1. worker' \in Worker /\ worker'.pc = "wait" /\ worker'.recovering
    BY <1>2, <1>4 DEF Goto, Worker
  <2>2. faults' \in 0 .. MaxFaults
    BY <1>4, VideoJobsAssumption DEF Fault, IInv, TypeOK
  <2>3. TypeOK' /\ JobsSound'
    BY <1>2, <1>4, <2>1, <2>2 DEF IInv, TypeOK, JobsSound
  <2> QED BY <1>2, <1>4, <2>1, <2>3
          DEF IInv, OneMove, WorkerHasTheJob, InProgress, Attempt, CopiesFitStage,
              OneCopyPerVideo, BeforePublished, ResultIsEarned, UnitsAccounted
<1> QED BY <1>1, <1>3, <1>4 DEF RequeueInterrupted

-----------------------------------------------------------------------------
(* The process and systemd.                                                *)

\* A worker that is not there, or only starts with recovery.
LEMMA ServiceStep ==
    ASSUME IInv, jobs' = jobs, files' = files, copies' = copies, units' = units,
           service' \in {"up", "down"}, mapped' \subseteq Videos, faults' \in 0 .. MaxFaults,
           worker' \in Worker,
           worker'.pc = "off" \/ (worker'.pc = "loop" /\ worker'.recovering)
    PROVE  IInv'
<1>1. TypeOK' /\ JobsSound'
  BY DEF IInv, TypeOK, JobsSound
<1> QED BY <1>1
        DEF IInv, WorkerHasTheJob, InProgress, Attempt, CopiesFitStage, OneCopyPerVideo,
            BeforePublished, ResultIsEarned, UnitsAccounted

LEMMA StartStep == ASSUME IInv, StartVideoWorker PROVE IInv' /\ OneMove
<1>1. /\ worker' \in Worker /\ worker'.pc = "loop" /\ worker'.recovering
      /\ mapped' \subseteq Videos
  BY VideoJobsAssumption DEF StartVideoWorker, IInv, TypeOK, Worker
<1> QED BY <1>1, ServiceStep DEF StartVideoWorker, IInv, TypeOK, OneMove

LEMMA CrashStep == ASSUME IInv, Crash PROVE IInv' /\ OneMove
<1>1. worker' \in Worker /\ worker'.pc = "off" /\ faults' \in 0 .. MaxFaults
  BY VideoJobsAssumption DEF Crash, Goto, Fault, IInv, TypeOK, Worker
<1>2. mapped \subseteq Videos /\ service' = "down"
      /\ UNCHANGED <<jobs, mapped, units, files, copies>>
  BY DEF Crash, IInv, TypeOK
<1>3. IInv'
  <2>1. /\ jobs' = jobs /\ files' = files /\ copies' = copies /\ units' = units
        /\ service' \in {"up", "down"} /\ mapped' \subseteq Videos
    BY <1>1, <1>2
  <2> QED BY <1>1, <2>1, ServiceStep
<1> QED BY <1>2, <1>3 DEF OneMove

LEMMA ClosedStep == ASSUME IInv, Closed PROVE IInv' /\ OneMove
<1>1. worker' \in Worker /\ worker'.pc = "off" /\ faults' \in 0 .. MaxFaults
      /\ mapped' \subseteq Videos
  BY DEF Closed, At, IInv, TypeOK
<1>2. service' = "down" /\ UNCHANGED <<jobs, units, files, copies>>
  BY DEF Closed
<1>3. IInv'
  <2>1. /\ jobs' = jobs /\ files' = files /\ copies' = copies /\ units' = units
        /\ service' \in {"up", "down"} /\ mapped' \subseteq Videos
    BY <1>1, <1>2
  <2> QED BY <1>1, <2>1, ServiceStep
<1> QED BY <1>2, <1>3 DEF OneMove

LEMMA CloseStep == ASSUME IInv, Close PROVE IInv' /\ OneMove
<1>1. faults' \in 0 .. MaxFaults
  BY VideoJobsAssumption DEF Close, Fault, IInv, TypeOK
<1>2. TypeOK' /\ JobsSound'
  BY <1>1 DEF Close, IInv, TypeOK, JobsSound
<1> QED BY <1>2
        DEF Close, IInv, OneMove, WorkerHasTheJob, InProgress, CopiesFitStage, OneCopyPerVideo,
            ResultIsEarned, UnitsAccounted

LEMMA UnitExitsStep == ASSUME IInv, NEW v \in Videos, UnitExits(v) PROVE IInv' /\ OneMove
<1>1. units' \subseteq units
  BY DEF UnitExits
<1>2. TypeOK' /\ JobsSound'
  BY <1>1 DEF UnitExits, IInv, TypeOK, JobsSound
<1> QED BY <1>1, <1>2
        DEF UnitExits, IInv, OneMove, WorkerHasTheJob, InProgress, CopiesFitStage,
            OneCopyPerVideo, ResultIsEarned, UnitsAccounted

-----------------------------------------------------------------------------
LEMMA InitIInv == Init => IInv
<1> SUFFICES ASSUME Init PROVE IInv
  OBVIOUS
<1>1. NoJob \in Job /\ NoJob.status = "none"
  <2>1. 0 \in 0 .. MaxAttempts /\ 0 \in 0 .. Cardinality(Videos)
    BY VideoJobsAssumption, FS_CardinalityType
  <2> QED BY <2>1 DEF NoJob, Job
<1>2. worker \in Worker /\ worker.pc = "off"
  BY DEF Init, Worker, Stages
<1>3. \A v \in Videos : jobs[v] = NoJob /\ \A s \in Stages : copies[v][s] = 0
  BY DEF Init
<1>4. TypeOK
  BY <1>1, <1>2, VideoJobsAssumption DEF Init, TypeOK
<1>5. JobsSound /\ WorkerHasTheJob
  BY <1>1, <1>2, <1>3 DEF JobsSound, WorkerHasTheJob, InProgress, Attempt
<1>6. CopiesFitStage /\ ResultIsEarned /\ UnitsAccounted
  BY <1>1, <1>2, <1>3
     DEF CopiesFitStage, OneCopyPerVideo, BeforePublished, ResultIsEarned, UnitsAccounted
<1> QED BY <1>4, <1>5, <1>6 DEF IInv

LEMMA NextIInv == ASSUME IInv, [Next]_vars PROVE IInv' /\ OneMove
<1>1. CASE Iterate \/ Wait \/ FindVideoCopy \/ PrepareInput \/ RunVideoCommand
           \/ CommandSucceeds \/ CommandFails \/ StopFails \/ PublishCopy \/ StopInterrupted
  <2>1. IInv' /\ jobs' = jobs
    BY <1>1, IterateStep, WaitStep, FindVideoCopyStep, PrepareInputStep, RunVideoCommandStep,
       CommandSucceedsStep, CommandFailsStep, StopFailsStep, PublishCopyStep,
       StopInterruptedStep
  <2> QED BY <2>1 DEF OneMove
<1>2. CASE ClaimVideoJob \/ SetVideoJobUnit \/ SetVideoJobHLS \/ FinishVideoJob
           \/ RequeueInterrupted
  BY <1>2, ClaimStep, SetUnitStep, SetHLSStep, FinishStep, RequeueStep
<1>3. CASE \E v \in Videos : EnqueueVideoJob(v) \/ BackoffElapses(v) \/ UnitExits(v)
  BY <1>3, EnqueueStep, BackoffStep, UnitExitsStep
<1>4. CASE StartVideoWorker \/ Close \/ Closed \/ Crash
  BY <1>4, StartStep, CloseStep, ClosedStep, CrashStep
<1>5. CASE UNCHANGED vars
  BY <1>5 DEF vars, IInv, TypeOK, JobsSound, WorkerHasTheJob, InProgress, CopiesFitStage,
              OneCopyPerVideo, ResultIsEarned, UnitsAccounted, OneMove
<1> QED BY <1>1, <1>2, <1>3, <1>4, <1>5 DEF Next, WorkerStep

LEMMA InvariantHolds == Spec => []IInv
<1>1. IInv /\ [Next]_vars => IInv'
  BY NextIInv
<1> QED BY InitIInv, <1>1, PTL DEF Spec

-----------------------------------------------------------------------------
\* No second job is claimed before an interrupted one went through recovery,
\* and Drive never gets a second copy of a kind, however attempts are cut off
\* and repeated (video_jobs.go, video_worker.go, video_processing.go).
THEOREM QueueStaysConsistent == Spec => []QueueConsistent
<1>1. ASSUME IInv PROVE QueueConsistent
  <2>1. CASE Processing = {}
    <3>1. Cardinality(Processing) = 0
      BY <2>1, FS_EmptySet
    <3> QED BY <1>1, <3>1 DEF IInv, QueueConsistent, OneJobProcessing, CopiesFitStage
  <2>2. CASE Processing # {}
    <3>1. PICK v \in Processing : TRUE
      BY <2>2
    <3>2. Processing = {v}
      BY <1>1, <3>1 DEF IInv, WorkerHasTheJob, InProgress, Processing
    <3>3. Cardinality(Processing) = 1
      BY <3>2, FS_Singleton
    <3> QED BY <1>1, <3>3 DEF IInv, QueueConsistent, OneJobProcessing, CopiesFitStage
  <2> QED BY <2>1, <2>2
<1> QED BY InvariantHolds, <1>1, PTL

\* Guests are offered a video with both of its copies only, and a video is
\* given up after its last attempt only (finishVideoJob).
THEOREM OutcomesAreEarned == Spec => []OutcomeIsEarned
<1>1. IInv => OutcomeIsEarned
  BY DEF IInv, JobsSound, ResultIsEarned, OutcomeIsEarned
<1> QED BY InvariantHolds, <1>1, PTL

-----------------------------------------------------------------------------
(* VideoJobs implements VideoQueue.                                        *)

Shown(status) ==
    CASE status = "none" -> "none"
      [] status \in {"queued", "processing"} -> "pending"
      [] status \in {"ready", "failed"} -> status

LEMMA ShownFacts ==
    /\ Shown("none") = "none" /\ Shown("queued") = "pending"
    /\ Shown("processing") = "pending" /\ Shown("ready") = "ready"
    /\ Shown("failed") = "failed"
BY DEF Shown

\* Each move of a job is a submission, an outcome or nothing to a guest.
LEMMA MoveImplements ==
    ASSUME TypeOK, NEW v \in Videos, NEW job \in Job, Moved(v, job)
    PROVE  [Queue!Next]_outcome
<1>1. outcome = [w \in Videos |-> Shown(jobs[w].status)]
  BY DEF outcome, Shown
<1>2. outcome' = [w \in Videos |-> Shown(jobs'[w].status)]
  BY DEF outcome, Shown
<1>3. /\ jobs'[v] = job /\ \A w \in Videos : w # v => jobs'[w] = jobs[w]
  BY JobChange DEF Moved
<1>4. outcome' = [outcome EXCEPT ![v] = Shown(job.status)]
  BY <1>1, <1>2, <1>3
<1>5. outcome[v] = Shown(jobs[v].status)
  BY <1>1
<1>6. CASE Shown(job.status) = Shown(jobs[v].status)
  <2>1. outcome' = outcome
    BY <1>1, <1>4, <1>5, <1>6
  <2> QED BY <2>1
<1>7. CASE jobs[v].status = "none" /\ job.status = "queued"
  BY <1>4, <1>5, <1>7, ShownFacts DEF Queue!Next, Queue!Submit
<1>8. CASE jobs[v].status \in {"queued", "processing"} /\ job.status \in {"ready", "failed"}
  BY <1>4, <1>5, <1>8, ShownFacts DEF Queue!Next, Queue!Settle
<1> QED BY <1>6, <1>7, <1>8, ShownFacts DEF Moved, Moves

\* No crash, restart or recovery loses a pending video, and a ready or failed
\* one stays so: every step of the queue is a step of VideoQueue or none.
THEOREM QueueImplementsPromise == Spec => ImplementsQueue
<1>1. Init => Queue!Init
  <2> SUFFICES ASSUME Init PROVE outcome = [v \in Videos |-> "none"]
    BY DEF Queue!Init
  <2>1. \A v \in Videos : jobs[v].status = "none"
    BY DEF Init, NoJob
  <2> QED BY <2>1 DEF outcome
<1>2. IInv /\ [Next]_vars => [Queue!Next]_outcome
  <2> SUFFICES ASSUME IInv, [Next]_vars PROVE [Queue!Next]_outcome
    OBVIOUS
  <2>1. OneMove
    BY NextIInv
  <2>2. CASE jobs' = jobs
    BY <2>2 DEF outcome
  <2>3. CASE \E v \in Videos, job \in Job : Moved(v, job)
    BY <2>3, MoveImplements DEF IInv
  <2> QED BY <2>1, <2>2, <2>3 DEF OneMove
<1> QED BY InvariantHolds, <1>1, <1>2, PTL DEF Spec, ImplementsQueue, Queue!Spec

-----------------------------------------------------------------------------
(* What a step may never do to a unit that runs.                           *)

\* A recorded unit that runs is forgotten by an attempt that a shutdown has
\* cancelled, and by nothing else: no crash, failed stop, failed transaction
\* or recovery does it (finishVideoJob, recoverVideoJobs).
THEOREM OnlyShutdownForgetsUnits == Spec => UnitForgottenOnlyByShutdown
<1> DEFINE Kept == \A v \in units' : Recorded(v) /\ ~Recorded(v)' => service = "closing"
<1>1. ASSUME IInv, Next PROVE Kept
  <2>1. worker \in Worker /\ worker.job \in Videos
        /\ \A v \in Videos : jobs[v] \in Job
    BY <1>1 DEF IInv, TypeOK, Worker
  <2>2. CASE UNCHANGED jobs
    BY <2>2 DEF Recorded
  <2>3. ASSUME NEW v \in Videos, NEW job, jobs' = [jobs EXCEPT ![v] = job],
               \/ Recorded(v) => v \notin units'
               \/ service = "closing"
               \/ job.status = "processing" /\ job.unit
        PROVE  Kept
    <3>1. jobs'[v] = job /\ DOMAIN jobs' = Videos
          /\ \A w \in Videos : w # v => jobs'[w] = jobs[w]
      BY <1>1, <2>3 DEF IInv, TypeOK
    <3>2. ASSUME NEW w \in units', Recorded(w), ~Recorded(w)' PROVE service = "closing"
      <4>1. CASE w = v
        BY <2>3, <3>1, <3>2, <4>1 DEF Recorded
      <4>2. CASE w # v
        <5>1. w \in Videos
          BY <1>1, NextIInv DEF IInv, TypeOK
        <5> QED BY <3>1, <3>2, <4>2, <5>1 DEF Recorded
      <4> QED BY <4>1, <4>2
    <3> QED BY <3>2
  <2> HIDE DEF Kept
  <2>4. ASSUME NEW v \in Videos, EnqueueVideoJob(v) PROVE Kept
    BY <2>3, <2>4 DEF EnqueueVideoJob, Recorded
  <2>5. ASSUME NEW v \in Videos, BackoffElapses(v) PROVE Kept
    <3>1. PICK job : job = [jobs[v] EXCEPT !.later = FALSE]
      OBVIOUS
    <3>2. job.status = jobs[v].status /\ job.unit = jobs[v].unit
      BY <2>1, <3>1 DEF Job
    <3> QED BY <2>3, <2>5, <3>1, <3>2 DEF BackoffElapses, Recorded
  <2>6. CASE ClaimVideoJob
    <3>1. ASSUME NEW v \in Videos, OldestDue(v) PROVE ~Recorded(v)
      BY <3>1 DEF OldestDue, Due, Recorded
    <3>2. ASSUME NEW v \in Videos, OldestDue(v),
                 jobs' = [jobs EXCEPT ![v].status = "ready", ![v].preview = "mapped"]
          PROVE  Kept
      <4>1. PICK job : job = [jobs[v] EXCEPT !.status = "ready", !.preview = "mapped"]
        OBVIOUS
      <4>2. jobs' = [jobs EXCEPT ![v] = job]
        BY <1>1, <3>2, <4>1 DEF IInv, TypeOK
      <4> QED BY <2>3, <3>1, <3>2, <4>2
    <3> QED BY <2>2, <2>3, <2>6, <3>1, <3>2 DEF ClaimVideoJob
  <2>7. CASE SetVideoJobUnit
    <3>1. PICK v, job : v = worker.job /\ job = [jobs[v] EXCEPT !.unit = TRUE]
      OBVIOUS
    <3>2. v \in Videos /\ job.status = jobs[v].status /\ job.unit
      BY <2>1, <3>1 DEF Job
    <3> QED BY <2>2, <2>3, <2>7, <3>1, <3>2 DEF SetVideoJobUnit, Recorded
  <2>8. CASE SetVideoJobHLS
    <3>1. PICK v, job : v = worker.job /\ job = [jobs[v] EXCEPT !.hls = TRUE]
      OBVIOUS
    <3>2. v \in Videos /\ job.status = jobs[v].status /\ job.unit = jobs[v].unit
      BY <2>1, <3>1 DEF Job
    <3> QED BY <2>2, <2>3, <2>8, <3>1, <3>2 DEF SetVideoJobHLS, Recorded
  <2>9. CASE FinishVideoJob
    <3>1. worker.pc = "finish" /\ units' = units
      BY <2>9 DEF FinishVideoJob, At
    <3>2. worker.result # "stopFailed" /\ Recorded(worker.job) =>
              worker.job \notin units' \/ service = "closing"
      BY <1>1, <3>1 DEF IInv, UnitsAccounted, Recorded
    <3>3. CASE UNCHANGED jobs
      BY <2>2, <3>3
    <3>4. CASE /\ worker.result # "stopFailed"
               /\ jobs' = [jobs EXCEPT ![worker.job] =
                              Finished(jobs[worker.job], service = "closing")]
      <4>1. PICK job : jobs' = [jobs EXCEPT ![worker.job] = job]
        BY <3>4
      <4>2. PICK v : v = worker.job
        OBVIOUS
      <4>3. /\ v \in Videos /\ jobs' = [jobs EXCEPT ![v] = job]
            /\ Recorded(v) => v \notin units' \/ service = "closing"
        BY <2>1, <3>2, <3>4, <4>1, <4>2
      <4> QED BY <2>3, <4>3 DEF Recorded
    <3> QED BY <2>9, <3>3, <3>4 DEF FinishVideoJob
  <2>10. CASE RequeueInterrupted
    <3>1. worker.pc = "requeue" /\ units' = units
      BY <2>10 DEF RequeueInterrupted, At
    <3>2. Recorded(worker.job) => worker.job \notin units'
      BY <1>1, <3>1 DEF IInv, UnitsAccounted, Recorded
    <3>3. CASE UNCHANGED jobs
      BY <2>2, <3>3
    <3>4. CASE jobs' = [jobs EXCEPT ![worker.job] = Requeued(@, TRUE, FALSE)]
      <4>1. PICK job : jobs' = [jobs EXCEPT ![worker.job] = job]
        BY <3>4
      <4>2. PICK v : v = worker.job
        OBVIOUS
      <4>3. v \in Videos /\ jobs' = [jobs EXCEPT ![v] = job] /\ (Recorded(v) => v \notin units')
        BY <2>1, <3>2, <4>1, <4>2
      <4> QED BY <2>3, <4>3 DEF Recorded
    <3> QED BY <2>10, <3>3, <3>4 DEF RequeueInterrupted
  <2>11. CASE StartVideoWorker \/ Close \/ Closed \/ Crash \/ \E v \in Videos : UnitExits(v)
    BY <2>2, <2>11 DEF StartVideoWorker, Close, Closed, Crash, UnitExits
  <2>12. CASE Iterate \/ Wait \/ FindVideoCopy \/ PrepareInput \/ RunVideoCommand
              \/ CommandSucceeds \/ CommandFails \/ StopFails \/ PublishCopy \/ StopInterrupted
    BY <2>2, <2>12 DEF Iterate, Wait, FindVideoCopy, PrepareInput, RunVideoCommand,
       CommandSucceeds, CommandFails, StopFails, PublishCopy, StopInterrupted
  <2> QED BY <1>1, <2>4, <2>5, <2>6, <2>7, <2>8, <2>9, <2>10, <2>11, <2>12 DEF Next, WorkerStep
<1>2. IInv /\ [Next]_vars =>
          [\A v \in units' : Recorded(v) /\ ~Recorded(v)' => service = "closing"]_vars
  BY <1>1
<1> QED BY InvariantHolds, <1>2, PTL DEF Spec, UnitForgottenOnlyByShutdown

\* Work files are not removed under a recorded unit that runs, unless the
\* shutdown hid that it could not be stopped (the deferred cleanups of
\* processVideo and processVideoHLS, and recoverVideoJobs).
THEOREM FilesStayWhileUnitsRun == Spec => FilesKeptWhileUnitRuns
<1> DEFINE Kept == \A v \in files \ files' : v \in units' /\ Recorded(v) => service = "closing"
<1>1. ASSUME IInv, Next PROVE Kept
  <2>1. CASE UNCHANGED files
    BY <2>1
  <2>2. ASSUME files' = files \ {worker.job},
               worker.job \in units' /\ Recorded(worker.job) => service = "closing"
        PROVE  Kept
    BY <2>2
  <2>3. ASSUME NEW result, Return(result),
               \/ result = "stopFailed"
               \/ worker.job \in units' /\ Recorded(worker.job) => service = "closing"
        PROVE  Kept
    BY <2>1, <2>2, <2>3 DEF Return
  <2>4. ASSUME worker.pc \in {"prepare", "record", "publish"}, UNCHANGED units
        PROVE  worker.job \in units' => ~Recorded(worker.job)
    BY <1>1, <2>4 DEF IInv, UnitsAccounted, Recorded
  <2> HIDE DEF Kept
  <2>5. CASE PrepareInput
    <3>1. worker.job \in units' => ~Recorded(worker.job)
      BY <2>4, <2>5 DEF PrepareInput, At
    <3>2. CASE \E result \in {"deferred", "error"} : Return(result)
      BY <2>3, <3>1, <3>2
    <3>3. CASE worker.job \notin files /\ files' = files \cup {worker.job}
      BY <3>3 DEF Kept
    <3> QED BY <2>5, <3>2, <3>3 DEF PrepareInput
  <2>6. CASE SetVideoJobUnit
    <3>1. worker.job \in units' => ~Recorded(worker.job)
      BY <2>4, <2>6 DEF SetVideoJobUnit, At
    <3> QED BY <2>1, <2>3, <2>6, <3>1 DEF SetVideoJobUnit
  <2>7. CASE CommandFails
    BY <2>1, <2>3, <2>7 DEF CommandFails
  <2>8. CASE StopFails
    BY <2>3, <2>8 DEF StopFails
  <2>9. CASE PublishCopy
    <3>1. worker.job \in units' => ~Recorded(worker.job)
      BY <2>4, <2>9 DEF PublishCopy, At
    <3> QED BY <2>2, <2>3, <2>9, <3>1 DEF PublishCopy, Published
  <2>10. CASE StopInterrupted
    <3>1. ASSUME NEW v \in Processing, files' = files \ {v},
                 units' = IF jobs[v].unit THEN units \ {v} ELSE units
          PROVE  Kept
      BY <3>1 DEF Kept, Recorded
    <3> QED BY <2>1, <2>10, <3>1 DEF StopInterrupted
  <2>11. ASSUME NEW v \in Videos, EnqueueVideoJob(v) \/ BackoffElapses(v) \/ UnitExits(v)
         PROVE  Kept
    BY <2>1, <2>11 DEF EnqueueVideoJob, BackoffElapses, UnitExits
  <2>12. CASE StartVideoWorker \/ Close \/ Closed \/ Crash
    BY <2>1, <2>12 DEF StartVideoWorker, Close, Closed, Crash
  <2>13. CASE Iterate \/ Wait \/ ClaimVideoJob \/ FindVideoCopy \/ RunVideoCommand
              \/ CommandSucceeds \/ SetVideoJobHLS \/ FinishVideoJob \/ RequeueInterrupted
    BY <2>1, <2>13 DEF Iterate, Wait, ClaimVideoJob, FindVideoCopy, RunVideoCommand,
       CommandSucceeds, SetVideoJobHLS, FinishVideoJob, RequeueInterrupted
  <2> QED BY <1>1, <2>5, <2>6, <2>7, <2>8, <2>9, <2>10, <2>11, <2>12, <2>13
          DEF Next, WorkerStep
<1>2. IInv /\ [Next]_vars =>
          [\A v \in files \ files' : v \in units' /\ Recorded(v) => service = "closing"]_vars
  BY <1>1
<1> QED BY InvariantHolds, <1>2, PTL DEF Spec, FilesKeptWhileUnitRuns

=============================================================================
