------------------------------ MODULE JobQueue ------------------------------
(***************************************************************************)
(* The asynchronous job queue of internal/jobs: JobQueue (queue.go), the   *)
(* calls of JobManager that change a job (manager.go) and the job records  *)
(* they keep in Badger (storage.go, through JobStorage's operations, each  *)
(* one Badger transaction and therefore one step here).                    *)
(*                                                                         *)
(* Every goroutine is a process with a program counter: one Submit per job *)
(* (job ids are fresh UUIDs), the workers, the start-up loader, and the    *)
(* Clients, which are the request handlers (and the goroutines GetJob      *)
(* starts) that cancel, read and delete jobs. Between two steps of one     *)
(* goroutine any other may run, and the process may die (Restart).         *)
(*                                                                         *)
(* Abstracted: arguments, results, progress, times (a record is "old" when *)
(* Cleanup likes), how a tool is found and what it returns (RunTool only   *)
(* distinguishes success from failure). The events channel influences      *)
(* nothing here: the steps that emit an event only advance, and JobEvents  *)
(* adds the channel, its subscribers and those who wait for a job.         *)
(***************************************************************************)
EXTENDS Integers, Sequences, FiniteSets

CONSTANTS
  Job,          \* the ids of the jobs that may be created
  Worker,       \* config.NumWorkers goroutines
  Client,       \* concurrent request handlers that cancel, read or delete
  QueueSize,    \* config.QueueSize: capacity of the jobs channel
  AutoDelete,   \* config.AutoDeleteCompleted
  SavesFail,    \* may a Badger write return an error (disk, ErrConflict)?
  Restarts,     \* may the process die and be started again?
  MayStop,      \* may JobManager.Stop be called?
  None          \* no job, no copy

ASSUME QueueSizeAssumption == QueueSize \in Nat \ {0}
ASSUME NoneAssumption == None \notin Job \union (Job \X {"submitted", "loaded"})
ASSUME SwitchAssumption ==
  {AutoDelete, SavesFail, Restarts, MayStop} \subseteq BOOLEAN

-----------------------------------------------------------------------------
(* Job records and their in-memory copies. *)

Terminal == {"completed", "failed", "cancelled"}
Status   == {"pending", "running"} \union Terminal

(***************************************************************************)
(* A *Job in memory. Submit enqueues the caller's own object ("submitted") *)
(* and loadPendingJobs one it decoded from storage ("loaded"): the same    *)
(* job can have both, and each worker writes to the one it received.       *)
(***************************************************************************)
Copy == Job \X {"submitted", "loaded"}
JobOf(copy) == copy[1]

VARIABLES
  store,        \* the Badger record of each job: its status, or "absent"
  mem,          \* the Status field of each in-memory copy
  jobs,         \* the jobs channel
  running,      \* q.running, and q.ctx not cancelled
  submit,       \* where the Submit call of each job is
  wpc, wcopy,   \* where each worker is, and the copy it processes
  lpc, todo,    \* where loadPendingJobs is, and the jobs it still has to load
  missed,       \* history: pending jobs loadPendingJobs left in storage
  cpc, cjob,    \* where each client is, and the job it deals with
  queueDepth, activeWorkers    \* the counters GetStats reports

memoryVars == <<mem, jobs, running, submit, wpc, wcopy, lpc, todo,
                missed, cpc, cjob, queueDepth, activeWorkers>>
vars == <<store, memoryVars>>

submitVars == <<submit>>
workerVars == <<wpc, wcopy, activeWorkers>>
loaderVars == <<lpc, todo, missed>>
clientVars == <<cpc, cjob>>

Init ==
  /\ store = [j \in Job |-> "absent"]
  /\ mem = [c \in Copy |-> "pending"]
  /\ jobs = <<>>
  /\ running = TRUE
  /\ submit = [j \in Job |-> "new"]
  /\ wpc = [w \in Worker |-> "idle"]
  /\ wcopy = [w \in Worker |-> None]
  /\ lpc = "scan"
  /\ todo = {}
  /\ missed = {}
  /\ cpc = [c \in Client |-> "idle"]
  /\ cjob = [c \in Client |-> None]
  /\ queueDepth = 0
  /\ activeWorkers = 0

-----------------------------------------------------------------------------
(* Shared operations. *)

(* JobStorage.Save: one transaction, whatever the record was before. *)
Save(j, status) == store' = [store EXCEPT ![j] = status]

Pending == {j \in Job : store[j] = "pending"}

-----------------------------------------------------------------------------
(* JobManager.CreateJob and JobQueue.Submit. *)

(* The running check: a stopped queue rejects the job. *)
SubmitCheck(j) ==
  /\ submit[j] = "new"
  /\ submit' = [submit EXCEPT ![j] = IF running THEN "save" ELSE "done"]
  /\ UNCHANGED <<store, mem, jobs, running, workerVars, loaderVars,
                 clientVars, queueDepth>>

SubmitSave(j) ==
  /\ submit[j] = "save"
  /\ \/ Save(j, mem[<<j, "submitted">>]) /\ submit' = [submit EXCEPT ![j] = "enqueue"]
     \/ SavesFail /\ submit' = [submit EXCEPT ![j] = "done"] /\ UNCHANGED store
  /\ UNCHANGED <<mem, jobs, running, workerVars, loaderVars,
                 clientVars, queueDepth>>

(* Mutant: a send that ignores the capacity of the channel. *)
SubmitEnqueueUnbounded(j) ==
  /\ submit[j] = "enqueue"
  /\ jobs' = Append(jobs, <<j, "submitted">>)
  /\ submit' = [submit EXCEPT ![j] = "count"]
  /\ UNCHANGED <<store, mem, running, workerVars, loaderVars, clientVars, queueDepth>>

(* The select: with a full channel Submit returns success all the same. *)
SubmitEnqueue(j) ==
  /\ submit[j] = "enqueue"
  /\ \/ /\ Len(jobs) < QueueSize
        /\ jobs' = Append(jobs, <<j, "submitted">>)
        /\ submit' = [submit EXCEPT ![j] = "count"]
     \/ /\ Len(jobs) >= QueueSize
        /\ submit' = [submit EXCEPT ![j] = "deferred"]
        /\ UNCHANGED jobs
  /\ UNCHANGED <<store, mem, running, workerVars, loaderVars,
                 clientVars, queueDepth>>

SubmitCount(j) ==
  /\ submit[j] = "count"
  /\ queueDepth' = queueDepth + 1
  /\ submit' = [submit EXCEPT ![j] = "emit"]
  /\ UNCHANGED <<store, mem, jobs, running, workerVars, loaderVars,
                 clientVars>>

SubmitEmit(j) ==
  /\ submit[j] = "emit"
  /\ submit' = [submit EXCEPT ![j] = "done"]
  /\ UNCHANGED <<store, mem, jobs, running, workerVars, loaderVars,
                 clientVars, queueDepth>>

SubmitStep(j) ==
  SubmitSave(j) \/ SubmitEnqueue(j) \/ SubmitCount(j) \/ SubmitEmit(j)

-----------------------------------------------------------------------------
(* worker and processJob. *)

Goto(w, pc) == wpc' = [wpc EXCEPT ![w] = pc]

(* Once the context is cancelled the select still may choose a queued job. *)
Take(w) ==
  /\ wpc[w] = "idle"
  /\ jobs # <<>>
  /\ wcopy' = [wcopy EXCEPT ![w] = Head(jobs)]
  /\ jobs' = Tail(jobs)
  /\ Goto(w, "taken")
  /\ UNCHANGED <<store, mem, running, submitVars, loaderVars,
                 clientVars, queueDepth, activeWorkers>>

CountTaken(w) ==
  /\ wpc[w] = "taken"
  /\ queueDepth' = queueDepth - 1
  /\ activeWorkers' = activeWorkers + 1
  /\ Goto(w, "check")
  /\ UNCHANGED <<store, mem, jobs, running, submitVars, wcopy,
                 loaderVars, clientVars>>

(* Mutant: processJob without the check for a cancelled job. *)
CheckExistsOnly(w) ==
  /\ wpc[w] = "check"
  /\ store[JobOf(wcopy[w])] # "absent"
  /\ Goto(w, "start") /\ mem' = [mem EXCEPT ![wcopy[w]] = "running"]
  /\ UNCHANGED <<store, jobs, running, submitVars, wcopy, loaderVars,
                 clientVars, queueDepth, activeWorkers>>

(* A job that is gone or cancelled is skipped; any other status is not looked at. *)
CheckCancelled(w) ==
  LET copy == wcopy[w]
      skip == store[JobOf(copy)] \in {"absent", "cancelled"}
  IN  /\ wpc[w] = "check"
      /\ \/ skip /\ Goto(w, "release") /\ UNCHANGED mem
         \/ ~skip /\ Goto(w, "start") /\ mem' = [mem EXCEPT ![copy] = "running"]
      /\ UNCHANGED <<store, jobs, running, submitVars, wcopy,
                     loaderVars, clientVars, queueDepth, activeWorkers>>

(* Mutant: processJob returns after it saved the job as running. *)
SaveRunningReturns(w) ==
  /\ wpc[w] = "start"
  /\ Save(JobOf(wcopy[w]), "running") /\ Goto(w, "release")
  /\ UNCHANGED <<mem, jobs, running, submitVars, wcopy, loaderVars,
                 clientVars, queueDepth, activeWorkers>>

SaveRunning(w) ==
  LET copy == wcopy[w]
  IN  /\ wpc[w] = "start"
      /\ \/ Save(JobOf(copy), mem[copy]) /\ Goto(w, "started")
         \/ SavesFail /\ Goto(w, "release") /\ UNCHANGED store
      /\ UNCHANGED <<mem, jobs, running, submitVars, wcopy,
                     loaderVars, clientVars, queueDepth, activeWorkers>>

EmitStarted(w) ==
  /\ wpc[w] = "started"
  /\ Goto(w, "run")
  /\ UNCHANGED <<store, mem, jobs, running, submitVars, wcopy,
                 loaderVars, clientVars, queueDepth, activeWorkers>>

(* Find the tool and execute it within JobTimeout. *)
RunTool(w) ==
  /\ wpc[w] = "run"
  /\ \E outcome \in {"completed", "failed"} :
       mem' = [mem EXCEPT ![wcopy[w]] = outcome]
  /\ Goto(w, "finish")
  /\ UNCHANGED <<store, jobs, running, submitVars, wcopy,
                 loaderVars, clientVars, queueDepth, activeWorkers>>

(* Mutant: a failed job is announced but not saved. *)
SaveCompletedOnly(w) ==
  LET copy == wcopy[w]
  IN  /\ wpc[w] = "finish"
      /\ \/ mem[copy] = "completed" /\ Save(JobOf(copy), "completed")
         \/ mem[copy] = "failed" /\ UNCHANGED store
      /\ Goto(w, "finished")
      /\ UNCHANGED <<mem, jobs, running, submitVars, wcopy, loaderVars,
                     clientVars, queueDepth, activeWorkers>>

(* The error of saving a failed job is ignored; that of a completed one ends processJob. *)
SaveResult(w) ==
  LET copy == wcopy[w]
  IN  /\ wpc[w] = "finish"
      /\ \/ Save(JobOf(copy), mem[copy]) /\ Goto(w, "finished")
         \/ /\ SavesFail
            /\ Goto(w, IF mem[copy] = "failed" THEN "finished" ELSE "release")
            /\ UNCHANGED store
      /\ UNCHANGED <<mem, jobs, running, submitVars, wcopy,
                     loaderVars, clientVars, queueDepth, activeWorkers>>

EmitFinished(w) ==
  /\ wpc[w] = "finished"
  /\ Goto(w, "release")
  /\ UNCHANGED <<store, mem, jobs, running, submitVars, wcopy,
                 loaderVars, clientVars, queueDepth, activeWorkers>>

Release(w) ==
  /\ wpc[w] = "release"
  /\ activeWorkers' = activeWorkers - 1
  /\ wcopy' = [wcopy EXCEPT ![w] = None]
  /\ Goto(w, "idle")
  /\ UNCHANGED <<store, mem, jobs, running, submitVars, loaderVars,
                 clientVars, queueDepth>>

(* Mutant: a worker notices the stop only when it could take a job. *)
ExitWithWorkOnly(w) ==
  /\ wpc[w] = "idle" /\ ~running /\ jobs # <<>>
  /\ Goto(w, "exited")
  /\ UNCHANGED <<store, mem, jobs, running, submitVars, wcopy, loaderVars,
                 clientVars, queueDepth, activeWorkers>>

ExitWorker(w) ==
  /\ wpc[w] = "idle"
  /\ ~running
  /\ Goto(w, "exited")
  /\ UNCHANGED <<store, mem, jobs, running, submitVars, wcopy,
                 loaderVars, clientVars, queueDepth, activeWorkers>>

WorkerStep(w) ==
  \/ Take(w) \/ CountTaken(w) \/ CheckCancelled(w) \/ SaveRunning(w)
  \/ EmitStarted(w) \/ RunTool(w) \/ SaveResult(w) \/ EmitFinished(w)
  \/ Release(w) \/ ExitWorker(w)

-----------------------------------------------------------------------------
(* loadPendingJobs, started once by Start. *)

(* GetPending(QueueSize): one read transaction, at most QueueSize pending jobs. *)
LoadScan ==
  /\ lpc = "scan"
  /\ \E found \in SUBSET Pending :
       /\ Cardinality(found) <= QueueSize
       /\ found # Pending => Cardinality(found) = QueueSize
       /\ todo' = found
       /\ missed' = Pending \ found
  /\ lpc' = "load"
  /\ UNCHANGED <<store, mem, jobs, running, submitVars, workerVars,
                 clientVars, queueDepth>>

(* Mutant: the loader does not advance past the job it enqueued. *)
LoadSameAgain ==
  /\ lpc = "load" /\ Len(jobs) < QueueSize
  /\ \E j \in todo : jobs' = Append(jobs, <<j, "loaded">>)
  /\ lpc' = "count"
  /\ UNCHANGED <<store, mem, running, submitVars, workerVars, todo, missed,
                 clientVars, queueDepth>>

(* Enqueue the next job found; a full channel ends the loop. *)
LoadNext ==
  /\ lpc = "load"
  /\ \/ \E j \in todo :
          /\ Len(jobs) < QueueSize
          /\ jobs' = Append(jobs, <<j, "loaded">>)
          /\ todo' = todo \ {j}
          /\ lpc' = "count"
          /\ UNCHANGED missed
     \/ /\ todo = {} \/ Len(jobs) >= QueueSize
        /\ missed' = missed \union todo
        /\ todo' = {}
        /\ lpc' = "done"
        /\ UNCHANGED jobs
  /\ UNCHANGED <<store, mem, running, submitVars, workerVars,
                 clientVars, queueDepth>>

(* Mutants: the loader starts over; the loader does not count. *)
LoadAgain ==
  /\ lpc = "count" /\ lpc' = "scan" /\ queueDepth' = queueDepth + 1
  /\ UNCHANGED <<store, mem, jobs, running, submitVars, workerVars, todo,
                 missed, clientVars>>

LoadUncounted ==
  /\ lpc = "count" /\ lpc' = "load"
  /\ UNCHANGED <<store, mem, jobs, running, submitVars, workerVars, todo,
                 missed, clientVars, queueDepth>>

LoadCount ==
  /\ lpc = "count"
  /\ queueDepth' = queueDepth + 1
  /\ lpc' = "load"
  /\ UNCHANGED <<store, mem, jobs, running, submitVars, workerVars,
                 todo, missed, clientVars>>

LoaderStep == LoadScan \/ LoadNext \/ LoadCount

-----------------------------------------------------------------------------
(* The cleanup routine, and JobManager.Cleanup. *)

(* One transaction removes the terminal records that are old or expired. *)
Cleanup ==
  \E old \in SUBSET {j \in Job : store[j] \in Terminal} :
    /\ old # {}
    /\ store' = [j \in Job |-> IF j \in old THEN "absent" ELSE store[j]]
    /\ UNCHANGED memoryVars

-----------------------------------------------------------------------------
(* Request handlers: Cancel, GetJob with auto-delete, DeleteJob. *)

ClientGoto(c, pc, j) ==
  /\ cpc' = [cpc EXCEPT ![c] = pc]
  /\ cjob' = [cjob EXCEPT ![c] = j]

ClientOnly ==
  UNCHANGED <<mem, jobs, running, submitVars, workerVars, loaderVars, queueDepth>>

(* Cancel reads the record in a transaction of its own; a terminal one is an error. *)
CancelGet(c, j) ==
  /\ cpc[c] = "idle"
  /\ store[j] \in {"pending", "running"}
  /\ ClientGoto(c, "cancel", j)
  /\ ClientOnly /\ UNCHANGED store

CancelSave(c) ==
  /\ cpc[c] = "cancel"
  /\ \/ Save(cjob[c], "cancelled") /\ ClientGoto(c, "cancelled", cjob[c])
     \/ SavesFail /\ ClientGoto(c, "idle", None) /\ UNCHANGED store
  /\ ClientOnly

CancelEmit(c) ==
  /\ cpc[c] = "cancelled"
  /\ ClientGoto(c, "idle", None)
  /\ ClientOnly /\ UNCHANGED store

(* GetJob of a completed job starts a goroutine that deletes it. *)
GetJob(c, j) ==
  /\ cpc[c] = "idle"
  /\ AutoDelete /\ store[j] = "completed"
  /\ ClientGoto(c, "delete", j)
  /\ ClientOnly /\ UNCHANGED store

(* DeleteJob looks at the status first, in a transaction of its own. *)
DeleteJob(c, j) ==
  /\ cpc[c] = "idle"
  /\ store[j] \in Terminal
  /\ ClientGoto(c, "delete", j)
  /\ ClientOnly /\ UNCHANGED store

(* JobStorage.Delete: it removes whatever the record has become. *)
Delete(c) ==
  /\ cpc[c] = "delete"
  /\ \/ Save(cjob[c], "absent")
     \/ SavesFail /\ UNCHANGED store
  /\ ClientGoto(c, "idle", None)
  /\ ClientOnly

ClientStep(c) == CancelSave(c) \/ CancelEmit(c) \/ Delete(c)

(* A request arrives. *)
ClientCall(c, j) == CancelGet(c, j) \/ GetJob(c, j) \/ DeleteJob(c, j)

-----------------------------------------------------------------------------
(* Stop, and the death and restart of the process. *)

Stop ==
  /\ MayStop /\ running
  /\ running' = FALSE
  /\ UNCHANGED <<store, mem, jobs, submitVars, workerVars,
                 loaderVars, clientVars, queueDepth>>

(* Mutant: a start that does not run loadPendingJobs. *)
RestartUnloaded ==
  /\ Restarts
  /\ mem' = [c \in Copy |-> "pending"] /\ jobs' = <<>> /\ running' = TRUE
  /\ submit' = [j \in Job |-> IF submit[j] = "new" THEN "new" ELSE "done"]
  /\ wpc' = [w \in Worker |-> "idle"] /\ wcopy' = [w \in Worker |-> None]
  /\ lpc' = "done" /\ todo' = {} /\ missed' = {}
  /\ cpc' = [c \in Client |-> "idle"] /\ cjob' = [c \in Client |-> None]
  /\ queueDepth' = 0 /\ activeWorkers' = 0
  /\ UNCHANGED store

(***************************************************************************)
(* The process ends, at any point (a crash, a stop that waited its 30      *)
(* seconds, or one whose workers have exited), and a new one starts with   *)
(* what is in Badger. The Submit calls in progress end with it.            *)
(***************************************************************************)
Restart ==
  /\ Restarts
  /\ mem' = [c \in Copy |-> "pending"]
  /\ jobs' = <<>>
  /\ running' = TRUE
  /\ submit' = [j \in Job |-> IF submit[j] = "new" THEN "new" ELSE "done"]
  /\ wpc' = [w \in Worker |-> "idle"]
  /\ wcopy' = [w \in Worker |-> None]
  /\ lpc' = "scan"
  /\ todo' = {}
  /\ missed' = {}
  /\ cpc' = [c \in Client |-> "idle"]
  /\ cjob' = [c \in Client |-> None]
  /\ queueDepth' = 0
  /\ activeWorkers' = 0
  /\ UNCHANGED store

Next ==
  \/ \E j \in Job : SubmitCheck(j) \/ SubmitStep(j)
  \/ \E w \in Worker : WorkerStep(w)
  \/ LoaderStep
  \/ Cleanup
  \/ \E c \in Client : ClientStep(c) \/ \E j \in Job : ClientCall(c, j)
  \/ Stop
  \/ Restart

Spec == Init /\ [][Next]_vars

(***************************************************************************)
(* A goroutine that can take a step takes it in the end: Go schedules      *)
(* every runnable goroutine, no step blocks on another goroutine for ever, *)
(* and a tool call ends by itself or at JobTimeout. Requests, Stop, the    *)
(* cleanup ticker and a crash need not happen.                             *)
(***************************************************************************)
Fairness ==
  /\ \A j \in Job : WF_vars(SubmitStep(j))
  /\ \A w \in Worker : WF_vars(WorkerStep(w))
  /\ \A c \in Client : WF_vars(ClientStep(c))
  /\ WF_vars(LoaderStep)

FairSpec == Spec /\ Fairness

-----------------------------------------------------------------------------
(* Properties. *)

SubmitPC == {"new", "save", "enqueue", "count", "emit", "deferred", "done"}
WorkerPC == {"idle", "taken", "check", "start", "started", "run", "finish",
             "finished", "release", "exited"}

(* The types of the variables; a worker holds a copy exactly while it is at work. *)
TypeOK ==
  /\ store \in [Job -> Status \union {"absent"}]
  /\ mem \in [Copy -> Status]
  /\ jobs \in Seq(Copy) /\ Len(jobs) <= QueueSize
  /\ running \in BOOLEAN
  /\ submit \in [Job -> SubmitPC]
  /\ wpc \in [Worker -> WorkerPC]
  /\ wcopy \in [Worker -> Copy \union {None}]
  /\ \A w \in Worker : wpc[w] \notin {"idle", "exited"} <=> wcopy[w] \in Copy
  /\ lpc \in {"scan", "load", "count", "done"}
  /\ todo \subseteq Job
  /\ missed \subseteq Job
  /\ cpc \in [Client -> {"idle", "cancel", "cancelled", "delete"}]
  /\ cjob \in [Client -> Job \union {None}]
  /\ \A c \in Client : cpc[c] # "idle" => cjob[c] \in Job
  /\ queueDepth \in Int /\ activeWorkers \in Int

(* Worker w has the job and is at one of these points of processJob. *)
At(w, j, pcs) == wpc[w] \in pcs /\ JobOf(wcopy[w]) = j

(***************************************************************************)
(* A Job object in memory is in the channel at most once, and no worker    *)
(* writes to it while another one does or while it is still queued: the    *)
(* unlocked writes of SetRunning, SetCompleted and SetFailed never meet.   *)
(***************************************************************************)
OneHolderPerCopy ==
  /\ \A i, k \in DOMAIN jobs : jobs[i] = jobs[k] => i = k
  /\ \A w \in Worker, i \in DOMAIN jobs : wcopy[w] # jobs[i]
  /\ \A w, v \in Worker : wcopy[w] = wcopy[v] /\ wcopy[w] # None => w = v

(* The copy is queued or at a worker. *)
InFlight(copy) ==
  \/ \E i \in DOMAIN jobs : jobs[i] = copy
  \/ \E w \in Worker : wcopy[w] = copy

(* Why: neither Submit nor the loader has enqueued a copy it may still enqueue. *)
EnqueuedOnce ==
  \A j \in Job :
    /\ submit[j] \in {"new", "save", "enqueue", "deferred"} => ~InFlight(<<j, "submitted">>)
    /\ lpc = "scan" \/ j \in todo => ~InFlight(<<j, "loaded">>)

(***************************************************************************)
(* What a goroutine saves is what it set: Submit writes a pending job, a   *)
(* worker "running" until its tool has returned and the outcome after      *)
(* that, though another worker may process another copy of the same job.   *)
(***************************************************************************)
CopyStatus ==
  /\ \A j \in Job : submit[j] \in {"new", "save"} => mem[<<j, "submitted">>] = "pending"
  /\ \A w \in Worker :
       /\ wpc[w] \in {"start", "started", "run"} => mem[wcopy[w]] = "running"
       /\ wpc[w] \in {"finish", "finished"} => mem[wcopy[w]] \in {"completed", "failed"}

(***************************************************************************)
(* While no write fails and the process lives, a record says "running"     *)
(* only while a worker is between saving that and saving its result: no    *)
(* return of processJob leaves it behind, and a stop that waited for the   *)
(* workers persists no running job.                                        *)
(***************************************************************************)
RunningIsOwned ==
  ~Restarts /\ ~SavesFail =>
    \A j \in Job : store[j] = "running" =>
      \E w \in Worker : At(w, j, {"started", "run", "finish"})

(* Someone will enqueue the job or process it, or it was left in storage. *)
Queued(j) == \E i \in DOMAIN jobs : JobOf(jobs[i]) = j

Carried(j) ==
  \/ submit[j] \in {"enqueue", "deferred"}
  \/ lpc = "scan" \/ j \in todo \union missed
  \/ Queued(j)
  \/ \E w \in Worker : At(w, j, {"taken", "check", "start"})

(***************************************************************************)
(* While no write fails, an accepted job that is still pending is carried  *)
(* by someone (its Submit, the loader, the channel, a worker), or Submit   *)
(* or the loader found the channel full and left it in storage: nothing    *)
(* else loses a job, across restarts too.                                  *)
(***************************************************************************)
PendingIsCarried == ~SavesFail => \A j \in Pending : Carried(j)

(***************************************************************************)
(* The counters GetStats reports are right up to the goroutines that are   *)
(* between a channel operation and its AddInt32; when there is none,       *)
(* queueDepth is the length of the channel and activeWorkers the number of *)
(* workers in processJob, on every path through it.                        *)
(***************************************************************************)
CountersExact ==
  /\ queueDepth = Len(jobs)
                  + Cardinality({w \in Worker : wpc[w] = "taken"})
                  - Cardinality({j \in Job : submit[j] = "count"})
                  - (IF lpc = "count" THEN 1 ELSE 0)
  /\ activeWorkers = Cardinality({w \in Worker :
                       wpc[w] \notin {"idle", "taken", "exited"}})

(* No Submit is about to write the job, no worker has passed its check. *)
Settled(j) ==
  /\ store[j] \in {"absent", "cancelled"}
  /\ submit[j] \notin {"new", "save"}
  /\ ~ \E w \in Worker : At(w, j, {"start", "started", "run", "finish"})

(* What every step keeps of a settled job. *)
SettledKept == \A j \in Job : Settled(j) => Settled(j)'

(***************************************************************************)
(* A job cancelled or deleted while no worker is past its check stays so   *)
(* and is never executed, whatever copies of it are queued or loaded again *)
(* and whatever requests, failed writes and restarts follow.               *)
(***************************************************************************)
SettledStays == [][SettledKept]_vars

(* A job that Submit enqueued ends (or is deleted), unless the queue is stopped. *)
EnqueuedEnds ==
  \A j \in Job : submit[j] = "count" ~>
    (store[j] \in Terminal \union {"absent"} \/ ~running)

(* A stopped queue's workers finish the jobs they have and exit. *)
StopCompletes == ~running ~> \A w \in Worker : wpc[w] = "exited"

-----------------------------------------------------------------------------
(* What the code's comments say and the code does not do. *)

(* queue.go:161: a job saved when the queue was full will be picked up. *)
DeferredIsPickedUp ==
  \A j \in Job : submit[j] = "deferred" ~> store[j] # "pending"
=============================================================================
