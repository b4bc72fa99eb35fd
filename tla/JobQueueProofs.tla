--------------------------- MODULE JobQueueProofs ---------------------------
(***************************************************************************)
(* Proofs about JobQueue, for any sets of jobs, workers and clients, any   *)
(* queue size and every combination of the switches.                       *)
(***************************************************************************)
EXTENDS JobQueue, SequenceTheorems, FiniteSetTheorems, WellFoundedInduction, TLAPS

USE DEF submitVars, workerVars, loaderVars, clientVars, memoryVars, vars

-----------------------------------------------------------------------------
(* What the channel operations do to the elements of the channel. *)

LEMMA AppendElements ==
  ASSUME NEW S, NEW s \in Seq(S), NEW e \in S
  PROVE  /\ Append(s, e) \in Seq(S)
         /\ Len(Append(s, e)) = Len(s) + 1
         /\ DOMAIN Append(s, e) = DOMAIN s \union {Len(s) + 1}
         /\ \A i \in DOMAIN s : Append(s, e)[i] = s[i]
         /\ Append(s, e)[Len(s) + 1] = e
         /\ Len(s) \in Nat /\ DOMAIN s = 1..Len(s)
BY AppendProperties

LEMMA TailElements ==
  ASSUME NEW S, NEW s \in Seq(S), s # <<>>
  PROVE  /\ Head(s) \in S /\ Head(s) = s[1] /\ 1 \in DOMAIN s
         /\ Tail(s) \in Seq(S)
         /\ Len(Tail(s)) = Len(s) - 1
         /\ \A i \in DOMAIN Tail(s) : i + 1 \in DOMAIN s /\ Tail(s)[i] = s[i + 1]
         /\ Len(s) \in Nat \ {0} /\ DOMAIN s = 1..Len(s)
         /\ DOMAIN Tail(s) = 1..(Len(s) - 1)
BY HeadTailProperties

LEMMA CopyParts ==
  ASSUME NEW c \in Copy PROVE JobOf(c) \in Job
BY DEF Copy, JobOf

-----------------------------------------------------------------------------
(***************************************************************************)
(* Type correctness: the channel never exceeds its capacity, a worker      *)
(* holds a copy exactly while it is in processJob, a client knows its job. *)
(***************************************************************************)
THEOREM Typing == Spec => []TypeOK
<1>1. Init => TypeOK
  BY QueueSizeAssumption, NoneAssumption DEF Init, TypeOK, Status, Terminal, SubmitPC, WorkerPC, Copy
<1>2. ASSUME TypeOK, [Next]_vars PROVE TypeOK'
  <2> USE <1>2, QueueSizeAssumption, NoneAssumption DEF TypeOK, Status, Terminal, SubmitPC, WorkerPC, Save
  <2>1. ASSUME NEW j \in Job, SubmitCheck(j) PROVE TypeOK'
    BY <2>1 DEF SubmitCheck
  <2>2. ASSUME NEW j \in Job, SubmitStep(j) PROVE TypeOK'
    <3>1. CASE SubmitSave(j)
      <4>1. <<j, "submitted">> \in Copy  BY DEF Copy
      <4> QED BY <3>1, <4>1 DEF SubmitSave
    <3>2. CASE SubmitEnqueue(j)
      <4>1. <<j, "submitted">> \in Copy  BY DEF Copy
      <4>2. CASE Len(jobs) < QueueSize
        <5>1. jobs' = Append(jobs, <<j, "submitted">>)  BY <3>2, <4>2 DEF SubmitEnqueue
        <5>2. jobs' \in Seq(Copy) /\ Len(jobs') <= QueueSize
          BY <4>1, <4>2, <5>1, AppendElements
        <5> QED BY <3>2, <5>2 DEF SubmitEnqueue
      <4>3. CASE ~(Len(jobs) < QueueSize)
        BY <3>2, <4>3 DEF SubmitEnqueue
      <4> QED BY <4>2, <4>3
    <3>3. CASE SubmitCount(j)  BY <3>3 DEF SubmitCount
    <3>4. CASE SubmitEmit(j)  BY <3>4 DEF SubmitEmit
    <3> QED BY <2>2, <3>1, <3>2, <3>3, <3>4 DEF SubmitStep
  <2>3. ASSUME NEW w \in Worker, WorkerStep(w) PROVE TypeOK'
    <3> USE DEF Goto
    <3>1. CASE Take(w)
      <4>1. Head(jobs) \in Copy /\ Tail(jobs) \in Seq(Copy) /\ Len(Tail(jobs)) <= QueueSize
        BY <3>1, TailElements DEF Take
      <4> QED BY <3>1, <4>1 DEF Take
    <3>2. CASE CountTaken(w)  BY <3>2 DEF CountTaken
    <3>3. CASE CheckCancelled(w)  BY <3>3 DEF CheckCancelled
    <3>4. CASE SaveRunning(w)  BY <3>4, CopyParts DEF SaveRunning
    <3>5. CASE EmitStarted(w)  BY <3>5 DEF EmitStarted
    <3>6. CASE RunTool(w)  BY <3>6 DEF RunTool
    <3>7. CASE SaveResult(w)  BY <3>7, CopyParts DEF SaveResult
    <3>8. CASE EmitFinished(w)  BY <3>8 DEF EmitFinished
    <3>9. CASE Release(w)
      <4>1. None \notin Copy  BY DEF Copy
      <4> QED BY <3>9, <4>1 DEF Release
    <3>10. CASE ExitWorker(w)  BY <3>10 DEF ExitWorker
    <3> QED BY <2>3, <3>1, <3>2, <3>3, <3>4, <3>5, <3>6, <3>7, <3>8, <3>9, <3>10 DEF WorkerStep
  <2>4. CASE LoaderStep
    <3>1. CASE LoadScan  BY <3>1 DEF LoadScan, Pending
    <3>2. CASE LoadNext
      <4>1. ASSUME NEW j \in todo, Len(jobs) < QueueSize, jobs' = Append(jobs, <<j, "loaded">>)
            PROVE  jobs' \in Seq(Copy) /\ Len(jobs') <= QueueSize
        <5>1. <<j, "loaded">> \in Copy  BY DEF Copy
        <5> QED BY <4>1, <5>1, AppendElements
      <4>2. jobs' \in Seq(Copy) /\ Len(jobs') <= QueueSize
        BY <3>2, <4>1 DEF LoadNext
      <4> QED BY <3>2, <4>2 DEF LoadNext
    <3>3. CASE LoadCount  BY <3>3 DEF LoadCount
    <3> QED BY <2>4, <3>1, <3>2, <3>3 DEF LoaderStep
  <2>5. CASE Cleanup  BY <2>5 DEF Cleanup
  <2>6. ASSUME NEW c \in Client, ClientStep(c) PROVE TypeOK'
    <3> USE <2>6 DEF ClientGoto, ClientOnly
    <3>1. CASE CancelSave(c)  BY <3>1 DEF CancelSave
    <3>2. CASE CancelEmit(c)  BY <3>2 DEF CancelEmit
    <3>3. CASE Delete(c)  BY <3>3 DEF Delete
    <3> QED BY <3>1, <3>2, <3>3 DEF ClientStep
  <2>7. ASSUME NEW c \in Client, NEW j \in Job, ClientCall(c, j) PROVE TypeOK'
    BY <2>7 DEF ClientCall, CancelGet, GetJob, DeleteJob, ClientGoto, ClientOnly
  <2>8. CASE Stop  BY <2>8 DEF Stop
  <2>9. CASE Restart
    <3>1. None \notin Copy  BY DEF Copy
    <3> QED BY <2>9, <3>1 DEF Restart
  <2>10. CASE UNCHANGED vars  BY <2>10
  <2> QED BY <2>1, <2>2, <2>3, <2>4, <2>5, <2>6, <2>7, <2>8, <2>9, <2>10 DEF Next
<1> QED BY <1>1, <1>2, PTL DEF Spec

-----------------------------------------------------------------------------
(***************************************************************************)
(* One holder per in-memory Job object. It is inductive together with      *)
(* EnqueuedOnce: an enqueue never meets a copy that is already under way.  *)
(***************************************************************************)
CopyInv == OneHolderPerCopy /\ EnqueuedOnce

(* An enqueue of a copy that is not in flight keeps one holder per copy. *)
LEMMA EnqueueFresh ==
  ASSUME TypeOK, OneHolderPerCopy, NEW copy \in Copy, ~InFlight(copy),
         jobs' = Append(jobs, copy), UNCHANGED wcopy
  PROVE  /\ OneHolderPerCopy'
         /\ \A c \in Copy : InFlight(c)' <=> InFlight(c) \/ c = copy
<1>1. /\ DOMAIN jobs' = DOMAIN jobs \union {Len(jobs) + 1}
      /\ \A i \in DOMAIN jobs : jobs'[i] = jobs[i]
      /\ jobs'[Len(jobs) + 1] = copy
  BY AppendElements DEF TypeOK
<1>2. OneHolderPerCopy'
  BY <1>1 DEF OneHolderPerCopy, InFlight
<1>3. \A c \in Copy : InFlight(c)' <=> InFlight(c) \/ c = copy
  BY <1>1 DEF InFlight
<1> QED BY <1>2, <1>3

(* A worker that takes the head of the channel becomes its only holder. *)
LEMMA TakeMoves ==
  ASSUME TypeOK, OneHolderPerCopy, NEW w \in Worker, Take(w)
  PROVE  /\ OneHolderPerCopy'
         /\ \A c \in Copy : InFlight(c)' => InFlight(c)
<1>1. /\ Head(jobs) \in Copy /\ Head(jobs) = jobs[1] /\ 1 \in DOMAIN jobs
      /\ DOMAIN jobs = 1..Len(jobs) /\ DOMAIN Tail(jobs) = 1..(Len(jobs) - 1)
      /\ Len(jobs) \in Nat \ {0}
      /\ \A i \in DOMAIN Tail(jobs) : i + 1 \in DOMAIN jobs /\ Tail(jobs)[i] = jobs[i + 1]
  BY TailElements DEF TypeOK, Take
<1>2. wcopy' = [wcopy EXCEPT ![w] = Head(jobs)] /\ jobs' = Tail(jobs)
  BY DEF Take
<1>3. wcopy \in [Worker -> Copy \union {None}]
  BY DEF TypeOK
<1>4. \A i, k \in DOMAIN jobs' : jobs'[i] = jobs'[k] => i = k
  <2> SUFFICES ASSUME NEW i \in DOMAIN jobs', NEW k \in DOMAIN jobs', jobs'[i] = jobs'[k]
               PROVE  i = k
    OBVIOUS
  <2>1. jobs[i + 1] = jobs[k + 1] /\ i + 1 \in DOMAIN jobs /\ k + 1 \in DOMAIN jobs
    BY <1>1, <1>2
  <2>2. i + 1 = k + 1
    BY <2>1 DEF OneHolderPerCopy
  <2> QED BY <1>1, <1>2, <2>2
<1>5. \A v \in Worker, i \in DOMAIN jobs' : wcopy'[v] # jobs'[i]
  <2> SUFFICES ASSUME NEW v \in Worker, NEW i \in DOMAIN jobs'
               PROVE  wcopy'[v] # jobs'[i]
    OBVIOUS
  <2>1. i + 1 \in DOMAIN jobs /\ jobs'[i] = jobs[i + 1] /\ i + 1 # 1
    BY <1>1, <1>2
  <2>2. CASE v = w  BY <1>1, <1>2, <1>3, <2>1, <2>2 DEF OneHolderPerCopy
  <2>3. CASE v # w  BY <1>2, <1>3, <2>1, <2>3 DEF OneHolderPerCopy
  <2> QED BY <2>2, <2>3
<1>6. \A u, v \in Worker : wcopy'[u] = wcopy'[v] /\ wcopy'[u] # None => u = v
  BY <1>1, <1>2, <1>3 DEF OneHolderPerCopy
<1>7. OneHolderPerCopy'
  BY <1>4, <1>5, <1>6 DEF OneHolderPerCopy
<1>8. \A c \in Copy : InFlight(c)' => InFlight(c)
  BY <1>1, <1>2, <1>3 DEF InFlight
<1> QED BY <1>7, <1>8

(* Steps that enqueue and take nothing keep the invariant. *)
NotEnqueued == {"new", "save", "enqueue", "deferred"}

LEMMA CopiesUntouched ==
  ASSUME CopyInv, UNCHANGED <<jobs, wcopy, lpc, todo>>,
         \A j \in Job : submit'[j] \in NotEnqueued => submit[j] \in NotEnqueued
  PROVE  CopyInv'
<1>1. \A c : InFlight(c)' <=> InFlight(c)
  BY DEF InFlight
<1>2. OneHolderPerCopy'
  BY DEF CopyInv, OneHolderPerCopy
<1>3. EnqueuedOnce'
  BY <1>1 DEF CopyInv, EnqueuedOnce, NotEnqueued
<1> QED BY <1>2, <1>3 DEF CopyInv

(***************************************************************************)
(* One Job object is never shared by two workers, nor by a worker and the  *)
(* queue. Submit, the loader, Take, Release and Restart are the steps that *)
(* matter.                                                                 *)
(***************************************************************************)
THEOREM OneHolder == Spec => [](OneHolderPerCopy /\ EnqueuedOnce)
<1>1. Init => CopyInv
  BY NoneAssumption DEF Init, CopyInv, OneHolderPerCopy, EnqueuedOnce, InFlight, Copy
<1>2. ASSUME TypeOK, CopyInv, [Next]_vars PROVE CopyInv'
  <2> USE <1>2
  <2>1. ASSUME NEW j \in Job, SubmitCheck(j) PROVE CopyInv'
    BY <2>1, CopiesUntouched DEF SubmitCheck, NotEnqueued, TypeOK
  <2>2. ASSUME NEW j \in Job, SubmitStep(j) PROVE CopyInv'
    <3>1. CASE SubmitSave(j)
      BY <3>1, CopiesUntouched DEF SubmitSave, NotEnqueued, TypeOK
    <3>2. CASE SubmitEnqueue(j) /\ jobs' # jobs
      <4> DEFINE copy == <<j, "submitted">>
      <4>1. copy \in Copy /\ ~InFlight(copy) /\ OneHolderPerCopy
        BY <3>2 DEF Copy, CopyInv, EnqueuedOnce, SubmitEnqueue
      <4>2. /\ jobs' = Append(jobs, copy) /\ UNCHANGED <<wcopy, lpc, todo>>
            /\ submit' = [submit EXCEPT ![j] = "count"]
        BY <3>2 DEF SubmitEnqueue
      <4> HIDE DEF copy
      <4>3. /\ OneHolderPerCopy'
            /\ \A c \in Copy : InFlight(c)' <=> InFlight(c) \/ c = copy
        BY <4>1, <4>2, EnqueueFresh
      <4>4. EnqueuedOnce'
        BY <4>2, <4>3 DEF CopyInv, EnqueuedOnce, Copy, copy, TypeOK
      <4> QED BY <4>3, <4>4 DEF CopyInv
    <3>3. CASE SubmitEnqueue(j) /\ jobs' = jobs
      BY <3>3, CopiesUntouched DEF SubmitEnqueue, NotEnqueued, TypeOK
    <3>4. CASE SubmitCount(j)
      BY <3>4, CopiesUntouched DEF SubmitCount, NotEnqueued, TypeOK
    <3>5. CASE SubmitEmit(j)
      BY <3>5, CopiesUntouched DEF SubmitEmit, NotEnqueued, TypeOK
    <3> QED BY <2>2, <3>1, <3>2, <3>3, <3>4, <3>5 DEF SubmitStep
  <2>3. ASSUME NEW w \in Worker, WorkerStep(w) PROVE CopyInv'
    <3>1. CASE Take(w)
      <4>1. /\ OneHolderPerCopy'
            /\ \A c \in Copy : InFlight(c)' => InFlight(c)
        BY <3>1, TakeMoves DEF CopyInv
      <4>2. EnqueuedOnce'
        BY <3>1, <4>1 DEF CopyInv, EnqueuedOnce, Copy, Take
      <4> QED BY <4>1, <4>2 DEF CopyInv
    <3>2. CASE Release(w)
      <4>1. wcopy' = [wcopy EXCEPT ![w] = None] /\ UNCHANGED <<jobs, submit, lpc, todo>>
        BY <3>2 DEF Release
      <4>2. wcopy \in [Worker -> Copy \union {None}] /\ None \notin Copy
        BY NoneAssumption DEF TypeOK, Copy
      <4>3. \A c \in Copy : InFlight(c)' => InFlight(c)
        BY <4>1, <4>2 DEF InFlight
      <4>4. \A i \in DOMAIN jobs : jobs[i] \in Copy
        BY ElementOfSeq DEF TypeOK
      <4>5. OneHolderPerCopy'
        BY <4>1, <4>2, <4>4 DEF CopyInv, OneHolderPerCopy
      <4>6. EnqueuedOnce'
        BY <4>1, <4>3 DEF CopyInv, EnqueuedOnce, Copy
      <4> QED BY <4>5, <4>6 DEF CopyInv
    <3>3. CASE UNCHANGED <<jobs, wcopy, lpc, todo, submit>>
      BY <3>3, CopiesUntouched
    <3> QED
      BY <2>3, <3>1, <3>2, <3>3 DEF WorkerStep, CountTaken, CheckCancelled, SaveRunning,
         EmitStarted, RunTool, SaveResult, EmitFinished, ExitWorker
  <2>4. CASE LoaderStep
    <3>1. CASE LoadScan
      BY <3>1 DEF LoadScan, CopyInv, OneHolderPerCopy, EnqueuedOnce, InFlight, Pending
    <3>2. CASE LoadNext /\ jobs' # jobs
      <4>1. PICK j \in todo : /\ jobs' = Append(jobs, <<j, "loaded">>)
                              /\ todo' = todo \ {j} /\ lpc' = "count"
        BY <3>2 DEF LoadNext
      <4> DEFINE copy == <<j, "loaded">>
      <4>2. j \in Job /\ copy \in Copy /\ ~InFlight(copy) /\ OneHolderPerCopy
        BY DEF Copy, CopyInv, EnqueuedOnce, TypeOK
      <4>3. UNCHANGED <<wcopy, submit>>
        BY <3>2 DEF LoadNext
      <4>4. jobs' = Append(jobs, copy)
        BY <4>1
      <4> HIDE DEF copy
      <4>5. /\ OneHolderPerCopy'
            /\ \A c \in Copy : InFlight(c)' <=> InFlight(c) \/ c = copy
        BY <4>2, <4>3, <4>4, EnqueueFresh
      <4>6. EnqueuedOnce'
        BY <4>1, <4>3, <4>5 DEF CopyInv, EnqueuedOnce, Copy, copy
      <4> QED BY <4>5, <4>6 DEF CopyInv
    <3>3. CASE LoadNext /\ jobs' = jobs
      <4>1. UNCHANGED <<jobs, wcopy, submit>> /\ lpc' # "scan" /\ todo' = {}
        <5>1. ASSUME NEW j \in todo, jobs' = Append(jobs, <<j, "loaded">>) PROVE FALSE
          <6>1. <<j, "loaded">> \in Copy  BY DEF TypeOK, Copy
          <6> QED BY <3>3, <5>1, <6>1, AppendElements DEF TypeOK
        <5> QED BY <3>3, <5>1 DEF LoadNext
      <4>2. \A c : InFlight(c)' <=> InFlight(c)
        BY <4>1 DEF InFlight
      <4> QED BY <4>1, <4>2 DEF CopyInv, OneHolderPerCopy, EnqueuedOnce
    <3>4. CASE LoadCount
      <4>1. UNCHANGED <<jobs, wcopy, submit, todo>> /\ lpc' = "load"
        BY <3>4 DEF LoadCount
      <4>2. \A c : InFlight(c)' <=> InFlight(c)
        BY <4>1 DEF InFlight
      <4> QED BY <4>1, <4>2 DEF CopyInv, OneHolderPerCopy, EnqueuedOnce
    <3> QED BY <2>4, <3>1, <3>2, <3>3, <3>4 DEF LoaderStep
  <2>5. CASE Cleanup
    BY <2>5, CopiesUntouched DEF Cleanup
  <2>6. ASSUME NEW c \in Client, ClientStep(c) PROVE CopyInv'
    BY <2>6, CopiesUntouched DEF ClientStep, CancelSave, CancelEmit, Delete, ClientOnly
  <2>7. ASSUME NEW c \in Client, NEW j \in Job, ClientCall(c, j) PROVE CopyInv'
    BY <2>7, CopiesUntouched DEF ClientCall, CancelGet, GetJob, DeleteJob, ClientOnly
  <2>8. CASE Stop
    BY <2>8, CopiesUntouched DEF Stop
  <2>9. CASE Restart
    BY <2>9, NoneAssumption DEF Restart, CopyInv, OneHolderPerCopy, EnqueuedOnce, InFlight, Copy
  <2>10. CASE UNCHANGED vars
    BY <2>10, CopiesUntouched
  <2> QED BY <2>1, <2>2, <2>3, <2>4, <2>5, <2>6, <2>7, <2>8, <2>9, <2>10 DEF Next
<1> QED BY <1>1, <1>2, Typing, PTL DEF Spec, CopyInv

(* EnqueuedOnce, for any of them: what Submit or the loader may still enqueue is not in flight. *)
THEOREM EnqueuedOneTime == Spec => []EnqueuedOnce
BY OneHolder, PTL

-----------------------------------------------------------------------------
(***************************************************************************)
(* A goroutine saves the status it set. A worker changes the status of its *)
(* own copy only, and by CopyInv no other worker has that copy and no      *)
(* Submit is still to save it.                                             *)
(***************************************************************************)
THEOREM CopyStatusHolds == Spec => []CopyStatus
<1>1. Init => CopyStatus
  BY DEF Init, CopyStatus, Copy
<1>2. ASSUME TypeOK, CopyInv, CopyStatus, [Next]_vars PROVE CopyStatus'
  <2> USE <1>2
  <2>1. ASSUME UNCHANGED <<mem, wpc, wcopy>>,
               \A j \in Job : submit'[j] \in {"new", "save"} => submit[j] \in {"new", "save"}
        PROVE CopyStatus'
    BY <2>1 DEF CopyStatus
  <2>2. ASSUME NEW j \in Job, SubmitCheck(j) \/ SubmitStep(j) PROVE CopyStatus'
    BY <2>1, <2>2 DEF SubmitCheck, SubmitStep, SubmitSave, SubmitEnqueue, SubmitCount, SubmitEmit, TypeOK
  <2>3. ASSUME NEW w \in Worker, WorkerStep(w) PROVE CopyStatus'
    <3> DEFINE copy == wcopy[w]
    <3>1. ASSUME NEW s \in Status, mem' = [mem EXCEPT ![copy] = s],
                 wpc[w] \notin {"idle", "exited"}, UNCHANGED <<wcopy, submit>>,
                 \A v \in Worker : v # w => wpc'[v] = wpc[v],
                 \/ wpc'[w] = "start" /\ s = "running"
                 \/ wpc'[w] = "finish" /\ s \in {"completed", "failed"}
          PROVE CopyStatus'
      <4>1. copy \in Copy  BY <3>1 DEF TypeOK
      <4>2. \A v \in Worker : v # w /\ wcopy[v] \in Copy => wcopy[v] # copy
        BY <4>1, NoneAssumption DEF CopyInv, OneHolderPerCopy, Copy
      <4>3. \A j \in Job : submit[j] \in {"new", "save"} => <<j, "submitted">> # copy
        BY DEF CopyInv, EnqueuedOnce, InFlight
      <4>4. \A v \in Worker : v # w => /\ wpc'[v] = wpc[v]
                                       /\ wcopy[v] \in Copy => mem'[wcopy[v]] = mem[wcopy[v]]
        BY <3>1, <4>1, <4>2 DEF TypeOK
      <4>5. \A j \in Job : submit[j] \in {"new", "save"} =>
                             mem'[<<j, "submitted">>] = mem[<<j, "submitted">>]
        BY <3>1, <4>1, <4>3 DEF TypeOK, Copy
      <4>6. mem'[copy] = s
        BY <3>1, <4>1 DEF TypeOK
      <4> QED BY <3>1, <4>4, <4>5, <4>6 DEF CopyStatus, TypeOK
    <3>2. ASSUME UNCHANGED <<mem, submit>>,
                 \A v \in Worker : v # w => wcopy'[v] = wcopy[v] /\ wpc'[v] = wpc[v],
                 wpc'[w] \in {"idle", "taken", "check", "release", "exited"}
          PROVE CopyStatus'
      BY <3>2 DEF CopyStatus, TypeOK
    <3>3. ASSUME UNCHANGED <<mem, submit, wcopy>>,
                 \A v \in Worker : v # w => wpc'[v] = wpc[v],
                 \/ wpc[w] = "start" /\ wpc'[w] = "started"
                 \/ wpc[w] = "started" /\ wpc'[w] = "run"
                 \/ wpc[w] = "finish" /\ wpc'[w] = "finished"
          PROVE CopyStatus'
      BY <3>3 DEF CopyStatus, TypeOK
    <3> USE DEF Goto, TypeOK
    <3>4. CASE Take(w)  BY <3>2, <3>4 DEF Take
    <3>5. CASE CountTaken(w)  BY <3>2, <3>5 DEF CountTaken
    <3>6. CASE CheckCancelled(w)
      <4>1. CASE wpc'[w] = "start"  BY <3>1, <3>6, <4>1 DEF CheckCancelled, Status
      <4>2. CASE wpc'[w] # "start"  BY <3>2, <3>6, <4>2 DEF CheckCancelled
      <4> QED BY <4>1, <4>2
    <3>7. CASE SaveRunning(w)
      <4>1. CASE wpc'[w] = "started"  BY <3>3, <3>7, <4>1 DEF SaveRunning
      <4>2. CASE wpc'[w] # "started"  BY <3>2, <3>7, <4>2 DEF SaveRunning
      <4> QED BY <4>1, <4>2
    <3>8. CASE EmitStarted(w)  BY <3>3, <3>8 DEF EmitStarted
    <3>9. CASE RunTool(w)  BY <3>1, <3>9 DEF RunTool, Status, Terminal
    <3>10. CASE SaveResult(w)
      <4>1. CASE wpc'[w] = "finished"  BY <3>3, <3>10, <4>1 DEF SaveResult
      <4>2. CASE wpc'[w] # "finished"  BY <3>2, <3>10, <4>2 DEF SaveResult
      <4> QED BY <4>1, <4>2
    <3>11. CASE EmitFinished(w)  BY <3>2, <3>11 DEF EmitFinished
    <3>12. CASE Release(w)  BY <3>2, <3>12 DEF Release
    <3>13. CASE ExitWorker(w)  BY <3>2, <3>13 DEF ExitWorker
    <3> QED BY <2>3, <3>4, <3>5, <3>6, <3>7, <3>8, <3>9, <3>10, <3>11, <3>12, <3>13 DEF WorkerStep
  <2>4. CASE LoaderStep
    BY <2>1, <2>4 DEF LoaderStep, LoadScan, LoadNext, LoadCount
  <2>5. CASE Cleanup
    BY <2>1, <2>5 DEF Cleanup
  <2>6. ASSUME NEW c \in Client, ClientStep(c) PROVE CopyStatus'
    BY <2>1, <2>6 DEF ClientStep, CancelSave, CancelEmit, Delete, ClientOnly
  <2>7. ASSUME NEW c \in Client, NEW j \in Job, ClientCall(c, j) PROVE CopyStatus'
    BY <2>1, <2>7 DEF ClientCall, CancelGet, GetJob, DeleteJob, ClientOnly
  <2>8. CASE Stop
    BY <2>1, <2>8 DEF Stop
  <2>9. CASE Restart
    BY <2>9 DEF Restart, CopyStatus, Copy
  <2>10. CASE UNCHANGED vars
    BY <2>1, <2>10
  <2> QED BY <2>2, <2>3, <2>4, <2>5, <2>6, <2>7, <2>8, <2>9, <2>10 DEF Next
<1> QED BY <1>1, <1>2, Typing, OneHolder, PTL DEF Spec, CopyInv

-----------------------------------------------------------------------------
(***************************************************************************)
(* While no write fails and the process lives, every record that says      *)
(* "running" belongs to a worker that will still save a result: only       *)
(* SaveRunning writes "running", and a worker leaves the three points of   *)
(* the invariant only by SaveResult, which overwrites the record.          *)
(***************************************************************************)
THEOREM RunningOwned == Spec => []RunningIsOwned
<1>1. Init => RunningIsOwned
  BY DEF Init, RunningIsOwned
<1>2. ASSUME TypeOK, CopyStatus, RunningIsOwned, [Next]_vars PROVE RunningIsOwned'
  <2> SUFFICES ASSUME ~Restarts, ~SavesFail, NEW k \in Job, store'[k] = "running"
               PROVE  \E w \in Worker : At(w, k, {"started", "run", "finish"})'
    BY DEF RunningIsOwned
  <2> DEFINE Busy == {"started", "run", "finish"}
  <2> USE <1>2 DEF Save
  <2>1. ASSUME store[k] = "running", UNCHANGED <<wpc, wcopy>>
        PROVE  \E w \in Worker : At(w, k, Busy)'
    BY <2>1 DEF RunningIsOwned, At
  <2>2. ASSUME NEW j \in Job, SubmitCheck(j) \/ SubmitStep(j)
        PROVE  store[k] = "running" /\ UNCHANGED <<wpc, wcopy>>
    BY <2>2 DEF SubmitCheck, SubmitStep, SubmitSave, SubmitEnqueue, SubmitCount, SubmitEmit,
                CopyStatus, TypeOK
  <2>3. ASSUME NEW w \in Worker, WorkerStep(w)
        PROVE  \E v \in Worker : At(v, k, Busy)'
    <3> USE DEF Goto, TypeOK
    <3>1. ASSUME store[k] = "running", wpc[w] \notin Busy,
                 \A v \in Worker : v # w => wpc'[v] = wpc[v] /\ wcopy'[v] = wcopy[v]
          PROVE  \E v \in Worker : At(v, k, Busy)'
      <4>1. PICK v \in Worker : At(v, k, Busy)  BY <3>1 DEF RunningIsOwned
      <4>2. v # w /\ At(v, k, Busy)'  BY <3>1, <4>1 DEF At
      <4> QED BY <4>2
    <3>2. CASE Take(w)  BY <3>1, <3>2 DEF Take
    <3>3. CASE CountTaken(w)  BY <3>1, <3>3 DEF CountTaken
    <3>4. CASE CheckCancelled(w)  BY <3>1, <3>4 DEF CheckCancelled
    <3>5. CASE SaveRunning(w)
      <4>1. CASE JobOf(wcopy[w]) = k
        <5>1. At(w, k, Busy)'  BY <3>5, <4>1 DEF SaveRunning, At
        <5> QED BY <5>1
      <4>2. CASE JobOf(wcopy[w]) # k  BY <3>1, <3>5, <4>2 DEF SaveRunning
      <4> QED BY <4>1, <4>2
    <3>6. CASE EmitStarted(w) \/ RunTool(w)
      <4>1. store[k] = "running"  BY <3>6 DEF EmitStarted, RunTool
      <4>2. PICK v \in Worker : At(v, k, Busy)  BY <4>1 DEF RunningIsOwned
      <4>3. At(v, k, Busy)'  BY <3>6, <4>2 DEF EmitStarted, RunTool, At
      <4> QED BY <4>3
    <3>7. CASE SaveResult(w)
      <4>1. /\ store' = [store EXCEPT ![JobOf(wcopy[w])] = mem[wcopy[w]]]
            /\ mem[wcopy[w]] # "running" /\ UNCHANGED wcopy
            /\ wpc' = [wpc EXCEPT ![w] = "finished"]
        BY <3>7 DEF SaveResult, CopyStatus
      <4>2. JobOf(wcopy[w]) # k /\ store[k] = "running"  BY <4>1
      <4>3. PICK v \in Worker : At(v, k, Busy)  BY <4>2 DEF RunningIsOwned
      <4>4. v # w /\ At(v, k, Busy)'  BY <4>1, <4>2, <4>3 DEF At
      <4> QED BY <4>4
    <3>8. CASE EmitFinished(w)  BY <3>1, <3>8 DEF EmitFinished
    <3>9. CASE Release(w)  BY <3>1, <3>9 DEF Release
    <3>10. CASE ExitWorker(w)  BY <3>1, <3>10 DEF ExitWorker
    <3> QED BY <2>3, <3>2, <3>3, <3>4, <3>5, <3>6, <3>7, <3>8, <3>9, <3>10 DEF WorkerStep
  <2>4. CASE LoaderStep
    BY <2>1, <2>4 DEF LoaderStep, LoadScan, LoadNext, LoadCount
  <2>5. CASE Cleanup
    BY <2>1, <2>5 DEF Cleanup
  <2>6. ASSUME NEW c \in Client, ClientStep(c)
        PROVE  store[k] = "running" /\ UNCHANGED <<wpc, wcopy>>
    BY <2>6 DEF ClientStep, CancelSave, CancelEmit, Delete, ClientOnly, TypeOK
  <2>7. ASSUME NEW c \in Client, NEW j \in Job, ClientCall(c, j)
        PROVE  store[k] = "running" /\ UNCHANGED <<wpc, wcopy>>
    BY <2>7 DEF ClientCall, CancelGet, GetJob, DeleteJob, ClientOnly
  <2>8. CASE Stop
    BY <2>1, <2>8 DEF Stop
  <2>9. CASE Restart
    BY <2>9 DEF Restart
  <2>10. CASE UNCHANGED vars
    BY <2>1, <2>10
  <2> QED BY <2>1, <2>2, <2>3, <2>4, <2>5, <2>6, <2>7, <2>8, <2>9, <2>10 DEF Next
<1> QED BY <1>1, <1>2, Typing, CopyStatusHolds, PTL DEF Spec

-----------------------------------------------------------------------------
(***************************************************************************)
(* A job cancelled or deleted while nobody is past its check stays so and  *)
(* never runs. Such a record is written by cancels and deletions only, and *)
(* CheckCancelled turns away every worker that reaches it.                 *)
(***************************************************************************)
THEOREM SettledForGood == Spec => SettledStays
<1> DEFINE PastCheck == {"start", "started", "run", "finish"}
<1>1. ASSUME TypeOK, Next, NEW k \in Job, Settled(k) PROVE Settled(k)'
  <2> USE <1>1 DEF Save
  <2>1. ASSUME store'[k] \in {"absent", "cancelled"}, UNCHANGED <<submit, wpc, wcopy>>
        PROVE  Settled(k)'
    BY <2>1 DEF Settled, At
  <2>2. ASSUME NEW j \in Job, SubmitCheck(j) \/ SubmitStep(j) PROVE Settled(k)'
    <3>1. UNCHANGED <<wpc, wcopy>>
      BY <2>2 DEF SubmitCheck, SubmitStep, SubmitSave, SubmitEnqueue, SubmitCount, SubmitEmit
    <3>2. store'[k] = store[k] /\ submit'[k] \notin {"new", "save"}
      BY <2>2 DEF SubmitCheck, SubmitStep, SubmitSave, SubmitEnqueue, SubmitCount, SubmitEmit,
                  Settled, TypeOK
    <3> QED BY <3>1, <3>2 DEF Settled, At
  <2>3. ASSUME NEW w \in Worker, WorkerStep(w) PROVE Settled(k)'
    <3> USE DEF Goto, TypeOK
    <3>1. ASSUME store'[k] = store[k], UNCHANGED submit,
                 \A v \in Worker : v # w => wpc'[v] = wpc[v] /\ wcopy'[v] = wcopy[v],
                 ~At(w, k, PastCheck)'
          PROVE  Settled(k)'
      BY <3>1 DEF Settled, At
    <3>2. CASE Take(w)  BY <3>1, <3>2 DEF Take, At
    <3>3. CASE CountTaken(w)  BY <3>1, <3>3 DEF CountTaken, At
    <3>4. CASE CheckCancelled(w)
      <4>1. ~At(w, k, PastCheck)'  BY <3>4 DEF CheckCancelled, Settled, At
      <4> QED BY <3>1, <3>4, <4>1 DEF CheckCancelled
    <3>5. ASSUME wpc[w] \in PastCheck, UNCHANGED <<submit, wcopy>>,
                 \A j \in Job : j # JobOf(wcopy[w]) => store'[j] = store[j],
                 \A v \in Worker : v # w => wpc'[v] = wpc[v]
          PROVE  Settled(k)'
      <4>1. JobOf(wcopy[w]) # k  BY <3>5 DEF Settled, At
      <4> QED BY <3>5, <4>1 DEF Settled, At
    <3>6. CASE SaveRunning(w)  BY <3>5, <3>6 DEF SaveRunning
    <3>7. CASE EmitStarted(w)  BY <3>5, <3>7 DEF EmitStarted
    <3>8. CASE RunTool(w)  BY <3>5, <3>8 DEF RunTool
    <3>9. CASE SaveResult(w)  BY <3>5, <3>9 DEF SaveResult
    <3>10. CASE EmitFinished(w)  BY <3>1, <3>10 DEF EmitFinished, At
    <3>11. CASE Release(w)  BY <3>1, <3>11 DEF Release, At
    <3>12. CASE ExitWorker(w)  BY <3>1, <3>12 DEF ExitWorker, At
    <3> QED BY <2>3, <3>2, <3>3, <3>4, <3>6, <3>7, <3>8, <3>9, <3>10, <3>11, <3>12 DEF WorkerStep
  <2>4. CASE LoaderStep
    BY <2>1, <2>4 DEF LoaderStep, LoadScan, LoadNext, LoadCount, Settled
  <2>5. CASE Cleanup
    BY <2>1, <2>5 DEF Cleanup, Settled
  <2>6. ASSUME NEW c \in Client, ClientStep(c) PROVE Settled(k)'
    BY <2>1, <2>6 DEF ClientStep, CancelSave, CancelEmit, Delete, ClientOnly, Settled, TypeOK
  <2>7. ASSUME NEW c \in Client, NEW j \in Job, ClientCall(c, j) PROVE Settled(k)'
    BY <2>1, <2>7 DEF ClientCall, CancelGet, GetJob, DeleteJob, ClientOnly, Settled
  <2>8. CASE Stop
    BY <2>1, <2>8 DEF Stop, Settled
  <2>9. CASE Restart
    BY <2>9 DEF Restart, Settled, At
  <2> QED BY <2>2, <2>3, <2>4, <2>5, <2>6, <2>7, <2>8, <2>9 DEF Next
<1>2. TypeOK /\ [Next]_vars => [SettledKept]_vars
  BY <1>1 DEF SettledKept
<1> QED BY <1>2, Typing, PTL DEF Spec, SettledStays

-----------------------------------------------------------------------------
(***************************************************************************)
(* While no write fails, a pending record is always carried. A carrier     *)
(* lets go of a job only by handing it to the next one (Submit or loader   *)
(* to channel, channel to worker), by recording in submit or missed that   *)
(* it left it in storage, or by overwriting "pending".                     *)
(***************************************************************************)
THEOREM PendingCarried == Spec => []PendingIsCarried
<1> DEFINE Waiting == {"taken", "check", "start"}
<1>1. Init => PendingIsCarried
  BY DEF Init, PendingIsCarried, Pending
<1>2. ASSUME TypeOK, CopyStatus, PendingIsCarried, [Next]_vars PROVE PendingIsCarried'
  <2> SUFFICES ASSUME ~SavesFail, NEW k \in Job, store'[k] = "pending" PROVE Carried(k)'
    BY DEF PendingIsCarried, Pending
  <2> USE <1>2 DEF Save
  <2>1. store[k] = "pending" => Carried(k)
    BY DEF PendingIsCarried, Pending
  <2>2. ASSUME store[k] = "pending", UNCHANGED <<submit, jobs, lpc, todo, missed, wpc, wcopy>>
        PROVE  Carried(k)'
    BY <2>1, <2>2 DEF Carried, Queued, At
  <2>3. ASSUME NEW j \in Job, SubmitCheck(j) \/ SubmitStep(j) PROVE Carried(k)'
    <3>1. CASE SubmitSave(j)
      <4>1. CASE j = k  BY <3>1, <4>1 DEF SubmitSave, Carried, TypeOK
      <4>2. CASE j # k  BY <2>1, <3>1, <4>2 DEF SubmitSave, Carried, Queued, At, TypeOK
      <4> QED BY <4>1, <4>2
    <3>2. CASE SubmitEnqueue(j) /\ jobs' = Append(jobs, <<j, "submitted">>)
      <4>1. <<j, "submitted">> \in Copy /\ JobOf(<<j, "submitted">>) = j  BY DEF Copy, JobOf
      <4>2. /\ DOMAIN jobs' = DOMAIN jobs \union {Len(jobs) + 1}
            /\ \A i \in DOMAIN jobs : jobs'[i] = jobs[i]
            /\ jobs'[Len(jobs) + 1] = <<j, "submitted">>
        BY <3>2, <4>1, AppendElements DEF TypeOK
      <4>3. Queued(j)' /\ (Queued(k) => Queued(k)')
        BY <4>1, <4>2 DEF Queued
      <4> QED BY <2>1, <3>2, <4>3 DEF SubmitEnqueue, Carried, At, TypeOK
    <3>3. CASE SubmitEnqueue(j) /\ jobs' = jobs
      BY <2>1, <3>3 DEF SubmitEnqueue, Carried, Queued, At, TypeOK
    <3>4. CASE SubmitCheck(j) \/ SubmitCount(j) \/ SubmitEmit(j)
      BY <2>1, <3>4 DEF SubmitCheck, SubmitCount, SubmitEmit, Carried, Queued, At, TypeOK
    <3> QED BY <2>3, <3>1, <3>2, <3>3, <3>4 DEF SubmitStep, SubmitEnqueue
  <2>4. ASSUME NEW w \in Worker, WorkerStep(w) PROVE Carried(k)'
    <3> USE DEF Goto, TypeOK
    <3>1. ASSUME store[k] = "pending", UNCHANGED <<submit, jobs, lpc, todo, missed>>,
                 \A v \in Worker : v # w => wpc'[v] = wpc[v] /\ wcopy'[v] = wcopy[v],
                 At(w, k, Waiting) => At(w, k, Waiting)'
          PROVE  Carried(k)'
      BY <2>1, <3>1 DEF Carried, Queued, At
    <3>2. CASE Take(w)
      <4>1. /\ Head(jobs) \in Copy /\ Head(jobs) = jobs[1]
            /\ DOMAIN jobs = 1..Len(jobs) /\ DOMAIN Tail(jobs) = 1..(Len(jobs) - 1)
            /\ \A i \in DOMAIN Tail(jobs) : i + 1 \in DOMAIN jobs /\ Tail(jobs)[i] = jobs[i + 1]
            /\ Len(jobs) \in Nat \ {0}
        BY <3>2, TailElements DEF Take
      <4>2. ASSUME NEW i \in DOMAIN jobs, JobOf(jobs[i]) = k PROVE Carried(k)'
        <5>1. CASE i = 1
          <6>1. At(w, k, Waiting)'  BY <3>2, <4>1, <4>2, <5>1 DEF Take, At
          <6> QED BY <6>1 DEF Carried
        <5>2. CASE i # 1
          <6>1. i - 1 \in DOMAIN jobs' /\ jobs'[i - 1] = jobs[i]
            BY <3>2, <4>1, <5>2 DEF Take
          <6> QED BY <4>2, <6>1 DEF Carried, Queued
        <5> QED BY <5>1, <5>2
      <4>3. ASSUME NEW v \in Worker, At(v, k, Waiting) PROVE Carried(k)'
        <5>1. At(v, k, Waiting)'  BY <3>2, <4>3 DEF Take, At
        <5> QED BY <5>1 DEF Carried
      <4> QED BY <2>1, <3>2, <4>2, <4>3 DEF Take, Carried, Queued
    <3>3. CASE CountTaken(w)  BY <3>1, <3>3 DEF CountTaken, At
    <3>4. CASE CheckCancelled(w)  BY <3>1, <3>4 DEF CheckCancelled, At
    <3>5. CASE SaveRunning(w)
      <4>1. JobOf(wcopy[w]) # k /\ store[k] = "pending"
        BY <3>5, CopyParts DEF SaveRunning, CopyStatus
      <4> QED BY <3>1, <3>5, <4>1 DEF SaveRunning, At
    <3>6. CASE EmitStarted(w)  BY <3>1, <3>6 DEF EmitStarted, At
    <3>7. CASE RunTool(w)  BY <3>1, <3>7 DEF RunTool, At
    <3>8. CASE SaveResult(w)
      <4>1. JobOf(wcopy[w]) # k /\ store[k] = "pending"
        BY <3>8, CopyParts DEF SaveResult, CopyStatus
      <4> QED BY <3>1, <3>8, <4>1 DEF SaveResult, At
    <3>9. CASE EmitFinished(w)  BY <3>1, <3>9 DEF EmitFinished, At
    <3>10. CASE Release(w)  BY <3>1, <3>10 DEF Release, At
    <3>11. CASE ExitWorker(w)  BY <3>1, <3>11 DEF ExitWorker, At
    <3> QED BY <2>4, <3>2, <3>3, <3>4, <3>5, <3>6, <3>7, <3>8, <3>9, <3>10, <3>11 DEF WorkerStep
  <2>5. CASE LoaderStep
    <3>1. CASE LoadScan
      BY <3>1 DEF LoadScan, Pending, Carried
    <3>2. CASE LoadNext /\ jobs' # jobs
      <4>1. PICK j \in todo : /\ jobs' = Append(jobs, <<j, "loaded">>)
                              /\ todo' = todo \ {j} /\ UNCHANGED missed
        BY <3>2 DEF LoadNext
      <4>2. <<j, "loaded">> \in Copy /\ JobOf(<<j, "loaded">>) = j  BY DEF Copy, JobOf, TypeOK
      <4>3. /\ DOMAIN jobs' = DOMAIN jobs \union {Len(jobs) + 1}
            /\ \A i \in DOMAIN jobs : jobs'[i] = jobs[i]
            /\ jobs'[Len(jobs) + 1] = <<j, "loaded">>
        BY <4>1, <4>2, AppendElements DEF TypeOK
      <4>4. Queued(j)' /\ (Queued(k) => Queued(k)')
        BY <4>2, <4>3 DEF Queued
      <4> QED BY <2>1, <3>2, <4>1, <4>4 DEF LoadNext, Carried, At
    <3>3. CASE LoadNext /\ jobs' = jobs
      <4>1. ASSUME NEW j \in todo, jobs' = Append(jobs, <<j, "loaded">>) PROVE FALSE
        <5>1. <<j, "loaded">> \in Copy  BY DEF TypeOK, Copy
        <5> QED BY <3>3, <4>1, <5>1, AppendElements DEF TypeOK
      <4> QED BY <2>1, <3>3, <4>1 DEF LoadNext, Carried, Queued, At
    <3>4. CASE LoadCount
      BY <2>1, <3>4 DEF LoadCount, Carried, Queued, At
    <3> QED BY <2>5, <3>1, <3>2, <3>3, <3>4 DEF LoaderStep
  <2>6. CASE Cleanup
    BY <2>2, <2>6 DEF Cleanup
  <2>7. ASSUME NEW c \in Client, ClientStep(c) PROVE Carried(k)'
    BY <2>2, <2>7 DEF ClientStep, CancelSave, CancelEmit, Delete, ClientOnly, TypeOK
  <2>8. ASSUME NEW c \in Client, NEW j \in Job, ClientCall(c, j) PROVE Carried(k)'
    BY <2>2, <2>8 DEF ClientCall, CancelGet, GetJob, DeleteJob, ClientOnly
  <2>9. CASE Stop
    BY <2>2, <2>9 DEF Stop
  <2>10. CASE Restart
    BY <2>10 DEF Restart, Carried
  <2>11. CASE UNCHANGED vars
    BY <2>2, <2>11
  <2> QED BY <2>3, <2>4, <2>5, <2>6, <2>7, <2>8, <2>9, <2>10, <2>11 DEF Next
<1> QED BY <1>1, <1>2, Typing, CopyStatusHolds, PTL DEF Spec

-----------------------------------------------------------------------------
(* The goroutines the counters are about. *)

Taken    == {w \in Worker : wpc[w] = "taken"}
Counting == {j \in Job : submit[j] = "count"}
AtWork   == {w \in Worker : wpc[w] \notin {"idle", "taken", "exited"}}

(***************************************************************************)
(* They are finitely many at any moment, because a step adds one at most:  *)
(* the jobs and the workers themselves need not be finite sets.            *)
(***************************************************************************)
CountInv ==
  /\ CountersExact
  /\ IsFiniteSet(Taken) /\ IsFiniteSet(Counting) /\ IsFiniteSet(AtWork)

(* How many elements a set has when one enters or leaves it. *)
LEMMA Enters ==
  ASSUME NEW S, IsFiniteSet(S), NEW x, x \notin S, NEW T, T = S \union {x}
  PROVE  IsFiniteSet(T) /\ Cardinality(T) = Cardinality(S) + 1 /\ Cardinality(S) \in Nat
BY FS_AddElement, FS_CardinalityType

LEMMA Leaves ==
  ASSUME NEW S, IsFiniteSet(S), NEW x, x \in S, NEW T, T = S \ {x}
  PROVE  IsFiniteSet(T) /\ Cardinality(T) = Cardinality(S) - 1 /\ Cardinality(S) \in Nat
BY FS_RemoveElement, FS_CardinalityType

LEMMA CountersAre ==
  CountersExact <=>
    /\ queueDepth = Len(jobs) + Cardinality(Taken) - Cardinality(Counting)
                    - (IF lpc = "count" THEN 1 ELSE 0)
    /\ activeWorkers = Cardinality(AtWork)
BY DEF CountersExact, Taken, Counting, AtWork

(* A step that moves nobody in or out of these sets. *)
LEMMA CountersKept ==
  ASSUME CountInv, UNCHANGED <<queueDepth, activeWorkers, jobs>>,
         Taken' = Taken, Counting' = Counting, AtWork' = AtWork,
         lpc' = "count" <=> lpc = "count"
  PROVE  CountInv'
<1>1. CountersExact'
  BY CountersAre DEF CountInv, CountersExact, Taken, Counting, AtWork
<1> QED BY <1>1 DEF CountInv

(***************************************************************************)
(* The counters of GetStats are exact up to the goroutines between a       *)
(* channel operation and its AddInt32, on every path through processJob    *)
(* and in every order of the senders, the loader and the workers.          *)
(***************************************************************************)
THEOREM Counters == Spec => []CountersExact
<1>1. Init => CountInv
  <2> SUFFICES ASSUME Init PROVE CountInv  OBVIOUS
  <2>1. Taken = {} /\ Counting = {} /\ AtWork = {}
    BY DEF Init, Taken, Counting, AtWork
  <2>2. Len(jobs) = 0 /\ lpc # "count" /\ queueDepth = 0 /\ activeWorkers = 0
    BY DEF Init
  <2> QED BY <2>1, <2>2, FS_EmptySet, CountersAre DEF CountInv
<1>2. ASSUME TypeOK, CountInv, [Next]_vars PROVE CountInv'
  <2> USE <1>2
  <2>1. /\ queueDepth = Len(jobs) + Cardinality(Taken) - Cardinality(Counting)
                        - (IF lpc = "count" THEN 1 ELSE 0)
        /\ activeWorkers = Cardinality(AtWork)
        /\ IsFiniteSet(Taken) /\ IsFiniteSet(Counting) /\ IsFiniteSet(AtWork)
        /\ Cardinality(Taken) \in Nat /\ Cardinality(Counting) \in Nat
        /\ Cardinality(AtWork) \in Nat /\ Len(jobs) \in Nat
    BY CountersAre, FS_CardinalityType DEF CountInv, TypeOK
  <2>2. ASSUME /\ queueDepth' = Len(jobs)' + Cardinality(Taken)' - Cardinality(Counting)'
                        - (IF lpc' = "count" THEN 1 ELSE 0)
               /\ activeWorkers' = Cardinality(AtWork)'
               /\ IsFiniteSet(Taken)' /\ IsFiniteSet(Counting)' /\ IsFiniteSet(AtWork)'
        PROVE  CountInv'
    BY <2>2 DEF CountInv, CountersExact, Taken, Counting, AtWork
  <2>3. UNCHANGED <<wpc, submit>> => UNCHANGED <<Taken, AtWork, Counting>>
    BY DEF Taken, AtWork, Counting
  <2>4. ASSUME UNCHANGED <<wpc, submit, lpc, jobs, queueDepth, activeWorkers>> PROVE CountInv'
    BY <2>3, <2>4, CountersKept
  <2>5. ASSUME NEW j \in Job, SubmitCheck(j) \/ SubmitStep(j) PROVE CountInv'
    <3> USE DEF TypeOK
    <3>1. UNCHANGED <<wpc, lpc, activeWorkers>> /\ Taken' = Taken /\ AtWork' = AtWork
      BY <2>5 DEF SubmitCheck, SubmitStep, SubmitSave, SubmitEnqueue, SubmitCount, SubmitEmit,
                  Taken, AtWork
    <3>2. CASE SubmitEnqueue(j) /\ jobs' = Append(jobs, <<j, "submitted">>)
      <4>1. Counting' = Counting \union {j} /\ j \notin Counting /\ queueDepth' = queueDepth
        <5>1. submit' = [submit EXCEPT ![j] = "count"] \/ submit' = [submit EXCEPT ![j] = "deferred"]
          BY <3>2 DEF SubmitEnqueue
        <5>2. Len(jobs') = Len(jobs) + 1
          BY <3>2, AppendElements DEF Copy
        <5>3. submit' = [submit EXCEPT ![j] = "count"]
          BY <3>2, <5>2, <2>1 DEF SubmitEnqueue
        <5> QED BY <3>2, <5>3 DEF SubmitEnqueue, Counting
      <4>2. Len(jobs') = Len(jobs) + 1
        BY <3>2, AppendElements DEF Copy
      <4>3. IsFiniteSet(Counting') /\ Cardinality(Counting') = Cardinality(Counting) + 1
        BY <2>1, <4>1, Enters
      <4> QED BY <2>1, <2>2, <3>1, <4>1, <4>2, <4>3
    <3>3. CASE SubmitCount(j)
      <4>1. /\ Counting' = Counting \ {j} /\ j \in Counting
            /\ queueDepth' = queueDepth + 1 /\ jobs' = jobs
        BY <3>3 DEF SubmitCount, Counting
      <4>2. IsFiniteSet(Counting') /\ Cardinality(Counting') = Cardinality(Counting) - 1
        BY <2>1, <4>1, Leaves
      <4> QED BY <2>1, <2>2, <3>1, <4>1, <4>2
    <3>4. CASE SubmitCheck(j) \/ SubmitSave(j) \/ SubmitEmit(j) \/ (SubmitEnqueue(j) /\ jobs' = jobs)
      <4>1. /\ jobs' = jobs /\ queueDepth' = queueDepth
            /\ \E pc \in SubmitPC \ {"count"} : submit' = [submit EXCEPT ![j] = pc] /\ submit[j] # "count"
        <5>1. CASE SubmitEnqueue(j) /\ jobs' = jobs
          <6>1. jobs # Append(jobs, <<j, "submitted">>)
            BY AppendElements DEF Copy
          <6> QED BY <5>1, <6>1 DEF SubmitEnqueue, SubmitPC
        <5>2. CASE SubmitCheck(j) \/ SubmitSave(j) \/ SubmitEmit(j)
          BY <5>2 DEF SubmitCheck, SubmitSave, SubmitEmit, SubmitPC
        <5> QED BY <3>4, <5>1, <5>2
      <4>2. Counting' = Counting
        BY <4>1 DEF Counting
      <4> QED BY <3>1, <4>1, <4>2, CountersKept
    <3> QED BY <2>5, <3>2, <3>3, <3>4 DEF SubmitStep, SubmitEnqueue
  <2>6. ASSUME NEW w \in Worker, WorkerStep(w) PROVE CountInv'
    <3> USE DEF Goto, TypeOK
    <3>1. UNCHANGED <<submit, lpc>> /\ Counting' = Counting
      BY <2>6 DEF WorkerStep, Take, CountTaken, CheckCancelled, SaveRunning, EmitStarted, RunTool,
                  SaveResult, EmitFinished, Release, ExitWorker, Counting
    <3>2. CASE Take(w)
      <4>1. /\ Taken' = Taken \union {w} /\ w \notin Taken /\ AtWork' = AtWork
            /\ UNCHANGED <<queueDepth, activeWorkers>>
        BY <3>2 DEF Take, Taken, AtWork
      <4>2. Len(jobs') = Len(jobs) - 1
        BY <3>2, TailElements DEF Take
      <4>3. IsFiniteSet(Taken') /\ Cardinality(Taken') = Cardinality(Taken) + 1
        BY <2>1, <4>1, Enters
      <4> QED BY <2>1, <2>2, <3>1, <4>1, <4>2, <4>3
    <3>3. CASE CountTaken(w)
      <4>1. /\ Taken' = Taken \ {w} /\ w \in Taken
            /\ AtWork' = AtWork \union {w} /\ w \notin AtWork
            /\ queueDepth' = queueDepth - 1 /\ activeWorkers' = activeWorkers + 1 /\ jobs' = jobs
        BY <3>3 DEF CountTaken, Taken, AtWork
      <4>2. IsFiniteSet(Taken') /\ Cardinality(Taken') = Cardinality(Taken) - 1
        BY <2>1, <4>1, Leaves
      <4>3. IsFiniteSet(AtWork') /\ Cardinality(AtWork') = Cardinality(AtWork) + 1
        BY <2>1, <4>1, Enters
      <4> QED BY <2>1, <2>2, <3>1, <4>1, <4>2, <4>3
    <3>4. CASE Release(w)
      <4>1. /\ AtWork' = AtWork \ {w} /\ w \in AtWork /\ Taken' = Taken
            /\ activeWorkers' = activeWorkers - 1 /\ UNCHANGED <<jobs, queueDepth>>
        BY <3>4 DEF Release, Taken, AtWork
      <4>2. IsFiniteSet(AtWork') /\ Cardinality(AtWork') = Cardinality(AtWork) - 1
        BY <2>1, <4>1, Leaves
      <4> QED BY <2>1, <2>2, <3>1, <4>1, <4>2
    <3>5. ASSUME UNCHANGED <<jobs, queueDepth, activeWorkers>>, wpc[w] # "taken",
                 NEW pc \in WorkerPC \ {"taken"}, wpc' = [wpc EXCEPT ![w] = pc],
                 wpc[w] \in {"idle", "exited"} <=> pc \in {"idle", "exited"}
          PROVE  CountInv'
      <4>1. Taken' = Taken /\ AtWork' = AtWork
        BY <3>5 DEF Taken, AtWork
      <4> QED BY <3>1, <3>5, <4>1, CountersKept
    <3> USE DEF WorkerPC
    <3>6. CASE CheckCancelled(w)  BY <3>5, <3>6 DEF CheckCancelled
    <3>7. CASE SaveRunning(w)  BY <3>5, <3>7 DEF SaveRunning
    <3>8. CASE EmitStarted(w)  BY <3>5, <3>8 DEF EmitStarted
    <3>9. CASE RunTool(w)  BY <3>5, <3>9 DEF RunTool
    <3>10. CASE SaveResult(w)  BY <3>5, <3>10 DEF SaveResult
    <3>11. CASE EmitFinished(w)  BY <3>5, <3>11 DEF EmitFinished
    <3>12. CASE ExitWorker(w)  BY <3>5, <3>12 DEF ExitWorker
    <3> QED BY <2>6, <3>2, <3>3, <3>4, <3>6, <3>7, <3>8, <3>9, <3>10, <3>11, <3>12 DEF WorkerStep
  <2>7. CASE LoaderStep
    <3>1. UNCHANGED <<wpc, submit, activeWorkers>> /\ UNCHANGED <<Taken, AtWork, Counting>>
      BY <2>3, <2>7 DEF LoaderStep, LoadScan, LoadNext, LoadCount
    <3>2. CASE LoadScan
      BY <3>1, <3>2, CountersKept DEF LoadScan
    <3>3. CASE LoadNext
      <4>1. ASSUME NEW j \in todo, jobs' = Append(jobs, <<j, "loaded">>), lpc' = "count"
            PROVE  CountInv'
        <5>1. Len(jobs') = Len(jobs) + 1
          BY <4>1, AppendElements DEF Copy, TypeOK
        <5>2. lpc # "count" /\ queueDepth' = queueDepth
          BY <3>3 DEF LoadNext
        <5> QED BY <2>1, <2>2, <3>1, <4>1, <5>1, <5>2
      <4>2. CASE lpc' = "done" /\ jobs' = jobs
        BY <3>1, <3>3, <4>2, CountersKept DEF LoadNext
      <4> QED BY <3>3, <4>1, <4>2 DEF LoadNext
    <3>4. CASE LoadCount
      BY <2>1, <2>2, <3>1, <3>4 DEF LoadCount
    <3> QED BY <2>7, <3>2, <3>3, <3>4 DEF LoaderStep
  <2>8. CASE Cleanup
    BY <2>4, <2>8 DEF Cleanup
  <2>9. ASSUME NEW c \in Client, ClientStep(c) PROVE CountInv'
    BY <2>4, <2>9 DEF ClientStep, CancelSave, CancelEmit, Delete, ClientOnly
  <2>10. ASSUME NEW c \in Client, NEW j \in Job, ClientCall(c, j) PROVE CountInv'
    BY <2>4, <2>10 DEF ClientCall, CancelGet, GetJob, DeleteJob, ClientOnly
  <2>11. CASE Stop
    BY <2>4, <2>11 DEF Stop
  <2>12. CASE Restart
    <3>1. Taken' = {} /\ Counting' = {} /\ AtWork' = {}
      BY <2>12 DEF Restart, Taken, Counting, AtWork, TypeOK
    <3>2. Len(jobs') = 0 /\ lpc' # "count" /\ queueDepth' = 0 /\ activeWorkers' = 0
      BY <2>12 DEF Restart
    <3> QED BY <2>2, <3>1, <3>2, FS_EmptySet
  <2>13. CASE UNCHANGED vars
    BY <2>4, <2>13
  <2> QED BY <2>5, <2>6, <2>7, <2>8, <2>9, <2>10, <2>11, <2>12, <2>13 DEF Next
<1> QED BY <1>1, <1>2, Typing, PTL DEF Spec, CountInv

-----------------------------------------------------------------------------
(***************************************************************************)
(* The queue over its storage. JobStorage implements JobRecords; here is   *)
(* the other side, that the queue is a client of JobRecords: what it does  *)
(* to store, and what loadPendingJobs expects of GetPending, is on offer.  *)
(***************************************************************************)
Storage == INSTANCE JobRecords WITH status <- store, answer <- {}, Limit <- {}

(* A write of one record, or of a record that is not there: Put, Remove, or nothing. *)
LEMMA SaveIsOffered ==
  ASSUME store \in [Job -> Status \union {"absent"}],
         NEW j \in Job, NEW s \in Status \union {"absent"}, Save(j, s)
  PROVE  [Storage!Next]_(Storage!recordVars)
<1>1. CASE s \in Status
  BY <1>1 DEF Save, Status, Terminal, Storage!Next, Storage!Put, Storage!Status, Storage!Terminal
<1>2. CASE s = "absent" /\ store[j] # "absent"
  BY <1>2 DEF Save, Storage!Next, Storage!Remove
<1>3. CASE s = "absent" /\ store[j] = "absent"
  BY <1>3 DEF Save, Storage!recordVars
<1> QED BY <1>1, <1>2, <1>3

LEMMA StepIsOffered ==
  ASSUME TypeOK, [Next]_vars
  PROVE  [Storage!Next]_(Storage!recordVars)
<1>1. ASSUME NEW j \in Job, NEW s \in Status \union {"absent"}, Save(j, s)
      PROVE  [Storage!Next]_(Storage!recordVars)
  BY <1>1, SaveIsOffered DEF TypeOK
<1>2. ASSUME UNCHANGED store
      PROVE  [Storage!Next]_(Storage!recordVars)
  BY <1>2 DEF Storage!recordVars
<1>3. ASSUME NEW j \in Job, SubmitCheck(j) \/ SubmitStep(j)
      PROVE  UNCHANGED store \/ Save(j, mem[<<j, "submitted">>])
  BY <1>3 DEF SubmitCheck, SubmitStep, SubmitSave, SubmitEnqueue, SubmitCount, SubmitEmit
<1>4. ASSUME NEW w \in Worker, WorkerStep(w)
      PROVE  \/ UNCHANGED store
             \/ wcopy[w] \in Copy /\ \E s \in Status : Save(JobOf(wcopy[w]), s)
  BY <1>4 DEF WorkerStep, Take, CountTaken, CheckCancelled, SaveRunning, EmitStarted, RunTool,
              SaveResult, EmitFinished, Release, ExitWorker, TypeOK, Status, Terminal
<1>5. ASSUME NEW c \in Client, ClientStep(c)
      PROVE  \/ UNCHANGED store
             \/ cjob[c] \in Job /\ \E s \in {"cancelled", "absent"} : Save(cjob[c], s)
  BY <1>5 DEF ClientStep, CancelSave, CancelEmit, Delete, ClientOnly, TypeOK
<1>6. ASSUME NEW c \in Client, NEW j \in Job, ClientCall(c, j) PROVE UNCHANGED store
  BY <1>6 DEF ClientCall, CancelGet, GetJob, DeleteJob, ClientOnly
<1>7. CASE Cleanup
  <2> PICK old \in SUBSET {j \in Job : store[j] \in Terminal} :
        store' = [j \in Job |-> IF j \in old THEN "absent" ELSE store[j]]
    BY <1>7 DEF Cleanup
  <2>1. Storage!Expire(old)
    BY DEF Storage!Expire, Storage!Terminal, Terminal
  <2> QED BY <2>1 DEF Storage!Next
<1>8. CASE LoaderStep \/ Stop \/ Restart \/ UNCHANGED vars
  BY <1>2, <1>8 DEF LoaderStep, LoadScan, LoadNext, LoadCount, Stop, Restart
<1>9. \A j \in Job : mem[<<j, "submitted">>] \in Status
  BY DEF TypeOK, Copy
<1> QED
  BY <1>1, <1>2, <1>3, <1>4, <1>5, <1>6, <1>7, <1>8, <1>9, CopyParts DEF Next, Status, Terminal

(***************************************************************************)
(* Every change the queue, its clients and its cleanup make to the records *)
(* is an operation of JobRecords: one record at a time, or the removal of  *)
(* records that have ended. So a storage that implements JobRecords, as    *)
(* JobStorage does, can stand for store.                                   *)
(***************************************************************************)
THEOREM RecordsSuffice == Spec => Storage!Spec
<1>1. Init => Storage!Init
  BY DEF Init, Storage!Init
<1> QED BY <1>1, StepIsOffered, Typing, PTL DEF Spec, Storage!Spec

(* The jobs of S that were created before j, and how many they are. *)
Before(S, j) == {k \in S : k < j}
Rank(S, j)   == Cardinality(Before(S, j))

LEMMA RankIsNat ==
  ASSUME NEW S \in SUBSET Nat, NEW j \in Nat
  PROVE  IsFiniteSet(Before(S, j)) /\ Rank(S, j) \in Nat
<1>1. Before(S, j) \in SUBSET Nat /\ \A k \in Before(S, j) : k <= j
  <2>1. \A k \in Before(S, j) : k \in Nat /\ k <= j
    BY DEF Before
  <2> QED BY <2>1
<1>2. IsFiniteSet(Before(S, j))
  BY <1>1, FS_BoundedSetOfNaturals
<1> QED BY <1>2, FS_CardinalityType DEF Rank

LEMMA RankGrows ==
  ASSUME NEW S \in SUBSET Nat, NEW i \in S, NEW j \in S, i < j
  PROVE  Rank(S, i) < Rank(S, j)
<1>1. IsFiniteSet(Before(S, i)) /\ IsFiniteSet(Before(S, j)) /\ Rank(S, i) \in Nat /\ Rank(S, j) \in Nat
  BY RankIsNat
<1>2. i \notin Before(S, i) /\ Before(S, i) \union {i} \in SUBSET Before(S, j)
  <2>1. i \in Nat /\ j \in Nat /\ i \notin Before(S, i) /\ i \in Before(S, j)
    BY DEF Before
  <2>2. ASSUME NEW k \in Before(S, i) PROVE k \in Before(S, j)
    BY <2>1, <2>2 DEF Before
  <2> QED BY <2>1, <2>2
<1>3. Cardinality(Before(S, i) \union {i}) = Rank(S, i) + 1
  BY <1>1, <1>2, FS_AddElement DEF Rank
<1>4. Cardinality(Before(S, i) \union {i}) <= Rank(S, j)
  BY <1>1, <1>2, FS_Subset DEF Rank
<1> QED BY <1>1, <1>3, <1>4

(* The oldest of S are as many as the limit, or all of S, and the others come after them. *)
LEMMA OldestOf ==
  ASSUME NEW S \in SUBSET Nat, NEW limit \in Nat, NEW found, found = {j \in S : Rank(S, j) < limit}
  PROVE  /\ IsFiniteSet(found) /\ Cardinality(found) <= limit
         /\ found # S => Cardinality(found) = limit
         /\ \A i \in found, j \in S \ found : i < j
<1>1. \A j \in S : Rank(S, j) \in Nat
  BY RankIsNat
<1>2. IsFiniteSet(found) /\ Cardinality(found) <= limit
  <2> DEFINE place == [j \in found |-> Rank(S, j)]
  <2>1. place \in [found -> 0..(limit - 1)]
    <3>1. \A j \in found : Rank(S, j) \in 0..(limit - 1)
      BY <1>1
    <3> QED BY <3>1
  <2>2. \A i, j \in found : place[i] = place[j] => i = j
    <3> SUFFICES ASSUME NEW i \in found, NEW j \in found, i < j PROVE place[i] # place[j]
      OBVIOUS
    <3> QED BY <1>1, RankGrows
  <2>3. place \in Injection(found, 0..(limit - 1))
    BY <2>1, <2>2 DEF Injection, IsInjective
  <2>4. IsFiniteSet(0..(limit - 1)) /\ Cardinality(0..(limit - 1)) = limit
    BY FS_Interval
  <2> HIDE DEF place
  <2> QED BY <2>3, <2>4, FS_Injection
<1>3. ASSUME NEW i \in found, NEW j \in S \ found PROVE i < j
  <2>1. CASE j < i
    BY <1>1, <2>1, RankGrows
  <2> QED BY <2>1
<1>4. ASSUME found # S PROVE Cardinality(found) = limit
  <2>1. PICK x \in S \ found : \A y \in S \ found : ~ (<<y, x>> \in OpToRel(<, Nat))
    BY <1>4, NatLessThanWellFounded, WFMin
  <2>2. \A y \in S \ found : ~(y < x)
    BY <2>1 DEF OpToRel
  <2>3. found = Before(S, x)
    BY <1>3, <2>2 DEF Before
  <2>4. limit <= Cardinality(found)
    BY <1>1, <2>3 DEF Rank
  <2>5. Cardinality(found) \in Nat
    BY <1>2, FS_CardinalityType
  <2> QED BY <1>2, <2>4, <2>5
<1> QED BY <1>2, <1>3, <1>4

(***************************************************************************)
(* What GetPending answers is what LoadScan may find: with the jobs in the *)
(* order of their creation, the oldest pending ones are as many as the     *)
(* limit, or all there are; those that are missed were created later.      *)
(***************************************************************************)
THEOREM AnswerIsFound ==
  ASSUME Job \subseteq Nat, lpc = "scan", lpc' = "load",
         todo' = Storage!Oldest(Storage!Pending, QueueSize), missed' = Pending \ todo',
         UNCHANGED <<store, mem, jobs, running, submitVars, workerVars, clientVars, queueDepth>>
  PROVE  LoadScan /\ \A i \in todo', j \in missed' : i < j
<1>1. Storage!Pending = Pending /\ Pending \in SUBSET Nat
  BY DEF Storage!Pending, Pending
<1>2. todo' = {j \in Pending : Rank(Pending, j) < QueueSize}
  <2>1. \A S : Storage!Cardinality(S) = Cardinality(S)
    BY Zenon DEF Storage!Cardinality, Cardinality
  <2> QED BY <1>1, <2>1 DEF Storage!Oldest, Rank, Before
<1>3. /\ Cardinality(todo') <= QueueSize
      /\ todo' # Pending => Cardinality(todo') = QueueSize
      /\ \A i \in todo', j \in Pending \ todo' : i < j
  BY <1>1, <1>2, QueueSizeAssumption, OldestOf
<1>4. todo' \in SUBSET Pending
  BY <1>2
<1> QED BY <1>3, <1>4 DEF LoadScan
=============================================================================
