--------------------------- MODULE JobEventsProofs ---------------------------
(***************************************************************************)
(* JobEvents implements JobQueue: events, their broadcaster, subscribers   *)
(* and waiting calls observe the queue and change nothing of it but by its *)
(* own operations. What JobQueueProofs shows therefore holds of it too.    *)
(* Then the lists of subscribers, whose arrays Go shifts in place while    *)
(* the broadcaster walks one without the lock: their types, and that no    *)
(* call that waits loses its wake-up.                                      *)
(***************************************************************************)
EXTENDS JobEvents, JobQueueProofs, TLAPS

(* Sending an event is part of a step of the goroutine that sends it. *)
LEMMA SubmitSteps ==
  ASSUME NEW j \in Job, ESubmit(j) PROVE SubmitStep(j)
BY DEF ESubmit, EmitCreated, SubmitStep

LEMMA WorkerSteps ==
  ASSUME NEW w \in Worker, EWorker(w) PROVE WorkerStep(w)
BY DEF EWorker, EmitOfWorker, WorkerStep

LEMMA ClientSteps ==
  ASSUME NEW c \in Client, EClient(c) PROVE ClientStep(c)
BY DEF EClient, EmitCancelled, ClientStep

(* A call of WaitForJob or StreamJob only reads, or starts the deletion GetJob starts. *)
LEMMA ReadSteps ==
  ASSUME NEW j \in Job, Read(j) PROVE Next \/ UNCHANGED vars
<1>1. CASE AutoDelete /\ store[j] = "completed"
  BY <1>1 DEF Read, Next, ClientCall
<1>2. CASE ~(AutoDelete /\ store[j] = "completed")
  BY <1>2 DEF Read
<1> QED BY <1>1, <1>2

(* A call that is past its start has a job. *)
CallInv ==
  /\ callpc \in [Caller -> CallPC]
  /\ target \in [Caller -> Job \union {None}]
  /\ \A c \in Caller : callpc[c] \notin {"new", "done"} => target[c] \in Job

LEMMA CallInvInit == EventsInit => CallInv
BY DEF EventsInit, CallInv, CallPC

(* The steps that a call does not take leave it alone. *)
LEMMA OthersKeepCalls ==
  ASSUME \/ \E j \in Job : ESubmit(j) \/ (Purge(j) /\ UNCHANGED vars)
         \/ \E w \in Worker : EWorker(w)
         \/ \E c \in Client : EClient(c)
         \/ EQuiet
         \/ (Broadcast /\ UNCHANGED vars)
  PROVE  UNCHANGED <<callpc, target>>
<1>1. ASSUME NEW j \in Job, NEW s, Emit(j, s) PROVE UNCHANGED <<callpc, target>>
  BY <1>1 DEF Emit, callVars
<1>2. Silent => UNCHANGED <<callpc, target>>
  BY DEF Silent, eventVars
<1>3. ASSUME NEW j \in Job, ESubmit(j) PROVE UNCHANGED <<callpc, target>>
  BY <1>2, <1>3 DEF ESubmit, EmitCreated, Emit, callVars
<1>4. ASSUME NEW j \in Job, Purge(j) PROVE UNCHANGED <<callpc, target>>
  BY <1>4 DEF Purge, callVars
<1>5. ASSUME NEW w \in Worker, EWorker(w) PROVE UNCHANGED <<callpc, target>>
  BY <1>2, <1>5 DEF EWorker, EmitOfWorker, Emit, callVars
<1>6. ASSUME NEW c \in Client, EClient(c) PROVE UNCHANGED <<callpc, target>>
  BY <1>2, <1>6 DEF EClient, EmitCancelled, Emit, callVars
<1>7. ASSUME EQuiet PROVE UNCHANGED <<callpc, target>>
  BY <1>2, <1>7 DEF EQuiet
<1>8. ASSUME Broadcast PROVE UNCHANGED <<callpc, target>>
  BY <1>8 DEF Broadcast, BroadcastTake, Deliver, BroadcastEnd, BroadcastExit, callVars
<1> QED BY <1>3, <1>4, <1>5, <1>6, <1>7, <1>8

LEMMA CallInvNext ==
  ASSUME CallInv, [EventsNext]_allVars
  PROVE  CallInv'
<1> USE DEF CallInv
<1> USE DEF CallPC
<1>1. ASSUME UNCHANGED <<callpc, target>> PROVE CallInv'
  BY <1>1
<1>2. ASSUME NEW c \in Caller, NEW j \in Job, WaitStart(c, j) PROVE CallInv'
  BY <1>2 DEF WaitStart, CallGoto
<1>3. ASSUME NEW c \in Caller, NEW j \in Job, StreamCheck(c, j) PROVE CallInv'
  BY <1>3 DEF StreamCheck, CallGoto
<1>4. ASSUME NEW c \in Caller, CallStep(c) \/ GiveUp(c) PROVE CallInv'
  <2>1. CASE Leave(c)
    BY <2>1 DEF Leave, Unsubscribe
  <2>2. CASE WaitCheck(c) \/ Fetch(c) \/ StreamSubscribe(c) \/ Wake(c) \/ GiveUp(c)
    <3>1. /\ \E pc \in CallPC : callpc' = [callpc EXCEPT ![c] = pc]
          /\ callpc[c] \notin {"new", "done"}
          /\ target' = target
      BY <2>2 DEF WaitCheck, Fetch, StreamSubscribe, Wake, GiveUp, CallGoto
    <3> QED BY <3>1
  <2> QED BY <1>4, <2>1, <2>2 DEF CallStep
<1>5. CASE ERestart
  BY <1>5 DEF ERestart
<1>6. CASE UNCHANGED allVars
  BY <1>6, <1>1 DEF allVars, eventVars
<1>7. CASE Alive
  BY <1>7, <1>1, <1>2, <1>3, <1>4, OthersKeepCalls DEF Alive
<1> QED BY <1>5, <1>6, <1>7 DEF EventsNext

(***************************************************************************)
(* Every step of JobEvents is one of JobQueue or leaves its variables      *)
(* alone, for any number of jobs, workers, requests and subscribers.       *)
(***************************************************************************)
LEMMA StepRefines ==
  ASSUME CallInv, [EventsNext]_allVars
  PROVE  [Next]_vars
<1>1. ASSUME NEW j \in Job, ESubmit(j) PROVE Next
  BY <1>1, SubmitSteps DEF Next
<1>2. ASSUME NEW w \in Worker, EWorker(w) PROVE Next
  BY <1>2, WorkerSteps DEF Next
<1>3. ASSUME NEW c \in Client, EClient(c) PROVE Next
  BY <1>3, ClientSteps DEF Next
<1>4. ASSUME EQuiet PROVE Next
  BY <1>4 DEF EQuiet, Next
<1>5. ASSUME NEW c \in Caller, NEW j \in Job, WaitStart(c, j) \/ StreamCheck(c, j)
      PROVE  [Next]_vars
  BY <1>5, ReadSteps DEF WaitStart, StreamCheck
<1>6. ASSUME NEW c \in Caller, CallStep(c) \/ GiveUp(c) PROVE [Next]_vars
  <2>1. CASE WaitCheck(c) \/ Fetch(c)
    <3>1. target[c] \in Job /\ Read(target[c])
      BY <2>1 DEF CallInv, WaitCheck, Fetch
    <3> QED BY <3>1, ReadSteps
  <2>2. CASE StreamSubscribe(c) \/ Wake(c) \/ GiveUp(c) \/ Leave(c)
    BY <2>2 DEF StreamSubscribe, Wake, GiveUp, Leave
  <2> QED BY <1>6, <2>1, <2>2 DEF CallStep
<1>7. CASE ERestart
  BY <1>7 DEF ERestart, Next
<1>8. CASE UNCHANGED allVars
  BY <1>8 DEF allVars
<1>9. CASE Alive
  BY <1>9, <1>1, <1>2, <1>3, <1>4, <1>5, <1>6 DEF Alive
<1> QED BY <1>7, <1>8, <1>9 DEF EventsNext

THEOREM Refines == EventsSpec => Spec
<1>1. EventsInit => Init
  BY DEF EventsInit
<1> QED BY <1>1, CallInvInit, CallInvNext, StepRefines, PTL DEF EventsSpec, Spec

(***************************************************************************)
(* What is proved of the queue alone holds of it with its events, and with *)
(* any number of calls that wait, stream and read: their reads start       *)
(* deletions, and none of them disturbs a job that is under way.           *)
(***************************************************************************)
THEOREM QueueSafety ==
  EventsSpec =>
    /\ [](TypeOK /\ OneHolderPerCopy /\ EnqueuedOnce /\ CopyStatus)
    /\ [](RunningIsOwned /\ PendingIsCarried /\ CountersExact)
    /\ SettledStays
    /\ Storage!Spec
BY Refines, Typing, OneHolder, CopyStatusHolds, RunningOwned, PendingCarried, Counters,
   SettledForGood, RecordsSuffice, PTL

-----------------------------------------------------------------------------
(***************************************************************************)
(* Types of the lists. The slots a broadcaster may still reach hold calls  *)
(* even when the list has become shorter than the header it took: a shift  *)
(* moves calls down and empties no slot, and a list that gets a new array  *)
(* leaves the old one to the broadcaster.                                  *)
(***************************************************************************)
Slots == Seq(Caller \union {None})
View == [job : Job \union {None}, status : Status, n : Nat, shared : BOOLEAN,
         arr : Slots, pos : Nat \ {0}]

Holds(arr, n) == n <= Len(arr) /\ \A i \in 1..n : arr[i] \in Caller

ListTypes ==
  /\ subs \in [Job -> [arr : Slots, n : Nat]]
  /\ \A j \in Job : Holds(subs[j].arr, subs[j].n)
  /\ view \in View
  /\ view.shared \/ bpc = "deliver" => view.job \in Job
  /\ Holds(ViewArr, view.n)

Event == [job : Job, status : Status]

ChannelTypes ==
  /\ events \in Seq(Event) /\ Len(events) <= QueueSize
  /\ bpc \in {"idle", "deliver", "exited", "panicked"}
  /\ purges \in [Job -> Nat]
  /\ inbox \in [Caller -> Seq(Status)] /\ \A c \in Caller : Len(inbox[c]) <= SubSize
  /\ lost \subseteq Caller

EventsInv == ChannelTypes /\ ListTypes /\ CallInv

-----------------------------------------------------------------------------
(* The call is in the list of the job. *)
In(c, j) == \E i \in 1..subs[j].n : subs[j].arr[i] = c

(***************************************************************************)
(* The broadcaster will reach the call at a slot the list still has. The   *)
(* other slots of its header hold what a shift left there, and the next    *)
(* call that subscribes overwrites them.                                   *)
(***************************************************************************)
Ahead(c) ==
  \E i \in view.pos..view.n : ViewArr[i] = c /\ (view.shared => i <= subs[view.job].n)

(* A terminal event of the job waits in the channel. *)
Announced(j) == \E i \in DOMAIN events : events[i].job = j /\ events[i].status \in Terminal

(* Whoever ended the job has still to announce it. *)
Ended(j) ==
  \/ \E w \in Worker : At(w, j, {"finished"})
  \/ \E d \in Client : cpc[d] = "cancelled" /\ cjob[d] = j

(* A terminal event is in the call's inbox. *)
Arrived(c) == \E i \in DOMAIN inbox[c] : inbox[c][i] \in Terminal

Delivering(j) == bpc = "deliver" /\ view.job = j /\ view.status \in Terminal

(* Coming, with the slots that count. *)
SurelyComing(c, j) ==
  \/ Ended(j)
  \/ Announced(j) /\ In(c, j)
  \/ Delivering(j) /\ Ahead(c)
  \/ Arrived(c)

(***************************************************************************)
(* NoLostWakeup, and why: a call of WaitForJob is in the list of its job   *)
(* from its subscription on, or lost records that it is not.               *)
(***************************************************************************)
WaitOK(c) ==
  /\ callpc[c] # "subscribe"
  /\ callpc[c] \in {"check", "wait"} => In(c, target[c]) \/ c \in lost
  /\ callpc[c] = "wait" /\ store[target[c]] \in Terminal =>
       SurelyComing(c, target[c]) \/ c \in lost \/ ~running \/ bpc = "panicked"

WaitInv == \A c \in Waiter : WaitOK(c)

-----------------------------------------------------------------------------
(* What each operation does to one list, and to the broadcaster that is in it. *)

List == [arr : Slots, n : Nat]

LEMMA SlotSequences ==
  ASSUME NEW arr \in Slots
  PROVE  Len(arr) \in Nat /\ DOMAIN arr = 1..Len(arr) /\ \A i \in 1..Len(arr) : arr[i] \in Caller \union {None}
BY LenProperties, ElementOfSeq DEF Slots

(* A sequence given slot by slot. *)
LEMMA SlotsGiven ==
  ASSUME NEW n \in Nat, NEW f \in [1..n -> Caller \union {None}]
  PROVE  f \in Slots /\ Len(f) = n
<1>1. f \in Slots
  BY SeqDef DEF Slots
<1> QED BY <1>1, LenProperties DEF Slots

(* The list keeps its array: a broadcaster in it sees what happens to the slots. *)
LEMMA InPlace ==
  ASSUME ListTypes, NEW j \in Job, NEW r \in List, Holds(r.arr, r.n),
         subs' = [subs EXCEPT ![j] = r], UNCHANGED <<view, bpc>>,
         Len(r.arr) = Len(subs[j].arr),
         \A i \in 1..Len(r.arr) : subs[j].arr[i] \in Caller => r.arr[i] \in Caller
  PROVE  /\ ListTypes'
         /\ ViewArr' = IF view.shared /\ view.job = j THEN r.arr ELSE ViewArr
<1>1. subs' \in [Job -> List] /\ \A k \in Job : subs'[k] = IF k = j THEN r ELSE subs[k]
  BY DEF ListTypes, List
<1>2. ViewArr' = IF view.shared /\ view.job = j THEN r.arr ELSE ViewArr
  BY <1>1 DEF ViewArr, ListTypes
<1>3. Holds(ViewArr, view.n)'
  <2>1. CASE view.shared /\ view.job = j
    <3>1. ViewArr = subs[j].arr /\ ViewArr' = r.arr
      BY <1>2, <2>1 DEF ViewArr
    <3>2. view.n \in Nat /\ Len(r.arr) \in Nat
      BY SlotSequences DEF ListTypes, View, List
    <3> QED BY <3>1, <3>2 DEF ListTypes, Holds
  <2>2. CASE ~(view.shared /\ view.job = j)
    BY <1>2, <2>2 DEF ListTypes, Holds
  <2> QED BY <2>1, <2>2
<1>4. \A k \in Job : Holds(subs'[k].arr, subs'[k].n)
  BY <1>1 DEF ListTypes
<1> QED BY <1>1, <1>2, <1>3, <1>4 DEF ListTypes, List

(* The list gets another array: a broadcaster in it goes on with the old one. *)
LEMMA NewArray ==
  ASSUME ListTypes, NEW j \in Job, NEW r \in List, Holds(r.arr, r.n),
         subs' = [subs EXCEPT ![j] = r], Detach(j), UNCHANGED bpc
  PROVE  /\ ListTypes'
         /\ ViewArr' = ViewArr
         /\ \A c : Ahead(c) => Ahead(c)'
         /\ view'.job = view.job /\ view'.status = view.status
<1>1. subs' \in [Job -> List] /\ \A k \in Job : subs'[k] = IF k = j THEN r ELSE subs[k]
  BY DEF ListTypes, List
<1>2. CASE view.shared /\ view.job = j
  <2>1. /\ view' = [view EXCEPT !.shared = FALSE, !.arr = subs[j].arr]
        /\ ViewArr = subs[j].arr /\ subs[j].arr \in Slots
    BY <1>2 DEF Detach, ViewArr, ListTypes, List
  <2>2. view' \in View /\ view'.shared = FALSE /\ view'.arr = subs[j].arr
    BY <2>1 DEF ListTypes, View
  <2>3. view'.job = view.job /\ view'.n = view.n /\ view'.pos = view.pos /\ view'.status = view.status
    BY <2>1 DEF ListTypes, View
  <2>4. ViewArr' = ViewArr
    BY <2>1, <2>2 DEF ViewArr
  <2>5. \A c : Ahead(c) => Ahead(c)'
    BY <2>2, <2>3, <2>4 DEF Ahead
  <2>6. Holds(ViewArr, view.n)'
    BY <2>3, <2>4 DEF ListTypes, Holds
  <2> QED BY <1>1, <2>2, <2>3, <2>4, <2>5, <2>6 DEF ListTypes, List
<1>3. CASE ~(view.shared /\ view.job = j)
  <2>1. view' = view
    BY <1>3 DEF Detach
  <2>2. ViewArr' = ViewArr /\ (view.shared => subs'[view.job] = subs[view.job])
    BY <1>1, <1>3, <2>1 DEF ViewArr, ListTypes
  <2>3. \A c : Ahead(c) => Ahead(c)'
    BY <2>1, <2>2 DEF Ahead
  <2>4. Holds(ViewArr, view.n)'
    BY <2>1, <2>2 DEF ListTypes, Holds
  <2> QED BY <1>1, <2>1, <2>2, <2>3, <2>4 DEF ListTypes, List
<1> QED BY <1>2, <1>3

(* append: the call is in the list, everybody else is still where they were. *)
LEMMA SubscribeLists ==
  ASSUME ListTypes, NEW c \in Caller, NEW j \in Job, Subscribe(c, j), UNCHANGED bpc
  PROVE  /\ ListTypes'
         /\ In(c, j)'
         /\ \A d, k : k \in Job /\ In(d, k) => In(d, k)'
         /\ \A d : Ahead(d) => Ahead(d)'
         /\ view'.job = view.job /\ view'.status = view.status
<1> DEFINE s == subs[j]
<1>1. s \in List /\ s.arr \in Slots /\ s.n \in Nat /\ Len(s.arr) \in Nat /\ DOMAIN s.arr = 1..Len(s.arr)
      /\ s.n <= Len(s.arr) /\ \A i \in 1..s.n : s.arr[i] \in Caller
  BY SlotSequences DEF ListTypes, List, Holds
<1>2. ASSUME NEW arr \in Slots, subs' = [subs EXCEPT ![j] = [arr |-> arr, n |-> s.n + 1]],
             arr[s.n + 1] = c, \A i \in 1..s.n : arr[i] = s.arr[i], s.n + 1 <= Len(arr)
      PROVE  /\ [arr |-> arr, n |-> s.n + 1] \in List /\ Holds(arr, s.n + 1)
             /\ In(c, j)' /\ \A d, k : k \in Job /\ In(d, k) => In(d, k)'
  <2>1. subs'[j].arr = arr /\ subs'[j].n = s.n + 1 /\ \A k \in Job \ {j} : subs'[k] = subs[k]
    BY <1>2 DEF ListTypes
  <2>2. In(c, j)'
    BY <1>1, <1>2, <2>1 DEF In
  <2>3. ASSUME NEW d, NEW k \in Job, In(d, k) PROVE In(d, k)'
    BY <1>1, <1>2, <2>1, <2>3 DEF In
  <2>4. Holds(arr, s.n + 1)
    BY <1>1, <1>2 DEF Holds
  <2> QED BY <1>1, <2>2, <2>3, <2>4 DEF List
<1>3. CASE s.n < Len(s.arr)
  <2> DEFINE arr == [s.arr EXCEPT ![s.n + 1] = c]
             r == [arr |-> arr, n |-> s.n + 1]
  <2>1. subs' = [subs EXCEPT ![j] = r] /\ view' = view
    BY <1>3 DEF Subscribe
  <2>2. /\ arr \in Slots /\ Len(arr) = Len(s.arr)
        /\ \A i \in 1..Len(s.arr) : arr[i] = IF i = s.n + 1 THEN c ELSE s.arr[i]
    BY <1>1, <1>3, ExceptSeq DEF Slots
  <2> HIDE DEF arr
  <2>3. /\ r \in List /\ Holds(arr, s.n + 1) /\ In(c, j)' /\ \A d, k : k \in Job /\ In(d, k) => In(d, k)'
    <3>1. arr[s.n + 1] = c /\ s.n + 1 <= Len(arr) /\ \A i \in 1..s.n : arr[i] = s.arr[i]
      <4>1. s.n + 1 \in 1..Len(s.arr)
        BY <1>1, <1>3
      <4>2. ASSUME NEW i \in 1..s.n PROVE i \in 1..Len(s.arr) /\ i # s.n + 1
        BY <1>1
      <4> QED BY <1>1, <2>2, <4>1, <4>2
    <3> QED BY <1>2, <2>1, <2>2, <3>1
  <2>4. ListTypes' /\ ViewArr' = IF view.shared /\ view.job = j THEN arr ELSE ViewArr
    <3>1. r.arr = arr /\ r.n = s.n + 1 /\ r \in List
      BY <2>3
    <3>2. \A i \in 1..Len(arr) : s.arr[i] \in Caller => arr[i] \in Caller
      BY <2>2
    <3> HIDE DEF r
    <3> QED BY <2>1, <2>2, <2>3, <3>1, <3>2, InPlace
  <2>5. ASSUME NEW d, Ahead(d) PROVE Ahead(d)'
    <3>1. CASE view.shared /\ view.job = j
      <4>1. PICK i \in view.pos..view.n : ViewArr[i] = d /\ i <= s.n
        BY <2>5, <3>1 DEF Ahead
      <4>2. ViewArr = s.arr /\ ViewArr' = arr /\ subs'[j].n = s.n + 1 /\ view.pos \in Nat \ {0} /\ view.n \in Nat
        BY <2>1, <2>4, <3>1 DEF ViewArr, ListTypes, View
      <4>3. arr[i] = d /\ i <= s.n + 1
        BY <1>1, <2>2, <4>1, <4>2
      <4> QED BY <2>1, <3>1, <4>1, <4>2, <4>3 DEF Ahead
    <3>2. CASE ~(view.shared /\ view.job = j)
      <4>1. view.shared => subs'[view.job] = subs[view.job]
        BY <2>1, <3>2 DEF ListTypes
      <4> QED BY <2>1, <2>4, <2>5, <3>2, <4>1 DEF Ahead
    <3> QED BY <3>1, <3>2
  <2> QED BY <2>1, <2>3, <2>4, <2>5
<1>4. CASE ~(s.n < Len(s.arr))
  <2> DEFINE arr == Grown(s, c)
             r == [arr |-> arr, n |-> s.n + 1]
             size == IF s.n = 0 THEN 1 ELSE 2 * s.n
  <2>1. subs' = [subs EXCEPT ![j] = r] /\ Detach(j)
    BY <1>4 DEF Subscribe
  <2>2. /\ size \in Nat /\ s.n + 1 <= size
        /\ arr \in [1..size -> Caller \union {None}]
        /\ \A i \in 1..size : arr[i] = IF i <= s.n THEN s.arr[i] ELSE IF i = s.n + 1 THEN c ELSE None
    BY <1>1 DEF Grown
  <2>3. arr \in Slots /\ Len(arr) = size
    BY <2>2, SlotsGiven
  <2> HIDE DEF arr, size
  <2>4. arr[s.n + 1] = c /\ s.n + 1 <= Len(arr) /\ \A i \in 1..s.n : arr[i] = s.arr[i]
    BY <1>1, <2>2, <2>3
  <2>5. r \in List /\ Holds(arr, s.n + 1) /\ In(c, j)' /\ \A d, k : k \in Job /\ In(d, k) => In(d, k)'
    BY <1>2, <2>1, <2>3, <2>4
  <2> QED BY <2>1, <2>5, NewArray
<1> QED BY <1>3, <1>4

(***************************************************************************)
(* unsubscribe moves the rest of the list down: everybody else stays in    *)
(* it, and whoever moves behind a broadcaster with a terminal event is     *)
(* recorded in lost.                                                       *)
(***************************************************************************)
LEMMA ShiftLists ==
  ASSUME ListTypes, NEW d, NEW j \in Job, NEW i \in 1..subs[j].n, subs[j].arr[i] = d,
         subs' = [subs EXCEPT ![j] = ShiftedAt(subs[j], i)], UNCHANGED <<view, bpc>>
  PROVE  /\ ListTypes'
         /\ \A c, k : c # d /\ k \in Job /\ In(c, k) => In(c, k)'
         /\ \A c : c # d /\ Ahead(c) /\ view.status \in Terminal =>
                     Ahead(c)' \/ c \in SkippedAt(j, subs[j], i)
         /\ SkippedAt(j, subs[j], i) \subseteq Caller
<1> DEFINE s == subs[j]
           r == ShiftedAt(s, i)
<1>1. /\ s \in List /\ s.arr \in Slots /\ s.n \in Nat /\ Len(s.arr) \in Nat
      /\ DOMAIN s.arr = 1..Len(s.arr) /\ s.n <= Len(s.arr)
      /\ \A k \in 1..s.n : s.arr[k] \in Caller
      /\ \A k \in 1..Len(s.arr) : s.arr[k] \in Caller \union {None}
      /\ view.pos \in Nat \ {0} /\ view.n \in Nat
  BY SlotSequences DEF ListTypes, List, Holds, View
<1>2. /\ r.n = s.n - 1 /\ r.n \in Nat
      /\ r.arr \in [1..Len(s.arr) -> Caller \union {None}]
      /\ \A k \in 1..Len(s.arr) : r.arr[k] = IF i <= k /\ k < s.n THEN s.arr[k + 1] ELSE s.arr[k]
      /\ r = [arr |-> r.arr, n |-> r.n]
  BY <1>1 DEF ShiftedAt
<1>3. r.arr \in Slots /\ Len(r.arr) = Len(s.arr) /\ r \in List
  BY <1>1, <1>2, SlotsGiven DEF List
<1> HIDE DEF r
<1>4. ASSUME NEW k \in 1..Len(s.arr), s.arr[k] \in Caller PROVE r.arr[k] \in Caller
  <2>1. CASE i <= k /\ k < s.n
    <3>1. r.arr[k] = s.arr[k + 1] /\ k + 1 \in 1..s.n  BY <1>1, <1>2, <2>1
    <3> QED BY <1>1, <3>1
  <2>2. CASE ~(i <= k /\ k < s.n)
    <3>1. r.arr[k] = s.arr[k]  BY <1>2, <2>2
    <3> QED BY <1>4, <3>1
  <2> QED BY <2>1, <2>2
<1>5. Holds(r.arr, r.n)
  <2>1. r.n <= Len(r.arr)  BY <1>1, <1>2, <1>3
  <2>2. ASSUME NEW k \in 1..r.n PROVE r.arr[k] \in Caller
    <3>1. k \in 1..s.n /\ k \in 1..Len(s.arr)  BY <1>1, <1>2
    <3> QED BY <1>1, <1>4, <3>1
  <2> QED BY <2>1, <2>2 DEF Holds
<1>6. subs' = [subs EXCEPT ![j] = r]
  BY DEF r
<1>7. ListTypes' /\ ViewArr' = IF view.shared /\ view.job = j THEN r.arr ELSE ViewArr
  BY <1>1, <1>3, <1>4, <1>5, <1>6, InPlace
<1>8. subs'[j] = r /\ \A k \in Job \ {j} : subs'[k] = subs[k]
  BY <1>6 DEF ListTypes
(* Where a call that is not d is after the shift. *)
<1>9. ASSUME NEW c, c # d, NEW k \in 1..s.n, s.arr[k] = c
      PROVE  \/ k < i /\ r.arr[k] = c /\ k \in 1..r.n
             \/ i < k /\ r.arr[k - 1] = c /\ k - 1 \in 1..r.n
  <2>1. CASE k < i
    <3>1. r.arr[k] = s.arr[k]  BY <1>1, <1>2, <2>1
    <3> QED BY <1>1, <1>2, <1>9, <2>1, <3>1
  <2>2. CASE i < k
    <3>1. k - 1 \in 1..Len(s.arr) /\ i <= k - 1 /\ k - 1 < s.n  BY <1>1, <2>2
    <3>2. r.arr[k - 1] = s.arr[(k - 1) + 1]  BY <1>2, <3>1
    <3> QED BY <1>1, <1>2, <1>9, <2>2, <3>1, <3>2
  <2> QED BY <1>9, <2>1, <2>2
<1>10. ASSUME NEW c, c # d, NEW k \in Job, In(c, k) PROVE In(c, k)'
  <2>1. CASE k = j
    <3>1. PICK m \in 1..s.n : s.arr[m] = c  BY <1>10, <2>1 DEF In
    <3>2. \E l \in 1..r.n : r.arr[l] = c  BY <1>9, <1>10, <3>1
    <3> QED BY <1>8, <2>1, <3>2 DEF In
  <2>2. CASE k # j
    BY <1>8, <1>10, <2>2 DEF In
  <2> QED BY <2>1, <2>2
<1>11. ASSUME NEW c, c # d, Ahead(c), view.status \in Terminal
       PROVE  Ahead(c)' \/ c \in SkippedAt(j, s, i)
  <2>1. CASE view.shared /\ view.job = j
    <3>1. ViewArr = s.arr /\ ViewArr' = r.arr
      BY <1>7, <2>1 DEF ViewArr
    <3>2. PICK k \in view.pos..view.n : s.arr[k] = c /\ k <= s.n
      BY <1>11, <2>1, <3>1 DEF Ahead
    <3>3. k \in 1..s.n
      BY <1>1, <3>2
    <3>4. CASE k < i
      <4>1. r.arr[k] = c /\ k \in 1..r.n /\ k <= r.n
        <5>1. ~(i < k)  BY <3>3, <3>4
        <5>2. r.arr[k] = c /\ k \in 1..r.n  BY <1>9, <1>11, <3>2, <3>3, <5>1
        <5> QED BY <1>2, <5>2
      <4> QED BY <1>8, <2>1, <3>1, <3>2, <4>1 DEF Ahead
    <3>5. CASE i < k /\ view.pos < k
      <4>1. r.arr[k - 1] = c /\ k - 1 <= r.n
        <5>1. ~(k < i)  BY <3>3, <3>5
        <5>2. r.arr[k - 1] = c /\ k - 1 \in 1..r.n  BY <1>9, <1>11, <3>2, <3>3, <5>1
        <5> QED BY <1>2, <5>2
      <4>2. k - 1 \in view.pos..view.n  BY <1>1, <3>2, <3>5
      <4> QED BY <1>8, <2>1, <3>1, <4>1, <4>2 DEF Ahead
    <3>6. CASE i < k /\ view.pos = k
      BY <1>11, <2>1, <3>2, <3>6 DEF SkippedAt
    <3> QED BY <1>1, <1>11, <3>2, <3>3, <3>4, <3>5, <3>6
  <2>2. CASE ~(view.shared /\ view.job = j)
    <3>1. ViewArr' = ViewArr /\ (view.shared => subs'[view.job] = subs[view.job])
      BY <1>7, <1>8, <2>2 DEF ListTypes
    <3> QED BY <1>11, <3>1 DEF Ahead
  <2> QED BY <2>1, <2>2
<1>12. SkippedAt(j, s, i) \subseteq Caller
  BY <1>1 DEF SkippedAt
<1> QED BY <1>7, <1>10, <1>11, <1>12

(* The deleted list: who was in it is recorded in lost. *)
LEMMA PurgeLists ==
  ASSUME ListTypes, NEW j \in Job, Purge(j)
  PROVE  /\ ListTypes'
         /\ \A c, k : k \in Job /\ In(c, k) => In(c, k)' \/ c \in lost'
         /\ \A c : Ahead(c) => Ahead(c)'
         /\ view'.job = view.job /\ view'.status = view.status
         /\ lost \subseteq lost' /\ lost' \subseteq lost \union Caller
<1>1. NoSubs \in List /\ Holds(NoSubs.arr, NoSubs.n) /\ NoSubs.n = 0
  BY EmptySeq DEF NoSubs, List, Slots, Holds
<1>2. subs' = [subs EXCEPT ![j] = NoSubs] /\ Detach(j) /\ bpc' = bpc
      /\ lost' = lost \union {subs[j].arr[i] : i \in 1..subs[j].n}
  BY DEF Purge
<1>3. ASSUME NEW c, NEW k \in Job, In(c, k) PROVE In(c, k)' \/ c \in lost'
  BY <1>2, <1>3 DEF In, ListTypes
<1>4. lost' \subseteq lost \union Caller
  BY <1>2 DEF ListTypes, Holds
<1> QED BY <1>1, <1>2, <1>3, <1>4, NewArray

-----------------------------------------------------------------------------
(* Types: one lemma per kind of step. *)

LEMMA TypesFollow == EventsInv => EventsTypeOK
<1> SUFFICES ASSUME EventsInv PROVE EventsTypeOK  OBVIOUS
<1>1. \A j \in Job : /\ subs[j].arr \in Slots /\ subs[j].n \in 0..Len(subs[j].arr)
                     /\ \A i \in 1..subs[j].n : subs[j].arr[i] \in Caller
  BY SlotSequences DEF EventsInv, ListTypes, Holds
<1> QED BY <1>1 DEF EventsInv, ChannelTypes, ListTypes, CallInv, Holds, Slots, Event, EventsTypeOK

LEMMA ListsUnchanged ==
  ASSUME ListTypes, UNCHANGED <<subs, view, bpc>>
  PROVE  ListTypes' /\ ViewArr' = ViewArr
BY DEF ListTypes, ViewArr, Holds

LEMMA SilentTypes ==
  ASSUME ChannelTypes, ListTypes, UNCHANGED <<events, subs, bpc, view, purges, inbox, lost>>
  PROVE  ChannelTypes' /\ ListTypes'
BY ListsUnchanged DEF ChannelTypes

LEMMA EmitTypes ==
  ASSUME ChannelTypes, ListTypes, NEW j \in Job, NEW s \in Status, Emit(j, s)
  PROVE  ChannelTypes' /\ ListTypes'
<1>1. UNCHANGED <<subs, bpc, view, purges, inbox>>
  BY DEF Emit, broadcastVars, callVars
<1>2. events' \in Seq(Event) /\ Len(events') <= QueueSize /\ lost' \subseteq Caller
  <2>1. CASE events' = Append(events, [job |-> j, status |-> s]) /\ Len(events) < QueueSize /\ lost' = lost
    <3>1. [job |-> j, status |-> s] \in Event  BY DEF Event
    <3>2. events' \in Seq(Event) /\ Len(events') = Len(events) + 1 /\ Len(events) \in Nat
      BY <2>1, <3>1, AppendElements DEF ChannelTypes
    <3> QED BY <2>1, <3>2, QueueSizeAssumption DEF ChannelTypes
  <2>2. CASE events' = events /\ lost' \subseteq lost \union Subscribed(j)
    BY <2>2 DEF ChannelTypes, Subscribed
  <2> QED BY <2>1, <2>2 DEF Emit
<1> QED BY <1>1, <1>2, ListsUnchanged DEF ChannelTypes

(* What the queue's goroutines announce is a job and a status. *)
LEMMA QueueSteps ==
  ASSUME TypeOK, ChannelTypes, ListTypes,
         \/ \E j \in Job : ESubmit(j)
         \/ \E w \in Worker : EWorker(w)
         \/ \E c \in Client : EClient(c)
         \/ EQuiet
  PROVE  ChannelTypes' /\ ListTypes'
<1>1. ASSUME Silent PROVE ChannelTypes' /\ ListTypes'
  BY <1>1, SilentTypes DEF Silent, eventVars
<1>2. ASSUME NEW j \in Job, ESubmit(j) PROVE ChannelTypes' /\ ListTypes'
  <2>1. mem[<<j, "submitted">>] \in Status
    BY DEF TypeOK, Copy
  <2> QED BY <1>1, <1>2, <2>1, EmitTypes DEF ESubmit, EmitCreated
<1>3. ASSUME NEW w \in Worker, EWorker(w) PROVE ChannelTypes' /\ ListTypes'
  <2>1. CASE EmitOfWorker(w)
    <3>1. wcopy[w] \in Copy
      BY <2>1 DEF EmitOfWorker, EmitStarted, EmitFinished, TypeOK
    <3>2. JobOf(wcopy[w]) \in Job /\ mem[wcopy[w]] \in Status
      BY <3>1, CopyParts DEF TypeOK
    <3> QED BY <2>1, <3>2, EmitTypes DEF EmitOfWorker
  <2> QED BY <1>1, <1>3, <2>1 DEF EWorker
<1>4. ASSUME NEW c \in Client, EClient(c) PROVE ChannelTypes' /\ ListTypes'
  <2>1. CASE EmitCancelled(c)
    <3>1. cjob[c] \in Job /\ "cancelled" \in Status
      BY <2>1 DEF EmitCancelled, CancelEmit, TypeOK, Status, Terminal
    <3> QED BY <2>1, <3>1, EmitTypes DEF EmitCancelled
  <2> QED BY <1>1, <1>4, <2>1 DEF EClient
<1> QED BY <1>1, <1>2, <1>3, <1>4 DEF EQuiet

(* The head of the events channel, and what is left. *)
LEMMA HeadEvent ==
  ASSUME ChannelTypes, events # <<>>
  PROVE  /\ Head(events) \in Event /\ Head(events) = events[1]
         /\ Head(events).job \in Job /\ Head(events).status \in Status
         /\ Tail(events) \in Seq(Event) /\ Len(Tail(events)) <= QueueSize
         /\ \A i \in DOMAIN events :
              i # 1 => i - 1 \in DOMAIN Tail(events) /\ Tail(events)[i - 1] = events[i]
<1>1. /\ Head(events) \in Event /\ Head(events) = events[1]
      /\ Tail(events) \in Seq(Event) /\ Len(Tail(events)) = Len(events) - 1
      /\ \A i \in DOMAIN Tail(events) : i + 1 \in DOMAIN events /\ Tail(events)[i] = events[i + 1]
      /\ Len(events) \in Nat \ {0} /\ DOMAIN events = 1..Len(events)
      /\ DOMAIN Tail(events) = 1..(Len(events) - 1)
  BY TailElements DEF ChannelTypes
<1>2. ASSUME NEW i \in DOMAIN events, i # 1
      PROVE  i - 1 \in DOMAIN Tail(events) /\ Tail(events)[i - 1] = events[i]
  <2>1. i - 1 \in DOMAIN Tail(events) /\ (i - 1) + 1 = i
    BY <1>1, <1>2
  <2> QED BY <1>1, <2>1
<1> QED BY <1>1, <1>2, QueueSizeAssumption DEF ChannelTypes, Event

LEMMA PurgesCount ==
  ASSUME ChannelTypes, NEW j \in Job, NEW s, WillPurge(j, s)
  PROVE  purges' \in [Job -> Nat]
BY DEF ChannelTypes, WillPurge

(* The broadcaster takes an event: it can reach everybody in the list. *)
LEMMA TakeLists ==
  ASSUME ChannelTypes, ListTypes, BroadcastTake
  PROVE  /\ ChannelTypes' /\ ListTypes'
         /\ \A c : In(c, Head(events).job) =>
              /\ bpc' = "deliver" /\ Ahead(c)'
              /\ view'.job = Head(events).job /\ view'.status = Head(events).status
<1> DEFINE e == Head(events)
<1>1. events # <<>> /\ e.job \in Job /\ e.status \in Status
  BY HeadEvent DEF BroadcastTake
<1>2. /\ subs' = subs /\ inbox' = inbox /\ lost' = lost /\ events' = Tail(events) /\ bpc = "idle"
      /\ subs[e.job].arr \in Slots /\ subs[e.job].n \in Nat
      /\ Holds(subs[e.job].arr, subs[e.job].n)
  BY <1>1 DEF BroadcastTake, callVars, ListTypes
<1>3. CASE subs[e.job].n > 0
  <2>1. /\ view' = [job |-> e.job, status |-> e.status, n |-> subs[e.job].n,
                    shared |-> TRUE, arr |-> <<>>, pos |-> 1]
        /\ bpc' = "deliver" /\ purges' = purges
    BY <1>3 DEF BroadcastTake
  <2>2. view' \in View
    BY <1>1, <1>2, <2>1, EmptySeq DEF View, Slots
  <2>3. ViewArr' = subs[e.job].arr
    BY <1>2, <2>1 DEF ViewArr
  <2>4. ListTypes'
    BY <1>1, <1>2, <2>1, <2>2, <2>3 DEF ListTypes
  <2>5. ChannelTypes'
    BY <1>1, <1>2, <2>1, HeadEvent DEF ChannelTypes
  <2>6. \A c : In(c, e.job) => Ahead(c)'
    BY <1>2, <2>1, <2>3 DEF In, Ahead
  <2> QED BY <2>1, <2>4, <2>5, <2>6
<1>4. CASE ~(subs[e.job].n > 0)
  <2>1. subs[e.job].n = 0 /\ view' = view /\ bpc' = bpc /\ purges' \in [Job -> Nat]
    BY <1>1, <1>2, <1>4, PurgesCount DEF BroadcastTake
  <2>2. \A c : ~In(c, e.job)
    BY <2>1 DEF In
  <2>3. ListTypes'
    BY <1>2, <2>1, ListsUnchanged
  <2>4. ChannelTypes'
    BY <1>1, <1>2, <2>1, HeadEvent DEF ChannelTypes
  <2> QED BY <2>2, <2>3, <2>4
<1> QED BY <1>3, <1>4

(* One iteration of the delivery loop. *)
LEMMA DeliverTypes ==
  ASSUME ChannelTypes, ListTypes, Deliver
  PROVE  ChannelTypes' /\ ListTypes' /\ UNCHANGED subs
<1> DEFINE c == ViewArr[view.pos]
<1>1. /\ bpc = "deliver" /\ view.job \in Job /\ view.status \in Status
      /\ view.pos \in Nat \ {0} /\ view.n \in Nat /\ view.pos <= view.n
  BY DEF Deliver, ListTypes, View
<1>2. c \in Caller
  BY <1>1 DEF ListTypes, Holds
<1>3. UNCHANGED <<events, subs, purges>>
  BY DEF Deliver
<1>4. CASE bpc' = "panicked" /\ UNCHANGED <<view, inbox, lost>>
  <2>1. ViewArr' = ViewArr  BY <1>3, <1>4 DEF ViewArr
  <2> QED BY <1>1, <1>3, <1>4, <2>1 DEF ChannelTypes, ListTypes
<1>5. CASE view' = [view EXCEPT !.pos = view.pos + 1] /\ bpc' = bpc
  <2>1. view' \in View /\ view'.shared = view.shared /\ view'.job = view.job /\ view'.n = view.n
        /\ view'.arr = view.arr
    BY <1>1, <1>5 DEF ListTypes, View
  <2>2. ViewArr' = ViewArr  BY <1>3, <2>1 DEF ViewArr
  <2>3. ListTypes'
    BY <1>3, <1>5, <2>1, <2>2 DEF ListTypes
  <2>4. CASE inbox' = [inbox EXCEPT ![c] = Append(@, view.status)] /\ Len(inbox[c]) < SubSize /\ lost' = lost
    <3>1. /\ Append(inbox[c], view.status) \in Seq(Status)
          /\ Len(Append(inbox[c], view.status)) = Len(inbox[c]) + 1 /\ Len(inbox[c]) \in Nat
      BY <1>1, <1>2, AppendElements DEF ChannelTypes
    <3>2. inbox' \in [Caller -> Seq(Status)] /\ \A d \in Caller : Len(inbox'[d]) <= SubSize
      BY <1>2, <2>4, <3>1, SubSizeAssumption DEF ChannelTypes
    <3> QED BY <1>3, <1>5, <2>3, <2>4, <3>2 DEF ChannelTypes
  <2>5. CASE inbox' = inbox /\ lost' \subseteq lost \union {c}
    BY <1>2, <1>3, <1>5, <2>3, <2>5 DEF ChannelTypes
  <2> QED BY <1>3, <1>5, <2>4, <2>5 DEF Deliver
<1> QED BY <1>3, <1>4, <1>5 DEF Deliver

LEMMA BroadcastTypes ==
  ASSUME ChannelTypes, ListTypes, Broadcast
  PROVE  ChannelTypes' /\ ListTypes'
<1>1. CASE BroadcastTake  BY <1>1, TakeLists
<1>2. CASE Deliver  BY <1>2, DeliverTypes
<1>3. CASE BroadcastEnd
  <2>1. /\ UNCHANGED <<events, subs, inbox, lost>> /\ view.job \in Job
        /\ WillPurge(view.job, view.status) /\ bpc' = "idle" /\ view' = NoView
    BY <1>3 DEF BroadcastEnd, callVars, ListTypes
  <2>2. NoView \in View /\ ~NoView.shared /\ NoView.n = 0 /\ NoView.arr = <<>>
    BY EmptySeq DEF NoView, View, Slots, Status
  <2>3. Holds(ViewArr, view.n)'
    BY <2>1, <2>2, EmptySeq DEF ViewArr, Holds
  <2>4. ListTypes'
    BY <2>1, <2>2, <2>3 DEF ListTypes
  <2> QED BY <2>1, <2>4, PurgesCount DEF ChannelTypes
<1>4. CASE BroadcastExit
  <2>1. UNCHANGED <<events, subs, view, purges, inbox, lost>> /\ bpc' = "exited"
    BY <1>4 DEF BroadcastExit, callVars
  <2>2. ViewArr' = ViewArr  BY <2>1 DEF ViewArr
  <2> QED BY <2>1, <2>2 DEF ChannelTypes, ListTypes
<1> QED BY <1>1, <1>2, <1>3, <1>4 DEF Broadcast

LEMMA PurgeTypes ==
  ASSUME ChannelTypes, ListTypes, NEW j \in Job, Purge(j)
  PROVE  ChannelTypes' /\ ListTypes'
<1>1. ListTypes' /\ lost' \subseteq Caller
  BY PurgeLists DEF ChannelTypes
<1>2. UNCHANGED <<events, bpc, inbox>> /\ purges' \in [Job -> Nat]
  BY DEF Purge, callVars, ChannelTypes
<1> QED BY <1>1, <1>2 DEF ChannelTypes

(* A call that leaves takes itself out of its list. *)
LEMMA LeaveLists ==
  ASSUME ListTypes, CallInv, NEW d \in Caller, Leave(d)
  PROVE  /\ ListTypes' /\ UNCHANGED <<view, bpc, events>>
         /\ \A c, k : c # d /\ k \in Job /\ In(c, k) => In(c, k)'
         /\ \A c : c # d /\ Ahead(c) /\ view.status \in Terminal => Ahead(c)' \/ c \in lost'
         /\ lost \ {d} \subseteq lost' /\ lost' \subseteq lost \union Caller
<1> DEFINE j == target[d]
           s == subs[j]
<1>1. j \in Job /\ UNCHANGED <<view, bpc, events>>
  BY DEF Leave, CallInv, broadcastVars
<1>2. ASSUME NEW i \in 1..s.n, s.arr[i] = d, subs' = [subs EXCEPT ![j] = ShiftedAt(s, i)],
             lost' = (lost \union SkippedAt(j, s, i)) \ {d}
      PROVE  /\ ListTypes'
             /\ \A c, k : c # d /\ k \in Job /\ In(c, k) => In(c, k)'
             /\ \A c : c # d /\ Ahead(c) /\ view.status \in Terminal => Ahead(c)' \/ c \in lost'
             /\ lost \ {d} \subseteq lost' /\ lost' \subseteq lost \union Caller
  <2>1. /\ ListTypes'
        /\ \A c, k : c # d /\ k \in Job /\ In(c, k) => In(c, k)'
        /\ \A c : c # d /\ Ahead(c) /\ view.status \in Terminal => Ahead(c)' \/ c \in SkippedAt(j, s, i)
        /\ SkippedAt(j, s, i) \subseteq Caller
    BY <1>1, <1>2, ShiftLists
  <2> QED BY <1>2, <2>1
<1>3. CASE subs' = subs /\ lost' = lost \ {d}
  <2>1. ListTypes' /\ ViewArr' = ViewArr  BY <1>1, <1>3, ListsUnchanged
  <2> QED BY <1>1, <1>3, <2>1 DEF In, Ahead
<1>4. \/ \E i \in 1..s.n : /\ s.arr[i] = d /\ subs' = [subs EXCEPT ![j] = ShiftedAt(s, i)]
                           /\ lost' = (lost \union SkippedAt(j, s, i)) \ {d}
      \/ subs' = subs /\ lost' = lost \ {d}
  BY DEF Leave, Unsubscribe
<1> QED BY <1>1, <1>2, <1>3, <1>4

(* The steps of a call. *)
LEMMA CallTypes ==
  ASSUME ChannelTypes, ListTypes, CallInv, NEW c \in Caller,
         CallStep(c) \/ GiveUp(c) \/ \E j \in Job : WaitStart(c, j) \/ StreamCheck(c, j)
  PROVE  ChannelTypes' /\ ListTypes'
<1>1. ASSUME UNCHANGED <<events, subs, bpc, view, purges, inbox, lost>>
      PROVE  ChannelTypes' /\ ListTypes'
  BY <1>1, SilentTypes
<1>2. ASSUME NEW j \in Job, Subscribe(c, j), UNCHANGED <<events, bpc, purges, inbox, lost>>
      PROVE  ChannelTypes' /\ ListTypes'
  BY <1>2, SubscribeLists DEF ChannelTypes
<1>3. CASE \E j \in Job : WaitStart(c, j)
  BY <1>2, <1>3 DEF WaitStart
<1>4. CASE StreamSubscribe(c)
  <2>1. target[c] \in Job  BY <1>4 DEF StreamSubscribe, CallInv
  <2> QED BY <1>2, <1>4, <2>1 DEF StreamSubscribe
<1>5. CASE WaitCheck(c) \/ Fetch(c) \/ GiveUp(c) \/ \E j \in Job : StreamCheck(c, j)
  BY <1>1, <1>5 DEF WaitCheck, Fetch, GiveUp, StreamCheck, broadcastVars
<1>6. CASE Wake(c)
  <2>1. UNCHANGED <<events, subs, bpc, view, purges, lost>>
        /\ inbox' = [inbox EXCEPT ![c] = Tail(@)] /\ inbox[c] # <<>>
    BY <1>6 DEF Wake, broadcastVars
  <2>2. Tail(inbox[c]) \in Seq(Status) /\ Len(Tail(inbox[c])) = Len(inbox[c]) - 1
        /\ Len(inbox[c]) \in Nat
    BY <2>1, TailElements DEF ChannelTypes
  <2>3. inbox' \in [Caller -> Seq(Status)] /\ \A d \in Caller : Len(inbox'[d]) <= SubSize
    BY <2>1, <2>2, SubSizeAssumption DEF ChannelTypes
  <2> QED BY <2>1, <2>3, ListsUnchanged DEF ChannelTypes
<1>7. CASE Leave(c)
  <2>1. ListTypes' /\ lost' \subseteq Caller
    BY <1>7, LeaveLists DEF ChannelTypes
  <2>2. UNCHANGED <<events, bpc, purges>> /\ inbox' = [inbox EXCEPT ![c] = <<>>]
    BY <1>7 DEF Leave, Unsubscribe, broadcastVars
  <2>3. inbox' \in [Caller -> Seq(Status)] /\ \A d \in Caller : Len(inbox'[d]) <= SubSize
    BY <2>2, EmptySeq, SubSizeAssumption DEF ChannelTypes
  <2> QED BY <2>1, <2>2, <2>3 DEF ChannelTypes
<1> QED BY <1>3, <1>4, <1>5, <1>6, <1>7 DEF CallStep

(* The channels and lists of a process that has just started. *)
Fresh ==
  /\ events = <<>> /\ subs = [j \in Job |-> NoSubs] /\ bpc = "idle" /\ view = NoView
  /\ purges = [j \in Job |-> 0] /\ inbox = [c \in Caller |-> <<>>] /\ lost = {}

LEMMA FreshTypes == Fresh => ChannelTypes /\ ListTypes
<1> SUFFICES ASSUME Fresh PROVE ChannelTypes /\ ListTypes  OBVIOUS
<1> USE DEF Fresh
<1>1. NoSubs \in List /\ NoSubs.n = 0 /\ Holds(NoSubs.arr, NoSubs.n)
  BY EmptySeq DEF NoSubs, List, Slots, Holds
<1>2. NoView \in View /\ NoView.shared = FALSE /\ NoView.n = 0 /\ NoView.arr = <<>>
  BY EmptySeq DEF NoView, View, Slots, Status
<1>3. ViewArr = <<>> /\ Holds(ViewArr, view.n)
  BY <1>2, EmptySeq DEF ViewArr, Holds
<1>4. ListTypes
  BY <1>1, <1>2, <1>3 DEF ListTypes, List
<1>5. ChannelTypes
  BY EmptySeq, QueueSizeAssumption, SubSizeAssumption DEF ChannelTypes
<1> QED BY <1>4, <1>5

(* Every step keeps the types: the steps of the queue, the broadcaster, the purge, the calls. *)
LEMMA EventsInvStep ==
  ASSUME TypeOK, EventsInv, [EventsNext]_allVars
  PROVE  EventsInv'
<1> SUFFICES ChannelTypes' /\ ListTypes'
  BY CallInvNext DEF EventsInv
<1> USE DEF EventsInv
<1>1. CASE Alive
  BY <1>1, QueueSteps, PurgeTypes, BroadcastTypes, CallTypes DEF Alive
<1>2. CASE ERestart
  <2>1. Fresh'
    BY <1>2 DEF ERestart, Fresh, NoSubs, NoView
  <2> QED BY <2>1, FreshTypes, PTL
<1>3. CASE UNCHANGED allVars
  BY <1>3, SilentTypes DEF allVars, eventVars
<1> QED BY <1>1, <1>2, <1>3 DEF EventsNext

LEMMA EventsInvHolds == EventsSpec => []EventsInv
<1>1. EventsInit => EventsInv
  BY CallInvInit, FreshTypes DEF EventsInit, EventsInv, Fresh
<1> QED BY <1>1, EventsInvStep, Refines, Typing, PTL DEF EventsSpec

(***************************************************************************)
(* The types of JobEvents: the events channel and every inbox stay within  *)
(* their capacity, and each slot that a list or the broadcaster may reach  *)
(* holds a call's channel, whatever subscribes, leaves and is purged while *)
(* the broadcaster walks a list without the lock.                          *)
(***************************************************************************)
THEOREM EventsTyping == EventsSpec => []EventsTypeOK
BY EventsInvHolds, TypesFollow, PTL

-----------------------------------------------------------------------------
(* The wake-up: what each kind of step does to a terminal event on its way. *)

LEMMA SurelyIsComing ==
  ASSUME NEW c \in Caller, SurelyComing(c, target[c]) PROVE Coming(c)
BY DEF SurelyComing, Coming, Ended, Announced, In, Delivering, Ahead, Arrived

(* A step the call does not take itself. *)
LEMMA OthersStep ==
  ASSUME NEW c \in Waiter, NEW k, WaitOK(c), bpc # "panicked",
         target[c] = k, target'[c] = k, callpc'[c] = callpc[c],
         running' => running,
         In(c, k) => In(c, k)' \/ c \in lost',
         c \in lost => c \in lost',
         store'[k] \in Terminal => store[k] \in Terminal \/ Ended(k)',
         callpc[c] = "wait" /\ (In(c, k) \/ c \in lost) /\ SurelyComing(c, k) =>
           SurelyComing(c, k)' \/ c \in lost' \/ ~running' \/ bpc' = "panicked"
  PROVE  WaitOK(c)'
<1>1. In(c, target[c])' <=> In(c, k)'
  BY DEF In
<1>2. SurelyComing(c, target[c])' <=> SurelyComing(c, k)'
  BY DEF SurelyComing, Ended, Announced, In, Delivering, Ahead, Arrived, At
<1>3. Ended(k)' => SurelyComing(c, k)'
  BY DEF SurelyComing
<1> QED BY <1>1, <1>2, <1>3 DEF WaitOK

(* The steps of the queue that announce no end of a job. *)
NoEndAnnounced ==
  \/ \E j \in Job : SubmitCheck(j) \/ SubmitStep(j)
  \/ \E w \in Worker : WorkerStep(w) /\ ~EmitFinished(w)
  \/ \E c \in Client : (ClientStep(c) /\ ~CancelEmit(c)) \/ \E j \in Job : ClientCall(c, j)
  \/ LoaderStep \/ Cleanup \/ Stop \/ UNCHANGED vars

(* A record becomes terminal by whoever will announce it, and who has to announce it does. *)
LEMMA EndsAnnounced ==
  ASSUME TypeOK, CopyStatus, NEW k \in Job, NoEndAnnounced
  PROVE  /\ store'[k] \in Terminal => store[k] \in Terminal \/ Ended(k)'
         /\ Ended(k) => Ended(k)'
         /\ running' => running
<1> USE DEF TypeOK, Save, Terminal, submitVars, workerVars, loaderVars, clientVars, memoryVars, vars
<1>1. ASSUME NEW j \in Job, SubmitCheck(j) \/ SubmitStep(j)
      PROVE  /\ UNCHANGED <<wpc, wcopy, cpc, cjob, running>>
             /\ store'[k] \in Terminal => store[k] \in Terminal
  <2>1. <<j, "submitted">> \in Copy  BY DEF Copy
  <2> QED BY <1>1, <2>1 DEF SubmitCheck, SubmitStep, SubmitSave, SubmitEnqueue, SubmitCount, SubmitEmit,
                            CopyStatus
<1>2. CASE UNCHANGED <<wpc, wcopy, cpc, cjob, running>> /\ (store'[k] \in Terminal => store[k] \in Terminal)
  BY <1>2 DEF Ended, At
<1>3. ASSUME NEW w \in Worker, WorkerStep(w), ~EmitFinished(w)
      PROVE  /\ store'[k] \in Terminal => store[k] \in Terminal \/ Ended(k)'
             /\ Ended(k) => Ended(k)'
             /\ running' => running
  <2> USE DEF Goto
  <2>1. /\ UNCHANGED <<cpc, cjob, running>>
        /\ wpc[w] # "finished" /\ \A v \in Worker : v # w => wpc'[v] = wpc[v] /\ wcopy'[v] = wcopy[v]
    BY <1>3 DEF WorkerStep, Take, CountTaken, CheckCancelled, SaveRunning, EmitStarted, EmitFinished,
                RunTool, SaveResult, Release, ExitWorker
  <2>2. Ended(k) => Ended(k)'
    BY <2>1 DEF Ended, At
  <2>3. CASE SaveResult(w)
    <3>1. CASE wpc'[w] = "finished" /\ JobOf(wcopy[w]) = k
      <4>1. At(w, k, {"finished"})'  BY <2>3, <3>1 DEF SaveResult, At
      <4> QED BY <2>1, <2>2, <4>1 DEF Ended
    <3>2. CASE ~(wpc'[w] = "finished" /\ JobOf(wcopy[w]) = k)
      <4>1. store'[k] = store[k]  BY <2>3, <3>2 DEF SaveResult
      <4> QED BY <2>1, <2>2, <4>1
    <3> QED BY <3>1, <3>2
  <2>4. CASE SaveRunning(w)
    <3>1. store'[k] \in Terminal => store[k] \in Terminal  BY <2>4 DEF SaveRunning, CopyStatus
    <3> QED BY <2>1, <2>2, <3>1
  <2>5. CASE ~SaveResult(w) /\ ~SaveRunning(w)
    <3>1. store' = store
      BY <1>3, <2>5 DEF WorkerStep, Take, CountTaken, CheckCancelled, EmitStarted, RunTool, Release, ExitWorker
    <3> QED BY <2>1, <2>2, <3>1
  <2> QED BY <2>3, <2>4, <2>5
<1>4. ASSUME NEW c \in Client, (ClientStep(c) /\ ~CancelEmit(c)) \/ \E j \in Job : ClientCall(c, j)
      PROVE  /\ store'[k] \in Terminal => store[k] \in Terminal \/ Ended(k)'
             /\ Ended(k) => Ended(k)'
             /\ running' => running
  <2> USE DEF ClientOnly, ClientGoto
  <2>1. /\ UNCHANGED <<wpc, wcopy, running>>
        /\ cpc[c] # "cancelled" /\ \A d \in Client : d # c => cpc'[d] = cpc[d] /\ cjob'[d] = cjob[d]
    BY <1>4 DEF ClientStep, CancelSave, CancelEmit, Delete, ClientCall, CancelGet, GetJob, DeleteJob
  <2>2. Ended(k) => Ended(k)'
    BY <2>1 DEF Ended, At
  <2>3. CASE CancelSave(c)
    <3>1. CASE cpc'[c] = "cancelled" /\ cjob[c] = k
      <4>1. cjob'[c] = k  BY <2>3, <3>1 DEF CancelSave
      <4> QED BY <2>1, <2>2, <3>1, <4>1 DEF Ended
    <3>2. CASE ~(cpc'[c] = "cancelled" /\ cjob[c] = k)
      <4>1. store'[k] = store[k]  BY <2>3, <3>2 DEF CancelSave
      <4> QED BY <2>1, <2>2, <4>1
    <3> QED BY <3>1, <3>2
  <2>4. CASE ~CancelSave(c)
    <3>1. store'[k] \in Terminal => store[k] \in Terminal
      BY <1>4, <2>4 DEF ClientStep, Delete, ClientCall, CancelGet, GetJob, DeleteJob
    <3> QED BY <2>1, <2>2, <3>1
  <2> QED BY <2>3, <2>4
<1>5. LoaderStep \/ Stop \/ UNCHANGED vars =>
        UNCHANGED <<wpc, wcopy, cpc, cjob>> /\ store' = store /\ (running' => running)
  BY DEF LoaderStep, LoadScan, LoadNext, LoadCount, Stop
<1>6. CASE UNCHANGED <<wpc, wcopy, cpc, cjob>> /\ store' = store /\ (running' => running)
  BY <1>6 DEF Ended, At
<1>7. Cleanup => UNCHANGED <<wpc, wcopy, cpc, cjob, running>> /\ (store'[k] \in Terminal => store[k] \in Terminal)
  BY DEF Cleanup
<1> QED BY <1>1, <1>2, <1>3, <1>4, <1>5, <1>6, <1>7 DEF NoEndAnnounced

(* Who has a job and is neither waiting nor about to wait needs nothing. *)
LEMMA NotWaiting ==
  ASSUME NEW c \in Waiter, callpc'[c] \notin {"check", "wait", "subscribe"}
  PROVE  WaitOK(c)'
BY DEF WaitOK

LEMMA WaitingJob ==
  ASSUME CallInv, NEW c \in Waiter, WaitOK(c), callpc'[c] = callpc[c],
         callpc[c] \in {"check", "wait"} => WaitOK(c)'
  PROVE  WaitOK(c)'
BY NotWaiting DEF WaitOK, CallInv, CallPC, Caller

(* A step of the queue without an event, also when it is part of another call's step. *)
LEMMA QuietWait ==
  ASSUME TypeOK, CopyStatus, CallInv, WaitInv, bpc # "panicked", NoEndAnnounced,
         UNCHANGED <<events, subs, bpc, view, inbox, lost>>,
         NEW c \in Waiter, callpc'[c] = callpc[c], target'[c] = target[c]
  PROVE  WaitOK(c)'
<1>1. /\ UNCHANGED <<events, subs, bpc, view, inbox, lost>>
      /\ callpc'[c] = callpc[c] /\ target'[c] = target[c]
  OBVIOUS
<1>2. SUFFICES ASSUME callpc[c] \in {"check", "wait"} PROVE WaitOK(c)'
  BY <1>1, WaitingJob DEF WaitInv
<1>3. PICK k \in Job : target[c] = k /\ target'[c] = k
  BY <1>1, <1>2 DEF CallInv, Caller
<1>4. /\ store'[k] \in Terminal => store[k] \in Terminal \/ Ended(k)'
      /\ Ended(k) => Ended(k)'
      /\ running' => running
  BY <1>3, EndsAnnounced
<1>5. ViewArr' = ViewArr
  BY <1>1 DEF ViewArr
<1>6. /\ In(c, k)' <=> In(c, k)
      /\ Announced(k)' <=> Announced(k)
      /\ Delivering(k)' <=> Delivering(k)
      /\ Ahead(c)' <=> Ahead(c)
      /\ Arrived(c)' <=> Arrived(c)
  BY <1>1, <1>5 DEF In, Announced, Delivering, Ahead, Arrived
<1>7. SurelyComing(c, k) => SurelyComing(c, k)'
  BY <1>4, <1>6 DEF SurelyComing
<1>8. WaitOK(c) /\ target[c] = k /\ target'[c] = k /\ callpc'[c] = callpc[c]
  BY <1>1, <1>3 DEF WaitInv
<1> QED BY <1>1, <1>4, <1>6, <1>7, <1>8, OthersStep

LEMMA SilentWait ==
  ASSUME TypeOK, CopyStatus, CallInv, WaitInv, bpc # "panicked", Silent, NoEndAnnounced,
         NEW c \in Waiter
  PROVE  WaitOK(c)'
BY QuietWait DEF Silent, eventVars

(* A step with an event: a terminal one is announced, or who misses it is recorded. *)
LEMMA EmitWait ==
  ASSUME ChannelTypes, CallInv, WaitInv, bpc # "panicked",
         NEW j \in Job, NEW s \in Status, Emit(j, s),
         \A l \in Job : /\ store'[l] \in Terminal => store[l] \in Terminal \/ Ended(l)'
                        /\ Ended(l) => Ended(l)' \/ (l = j /\ s \in Terminal),
         running' => running,
         NEW c \in Waiter
  PROVE  WaitOK(c)'
<1>1. UNCHANGED <<subs, bpc, view, callpc, target, inbox>> /\ lost \subseteq lost'
  BY DEF Emit, broadcastVars, callVars
<1>2. SUFFICES ASSUME callpc[c] \in {"check", "wait"} PROVE WaitOK(c)'
  BY <1>1, WaitingJob DEF WaitInv
<1>3. PICK k \in Job : target[c] = k /\ target'[c] = k
  BY <1>1, <1>2 DEF CallInv, Caller
<1>4. /\ store'[k] \in Terminal => store[k] \in Terminal \/ Ended(k)'
      /\ Ended(k) => Ended(k)' \/ (k = j /\ s \in Terminal)
  BY <1>3
<1>5. ViewArr' = ViewArr
  BY <1>1 DEF ViewArr
<1>6. /\ In(c, k)' <=> In(c, k)
      /\ Delivering(k)' <=> Delivering(k)
      /\ Ahead(c)' <=> Ahead(c)
      /\ Arrived(c)' <=> Arrived(c)
  BY <1>1, <1>5 DEF In, Delivering, Ahead, Arrived
<1>7. /\ Announced(k) => Announced(k)'
      /\ k = j /\ s \in Terminal => Announced(k)' \/ c \in lost'
  <2>1. CASE events' = Append(events, [job |-> j, status |-> s])
    <3>1. [job |-> j, status |-> s] \in Event  BY DEF Event
    <3>2. /\ DOMAIN events' = DOMAIN events \union {Len(events) + 1}
          /\ \A i \in DOMAIN events : events'[i] = events[i]
          /\ events'[Len(events) + 1] = [job |-> j, status |-> s]
      BY <2>1, <3>1, AppendElements DEF ChannelTypes
    <3> QED BY <3>2 DEF Announced
  <2>2. CASE events' = events /\ (s \in Terminal => Subscribed(j) \subseteq lost')
    <3>1. k = j => c \in Subscribed(j)
      BY <1>2, <1>3 DEF Subscribed, Caller
    <3> QED BY <2>2, <3>1 DEF Announced
  <2> QED BY <2>1, <2>2 DEF Emit
<1>8. (In(c, k) \/ c \in lost) /\ SurelyComing(c, k) => SurelyComing(c, k)' \/ c \in lost'
  BY <1>1, <1>4, <1>6, <1>7 DEF SurelyComing
<1>9. WaitOK(c) /\ target[c] = k /\ target'[c] = k /\ callpc'[c] = callpc[c]
  BY <1>1, <1>3 DEF WaitInv
<1> QED BY <1>1, <1>4, <1>6, <1>8, <1>9, OthersStep

LEMMA QueueWait ==
  ASSUME TypeOK, CopyStatus, ChannelTypes, CallInv, WaitInv, bpc # "panicked",
         \/ \E j \in Job : ESubmit(j)
         \/ \E w \in Worker : EWorker(w)
         \/ \E d \in Client : EClient(d)
         \/ EQuiet,
         NEW c \in Waiter
  PROVE  WaitOK(c)'
<1>1. ASSUME NEW j \in Job, NEW s \in Status, Emit(j, s), NoEndAnnounced PROVE WaitOK(c)'
  <2>1. \A k \in Job : /\ store'[k] \in Terminal => store[k] \in Terminal \/ Ended(k)'
                       /\ Ended(k) => Ended(k)'
                       /\ running' => running
    BY <1>1, EndsAnnounced
  <2> QED BY <1>1, <2>1, EmitWait
<1>2. ASSUME NEW j \in Job, ESubmit(j) PROVE WaitOK(c)'
  <2>1. SubmitSave(j) \/ SubmitEnqueue(j) \/ SubmitCount(j) \/ SubmitEmit(j) => NoEndAnnounced
    BY DEF NoEndAnnounced, SubmitStep
  <2>2. mem[<<j, "submitted">>] \in Status
    BY DEF TypeOK, Copy
  <2> QED BY <1>1, <1>2, <2>1, <2>2, SilentWait DEF ESubmit, EmitCreated
<1>3. ASSUME NEW w \in Worker, EWorker(w) PROVE WaitOK(c)'
  <2>1. CASE wpc[w] # "finished"
    <3>1. WorkerStep(w) /\ ~EmitFinished(w)
      BY <1>3, <2>1, WorkerSteps DEF EmitFinished
    <3>2. NoEndAnnounced
      BY <3>1 DEF NoEndAnnounced
    <3>3. CASE EmitOfWorker(w)
      <4>1. wcopy[w] \in Copy
        BY <3>3 DEF EmitOfWorker, EmitStarted, EmitFinished, TypeOK
      <4>2. JobOf(wcopy[w]) \in Job /\ mem[wcopy[w]] \in Status
        BY <4>1, CopyParts DEF TypeOK
      <4> QED BY <1>1, <3>2, <3>3, <4>2 DEF EmitOfWorker
    <3> QED BY <1>3, <3>2, <3>3, SilentWait DEF EWorker
  <2>2. CASE wpc[w] = "finished"
    <3> DEFINE j == JobOf(wcopy[w])
               s == mem[wcopy[w]]
    <3>1. EmitFinished(w) /\ Emit(j, s)
      BY <1>3, <2>2 DEF EWorker, EmitOfWorker, EmitStarted, Take, CountTaken, CheckCancelled,
                        SaveRunning, RunTool, SaveResult, Release, ExitWorker
    <3>2. j \in Job /\ s \in Terminal /\ s \in Status
      BY <2>2, CopyParts DEF TypeOK, CopyStatus, Terminal, Status
    <3>3. /\ UNCHANGED <<store, running, wcopy, cpc, cjob>>
          /\ \A v \in Worker : v # w => wpc'[v] = wpc[v]
      BY <3>1 DEF EmitFinished, Goto, clientVars, TypeOK
    <3>4. \A k \in Job : Ended(k) => Ended(k)' \/ k = j
      BY <3>3 DEF Ended, At
    <3> QED BY <3>1, <3>2, <3>3, <3>4, EmitWait
  <2> QED BY <2>1, <2>2
<1>4. ASSUME NEW d \in Client, EClient(d) PROVE WaitOK(c)'
  <2>1. CASE EmitCancelled(d)
    <3>1. CancelEmit(d) /\ Emit(cjob[d], "cancelled") /\ cjob[d] \in Job
      BY <2>1 DEF EmitCancelled, CancelEmit, TypeOK
    <3>2. /\ UNCHANGED <<store, running, wcopy, wpc>>
          /\ \A e \in Client : e # d => cpc'[e] = cpc[e] /\ cjob'[e] = cjob[e]
      BY <3>1 DEF CancelEmit, ClientGoto, ClientOnly, workerVars, TypeOK
    <3>3. \A k \in Job : Ended(k) => Ended(k)' \/ k = cjob[d]
      BY <3>2 DEF Ended, At
    <3>4. "cancelled" \in Status /\ "cancelled" \in Terminal
      BY DEF Status, Terminal
    <3> QED BY <3>1, <3>2, <3>3, <3>4, EmitWait
  <2>2. CASE (CancelSave(d) \/ Delete(d)) /\ Silent
    <3>1. ClientStep(d) /\ ~CancelEmit(d)
      BY <2>2 DEF ClientStep, CancelSave, Delete, CancelEmit
    <3> QED BY <2>2, <3>1, SilentWait DEF NoEndAnnounced
  <2> QED BY <1>4, <2>1, <2>2 DEF EClient
<1>5. CASE EQuiet
  <2>1. NoEndAnnounced /\ Silent
    BY <1>5 DEF EQuiet, NoEndAnnounced
  <2> QED BY <2>1, SilentWait
<1> QED BY <1>2, <1>3, <1>4, <1>5

(* Nothing of the queue changes, and no call: only lists, events and inboxes. *)
LEMMA ListStepWait ==
  ASSUME CallInv, WaitInv, bpc # "panicked", UNCHANGED vars, NEW c \in Waiter,
         callpc'[c] = callpc[c], target'[c] = target[c], c \in lost => c \in lost',
         ASSUME NEW k \in Job, target[c] = k, callpc[c] \in {"check", "wait"}
         PROVE  /\ In(c, k) => In(c, k)' \/ c \in lost'
                /\ callpc[c] = "wait" /\ (In(c, k) \/ c \in lost) /\ SurelyComing(c, k) =>
                     SurelyComing(c, k)' \/ c \in lost' \/ ~running' \/ bpc' = "panicked"
  PROVE  WaitOK(c)'
<1>1. SUFFICES ASSUME callpc[c] \in {"check", "wait"} PROVE WaitOK(c)'
  BY WaitingJob DEF WaitInv
<1>2. PICK k \in Job : target[c] = k /\ target'[c] = k
  BY <1>1 DEF CallInv, Caller
<1>3. /\ In(c, k) => In(c, k)' \/ c \in lost'
      /\ callpc[c] = "wait" /\ (In(c, k) \/ c \in lost) /\ SurelyComing(c, k) =>
           SurelyComing(c, k)' \/ c \in lost' \/ ~running' \/ bpc' = "panicked"
  BY <1>1, <1>2
<1>4. store' = store /\ (running' => running) /\ WaitOK(c)
  BY DEF vars, memoryVars, WaitInv
<1> QED BY <1>2, <1>3, <1>4, OthersStep

LEMMA EndedStays ==
  ASSUME UNCHANGED vars, NEW k PROVE Ended(k) => Ended(k)'
BY DEF vars, memoryVars, Ended, At

LEMMA BroadcastWait ==
  ASSUME ChannelTypes, ListTypes, CallInv, WaitInv, bpc # "panicked",
         Broadcast, UNCHANGED vars, NEW c \in Waiter
  PROVE  WaitOK(c)'
<1>1. UNCHANGED <<callpc, target>>
  BY OthersKeepCalls
<1>2. CASE BroadcastTake
  <2>1. /\ UNCHANGED <<subs, inbox, lost>> /\ bpc = "idle"
        /\ events # <<>> /\ events' = Tail(events)
    BY <1>2 DEF BroadcastTake, callVars
  <2>2. ASSUME NEW k \in Job, In(c, k), SurelyComing(c, k) PROVE SurelyComing(c, k)'
    <3>1. In(c, k)' /\ (Arrived(c) => Arrived(c)') /\ ~Delivering(k)
      BY <2>1, <2>2 DEF In, Arrived, Delivering
    <3>2. CASE Announced(k)
      <4>1. PICK i \in DOMAIN events : events[i].job = k /\ events[i].status \in Terminal
        BY <3>2 DEF Announced
      <4>2. CASE i = 1
        <5>1. Head(events).job = k /\ Head(events).status \in Terminal
          BY <2>1, <4>1, <4>2, HeadEvent
        <5>2. bpc' = "deliver" /\ Ahead(c)' /\ view'.job = k /\ view'.status \in Terminal
          BY <1>2, <2>2, <5>1, TakeLists
        <5> QED BY <5>2 DEF SurelyComing, Delivering
      <4>3. CASE i # 1
        <5>1. i - 1 \in DOMAIN events' /\ events'[i - 1] = events[i]
          BY <2>1, <4>3, HeadEvent
        <5>2. Announced(k)'
          BY <4>1, <5>1 DEF Announced
        <5> QED BY <3>1, <5>2 DEF SurelyComing
      <4> QED BY <4>2, <4>3
    <3> QED BY <2>2, <3>1, <3>2, EndedStays DEF SurelyComing
  <2>3. \A k \in Job : In(c, k) => In(c, k)'
    BY <2>1 DEF In
  <2> QED BY <1>1, <2>1, <2>2, <2>3, ListStepWait
<1>3. CASE Deliver
  <2> DEFINE r == ViewArr[view.pos]
  <2>1. /\ UNCHANGED <<subs, events>> /\ lost \subseteq lost'
        /\ view.pos \in Nat \ {0} /\ view.n \in Nat /\ view.pos <= view.n /\ r \in Caller
    BY <1>3 DEF Deliver, ListTypes, View, Holds
  <2>2. ASSUME NEW k \in Job, callpc[c] = "wait", SurelyComing(c, k), bpc' # "panicked"
        PROVE  SurelyComing(c, k)' \/ c \in lost'
    <3>1. /\ callpc[r] # "done" /\ bpc' = bpc /\ view' = [view EXCEPT !.pos = view.pos + 1]
          /\ \/ inbox' = [inbox EXCEPT ![r] = Append(@, view.status)]
             \/ inbox' = inbox /\ lost' = IF view.status \in Terminal THEN lost \union {r} ELSE lost
      BY <1>3, <2>2 DEF Deliver
    <3>2. /\ view'.pos = view.pos + 1 /\ view'.n = view.n /\ view'.job = view.job
          /\ view'.status = view.status /\ view'.shared = view.shared /\ view'.arr = view.arr
      BY <3>1 DEF ListTypes, View
    <3>3. ViewArr' = ViewArr
      BY <2>1, <3>2 DEF ViewArr
    <3>4. (In(c, k) => In(c, k)') /\ (Announced(k) => Announced(k)') /\ (Ended(k) => Ended(k)')
      BY <2>1, EndedStays DEF In, Announced
    <3>5. /\ Arrived(c) => Arrived(c)'
          /\ r = c /\ view.status \in Terminal => Arrived(c)' \/ c \in lost'
      <4>1. CASE inbox' = [inbox EXCEPT ![r] = Append(@, view.status)]
        <5>1. view.status \in Status /\ inbox[r] \in Seq(Status) /\ c \in Caller
          BY <2>1 DEF ListTypes, View, ChannelTypes, Caller
        <5>2. /\ DOMAIN inbox'[r] = DOMAIN inbox[r] \union {Len(inbox[r]) + 1}
              /\ \A i \in DOMAIN inbox[r] : inbox'[r][i] = inbox[r][i]
              /\ inbox'[r][Len(inbox[r]) + 1] = view.status
          BY <2>1, <4>1, <5>1, AppendElements DEF ChannelTypes
        <5>3. r # c => inbox'[c] = inbox[c]
          BY <4>1, <5>1 DEF ChannelTypes
        <5> QED BY <5>2, <5>3 DEF Arrived
      <4>2. CASE inbox' = inbox /\ lost' = IF view.status \in Terminal THEN lost \union {r} ELSE lost
        BY <4>2 DEF Arrived
      <4> QED BY <3>1, <4>1, <4>2
    <3>6. CASE Delivering(k) /\ Ahead(c)
      <4>1. PICK i \in view.pos..view.n : ViewArr[i] = c /\ (view.shared => i <= subs[view.job].n)
        BY <3>6 DEF Ahead
      <4>2. CASE i = view.pos
        BY <3>5, <3>6, <4>1, <4>2 DEF Delivering, SurelyComing
      <4>3. CASE i # view.pos
        <5>1. i \in view'.pos..view'.n
          BY <2>1, <3>2, <4>3
        <5>2. Ahead(c)' /\ Delivering(k)'
          BY <2>1, <3>1, <3>2, <3>3, <3>6, <4>1, <5>1 DEF Ahead, Delivering
        <5> QED BY <5>2 DEF SurelyComing
      <4> QED BY <4>2, <4>3
    <3> QED BY <2>2, <3>4, <3>5, <3>6 DEF SurelyComing
  <2>3. \A k \in Job : In(c, k) => In(c, k)'
    BY <2>1 DEF In
  <2> QED BY <1>1, <2>1, <2>2, <2>3, ListStepWait
<1>4. CASE BroadcastEnd
  <2>1. UNCHANGED <<subs, events, inbox, lost>> /\ view.pos > view.n
        /\ view.pos \in Nat \ {0} /\ view.n \in Nat
    BY <1>4 DEF BroadcastEnd, callVars, ListTypes, View
  <2>2. ~Ahead(c)
    BY <2>1 DEF Ahead
  <2>3. ASSUME NEW k \in Job, SurelyComing(c, k) PROVE SurelyComing(c, k)'
    BY <2>1, <2>2, <2>3, EndedStays DEF SurelyComing, In, Announced, Arrived
  <2>4. \A k \in Job : In(c, k) => In(c, k)'
    BY <2>1 DEF In
  <2> QED BY <1>1, <2>1, <2>3, <2>4, ListStepWait
<1>5. CASE BroadcastExit
  <2>1. UNCHANGED <<subs, events, inbox, lost>> /\ ~running'
    BY <1>5 DEF BroadcastExit, callVars, vars, memoryVars
  <2>2. \A k \in Job : In(c, k) => In(c, k)'
    BY <2>1 DEF In
  <2> QED BY <1>1, <2>1, <2>2, ListStepWait
<1> QED BY <1>2, <1>3, <1>4, <1>5 DEF Broadcast

LEMMA PurgeWait ==
  ASSUME ListTypes, CallInv, WaitInv, bpc # "panicked", NEW j \in Job, Purge(j), UNCHANGED vars,
         NEW c \in Waiter
  PROVE  WaitOK(c)'
<1>1. UNCHANGED <<events, bpc, callpc, target, inbox>> /\ lost \subseteq lost'
  BY PurgeLists DEF Purge, callVars
<1>2. \A k \in Job : In(c, k) => In(c, k)' \/ c \in lost'
  BY PurgeLists
<1>3. ASSUME NEW k \in Job, SurelyComing(c, k) PROVE SurelyComing(c, k)' \/ c \in lost'
  <2>1. Delivering(k) /\ Ahead(c) => Delivering(k)' /\ Ahead(c)'
    BY <1>1, PurgeLists DEF Delivering
  <2> QED BY <1>1, <1>2, <1>3, <2>1, EndedStays DEF SurelyComing, Announced, Arrived
<1> QED BY <1>1, <1>2, <1>3, ListStepWait

(* A read of a job announces nothing and leaves every record as it is. *)
LEMMA ReadQuiet ==
  ASSUME NEW j \in Job, Read(j) PROVE NoEndAnnounced /\ store' = store
BY DEF Read, NoEndAnnounced, ClientCall, GetJob, vars

(* The call's own steps: it looks only after it has subscribed. *)
LEMMA OwnStepWait ==
  ASSUME ChannelTypes, ListTypes, CallInv, WaitInv, bpc # "panicked", NEW c \in Waiter,
         CallStep(c) \/ GiveUp(c) \/ \E j \in Job : WaitStart(c, j) \/ StreamCheck(c, j)
  PROVE  WaitOK(c)'
<1> USE DEF CallGoto
<1>1. c \in Caller /\ c \notin Streamer /\ WaitOK(c)
      /\ callpc \in [Caller -> CallPC] /\ target \in [Caller -> Job \union {None}]
  BY CallerAssumption DEF Caller, WaitInv, CallInv
<1>2. ASSUME NEW j \in Job, WaitStart(c, j) PROVE WaitOK(c)'
  <2>1. Subscribe(c, j) /\ bpc' = bpc /\ callpc'[c] = "check" /\ target'[c] = j
    BY <1>1, <1>2 DEF WaitStart
  <2>2. In(c, j)'
    BY <1>1, <2>1, SubscribeLists
  <2> QED BY <2>1, <2>2 DEF WaitOK, In
<1>3. CASE WaitCheck(c)
  <2>1. PICK k \in Job : target[c] = k
    BY <1>1, <1>3 DEF WaitCheck, CallInv
  <2>2. /\ store' = store /\ UNCHANGED <<subs, lost>> /\ target'[c] = k
        /\ callpc[c] = "check"
        /\ callpc'[c] = IF store[k] \in {"pending", "running"} THEN "wait" ELSE "leave"
    BY <1>1, <1>3, <2>1, ReadQuiet DEF WaitCheck
  <2>3. In(c, k)' \/ c \in lost'
    BY <1>1, <2>1, <2>2 DEF WaitOK, In
  <2> QED BY <2>2, <2>3 DEF WaitOK, In, Terminal
<1>4. CASE Wake(c)
  <2>1. /\ UNCHANGED <<vars, events, subs, bpc, view, target, lost>>
        /\ callpc[c] = "wait" /\ inbox[c] # <<>> /\ inbox'[c] = Tail(inbox[c])
    BY <1>1, <1>4 DEF Wake, broadcastVars, ChannelTypes
  <2>2. CASE Head(inbox[c]) \notin Terminal /\ callpc' = callpc
    <3>1. PICK k \in Job : target[c] = k /\ target'[c] = k
      BY <1>1, <2>1 DEF CallInv
    <3>2. inbox[c] \in Seq(Status)
      BY <1>1 DEF ChannelTypes
    <3>3. /\ Head(inbox[c]) = inbox[c][1] /\ DOMAIN inbox[c] = 1..Len(inbox[c])
          /\ Len(inbox[c]) \in Nat \ {0} /\ DOMAIN Tail(inbox[c]) = 1..(Len(inbox[c]) - 1)
          /\ \A i \in DOMAIN Tail(inbox[c]) : Tail(inbox[c])[i] = inbox[c][i + 1]
      BY <2>1, <3>2, TailElements
    <3>4. Arrived(c) => Arrived(c)'
      <4>1. SUFFICES ASSUME NEW i \in DOMAIN inbox[c], inbox[c][i] \in Terminal PROVE Arrived(c)'
        BY DEF Arrived
      <4>2. i # 1
        BY <2>2, <3>3, <4>1
      <4>3. i - 1 \in DOMAIN Tail(inbox[c]) /\ (i - 1) + 1 = i
        BY <3>3, <4>2
      <4>4. Tail(inbox[c])[i - 1] = inbox[c][i]
        BY <3>3, <4>3
      <4> QED BY <2>1, <4>1, <4>3, <4>4 DEF Arrived
    <3>5. ViewArr' = ViewArr
      BY <2>1 DEF ViewArr
    <3>6. SurelyComing(c, k) => SurelyComing(c, k)'
      BY <2>1, <3>4, <3>5, EndedStays DEF SurelyComing, Announced, In, Delivering, Ahead
    <3>7. In(c, k) => In(c, k)'
      BY <2>1 DEF In
    <3>8. store' = store /\ (running' => running)
      BY <2>1 DEF vars, memoryVars
    <3> QED BY <1>1, <2>1, <2>2, <3>1, <3>6, <3>7, <3>8, OthersStep
  <2>3. CASE ~(Head(inbox[c]) \notin Terminal /\ callpc' = callpc)
    BY <1>1, <1>4, <2>3, NotWaiting DEF Wake
  <2> QED BY <2>2, <2>3
<1>5. ~ \E j \in Job : StreamCheck(c, j)
  BY <1>1 DEF StreamCheck
<1>6. ~StreamSubscribe(c)
  BY <1>1 DEF StreamSubscribe, WaitOK
<1>7. CASE Fetch(c) \/ GiveUp(c) \/ Leave(c)
  BY <1>1, <1>7, NotWaiting DEF Fetch, GiveUp, Leave, Unsubscribe
<1> QED BY <1>2, <1>3, <1>4, <1>5, <1>6, <1>7 DEF CallStep

(* The steps of the other calls. *)
LEMMA OtherCallWait ==
  ASSUME TypeOK, CopyStatus, ChannelTypes, ListTypes, CallInv, WaitInv, bpc # "panicked",
         NEW d \in Caller,
         CallStep(d) \/ GiveUp(d) \/ \E j \in Job : WaitStart(d, j) \/ StreamCheck(d, j),
         NEW c \in Waiter, c # d
  PROVE  WaitOK(c)'
<1> USE DEF CallGoto
<1>1. callpc'[c] = callpc[c] /\ target'[c] = target[c] /\ c \in Caller
  BY DEF CallStep, WaitCheck, Fetch, StreamSubscribe, Wake, Leave, Unsubscribe, GiveUp,
         WaitStart, StreamCheck, CallInv, Caller
<1>2. ASSUME NEW j \in Job, Read(j), UNCHANGED <<events, subs, bpc, view, inbox, lost>>
      PROVE  WaitOK(c)'
  BY <1>1, <1>2, ReadQuiet, QuietWait
<1>3. CASE WaitCheck(d) \/ Fetch(d)
  <2>1. target[d] \in Job
    BY <1>3 DEF WaitCheck, Fetch, CallInv
  <2> QED BY <1>2, <1>3, <2>1 DEF WaitCheck, Fetch, broadcastVars
<1>4. CASE \E j \in Job : StreamCheck(d, j)
  BY <1>2, <1>4 DEF StreamCheck, broadcastVars
<1>5. CASE GiveUp(d)
  <2>1. NoEndAnnounced /\ UNCHANGED <<events, subs, bpc, view, inbox, lost>>
    BY <1>5 DEF GiveUp, NoEndAnnounced, broadcastVars
  <2> QED BY <1>1, <2>1, QuietWait
<1>6. ASSUME NEW j \in Job, Subscribe(d, j), UNCHANGED <<vars, events, bpc, inbox, lost>>
      PROVE  WaitOK(c)'
  <2>1. \A k \in Job : In(c, k) => In(c, k)'
    BY <1>6, SubscribeLists
  <2>2. ASSUME NEW k \in Job, SurelyComing(c, k) PROVE SurelyComing(c, k)'
    <3>1. Delivering(k) /\ Ahead(c) => Delivering(k)' /\ Ahead(c)'
      BY <1>6, SubscribeLists DEF Delivering
    <3> QED BY <1>6, <2>1, <2>2, <3>1, EndedStays DEF SurelyComing, Announced, Arrived
  <2> QED BY <1>1, <1>6, <2>1, <2>2, ListStepWait
<1>7. CASE \E j \in Job : WaitStart(d, j)
  BY <1>6, <1>7 DEF WaitStart
<1>8. CASE StreamSubscribe(d)
  <2>1. target[d] \in Job
    BY <1>8 DEF StreamSubscribe, CallInv
  <2> QED BY <1>6, <1>8, <2>1 DEF StreamSubscribe
<1>9. CASE Wake(d)
  <2>1. UNCHANGED <<vars, events, subs, bpc, view, lost>> /\ inbox'[c] = inbox[c]
    BY <1>1, <1>9 DEF Wake, broadcastVars, ChannelTypes
  <2>2. ViewArr' = ViewArr
    BY <2>1 DEF ViewArr
  <2>3. ASSUME NEW k \in Job
        PROVE  (In(c, k) => In(c, k)') /\ (SurelyComing(c, k) => SurelyComing(c, k)')
    BY <2>1, <2>2, EndedStays DEF In, SurelyComing, Announced, Delivering, Ahead, Arrived
  <2> QED BY <1>1, <2>1, <2>3, ListStepWait
<1>10. CASE Leave(d)
  <2>1. /\ UNCHANGED <<vars, events, bpc, view>> /\ inbox'[c] = inbox[c]
        /\ c \in lost => c \in lost'
    BY <1>1, <1>10, LeaveLists DEF Leave, Unsubscribe, broadcastVars, ChannelTypes
  <2>2. \A k \in Job : In(c, k) => In(c, k)'
    BY <1>10, LeaveLists
  <2>3. ASSUME NEW k \in Job, SurelyComing(c, k) PROVE SurelyComing(c, k)' \/ c \in lost'
    <3>1. Delivering(k) /\ Ahead(c) => (Delivering(k)' /\ Ahead(c)') \/ c \in lost'
      BY <1>10, <2>1, LeaveLists DEF Delivering
    <3> QED BY <2>1, <2>2, <2>3, <3>1, EndedStays DEF SurelyComing, Announced, Arrived
  <2> QED BY <1>1, <2>1, <2>2, <2>3, ListStepWait
<1> QED BY <1>3, <1>4, <1>5, <1>7, <1>8, <1>9, <1>10 DEF CallStep

LEMMA WaitInvStep ==
  ASSUME TypeOK, CopyStatus, EventsInv, WaitInv, [EventsNext]_allVars
  PROVE  WaitInv'
<1> SUFFICES ASSUME NEW c \in Waiter PROVE WaitOK(c)'
  BY DEF WaitInv
<1> USE DEF EventsInv
<1>1. CASE bpc # "panicked" /\ Alive
  <2>1. ASSUME NEW d \in Caller,
               CallStep(d) \/ GiveUp(d) \/ \E j \in Job : WaitStart(d, j) \/ StreamCheck(d, j)
        PROVE  WaitOK(c)'
    BY <1>1, <2>1, OwnStepWait, OtherCallWait
  <2> QED BY <1>1, <2>1, QueueWait, PurgeWait, BroadcastWait DEF Alive
<1>2. CASE ERestart
  <2>1. c \in Caller  BY DEF Caller
  <2>2. callpc'[c] \in {"new", "done"}  BY <1>2, <2>1 DEF ERestart
  <2> QED BY <2>2, NotWaiting
<1>3. CASE UNCHANGED allVars
  <2>1. UNCHANGED <<callpc, target, subs, events, bpc, view, inbox, lost, store, running, vars>>
    BY <1>3 DEF allVars, eventVars, vars, memoryVars
  <2>2. ViewArr' = ViewArr
    BY <2>1 DEF ViewArr
  <2>3. \A k : Ended(k) => Ended(k)'
    BY <2>1, EndedStays
  <2>4. WaitOK(c)
    BY DEF WaitInv
  <2> QED BY <2>1, <2>2, <2>3, <2>4 DEF WaitOK, SurelyComing, Ended, At, In, Announced, Delivering, Ahead, Arrived,
                                        vars, memoryVars
<1> QED BY <1>1, <1>2, <1>3 DEF EventsNext

LEMMA WaitInvHolds == EventsSpec => []WaitInv
<1>1. EventsInit => WaitInv
  BY DEF EventsInit, WaitInv, WaitOK, Caller
<1>2. EventsSpec => [](TypeOK /\ CopyStatus)
  BY Refines, Typing, CopyStatusHolds, PTL
<1> QED BY <1>1, <1>2, WaitInvStep, EventsInvHolds, PTL DEF EventsSpec

(***************************************************************************)
(* WaitForJob loses no wake-up: while a call waits for a job that has      *)
(* ended, the terminal event is still to be sent, in the channel, ahead in *)
(* the broadcaster's walk or in the inbox, unless a full channel, a purge  *)
(* or a shift under the broadcaster lost it, or the queue was stopped. The *)
(* call subscribes before it looks, and only a worker or a cancel that     *)
(* will announce it ends a job.                                            *)
(***************************************************************************)
THEOREM NoWakeupLost == EventsSpec => []NoLostWakeup
<1>1. WaitInv => NoLostWakeup
  <2> SUFFICES ASSUME WaitInv, NEW c \in Waiter, callpc[c] = "wait", store[target[c]] \in Terminal
               PROVE  Coming(c) \/ c \in lost \/ ~running \/ bpc = "panicked"
    BY DEF NoLostWakeup
  <2> QED BY SurelyIsComing DEF WaitInv, WaitOK, Caller
<1> QED BY <1>1, WaitInvHolds, PTL
==============================================================================
