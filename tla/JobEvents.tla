------------------------------ MODULE JobEvents -----------------------------
(***************************************************************************)
(* What internal/jobs does with the events of the queue of JobQueue:       *)
(* emitEvent, the broadcaster and the subscriber lists (queue.go), and the *)
(* calls that subscribe: WaitForJob (manager.go), StreamJob and            *)
(* CollectJobEvents (sse.go). Every step here is a step of JobQueue or     *)
(* leaves its variables alone, so what holds of JobQueue holds here.       *)
(*                                                                         *)
(* The subscriber list of a job is a Go slice, and the broadcaster walks   *)
(* it without the lock: the list is modelled with its backing array, that  *)
(* unsubscribe shifts in place and that append reuses or replaces.         *)
(***************************************************************************)
EXTENDS JobQueue

CONSTANTS
  Waiter,       \* calls of WaitForJob
  Streamer,     \* calls of StreamJob or CollectJobEvents
  SubSize       \* capacity of a subscriber's channel: 10

ASSUME CallerAssumption == Waiter \intersect Streamer = {} /\ None \notin Waiter \union Streamer
ASSUME SubSizeAssumption == SubSize \in Nat \ {0}

Caller == Waiter \union Streamer

VARIABLES
  events,       \* the events channel: its capacity is QueueSize too
  subs,         \* q.subscribers: per job the backing array and the length
  bpc, view,    \* the broadcaster, and the event and slice it works on
  purges,       \* per job, sleeping goroutines that will delete its list
  callpc,       \* where each call is
  target,       \* the job each call is about
  inbox,        \* the channel of each call
  lost          \* history: calls a terminal event of their job will not reach

eventVars == <<events, subs, bpc, view, purges, callpc, target, inbox, lost>>
broadcastVars == <<bpc, view, purges>>
callVars == <<callpc, target, inbox>>
allVars == <<vars, eventVars>>

NoSubs == [arr |-> <<>>, n |-> 0]
NoView == [job |-> None, status |-> "pending", n |-> 0, shared |-> FALSE,
           arr |-> <<>>, pos |-> 1]

EventsInit ==
  /\ Init
  /\ events = <<>>
  /\ subs = [j \in Job |-> NoSubs]
  /\ bpc = "idle"
  /\ view = NoView
  /\ purges = [j \in Job |-> 0]
  /\ callpc = [c \in Caller |-> "new"]
  /\ target = [c \in Caller |-> None]
  /\ inbox = [c \in Caller |-> <<>>]
  /\ lost = {}

-----------------------------------------------------------------------------
(* The steps of JobQueue, and the events they send. *)

(* Calls that are subscribed to the job. *)
Subscribed(j) == {c \in Caller : target[c] = j /\ callpc[c] \in {"check", "wait"}}

(* Mutant: the events channel has no bound. *)
EmitUnbounded(j, status) ==
  /\ events' = Append(events, [job |-> j, status |-> status])
  /\ UNCHANGED <<subs, broadcastVars, callVars, lost>>

(* emitEvent: never blocks; a full channel drops the event. *)
Emit(j, status) ==
  /\ \/ /\ Len(events) < QueueSize
        /\ events' = Append(events, [job |-> j, status |-> status])
        /\ UNCHANGED lost
     \/ /\ Len(events) >= QueueSize
        /\ lost' = IF status \in Terminal THEN lost \union Subscribed(j) ELSE lost
        /\ UNCHANGED events
  /\ UNCHANGED <<subs, broadcastVars, callVars>>

(* The event is built from the object a worker may already have written to. *)
EmitCreated(j) == SubmitEmit(j) /\ Emit(j, mem[<<j, "submitted">>])

EmitOfWorker(w) ==
  /\ EmitStarted(w) \/ EmitFinished(w)
  /\ Emit(JobOf(wcopy[w]), mem[wcopy[w]])

EmitCancelled(c) == CancelEmit(c) /\ Emit(cjob[c], "cancelled")

Silent == UNCHANGED eventVars

ESubmit(j) ==
  \/ (SubmitSave(j) \/ SubmitEnqueue(j) \/ SubmitCount(j)) /\ Silent
  \/ EmitCreated(j)

EWorker(w) ==
  \/ /\ \/ Take(w) \/ CountTaken(w) \/ CheckCancelled(w) \/ SaveRunning(w)
        \/ RunTool(w) \/ SaveResult(w) \/ Release(w) \/ ExitWorker(w)
     /\ Silent
  \/ EmitOfWorker(w)

EClient(c) ==
  \/ (CancelSave(c) \/ Delete(c)) /\ Silent
  \/ EmitCancelled(c)

(* What needs nobody's event: requests, the loader, the cleanup, Stop. *)
EQuiet ==
  /\ \/ \E j \in Job : SubmitCheck(j)
     \/ \E c \in Client, j \in Job : ClientCall(c, j)
     \/ LoaderStep \/ Cleanup \/ Stop
  /\ Silent

-----------------------------------------------------------------------------
(* Subscriber lists. *)

(* The list gets a new backing array: a broadcaster in it keeps the old one. *)
Detach(j) ==
  view' = IF view.shared /\ view.job = j
          THEN [view EXCEPT !.shared = FALSE, !.arr = subs[j].arr]
          ELSE view

(* append with a full backing array: twice the capacity, at least one. *)
Grown(s, c) ==
  [i \in 1..(IF s.n = 0 THEN 1 ELSE 2 * s.n) |->
     IF i <= s.n THEN s.arr[i] ELSE IF i = s.n + 1 THEN c ELSE None]

Subscribe(c, j) ==
  LET s == subs[j]
  IN  IF s.n < Len(s.arr)
      THEN /\ subs' = [subs EXCEPT ![j] = [arr |-> [s.arr EXCEPT ![s.n + 1] = c], n |-> s.n + 1]]
           /\ UNCHANGED view
      ELSE /\ subs' = [subs EXCEPT ![j] = [arr |-> Grown(s, c), n |-> s.n + 1]]
           /\ Detach(j)

(* append(subs[:i], subs[i+1:]...): the rest moves down, the last slot keeps its value. *)
ShiftedAt(s, i) ==
  [arr |-> [k \in DOMAIN s.arr |-> IF i <= k /\ k < s.n THEN s.arr[k + 1] ELSE s.arr[k]],
   n   |-> s.n - 1]

(* The subscriber a shift at i moves behind a broadcaster with a terminal event. *)
SkippedAt(j, s, i) ==
  IF /\ view.shared /\ view.job = j /\ view.status \in Terminal
     /\ i < view.pos /\ view.pos <= s.n /\ view.pos <= view.n
  THEN {s.arr[view.pos]} ELSE {}

(* unsubscribe, and the close of the channel: the call is over. *)
Unsubscribe(c) ==
  LET j == target[c]
      s == subs[j]
      places == {i \in 1..s.n : s.arr[i] = c}
  IN  /\ callpc' = [callpc EXCEPT ![c] = "done"]
      /\ target' = [target EXCEPT ![c] = None]
      /\ inbox' = [inbox EXCEPT ![c] = <<>>]
      /\ \/ \E i \in places : /\ subs' = [subs EXCEPT ![j] = ShiftedAt(s, i)]
                          /\ lost' = (lost \union SkippedAt(j, s, i)) \ {c}
         \/ places = {} /\ UNCHANGED subs /\ lost' = lost \ {c}

-----------------------------------------------------------------------------
(* The broadcaster. *)

(* After a terminal event a goroutine sleeps and then deletes the job's list. *)
WillPurge(j, status) ==
  purges' = IF status \in Terminal THEN [purges EXCEPT ![j] = @ + 1] ELSE purges

(* It reads the slice header under the lock, and only that; with no subscriber it is done. *)
BroadcastTake ==
  /\ bpc = "idle"
  /\ events # <<>>
  /\ LET e == Head(events)
         n == subs[e.job].n
     IN  \/ /\ n > 0
            /\ view' = [job |-> e.job, status |-> e.status, n |-> n,
                        shared |-> TRUE, arr |-> <<>>, pos |-> 1]
            /\ bpc' = "deliver"
            /\ UNCHANGED purges
         \/ /\ n = 0
            /\ WillPurge(e.job, e.status)
            /\ UNCHANGED <<view, bpc>>
  /\ events' = Tail(events)
  /\ UNCHANGED <<subs, callVars, lost>>

ViewArr == IF view.shared THEN subs[view.job].arr ELSE view.arr

(* Mutant: the loop ends with the first subscriber that takes the event. *)
DeliverFirst ==
  LET c == ViewArr[view.pos]
  IN  /\ bpc = "deliver" /\ view.pos <= view.n
      /\ callpc[c] # "done" /\ Len(inbox[c]) < SubSize
      /\ inbox' = [inbox EXCEPT ![c] = Append(@, view.status)]
      /\ view' = [view EXCEPT !.pos = view.n + 1]
      /\ UNCHANGED <<events, subs, bpc, purges, callpc, target, lost>>

(***************************************************************************)
(* One iteration of the delivery loop: the send never blocks, a full inbox *)
(* loses the event, a closed channel panics and the whole process with it. *)
(***************************************************************************)
Deliver ==
  LET c == ViewArr[view.pos]
  IN  /\ bpc = "deliver" /\ view.pos <= view.n
      /\ \/ /\ callpc[c] = "done"
            /\ bpc' = "panicked"
            /\ UNCHANGED <<view, inbox, lost>>
         \/ /\ callpc[c] # "done"
            /\ view' = [view EXCEPT !.pos = view.pos + 1]
            /\ IF Len(inbox[c]) < SubSize
               THEN inbox' = [inbox EXCEPT ![c] = Append(@, view.status)] /\ UNCHANGED lost
               ELSE /\ lost' = IF view.status \in Terminal THEN lost \union {c} ELSE lost
                    /\ UNCHANGED inbox
            /\ UNCHANGED bpc
      /\ UNCHANGED <<events, subs, purges, callpc, target>>

BroadcastEnd ==
  /\ bpc = "deliver" /\ view.pos > view.n
  /\ WillPurge(view.job, view.status)
  /\ bpc' = "idle" /\ view' = NoView
  /\ UNCHANGED <<events, subs, callVars, lost>>

BroadcastExit ==
  /\ bpc = "idle" /\ ~running
  /\ bpc' = "exited"
  /\ UNCHANGED <<events, subs, view, purges, callVars, lost>>

Broadcast == BroadcastTake \/ Deliver \/ BroadcastEnd \/ BroadcastExit

(* It deletes whatever list the job has by then. *)
Purge(j) ==
  /\ purges[j] > 0
  /\ purges' = [purges EXCEPT ![j] = @ - 1]
  /\ lost' = lost \union {subs[j].arr[i] : i \in 1..subs[j].n}
  /\ subs' = [subs EXCEPT ![j] = NoSubs]
  /\ Detach(j)
  /\ UNCHANGED <<events, bpc, callVars>>

-----------------------------------------------------------------------------
(* The calls. *)

CallGoto(c, pc) == callpc' = [callpc EXCEPT ![c] = pc]

(* JobManager.GetJob: reading a completed job may start a deletion. *)
Read(j) ==
  IF AutoDelete /\ store[j] = "completed"
  THEN \E c \in Client : GetJob(c, j)
  ELSE UNCHANGED vars

(* Whoever asks for a job has its id from CreateJob or from a stored record. *)
Known(j) == submit[j] \notin {"new", "save"}

(* WaitForJob subscribes before it looks. *)
WaitStart(c, j) ==
  /\ c \in Waiter /\ callpc[c] = "new" /\ Known(j)
  /\ Subscribe(c, j)
  /\ target' = [target EXCEPT ![c] = j]
  /\ CallGoto(c, "check")
  /\ UNCHANGED <<vars, events, bpc, purges, inbox, lost>>

(* Mutant: WaitForJob does not look at the job before it waits. *)
WaitBlind(c) ==
  /\ c \in Waiter /\ callpc[c] = "check"
  /\ CallGoto(c, "wait")
  /\ UNCHANGED <<vars, events, subs, broadcastVars, target, inbox, lost>>

WaitCheck(c) ==
  LET status == store[target[c]]
  IN  /\ c \in Waiter /\ callpc[c] = "check"
      /\ Read(target[c])
      /\ CallGoto(c, IF status \in {"pending", "running"} THEN "wait" ELSE "leave")
      /\ UNCHANGED <<events, subs, broadcastVars, target, inbox, lost>>

(* Mutant: WaitForJob deletes the job it returns, whatever the configuration. *)
FetchDeletes(c) ==
  /\ callpc[c] = "fetch"
  /\ Save(target[c], "absent") /\ UNCHANGED memoryVars
  /\ CallGoto(c, "leave")
  /\ UNCHANGED <<events, subs, broadcastVars, target, inbox, lost>>

(* WaitForJob and CollectJobEvents return the record as it is now. *)
Fetch(c) ==
  /\ callpc[c] = "fetch"
  /\ Read(target[c])
  /\ CallGoto(c, "leave")
  /\ UNCHANGED <<events, subs, broadcastVars, target, inbox, lost>>

(* StreamJob looks, and subscribes afterwards. *)
StreamCheck(c, j) ==
  LET status == store[j]
  IN  /\ c \in Streamer /\ callpc[c] = "new" /\ Known(j)
      /\ Read(j)
      /\ target' = [target EXCEPT ![c] = j]
      /\ CallGoto(c, IF status \in {"pending", "running"} THEN "subscribe" ELSE "done")
      /\ UNCHANGED <<events, subs, broadcastVars, inbox, lost>>

StreamSubscribe(c) ==
  /\ callpc[c] = "subscribe"
  /\ Subscribe(c, target[c])
  /\ CallGoto(c, "wait")
  /\ UNCHANGED <<vars, events, bpc, purges, target, inbox, lost>>

(* An event arrives; after a terminal one StreamJob returns, the others fetch the job. *)
Wake(c) ==
  /\ callpc[c] = "wait" /\ inbox[c] # <<>>
  /\ inbox' = [inbox EXCEPT ![c] = Tail(@)]
  /\ \/ Head(inbox[c]) \notin Terminal /\ UNCHANGED callpc
     \/ Head(inbox[c]) \in Terminal /\ CallGoto(c, "fetch")
     \/ Head(inbox[c]) \in Terminal /\ c \in Streamer /\ CallGoto(c, "leave")
  /\ UNCHANGED <<vars, events, subs, broadcastVars, target, lost>>

(* The timer, or the end of the request's context: CollectJobEvents still fetches. *)
GiveUp(c) ==
  /\ callpc[c] = "wait"
  /\ CallGoto(c, "leave") \/ (c \in Streamer /\ CallGoto(c, "fetch"))
  /\ UNCHANGED <<vars, events, subs, broadcastVars, target, inbox, lost>>

Leave(c) ==
  /\ callpc[c] = "leave"
  /\ Unsubscribe(c)
  /\ UNCHANGED <<vars, events, broadcastVars>>

CallStep(c) == WaitCheck(c) \/ Fetch(c) \/ StreamSubscribe(c) \/ Wake(c) \/ Leave(c)

-----------------------------------------------------------------------------
(* The process starts again: channels, lists and calls are gone. *)
ERestart ==
  /\ Restart
  /\ events' = <<>> /\ subs' = [j \in Job |-> NoSubs]
  /\ bpc' = "idle" /\ view' = NoView /\ purges' = [j \in Job |-> 0]
  /\ callpc' = [c \in Caller |-> IF callpc[c] = "new" THEN "new" ELSE "done"]
  /\ inbox' = [c \in Caller |-> <<>>]
  /\ lost' = {}
  /\ UNCHANGED target

Alive ==
  \/ \E j \in Job : ESubmit(j) \/ (Purge(j) /\ UNCHANGED vars)
  \/ \E w \in Worker : EWorker(w)
  \/ \E c \in Client : EClient(c)
  \/ EQuiet
  \/ (Broadcast /\ UNCHANGED vars)
  \/ \E c \in Caller : CallStep(c) \/ GiveUp(c)
                       \/ \E j \in Job : WaitStart(c, j) \/ StreamCheck(c, j)

EventsNext == (bpc # "panicked" /\ Alive) \/ ERestart

EventsSpec == EventsInit /\ [][EventsNext]_allVars

(* As in JobQueue, and for the broadcaster and the calls: a timer need not fire. *)
EventsFairness ==
  /\ \A j \in Job : WF_allVars(bpc # "panicked" /\ ESubmit(j))
  /\ \A w \in Worker : WF_allVars(bpc # "panicked" /\ EWorker(w))
  /\ \A c \in Client : WF_allVars(bpc # "panicked" /\ EClient(c))
  /\ \A c \in Caller : WF_allVars(bpc # "panicked" /\ CallStep(c))
  /\ WF_allVars(bpc # "panicked" /\ LoaderStep /\ Silent)
  /\ WF_allVars(Broadcast /\ UNCHANGED vars)

EventsFairSpec == EventsSpec /\ EventsFairness

-----------------------------------------------------------------------------
(* Properties. *)

CallPC == {"new", "check", "subscribe", "wait", "fetch", "leave", "done"}

(* Types; the slots a list or a broadcaster may reach hold channels. *)
EventsTypeOK ==
  /\ events \in Seq([job : Job, status : Status]) /\ Len(events) <= QueueSize
  /\ \A j \in Job : /\ subs[j].arr \in Seq(Caller \union {None})
                    /\ subs[j].n \in 0..Len(subs[j].arr)
                    /\ \A i \in 1..subs[j].n : subs[j].arr[i] \in Caller
  /\ bpc \in {"idle", "deliver", "exited", "panicked"}
  /\ bpc = "deliver" => /\ view.job \in Job /\ view.n <= Len(ViewArr)
                        /\ \A i \in 1..view.n : ViewArr[i] \in Caller
  /\ purges \in [Job -> Nat]
  /\ callpc \in [Caller -> CallPC]
  /\ target \in [Caller -> Job \union {None}]
  /\ \A c \in Caller : inbox[c] \in Seq(Status) /\ Len(inbox[c]) <= SubSize
  /\ lost \subseteq Caller

(* A terminal event of c's job will be in c's inbox, or is there. *)
Coming(c) ==
  LET j == target[c]
  IN  \/ \E w \in Worker : At(w, j, {"finished"})
      \/ \E d \in Client : cpc[d] = "cancelled" /\ cjob[d] = j
      \/ /\ \E i \in DOMAIN events : events[i].job = j /\ events[i].status \in Terminal
         /\ \E i \in 1..subs[j].n : subs[j].arr[i] = c
      \/ /\ bpc = "deliver" /\ view.job = j /\ view.status \in Terminal
         /\ \E i \in view.pos..view.n : ViewArr[i] = c
      \/ \E i \in DOMAIN inbox[c] : inbox[c][i] \in Terminal

(***************************************************************************)
(* WaitForJob misses no wake-up by looking at the wrong moment: while it   *)
(* waits for a job that has ended, a terminal event is under way to it,    *)
(* unless the event was dropped for a full channel, the list was deleted   *)
(* or shifted under the broadcaster (lost), or the queue was stopped.      *)
(***************************************************************************)
NoLostWakeup ==
  \A c \in Waiter : callpc[c] = "wait" /\ store[target[c]] \in Terminal =>
    Coming(c) \/ c \in lost \/ ~running \/ bpc = "panicked"

(* And with a fair broadcaster it stops waiting without its timer. *)
WakesUp ==
  \A c \in Waiter :
    callpc[c] = "wait" /\ store[target[c]] \in Terminal ~>
      callpc[c] # "wait" \/ c \in lost \/ ~running \/ bpc = "panicked"

=============================================================================
