--------------------------- MODULE StdioTransport ---------------------------
(***************************************************************************)
(* The stdio transport of the MCP client (pkg/mcpclient/stdio_transport.go)*)
(* writes requests to the stdin of a child process and reads the answers,  *)
(* in any order, from its stdout. Every Send has a goroutine of its own,   *)
(* and a second one that watches its context; each child has a reader and  *)
(* a monitor, which starts a new child when the old one has died; Close    *)
(* may come at any time. They meet in the map of pending requests and in   *)
(* the channel, of one place, that each request has for its result.        *)
(*                                                                         *)
(* Children are numbered: t.done, t.readDone, t.stdin and t.cmd are those  *)
(* of the latest. Request ids are fresh integers, to which normalizeID     *)
(* turns back the number decoded from an answer. The child is not trusted: *)
(* it answers what it was sent when it likes, also twice, and may die. A   *)
(* context may end and a timer fire at any time. Reconnect and SendAsync   *)
(* without Send, which nothing in the program calls, are not modelled.     *)
(***************************************************************************)
EXTENDS Naturals, FiniteSets

CONSTANTS
  Req,             \* calls of Send, each with an id of its own
  MaxRestarts,     \* of the child: config.MaxRestarts, with AutoRestart on
  None             \* no request, no child

ASSUME RestartsAssumption == MaxRestarts \in Nat
ASSUME NoneAssumption == None \notin Req \union Nat

Child == 0..MaxRestarts

VARIABLES
  connected,       \* t.connected
  latest,          \* number of the latest child, which is t.restartCount
  alive,           \* does the latest child run?
  stdinOpen,       \* has Close left its stdin open?
  done,            \* the child whose t.done Close has closed, or None
  pending,         \* the keys of t.pending
  full, shut,      \* requests whose channel has a result, or is closed
  spc, sentTo,     \* where each Send is, and the child that got the request
  gpc,             \* where the goroutine that watches its context is
  rpc, rreq,       \* where each child's reader is, and the request it answers
  mpc,             \* where the monitor of the latest child is
  xpc,             \* where Close is
  panicked         \* has a send or a receive ended the process?

childVars == <<latest, alive, stdinOpen>>
chanVars == <<full, shut>>
readerVars == <<rpc, rreq>>
transportVars == <<connected, childVars, done, pending, chanVars, spc, sentTo, gpc,
                   readerVars, mpc, xpc, panicked>>

Init ==
  /\ connected = TRUE /\ latest = 0 /\ alive = TRUE /\ stdinOpen = TRUE
  /\ done = None
  /\ pending = {}
  /\ full = {} /\ shut = {}
  /\ spc = [r \in Req |-> "new"] /\ sentTo = [r \in Req |-> None]
  /\ gpc = [r \in Req |-> "no"]
  /\ rpc = [k \in Child |-> IF k = 0 THEN "scan" ELSE "no"]
  /\ rreq = [k \in Child |-> None]
  /\ mpc = "wait" /\ xpc = "no"
  /\ panicked = FALSE

Goto(r, pc) == spc' = [spc EXCEPT ![r] = pc]

(* A result for each of these requests, and the close of their channels. *)
SendTo(S) == full' = full \union S /\ shut' = shut \union S

(* What t.done says to those who look at it now. *)
DoneClosed == done = latest

-----------------------------------------------------------------------------
(* Send and SendAsync. *)

(* A transport that is not connected answers with an error at once. *)
SendCheck(r) ==
  /\ spc[r] = "new"
  /\ Goto(r, IF connected THEN "register" ELSE "done")
  /\ UNCHANGED <<connected, childVars, done, pending, chanVars, sentTo, gpc,
                 readerVars, mpc, xpc, panicked>>

Register(r) ==
  /\ spc[r] = "register"
  /\ pending' = pending \union {r}
  /\ Goto(r, "write")
  /\ UNCHANGED <<connected, childVars, done, chanVars, sentTo, gpc,
                 readerVars, mpc, xpc, panicked>>

(* Writing fails once the child is dead or Close has closed its stdin. *)
Write(r) ==
  /\ spc[r] = "write"
  /\ \/ /\ alive /\ stdinOpen
        /\ sentTo' = [sentTo EXCEPT ![r] = latest]
        /\ gpc' = [gpc EXCEPT ![r] = "watch"]
        /\ Goto(r, "wait")
     \/ /\ ~(alive /\ stdinOpen)
        /\ Goto(r, "unregister")
        /\ UNCHANGED <<sentTo, gpc>>
  /\ UNCHANGED <<connected, childVars, done, pending, chanVars,
                 readerVars, mpc, xpc, panicked>>

Unregister(r) ==
  /\ spc[r] = "unregister"
  /\ pending' = pending \ {r}
  /\ Goto(r, "report")
  /\ UNCHANGED <<connected, childVars, done, chanVars, sentTo, gpc,
                 readerVars, mpc, xpc, panicked>>

(* It did not look whether the request was still pending: the channel may be closed. *)
Report(r) ==
  /\ spc[r] = "report"
  /\ \/ /\ r \notin shut
        /\ SendTo({r})
        /\ Goto(r, "wait")
        /\ UNCHANGED panicked
     \/ r \in shut /\ panicked' = TRUE /\ UNCHANGED <<chanVars, spc>>
  /\ UNCHANGED <<connected, childVars, done, pending, sentTo, gpc, readerVars, mpc, xpc>>

(* A closed channel without a result yields nil, and Send reads its Error. *)
Receive(r) ==
  /\ spc[r] = "wait"
  /\ \/ /\ r \in full
        /\ full' = full \ {r}
        /\ Goto(r, "done")
        /\ UNCHANGED panicked
     \/ r \in shut \ full /\ panicked' = TRUE /\ UNCHANGED <<full, spc>>
  /\ UNCHANGED <<connected, childVars, done, pending, shut, sentTo, gpc,
                 readerVars, mpc, xpc>>

(* The context ends first. *)
Expire(r) ==
  /\ spc[r] = "wait"
  /\ Goto(r, "forget")
  /\ UNCHANGED <<connected, childVars, done, pending, chanVars, sentTo, gpc,
                 readerVars, mpc, xpc, panicked>>

(* Mutant: a Send that gives up leaves its request in the map. *)
ForgetNothing(r) ==
  /\ spc[r] = "forget"
  /\ Goto(r, "done")
  /\ UNCHANGED <<connected, childVars, done, pending, chanVars, sentTo, gpc,
                 readerVars, mpc, xpc, panicked>>

Forget(r) ==
  /\ spc[r] = "forget"
  /\ pending' = pending \ {r}
  /\ Goto(r, "done")
  /\ UNCHANGED <<connected, childVars, done, chanVars, sentTo, gpc,
                 readerVars, mpc, xpc, panicked>>

SendStep(r) ==
  Register(r) \/ Write(r) \/ Unregister(r) \/ Report(r) \/ Receive(r) \/ Forget(r)

-----------------------------------------------------------------------------
(* The goroutine that watches the context. *)

(* Mutant: it sends the error whether or not the request is pending. *)
WatchContextBlind(r) ==
  /\ gpc[r] = "watch"
  /\ pending' = pending \ {r}
  /\ SendTo({r})
  /\ gpc' = [gpc EXCEPT ![r] = "done"]
  /\ UNCHANGED <<connected, childVars, done, spc, sentTo, readerVars, mpc, xpc, panicked>>

WatchContext(r) ==
  /\ gpc[r] = "watch"
  /\ \/ /\ r \in pending
        /\ pending' = pending \ {r}
        /\ SendTo({r})
     \/ r \notin pending /\ UNCHANGED <<pending, chanVars>>
  /\ gpc' = [gpc EXCEPT ![r] = "done"]
  /\ UNCHANGED <<connected, childVars, done, spc, sentTo, readerVars, mpc, xpc, panicked>>

(* It receives from the request's channel too: the result, when it comes first. *)
WatchResult(r) ==
  /\ gpc[r] = "watch"
  /\ r \in full \union shut
  /\ full' = full \ {r}
  /\ gpc' = [gpc EXCEPT ![r] = "done"]
  /\ UNCHANGED <<connected, childVars, done, pending, shut, spc, sentTo,
                 readerVars, mpc, xpc, panicked>>

(* The t.done it selects on was that of sentTo[r] or of a later child. *)
WatchDone(r) ==
  /\ gpc[r] = "watch"
  /\ done # None /\ sentTo[r] <= done
  /\ gpc' = [gpc EXCEPT ![r] = "done"]
  /\ UNCHANGED <<connected, childVars, done, pending, chanVars, spc, sentTo,
                 readerVars, mpc, xpc, panicked>>

Watch(r) == WatchContext(r) \/ WatchResult(r) \/ WatchDone(r)

-----------------------------------------------------------------------------
(* readLoop. *)

ReaderGoto(k, pc, r) ==
  rpc' = [rpc EXCEPT ![k] = pc] /\ rreq' = [rreq EXCEPT ![k] = r]

(* Mutant: the request is taken off the map but its channel forgotten. *)
ReadForgets(k) ==
  /\ rpc[k] = "scan" /\ ~DoneClosed
  /\ \E r \in pending : sentTo[r] = k /\ pending' = pending \ {r}
  /\ UNCHANGED <<connected, childVars, done, chanVars, spc, sentTo, gpc,
                 readerVars, mpc, xpc, panicked>>

(***************************************************************************)
(* A line answers a pending request; any other line changes nothing. The   *)
(* loop ends with the output, with t.done and after a line beyond 1 MB: a  *)
(* reader that has ended is one that reads no more, and nobody relies on   *)
(* its end, for those who wait for it have a timer.                        *)
(***************************************************************************)
Read(k) ==
  /\ rpc[k] = "scan" /\ ~DoneClosed
  /\ \E r \in pending : /\ sentTo[r] = k
                        /\ pending' = pending \ {r}
                        /\ ReaderGoto(k, "deliver", r)
  /\ UNCHANGED <<connected, childVars, done, chanVars, spc, sentTo, gpc,
                 mpc, xpc, panicked>>

Deliver(k) ==
  /\ rpc[k] = "deliver"
  /\ full' = full \union {rreq[k]}
  /\ ReaderGoto(k, "close", rreq[k])
  /\ UNCHANGED <<connected, childVars, done, pending, shut, spc, sentTo, gpc,
                 mpc, xpc, panicked>>

CloseChannel(k) ==
  /\ rpc[k] = "close"
  /\ shut' = shut \union {rreq[k]}
  /\ ReaderGoto(k, "scan", None)
  /\ UNCHANGED <<connected, childVars, done, pending, full, spc, sentTo, gpc,
                 mpc, xpc, panicked>>

Reader(k) == Deliver(k) \/ CloseChannel(k)

-----------------------------------------------------------------------------
(* The child, and monitorProcess. *)

ChildDies ==
  /\ alive
  /\ alive' = FALSE
  /\ UNCHANGED <<connected, latest, stdinOpen, done, pending, chanVars, spc, sentTo,
                 gpc, readerVars, mpc, xpc, panicked>>

(* cancelAllPending: under the lock, an error for every request in the map. *)
CancelAllPending == SendTo(pending) /\ pending' = {}

(* The child is waited for; if this is an intended shutdown, that is all. *)
MonitorReap ==
  /\ mpc = "wait" /\ ~alive
  /\ \/ DoneClosed /\ mpc' = "exited" /\ UNCHANGED connected
     \/ ~DoneClosed /\ mpc' = "cancel" /\ connected' = FALSE
  /\ UNCHANGED <<childVars, done, pending, chanVars, spc, sentTo, gpc,
                 readerVars, xpc, panicked>>

(* It waits for the reader then, two seconds at most; the restarts are counted. *)
AfterCancel == mpc' = IF latest < MaxRestarts THEN "sleep" ELSE "exited"

(* Mutant: a dead child's requests are left to their contexts. *)
MonitorCancelNone ==
  /\ mpc = "cancel" /\ AfterCancel
  /\ UNCHANGED <<connected, childVars, done, pending, chanVars, spc, sentTo, gpc,
                 readerVars, xpc, panicked>>

MonitorCancel ==
  /\ mpc = "cancel"
  /\ CancelAllPending
  /\ AfterCancel
  /\ UNCHANGED <<connected, childVars, done, spc, sentTo, gpc, readerVars, xpc, panicked>>

(***************************************************************************)
(* After the restart interval t.done and t.readDone are made anew and the  *)
(* child is started, whatever has happened to the transport since; then    *)
(* the transport is marked as connected and the child gets its goroutines. *)
(***************************************************************************)
MonitorStart ==
  /\ mpc = "sleep"
  /\ latest' = latest + 1
  /\ \/ alive' = TRUE /\ stdinOpen' = TRUE /\ mpc' = "mark"
     \/ mpc' = "exited" /\ UNCHANGED <<alive, stdinOpen>>
  /\ UNCHANGED <<connected, done, pending, chanVars, spc, sentTo, gpc,
                 readerVars, xpc, panicked>>

MonitorMark ==
  /\ mpc = "mark"
  /\ connected' = TRUE
  /\ ReaderGoto(latest, "scan", None)
  /\ mpc' = "wait"
  /\ UNCHANGED <<childVars, done, pending, chanVars, spc, sentTo, gpc, xpc, panicked>>

Monitor == MonitorReap \/ MonitorCancel \/ MonitorStart \/ MonitorMark

-----------------------------------------------------------------------------
(* Close, which acts once. *)

(***************************************************************************)
(* connected is cleared, then t.done closed: who looks between sees a      *)
(* transport that is not connected, or one that is not being closed, as it *)
(* would after or before.                                                  *)
(***************************************************************************)
CloseStart ==
  /\ xpc = "no"
  /\ connected' = FALSE /\ done' = latest
  /\ xpc' = "cancel"
  /\ UNCHANGED <<childVars, pending, chanVars, spc, sentTo, gpc,
                 readerVars, mpc, panicked>>

CloseCancel ==
  /\ xpc = "cancel"
  /\ CancelAllPending
  /\ xpc' = "stdin"
  /\ UNCHANGED <<connected, childVars, done, spc, sentTo, gpc, readerVars, mpc, panicked>>

CloseStdin ==
  /\ xpc = "stdin"
  /\ stdinOpen' = FALSE /\ xpc' = "kill"
  /\ UNCHANGED <<connected, latest, alive, done, pending, chanVars, spc, sentTo, gpc,
                 readerVars, mpc, panicked>>

(* After the reader has ended or five seconds the child is killed. *)
CloseKill ==
  /\ xpc = "kill"
  /\ alive' = FALSE /\ xpc' = "closed"
  /\ UNCHANGED <<connected, latest, stdinOpen, done, pending, chanVars, spc, sentTo, gpc,
                 readerVars, mpc, panicked>>

CloseStep == CloseCancel \/ CloseStdin \/ CloseKill

-----------------------------------------------------------------------------
Step ==
  \/ \E r \in Req : SendCheck(r) \/ SendStep(r) \/ Expire(r) \/ Watch(r)
  \/ \E k \in Child : Read(k) \/ Reader(k)
  \/ ChildDies \/ Monitor
  \/ CloseStart \/ CloseStep

Next == ~panicked /\ Step

Spec == Init /\ [][Next]_transportVars

(***************************************************************************)
(* Goroutines that can go on do: no lock is held for ever, and the timer   *)
(* and the interval of the monitor pass. Nothing is assumed of the child,  *)
(* the contexts, the callers and Close.                                    *)
(***************************************************************************)
Fairness ==
  /\ \A r \in Req : WF_transportVars(~panicked /\ SendStep(r))
  /\ \A k \in Child : WF_transportVars(~panicked /\ Reader(k))
  /\ WF_transportVars(~panicked /\ Monitor)

FairSpec == Spec /\ Fairness

-----------------------------------------------------------------------------
(* Properties. *)

SendPC == {"new", "register", "write", "unregister", "report", "wait", "forget",
           "done"}

(* Types; a reader has a request exactly while it answers one. *)
TypeOK ==
  /\ {connected, alive, stdinOpen, panicked} \subseteq BOOLEAN
  /\ latest \in Child /\ done \in Child \union {None}
  /\ pending \subseteq Req
  /\ full \subseteq Req /\ shut \subseteq Req
  /\ spc \in [Req -> SendPC] /\ sentTo \in [Req -> Child \union {None}]
  /\ gpc \in [Req -> {"no", "watch", "done"}]
  /\ rpc \in [Child -> {"no", "scan", "deliver", "close"}]
  /\ rreq \in [Child -> Req \union {None}]
  /\ \A k \in Child : rpc[k] \in {"deliver", "close"} <=> rreq[k] # None
  /\ mpc \in {"wait", "cancel", "sleep", "mark", "exited"}
  /\ xpc \in {"no", "cancel", "stdin", "kill", "closed"}

(* The reader of child k has taken the request off the map to answer it. *)
Answering(k, r) == rreq[k] = r

(***************************************************************************)
(* Whoever takes a request off the map under the lock is the only one to   *)
(* send to its channel: it finds the channel open and empty, so the reader,*)
(* the monitor, Close and the watching goroutine neither panic nor block   *)
(* with the lock held, in any order of answer, timeout, death and Close.   *)
(***************************************************************************)
OneSender ==
  /\ \A r \in pending : r \notin full \union shut /\ \A k \in Child : ~Answering(k, r)
  /\ \A k, l \in Child : rreq[k] = rreq[l] /\ rreq[k] # None => k = l
  /\ \A k \in Child : rpc[k] = "deliver" => rreq[k] \notin full
  /\ \A k \in Child : rreq[k] \notin shut

(***************************************************************************)
(* A Send that waits will be woken or can be: its request is in the map,   *)
(* where an answer, the monitor and Close find it, or its channel has been *)
(* closed or is about to be. No restart, answer or timeout drops a waiter. *)
(***************************************************************************)
NoOrphan ==
  \A r \in Req : spc[r] = "wait" =>
    \/ r \in pending \union shut
    \/ \E k \in Child : Answering(k, r)

(* A finished Send leaves nothing in the map. *)
NoLeftover == \A r \in pending : spc[r] \notin {"new", "register", "report", "done"}

(***************************************************************************)
(* What has become of a request: its result is there while its channel is  *)
(* full, and has been taken when a channel that a sender is done with is   *)
(* empty. A request that nobody has and nobody settled was refused, or     *)
(* withdrawn by its own Send.                                              *)
(***************************************************************************)
Fate(r) ==
  IF spc[r] \in {"new", "register"} THEN "new"
  ELSE IF r \in pending THEN "open"
  ELSE IF r \in full THEN "settled"
  ELSE IF r \in shut \/ \E k \in Child : rpc[k] = "close" /\ Answering(k, r) THEN "taken"
  ELSE IF spc[r] = "report" \/ \E k \in Child : Answering(k, r) THEN "claimed"
  ELSE "gone"

(***************************************************************************)
(* The transport keeps the promise of Requests: however answers, timeouts, *)
(* deaths, restarts and Close fall together, a request is settled at most  *)
(* once, by one party; its result goes to one receiver; a Send that has    *)
(* returned leaves nothing open; and a panic is over a request that has    *)
(* been settled already.                                                   *)
(***************************************************************************)
Promise ==
  INSTANCE Requests WITH fate <- [r \in Req |-> Fate(r)],
                         returned <- {r \in Req : spc[r] = "done"}, crashed <- panicked
KeepsPromise == Promise!Spec

(***************************************************************************)
(* A Send whose child has died does not wait for its context: it fails     *)
(* soon, also when the request was registered while the child was dying,   *)
(* unless the transport is being closed.                                   *)
(***************************************************************************)
DeadChildFails ==
  \A r \in Req :
    spc[r] = "wait" /\ (sentTo[r] # latest \/ ~alive) ~>
      spc[r] # "wait" \/ xpc # "no" \/ panicked

=============================================================================
