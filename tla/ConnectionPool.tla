--------------------------- MODULE ConnectionPool ---------------------------
(***************************************************************************)
(* The pool of MCP connections of one server (internal/execution/          *)
(* directmode/pool.go) and the tool calls that use it (DirectExecutor's    *)
(* Execute in client.go: Acquire, CallTool, Release). The idle connections *)
(* are in a channel, received and sent without the pool's lock; the lock   *)
(* guards the map of active ones. A background goroutine (here: cleaner)   *)
(* closes what was idle for too long, and Close shuts the pool down.       *)
(*                                                                         *)
(* A step is what runs between two operations on the channel or the lock.  *)
(* Times are abstracted: an idle connection is too old when the cleaner    *)
(* finds it so. A step that panics ends the process: panicked says whose.  *)
(* Not modelled: the metrics, of which currentIdle drifts without bound,   *)
(* and an Acquire whose context is done, which changes nothing else.       *)
(***************************************************************************)
EXTENDS Naturals, Sequences, FiniteSets, SequencesExt

CONSTANTS
  Conn,            \* *PooledConnection objects; one that nobody has is reused
  Call,            \* concurrent tool calls
  MaxConnections,  \* limit of active connections and capacity of the channel
  MaxErrors,       \* errors a connection survives: 5
  None             \* no connection

ASSUME LimitAssumption == MaxConnections \in Nat \ {0} /\ MaxErrors \in Nat
ASSUME NoneAssumption == None \notin Conn

VARIABLES
  pool,            \* the channel of idle connections
  sealed,          \* is the channel closed?
  active,          \* the keys of the map of active connections
  closed,          \* p.closed
  done,            \* p.done closed
  open,            \* connections whose client is not closed
  errors,          \* errorCount of each connection
  apc, held,       \* where each call is, and its connection
  kpc, toCheck,    \* where the cleaner is, and what it took out of the channel
  xpc, closing,    \* where Close is, and activeConns
  panicked         \* who ended the process

callVars == <<apc, held>>
cleanerVars == <<kpc, toCheck>>
closeVars == <<closed, done, xpc, closing>>
poolVars == <<pool, sealed, active, open, errors, callVars, cleanerVars,
              closeVars, panicked>>

Init ==
  /\ pool = <<>> /\ sealed = FALSE /\ active = {} /\ open = {}
  /\ closed = FALSE /\ done = FALSE
  /\ errors = [n \in Conn |-> 0]
  /\ apc = [c \in Call |-> "new"] /\ held = [c \in Call |-> None]
  /\ kpc = "wait" /\ toCheck = {}
  /\ xpc = "no" /\ closing = {}
  /\ panicked = "no"

-----------------------------------------------------------------------------
(* The lock is held across steps only while the cleaner empties the channel. *)
Unlocked == kpc # "drain"

Goto(c, pc) == apc' = [apc EXCEPT ![c] = pc]
Holds(c, n) == held' = [held EXCEPT ![c] = n]
Panic(who) == panicked' = who

(* closeConnection. *)
Shut(n) == open' = open \ {n}

(* Where a connection is. *)
Held == {held[c] : c \in Call} \ {None}
Idle == ToSet(pool)
Unused == Conn \ (open \union Held \union Idle \union toCheck \union closing)

Failed(n) == errors' = [errors EXCEPT ![n] = IF @ > MaxErrors THEN @ ELSE @ + 1]

-----------------------------------------------------------------------------
(* Acquire. *)

(* Mutant: the connection stays in the channel. *)
TakePeek(c) ==
  /\ apc[c] = "new" /\ pool # <<>>
  /\ Holds(c, Head(pool)) /\ Goto(c, "took")
  /\ UNCHANGED <<pool, sealed, active, open, errors, cleanerVars, closeVars, panicked>>

(* Receive an idle connection. *)
Take(c) ==
  /\ apc[c] = "new" /\ pool # <<>>
  /\ Holds(c, Head(pool)) /\ pool' = Tail(pool)
  /\ Goto(c, "took")
  /\ UNCHANGED <<sealed, active, open, errors, cleanerVars, closeVars, panicked>>

(* An empty closed channel yields nil, whose lastUsed is written to. *)
TakeNil(c) ==
  /\ apc[c] = "new" /\ pool = <<>> /\ sealed
  /\ Panic("call")
  /\ UNCHANGED <<pool, sealed, active, open, errors, callVars, cleanerVars, closeVars>>

TakeNothing(c) ==
  /\ apc[c] = "new" /\ pool = <<>> /\ ~sealed
  /\ Goto(c, "create")
  /\ UNCHANGED <<pool, sealed, active, open, errors, held, cleanerVars, closeVars, panicked>>

MarkTaken(c) ==
  /\ apc[c] = "took" /\ Unlocked
  /\ active' = active \union {held[c]}
  /\ Goto(c, "probe")
  /\ UNCHANGED <<pool, sealed, open, errors, held, cleanerVars, closeVars, panicked>>

(* isHealthy: a client that is not connected is not asked, one that fails is counted. *)
Probe(c) ==
  /\ apc[c] = "probe"
  /\ \/ held[c] \in open /\ Goto(c, "use") /\ UNCHANGED errors
     \/ Goto(c, "drop") /\ (UNCHANGED errors \/ Failed(held[c]))
  /\ UNCHANGED <<pool, sealed, active, open, held, cleanerVars, closeVars, panicked>>

Drop(c) ==
  /\ apc[c] = "drop" /\ Unlocked
  /\ active' = active \ {held[c]}
  /\ Goto(c, "replace")
  /\ UNCHANGED <<pool, sealed, open, errors, held, cleanerVars, closeVars, panicked>>

(* Mutant: the call goes on with the connection it closed. *)
ReplaceKept(c) ==
  /\ apc[c] = "replace"
  /\ Shut(held[c])
  /\ Goto(c, "create")
  /\ UNCHANGED <<pool, sealed, active, errors, held, cleanerVars, closeVars, panicked>>

Replace(c) ==
  /\ apc[c] = "replace"
  /\ Shut(held[c]) /\ Holds(c, None)
  /\ Goto(c, "create")
  /\ UNCHANGED <<pool, sealed, active, errors, cleanerVars, closeVars, panicked>>

-----------------------------------------------------------------------------
(* createConnection: the limit is looked at before the connection is made and counted. *)

CreateCheck(c) ==
  /\ apc[c] = "create" /\ Unlocked
  /\ Goto(c, IF Cardinality(active) < MaxConnections THEN "dial" ELSE "new")
  /\ UNCHANGED <<pool, sealed, active, open, errors, held, cleanerVars, closeVars, panicked>>

(* NewWithConfig and Initialize; a client that does not initialize is closed. *)
Dial(c) ==
  /\ apc[c] = "dial"
  /\ \/ \E n \in Unused : /\ open' = open \union {n}
                          /\ errors' = [errors EXCEPT ![n] = 0]
                          /\ Holds(c, n) /\ Goto(c, "add")
     \/ Goto(c, "new") /\ UNCHANGED <<open, errors, held>>
  /\ UNCHANGED <<pool, sealed, active, cleanerVars, closeVars, panicked>>

Add(c) ==
  /\ apc[c] = "add" /\ Unlocked
  /\ active' = active \union {held[c]}
  /\ Goto(c, "use")
  /\ UNCHANGED <<pool, sealed, open, errors, held, cleanerVars, closeVars, panicked>>

-----------------------------------------------------------------------------
(* CallTool, and Release. *)

Use(c) ==
  /\ apc[c] = "use"
  /\ UNCHANGED errors \/ Failed(held[c])
  /\ Goto(c, "release")
  /\ UNCHANGED <<pool, sealed, active, open, held, cleanerVars, closeVars, panicked>>

ReleaseMark(c) ==
  /\ apc[c] = "release" /\ Unlocked
  /\ active' = active \ {held[c]}
  /\ Goto(c, "return")
  /\ UNCHANGED <<pool, sealed, open, errors, held, cleanerVars, closeVars, panicked>>

Bad(c) == errors[held[c]] > MaxErrors

(* A good connection goes back to the channel; if that is closed, sending panics. *)
ReturnIdle(c) ==
  /\ apc[c] = "return" /\ ~Bad(c) /\ ~sealed /\ Len(pool) < MaxConnections
  /\ pool' = Append(pool, held[c])
  /\ Goto(c, "new") /\ Holds(c, None)
  /\ UNCHANGED <<sealed, active, open, errors, cleanerVars, closeVars, panicked>>

ReturnPanic(c) ==
  /\ apc[c] = "return" /\ ~Bad(c) /\ sealed
  /\ Panic("call")
  /\ UNCHANGED <<pool, sealed, active, open, errors, callVars, cleanerVars, closeVars>>

(* Mutant: a full channel drops the connection. *)
ReturnForget(c) ==
  /\ apc[c] = "return" /\ (Bad(c) \/ (~sealed /\ Len(pool) >= MaxConnections))
  /\ IF Bad(c) THEN Shut(held[c]) ELSE UNCHANGED open
  /\ Goto(c, "new") /\ Holds(c, None)
  /\ UNCHANGED <<pool, sealed, active, errors, cleanerVars, closeVars, panicked>>

(* A bad one is closed, and a good one when the channel is full. *)
ReturnClose(c) ==
  /\ apc[c] = "return" /\ (Bad(c) \/ (~sealed /\ Len(pool) >= MaxConnections))
  /\ Shut(held[c])
  /\ Goto(c, "new") /\ Holds(c, None)
  /\ UNCHANGED <<pool, sealed, active, errors, cleanerVars, closeVars, panicked>>

CallStep(c) ==
  \/ MarkTaken(c) \/ Probe(c) \/ Drop(c) \/ Replace(c)
  \/ CreateCheck(c) \/ Dial(c) \/ Add(c)
  \/ Use(c) \/ ReleaseMark(c) \/ ReturnIdle(c) \/ ReturnPanic(c) \/ ReturnClose(c)

(* A tool call begins. *)
Begin(c) == Take(c) \/ TakeNil(c) \/ TakeNothing(c)

-----------------------------------------------------------------------------
(* cleanupIdleConnections. *)

Tick ==
  /\ kpc = "wait" /\ Unlocked
  /\ kpc' = IF closed THEN "exited" ELSE "drain"
  /\ UNCHANGED <<pool, sealed, active, open, errors, callVars, toCheck, closeVars, panicked>>

Drain ==
  /\ kpc = "drain"
  /\ \/ /\ pool # <<>>
        /\ toCheck' = toCheck \union {Head(pool)} /\ pool' = Tail(pool)
        /\ UNCHANGED kpc
     \/ pool = <<>> /\ kpc' = "sort" /\ UNCHANGED <<pool, toCheck>>
  /\ UNCHANGED <<sealed, active, open, errors, callVars, closeVars, panicked>>

(* Mutant: an old connection is closed and returned all the same. *)
SortCloseReturns(n) ==
  /\ Shut(n) /\ toCheck' = toCheck \ {n}
  /\ pool' = IF ~sealed /\ Len(pool) < MaxConnections THEN Append(pool, n) ELSE pool
  /\ UNCHANGED panicked

(* An old connection is closed, and a young one when the channel is full again. *)
SortClose(n) ==
  Shut(n) /\ toCheck' = toCheck \ {n} /\ UNCHANGED <<pool, panicked>>

SortReturn(n) ==
  /\ ~sealed /\ Len(pool) < MaxConnections
  /\ pool' = Append(pool, n) /\ toCheck' = toCheck \ {n}
  /\ UNCHANGED <<open, panicked>>

(* The channel has been closed since the lock was given back. *)
SortPanic(n) ==
  sealed /\ Panic("cleaner") /\ UNCHANGED <<pool, toCheck, open>>

Sort ==
  /\ kpc = "sort"
  /\ \E n \in toCheck : SortClose(n) \/ SortReturn(n) \/ SortPanic(n)
  /\ UNCHANGED <<sealed, active, errors, callVars, kpc, closeVars>>

Sorted ==
  /\ kpc = "sort" /\ toCheck = {}
  /\ kpc' = "wait"
  /\ UNCHANGED <<pool, sealed, active, open, errors, callVars, toCheck, closeVars, panicked>>

CleanerExit ==
  /\ kpc = "wait" /\ done
  /\ kpc' = "exited"
  /\ UNCHANGED <<pool, sealed, active, open, errors, callVars, toCheck, closeVars, panicked>>

CleanerStep == Drain \/ Sort \/ Sorted \/ CleanerExit

-----------------------------------------------------------------------------
(* Close. *)

CloseStart ==
  /\ ~closed /\ Unlocked
  /\ closed' = TRUE
  /\ closing' = active /\ active' = {}
  /\ xpc' = "signal"
  /\ UNCHANGED <<pool, sealed, open, errors, callVars, cleanerVars, done, panicked>>

CloseSignal ==
  /\ xpc = "signal"
  /\ done' = TRUE /\ xpc' = "active"
  /\ UNCHANGED <<pool, sealed, active, open, errors, callVars, cleanerVars, closed, closing, panicked>>

(* The connections in use are closed too; then the channel is. *)
CloseActive ==
  /\ xpc = "active"
  /\ \/ /\ \E n \in closing : Shut(n) /\ closing' = closing \ {n}
        /\ UNCHANGED <<xpc, sealed>>
     \/ /\ closing = {}
        /\ sealed' = TRUE /\ xpc' = "rest"
        /\ UNCHANGED <<open, closing>>
  /\ UNCHANGED <<pool, active, errors, callVars, cleanerVars, closed, done, panicked>>

(* Mutant: the connections left in the channel are not closed. *)
CloseAtOnce ==
  /\ xpc = "rest" /\ xpc' = "closed"
  /\ UNCHANGED <<pool, sealed, active, open, errors, callVars, cleanerVars,
                 closed, done, closing, panicked>>

CloseRest ==
  /\ xpc = "rest"
  /\ \/ pool # <<>> /\ Shut(Head(pool)) /\ pool' = Tail(pool) /\ UNCHANGED xpc
     \/ pool = <<>> /\ xpc' = "closed" /\ UNCHANGED <<open, pool>>
  /\ UNCHANGED <<sealed, active, errors, callVars, cleanerVars, closed, done, closing, panicked>>

CloseStep == CloseSignal \/ CloseActive \/ CloseRest

-----------------------------------------------------------------------------
Step ==
  \/ \E c \in Call : Begin(c) \/ CallStep(c)
  \/ Tick \/ CleanerStep
  \/ CloseStart \/ CloseStep

Next == panicked = "no" /\ Step

Spec == Init /\ [][Next]_poolVars

(***************************************************************************)
(* Every goroutine goes on, and a tool call, a dial and a probe end at     *)
(* their timeouts. The ticker, a new tool call and Close need not happen.  *)
(***************************************************************************)
Fairness ==
  /\ \A c \in Call : WF_poolVars(panicked = "no" /\ CallStep(c))
  /\ WF_poolVars(panicked = "no" /\ CleanerStep)
  /\ WF_poolVars(panicked = "no" /\ CloseStep)

FairSpec == Spec /\ Fairness

-----------------------------------------------------------------------------
(* Properties. *)

CallPC == {"new", "took", "probe", "drop", "replace", "create", "dial", "add",
           "use", "release", "return"}
NoConn == {"new", "create", "dial"}

(* Types; a call has a connection at the points of its code where it has one. *)
TypeOK ==
  /\ pool \in Seq(Conn) /\ Len(pool) <= MaxConnections
  /\ {sealed, closed, done} \subseteq BOOLEAN
  /\ active \subseteq Conn /\ open \subseteq Conn
  /\ errors \in [Conn -> 0..(MaxErrors + 1)]
  /\ apc \in [Call -> CallPC] /\ held \in [Call -> Conn \union {None}]
  /\ \A c \in Call : apc[c] \in NoConn <=> held[c] = None
  /\ kpc \in {"wait", "drain", "sort", "exited"} /\ toCheck \subseteq Conn
  /\ xpc \in {"no", "signal", "active", "rest", "closed"} /\ closing \subseteq Conn
  /\ panicked \in {"no", "call", "cleaner"}

(***************************************************************************)
(* A connection is in one place: once in the channel, or with one call, or *)
(* with the cleaner. So no two tool calls ever talk on one connection.     *)
(***************************************************************************)
OneOwner ==
  /\ \A i, k \in DOMAIN pool : pool[i] = pool[k] => i = k
  /\ \A c, d \in Call : held[c] = held[d] /\ held[c] # None => c = d
  /\ Idle \intersect Held = {} /\ Idle \intersect toCheck = {} /\ Held \intersect toCheck = {}

(* While the pool is not closed, nobody closes what another one may use. *)
OwnedIsOpen ==
  ~closed => Idle \union toCheck \union Held \subseteq open

(* Every connection that is not closed is with someone who can close it. *)
NoLeak == open \subseteq Idle \union Held \union toCheck \union closing

(***************************************************************************)
(* The map of active connections holds what the calls use, so the limit is *)
(* compared with their number and Close finds each of them.                *)
(***************************************************************************)
ActiveIsUsed ==
  ~closed => active = {held[c] : c \in {d \in Call : apc[d] \in {"probe", "drop", "use", "release"}}}

(* Close leaves nothing open in the end, if the process lives to see it. *)
CloseEndsAll == xpc = "closed" ~> (open = {} \/ panicked # "no")

=============================================================================
