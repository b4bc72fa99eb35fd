------------------------------ MODULE CodeMode ------------------------------
(***************************************************************************)
(* Code mode: internal/execution/codemode, the sandbox that runs a         *)
(* client's JavaScript on a pooled interpreter (sandbox.go, vmpool.go),    *)
(* and the tools the code calls, which are calls of DirectExecutor. Each   *)
(* execution has two goroutines: its caller, which waits with a timeout,   *)
(* and the one that runs the code. The calls of DirectExecutor that others *)
(* make at the same time are left out here.                                *)
(***************************************************************************)
EXTENDS DirectExecutor, Sequences

CONSTANTS
  Exec,          \* executions of code: the callers of DirectExecutor
  Vm,            \* interpreters: a bound on those that exist at once
  PoolSize       \* interpreters the pool is made with, and its capacity

ASSUME ExecAssumption == Exec = Call
ASSUME VmAssumption == PoolSize \in Nat /\ None \notin Vm

VARIABLES
  idle,          \* p.pool: the channel of interpreters
  drained,       \* Close has closed the channel
  interrupted,   \* interpreters with an interrupt pending
  globals,       \* per interpreter, the tools set as functions in it
  xpc,           \* the caller of each execution, from its call of Acquire on
  vm,            \* the interpreter of each execution, as long as a goroutine has it
  rpc,           \* the goroutine that runs its code
  abandoned,     \* executions whose caller returned while the code ran
  dead           \* the Go runtime has ended the process

vmVars == <<idle, drained, interrupted, globals>>
execVars == <<xpc, vm, rpc, abandoned>>
codeVars == <<vmVars, execVars, dead>>
allVars == <<directVars, codeVars>>

Holders == {x \in Exec : xpc[x] \in {"inject", "wait", "grace", "release"}}
RunningOn(v) == {x \in Exec : rpc[x] \in {"js", "tool"} /\ vm[x] = v}
Pooled == {idle[i] : i \in DOMAIN idle}
(* An interpreter nobody refers to: what a new one may be called. *)
Garbage == {v \in Vm \ Pooled : v \notin {vm[x] : x \in Holders} /\ RunningOn(v) = {}}

(* NewVMPool makes the pool full; Vm has enough interpreters. *)
CodeInit ==
  /\ DirectInit
  /\ idle \in [1..PoolSize -> Vm]
  /\ \A i, j \in 1..PoolSize : idle[i] = idle[j] => i = j
  /\ drained = FALSE /\ interrupted = {}
  /\ globals = [v \in Vm |-> {}]
  /\ xpc = [x \in Exec |-> "acquire"]
  /\ vm = [x \in Exec |-> None]
  /\ rpc = [x \in Exec |-> "none"]
  /\ abandoned = {} /\ dead = FALSE

XGoto(x, pc) == xpc' = [xpc EXCEPT ![x] = pc]
RGoto(x, pc) == rpc' = [rpc EXCEPT ![x] = pc]

-----------------------------------------------------------------------------
(* The caller. *)

(* Acquire takes an interpreter from the channel. *)
AcquireVm(x) ==
  /\ xpc[x] = "acquire" /\ idle # <<>>
  /\ vm' = [vm EXCEPT ![x] = Head(idle)]
  /\ idle' = Tail(idle)
  /\ XGoto(x, "inject")
  /\ UNCHANGED <<directVars, drained, interrupted, globals, rpc, abandoned, dead>>

(* After five seconds with an empty pool it makes another one. *)
AcquireEmergency(x) ==
  /\ xpc[x] = "acquire" /\ idle = <<>> /\ ~drained
  /\ \E v \in Garbage : /\ vm' = [vm EXCEPT ![x] = v]
                        /\ globals' = [globals EXCEPT ![v] = {}]
                        /\ interrupted' = interrupted \ {v}
  /\ XGoto(x, "inject")
  /\ UNCHANGED <<directVars, idle, drained, rpc, abandoned, dead>>

(* A closed channel gives nil; Release(nil) panics whatever happened before. *)
AcquireNil(x) ==
  /\ xpc[x] = "acquire" /\ idle = <<>> /\ drained
  /\ XGoto(x, "panicked")
  /\ UNCHANGED <<directVars, vmVars, vm, rpc, abandoned, dead>>

(* injectTools sets the execution's tools; those set before stay. *)
InjectTools(x) ==
  /\ xpc[x] = "inject"
  /\ \E ts \in SUBSET Tool : globals' = [globals EXCEPT ![vm[x]] = @ \union ts]
  /\ XGoto(x, "wait") /\ RGoto(x, "js")
  /\ UNCHANGED <<directVars, idle, drained, interrupted, vm, abandoned, dead>>

(* Code that ran before may have frozen the globals: Set fails. *)
InjectFails(x) ==
  /\ xpc[x] = "inject" /\ globals[vm[x]] # {}
  /\ XGoto(x, "release")
  /\ UNCHANGED <<directVars, vmVars, vm, rpc, abandoned, dead>>

(* The code's result arrives. *)
Receive(x) ==
  /\ xpc[x] \in {"wait", "grace"} /\ rpc[x] = "sent"
  /\ XGoto(x, "release") /\ RGoto(x, "none")
  /\ UNCHANGED <<directVars, vmVars, vm, abandoned, dead>>

(* Mutant: an execution whose context ends waits for its code. *)
TimeoutPatient(x) ==
  /\ xpc[x] = "wait" /\ rpc[x] = "sent"
  /\ interrupted' = interrupted \union {vm[x]}
  /\ XGoto(x, "grace")
  /\ UNCHANGED <<directVars, idle, drained, globals, vm, rpc, abandoned, dead>>

(* The timeout, or the end of the caller's context: interrupt the code. *)
Timeout(x) ==
  /\ xpc[x] = "wait"
  /\ interrupted' = interrupted \union {vm[x]}
  /\ XGoto(x, "grace")
  /\ UNCHANGED <<directVars, idle, drained, globals, vm, rpc, abandoned, dead>>

(* A hundred milliseconds later the caller leaves, and its code may still run. *)
Abandon(x) ==
  /\ xpc[x] = "grace"
  /\ XGoto(x, "release")
  /\ abandoned' = abandoned \union {x}
  /\ UNCHANGED <<directVars, vmVars, vm, rpc, dead>>

(* Mutant: the interrupt is not cleared. *)
ReleaseInterrupted(x) ==
  /\ xpc[x] = "release"
  /\ \/ drained /\ XGoto(x, "panicked") /\ UNCHANGED idle
     \/ ~drained /\ XGoto(x, "returned")
        /\ idle' = IF Len(idle) < PoolSize THEN Append(idle, vm[x]) ELSE idle
  /\ vm' = [vm EXCEPT ![x] = IF rpc[x] \in {"none", "sent"} THEN None ELSE @]
  /\ UNCHANGED <<directVars, drained, interrupted, globals, rpc, abandoned, dead>>

(***************************************************************************)
(* Release clears the interrupt and nothing else. A full pool discards the *)
(* interpreter; sending on a closed channel panics.                        *)
(***************************************************************************)
Release(x) ==
  /\ xpc[x] = "release"
  /\ interrupted' = interrupted \ {vm[x]}
  /\ \/ drained /\ XGoto(x, "panicked") /\ UNCHANGED idle
     \/ ~drained /\ XGoto(x, "returned")
        /\ idle' = IF Len(idle) < PoolSize THEN Append(idle, vm[x]) ELSE idle
  /\ vm' = [vm EXCEPT ![x] = IF rpc[x] \in {"none", "sent"} THEN None ELSE @]
  /\ UNCHANGED <<directVars, drained, globals, rpc, abandoned, dead>>

(* VMPool.Close: the channel is closed and emptied. *)
CloseVMPool ==
  /\ ~drained
  /\ drained' = TRUE /\ idle' = <<>>
  /\ UNCHANGED <<directVars, interrupted, globals, execVars, dead>>

(* CloseAll, once, when the process is to end: the executors in either order. *)
CloseAll ==
  \/ closed = {} /\ CloseDirect /\ UNCHANGED codeVars
  \/ CloseVMPool

-----------------------------------------------------------------------------
(* The goroutine that runs the code. *)

(* Mutant: the interrupt ends the code inside a tool too. *)
CodeEndsAnywhere(x) ==
  /\ rpc[x] = "js" \/ (rpc[x] = "tool" /\ vm[x] \in interrupted)
  /\ RGoto(x, IF x \in abandoned THEN "none" ELSE "sent")
  /\ vm' = [vm EXCEPT ![x] = IF x \in Holders THEN @ ELSE None]
  /\ UNCHANGED <<directVars, vmVars, xpc, abandoned, dead>>

(* The code ends, with a value, an error, or the pending interrupt; nobody may be there to read. *)
CodeEnds(x) ==
  /\ rpc[x] = "js"
  /\ RGoto(x, IF x \in abandoned THEN "none" ELSE "sent")
  /\ vm' = [vm EXCEPT ![x] = IF x \in Holders THEN @ ELSE None]
  /\ UNCHANGED <<directVars, vmVars, xpc, abandoned, dead>>

(* It calls a tool that is a function of its interpreter, unless it is interrupted. *)
CallTool_(x, t) ==
  /\ rpc[x] = "js" /\ vm[x] \notin interrupted /\ t \in globals[vm[x]]
  /\ Execute(x, t)
  /\ RGoto(x, "tool")
  /\ UNCHANGED <<vmVars, xpc, vm, abandoned, dead>>

(* The steps of the tool's call, inside which no interrupt reaches the code. *)
ToolStep(x) ==
  /\ rpc[x] = "tool"
  /\ CallStep(x)
  /\ RGoto(x, IF dpc'[x] = "idle" THEN "js" ELSE "tool")
  /\ UNCHANGED <<vmVars, xpc, vm, abandoned, dead>>

(* Two goroutines in one interpreter: the runtime may end the process for concurrent map writes. *)
Collide(v) ==
  /\ \E x, y \in RunningOn(v) : x # y /\ rpc[x] = "js" /\ rpc[y] = "js"
  /\ dead' = TRUE
  /\ UNCHANGED <<directVars, vmVars, execVars>>

-----------------------------------------------------------------------------
Caller(x) ==
  \/ AcquireVm(x) \/ AcquireEmergency(x) \/ AcquireNil(x)
  \/ InjectTools(x) \/ InjectFails(x) \/ Receive(x)
  \/ Timeout(x) \/ Abandon(x) \/ Release(x)

Code(x) == CodeEnds(x) \/ ToolStep(x) \/ \E t \in Tool : CallTool_(x, t)

CodeNext ==
  /\ ~dead
  /\ \/ \E x \in Exec : Caller(x) \/ Code(x)
     \/ \E s \in Server : Expire(s) /\ UNCHANGED codeVars
     \/ CloseAll
     \/ \E v \in Vm : Collide(v)

CodeSpec == CodeInit /\ [][CodeNext]_allVars

(***************************************************************************)
(* The callers' timers fire, and a call inside the breaker ends: acquiring *)
(* a connection and CallTool both have timeouts. The code need not end,    *)
(* and nothing is assumed about the breaker's clock.                       *)
(***************************************************************************)
CodeFairness ==
  /\ \A x \in Exec : WF_allVars(~dead /\ Caller(x))
  /\ \A x \in Exec : WF_allVars(~dead /\ ToolStep(x))

CodeFairSpec == CodeSpec /\ CodeFairness

-----------------------------------------------------------------------------
(* Properties. *)

(* Types, those of DirectExecutor too: only code that is in a tool is in a call. *)
CodeTypeOK ==
  /\ DirectTypeOK
  /\ idle \in Seq(Vm) /\ Len(idle) <= PoolSize
  /\ {drained, dead} \subseteq BOOLEAN
  /\ interrupted \subseteq Vm
  /\ globals \in [Vm -> SUBSET Tool]
  /\ xpc \in [Exec -> {"acquire", "inject", "wait", "grace", "release", "returned", "panicked"}]
  /\ vm \in [Exec -> Vm \union {None}]
  /\ rpc \in [Exec -> {"none", "js", "tool", "sent"}]
  /\ abandoned \subseteq Exec
  /\ \A x \in Exec : dpc[x] # "idle" => rpc[x] = "tool"
  /\ \A x \in Holders : vm[x] \in Vm

(***************************************************************************)
(* An interpreter is in the pool once or with one caller, and no interrupt *)
(* meant for one execution is pending when the next one takes it. Two      *)
(* pieces of code run in one interpreter only if all but one of them were  *)
(* left running by a caller that gave up on them.                          *)
(***************************************************************************)
VmIsOwned ==
  /\ \A i, j \in DOMAIN idle : idle[i] = idle[j] => i = j
  /\ \A x \in Holders : vm[x] \notin Pooled /\ \A y \in Holders : vm[x] = vm[y] => x = y
  /\ Pooled \intersect interrupted = {}
  /\ \A v \in Vm : Cardinality(RunningOn(v) \ abandoned) <= 1

(* Every call of Execute returns, whatever its code does. *)
ExecutionEnds ==
  \A x \in Exec : xpc[x] = "acquire" ~> xpc[x] \in {"returned", "panicked"} \/ dead
=============================================================================
