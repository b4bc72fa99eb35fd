--------------------------- MODULE DirectExecutor ---------------------------
(***************************************************************************)
(* DirectExecutor (internal/execution/directmode/client.go) and its        *)
(* circuit breakers (breaker.go): how a call finds the pool of its tool    *)
(* and the breaker of its server, both made on first use, and what the     *)
(* breaker lets through. A pool is its number here; what is inside is the  *)
(* module ConnectionPool. The breaker itself is the library gobreaker.     *)
(***************************************************************************)
EXTENDS Naturals, FiniteSets

CONSTANTS
  Call,          \* those who call Execute, one call at a time
  Tool,          \* tools: [transport, command, server]
  Registered,    \* RegisterStdioServer: the command of each name registered
  Inline,        \* the command of each server that is written stdio:<command>
  TripRequests,  \* the breaker looks at failures from this many requests on: 5
  HalfRequests,  \* MaxRequests of the breaker: 3
  CountBound,    \* a bound on the requests one closed generation counts
  MaxPools,      \* a bound on the pools that are made
  None

ASSUME ThresholdAssumption ==
  /\ HalfRequests \in Nat \ {0} /\ TripRequests \in Nat \ {0}
  /\ CountBound \in Nat /\ MaxPools \in Nat
ASSUME CallAssumption == IsFiniteSet(Call) /\ None \notin Call \union Tool

VARIABLES
  pools,         \* e.pools: the number of the pool of each key, 0 for none
  made,          \* how many pools were made: numbers are given in this order
  closed,        \* pools that Close has closed
  breakers,      \* m.breakers: per server the breaker, or NoBreaker
  dpc, dtool,    \* where each call is, and its tool
  dpool,         \* the pool it found
  current        \* calls the breaker counted in the generation it is still in

poolVars == <<pools, made, closed>>
breakerVars == <<breakers, current>>
directVars == <<poolVars, breakerVars, dpc, dtool, dpool>>

(* getTransportConfig, as far as the pool's key tells one from another. *)
PoolKey(t) ==
  IF t.transport = "stdio" /\ t.command # None THEN <<"stdio", t.command>>
  ELSE IF t.server \in DOMAIN Registered THEN <<"stdio", Registered[t.server]>>
  ELSE IF t.server \in DOMAIN Inline THEN <<"stdio", Inline[t.server]>>
  ELSE <<"http", t.server>>

Key == {PoolKey(t) : t \in Tool}
Server == {t.server : t \in Tool}

NoBreaker == [state |-> "none", requests |-> 0, successes |-> 0, failures |-> 0]
Closed == [NoBreaker EXCEPT !.state = "closed"]

DirectInit ==
  /\ pools = [k \in Key |-> 0] /\ made = 0 /\ closed = {}
  /\ breakers = [s \in Server |-> NoBreaker]
  /\ dpc = [c \in Call |-> "idle"]
  /\ dtool = [c \in Call |-> None]
  /\ dpool = [c \in Call |-> 0]
  /\ current = {}

DGoto(c, pc) == dpc' = [dpc EXCEPT ![c] = pc]
(* The call is over. *)
DReturn(c) ==
  /\ DGoto(c, "idle")
  /\ dtool' = [dtool EXCEPT ![c] = None]
  /\ dpool' = [dpool EXCEPT ![c] = 0]
KeyOf(c) == PoolKey(dtool[c])
BreakerOf(c) == breakers[dtool[c].server]
(* Calls inside the breaker of a server. *)
Inside(s) == {c \in Call : dpc[c] \in {"acquire", "call"} /\ dtool[c].server = s}

-----------------------------------------------------------------------------
(* The pool. *)

(* Execute, up to getPool under the read lock. *)
Execute(c, t) ==
  LET n == pools[PoolKey(t)]
  IN  /\ dpc[c] = "idle"
      /\ dtool' = [dtool EXCEPT ![c] = t]
      /\ dpool' = [dpool EXCEPT ![c] = n]
      /\ DGoto(c, IF n # 0 THEN "breaker" ELSE "makepool")
      /\ UNCHANGED <<poolVars, breakerVars>>

(* Mutant: under the write lock nobody looks again. *)
MakePoolBlind(c) ==
  /\ dpc[c] = "makepool" /\ made < MaxPools
  /\ pools' = [pools EXCEPT ![KeyOf(c)] = made + 1]
  /\ made' = made + 1
  /\ dpool' = [dpool EXCEPT ![c] = made + 1]
  /\ DGoto(c, "breaker")
  /\ UNCHANGED <<closed, breakerVars, dtool>>

(* getPool under the write lock: it looks again, and makes the pool. *)
MakePool(c) ==
  /\ dpc[c] = "makepool"
  /\ \/ pools[KeyOf(c)] # 0 /\ UNCHANGED <<pools, made>>
     \/ /\ pools[KeyOf(c)] = 0 /\ made < MaxPools
        /\ pools' = [pools EXCEPT ![KeyOf(c)] = made + 1]
        /\ made' = made + 1
  /\ dpool' = [dpool EXCEPT ![c] = pools'[KeyOf(c)]]
  /\ DGoto(c, "breaker")
  /\ UNCHANGED <<closed, breakerVars, dtool>>

(* Close: every pool in the map, and a new map; calls go on with what they found. *)
CloseDirect ==
  /\ closed' = closed \union {pools[k] : k \in {k \in Key : pools[k] # 0}}
  /\ pools' = [k \in Key |-> 0]
  /\ UNCHANGED <<made, breakerVars, dpc, dtool, dpool>>

-----------------------------------------------------------------------------
(* The breaker: gobreaker under its own lock, one generation at a time. *)

(* A new state, or a new interval, is a new generation: what is under way no longer counts. *)
NewGeneration(s, b) ==
  /\ breakers' = [breakers EXCEPT ![s] = b]
  /\ current' = current \ Inside(s)

(* ReadyToTrip: at least TripRequests, six of ten of which failed; those under way are among them. *)
ReadyToTrip(b) == b.requests >= TripRequests /\ 10 * b.failures >= 6 * b.requests

(* onSuccess: MaxRequests successes close a half-open breaker. *)
OnSuccess(s) ==
  LET b == [breakers[s] EXCEPT !.successes = @ + 1]
  IN  IF b.state = "half" /\ b.successes >= HalfRequests
      THEN NewGeneration(s, Closed)
      ELSE breakers' = [breakers EXCEPT ![s] = b]

(* onFailure: one failure opens a half-open breaker. *)
OnFailure(s) ==
  LET b == [breakers[s] EXCEPT !.failures = @ + 1]
  IN  IF b.state = "half" \/ ReadyToTrip(b)
      THEN NewGeneration(s, [NoBreaker EXCEPT !.state = "open"])
      ELSE breakers' = [breakers EXCEPT ![s] = b]

(* afterRequest: only a call of the generation counts, and it leaves it. *)
After(c, ok) ==
  LET s == dtool[c].server
  IN  \/ c \notin current /\ UNCHANGED breakerVars
      \/ /\ c \in current
         /\ IF ok THEN OnSuccess(s) ELSE OnFailure(s)
         /\ (breakers'[s].state = breakers[s].state) => current' = current \ {c}

(* The interval of a closed breaker is over. *)
ExpireClosed(s) ==
  /\ breakers[s].state = "closed" /\ breakers[s].requests > 0
  /\ NewGeneration(s, Closed)

(* The timeout of an open breaker is over. *)
ExpireOpen(s) ==
  /\ breakers[s].state = "open"
  /\ NewGeneration(s, [NoBreaker EXCEPT !.state = "half"])

Expire(s) ==
  /\ ExpireClosed(s) \/ ExpireOpen(s)
  /\ UNCHANGED <<poolVars, dpc, dtool, dpool>>

-----------------------------------------------------------------------------
(* The call. *)

(* GetBreaker under the read lock: there is none yet. *)
MissBreaker(c) ==
  /\ dpc[c] = "breaker" /\ BreakerOf(c) = NoBreaker
  /\ DGoto(c, "makebreaker")
  /\ UNCHANGED <<poolVars, breakerVars, dtool, dpool>>

(* Mutant: under the write lock nobody looks again. *)
MakeBreakerBlind(c) ==
  /\ dpc[c] = "makebreaker"
  /\ breakers' = [breakers EXCEPT ![dtool[c].server] = Closed]
  /\ DGoto(c, "breaker")
  /\ UNCHANGED <<poolVars, current, dtool, dpool>>

(* GetBreaker under the write lock: it looks again. *)
MakeBreaker(c) ==
  /\ dpc[c] = "makebreaker"
  /\ breakers' = IF BreakerOf(c) = NoBreaker
                 THEN [breakers EXCEPT ![dtool[c].server] = Closed] ELSE breakers
  /\ DGoto(c, "breaker")
  /\ UNCHANGED <<poolVars, current, dtool, dpool>>

(* beforeRequest: the breaker is open, or half-open with enough requests. *)
Refused(b) == b.state = "open" \/ (b.state = "half" /\ b.requests >= HalfRequests)

Refuse(c) ==
  /\ dpc[c] = "breaker" /\ Refused(BreakerOf(c))
  /\ DReturn(c)
  /\ UNCHANGED <<poolVars, breakerVars>>

(* The call is counted when it comes in; CountBound bounds the model only. *)
Admit(c) ==
  LET b == BreakerOf(c)
  IN  /\ dpc[c] = "breaker" /\ b # NoBreaker /\ ~Refused(b)
      /\ b.state = "closed" => b.requests < CountBound
      /\ breakers' = [breakers EXCEPT ![dtool[c].server].requests = @ + 1]
      /\ current' = current \union {c}
      /\ DGoto(c, "acquire")
      /\ UNCHANGED <<poolVars, dtool, dpool>>

(* A connection, or an error or a panic, which the breaker counts alike; a closed pool has no connection. *)
AcquireConnection(c) ==
  /\ dpc[c] = "acquire"
  /\ \/ /\ dpool[c] \notin closed
        /\ DGoto(c, "call")
        /\ UNCHANGED <<breakerVars, dtool, dpool>>
     \/ After(c, FALSE) /\ DReturn(c)
  /\ UNCHANGED poolVars

(* CallTool ends, at the latest with its timeout. *)
CallTool(c) ==
  /\ dpc[c] = "call"
  /\ \E ok \in BOOLEAN : After(c, ok)
  /\ DReturn(c)
  /\ UNCHANGED poolVars

CallStep(c) ==
  \/ MakePool(c) \/ MissBreaker(c) \/ MakeBreaker(c)
  \/ Refuse(c) \/ Admit(c) \/ AcquireConnection(c) \/ CallTool(c)

DirectNext ==
  \/ \E c \in Call : CallStep(c) \/ \E t \in Tool : Execute(c, t)
  \/ \E s \in Server : Expire(s)
  \/ CloseDirect

DirectSpec == DirectInit /\ [][DirectNext]_directVars

-----------------------------------------------------------------------------
(* Properties. *)

DirectTypeOK ==
  /\ pools \in [Key -> 0..made] /\ made \in 0..MaxPools
  /\ closed \subseteq 1..made
  /\ breakers \in [Server -> [state : {"none", "closed", "open", "half"},
                              requests : Nat, successes : Nat, failures : Nat]]
  /\ dpc \in [Call -> {"idle", "makepool", "breaker", "makebreaker", "acquire", "call"}]
  /\ dtool \in [Call -> Tool \union {None}]
  /\ \A c \in Call : dpc[c] = "idle" <=> dtool[c] = None
  /\ dpool \in [Call -> 0..made]
  /\ current \subseteq {c \in Call : dpc[c] \in {"acquire", "call"}}

(***************************************************************************)
(* However many calls ask for a server for the first time together, one    *)
(* pool is made for it: every pool is in the map, where Close finds it,    *)
(* under one key, or has been closed.                                      *)
(***************************************************************************)
NoPoolEscapes ==
  \A n \in 1..made : n \in closed \/ Cardinality({k \in Key : pools[k] = n}) = 1

(***************************************************************************)
(* The breaker's requests are the successes, the failures and the calls    *)
(* that are under way, whatever states it went through since a call came   *)
(* in; and a half-open breaker lets no more than its limit through.        *)
(***************************************************************************)
BreakerCounts ==
  \A s \in Server :
    LET b == breakers[s]
    IN  /\ b.requests = b.successes + b.failures + Cardinality(current \intersect Inside(s))
        /\ b.state = "half" => b.requests <= HalfRequests /\ b.failures = 0
        /\ b.state \in {"none", "open"} => b.requests = 0
=============================================================================
