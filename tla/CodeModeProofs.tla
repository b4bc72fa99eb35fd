---------------------------- MODULE CodeModeProofs ---------------------------
(***************************************************************************)
(* DirectExecutor and CodeMode for any number of calls, tools, servers,    *)
(* executions and interpreters. The first part is about DirectExecutor     *)
(* alone; code mode's calls are calls of it (Implements), so what is       *)
(* proved of it holds in code mode too.                                    *)
(***************************************************************************)
EXTENDS CodeMode, FiniteSetTheorems, TLAPS

(* One pool per key, and none that is nowhere. *)
OnePool ==
  /\ \A k, l \in Key : pools[k] = pools[l] /\ pools[k] # 0 => k = l
  /\ \A n \in 1..made : n \in closed \/ \E k \in Key : pools[k] = n

(* The calls of a server that its breaker counts as under way. *)
UnderWay(s) == current \intersect Inside(s)

DirectInv == DirectTypeOK /\ OnePool /\ BreakerCounts

-----------------------------------------------------------------------------
(* Types of DirectExecutor. *)

Breaker ==
  [state : {"none", "closed", "open", "half"}, requests : Nat, successes : Nat, failures : Nat]

LEMMA Keys == \A t \in Tool : PoolKey(t) \in Key /\ t.server \in Server
BY DEF Key, Server

LEMMA ToolOf ==
  ASSUME DirectTypeOK, NEW c \in Call, dpc[c] # "idle"
  PROVE  dtool[c] \in Tool /\ KeyOf(c) \in Key /\ dtool[c].server \in Server
BY Keys DEF DirectTypeOK, KeyOf

LEMMA BreakerType ==
  /\ NoBreaker \in Breaker /\ Closed \in Breaker
  /\ \A state \in {"none", "closed", "open", "half"} : [NoBreaker EXCEPT !.state = state] \in Breaker
BY DEF NoBreaker, Closed, Breaker

LEMMA Bumped ==
  ASSUME NEW b \in Breaker
  PROVE  /\ [b EXCEPT !.requests = @ + 1] \in Breaker
         /\ [b EXCEPT !.successes = @ + 1] \in Breaker
         /\ [b EXCEPT !.failures = @ + 1] \in Breaker
BY DEF Breaker

(* The breaker of one server changes, or none does. *)
LEMMA CountedType ==
  ASSUME DirectTypeOK, NEW s \in Server, NEW ok \in BOOLEAN, IF ok THEN OnSuccess(s) ELSE OnFailure(s)
  PROVE  breakers' \in [Server -> Breaker]
<1>1. breakers \in [Server -> Breaker]
  BY DEF DirectTypeOK, Breaker
<1>2. \E b \in Breaker : breakers' = [breakers EXCEPT ![s] = b]
  BY <1>1, BreakerType, Bumped DEF OnSuccess, OnFailure, NewGeneration
<1> QED BY <1>1, <1>2

LEMMA DReturnType ==
  ASSUME DirectTypeOK, NEW c \in Call, DReturn(c), made' = made
  PROVE  /\ dpc' = [dpc EXCEPT ![c] = "idle"] /\ dtool' = [dtool EXCEPT ![c] = None]
         /\ dpc' \in [Call -> {"idle", "makepool", "breaker", "makebreaker", "acquire", "call"}]
         /\ dtool' \in [Call -> Tool \union {None}]
         /\ dpool' \in [Call -> 0..made]
         /\ \A d \in Call : dpc'[d] = "idle" <=> dtool'[d] = None
BY DEF DirectTypeOK, DReturn, DGoto

LEMMA AfterType ==
  ASSUME DirectTypeOK, NEW c \in Call, dpc[c] \in {"acquire", "call"}, NEW ok \in BOOLEAN,
         After(c, ok), DReturn(c), UNCHANGED poolVars
  PROVE  DirectTypeOK'
<1>1. breakers' \in [Server -> Breaker] /\ current' \subseteq current \ {c}
  <2>1. CASE c \notin current /\ UNCHANGED breakerVars
    BY <2>1 DEF DirectTypeOK, Breaker, breakerVars
  <2>2. CASE c \in current
    <3>1. dtool[c].server \in Server
      BY ToolOf
    <3>2. breakers' \in [Server -> Breaker]
      BY <2>2, <3>1, CountedType DEF After
    <3>3. c \in Inside(dtool[c].server)
      BY DEF Inside
    <3> QED
      BY <2>2, <3>1, <3>2, <3>3 DEF After, OnSuccess, OnFailure, NewGeneration, DirectTypeOK
  <2> QED BY <2>1, <2>2 DEF After
<1> QED BY <1>1, DReturnType DEF DirectTypeOK, Breaker, poolVars

-----------------------------------------------------------------------------
(* Each action keeps the types of DirectExecutor. *)

LEMMA TypeInit == DirectInit => DirectTypeOK
<1> SUFFICES ASSUME DirectInit PROVE DirectTypeOK
  OBVIOUS
<1>1. breakers \in [Server -> Breaker]
  BY BreakerType DEF DirectInit
<1>2. \A c \in Call : dtool[c] = None /\ dpc[c] = "idle"
  BY DEF DirectInit
<1> QED BY <1>1, <1>2, ThresholdAssumption DEF DirectInit, DirectTypeOK, Breaker

LEMMA TypeExecute ==
  ASSUME DirectTypeOK, NEW c \in Call, NEW t \in Tool, Execute(c, t)
  PROVE  DirectTypeOK'
<1>1. pools[PoolKey(t)] \in 0..made /\ t # None
  BY Keys, CallAssumption DEF DirectTypeOK
<1> QED BY <1>1 DEF DirectTypeOK, Execute, DGoto, poolVars, breakerVars

(* Numbers of pools grow, and what was a number stays one. *)
LEMMA TypeMakePool ==
  ASSUME DirectTypeOK, NEW c \in Call, MakePool(c)
  PROVE  DirectTypeOK'
<1>1. KeyOf(c) \in Key /\ dpc[c] = "makepool"
  BY ToolOf DEF MakePool
<1>2. made' \in 0..MaxPools /\ made <= made' /\ pools' \in [Key -> 0..made']
  <2>1. CASE pools[KeyOf(c)] # 0 /\ UNCHANGED <<pools, made>>
    BY <2>1, ThresholdAssumption DEF DirectTypeOK
  <2>2. CASE /\ pools[KeyOf(c)] = 0 /\ made < MaxPools
             /\ pools' = [pools EXCEPT ![KeyOf(c)] = made + 1]
             /\ made' = made + 1
    <3>1. made \in Nat /\ made + 1 \in 0..MaxPools /\ made <= made + 1
      BY <2>2, ThresholdAssumption DEF DirectTypeOK
    <3>2. pools \in [Key -> 0..made + 1] /\ made + 1 \in 0..made + 1
      BY <3>1 DEF DirectTypeOK
    <3> QED BY <2>2, <3>1, <3>2
  <2> QED BY <2>1, <2>2 DEF MakePool
<1>3. closed' \subseteq 1..made'
  BY <1>2 DEF MakePool, DirectTypeOK
<1>4. dpool' \in [Call -> 0..made']
  BY <1>1, <1>2 DEF MakePool, DirectTypeOK
<1>5. dpc' = [dpc EXCEPT ![c] = "breaker"] /\ UNCHANGED <<breakerVars, dtool>>
  BY DEF MakePool, DGoto
<1>6. /\ dpc' \in [Call -> {"idle", "makepool", "breaker", "makebreaker", "acquire", "call"}]
      /\ \A d \in Call : dpc'[d] = "idle" <=> dtool'[d] = None
      /\ current' \subseteq {d \in Call : dpc'[d] \in {"acquire", "call"}}
  BY <1>1, <1>5 DEF DirectTypeOK, breakerVars
<1>7. /\ dtool' \in [Call -> Tool \union {None}]
      /\ breakers' \in [Server -> Breaker]
  BY <1>5 DEF DirectTypeOK, breakerVars, Breaker
<1> QED BY <1>2, <1>3, <1>4, <1>6, <1>7 DEF DirectTypeOK, Breaker

LEMMA TypeCloseDirect ==
  ASSUME DirectTypeOK, CloseDirect
  PROVE  DirectTypeOK'
<1>1. made \in Nat /\ 0 \in 0..made
  BY ThresholdAssumption DEF DirectTypeOK
<1>2. \A k \in Key : pools[k] # 0 => pools[k] \in 1..made
  BY <1>1 DEF DirectTypeOK
<1> QED BY <1>1, <1>2 DEF DirectTypeOK, CloseDirect, breakerVars

LEMMA TypeBreaker ==
  ASSUME DirectTypeOK, NEW c \in Call, MissBreaker(c) \/ MakeBreaker(c) \/ Refuse(c) \/ Admit(c)
  PROVE  DirectTypeOK'
<1>1. CASE MissBreaker(c)
  BY <1>1 DEF MissBreaker, DGoto, DirectTypeOK, poolVars, breakerVars
<1>2. CASE MakeBreaker(c)
  <2>1. breakers' \in [Server -> Breaker]
    BY <1>2, ToolOf, BreakerType DEF MakeBreaker, DirectTypeOK, Breaker
  <2> QED BY <1>2, <2>1 DEF MakeBreaker, DGoto, DirectTypeOK, poolVars, Breaker
<1>3. CASE Refuse(c)
  <2>1. dpc[c] = "breaker" /\ DReturn(c) /\ UNCHANGED <<poolVars, breakerVars>>
    BY <1>3 DEF Refuse
  <2>2. c \notin current
    BY <2>1 DEF DirectTypeOK
  <2> QED BY <2>1, <2>2, DReturnType DEF DirectTypeOK, poolVars, breakerVars
<1>4. CASE Admit(c)
  <2>1. dpc[c] = "breaker" /\ dtool[c].server \in Server
    BY <1>4, ToolOf DEF Admit
  <2>2. breakers' \in [Server -> Breaker]
    BY <1>4, <2>1, Bumped DEF Admit, DirectTypeOK, Breaker
  <2> QED BY <1>4, <2>1, <2>2 DEF Admit, DGoto, DirectTypeOK, poolVars, Breaker
<1> QED BY <1>1, <1>2, <1>3, <1>4

LEMMA TypeCall ==
  ASSUME DirectTypeOK, NEW c \in Call, AcquireConnection(c) \/ CallTool(c)
  PROVE  DirectTypeOK'
<1>1. CASE dpc[c] = "acquire" /\ DGoto(c, "call") /\ UNCHANGED <<poolVars, breakerVars, dtool, dpool>>
  BY <1>1 DEF DGoto, DirectTypeOK, poolVars, breakerVars
<1>2. CASE \E ok \in BOOLEAN : After(c, ok) /\ DReturn(c) /\ dpc[c] \in {"acquire", "call"} /\ UNCHANGED poolVars
  BY <1>2, AfterType
<1> QED BY <1>1, <1>2 DEF AcquireConnection, CallTool

LEMMA TypeExpire ==
  ASSUME DirectTypeOK, NEW s \in Server, Expire(s)
  PROVE  DirectTypeOK'
<1>1. breakers' \in [Server -> Breaker] /\ current' \subseteq current
  BY BreakerType DEF Expire, ExpireClosed, ExpireOpen, NewGeneration, DirectTypeOK, Breaker
<1> QED BY <1>1 DEF Expire, DirectTypeOK, Breaker, poolVars

-----------------------------------------------------------------------------
(* One pool per key. *)

LEMMA PoolsInit == DirectInit => OnePool
<1> SUFFICES ASSUME DirectInit PROVE OnePool
  OBVIOUS
<1>1. 1..made = {}
  BY DEF DirectInit
<1> QED BY <1>1 DEF DirectInit, OnePool

LEMMA PoolsMake ==
  ASSUME DirectTypeOK, OnePool, NEW c \in Call, MakePool(c)
  PROVE  OnePool'
<1>1. CASE UNCHANGED <<pools, made>>
  BY <1>1 DEF MakePool, OnePool
<1>2. CASE /\ pools[KeyOf(c)] = 0 /\ made < MaxPools
           /\ pools' = [pools EXCEPT ![KeyOf(c)] = made + 1]
           /\ made' = made + 1
  <2>1. KeyOf(c) \in Key /\ made \in Nat /\ closed' = closed
    BY ToolOf, ThresholdAssumption DEF MakePool, DirectTypeOK
  <2> DEFINE k0 == KeyOf(c)
  <2> HIDE DEF k0
  <2>2. pools' = [pools EXCEPT ![k0] = made + 1] /\ k0 \in Key /\ pools[k0] = 0
    BY <1>2, <2>1 DEF k0
  <2>3. \A k \in Key : pools[k] \in 0..made /\ pools'[k] = IF k = k0 THEN made + 1 ELSE pools[k]
    BY <2>2 DEF DirectTypeOK
  <2>4. ASSUME NEW k \in Key, NEW l \in Key, pools'[k] = pools'[l], pools'[k] # 0 PROVE k = l
    BY <2>1, <2>3, <2>4 DEF OnePool
  <2>5. ASSUME NEW n \in 1..made' PROVE n \in closed' \/ \E k \in Key : pools'[k] = n
    <3>1. CASE n = made + 1
      BY <2>2, <2>3, <3>1
    <3>2. CASE n # made + 1
      <4>1. n \in 1..made /\ n # 0
        BY <1>2, <2>1, <3>2
      <4>2. n \in closed \/ \E k \in Key : pools[k] = n
        BY <4>1 DEF OnePool
      <4> QED BY <2>1, <2>2, <2>3, <4>1, <4>2
    <3> QED BY <3>1, <3>2
  <2> QED BY <2>4, <2>5 DEF OnePool
<1> QED BY <1>1, <1>2 DEF MakePool

LEMMA PoolsClose ==
  ASSUME DirectTypeOK, OnePool, CloseDirect
  PROVE  OnePool'
<1>1. made \in Nat
  BY ThresholdAssumption DEF DirectTypeOK
<1> QED BY <1>1 DEF OnePool, CloseDirect

(* What the property says follows. *)
LEMMA PoolIsFound == DirectTypeOK /\ OnePool => NoPoolEscapes
<1> SUFFICES ASSUME DirectTypeOK, OnePool, NEW n \in 1..made, n \notin closed
             PROVE  Cardinality({k \in Key : pools[k] = n}) = 1
  BY DEF NoPoolEscapes
<1>1. made \in Nat /\ n # 0
  BY ThresholdAssumption DEF DirectTypeOK
<1>2. PICK k \in Key : pools[k] = n
  BY DEF OnePool
<1>3. {l \in Key : pools[l] = n} = {k}
  BY <1>1, <1>2 DEF OnePool
<1> QED BY <1>3, FS_Singleton

-----------------------------------------------------------------------------
(* What the breakers count. *)

Counted(s) ==
  LET b == breakers[s]
  IN  /\ b.requests = b.successes + b.failures + Cardinality(UnderWay(s))
      /\ b.state = "half" => b.requests <= HalfRequests /\ b.failures = 0
      /\ b.state \in {"none", "open"} => b.requests = 0

LEMMA CountedIs == BreakerCounts <=> \A s \in Server : Counted(s)
BY DEF BreakerCounts, Counted, UnderWay

(* A call that is under way at one server is not at another. *)
LEMMA FiniteUnderWay ==
  ASSUME NEW s PROVE IsFiniteSet(UnderWay(s)) /\ Cardinality(UnderWay(s)) \in Nat
<1>1. UnderWay(s) \in SUBSET Call
  BY DEF UnderWay, Inside
<1> QED BY <1>1, CallAssumption, FS_Subset, FS_CardinalityType

LEMMA SameCount ==
  ASSUME BreakerCounts, UNCHANGED breakers, \A s \in Server : UnderWay(s)' = UnderWay(s)
  PROVE  BreakerCounts'
BY DEF BreakerCounts, UnderWay

LEMMA CountsInit == DirectInit => BreakerCounts
<1> SUFFICES ASSUME DirectInit, NEW s \in Server PROVE Counted(s)
  BY CountedIs
<1>1. UnderWay(s) = {}
  BY DEF UnderWay, DirectInit
<1> QED BY <1>1, FS_EmptySet DEF Counted, DirectInit, NoBreaker

LEMMA CountsNew ==
  ASSUME DirectTypeOK, BreakerCounts, NEW s \in Server, NEW state \in {"closed", "open", "half"},
         breakers' = [breakers EXCEPT ![s] = [NoBreaker EXCEPT !.state = state]],
         UnderWay(s)' = {}, \A u \in Server \ {s} : UnderWay(u)' = UnderWay(u)
  PROVE  BreakerCounts'
<1>1. ASSUME NEW u \in Server PROVE Counted(u)'
  <2>1. CASE u = s
    <3>1. breakers'[s] = [NoBreaker EXCEPT !.state = state]
      BY DEF DirectTypeOK
    <3> QED BY <2>1, <3>1, FS_EmptySet, ThresholdAssumption DEF Counted, NoBreaker
  <2>2. CASE u # s
    <3>1. breakers'[u] = breakers[u] /\ UnderWay(u)' = UnderWay(u) /\ Counted(u)
      BY <2>2, CountedIs DEF DirectTypeOK
    <3> QED BY <3>1 DEF Counted
  <2> QED BY <2>1, <2>2
<1> QED BY <1>1 DEF BreakerCounts, Counted, UnderWay

LEMMA CountsAdmit ==
  ASSUME DirectTypeOK, BreakerCounts, NEW c \in Call, Admit(c)
  PROVE  BreakerCounts'
<1>0. PICK s \in Server : s = dtool[c].server
  BY ToolOf DEF Admit
<1>1. /\ s \in Server /\ dpc[c] = "breaker" /\ c \notin current
      /\ ~Refused(breakers[s]) /\ breakers[s].state # "none"
  <2>1. dpc[c] = "breaker" /\ s \in Server /\ c \notin current
    BY DEF Admit, DirectTypeOK
  <2>2. breakers[s].state = "none" => breakers[s] = NoBreaker
    <3> SUFFICES ASSUME breakers[s].state = "none" PROVE breakers[s] = NoBreaker
      OBVIOUS
    <3>1. Counted(s) /\ IsFiniteSet(UnderWay(s)) /\ Cardinality(UnderWay(s)) \in Nat
      BY <2>1, CountedIs, FiniteUnderWay
    <3>2. breakers[s] \in Breaker
      BY <2>1 DEF DirectTypeOK, Breaker
    <3>3. breakers[s].requests = 0 /\ breakers[s].successes = 0 /\ breakers[s].failures = 0
      BY <3>1, <3>2 DEF Counted, Breaker
    <3> QED BY <3>2, <3>3 DEF NoBreaker, Breaker
  <2> QED BY <1>0, <2>1, <2>2 DEF Admit, BreakerOf
<1>2. /\ breakers' = [breakers EXCEPT ![s].requests = @ + 1]
      /\ current' = current \union {c} /\ dtool' = dtool
      /\ dpc' = [dpc EXCEPT ![c] = "acquire"]
  BY <1>0 DEF Admit, DGoto
<1>3. UnderWay(s)' = UnderWay(s) \union {c} /\ c \notin UnderWay(s)
  BY <1>0, <1>1, <1>2 DEF UnderWay, Inside, DirectTypeOK
<1>4. \A u \in Server \ {s} : UnderWay(u)' = UnderWay(u)
  BY <1>0, <1>1, <1>2 DEF UnderWay, Inside, DirectTypeOK
<1>5. ASSUME NEW u \in Server PROVE Counted(u)'
  <2>1. breakers[u] \in Breaker /\ Counted(u)
    BY CountedIs DEF DirectTypeOK, Breaker
  <2>2. CASE u = s
    <3>1. breakers'[s] = [breakers[s] EXCEPT !.requests = @ + 1]
      BY <1>1, <1>2 DEF DirectTypeOK
    <3>2. Cardinality(UnderWay(s)') = Cardinality(UnderWay(s)) + 1 /\ Cardinality(UnderWay(s)) \in Nat
      BY <1>3, FiniteUnderWay, FS_AddElement
    <3> QED BY <1>1, <2>1, <2>2, <3>1, <3>2, ThresholdAssumption DEF Counted, Breaker, Refused
  <2>3. CASE u # s
    <3>1. breakers'[u] = breakers[u] /\ UnderWay(u)' = UnderWay(u)
      BY <1>2, <1>4, <2>3 DEF DirectTypeOK
    <3> QED BY <2>1, <3>1 DEF Counted
  <2> QED BY <2>2, <2>3
<1> QED BY <1>5 DEF BreakerCounts, Counted, UnderWay

(* The end of a call, which leaves the breaker's count with its result. *)
LEMMA CountsAfter ==
  ASSUME DirectTypeOK, BreakerCounts, NEW c \in Call, dpc[c] \in {"acquire", "call"},
         NEW ok \in BOOLEAN, After(c, ok), DReturn(c)
  PROVE  BreakerCounts'
<1>0. PICK s \in Server : s = dtool[c].server
  BY ToolOf
<1>1. s \in Server /\ c \in Inside(s) /\ breakers[s] \in Breaker /\ Counted(s)
  BY <1>0, CountedIs DEF Inside, DirectTypeOK, Breaker
<1>2. \A u \in Server : Inside(u)' = Inside(u) \ {c}
  BY DEF Inside, DReturn, DGoto, DirectTypeOK
<1>3. \A u \in Server \ {s} : c \notin Inside(u) /\ Inside(u) \intersect Inside(s) = {}
  BY <1>0 DEF Inside
<1>4. CASE c \notin current /\ UNCHANGED breakerVars
  BY <1>2, <1>4, SameCount DEF UnderWay, breakerVars
<1>5. CASE c \in current /\ IF ok THEN OnSuccess(s) ELSE OnFailure(s)
  <2>1. breakers[s].state \in {"closed", "half"}
    <3>1. Cardinality(UnderWay(s)) # 0 /\ Cardinality(UnderWay(s)) \in Nat
      BY <1>1, <1>5, FiniteUnderWay, FS_EmptySet DEF UnderWay
    <3> QED BY <1>1, <3>1 DEF Counted, Breaker
  <2>2. CASE \E state \in {"closed", "open"} : NewGeneration(s, [NoBreaker EXCEPT !.state = state])
    <3>1. UnderWay(s)' = {} /\ \A u \in Server \ {s} : UnderWay(u)' = UnderWay(u)
      BY <1>1, <1>2, <1>3, <2>2 DEF UnderWay, NewGeneration
    <3> QED BY <1>1, <2>2, <3>1, CountsNew DEF NewGeneration
  <2>3. CASE \E b \in Breaker :
               /\ breakers' = [breakers EXCEPT ![s] = b] /\ b.state = breakers[s].state
               /\ b.requests = breakers[s].requests
               /\ b.successes + b.failures = breakers[s].successes + breakers[s].failures + 1
               /\ b.state = "half" => b.failures = breakers[s].failures
    <3>1. PICK b \in Breaker :
               /\ breakers' = [breakers EXCEPT ![s] = b] /\ b.state = breakers[s].state
               /\ b.requests = breakers[s].requests
               /\ b.successes + b.failures = breakers[s].successes + breakers[s].failures + 1
               /\ b.state = "half" => b.failures = breakers[s].failures
      BY <2>3
    <3>2. breakers'[s] = b /\ current' = current \ {c}
      BY <1>0, <1>1, <1>5, <3>1 DEF DirectTypeOK, After
    <3>3. UnderWay(s)' = UnderWay(s) \ {c} /\ c \in UnderWay(s)
      BY <1>1, <1>2, <1>5, <3>2 DEF UnderWay
    <3>4. \A u \in Server \ {s} : UnderWay(u)' = UnderWay(u)
      BY <1>2, <1>3, <3>2 DEF UnderWay
    <3>5. ASSUME NEW u \in Server PROVE Counted(u)'
      <4>1. CASE u = s
        <5>1. Cardinality(UnderWay(s)') = Cardinality(UnderWay(s)) - 1 /\ Cardinality(UnderWay(s)) \in Nat
          BY <3>3, FiniteUnderWay, FS_RemoveElement
        <5> QED BY <1>1, <2>1, <3>1, <3>2, <4>1, <5>1 DEF Counted, Breaker
      <4>2. CASE u # s
        <5>1. breakers'[u] = breakers[u] /\ UnderWay(u)' = UnderWay(u) /\ Counted(u)
          BY <3>1, <3>4, <4>2, CountedIs DEF DirectTypeOK
        <5> QED BY <5>1 DEF Counted
      <4> QED BY <4>1, <4>2
    <3> QED BY <3>5 DEF BreakerCounts, Counted, UnderWay
  <2>4. CASE ok
    <3>1. breakers' = [breakers EXCEPT ![s] = [breakers[s] EXCEPT !.successes = @ + 1]]
            \/ NewGeneration(s, [NoBreaker EXCEPT !.state = "closed"])
      BY <1>5, <2>4 DEF OnSuccess, Closed
    <3>2. LET b == [breakers[s] EXCEPT !.successes = @ + 1] IN
            /\ b \in Breaker /\ b.state = breakers[s].state /\ b.requests = breakers[s].requests
            /\ b.successes + b.failures = breakers[s].successes + breakers[s].failures + 1
            /\ b.failures = breakers[s].failures
      BY <1>1 DEF Breaker
    <3> QED BY <2>2, <2>3, <3>1, <3>2
  <2>5. CASE ~ok
    <3>1. (breakers[s].state # "half" /\ breakers' = [breakers EXCEPT ![s] = [breakers[s] EXCEPT !.failures = @ + 1]])
            \/ NewGeneration(s, [NoBreaker EXCEPT !.state = "open"])
      BY <1>1, <1>5, <2>5 DEF OnFailure, Breaker
    <3>2. LET b == [breakers[s] EXCEPT !.failures = @ + 1] IN
            /\ b \in Breaker /\ b.state = breakers[s].state /\ b.requests = breakers[s].requests
            /\ b.successes + b.failures = breakers[s].successes + breakers[s].failures + 1
      BY <1>1 DEF Breaker
    <3> QED BY <2>2, <2>3, <3>1, <3>2
  <2> QED BY <2>4, <2>5
<1> QED BY <1>0, <1>4, <1>5 DEF After

(* Steps that change neither breakers nor who is inside one. *)
LEMMA CountsElsewhere ==
  ASSUME DirectTypeOK, BreakerCounts, NEW c \in Call, dpc[c] \notin {"acquire", "call"},
         dpc' = [dpc EXCEPT ![c] = dpc'[c]], dpc'[c] \notin {"acquire", "call"},
         dtool' = [dtool EXCEPT ![c] = dtool'[c]], UNCHANGED breakerVars
  PROVE  BreakerCounts'
<1>1. \A s \in Server : UnderWay(s)' = UnderWay(s)
  BY DEF UnderWay, Inside, breakerVars, DirectTypeOK
<1> QED BY <1>1, SameCount DEF breakerVars

LEMMA CountsMakeBreaker ==
  ASSUME DirectTypeOK, BreakerCounts, NEW c \in Call, MakeBreaker(c)
  PROVE  BreakerCounts'
<1>0. PICK s \in Server : s = dtool[c].server
  BY ToolOf DEF MakeBreaker
<1>1. \A u \in Server : UnderWay(u)' = UnderWay(u)
  BY DEF MakeBreaker, DGoto, UnderWay, Inside, DirectTypeOK
<1>2. CASE breakers[s] = NoBreaker
  <2>1. UnderWay(s) = {}
    <3>1. Cardinality(UnderWay(s)) = 0
      BY <1>2, CountedIs, FiniteUnderWay DEF Counted, NoBreaker
    <3> QED BY <3>1, FiniteUnderWay, FS_EmptySet
  <2> QED BY <1>0, <1>1, <1>2, <2>1, CountsNew DEF MakeBreaker, BreakerOf, Closed
<1>3. CASE breakers[s] # NoBreaker
  BY <1>0, <1>1, <1>3, SameCount DEF MakeBreaker, BreakerOf
<1> QED BY <1>2, <1>3

LEMMA CountsExpire ==
  ASSUME DirectTypeOK, BreakerCounts, NEW s \in Server, Expire(s)
  PROVE  BreakerCounts'
<1>1. UnderWay(s)' = {} /\ \A u \in Server \ {s} : UnderWay(u)' = UnderWay(u)
  BY DEF Expire, ExpireClosed, ExpireOpen, NewGeneration, UnderWay, Inside, DirectTypeOK
<1> QED BY <1>1, CountsNew DEF Expire, ExpireClosed, ExpireOpen, NewGeneration, Closed

LEMMA DirectStart == DirectInit => DirectInv
BY TypeInit, PoolsInit, CountsInit DEF DirectInv

LEMMA PoolsKept ==
  ASSUME OnePool, UNCHANGED poolVars
  PROVE  OnePool'
BY DEF OnePool, poolVars

LEMMA DirectStep == DirectInv /\ [DirectNext]_directVars => DirectInv'
<1> SUFFICES ASSUME DirectTypeOK, OnePool, BreakerCounts, [DirectNext]_directVars
             PROVE  DirectTypeOK' /\ OnePool' /\ BreakerCounts'
  BY DEF DirectInv
<1>1. ASSUME NEW c \in Call, NEW t \in Tool, Execute(c, t) PROVE DirectTypeOK' /\ OnePool' /\ BreakerCounts'
  <2>1. BreakerCounts'
    BY <1>1, CountsElsewhere DEF Execute, DGoto, DirectTypeOK
  <2> QED BY <1>1, <2>1, TypeExecute, PoolsKept DEF Execute
<1>2. ASSUME NEW c \in Call, MakePool(c) PROVE DirectTypeOK' /\ OnePool' /\ BreakerCounts'
  <2>1. BreakerCounts'
    BY <1>2, CountsElsewhere DEF MakePool, DGoto, DirectTypeOK
  <2> QED BY <1>2, <2>1, TypeMakePool, PoolsMake
<1>3. ASSUME NEW c \in Call, MissBreaker(c) PROVE DirectTypeOK' /\ OnePool' /\ BreakerCounts'
  <2>1. BreakerCounts'
    BY <1>3, CountsElsewhere DEF MissBreaker, DGoto, DirectTypeOK
  <2> QED BY <1>3, <2>1, TypeBreaker, PoolsKept DEF MissBreaker
<1>4. ASSUME NEW c \in Call, MakeBreaker(c) PROVE DirectTypeOK' /\ OnePool' /\ BreakerCounts'
  BY <1>4, TypeBreaker, CountsMakeBreaker, PoolsKept DEF MakeBreaker
<1>5. ASSUME NEW c \in Call, Refuse(c) PROVE DirectTypeOK' /\ OnePool' /\ BreakerCounts'
  <2>1. BreakerCounts'
    BY <1>5, CountsElsewhere DEF Refuse, DReturn, DGoto, DirectTypeOK
  <2> QED BY <1>5, <2>1, TypeBreaker, PoolsKept DEF Refuse
<1>6. ASSUME NEW c \in Call, Admit(c) PROVE DirectTypeOK' /\ OnePool' /\ BreakerCounts'
  BY <1>6, TypeBreaker, CountsAdmit, PoolsKept DEF Admit
<1>7. ASSUME NEW c \in Call, AcquireConnection(c) \/ CallTool(c)
      PROVE  DirectTypeOK' /\ OnePool' /\ BreakerCounts'
  <2>1. CASE dpc[c] = "acquire" /\ DGoto(c, "call") /\ UNCHANGED <<breakerVars, dtool, dpool>>
    <3>1. \A s \in Server : UnderWay(s)' = UnderWay(s)
      BY <2>1 DEF UnderWay, Inside, breakerVars, DGoto, DirectTypeOK
    <3> QED BY <1>7, <2>1, <3>1, SameCount, TypeCall, PoolsKept DEF AcquireConnection, CallTool, breakerVars
  <2>2. CASE \E ok \in BOOLEAN : After(c, ok) /\ DReturn(c) /\ dpc[c] \in {"acquire", "call"}
    BY <1>7, <2>2, CountsAfter, TypeCall, PoolsKept DEF AcquireConnection, CallTool
  <2> QED BY <1>7, <2>1, <2>2 DEF AcquireConnection, CallTool
<1>8. ASSUME NEW s \in Server, Expire(s) PROVE DirectTypeOK' /\ OnePool' /\ BreakerCounts'
  BY <1>8, TypeExpire, CountsExpire, PoolsKept DEF Expire
<1>9. ASSUME CloseDirect PROVE DirectTypeOK' /\ OnePool' /\ BreakerCounts'
  <2>1. \A s \in Server : UnderWay(s)' = UnderWay(s)
    BY <1>9 DEF CloseDirect, UnderWay, Inside, breakerVars
  <2> QED BY <1>9, <2>1, SameCount, TypeCloseDirect, PoolsClose DEF CloseDirect, breakerVars
<1>10. ASSUME UNCHANGED directVars PROVE DirectTypeOK' /\ OnePool' /\ BreakerCounts'
  <2>1. \A s \in Server : UnderWay(s)' = UnderWay(s)
    BY <1>10 DEF directVars, UnderWay, Inside, breakerVars
  <2> QED BY <1>10, <2>1, SameCount, PoolsKept DEF directVars, breakerVars, poolVars, DirectTypeOK
<1> QED BY <1>1, <1>2, <1>3, <1>4, <1>5, <1>6, <1>7, <1>8, <1>9, <1>10 DEF DirectNext, CallStep

LEMMA DirectHolds == DirectSpec => []DirectInv
BY DirectStart, DirectStep, PTL DEF DirectSpec

-----------------------------------------------------------------------------
(* Code mode calls DirectExecutor and changes nothing of it by itself. *)

LEMMA CodeIsDirect == [CodeNext]_allVars => [DirectNext]_directVars
<1> SUFFICES ASSUME [CodeNext]_allVars PROVE DirectNext \/ UNCHANGED directVars
  OBVIOUS
<1>1. ASSUME NEW x \in Exec, Caller(x) PROVE UNCHANGED directVars
  BY <1>1 DEF Caller, AcquireVm, AcquireEmergency, AcquireNil, InjectTools, InjectFails,
              Receive, Timeout, Abandon, Release
<1>2. ASSUME NEW x \in Exec, Code(x) PROVE DirectNext \/ UNCHANGED directVars
  <2>1. CASE CodeEnds(x)
    BY <2>1 DEF CodeEnds
  <2>2. CASE ToolStep(x)
    BY <2>2, ExecAssumption DEF ToolStep, DirectNext
  <2>3. CASE \E t \in Tool : CallTool_(x, t)
    BY <2>3, ExecAssumption DEF CallTool_, DirectNext
  <2> QED BY <1>2, <2>1, <2>2, <2>3 DEF Code
<1>3. ASSUME NEW s \in Server, Expire(s) PROVE DirectNext
  BY <1>3 DEF DirectNext
<1>4. ASSUME CloseAll PROVE DirectNext \/ UNCHANGED directVars
  BY <1>4 DEF CloseAll, DirectNext, CloseVMPool
<1>5. ASSUME NEW v \in Vm, Collide(v) PROVE UNCHANGED directVars
  BY <1>5 DEF Collide
<1>6. CASE UNCHANGED allVars
  BY <1>6 DEF allVars
<1> QED BY <1>1, <1>2, <1>3, <1>4, <1>5, <1>6 DEF CodeNext

(***************************************************************************)
(* Code mode implements DirectExecutor: what its executions do to pools    *)
(* and breakers are calls of Execute, the breakers' clocks, and Close.     *)
(***************************************************************************)
THEOREM Implements == CodeSpec => DirectSpec
<1>1. CodeInit => DirectInit
  BY DEF CodeInit
<1> QED BY <1>1, CodeIsDirect, PTL DEF CodeSpec, DirectSpec

(***************************************************************************)
(* NoPoolEscapes, for any tools, names and servers, among them tools that  *)
(* share a pool or a server: getPool's second look makes each pool one     *)
(* key's, and Close finds all that are open.                               *)
(***************************************************************************)
THEOREM Pools == CodeSpec => []NoPoolEscapes
<1>1. DirectInv => NoPoolEscapes
  BY PoolIsFound DEF DirectInv
<1> QED BY <1>1, DirectHolds, Implements, PTL

(***************************************************************************)
(* BreakerCounts, for any thresholds, servers and calls: a request is      *)
(* counted once, as a success, as a failure or as under way, across all    *)
(* the generations a call may see begin.                                   *)
(***************************************************************************)
THEOREM Counts == CodeSpec => []BreakerCounts
<1>1. DirectInv => BreakerCounts
  BY DEF DirectInv
<1> QED BY <1>1, DirectHolds, Implements, PTL

-----------------------------------------------------------------------------
(* The interpreters. *)

CodeTypes ==
  /\ idle \in Seq(Vm) /\ Len(idle) <= PoolSize
  /\ drained \in BOOLEAN /\ dead \in BOOLEAN
  /\ interrupted \subseteq Vm
  /\ globals \in [Vm -> SUBSET Tool]
  /\ xpc \in [Exec -> {"acquire", "inject", "wait", "grace", "release", "returned", "panicked"}]
  /\ vm \in [Exec -> Vm \union {None}]
  /\ rpc \in [Exec -> {"none", "js", "tool", "sent"}]
  /\ abandoned \subseteq Exec

(* What the interpreters of callers and of the pool have to do with each other. *)
Owned ==
  /\ \A i, j \in 1..Len(idle) : idle[i] = idle[j] => i = j
  /\ \A x \in Holders : /\ vm[x] \in Vm
                        /\ \A i \in 1..Len(idle) : idle[i] # vm[x]
                        /\ \A y \in Holders : vm[x] = vm[y] => x = y
  /\ \A i \in 1..Len(idle) : idle[i] \notin interrupted

(* Code runs for a caller that waits for it, or was abandoned by one that left. *)
Runs ==
  /\ \A x \in Exec : rpc[x] \in {"js", "tool"} => xpc[x] \in {"wait", "grace"} \/ x \in abandoned
  /\ \A x \in abandoned : xpc[x] \in {"release", "returned", "panicked"}
  /\ \A x \in Exec : dpc[x] # "idle" => rpc[x] = "tool"

CodeInv == DirectInv /\ CodeTypes /\ Owned /\ Runs

LEMMA TypesFollow == CodeInv => CodeTypeOK
BY DEF CodeInv, DirectInv, CodeTypes, Owned, Runs, CodeTypeOK

LEMMA OwnersFollow == CodeInv => VmIsOwned
<1> SUFFICES ASSUME CodeTypes, Owned, Runs PROVE VmIsOwned
  BY DEF CodeInv
<1>1. DOMAIN idle = 1..Len(idle)
  BY DEF CodeTypes
<1>2. ASSUME NEW v \in Vm PROVE Cardinality(RunningOn(v) \ abandoned) <= 1
  <2>1. RunningOn(v) \ abandoned \subseteq {x \in Holders : vm[x] = v}
    BY DEF RunningOn, Runs, Holders
  <2>2. CASE RunningOn(v) \ abandoned = {}
    BY <2>2, FS_EmptySet
  <2>3. CASE \E x \in RunningOn(v) \ abandoned : TRUE
    <3>1. PICK x \in RunningOn(v) \ abandoned : TRUE
      BY <2>3
    <3>2. RunningOn(v) \ abandoned = {x}
      BY <2>1, <3>1 DEF Owned
    <3> QED BY <3>2, FS_Singleton
  <2> QED BY <2>2, <2>3
<1> QED BY <1>1, <1>2 DEF Owned, VmIsOwned, Pooled

LEMMA CodeStart == CodeInit => CodeInv
<1> SUFFICES ASSUME CodeInit PROVE CodeTypes /\ Owned /\ Runs
  BY DirectStart DEF CodeInit, CodeInv
<1>1. idle \in Seq(Vm) /\ Len(idle) = PoolSize
  BY VmAssumption DEF CodeInit
<1>2. Holders = {}
  BY DEF CodeInit, Holders
<1>3. CodeTypes
  <2>1. globals \in [Vm -> SUBSET Tool] /\ vm \in [Exec -> Vm \union {None}]
    BY DEF CodeInit
  <2>2. xpc \in [Exec -> {"acquire", "inject", "wait", "grace", "release", "returned", "panicked"}]
    BY DEF CodeInit
  <2>3. rpc \in [Exec -> {"none", "js", "tool", "sent"}] /\ abandoned = {} /\ interrupted = {}
    BY DEF CodeInit
  <2>4. drained \in BOOLEAN /\ dead \in BOOLEAN
    BY DEF CodeInit
  <2>5. Len(idle) <= PoolSize
    BY <1>1, VmAssumption
  <2> QED BY <1>1, <2>1, <2>2, <2>3, <2>4, <2>5 DEF CodeTypes
<1>4. Owned
  BY <1>1, <1>2 DEF CodeInit, Owned
<1>5. Runs
  BY ExecAssumption DEF CodeInit, DirectInit, Runs
<1> QED BY <1>3, <1>4, <1>5

LEMMA AcquireVmStep ==
  ASSUME CodeTypes, Owned, Runs, NEW x \in Exec, AcquireVm(x)
  PROVE  CodeTypes' /\ Owned' /\ Runs'
<1>1. /\ xpc[x] = "acquire" /\ idle # <<>> /\ vm' = [vm EXCEPT ![x] = idle[1]]
      /\ xpc' = [xpc EXCEPT ![x] = "inject"] /\ idle' = Tail(idle)
      /\ UNCHANGED <<drained, interrupted, globals, rpc, abandoned, dead, dpc>>
  BY DEF AcquireVm, XGoto, directVars, CodeTypes
<1>2. /\ idle' \in Seq(Vm) /\ Len(idle') = Len(idle) - 1 /\ Len(idle) \in Nat \ {0} /\ idle[1] \in Vm
      /\ \A i \in 1..Len(idle') : idle'[i] = idle[i + 1]
  BY <1>1 DEF CodeTypes
<1>3. Holders' = Holders \union {x} /\ x \notin Holders
  BY <1>1 DEF Holders, CodeTypes
<1>4. vm'[x] = idle[1] /\ \A y \in Exec \ {x} : vm'[y] = vm[y]
  BY <1>1 DEF CodeTypes
<1>5. CodeTypes'
  BY <1>1, <1>2, VmAssumption DEF CodeTypes
<1>6. Owned'
  <2>1. \A i, j \in 1..Len(idle') : idle'[i] = idle'[j] => i = j
    BY <1>2 DEF Owned
  <2>2. \A i \in 1..Len(idle') : idle'[i] # idle[1] /\ idle'[i] \notin interrupted'
    BY <1>1, <1>2 DEF Owned
  <2>3. \A y \in Holders : y \in Exec /\ vm[y] \in Vm /\ vm[y] # idle[1] /\ \A i \in 1..Len(idle') : idle'[i] # vm[y]
    BY <1>2 DEF Owned, Holders
  <2>4. \A y, z \in Holders : vm[y] = vm[z] => y = z
    BY DEF Owned
  <2> QED BY <1>2, <1>3, <1>4, <2>1, <2>2, <2>3, <2>4 DEF Owned
<1>7. Runs'
  BY <1>1 DEF Runs, CodeTypes
<1> QED BY <1>5, <1>6, <1>7

LEMMA AcquireEmergencyStep ==
  ASSUME CodeTypes, Owned, Runs, NEW x \in Exec, AcquireEmergency(x)
  PROVE  CodeTypes' /\ Owned' /\ Runs'
<1>1. PICK v \in Garbage : /\ vm' = [vm EXCEPT ![x] = v]
                           /\ globals' = [globals EXCEPT ![v] = {}]
                           /\ interrupted' = interrupted \ {v}
  BY DEF AcquireEmergency
<1>2. v \in Vm /\ \A y \in Holders : vm[y] # v
  BY DEF Garbage
<1>3. /\ xpc[x] = "acquire" /\ xpc' = [xpc EXCEPT ![x] = "inject"] /\ idle = <<>>
      /\ UNCHANGED <<idle, drained, rpc, abandoned, dead, dpc>>
  BY DEF AcquireEmergency, XGoto, directVars
<1>4. Holders' = Holders \union {x} /\ x \notin Holders /\ Len(idle) = 0
  BY <1>3 DEF Holders, CodeTypes
<1>5. vm'[x] = v /\ \A y \in Exec \ {x} : vm'[y] = vm[y]
  BY <1>1 DEF CodeTypes
<1>6. CodeTypes'
  BY <1>1, <1>2, <1>3 DEF CodeTypes
<1>7. Owned'
  BY <1>2, <1>3, <1>4, <1>5 DEF Owned, Holders
<1>8. Runs'
  BY <1>3 DEF Runs, CodeTypes
<1> QED BY <1>6, <1>7, <1>8

(* Who has an interpreter stays, and so do the interpreters. *)
LEMMA OwnedKept ==
  ASSUME Owned, idle' = idle, Holders' \subseteq Holders,
         \A x \in Holders' : vm'[x] = vm[x],
         \A i \in 1..Len(idle) : idle[i] \in interrupted' => idle[i] \in interrupted
  PROVE  Owned'
BY DEF Owned

LEMMA CallerWaits ==
  ASSUME CodeTypes, Owned, Runs, NEW x \in Exec,
         AcquireNil(x) \/ InjectTools(x) \/ InjectFails(x) \/ Receive(x) \/ Timeout(x) \/ Abandon(x)
  PROVE  CodeTypes' /\ Owned' /\ Runs'
<1>1. /\ idle' = idle /\ vm' = vm /\ dpc' = dpc
      /\ UNCHANGED <<drained, dead>>
  BY DEF AcquireNil, InjectTools, InjectFails, Receive, Timeout, Abandon, vmVars, directVars
<1>2. CASE AcquireNil(x)
  <2>1. /\ xpc[x] = "acquire" /\ xpc' = [xpc EXCEPT ![x] = "panicked"]
        /\ UNCHANGED <<interrupted, globals, rpc, abandoned>>
    BY <1>2 DEF AcquireNil, XGoto, vmVars
  <2>2. Holders' \subseteq Holders
    BY <2>1 DEF Holders, CodeTypes
  <2>3. CodeTypes' /\ Runs'
    BY <1>1, <2>1 DEF CodeTypes, Runs
  <2> QED BY <1>1, <2>1, <2>2, <2>3, OwnedKept
<1>3. CASE InjectTools(x)
  <2>1. PICK ts \in SUBSET Tool : globals' = [globals EXCEPT ![vm[x]] = @ \union ts]
    BY <1>3 DEF InjectTools
  <2>2. /\ xpc[x] = "inject" /\ xpc' = [xpc EXCEPT ![x] = "wait"] /\ rpc' = [rpc EXCEPT ![x] = "js"]
        /\ UNCHANGED <<interrupted, abandoned>>
    BY <1>3 DEF InjectTools, XGoto, RGoto
  <2>3. Holders' \subseteq Holders /\ vm[x] \in Vm
    BY <2>2 DEF Holders, CodeTypes, Owned
  <2>4. CodeTypes'
    BY <1>1, <2>1, <2>2, <2>3 DEF CodeTypes
  <2>5. Runs'
    BY <1>1, <2>2 DEF CodeTypes, Runs
  <2> QED BY <1>1, <2>2, <2>3, <2>4, <2>5, OwnedKept
<1>4. CASE InjectFails(x)
  <2>1. /\ xpc[x] = "inject" /\ xpc' = [xpc EXCEPT ![x] = "release"]
        /\ UNCHANGED <<interrupted, globals, rpc, abandoned>>
    BY <1>4 DEF InjectFails, XGoto, vmVars
  <2>2. Holders' \subseteq Holders
    BY <2>1 DEF Holders, CodeTypes
  <2>3. CodeTypes' /\ Runs'
    BY <1>1, <2>1 DEF CodeTypes, Runs
  <2> QED BY <1>1, <2>1, <2>2, <2>3, OwnedKept
<1>5. CASE Receive(x)
  <2>1. /\ xpc[x] \in {"wait", "grace"} /\ rpc[x] = "sent"
        /\ xpc' = [xpc EXCEPT ![x] = "release"] /\ rpc' = [rpc EXCEPT ![x] = "none"]
        /\ UNCHANGED <<interrupted, globals, abandoned>>
    BY <1>5 DEF Receive, XGoto, RGoto, vmVars
  <2>2. Holders' \subseteq Holders
    BY <2>1 DEF Holders, CodeTypes
  <2>3. CodeTypes' /\ Runs'
    BY <1>1, <2>1 DEF CodeTypes, Runs
  <2> QED BY <1>1, <2>1, <2>2, <2>3, OwnedKept
<1>6. CASE Timeout(x)
  <2>1. /\ xpc[x] = "wait" /\ interrupted' = interrupted \union {vm[x]}
        /\ xpc' = [xpc EXCEPT ![x] = "grace"]
        /\ UNCHANGED <<globals, rpc, abandoned>>
    BY <1>6 DEF Timeout, XGoto
  <2>2. Holders' \subseteq Holders /\ vm[x] \in Vm /\ \A i \in 1..Len(idle) : idle[i] # vm[x]
    BY <2>1 DEF Holders, CodeTypes, Owned
  <2>3. CodeTypes' /\ Runs'
    BY <1>1, <2>1, <2>2 DEF CodeTypes, Runs
  <2> QED BY <1>1, <2>1, <2>2, <2>3, OwnedKept
<1>7. CASE Abandon(x)
  <2>1. /\ xpc[x] = "grace" /\ xpc' = [xpc EXCEPT ![x] = "release"]
        /\ abandoned' = abandoned \union {x}
        /\ UNCHANGED <<interrupted, globals, rpc>>
    BY <1>7 DEF Abandon, XGoto, vmVars
  <2>2. Holders' \subseteq Holders
    BY <2>1 DEF Holders, CodeTypes
  <2>3. CodeTypes' /\ Runs'
    BY <1>1, <2>1 DEF CodeTypes, Runs
  <2> QED BY <1>1, <2>1, <2>2, <2>3, OwnedKept
<1> QED BY <1>2, <1>3, <1>4, <1>5, <1>6, <1>7

LEMMA ReleaseStep ==
  ASSUME CodeTypes, Owned, Runs, NEW x \in Exec, Release(x)
  PROVE  CodeTypes' /\ Owned' /\ Runs'
<1> DEFINE v == vm[x]
<1>1. /\ xpc[x] = "release" /\ interrupted' = interrupted \ {v}
      /\ xpc' = [xpc EXCEPT ![x] = xpc'[x]] /\ xpc'[x] \in {"returned", "panicked"}
      /\ vm' = [vm EXCEPT ![x] = IF rpc[x] \in {"none", "sent"} THEN None ELSE @]
      /\ UNCHANGED <<drained, globals, rpc, abandoned, dead, dpc>>
  BY DEF Release, XGoto, CodeTypes, directVars
<1>2. x \in Holders /\ v \in Vm /\ Holders' = Holders \ {x} /\ \A y \in Holders' : vm'[y] = vm[y] /\ vm[y] # v
  BY <1>1 DEF Holders, CodeTypes, Owned
<1>3. idle' = idle \/ (Len(idle) < PoolSize /\ idle' = Append(idle, v))
  BY DEF Release
<1>4. idle' \in Seq(Vm) /\ Len(idle') <= PoolSize
  BY <1>2, <1>3, VmAssumption DEF CodeTypes
<1>5. CodeTypes'
  <2>1. vm' \in [Exec -> Vm \union {None}]
    BY <1>1 DEF CodeTypes
  <2> QED BY <1>1, <1>4, <2>1 DEF CodeTypes
<1>6. Runs'
  BY <1>1 DEF CodeTypes, Runs
<1>7. Owned'
  <2>1. CASE idle' = idle
    <3>1. Holders' \subseteq Holders /\ interrupted' \subseteq interrupted
      BY <1>1, <1>2
    <3> QED BY <1>2, <2>1, <3>1, OwnedKept
  <2>2. CASE idle' = Append(idle, v)
    <3>1. /\ Len(idle) \in Nat /\ Len(idle') = Len(idle) + 1 /\ idle'[Len(idle) + 1] = v
          /\ \A i \in 1..Len(idle) : idle'[i] = idle[i] /\ idle[i] # v
      BY <1>2, <2>2 DEF CodeTypes, Owned
    <3>2. \A i, j \in 1..Len(idle') : idle'[i] = idle'[j] => i = j
      BY <3>1 DEF Owned
    <3>3. \A i \in 1..Len(idle') : idle'[i] \notin interrupted'
      BY <1>1, <3>1 DEF Owned
    <3>4. ASSUME NEW y \in Holders'
          PROVE  /\ vm'[y] \in Vm /\ \A i \in 1..Len(idle') : idle'[i] # vm'[y]
                 /\ \A z \in Holders' : vm'[y] = vm'[z] => y = z
      BY <1>2, <3>1, <3>4 DEF Owned
    <3> QED BY <3>2, <3>3, <3>4 DEF Owned
  <2> QED BY <1>3, <2>1, <2>2
<1> QED BY <1>5, <1>6, <1>7

LEMMA CodeEndsStep ==
  ASSUME CodeTypes, Owned, Runs, NEW x \in Exec, CodeEnds(x)
  PROVE  CodeTypes' /\ Owned' /\ Runs'
<1>1. /\ rpc[x] = "js" /\ rpc' = [rpc EXCEPT ![x] = rpc'[x]] /\ rpc'[x] \in {"none", "sent"}
      /\ vm' = [vm EXCEPT ![x] = IF x \in Holders THEN @ ELSE None]
      /\ UNCHANGED <<idle, drained, interrupted, globals, xpc, abandoned, dead, dpc>>
  BY DEF CodeEnds, RGoto, CodeTypes, vmVars, directVars
<1>2. Holders' = Holders /\ \A y \in Holders : vm'[y] = vm[y]
  BY <1>1 DEF Holders, CodeTypes
<1>3. CodeTypes'
  <2>1. vm' \in [Exec -> Vm \union {None}]
    BY <1>1 DEF CodeTypes
  <2> QED BY <1>1, <2>1 DEF CodeTypes
<1>4. Runs'
  BY <1>1 DEF CodeTypes, Runs
<1> QED BY <1>1, <1>2, <1>3, <1>4, OwnedKept

(* Calls of a tool concern the call's place and nothing of the interpreters. *)
LEMMA CallMoves ==
  ASSUME DirectTypeOK, NEW c \in Call, CallStep(c) \/ \E t \in Tool : Execute(c, t)
  PROVE  dpc' = [dpc EXCEPT ![c] = dpc'[c]]
<1>1. \A pc : DGoto(c, pc) => dpc' = [dpc EXCEPT ![c] = dpc'[c]]
  BY DEF DGoto, DirectTypeOK
<1> QED BY <1>1, Zenon DEF CallStep, Execute, MakePool, MissBreaker, MakeBreaker, Refuse, Admit,
                           AcquireConnection, CallTool, DReturn

LEMMA InTool ==
  ASSUME DirectTypeOK, CodeTypes, Owned, Runs, NEW x \in Exec,
         ToolStep(x) \/ \E t \in Tool : CallTool_(x, t)
  PROVE  CodeTypes' /\ Owned' /\ Runs'
<1>1. /\ rpc[x] \in {"js", "tool"} /\ rpc' = [rpc EXCEPT ![x] = rpc'[x]] /\ rpc'[x] \in {"js", "tool"}
      /\ rpc'[x] = "js" => dpc'[x] = "idle"
      /\ UNCHANGED <<idle, drained, interrupted, globals, xpc, vm, abandoned, dead>>
  BY DEF ToolStep, CallTool_, RGoto, CodeTypes, vmVars
<1>2. dpc' = [dpc EXCEPT ![x] = dpc'[x]]
  BY CallMoves, ExecAssumption DEF ToolStep, CallTool_
<1>3. Holders' = Holders
  BY <1>1 DEF Holders
<1>4. CodeTypes'
  BY <1>1 DEF CodeTypes
<1>5. Runs'
  <2>1. \A y \in Exec : y # x => rpc'[y] = rpc[y] /\ dpc'[y] = dpc[y]
    BY <1>1, <1>2, ExecAssumption DEF CodeTypes, DirectTypeOK
  <2>2. \A y \in Exec : rpc'[y] \in {"js", "tool"} => xpc'[y] \in {"wait", "grace"} \/ y \in abandoned'
    BY <1>1, <2>1 DEF Runs
  <2>3. \A y \in Exec : dpc'[y] # "idle" => rpc'[y] = "tool"
    BY <1>1, <2>1 DEF Runs
  <2> QED BY <1>1, <2>2, <2>3 DEF Runs
<1> QED BY <1>1, <1>3, <1>4, <1>5, OwnedKept

LEMMA CodeStep == CodeInv /\ [CodeNext]_allVars => CodeInv'
<1> SUFFICES ASSUME CodeInv, [CodeNext]_allVars PROVE CodeInv'
  OBVIOUS
<1>1. DirectInv'
  BY CodeIsDirect, DirectStep DEF CodeInv
<1>2. DirectTypeOK /\ CodeTypes /\ Owned /\ Runs
  BY DEF CodeInv, DirectInv
<1>3. ASSUME NEW x \in Exec, Caller(x) PROVE CodeTypes' /\ Owned' /\ Runs'
  BY <1>2, <1>3, AcquireVmStep, AcquireEmergencyStep, CallerWaits, ReleaseStep DEF Caller
<1>4. ASSUME NEW x \in Exec, Code(x) PROVE CodeTypes' /\ Owned' /\ Runs'
  BY <1>2, <1>4, CodeEndsStep, InTool DEF Code
<1>5. ASSUME UNCHANGED codeVars, dpc' = dpc PROVE CodeTypes' /\ Owned' /\ Runs'
  <2>1. UNCHANGED <<idle, drained, interrupted, globals, xpc, vm, rpc, abandoned, dead, dpc>>
    BY <1>5 DEF codeVars, vmVars, execVars
  <2>2. Holders' = Holders
    BY <2>1 DEF Holders
  <2>3. CodeTypes' /\ Runs'
    BY <1>2, <2>1 DEF CodeTypes, Runs
  <2> QED BY <1>2, <2>1, <2>2, <2>3, OwnedKept
<1>6. ASSUME CloseVMPool PROVE CodeTypes' /\ Owned' /\ Runs'
  <2>1. /\ drained' = TRUE /\ idle' = <<>>
        /\ UNCHANGED <<interrupted, globals, xpc, vm, rpc, abandoned, dead, dpc>>
    BY <1>6 DEF CloseVMPool, directVars, execVars
  <2>2. Holders' = Holders /\ Len(idle') = 0
    BY <2>1 DEF Holders
  <2>3. CodeTypes' /\ Runs'
    BY <1>2, <2>1, VmAssumption DEF CodeTypes, Runs
  <2>4. Owned'
    BY <1>2, <2>1, <2>2 DEF Owned
  <2> QED BY <2>3, <2>4
<1>7. ASSUME NEW v \in Vm, Collide(v) PROVE CodeTypes' /\ Owned' /\ Runs'
  <2>1. /\ dead' = TRUE
        /\ UNCHANGED <<idle, drained, interrupted, globals, xpc, vm, rpc, abandoned, dpc>>
    BY <1>7 DEF Collide, directVars, vmVars, execVars
  <2>2. Holders' = Holders
    BY <2>1 DEF Holders
  <2>3. CodeTypes' /\ Runs'
    BY <1>2, <2>1 DEF CodeTypes, Runs
  <2> QED BY <1>2, <2>1, <2>2, <2>3, OwnedKept
<1>8. CodeTypes' /\ Owned' /\ Runs'
  <2>1. CASE \E s \in Server : Expire(s) /\ UNCHANGED codeVars
    BY <1>5, <2>1 DEF Expire
  <2>2. CASE CloseAll
    BY <1>5, <1>6, <2>2 DEF CloseAll, CloseDirect
  <2>3. CASE UNCHANGED allVars
    BY <1>5, <2>3 DEF allVars, directVars
  <2> QED BY <1>3, <1>4, <1>7, <2>1, <2>2, <2>3 DEF CodeNext
<1> QED BY <1>1, <1>8 DEF CodeInv

LEMMA CodeHolds == CodeSpec => []CodeInv
BY CodeStart, CodeStep, PTL DEF CodeSpec

(***************************************************************************)
(* CodeTypeOK, for any number of executions and interpreters: among its    *)
(* parts, only code that is inside a tool has a call of DirectExecutor.    *)
(***************************************************************************)
THEOREM Typing == CodeSpec => []CodeTypeOK
BY CodeHolds, TypesFollow, PTL

(***************************************************************************)
(* VmIsOwned, for any number of executions and interpreters, those made in *)
(* an emergency included: an interpreter that Acquire gives out is in      *)
(* nobody's hands and not interrupted, and of the code that runs in it all *)
(* but one was given up by its caller.                                     *)
(***************************************************************************)
THEOREM Owners == CodeSpec => []VmIsOwned
BY CodeHolds, OwnersFollow, PTL
=============================================================================
