------------------------ MODULE ConnectionPoolProofs ------------------------
(***************************************************************************)
(* Proofs about ConnectionPool, for any set of connections and of calls,   *)
(* any limit and any number of errors a connection survives.               *)
(*                                                                         *)
(* The argument is one of ownership. Every step that hands a connection on *)
(* takes it from its one owner (the channel, a call, the cleaner, Close)   *)
(* and gives it to another; a new connection comes from nobody.            *)
(***************************************************************************)
EXTENDS ConnectionPool, SequenceTheorems, TLAPS

USE DEF callVars, cleanerVars, closeVars, poolVars, Goto, Holds, Panic, Shut

Distinct == \A i, k \in DOMAIN pool : pool[i] = pool[k] => i = k

(* Receiving takes one connection out of the channel. *)
LEMMA Receive ==
  ASSUME pool \in Seq(Conn), pool # <<>>, Distinct, pool' = Tail(pool)
  PROVE  /\ Head(pool) \in Idle /\ Idle' = Idle \ {Head(pool)}
         /\ Distinct' /\ pool' \in Seq(Conn) /\ Len(pool') < Len(pool)
<1>1. /\ Head(pool) = pool[1] /\ Len(pool) \in Nat \ {0} /\ DOMAIN pool = 1..Len(pool)
      /\ pool' \in Seq(Conn) /\ Len(pool') = Len(pool) - 1
      /\ DOMAIN pool' = 1..(Len(pool) - 1)
      /\ \A i \in DOMAIN pool' : pool'[i] = pool[i + 1]
  BY HeadTailProperties
<1>2. Distinct'
  BY <1>1 DEF Distinct
<1>3. Idle' = Idle \ {Head(pool)}
  <2>1. ASSUME NEW n \in Idle' PROVE n \in Idle /\ n # Head(pool)
    BY <1>1, <2>1 DEF Idle, ToSet, Distinct
  <2>2. ASSUME NEW n \in Idle, n # Head(pool) PROVE n \in Idle'
    <3>1. PICK i \in DOMAIN pool : n = pool[i]  BY DEF Idle, ToSet
    <3>2. i - 1 \in DOMAIN pool' /\ pool'[i - 1] = n
      BY <1>1, <2>2, <3>1
    <3> QED BY <3>2 DEF Idle, ToSet
  <2> QED BY <2>1, <2>2
<1>4. Head(pool) \in Idle
  BY <1>1 DEF Idle, ToSet
<1> QED BY <1>1, <1>2, <1>3, <1>4

(* Sending puts one in, which was not there. *)
LEMMA Send ==
  ASSUME pool \in Seq(Conn), Distinct, NEW n \in Conn, n \notin Idle, pool' = Append(pool, n)
  PROVE  /\ Idle' = Idle \union {n}
         /\ Distinct' /\ pool' \in Seq(Conn) /\ Len(pool') = Len(pool) + 1
<1>1. /\ Len(pool) \in Nat /\ DOMAIN pool = 1..Len(pool)
      /\ pool' \in Seq(Conn) /\ Len(pool') = Len(pool) + 1
      /\ DOMAIN pool' = DOMAIN pool \union {Len(pool) + 1}
      /\ \A i \in DOMAIN pool : pool'[i] = pool[i]
      /\ pool'[Len(pool) + 1] = n
  BY AppendProperties
<1>2. \A i \in DOMAIN pool : pool[i] # n
  BY DEF Idle, ToSet
<1>3. Distinct'
  BY <1>1, <1>2 DEF Distinct
<1>4. Idle' = Idle \union {n}
  BY <1>1 DEF Idle, ToSet
<1> QED BY <1>1, <1>3, <1>4

(* A call that changes its connection gives up the old one and gets the new one. *)
LEMMA Change ==
  ASSUME TypeOK, OneOwner, NEW c \in Call, NEW n, Holds(c, n), n \notin Held
  PROVE  /\ Held' = (Held \ {held[c]}) \union ({n} \ {None})
         /\ \A d, e \in Call : held'[d] = held'[e] /\ held'[d] # None => d = e
         /\ held'[c] = n /\ \A d \in Call \ {c} : held'[d] = held[d]
<1>1. held'[c] = n /\ \A d \in Call \ {c} : held'[d] = held[d]
  BY DEF TypeOK
<1>2. \A d, e \in Call : held[d] = held[e] /\ held[d] # None => d = e
  BY DEF OneOwner
<1>3. \A d \in Call : held[d] = None \/ held[d] \in Held
  BY DEF Held
<1> QED BY <1>1, <1>2, <1>3 DEF Held

-----------------------------------------------------------------------------
(* Close is under way or over exactly when the pool is closed; the rest only then. *)
CloseOrder ==
  /\ xpc = "no" <=> ~closed
  /\ ~closed => ~sealed /\ closing = {}

Inv == TypeOK /\ OneOwner /\ OwnedIsOpen /\ NoLeak /\ ActiveIsUsed /\ CloseOrder

(* Initially nothing is open and nobody has a connection. *)
LEMMA InitInv == Init => Inv
<1> SUFFICES ASSUME Init PROVE Inv
  OBVIOUS
<1> USE DEF Init
<1>1. pool \in Seq(Conn) /\ Len(pool) = 0 /\ Idle = {} /\ Distinct
  BY DEF Idle, ToSet, Distinct
<1>2. Held = {}
  BY DEF Held
<1>3. TypeOK
  <2>1. held \in [Call -> Conn \union {None}] /\ apc \in [Call -> CallPC]
    BY DEF CallPC
  <2>2. errors \in [Conn -> 0..(MaxErrors + 1)] /\ Len(pool) <= MaxConnections
    BY <1>1, LimitAssumption
  <2> QED BY <1>1, <2>1, <2>2 DEF TypeOK, NoConn
<1>4. OneOwner
  BY <1>1, <1>2 DEF OneOwner, Distinct
<1>5. OwnedIsOpen /\ NoLeak
  BY <1>1, <1>2 DEF OwnedIsOpen, NoLeak
<1>6. ActiveIsUsed /\ CloseOrder
  BY DEF ActiveIsUsed, CloseOrder
<1> QED BY <1>3, <1>4, <1>5, <1>6 DEF Inv

-----------------------------------------------------------------------------
(* A call that only goes on keeps what depends on who has what. *)
LEMMA GoesOn ==
  ASSUME TypeOK, OneOwner, OwnedIsOpen, NoLeak, CloseOrder,
         UNCHANGED <<pool, held, toCheck, open, closing, closed, sealed, xpc>>
  PROVE  OneOwner' /\ OwnedIsOpen' /\ NoLeak' /\ CloseOrder'
<1>1. Idle' = Idle /\ Held' = Held
  BY DEF Idle, Held
<1> QED BY <1>1 DEF OneOwner, OwnedIsOpen, NoLeak, CloseOrder

(* The steps of a call. *)
LEMMA CallKeeps ==
  ASSUME Inv, NEW c \in Call, Begin(c) \/ CallStep(c)
  PROVE  Inv'
<1> USE NoneAssumption, LimitAssumption
<1> DEFINE n == held[c]
<1>0. /\ TypeOK /\ OneOwner /\ OwnedIsOpen /\ NoLeak /\ ActiveIsUsed /\ CloseOrder
      /\ pool \in Seq(Conn) /\ Distinct
      /\ Len(pool) \in Nat /\ Len(pool) <= MaxConnections
  BY DEF Inv, TypeOK, OneOwner, Distinct
<1>1. CASE Take(c)
  <2>1. /\ Head(pool) \in Idle /\ Idle' = Idle \ {Head(pool)}
        /\ Distinct' /\ pool' \in Seq(Conn) /\ Len(pool') < Len(pool)
    BY <1>0, <1>1, Receive DEF Take
  <2>2. Head(pool) \in Conn
    BY <1>0, <1>1, HeadTailProperties DEF Take
  <2>3. held[c] = None /\ Head(pool) \notin Held
    BY <1>0, <1>1, <2>1 DEF Take, TypeOK, NoConn, OneOwner
  <2>4. /\ Held' = Held \union {Head(pool)}
        /\ \A d, e \in Call : held'[d] = held'[e] /\ held'[d] # None => d = e
        /\ held'[c] = Head(pool) /\ \A d \in Call \ {c} : held'[d] = held[d]
    <3>1. Holds(c, Head(pool))  BY <1>1 DEF Take
    <3>2. None \notin Held  BY DEF Held
    <3> HIDE DEF Holds
    <3> QED BY <1>0, <2>2, <2>3, <3>1, <3>2, Change
  <2>5. TypeOK'
    <3>1. Len(pool') \in Nat  BY <2>1, LenProperties
    <3> QED BY <1>0, <1>1, <2>1, <2>2, <3>1 DEF Take, TypeOK, CallPC, NoConn
  <2>6. OneOwner'
    BY <1>0, <1>1, <2>1, <2>4 DEF Take, OneOwner, Distinct
  <2>7. OwnedIsOpen' /\ NoLeak' /\ CloseOrder'
    BY <1>0, <1>1, <2>1, <2>4 DEF Take, OwnedIsOpen, NoLeak, CloseOrder
  <2>8. ActiveIsUsed'
    BY <1>0, <1>1, <2>4 DEF Take, ActiveIsUsed, TypeOK
  <2> QED BY <2>5, <2>6, <2>7, <2>8 DEF Inv
<1>2. CASE TakeNil(c)
  BY <1>0, <1>2, GoesOn DEF TakeNil, TypeOK, ActiveIsUsed, Inv
<1>3. CASE TakeNothing(c)
  <2>1. OneOwner' /\ OwnedIsOpen' /\ NoLeak' /\ CloseOrder'
    BY <1>0, <1>3, GoesOn DEF TakeNothing
  <2>2. TypeOK' /\ ActiveIsUsed'
    BY <1>0, <1>3 DEF TakeNothing, TypeOK, ActiveIsUsed, CallPC, NoConn
  <2> QED BY <2>1, <2>2 DEF Inv
<1>4. CASE MarkTaken(c) \/ Add(c)
  <2>1. OneOwner' /\ OwnedIsOpen' /\ NoLeak' /\ CloseOrder'
    BY <1>0, <1>4, GoesOn DEF MarkTaken, Add
  <2>2. TypeOK'
    BY <1>0, <1>4 DEF MarkTaken, Add, TypeOK, CallPC, NoConn
  <2>3. ActiveIsUsed'
    BY <1>0, <1>4 DEF MarkTaken, Add, TypeOK, ActiveIsUsed
  <2> QED BY <2>1, <2>2, <2>3 DEF Inv
<1>5. CASE Probe(c) \/ Use(c)
  <2>1. OneOwner' /\ OwnedIsOpen' /\ NoLeak' /\ CloseOrder'
    BY <1>0, <1>5, GoesOn DEF Probe, Use
  <2>2. errors' \in [Conn -> 0..(MaxErrors + 1)]
    BY <1>0, <1>5 DEF Probe, Use, Failed, TypeOK
  <2>3. TypeOK'
    BY <1>0, <1>5, <2>2 DEF Probe, Use, TypeOK, CallPC, NoConn
  <2>4. ActiveIsUsed'
    BY <1>0, <1>5 DEF Probe, Use, TypeOK, ActiveIsUsed
  <2> QED BY <2>1, <2>3, <2>4 DEF Inv
<1>6. CASE Drop(c) \/ ReleaseMark(c)
  <2>1. OneOwner' /\ OwnedIsOpen' /\ NoLeak' /\ CloseOrder'
    BY <1>0, <1>6, GoesOn DEF Drop, ReleaseMark
  <2>2. TypeOK'
    BY <1>0, <1>6 DEF Drop, ReleaseMark, TypeOK, CallPC, NoConn
  <2>3. /\ \A d \in Call \ {c} : held[d] # held[c] /\ apc'[d] = apc[d]
        /\ apc[c] \in {"drop", "release"} /\ apc'[c] \in {"replace", "return"}
    BY <1>0, <1>6 DEF Drop, ReleaseMark, TypeOK, OneOwner, NoConn
  <2>4. active' = active \ {held[c]} /\ UNCHANGED <<held, closed>>
    BY <1>6 DEF Drop, ReleaseMark
  <2>5. ActiveIsUsed'
    BY <1>0, <2>3, <2>4 DEF ActiveIsUsed
  <2> QED BY <2>1, <2>2, <2>5 DEF Inv
<1>7. CASE CreateCheck(c)
  <2>1. OneOwner' /\ OwnedIsOpen' /\ NoLeak' /\ CloseOrder'
    BY <1>0, <1>7, GoesOn DEF CreateCheck
  <2>2. TypeOK' /\ ActiveIsUsed'
    BY <1>0, <1>7 DEF CreateCheck, TypeOK, ActiveIsUsed, CallPC, NoConn
  <2> QED BY <2>1, <2>2 DEF Inv
<1>8. CASE Dial(c)
  <2>1. CASE UNCHANGED <<open, errors, held>>
    <3>1. OneOwner' /\ OwnedIsOpen' /\ NoLeak' /\ CloseOrder'
      BY <1>0, <1>8, <2>1, GoesOn DEF Dial
    <3>2. TypeOK' /\ ActiveIsUsed'
      BY <1>0, <1>8, <2>1 DEF Dial, TypeOK, ActiveIsUsed, CallPC, NoConn, Unused
    <3> QED BY <3>1, <3>2 DEF Inv
  <2>2. CASE ~UNCHANGED <<open, errors, held>>
    <3>1. PICK m \in Unused : /\ open' = open \union {m} /\ errors' = [errors EXCEPT ![m] = 0]
                              /\ Holds(c, m) /\ Goto(c, "add")
      BY <1>8, <2>2 DEF Dial
    <3>2. m \in Conn /\ m # None /\ m \notin Held /\ m \notin Idle /\ m \notin toCheck
      BY <3>1 DEF Unused
    <3>3. held[c] = None
      BY <1>0, <1>8 DEF Dial, TypeOK, NoConn
    <3>4. /\ Held' = Held \union {m}
          /\ \A d, e \in Call : held'[d] = held'[e] /\ held'[d] # None => d = e
          /\ held'[c] = m /\ \A d \in Call \ {c} : held'[d] = held[d]
      <4>1. None \notin Held  BY DEF Held
      <4> HIDE DEF Holds
      <4> QED BY <1>0, <3>1, <3>2, <3>3, <4>1, Change
    <3>5. Idle' = Idle
      BY <1>8 DEF Dial, Idle
    <3>6. TypeOK'
      BY <1>0, <1>8, <3>1, <3>2 DEF Dial, TypeOK, CallPC, NoConn
    <3>7. OneOwner'
      BY <1>0, <1>8, <3>2, <3>4, <3>5 DEF Dial, OneOwner
    <3>8. OwnedIsOpen' /\ NoLeak' /\ CloseOrder'
      BY <1>0, <1>8, <3>1, <3>4, <3>5 DEF Dial, OwnedIsOpen, NoLeak, CloseOrder
    <3>9. ActiveIsUsed'
      BY <1>0, <1>8, <3>1, <3>4 DEF Dial, ActiveIsUsed, TypeOK
    <3> QED BY <3>6, <3>7, <3>8, <3>9 DEF Inv
  <2> QED BY <2>1, <2>2
<1>9. CASE Replace(c) \/ ReturnClose(c)
  <2>1. held[c] \in Held /\ held[c] # None /\ None \notin Held
    BY <1>0, <1>9 DEF Replace, ReturnClose, TypeOK, NoConn, Held
  <2>2. /\ Held' = Held \ {held[c]}
        /\ \A d, e \in Call : held'[d] = held'[e] /\ held'[d] # None => d = e
        /\ held'[c] = None /\ \A d \in Call \ {c} : held'[d] = held[d]
    <3>1. Holds(c, None)  BY <1>9 DEF Replace, ReturnClose
    <3> HIDE DEF Holds
    <3> QED BY <1>0, <2>1, <3>1, Change
  <2>3. /\ open' = open \ {held[c]} /\ held' = [held EXCEPT ![c] = None]
        /\ apc[c] \in {"replace", "return"}
        /\ \E pc \in {"create", "new"} : apc' = [apc EXCEPT ![c] = pc]
        /\ UNCHANGED <<sealed, active, errors, cleanerVars, closeVars>>
        /\ UNCHANGED <<pool, panicked>>
    BY <1>9 DEF Replace, ReturnClose
  <2>4. Idle' = Idle
    BY <2>3 DEF Idle
  <2>5. TypeOK'
    BY <1>0, <2>3 DEF TypeOK, CallPC, NoConn
  <2>6. OneOwner'
    BY <1>0, <2>2, <2>3, <2>4 DEF OneOwner
  <2>7. OwnedIsOpen' /\ NoLeak' /\ CloseOrder'
    BY <1>0, <2>1, <2>2, <2>3, <2>4 DEF OwnedIsOpen, NoLeak, CloseOrder, OneOwner
  <2>8. ActiveIsUsed'
    BY <1>0, <2>2, <2>3 DEF ActiveIsUsed, TypeOK
  <2> QED BY <2>5, <2>6, <2>7, <2>8 DEF Inv
<1>10. CASE ReturnIdle(c)
  <2>1. held[c] \in Held /\ held[c] \in Conn /\ None \notin Held /\ held[c] \notin Idle
    BY <1>0, <1>10 DEF ReturnIdle, TypeOK, NoConn, Held, OneOwner
  <2>2. /\ Held' = Held \ {held[c]}
        /\ \A d, e \in Call : held'[d] = held'[e] /\ held'[d] # None => d = e
        /\ held'[c] = None /\ \A d \in Call \ {c} : held'[d] = held[d]
    <3>1. Holds(c, None)  BY <1>10 DEF ReturnIdle
    <3> HIDE DEF Holds
    <3> QED BY <1>0, <2>1, <3>1, Change
  <2>3. /\ Idle' = Idle \union {held[c]}
        /\ Distinct' /\ pool' \in Seq(Conn) /\ Len(pool') = Len(pool) + 1
    BY <1>0, <1>10, <2>1, Send DEF ReturnIdle
  <2>4. TypeOK'
    BY <1>0, <1>10, <2>3 DEF ReturnIdle, TypeOK, CallPC, NoConn
  <2>5. OneOwner'
    BY <1>0, <1>10, <2>1, <2>2, <2>3 DEF ReturnIdle, OneOwner, Distinct
  <2>6. OwnedIsOpen' /\ NoLeak' /\ CloseOrder'
    BY <1>0, <1>10, <2>1, <2>2, <2>3 DEF ReturnIdle, OwnedIsOpen, NoLeak, CloseOrder
  <2>7. ActiveIsUsed'
    BY <1>0, <1>10, <2>2 DEF ReturnIdle, ActiveIsUsed, TypeOK
  <2> QED BY <2>4, <2>5, <2>6, <2>7 DEF Inv
<1>11. CASE ReturnPanic(c)
  BY <1>0, <1>11, GoesOn DEF ReturnPanic, TypeOK, ActiveIsUsed, Inv
<1> QED BY <1>1, <1>2, <1>3, <1>4, <1>5, <1>6, <1>7, <1>8, <1>9, <1>10, <1>11 DEF Begin, CallStep

(* The steps of the cleaner. *)
LEMMA CleanerKeeps ==
  ASSUME Inv, Tick \/ CleanerStep
  PROVE  Inv'
<1>0. /\ TypeOK /\ OneOwner /\ OwnedIsOpen /\ NoLeak /\ ActiveIsUsed /\ CloseOrder
      /\ pool \in Seq(Conn) /\ Distinct
      /\ Len(pool) \in Nat /\ Len(pool) <= MaxConnections /\ MaxConnections \in Nat
  BY LimitAssumption DEF Inv, TypeOK, OneOwner, Distinct
<1>1. CASE Tick \/ Sorted \/ CleanerExit \/ (Drain /\ UNCHANGED <<pool, toCheck>>)
  <2>1. OneOwner' /\ OwnedIsOpen' /\ NoLeak' /\ CloseOrder'
    BY <1>0, <1>1, GoesOn DEF Tick, Drain, Sorted, CleanerExit
  <2>2. TypeOK' /\ ActiveIsUsed'
    BY <1>0, <1>1 DEF Tick, Drain, Sorted, CleanerExit, TypeOK, ActiveIsUsed
  <2> QED BY <2>1, <2>2 DEF Inv
<1>2. CASE Drain /\ pool # <<>> /\ toCheck' = toCheck \union {Head(pool)} /\ pool' = Tail(pool)
  <2>1. /\ Head(pool) \in Idle /\ Idle' = Idle \ {Head(pool)}
        /\ Distinct' /\ pool' \in Seq(Conn) /\ Len(pool') < Len(pool)
    BY <1>0, <1>2, Receive
  <2>2. Head(pool) \in Conn /\ Len(pool') \in Nat
    BY <1>0, <1>2, <2>1, HeadTailProperties, LenProperties
  <2>3. Held' = Held
    BY <1>2 DEF Drain, Held
  <2>4. TypeOK' /\ ActiveIsUsed'
    BY <1>0, <1>2, <2>1, <2>2 DEF Drain, TypeOK, ActiveIsUsed
  <2>5. OneOwner'
    BY <1>0, <1>2, <2>1, <2>3 DEF Drain, OneOwner, Distinct
  <2>6. OwnedIsOpen' /\ NoLeak' /\ CloseOrder'
    BY <1>0, <1>2, <2>1, <2>3 DEF Drain, OwnedIsOpen, NoLeak, CloseOrder
  <2> QED BY <2>4, <2>5, <2>6 DEF Inv
<1>3. CASE Sort
  <2>1. PICK n \in toCheck : SortClose(n) \/ SortReturn(n) \/ SortPanic(n)
    BY <1>3 DEF Sort
  <2>2. n \in Conn /\ n \notin Idle /\ n \notin Held /\ Held' = Held
    BY <1>0, <1>3 DEF Sort, TypeOK, OneOwner, Held
  <2>3. CASE SortClose(n)
    <3>1. Idle' = Idle
      BY <2>3 DEF SortClose, Idle
    <3>2. TypeOK' /\ ActiveIsUsed'
      BY <1>0, <1>3, <2>3 DEF Sort, SortClose, TypeOK, ActiveIsUsed
    <3>3. OneOwner'
      BY <1>0, <1>3, <2>2, <2>3, <3>1 DEF Sort, SortClose, OneOwner
    <3>4. OwnedIsOpen' /\ NoLeak' /\ CloseOrder'
      BY <1>0, <1>3, <2>2, <2>3, <3>1 DEF Sort, SortClose, OwnedIsOpen, NoLeak, CloseOrder
    <3> QED BY <3>2, <3>3, <3>4 DEF Inv
  <2>4. CASE SortReturn(n)
    <3>1. /\ Idle' = Idle \union {n}
          /\ Distinct' /\ pool' \in Seq(Conn) /\ Len(pool') = Len(pool) + 1
      BY <1>0, <2>2, <2>4, Send DEF SortReturn
    <3>2. TypeOK' /\ ActiveIsUsed'
      BY <1>0, <1>3, <2>4, <3>1 DEF Sort, SortReturn, TypeOK, ActiveIsUsed
    <3>3. OneOwner'
      BY <1>0, <1>3, <2>2, <2>4, <3>1 DEF Sort, SortReturn, OneOwner, Distinct
    <3>4. OwnedIsOpen' /\ NoLeak' /\ CloseOrder'
      BY <1>0, <1>3, <2>2, <2>4, <3>1 DEF Sort, SortReturn, OwnedIsOpen, NoLeak, CloseOrder
    <3> QED BY <3>2, <3>3, <3>4 DEF Inv
  <2>5. CASE SortPanic(n)
    BY <1>0, <1>3, <2>5, GoesOn DEF Sort, SortPanic, TypeOK, ActiveIsUsed, Inv
  <2> QED BY <2>1, <2>3, <2>4, <2>5
<1> QED BY <1>1, <1>2, <1>3 DEF CleanerStep, Drain

(* The steps of Close. *)
LEMMA CloseKeeps ==
  ASSUME Inv, CloseStart \/ CloseStep
  PROVE  Inv'
<1>0. /\ TypeOK /\ OneOwner /\ OwnedIsOpen /\ NoLeak /\ ActiveIsUsed /\ CloseOrder
      /\ pool \in Seq(Conn) /\ Distinct /\ Len(pool) \in Nat
  BY DEF Inv, TypeOK, OneOwner, Distinct
<1>1. CASE CloseRest /\ pool # <<>> /\ Shut(Head(pool)) /\ pool' = Tail(pool) /\ UNCHANGED xpc
  <2>1. /\ Head(pool) \in Idle /\ Idle' = Idle \ {Head(pool)}
        /\ Distinct' /\ pool' \in Seq(Conn) /\ Len(pool') < Len(pool)
    BY <1>0, <1>1, Receive
  <2>2. Len(pool') \in Nat /\ Len(pool') <= MaxConnections
    BY <1>0, <2>1, LenProperties, LimitAssumption DEF TypeOK
  <2>3. Held' = Held
    BY <1>1 DEF CloseRest, Held
  <2>4. TypeOK' /\ ActiveIsUsed'
    BY <1>0, <1>1, <2>1, <2>2 DEF CloseRest, TypeOK, ActiveIsUsed
  <2>5. OneOwner'
    BY <1>0, <1>1, <2>1, <2>3 DEF CloseRest, OneOwner, Distinct
  <2>6. OwnedIsOpen' /\ NoLeak' /\ CloseOrder'
    BY <1>0, <1>1, <2>1, <2>3 DEF CloseRest, OwnedIsOpen, NoLeak, CloseOrder
  <2> QED BY <2>4, <2>5, <2>6 DEF Inv
<1>2. CASE CloseStart \/ CloseSignal \/ CloseActive \/ (CloseRest /\ UNCHANGED <<open, pool>>)
  <2>1. UNCHANGED <<pool, held, toCheck, apc, errors, kpc, panicked>>
    BY <1>2 DEF CloseStart, CloseSignal, CloseActive, CloseRest
  <2>2. Idle' = Idle /\ Held' = Held
    BY <2>1 DEF Idle, Held
  <2>3. TypeOK'
    BY <1>0, <1>2, <2>1 DEF CloseStart, CloseSignal, CloseActive, CloseRest, TypeOK
  <2>4. OneOwner'
    BY <1>0, <2>1, <2>2 DEF OneOwner
  <2>5. closed'
    BY <1>0, <1>2 DEF CloseStart, CloseSignal, CloseActive, CloseRest, CloseOrder
  <2>6. OwnedIsOpen' /\ ActiveIsUsed'
    BY <2>5 DEF OwnedIsOpen, ActiveIsUsed
  <2>7. NoLeak'
    BY <1>0, <1>2, <2>1, <2>2 DEF CloseStart, CloseSignal, CloseActive, CloseRest, NoLeak, CloseOrder
  <2>8. CloseOrder'
    BY <1>0, <1>2, <2>5 DEF CloseStart, CloseSignal, CloseActive, CloseRest, CloseOrder
  <2> QED BY <2>3, <2>4, <2>6, <2>7, <2>8 DEF Inv
<1> QED BY <1>1, <1>2 DEF CloseStep, CloseRest

LEMMA IdlingKeeps ==
  ASSUME Inv, UNCHANGED poolVars PROVE Inv'
<1>1. Idle' = Idle /\ Held' = Held
  BY DEF Idle, Held
<1> QED BY <1>1 DEF Inv, TypeOK, OneOwner, OwnedIsOpen, NoLeak, ActiveIsUsed, CloseOrder

(***************************************************************************)
(* A connection has one owner, is open while the pool is, is not lost, and *)
(* is in the map of active ones exactly while a call uses it.              *)
(***************************************************************************)
THEOREM Ownership == Spec => [](TypeOK /\ OneOwner /\ OwnedIsOpen /\ NoLeak /\ ActiveIsUsed)
<1>1. ASSUME Inv, [Next]_poolVars PROVE Inv'
  BY <1>1, CallKeeps, CleanerKeeps, CloseKeeps, IdlingKeeps DEF Next, Step
<1>2. Inv => TypeOK /\ OneOwner /\ OwnedIsOpen /\ NoLeak /\ ActiveIsUsed
  BY DEF Inv
<1> QED BY <1>1, <1>2, InitInv, PTL DEF Spec

(* TypeOK, for any calls, connections and limits. *)
THEOREM Typing == Spec => []TypeOK
BY Ownership, PTL

(* OwnedIsOpen, for any of them: what a call, the pool or the cleaner has is open. *)
THEOREM Opened == Spec => []OwnedIsOpen
BY Ownership, PTL

(* NoLeak, for any of them: every open connection has someone who can close it. *)
THEOREM NothingLeaks == Spec => []NoLeak
BY Ownership, PTL
=============================================================================
