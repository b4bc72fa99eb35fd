------------------------ MODULE StdioTransportProofs ------------------------
(* What holds of StdioTransport for any requests and any number of restarts. *)
EXTENDS StdioTransport, TLAPS

(***************************************************************************)
(* Why the invariants last: a request that has not been written has no     *)
(* answer and nobody who watches it, its channel is untouched until it is  *)
(* in the map, a reader answers what its own child was sent, and a child   *)
(* that is still to come has no reader.                                    *)
(***************************************************************************)
Unsent == {"new", "register", "write", "unregister", "report"}

Order ==
  /\ \A r \in Req : spc[r] \in Unsent => sentTo[r] = None /\ gpc[r] = "no"
  /\ \A r \in Req : spc[r] \in {"new", "register"} => r \notin full \union shut
  /\ \A r \in Req : spc[r] = "write" => r \in pending \union shut
  /\ \A k \in Child : rreq[k] # None => sentTo[rreq[k]] = k
  /\ \A k \in Child : k > latest \/ (k = latest /\ mpc = "mark") => rpc[k] = "no"
  /\ mpc = "sleep" => latest < MaxRestarts

Inv == TypeOK /\ OneSender /\ NoOrphan /\ NoLeftover /\ Order

(* None is no request and no child. *)
LEMMA NoneIsNothing == None \notin Child /\ None \notin Req
BY RestartsAssumption, NoneAssumption DEF Child

(* Initially nothing is registered, written or read. *)
LEMMA InitInv == Init => Inv
<1> SUFFICES ASSUME Init PROVE Inv
  OBVIOUS
<1> USE RestartsAssumption, NoneIsNothing DEF Init, Child
<1>1. TypeOK
  <2>1. {connected, alive, stdinOpen, panicked} \subseteq BOOLEAN
    OBVIOUS
  <2> QED BY <2>1 DEF TypeOK, SendPC
<1>2. OneSender /\ NoOrphan /\ NoLeftover
  BY DEF OneSender, NoOrphan, NoLeftover
<1>3. Order
  BY DEF Order, Unsent
<1> QED BY <1>1, <1>2, <1>3 DEF Inv

-----------------------------------------------------------------------------
(* Send and the goroutine that watches its context. *)

(* Sends begin: nothing else changes. *)
LEMMA SendCheckKeeps == ASSUME Inv, NEW r \in Req, SendCheck(r) PROVE Inv'
<1> USE RestartsAssumption, NoneIsNothing
    DEF SendCheck, Goto, childVars, chanVars, readerVars, Child, Inv
<1>1. TypeOK'  BY DEF TypeOK, SendPC
<1>2. OneSender'  BY DEF OneSender, Answering
<1>3. NoOrphan'  BY DEF NoOrphan, Answering
<1>4. NoLeftover'  BY DEF NoLeftover
<1>5. Order'  BY DEF Order, Unsent
<1> QED BY <1>1, <1>2, <1>3, <1>4, <1>5

(* A request enters the map with its channel untouched, and unsent, so no reader has it. *)
LEMMA RegisterKeeps == ASSUME Inv, NEW r \in Req, Register(r) PROVE Inv'
<1> USE RestartsAssumption, NoneIsNothing
    DEF Register, Goto, childVars, chanVars, readerVars, Child, Inv
<1>1. TypeOK'  BY DEF TypeOK, SendPC
<1>2. OneSender'  BY DEF OneSender, Order, Answering, Unsent
<1>3. NoOrphan'  BY DEF NoOrphan, Answering
<1>4. NoLeftover'  BY DEF TypeOK, NoLeftover
<1>5. Order'  BY DEF Order, Unsent
<1> QED BY <1>1, <1>2, <1>3, <1>4, <1>5

(* The request is sent and waits: in the map, or cancelled meanwhile. *)
LEMMA WriteKeeps == ASSUME Inv, NEW r \in Req, Write(r) PROVE Inv'
<1> USE RestartsAssumption, NoneIsNothing
    DEF Write, Goto, childVars, chanVars, readerVars, Child, Inv
<1>1. TypeOK'
  <2>1. {connected', alive', stdinOpen', panicked'} \subseteq BOOLEAN
    BY Zenon DEF TypeOK
  <2>2. spc' \in [Req -> SendPC] /\ gpc' \in [Req -> {"no", "watch", "done"}]
    BY DEF TypeOK, SendPC
  <2>3. sentTo' \in [Req -> Child \union {None}]
    BY DEF TypeOK
  <2> QED BY <2>1, <2>2, <2>3 DEF TypeOK
<1>2. OneSender'  BY DEF OneSender, Answering
<1>3. NoOrphan'  BY DEF TypeOK, NoOrphan, Order, Answering
<1>4. NoLeftover'  BY DEF TypeOK, NoLeftover
<1>5. Order'  BY DEF TypeOK, Order, Unsent
<1> QED BY <1>1, <1>2, <1>3, <1>4, <1>5

(* It leaves the map and will report to its own channel. *)
LEMMA UnregisterKeeps == ASSUME Inv, NEW r \in Req, Unregister(r) PROVE Inv'
<1> USE RestartsAssumption, NoneIsNothing
    DEF Unregister, Goto, childVars, chanVars, readerVars, Child, Inv
<1>1. TypeOK'  BY DEF TypeOK, SendPC
<1>2. OneSender'  BY DEF OneSender, Answering
<1>3. NoOrphan'  BY DEF NoOrphan, Answering
<1>4. NoLeftover'  BY DEF NoLeftover
<1>5. Order'  BY DEF Order, Unsent
<1> QED BY <1>1, <1>2, <1>3, <1>4, <1>5

(* The error goes to a channel nobody else has, or the process ends. *)
LEMMA ReportKeeps == ASSUME Inv, NEW r \in Req, Report(r) PROVE Inv'
<1> USE RestartsAssumption, NoneIsNothing
    DEF Report, Goto, SendTo, childVars, chanVars, readerVars, Child, Inv
<1>1. TypeOK'  BY DEF TypeOK, SendPC
<1>2. OneSender'  BY DEF OneSender, Order, Answering, Unsent, NoLeftover
<1>3. NoOrphan'  BY DEF TypeOK, NoOrphan, Answering
<1>4. NoLeftover'  BY DEF TypeOK, NoLeftover
<1>5. Order'  BY DEF TypeOK, Order, Unsent
<1> QED BY <1>1, <1>2, <1>3, <1>4, <1>5

(* The result is received, which only the request's own channel had. *)
LEMMA ReceiveKeeps == ASSUME Inv, NEW r \in Req, Receive(r) PROVE Inv'
<1> USE RestartsAssumption, NoneIsNothing
    DEF Receive, Goto, childVars, chanVars, readerVars, Child, Inv
<1>1. TypeOK'
  <2>1. {connected', alive', stdinOpen', panicked'} \subseteq BOOLEAN
    BY Zenon DEF TypeOK
  <2>2. spc' \in [Req -> SendPC] /\ full' \subseteq Req
    BY DEF TypeOK, SendPC
  <2> QED BY <2>1, <2>2 DEF TypeOK
<1>2. OneSender'  BY DEF OneSender, Answering
<1>3. NoOrphan'  BY DEF TypeOK, NoOrphan, Answering
<1>4. NoLeftover'  BY DEF TypeOK, OneSender, NoLeftover
<1>5. Order'  BY DEF TypeOK, Order, Unsent
<1> QED BY <1>1, <1>2, <1>3, <1>4, <1>5

(* The Send stops waiting; its request may still be in the map. *)
LEMMA ExpireKeeps == ASSUME Inv, NEW r \in Req, Expire(r) PROVE Inv'
<1> USE RestartsAssumption, NoneIsNothing
    DEF Expire, Goto, childVars, chanVars, readerVars, Child, Inv
<1>1. TypeOK'  BY DEF TypeOK, SendPC
<1>2. OneSender'  BY DEF OneSender, Answering
<1>3. NoOrphan'  BY DEF NoOrphan, Answering
<1>4. NoLeftover'  BY DEF NoLeftover
<1>5. Order'  BY DEF Order, Unsent
<1> QED BY <1>1, <1>2, <1>3, <1>4, <1>5

(* The Send takes its own request off the map. *)
LEMMA ForgetKeeps == ASSUME Inv, NEW r \in Req, Forget(r) PROVE Inv'
<1> USE RestartsAssumption, NoneIsNothing
    DEF Forget, Goto, childVars, chanVars, readerVars, Child, Inv
<1>1. TypeOK'  BY DEF TypeOK, SendPC
<1>2. OneSender'  BY DEF OneSender, Answering
<1>3. NoOrphan'  BY DEF NoOrphan, Answering
<1>4. NoLeftover'  BY DEF NoLeftover
<1>5. Order'  BY DEF Order, Unsent
<1> QED BY <1>1, <1>2, <1>3, <1>4, <1>5

(* A pending request has an empty, open channel and no reader. *)
LEMMA WatchContextKeeps == ASSUME Inv, NEW r \in Req, WatchContext(r) PROVE Inv'
<1> USE RestartsAssumption, NoneIsNothing
    DEF WatchContext, SendTo, childVars, chanVars, readerVars, Child, Inv
<1>1. TypeOK'  BY DEF TypeOK
<1>2. OneSender'  BY DEF OneSender, Answering
<1>3. NoOrphan'  BY DEF NoOrphan, Answering
<1>4. NoLeftover'  BY DEF NoLeftover
<1>5. Order'  BY DEF NoLeftover, Order
<1> QED BY <1>1, <1>2, <1>3, <1>4, <1>5

(* Taking a result leaves the channel closed or with the reader that will close it. *)
LEMMA WatchResultKeeps == ASSUME Inv, NEW r \in Req, WatchResult(r) PROVE Inv'
<1> USE RestartsAssumption, NoneIsNothing
    DEF WatchResult, childVars, chanVars, readerVars, Child, Inv
<1>1. TypeOK'  BY DEF TypeOK
<1>2. OneSender'  BY DEF OneSender, Answering
<1>3. NoOrphan'  BY DEF NoOrphan, Answering
<1>4. NoLeftover'  BY DEF NoLeftover
<1>5. Order'  BY DEF Order
<1> QED BY <1>1, <1>2, <1>3, <1>4, <1>5

(* The watcher leaves. *)
LEMMA WatchDoneKeeps == ASSUME Inv, NEW r \in Req, WatchDone(r) PROVE Inv'
<1> USE RestartsAssumption, NoneIsNothing
    DEF WatchDone, childVars, chanVars, readerVars, Child, Inv
<1>1. TypeOK'  BY DEF TypeOK
<1>2. OneSender'  BY DEF OneSender, Answering
<1>3. NoOrphan'  BY DEF NoOrphan, Answering
<1>4. NoLeftover'  BY DEF NoLeftover
<1>5. Order'  BY DEF Order
<1> QED BY <1>1, <1>2, <1>3, <1>4, <1>5

-----------------------------------------------------------------------------
(* The readers. *)

(* From the map to the reader: in one place all the time. *)
LEMMA ReadKeeps == ASSUME Inv, NEW k \in Child, Read(k) PROVE Inv'
<1> USE RestartsAssumption, NoneIsNothing
    DEF Read, ReaderGoto, childVars, chanVars, readerVars, Child, Inv
<1>1. TypeOK'  BY DEF TypeOK
<1>2. OneSender'  BY DEF TypeOK, OneSender, Answering, NoLeftover
<1>3. NoOrphan'  BY DEF TypeOK, NoOrphan, Answering
<1>4. NoLeftover'  BY DEF NoLeftover
<1>5. Order'  BY DEF Order, Unsent, Answering
<1> QED BY <1>1, <1>2, <1>3, <1>4, <1>5

(* The reader fills the channel of the request it has. *)
LEMMA DeliverKeeps == ASSUME Inv, NEW k \in Child, Deliver(k) PROVE Inv'
<1> USE RestartsAssumption, NoneIsNothing
    DEF Deliver, ReaderGoto, childVars, chanVars, readerVars, Child, Inv
<1>1. TypeOK'  BY DEF TypeOK
<1>2. OneSender'  BY DEF TypeOK, OneSender, Answering
<1>3. NoOrphan'  BY DEF NoOrphan, Answering
<1>4. NoLeftover'  BY DEF NoLeftover
<1>5. Order'  BY DEF Order, Unsent, Answering
<1> QED BY <1>1, <1>2, <1>3, <1>4, <1>5

(* The reader closes that channel, so a waiting Send will see it. *)
LEMMA CloseChannelKeeps == ASSUME Inv, NEW k \in Child, CloseChannel(k) PROVE Inv'
<1> USE RestartsAssumption, NoneIsNothing
    DEF CloseChannel, ReaderGoto, childVars, chanVars, readerVars, Child, Inv
<1>1. TypeOK'  BY DEF TypeOK
<1>2. OneSender'  BY DEF TypeOK, OneSender, Answering
<1>3. NoOrphan'  BY DEF NoOrphan, Answering
<1>4. NoLeftover'  BY DEF NoLeftover
<1>5. Order'  BY DEF Order, Unsent, Answering
<1> QED BY <1>1, <1>2, <1>3, <1>4, <1>5

-----------------------------------------------------------------------------
(* The child, its monitor and Close. *)

(* The death of a child alone changes no request. *)
LEMMA ChildDiesKeeps == ASSUME Inv, ChildDies PROVE Inv'
<1> USE RestartsAssumption, NoneIsNothing
    DEF ChildDies, childVars, chanVars, readerVars, Child, Inv
<1>1. TypeOK'  BY DEF TypeOK
<1>2. OneSender'  BY DEF OneSender, Answering
<1>3. NoOrphan'  BY DEF NoOrphan, Answering
<1>4. NoLeftover'  BY DEF NoLeftover
<1>5. Order'  BY DEF Order
<1> QED BY <1>1, <1>2, <1>3, <1>4, <1>5

(* Nor does noticing it. *)
LEMMA MonitorReapKeeps == ASSUME Inv, MonitorReap PROVE Inv'
<1> USE RestartsAssumption, NoneIsNothing
    DEF MonitorReap, childVars, chanVars, readerVars, Child, Inv
<1>1. TypeOK'  BY DEF TypeOK
<1>2. OneSender'  BY DEF OneSender, Answering
<1>3. NoOrphan'  BY DEF NoOrphan, Answering
<1>4. NoLeftover'  BY DEF NoLeftover
<1>5. Order'  BY DEF Order
<1> QED BY <1>1, <1>2, <1>3, <1>4, <1>5

(* Every request of the map gets its error. *)
LEMMA MonitorCancelKeeps == ASSUME Inv, MonitorCancel PROVE Inv'
<1> USE RestartsAssumption, NoneIsNothing
    DEF MonitorCancel, SendTo, CancelAllPending, AfterCancel, childVars, chanVars, readerVars, Child, Inv
<1>1. TypeOK'  BY DEF TypeOK
<1>2. OneSender'  BY DEF OneSender, Answering
<1>3. NoOrphan'  BY DEF NoOrphan, Answering
<1>4. NoLeftover'  BY DEF NoLeftover
<1>5. Order'  BY DEF NoLeftover, Order
<1> QED BY <1>1, <1>2, <1>3, <1>4, <1>5

(* The next child has no reader yet. *)
LEMMA MonitorStartKeeps == ASSUME Inv, MonitorStart PROVE Inv'
<1> USE RestartsAssumption, NoneIsNothing
    DEF MonitorStart, childVars, chanVars, readerVars, Child, Inv
<1>1. TypeOK'
  <2>1. {connected', alive', stdinOpen', panicked'} \subseteq BOOLEAN
    BY Zenon DEF TypeOK
  <2>2. latest' \in Child /\ mpc' \in {"wait", "cancel", "sleep", "mark", "exited"}
    BY DEF TypeOK, Order
  <2> QED BY <2>1, <2>2 DEF TypeOK
<1>2. OneSender'  BY DEF OneSender, Answering
<1>3. NoOrphan'  BY DEF NoOrphan, Answering
<1>4. NoLeftover'  BY DEF NoLeftover
<1>5. Order'  BY DEF TypeOK, Order, Answering
<1> QED BY <1>1, <1>2, <1>3, <1>4, <1>5

(* Its reader starts with no request, for it had none before. *)
LEMMA MonitorMarkKeeps == ASSUME Inv, MonitorMark PROVE Inv'
<1> USE RestartsAssumption, NoneIsNothing
    DEF MonitorMark, ReaderGoto, childVars, chanVars, readerVars, Child, Inv
<1>1. TypeOK'  BY DEF TypeOK
<1>2. OneSender'  BY DEF TypeOK, OneSender, Answering
<1>3. NoOrphan'  BY DEF TypeOK, NoOrphan, Order, Answering
<1>4. NoLeftover'  BY DEF NoLeftover
<1>5. Order'  BY DEF Order
<1> QED BY <1>1, <1>2, <1>3, <1>4, <1>5

(* Close marks the transport only. *)
LEMMA CloseStartKeeps == ASSUME Inv, CloseStart PROVE Inv'
<1> USE RestartsAssumption, NoneIsNothing
    DEF CloseStart, childVars, chanVars, readerVars, Child, Inv
<1>1. TypeOK'  BY DEF TypeOK
<1>2. OneSender'  BY DEF OneSender, Answering
<1>3. NoOrphan'  BY DEF NoOrphan, Answering
<1>4. NoLeftover'  BY DEF NoLeftover
<1>5. Order'  BY DEF Order
<1> QED BY <1>1, <1>2, <1>3, <1>4, <1>5

(* Close gives every request of the map its error. *)
LEMMA CloseCancelKeeps == ASSUME Inv, CloseCancel PROVE Inv'
<1> USE RestartsAssumption, NoneIsNothing
    DEF CloseCancel, SendTo, CancelAllPending, childVars, chanVars, readerVars, Child, Inv
<1>1. TypeOK'  BY DEF TypeOK
<1>2. OneSender'  BY DEF OneSender, Answering
<1>3. NoOrphan'  BY DEF NoOrphan, Answering
<1>4. NoLeftover'  BY DEF NoLeftover
<1>5. Order'  BY DEF NoLeftover, Order
<1> QED BY <1>1, <1>2, <1>3, <1>4, <1>5

(* Requests not yet written will fail. *)
LEMMA CloseStdinKeeps == ASSUME Inv, CloseStdin PROVE Inv'
<1> USE RestartsAssumption, NoneIsNothing
    DEF CloseStdin, childVars, chanVars, readerVars, Child, Inv
<1>1. TypeOK'  BY DEF TypeOK
<1>2. OneSender'  BY DEF OneSender, Answering
<1>3. NoOrphan'  BY DEF NoOrphan, Answering
<1>4. NoLeftover'  BY DEF NoLeftover
<1>5. Order'  BY DEF Order
<1> QED BY <1>1, <1>2, <1>3, <1>4, <1>5

(* The child is dead, as if by itself. *)
LEMMA CloseKillKeeps == ASSUME Inv, CloseKill PROVE Inv'
<1> USE RestartsAssumption, NoneIsNothing
    DEF CloseKill, childVars, chanVars, readerVars, Child, Inv
<1>1. TypeOK'  BY DEF TypeOK
<1>2. OneSender'  BY DEF OneSender, Answering
<1>3. NoOrphan'  BY DEF NoOrphan, Answering
<1>4. NoLeftover'  BY DEF NoLeftover
<1>5. Order'  BY DEF Order
<1> QED BY <1>1, <1>2, <1>3, <1>4, <1>5

-----------------------------------------------------------------------------
(* Every step keeps the invariant. *)
LEMMA NextInv == Inv /\ [Next]_transportVars => Inv'
<1> SUFFICES ASSUME Inv, [Next]_transportVars PROVE Inv'
  OBVIOUS
<1>1. ASSUME NEW r \in Req, SendCheck(r) \/ SendStep(r) \/ Expire(r) \/ Watch(r) PROVE Inv'
  BY <1>1, SendCheckKeeps, RegisterKeeps, WriteKeeps, UnregisterKeeps, ReportKeeps, ReceiveKeeps,
     ExpireKeeps, ForgetKeeps, WatchContextKeeps, WatchResultKeeps, WatchDoneKeeps DEF SendStep, Watch
<1>2. ASSUME NEW k \in Child, Read(k) \/ Reader(k) PROVE Inv'
  BY <1>2, ReadKeeps, DeliverKeeps, CloseChannelKeeps DEF Reader
<1>3. ASSUME ChildDies \/ Monitor PROVE Inv'
  BY <1>3, ChildDiesKeeps, MonitorReapKeeps, MonitorCancelKeeps, MonitorStartKeeps, MonitorMarkKeeps
     DEF Monitor
<1>4. ASSUME CloseStart \/ CloseStep PROVE Inv'
  BY <1>4, CloseStartKeeps, CloseCancelKeeps, CloseStdinKeeps, CloseKillKeeps DEF CloseStep
<1>5. CASE UNCHANGED transportVars
  BY <1>5 DEF transportVars, childVars, chanVars, readerVars, Inv, TypeOK, OneSender, NoOrphan,
              NoLeftover, Order, Answering
<1> QED BY <1>1, <1>2, <1>3, <1>4, <1>5 DEF Next, Step

(* The invariant holds in every state. *)
LEMMA Invariance == Spec => []Inv
BY InitInv, NextInv, PTL DEF Spec

(***************************************************************************)
(* Every result goes to a channel that is open and empty and has no other  *)
(* sender, no Send waits for a request that has been dropped, and none     *)
(* leaves its request behind: for any number of calls and restarts. (The   *)
(* report of a failed write, which OneSender does not speak of, is apart.) *)
(***************************************************************************)
THEOREM Delivery == Spec => [](TypeOK /\ OneSender /\ NoOrphan /\ NoLeftover)
<1>1. Inv => TypeOK /\ OneSender /\ NoOrphan /\ NoLeftover
  BY DEF Inv
<1> QED BY <1>1, Invariance, PTL

(* TypeOK, for any requests and restarts. *)
THEOREM Typing == Spec => []TypeOK
BY Delivery, PTL

(* NoOrphan, for any of them: a Send that waits is still known to someone who wakes it. *)
THEOREM NobodyIsForgotten == Spec => []NoOrphan
BY Delivery, PTL

-----------------------------------------------------------------------------
(* The transport implements Requests. *)

(* Someone has a request; its result has been sent. *)
Kept(r)    == r \in pending \union shut \/ \E k \in Child : Answering(k, r)
Settled(r) == r \in shut \/ \E k \in Child : rpc[k] = "close" /\ Answering(k, r)

(***************************************************************************)
(* What the mapping needs beyond Inv: from its registration to the end of  *)
(* its Send, or its failed write, someone has a request, also one whose    *)
(* Send has given up but not yet forgotten it; and a full channel has been *)
(* filled by a sender that closes it next.                                 *)
(***************************************************************************)
Known ==
  /\ \A r \in Req : spc[r] \in {"write", "unregister", "wait", "forget"} => Kept(r)
  /\ \A r \in full : Settled(r)

(* A step that is about at most one request keeps the fates of all others. *)
Same(r)   == Fate(r)' = Fate(r) /\ (spc'[r] = "done" <=> spc[r] = "done")
Others(r) == \A q \in Req : q # r => Same(q)
Quiet     == \A q \in Req : Same(q)

(* The changes of one request's fate that Requests allows: its call goes on, or returns. *)
Legal(r) ==
  \/ Same(r)
  \/ /\ spc'[r] = "done" <=> spc[r] = "done"
     /\ \/ Fate(r) = "new" /\ Fate(r)' = "open"
        \/ Fate(r) = "open" /\ Fate(r)' \in {"claimed", "settled"}
        \/ Fate(r) = "claimed" /\ Fate(r)' = "settled"
        \/ Fate(r) = "settled" /\ Fate(r)' = "taken"
  \/ /\ spc[r] # "done" /\ spc'[r] = "done"
     /\ \/ Fate(r) \in {"new", "open"} /\ Fate(r)' = "gone"
        \/ Fate(r) = "settled" /\ Fate(r)' = "taken"
        \/ Fate(r) \in {"claimed", "settled", "taken"} /\ Fate(r)' = Fate(r)

(* What these say of a step is what a step of Requests may do. *)
LEMMA QuietMaps ==
  ASSUME Quiet, panicked' = panicked
  PROVE  UNCHANGED Promise!requestVars
BY DEF Quiet, Same, Promise!requestVars

LEMMA LegalMaps ==
  ASSUME NEW r \in Req, Legal(r), Others(r), ~panicked, panicked' = panicked
  PROVE  [Promise!Next]_(Promise!requestVars)
<1>1. CASE Same(r)
  BY <1>1, QuietMaps DEF Quiet, Others
<1>2. CASE ~Same(r)
  <2> DEFINE fate == [q \in Req |-> Fate(q)]
             returned == {q \in Req : spc[q] = "done"}
  <2>1. fate' = [fate EXCEPT ![r] = Fate(r)'] /\ fate[r] = Fate(r)
    BY DEF Others, Same
  <2>2. ASSUME spc'[r] = "done" <=> spc[r] = "done" PROVE returned' = returned
    BY <2>2 DEF Others, Same
  <2>3. ASSUME spc[r] # "done" /\ spc'[r] = "done"
        PROVE  r \notin returned /\ returned' = returned \union {r}
    BY <2>3 DEF Others, Same
  <2>4. ASSUME Fate(r) \in {"open", "claimed"}, Fate(r)' = "settled"
        PROVE  /\ \A q \in {r} : fate[q] \in {"open", "claimed"}
               /\ fate' = [q \in Req |-> IF q \in {r} THEN "settled" ELSE fate[q]]
    BY <2>1, <2>4 DEF Others, Same
  <2> QED
    BY <1>2, <2>1, <2>2, <2>3, <2>4 DEF Legal, Promise!Next, Promise!Refuse, Promise!Open,
       Promise!Claim, Promise!Settle, Promise!Discard, Promise!Finish, Promise!GiveUp,
       Promise!Becomes, Promise!Return
<1> QED BY <1>1, <1>2

(* A call is refused, or goes on to register its request. *)
LEMMA SendCheckMaps ==
  ASSUME Inv, Known, NEW r \in Req, SendCheck(r)
  PROVE  Known' /\ Legal(r) /\ Others(r)
<1> USE NoneIsNothing DEF SendCheck, Goto, childVars, chanVars, readerVars, Inv, TypeOK, Answering, Same
<1>1. Known'
  BY DEF Known, Kept, Settled, Order, Unsent, OneSender, NoOrphan, NoLeftover
<1>2. Others(r)
  BY DEF Others, Fate, OneSender
<1>3. Legal(r)
  BY DEF Legal, Fate, Known, Kept, Settled, Order, Unsent, OneSender, NoOrphan, NoLeftover
<1> QED BY <1>1, <1>2, <1>3

(* A request enters the map, with its channel untouched. *)
LEMMA RegisterMaps ==
  ASSUME Inv, Known, NEW r \in Req, Register(r)
  PROVE  Known' /\ Legal(r) /\ Others(r)
<1> USE NoneIsNothing DEF Register, Goto, childVars, chanVars, readerVars, Inv, TypeOK, Answering, Same
<1>1. Known'
  BY DEF Known, Kept, Settled, Order, Unsent, OneSender, NoOrphan, NoLeftover
<1>2. Others(r)
  BY DEF Others, Fate, OneSender
<1>3. Legal(r)
  BY DEF Legal, Fate, Known, Kept, Settled, Order, Unsent, OneSender, NoOrphan, NoLeftover
<1> QED BY <1>1, <1>2, <1>3

(* Whether a write succeeds is nothing to the fate of the request. *)
LEMMA WriteMaps ==
  ASSUME Inv, Known, NEW r \in Req, Write(r)
  PROVE  Known' /\ Quiet
<1> USE NoneIsNothing DEF Write, Goto, childVars, chanVars, readerVars, Inv, TypeOK, Answering, Same
<1>1. Known'
  BY DEF Known, Kept, Settled, Order, Unsent, OneSender, NoOrphan, NoLeftover
<1>2. Quiet
  BY DEF Quiet, Fate, Known, Kept, Settled, Order, Unsent, OneSender, NoOrphan, NoLeftover
<1> QED BY <1>1, <1>2

(* A request that is still in the map is the writer's alone now. *)
LEMMA UnregisterMaps ==
  ASSUME Inv, Known, NEW r \in Req, Unregister(r)
  PROVE  Known' /\ Legal(r) /\ Others(r)
<1> USE NoneIsNothing DEF Unregister, Goto, childVars, chanVars, readerVars, Inv, TypeOK, Answering, Same
<1>1. Known'
  BY DEF Known, Kept, Settled, Order, Unsent, OneSender, NoOrphan, NoLeftover
<1>2. Others(r)
  BY DEF Others, Fate, OneSender
<1>3. Legal(r)
  BY DEF Legal, Fate, Known, Kept, Settled, Order, Unsent, OneSender, NoOrphan, NoLeftover
<1> QED BY <1>1, <1>2, <1>3

(* To stop waiting alone changes no fate. *)
LEMMA ExpireMaps ==
  ASSUME Inv, Known, NEW r \in Req, Expire(r)
  PROVE  Known' /\ Quiet
<1> USE NoneIsNothing DEF Expire, Goto, childVars, chanVars, readerVars, Inv, TypeOK, Answering, Same
<1>1. Known'
  BY DEF Known, Kept, Settled, Order, Unsent, OneSender, NoOrphan, NoLeftover
<1>2. Quiet
  BY DEF Quiet, Fate, Known, Kept, Settled, Order, Unsent, OneSender, NoOrphan, NoLeftover
<1> QED BY <1>1, <1>2

(* A request that is still in the map is withdrawn; any other is somebody's, and goes on. *)
LEMMA ForgetMaps ==
  ASSUME Inv, Known, NEW r \in Req, Forget(r)
  PROVE  Known' /\ Legal(r) /\ Others(r)
<1> USE NoneIsNothing DEF Forget, Goto, childVars, chanVars, readerVars, Inv, TypeOK, Answering, Same
<1>1. Known'
  BY DEF Known, Kept, Settled, Order, Unsent, OneSender, NoOrphan, NoLeftover
<1>2. Others(r)
  BY DEF Others, Fate, OneSender
<1>3. Legal(r)
  BY DEF Legal, Fate, Known, Kept, Settled, Order, Unsent, OneSender, NoOrphan, NoLeftover
<1> QED BY <1>1, <1>2, <1>3

(* The watcher settles a request that it finds in the map. *)
LEMMA WatchContextMaps ==
  ASSUME Inv, Known, NEW r \in Req, WatchContext(r)
  PROVE  Known' /\ Legal(r) /\ Others(r)
<1> USE NoneIsNothing DEF WatchContext, SendTo, childVars, chanVars, readerVars, Inv, TypeOK, Answering, Same
<1>1. Known'
  BY DEF Known, Kept, Settled, Order, Unsent, OneSender, NoOrphan, NoLeftover
<1>2. Others(r)
  BY DEF Others, Fate, OneSender
<1>3. Legal(r)
  BY DEF Legal, Fate, Known, Kept, Settled, Order, Unsent, OneSender, NoOrphan, NoLeftover
<1> QED BY <1>1, <1>2, <1>3

(* The watcher takes a result, if it finds one. *)
LEMMA WatchResultMaps ==
  ASSUME Inv, Known, NEW r \in Req, WatchResult(r)
  PROVE  Known' /\ Legal(r) /\ Others(r)
<1> USE NoneIsNothing DEF WatchResult, childVars, chanVars, readerVars, Inv, TypeOK, Answering, Same
<1>1. Known'
  BY DEF Known, Kept, Settled, Order, Unsent, OneSender, NoOrphan, NoLeftover
<1>2. Others(r)
  BY DEF Others, Fate, OneSender
<1>3. Legal(r)
  BY DEF Legal, Fate, Known, Kept, Settled, Order, Unsent, OneSender, NoOrphan, NoLeftover
<1> QED BY <1>1, <1>2, <1>3

(* The watcher leaves. *)
LEMMA WatchDoneMaps ==
  ASSUME Inv, Known, NEW r \in Req, WatchDone(r)
  PROVE  Known' /\ Quiet
<1> USE NoneIsNothing DEF WatchDone, childVars, chanVars, readerVars, Inv, TypeOK, Answering, Same
<1>1. Known'
  BY DEF Known, Kept, Settled, Order, Unsent, OneSender, NoOrphan, NoLeftover
<1>2. Quiet
  BY DEF Quiet, Fate, Known, Kept, Settled, Order, Unsent, OneSender, NoOrphan, NoLeftover
<1> QED BY <1>1, <1>2

(* A panic over a request whose result was sent before is what Requests allows. *)
LEMMA CrashMaps ==
  ASSUME NEW r \in Req, Fate(r) \in {"settled", "taken"}, spc[r] # "done",
         ~panicked, panicked' = TRUE, Quiet
  PROVE  Promise!Next
<1> DEFINE returned == {q \in Req : spc[q] = "done"}
<1>1. r \notin returned /\ returned' = returned
  BY DEF Quiet, Same
<1> QED BY <1>1 DEF Quiet, Same, Promise!Next, Promise!Crash

(* Its own error settles a request, or comes to one that is settled: then the process ends. *)
LEMMA ReportMaps ==
  ASSUME Inv, Known, NEW r \in Req, Report(r), ~panicked
  PROVE  Known' /\ [Promise!Next]_(Promise!requestVars)
<1> USE NoneIsNothing DEF Report, Goto, SendTo, childVars, chanVars, readerVars, Inv, TypeOK,
                          Answering, Same
<1>1. Known'
  BY DEF Known, Kept, Settled, Order, Unsent, OneSender, NoOrphan, NoLeftover
<1>2. CASE r \notin shut
  <2>1. Others(r)
    BY <1>2 DEF Others, Fate, OneSender
  <2>2. Legal(r)
    BY <1>2 DEF Legal, Fate, Known, Kept, Settled, Order, Unsent, OneSender, NoLeftover
  <2>3. panicked' = panicked
    BY <1>2
  <2> QED BY <1>1, <2>1, <2>2, <2>3, LegalMaps
<1>3. CASE r \in shut
  <2>1. Quiet
    BY <1>3 DEF Quiet, Fate
  <2>2. Fate(r) \in {"settled", "taken"}
    BY <1>3 DEF Fate, NoLeftover
  <2> QED BY <1>1, <1>3, <2>1, <2>2, CrashMaps
<1> QED BY <1>2, <1>3

(* A Send takes its result, or finds its channel closed and empty: then the process ends. *)
LEMMA ReceiveMaps ==
  ASSUME Inv, Known, NEW r \in Req, Receive(r), ~panicked
  PROVE  Known' /\ [Promise!Next]_(Promise!requestVars)
<1> USE NoneIsNothing DEF Receive, Goto, childVars, chanVars, readerVars, Inv, TypeOK, Answering, Same
<1>1. Known'
  BY DEF Known, Kept, Settled, Order, Unsent, OneSender, NoOrphan, NoLeftover
<1>2. CASE r \in full
  <2>1. Others(r)
    BY <1>2 DEF Others, Fate, OneSender
  <2>2. Legal(r)
    BY <1>2 DEF Legal, Fate, Known, Kept, Settled, Order, Unsent, OneSender, NoLeftover
  <2>3. panicked' = panicked
    BY <1>2
  <2> QED BY <1>1, <2>1, <2>2, <2>3, LegalMaps
<1>3. CASE r \notin full
  <2>1. Quiet
    BY <1>3 DEF Quiet, Fate
  <2>2. Fate(r) \in {"settled", "taken"}
    BY <1>3 DEF Fate, OneSender
  <2> QED BY <1>1, <1>3, <2>1, <2>2, CrashMaps
<1> QED BY <1>2, <1>3

-----------------------------------------------------------------------------
(* A reader claims a request of the map. *)
LEMMA ReadMaps ==
  ASSUME Inv, Known, NEW k \in Child, Read(k), ~panicked
  PROVE  Known' /\ [Promise!Next]_(Promise!requestVars)
<1> USE NoneIsNothing DEF ReaderGoto, childVars, chanVars, readerVars, Inv, TypeOK, Answering, Same
<1> PICK r \in pending : sentTo[r] = k /\ pending' = pending \ {r} /\ ReaderGoto(k, "deliver", r)
  BY DEF Read
<1>1. rreq[k] = None /\ r \notin full \union shut /\ \A l \in Child : rreq[l] # r
  BY DEF Read, OneSender
<1>2. Known'
  BY <1>1 DEF Read, Known, Kept, Settled
<1>3. Others(r)
  BY <1>1 DEF Read, Others, Fate
<1>4. Legal(r)
  BY <1>1 DEF Read, Legal, Fate, NoLeftover
<1> QED BY <1>2, <1>3, <1>4, LegalMaps DEF Read

(* It settles the request it has claimed. *)
LEMMA DeliverMaps ==
  ASSUME Inv, Known, NEW k \in Child, Deliver(k), ~panicked
  PROVE  Known' /\ [Promise!Next]_(Promise!requestVars)
<1> USE NoneIsNothing DEF Deliver, ReaderGoto, childVars, chanVars, readerVars, Inv, TypeOK,
                          Answering, Same
<1> DEFINE r == rreq[k]
<1>1. r \in Req /\ r \notin pending \union full \union shut
      /\ \A l \in Child : rreq[l] = r => l = k
  BY DEF OneSender
<1>2. Known'
  BY <1>1 DEF Known, Kept, Settled
<1>3. Others(r)
  BY <1>1 DEF Others, Fate, OneSender
<1>4. Legal(r)
  BY <1>1 DEF Legal, Fate, Order, Unsent
<1> HIDE DEF r
<1> QED BY <1>1, <1>2, <1>3, <1>4, LegalMaps

(* To close the channel then is nothing more. *)
LEMMA CloseChannelMaps ==
  ASSUME Inv, Known, NEW k \in Child, CloseChannel(k)
  PROVE  Known' /\ Quiet
<1> USE NoneIsNothing DEF CloseChannel, ReaderGoto, childVars, chanVars, readerVars, Inv, TypeOK,
                          Answering, Same
<1>1. Known'
  BY DEF Known, Kept, Settled
<1>2. Quiet
  BY DEF Quiet, Fate, OneSender
<1> QED BY <1>1, <1>2

(* Steps of the child, its monitor and Close that touch no request. *)
LEMMA SilentMaps ==
  ASSUME Inv, Known, UNCHANGED <<pending, full, shut, spc, rreq>>,
         \A k \in Child : rpc'[k] = "close" <=> rpc[k] = "close"
  PROVE  Known' /\ Quiet
<1>1. Known'
  BY DEF Known, Kept, Settled, Answering
<1>2. Quiet
  BY DEF Quiet, Same, Fate, Answering
<1> QED BY <1>1, <1>2

LEMMA SilentSteps ==
  ASSUME Inv, ChildDies \/ MonitorReap \/ MonitorStart \/ MonitorMark \/
              CloseStart \/ CloseStdin \/ CloseKill
  PROVE  /\ UNCHANGED <<pending, full, shut, spc, rreq, panicked>>
         /\ \A k \in Child : rpc'[k] = "close" <=> rpc[k] = "close"
<1>1. CASE MonitorMark
  BY <1>1, NoneIsNothing DEF MonitorMark, ReaderGoto, childVars, chanVars, Inv, TypeOK, Order
<1>2. CASE ChildDies \/ MonitorReap \/ MonitorStart \/ CloseStart \/ CloseStdin \/ CloseKill
  BY <1>2 DEF ChildDies, MonitorReap, MonitorStart, CloseStart, CloseStdin, CloseKill, childVars,
              chanVars, readerVars
<1> QED BY <1>1, <1>2

(* Whoever cancels under the lock settles all that is open, at once. *)
LEMMA CancelMaps ==
  ASSUME Inv, Known, CancelAllPending, ~panicked, UNCHANGED <<spc, rpc, rreq, panicked>>
  PROVE  Known' /\ [Promise!Next]_(Promise!requestVars)
<1> USE DEF CancelAllPending, SendTo, Inv, TypeOK, Answering
<1> DEFINE fate == [q \in Req |-> Fate(q)]
<1>1. Known'
  BY DEF Known, Kept, Settled
<1>2. \A q \in pending : Fate(q) = "open" /\ Fate(q)' = "settled"
  BY DEF Fate, NoLeftover
<1>3. \A q \in Req \ pending : Fate(q)' = Fate(q)
  BY DEF Fate
<1>4. fate' = [q \in Req |-> IF q \in pending THEN "settled" ELSE fate[q]]
  BY <1>2, <1>3
<1>5. Promise!Settle(pending)
  BY <1>2, <1>4 DEF Promise!Settle
<1> QED BY <1>1, <1>5 DEF Promise!Next

-----------------------------------------------------------------------------
(* Every step of the transport is one of Requests, or changes nothing of it. *)
LEMMA StepMaps ==
  Inv /\ Known /\ [Next]_transportVars => Known' /\ [Promise!Next]_(Promise!requestVars)
<1> SUFFICES ASSUME Inv, Known, [Next]_transportVars
             PROVE  Known' /\ [Promise!Next]_(Promise!requestVars)
  OBVIOUS
<1>1. ASSUME ~panicked, NEW r \in Req, SendCheck(r) \/ SendStep(r) \/ Expire(r) \/ Watch(r)
      PROVE  Known' /\ [Promise!Next]_(Promise!requestVars)
  <2>1. CASE Report(r) \/ Receive(r)
    BY <1>1, <2>1, ReportMaps, ReceiveMaps
  <2>2. CASE SendCheck(r) \/ Register(r) \/ Unregister(r) \/ Forget(r) \/ WatchContext(r) \/ WatchResult(r)
    <3>1. panicked' = panicked
      BY <2>2 DEF SendCheck, Register, Unregister, Forget, WatchContext, WatchResult
    <3> QED
      BY <1>1, <2>2, <3>1, SendCheckMaps, RegisterMaps, UnregisterMaps, ForgetMaps, WatchContextMaps,
         WatchResultMaps, LegalMaps
  <2>3. CASE Write(r) \/ Expire(r) \/ WatchDone(r)
    <3>1. panicked' = panicked
      BY <2>3 DEF Write, Expire, WatchDone
    <3> QED BY <2>3, <3>1, WriteMaps, ExpireMaps, WatchDoneMaps, QuietMaps
  <2> QED BY <1>1, <2>1, <2>2, <2>3 DEF SendStep, Watch
<1>2. ASSUME ~panicked, NEW k \in Child, Read(k) \/ Reader(k)
      PROVE  Known' /\ [Promise!Next]_(Promise!requestVars)
  <2>1. CloseChannel(k) => panicked' = panicked
    BY DEF CloseChannel
  <2> QED BY <1>2, <2>1, ReadMaps, DeliverMaps, CloseChannelMaps, QuietMaps DEF Reader
<1>3. ASSUME ~panicked, MonitorCancel \/ CloseCancel
      PROVE  Known' /\ [Promise!Next]_(Promise!requestVars)
  BY <1>3, CancelMaps DEF MonitorCancel, CloseCancel, readerVars
<1>4. ASSUME ChildDies \/ MonitorReap \/ MonitorStart \/ MonitorMark \/
             CloseStart \/ CloseStdin \/ CloseKill
      PROVE  Known' /\ [Promise!Next]_(Promise!requestVars)
  BY <1>4, SilentSteps, SilentMaps, QuietMaps
<1>5. CASE UNCHANGED transportVars
  <2>1. UNCHANGED <<pending, full, shut, spc, rreq, rpc, panicked>>
    BY <1>5 DEF transportVars, chanVars, readerVars
  <2> QED BY <2>1, SilentMaps, QuietMaps
<1> QED BY <1>1, <1>2, <1>3, <1>4, <1>5 DEF Next, Step, Monitor, CloseStep

LEMMA InitMaps == Init => Known /\ Promise!Init
BY DEF Init, Known, Promise!Init, Fate

(***************************************************************************)
(* KeepsPromise, for any number of calls and restarts: a request is        *)
(* registered once, claimed by one party, settled at most once and read    *)
(* once, no call returns from an open one, and the process panics over     *)
(* none that still waits for its result.                                   *)
(***************************************************************************)
THEOREM Implements == Spec => KeepsPromise
<1>1. Init => Known /\ Promise!Init
  BY InitMaps
<1>2. Inv /\ Known /\ [Next]_transportVars => Known' /\ [Promise!Next]_(Promise!requestVars)
  BY StepMaps
<1> QED BY <1>1, <1>2, Invariance, PTL DEF Spec, KeepsPromise, Promise!Spec
=============================================================================
