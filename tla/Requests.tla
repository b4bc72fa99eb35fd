------------------------------ MODULE Requests ------------------------------
(***************************************************************************)
(* What a transport promises for every request it is given (Send of the    *)
(* interface Transport in pkg/mcpclient/transport.go), without maps,       *)
(* channels, children and readers. A request is registered once; from then *)
(* on it is open until one party, and only one, claims it, or its caller   *)
(* withdraws it. What is claimed is settled once, by an answer or an error *)
(* (not told apart), and that result is taken once: by the call, or by the *)
(* goroutine beside it, which throws it away. The call returns with the    *)
(* result, or gives up; it leaves no open request behind. The process may  *)
(* end by a panic, but over no request that is still without its result.   *)
(***************************************************************************)
CONSTANT Req       \* calls of Send, each with a request of its own

VARIABLES
  fate,            \* what has become of each request
  returned,        \* the calls that have returned
  crashed          \* has the process panicked?

requestVars == <<fate, returned, crashed>>

Init ==
  /\ fate = [r \in Req |-> "new"]
  /\ returned = {}
  /\ crashed = FALSE

(* The request has a new fate; the other requests keep theirs. *)
Becomes(r, f) == fate' = [fate EXCEPT ![r] = f]

Return(r) == r \notin returned /\ returned' = returned \union {r}

(* A transport that is not connected takes no request. *)
Refuse(r) ==
  /\ fate[r] = "new" /\ Becomes(r, "gone")
  /\ Return(r)
  /\ UNCHANGED crashed

Open(r) ==
  /\ fate[r] = "new" /\ Becomes(r, "open")
  /\ UNCHANGED <<returned, crashed>>

(* Whoever takes the request off the map under the lock has it alone. *)
Claim(r) ==
  /\ fate[r] = "open" /\ Becomes(r, "claimed")
  /\ UNCHANGED <<returned, crashed>>

(* Results for claimed requests; who holds the lock claims and settles in one step. *)
Settle(S) ==
  /\ \A r \in S : fate[r] \in {"open", "claimed"}
  /\ fate' = [r \in Req |-> IF r \in S THEN "settled" ELSE fate[r]]
  /\ UNCHANGED <<returned, crashed>>

(* The result is thrown away. *)
Discard(r) ==
  /\ fate[r] = "settled" /\ Becomes(r, "taken")
  /\ UNCHANGED <<returned, crashed>>

(* The call returns with it. *)
Finish(r) ==
  /\ fate[r] = "settled" /\ Becomes(r, "taken")
  /\ Return(r)
  /\ UNCHANGED crashed

(* The context of the call ends: it withdraws an open request, and leaves any other as it is. *)
GiveUp(r) ==
  /\ \/ fate[r] = "open" /\ Becomes(r, "gone")
     \/ fate[r] \in {"claimed", "settled", "taken"} /\ UNCHANGED fate
  /\ Return(r)
  /\ UNCHANGED crashed

(* The call finds its result taken, or its own error has come too late. *)
Crash(r) ==
  /\ fate[r] \in {"settled", "taken"} /\ r \notin returned
  /\ crashed' = TRUE
  /\ UNCHANGED <<fate, returned>>

Next ==
  /\ ~crashed
  /\ \/ \E r \in Req : \/ Refuse(r) \/ Open(r) \/ Claim(r)
                       \/ Discard(r) \/ Finish(r) \/ GiveUp(r) \/ Crash(r)
     \/ \E S \in SUBSET Req : Settle(S)

Spec == Init /\ [][Next]_requestVars
=============================================================================
