----------------------------- MODULE JobRecords -----------------------------
(***************************************************************************)
(* What the job queue expects of its storage (interface JobStorage in      *)
(* internal/jobs/storage.go): a map from job ids to records, of which it   *)
(* tells the status apart, and GetPending, which answers with the oldest   *)
(* pending jobs. Jobs are numbered in the order of their creation.         *)
(***************************************************************************)
EXTENDS Naturals, FiniteSets

CONSTANTS
  Job,          \* job ids
  Limit         \* limits GetPending is called with

Terminal == {"completed", "failed", "cancelled"}
Status   == {"pending", "running"} \union Terminal

VARIABLES
  status,       \* the status of each record, or "absent"
  answer        \* the last answer of GetPending

recordVars == <<status, answer>>

Init == status = [j \in Job |-> "absent"] /\ answer = {}

(* Those of S that fewer than limit others precede. *)
Oldest(S, limit) == {j \in S : Cardinality({k \in S : k < j}) < limit}

Pending == {j \in Job : status[j] = "pending"}

(* Save and UpdateStatus. *)
Put(j, s) == status' = [status EXCEPT ![j] = s] /\ UNCHANGED answer

(* Delete. *)
Remove(j) ==
  /\ status[j] # "absent"
  /\ status' = [status EXCEPT ![j] = "absent"]
  /\ UNCHANGED answer

(* Cleanup: any of the jobs that have ended. *)
Expire(S) ==
  /\ \A j \in S : status[j] \in Terminal
  /\ status' = [j \in Job |-> IF j \in S THEN "absent" ELSE status[j]]
  /\ UNCHANGED answer

GetPending(limit) == answer' = Oldest(Pending, limit) /\ UNCHANGED status

Next ==
  \/ \E j \in Job : Remove(j) \/ \E s \in Status : Put(j, s)
  \/ \E S \in SUBSET Job : Expire(S)
  \/ \E limit \in Limit : GetPending(limit)

Spec == Init /\ [][Next]_recordVars
=============================================================================
