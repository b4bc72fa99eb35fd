----------------------------- MODULE JobStorage -----------------------------
(***************************************************************************)
(* BadgerJobStorage (internal/jobs/storage.go): the keys it keeps for each *)
(* job and how every operation updates them. One operation is one Badger   *)
(* transaction, which reads and writes atomically or fails and changes     *)
(* nothing (then there is no step). A write that a transaction has no more *)
(* room for (ErrTxnTooBig) is refused, its error is ignored, and the rest  *)
(* of the transaction commits: Cleanup can meet that.                      *)
(*                                                                         *)
(* Jobs are numbered in the order of their pending keys, which is the      *)
(* order of creation. A record is reduced to its status and tool name.     *)
(***************************************************************************)
EXTENDS Naturals, FiniteSets

CONSTANTS
  Job,          \* job ids
  Tool,         \* tool names
  NoTool,       \* a job whose tool is not known yet
  Absent,       \* no record
  Limit,        \* limits GetPending is called with
  MaxWrites     \* writes a transaction has room for

ASSUME JobsAssumption == Job \subseteq Nat /\ Limit \subseteq Nat
ASSUME ToolAssumption == NoTool \notin Tool
ASSUME RoomAssumption == MaxWrites \in Nat

Terminal == {"completed", "failed", "cancelled"}
Status   == {"pending", "running"} \union Terminal
Record   == [status : Status, tool : Tool \union {NoTool}]

ASSUME AbsentAssumption == Absent \notin Record

VARIABLES
  rec,          \* jobs:<id>
  pendingIdx,   \* jobs:pending:<created>:<id>
  toolIdx,      \* jobs:by_tool:<tool>:<id>
  statusIdx,    \* jobs:by_status:<status>:<id>
  stripped,     \* history: jobs a transaction without room left without index
  answer        \* the last answer of GetPending

indexes == <<pendingIdx, toolIdx, statusIdx>>
storageVars == <<rec, indexes, stripped, answer>>

Init ==
  /\ rec = [j \in Job |-> Absent]
  /\ pendingIdx = {} /\ toolIdx = {} /\ statusIdx = {}
  /\ stripped = {}
  /\ answer = {}

Exists(j) == rec[j] # Absent

-----------------------------------------------------------------------------
(* The index entries of a record, and what addIndexes and removeIndexes do. *)

(* Mutant: a tool entry for a job without a tool. *)
ToolKeysAlways(j, r) == {<<r.tool, j>>}

PendingKeys(j, r) == IF r.status = "pending" THEN {j} ELSE {}
ToolKeys(j, r)    == IF r.tool # NoTool THEN {<<r.tool, j>>} ELSE {}
StatusKeys(j, r)  == {<<r.status, j>>}

(* Mutant: the new entries are added before the old ones are removed. *)
ReindexAddFirst(j, old, new) ==
  LET Without(idx, K) == IF old # Absent THEN idx \ K ELSE idx
  IN  /\ pendingIdx' = Without(pendingIdx \union PendingKeys(j, new), {j})
      /\ toolIdx' = toolIdx \union ToolKeys(j, new)
      /\ statusIdx' = Without(statusIdx \union StatusKeys(j, new), StatusKeys(j, old))

(* removeIndexes(old), when there is an old record, then addIndexes(new). *)
Reindex(j, old, new) ==
  LET had == old # Absent
  IN  /\ pendingIdx' = (IF had THEN pendingIdx \ {j} ELSE pendingIdx) \union PendingKeys(j, new)
      /\ toolIdx' = (IF had THEN toolIdx \ ToolKeys(j, old) ELSE toolIdx) \union ToolKeys(j, new)
      /\ statusIdx' = (IF had THEN statusIdx \ StatusKeys(j, old) ELSE statusIdx)
                      \union StatusKeys(j, new)

-----------------------------------------------------------------------------
(* Operations. *)

Save(j, new) ==
  /\ rec' = [rec EXCEPT ![j] = new]
  /\ Reindex(j, rec[j], new)
  /\ stripped' = stripped \ {j}
  /\ UNCHANGED answer

(* Mutant: removeIndexes sees the job with its new status. *)
UpdateStatusLate(j, s) ==
  LET new == [rec[j] EXCEPT !.status = s]
  IN  /\ Exists(j)
      /\ rec' = [rec EXCEPT ![j] = new]
      /\ Reindex(j, new, new)
      /\ stripped' = stripped \ {j}
      /\ UNCHANGED answer

(* The indexes of the record as it was go, those of the record as it is come. *)
UpdateStatus(j, s) ==
  LET new == [rec[j] EXCEPT !.status = s]
  IN  /\ Exists(j)
      /\ rec' = [rec EXCEPT ![j] = new]
      /\ Reindex(j, rec[j], new)
      /\ stripped' = stripped \ {j}
      /\ UNCHANGED answer

Delete(j) ==
  /\ Exists(j)
  /\ pendingIdx' = pendingIdx \ {j}
  /\ toolIdx' = toolIdx \ ToolKeys(j, rec[j])
  /\ statusIdx' = statusIdx \ StatusKeys(j, rec[j])
  /\ rec' = [rec EXCEPT ![j] = Absent]
  /\ stripped' = stripped \ {j}
  /\ UNCHANGED answer

-----------------------------------------------------------------------------
(* Cleanup. *)

(* Mutant: it walks the entries of every status. *)
ListedAll == {j \in Job : \E s \in Status : <<s, j>> \in statusIdx /\ Exists(j)}

(* Jobs it meets: it walks the status index, one terminal status after the other. *)
Listed == {j \in Job : \E s \in Terminal : <<s, j>> \in statusIdx /\ Exists(j)}

(* The writes that delete job j: its index entries first, its record last. *)
Writes(j) == IF rec[j].tool = NoTool THEN 3 ELSE 4

Room(S) == 3 * Cardinality(S) + Cardinality({j \in S : rec[j].tool # NoTool})
Removed(S, K(_, _)) == UNION {K(j, rec[j]) : j \in S}

(* A transaction with room for everything deletes all that is old. *)
CleanupAll(old) ==
  /\ Room(old) <= MaxWrites
  /\ rec' = [j \in Job |-> IF j \in old THEN Absent ELSE rec[j]]
  /\ pendingIdx' = pendingIdx \ old
  /\ toolIdx' = toolIdx \ Removed(old, ToolKeys)
  /\ statusIdx' = statusIdx \ Removed(old, StatusKeys)
  /\ stripped' = stripped \ old

(***************************************************************************)
(* Otherwise it deletes some, and of the next one, cut, as many keys as it *)
(* has room for, in the order pending, tool, status, record.               *)
(***************************************************************************)
CleanupSome(old) ==
  \E gone \in SUBSET old : \E cut \in old \ gone :
    LET left == MaxWrites - Room(gone)
        tool == left >= 2 /\ rec[cut].tool # NoTool
        stat == left >= Writes(cut) - 1
    IN  /\ Room(gone) <= MaxWrites /\ left < Writes(cut)
        /\ rec' = [j \in Job |-> IF j \in gone THEN Absent ELSE rec[j]]
        /\ pendingIdx' = pendingIdx \ (gone \union (IF left >= 1 THEN {cut} ELSE {}))
        /\ toolIdx' = toolIdx \ Removed(gone \union (IF tool THEN {cut} ELSE {}), ToolKeys)
        /\ statusIdx' = statusIdx \ Removed(gone \union (IF stat THEN {cut} ELSE {}), StatusKeys)
        /\ stripped' = (stripped \ gone) \union (IF tool \/ stat THEN {cut} ELSE {})

(* It looks at the age of a record, not at its status: the index tells it is terminal. *)
Cleanup ==
  \E old \in SUBSET Listed :
    /\ old # {}
    /\ CleanupAll(old) \/ CleanupSome(old)
    /\ UNCHANGED answer

-----------------------------------------------------------------------------
(* GetPending: the pending index in the order of its keys. *)

Oldest(S, limit) == {j \in S : Cardinality({k \in S : k < j}) < limit}

(* An entry whose record is missing or not pending is passed over. *)
GetPending(limit) ==
  /\ answer' = Oldest({j \in pendingIdx : Exists(j) /\ rec[j].status = "pending"}, limit)
  /\ UNCHANGED <<rec, indexes, stripped>>

Next ==
  \/ \E j \in Job : \/ \E r \in Record : Save(j, r)
                    \/ \E s \in Status : UpdateStatus(j, s)
                    \/ Delete(j)
  \/ Cleanup
  \/ \E limit \in Limit : GetPending(limit)

Spec == Init /\ [][Next]_storageVars

-----------------------------------------------------------------------------
(* Properties. *)

TypeOK ==
  /\ rec \in [Job -> Record \union {Absent}]
  /\ pendingIdx \subseteq Job
  /\ toolIdx \subseteq Tool \X Job
  /\ statusIdx \subseteq Status \X Job
  /\ stripped \subseteq Job
  /\ answer \subseteq Job

(***************************************************************************)
(* An index entry always leads to a record that has what the entry says:   *)
(* no operation, not even a Cleanup that ran out of room, leaves an entry  *)
(* of a record that is gone or has changed since.                          *)
(***************************************************************************)
IndexesSound ==
  /\ \A j \in pendingIdx : Exists(j) /\ rec[j].status = "pending"
  /\ \A e \in toolIdx : Exists(e[2]) /\ rec[e[2]].tool = e[1]
  /\ \A e \in statusIdx : Exists(e[2]) /\ rec[e[2]].status = e[1]

(***************************************************************************)
(* And a record has all its entries, so List, GetStats, Cleanup and        *)
(* GetPending find it, unless a Cleanup without room took some, which  *)
(* happens to a job that has ended only, never to one still to be run.     *)
(***************************************************************************)
IndexesComplete ==
  \A j \in Job : Exists(j) =>
    /\ PendingKeys(j, rec[j]) \subseteq pendingIdx
    /\ j \notin stripped => /\ ToolKeys(j, rec[j]) \subseteq toolIdx
                            /\ StatusKeys(j, rec[j]) \subseteq statusIdx
    /\ j \in stripped => rec[j].status \in Terminal

(* What the queue relies on: the storage implements JobRecords. *)
StatusOf == [j \in Job |-> IF Exists(j) THEN rec[j].status ELSE "absent"]
Records == INSTANCE JobRecords WITH status <- StatusOf
ImplementsRecords == Records!Spec
=============================================================================
