-------------------------- MODULE JobStorageProofs --------------------------
(***************************************************************************)
(* Proofs about JobStorage, for any sets of jobs and tools, any limits and *)
(* any room in a transaction: its indexes mirror its records, and it       *)
(* implements JobRecords, the storage the queue relies on.                 *)
(***************************************************************************)
EXTENDS JobStorage, TLAPS

USE DEF indexes, storageVars, Exists

LEMMA PairParts ==
  ASSUME NEW A, NEW B, NEW e \in A \X B
  PROVE  e = <<e[1], e[2]>> /\ e[1] \in A /\ e[2] \in B
OBVIOUS

(***************************************************************************)
(* IndexesSound is not inductive alone: a record overwritten with another  *)
(* keeps no entry of the old one because an entry of the job can only be   *)
(* the one removeIndexes computes from the old record.                     *)
(***************************************************************************)
Inv == TypeOK /\ IndexesSound /\ IndexesComplete

(* Writing a record and its indexes keeps them matched. *)
LEMMA ReindexKeeps ==
  ASSUME Inv, NEW j \in Job, NEW new \in Record,
         rec' = [rec EXCEPT ![j] = new], Reindex(j, rec[j], new),
         stripped' = stripped \ {j}, UNCHANGED answer
  PROVE  Inv'
<1> USE AbsentAssumption, ToolAssumption DEF Inv, Reindex, PendingKeys, ToolKeys, StatusKeys
<1>1. rec[j] \in Record \union {Absent} /\ rec'[j] = new /\ new # Absent
      /\ \A k \in Job : k # j => rec'[k] = rec[k]
  BY DEF TypeOK
<1>2. TypeOK'
  BY <1>1 DEF TypeOK, Record
<1>3. \A k \in pendingIdx' : rec'[k] # Absent /\ rec'[k].status = "pending"
  BY <1>1 DEF TypeOK, IndexesSound
<1>4. \A e \in toolIdx' : rec'[e[2]] # Absent /\ rec'[e[2]].tool = e[1]
  <2> SUFFICES ASSUME NEW e \in toolIdx' PROVE rec'[e[2]] # Absent /\ rec'[e[2]].tool = e[1]
    OBVIOUS
  <2>1. CASE e \in ToolKeys(j, new)  BY <1>1, <2>1
  <2>2. CASE e \notin ToolKeys(j, new)
    <3>1. e \in toolIdx /\ e \in Tool \X Job /\ rec[e[2]] # Absent /\ rec[e[2]].tool = e[1]
      BY <2>2 DEF TypeOK, IndexesSound
    <3>2. e[2] # j
      <4>1. SUFFICES ASSUME e[2] = j PROVE FALSE
        OBVIOUS
      <4>2. e = <<rec[j].tool, j>> /\ rec[j].tool \in Tool /\ rec[j] # Absent
        BY <3>1, <4>1
      <4>3. e \in ToolKeys(j, rec[j])
        BY <4>2
      <4> QED BY <2>2, <4>2, <4>3
    <3> QED BY <1>1, <3>1, <3>2
  <2> QED BY <2>1, <2>2
<1>5. \A e \in statusIdx' : rec'[e[2]] # Absent /\ rec'[e[2]].status = e[1]
  <2> SUFFICES ASSUME NEW e \in statusIdx' PROVE rec'[e[2]] # Absent /\ rec'[e[2]].status = e[1]
    OBVIOUS
  <2>1. CASE e \in StatusKeys(j, new)  BY <1>1, <2>1
  <2>2. CASE e \notin StatusKeys(j, new)
    <3>1. e \in statusIdx /\ e \in Status \X Job /\ rec[e[2]] # Absent /\ rec[e[2]].status = e[1]
      BY <2>2 DEF TypeOK, IndexesSound
    <3>2. e[2] # j
      <4>1. SUFFICES ASSUME e[2] = j PROVE FALSE
        OBVIOUS
      <4>2. e = <<rec[j].status, j>> /\ rec[j] # Absent
        BY <3>1, <4>1
      <4> QED BY <2>2, <4>2
    <3> QED BY <1>1, <3>1, <3>2
  <2> QED BY <2>1, <2>2
<1>6. IndexesSound'
  BY <1>3, <1>4, <1>5 DEF IndexesSound
<1>7. IndexesComplete'
  <2> SUFFICES ASSUME NEW k \in Job, rec'[k] # Absent
               PROVE  /\ PendingKeys(k, rec'[k]) \subseteq pendingIdx'
                      /\ k \notin stripped' => /\ ToolKeys(k, rec'[k]) \subseteq toolIdx'
                                               /\ StatusKeys(k, rec'[k]) \subseteq statusIdx'
                      /\ k \in stripped' => rec'[k].status \in Terminal
    BY DEF IndexesComplete
  <2>1. CASE k = j  BY <1>1, <2>1
  <2>2. CASE k # j  BY <1>1, <2>2 DEF IndexesComplete
  <2> QED BY <2>1, <2>2
<1> QED BY <1>2, <1>6, <1>7

(***************************************************************************)
(* A removal deletes the records of gone with all their entries (those of  *)
(* P, T and S include gone), and some entries of the terminal jobs in cut. *)
(***************************************************************************)
Removal(gone, P, T, S, cut) ==
  /\ rec' = [k \in Job |-> IF k \in gone THEN Absent ELSE rec[k]]
  /\ pendingIdx' = pendingIdx \ P
  /\ toolIdx' = toolIdx \ Removed(T, ToolKeys)
  /\ statusIdx' = statusIdx \ Removed(S, StatusKeys)
  /\ stripped' = (stripped \ gone) \union cut
  /\ gone \subseteq P \intersect T \intersect S
  /\ \A k \in P \ gone : Exists(k) => rec[k].status # "pending"
  /\ (T \union S) \ gone \subseteq cut
  /\ \A k \in cut : Exists(k) /\ rec[k].status \in Terminal
  /\ UNCHANGED answer

LEMMA RemovalKeeps ==
  ASSUME Inv, NEW gone \in SUBSET Job, NEW P \in SUBSET Job, NEW T \in SUBSET Job,
         NEW S \in SUBSET Job, NEW cut \in SUBSET Job, Removal(gone, P, T, S, cut)
  PROVE  Inv'
<1> USE AbsentAssumption, ToolAssumption DEF Inv, Removal, PendingKeys, ToolKeys, StatusKeys
<1>1. TypeOK'
  BY DEF TypeOK
<1>2. \A k \in Job : k \in gone => ToolKeys(k, rec[k]) \subseteq Removed(T, ToolKeys)
                                   /\ StatusKeys(k, rec[k]) \subseteq Removed(S, StatusKeys)
  BY DEF Removed
<1>3. \A e \in toolIdx' : e[2] \notin gone
  <2> SUFFICES ASSUME NEW e \in toolIdx', e[2] \in gone PROVE FALSE
    OBVIOUS
  <2>1. e \in Tool \X Job /\ rec[e[2]].tool = e[1] /\ rec[e[2]] # Absent
    BY DEF TypeOK, IndexesSound
  <2>2. e = <<e[1], e[2]>> /\ e[1] \in Tool
    BY <2>1, PairParts
  <2>3. e \in ToolKeys(e[2], rec[e[2]])
    BY <2>1, <2>2
  <2> QED BY <1>2, <2>3
<1>4. \A e \in statusIdx' : e[2] \notin gone
  <2> SUFFICES ASSUME NEW e \in statusIdx', e[2] \in gone PROVE FALSE
    OBVIOUS
  <2>1. e \in Status \X Job /\ rec[e[2]].status = e[1] /\ rec[e[2]] # Absent
    BY DEF TypeOK, IndexesSound
  <2>2. e = <<e[1], e[2]>>
    BY <2>1, PairParts
  <2>3. e \in StatusKeys(e[2], rec[e[2]])
    BY <2>1, <2>2
  <2> QED BY <1>2, <2>3
<1>5. IndexesSound'
  BY <1>3, <1>4 DEF IndexesSound, TypeOK
<1>6. \A k \in Job \ (T \union S) :
        /\ ToolKeys(k, rec[k]) \intersect Removed(T, ToolKeys) = {}
        /\ StatusKeys(k, rec[k]) \intersect Removed(S, StatusKeys) = {}
  BY DEF Removed
<1>7. IndexesComplete'
  <2> SUFFICES ASSUME NEW k \in Job, rec'[k] # Absent
               PROVE  /\ PendingKeys(k, rec'[k]) \subseteq pendingIdx'
                      /\ k \notin stripped' => /\ ToolKeys(k, rec'[k]) \subseteq toolIdx'
                                               /\ StatusKeys(k, rec'[k]) \subseteq statusIdx'
                      /\ k \in stripped' => rec'[k].status \in Terminal
    BY DEF IndexesComplete
  <2>1. k \notin gone /\ rec'[k] = rec[k] /\ rec[k] # Absent
    OBVIOUS
  <2>2. PendingKeys(k, rec[k]) \subseteq pendingIdx'
    BY <2>1 DEF IndexesComplete
  <2>3. ASSUME k \notin stripped'
        PROVE  ToolKeys(k, rec[k]) \subseteq toolIdx' /\ StatusKeys(k, rec[k]) \subseteq statusIdx'
    <3>1. k \notin stripped /\ k \notin T \union S
      BY <2>1, <2>3
    <3>2. ToolKeys(k, rec[k]) \subseteq toolIdx /\ StatusKeys(k, rec[k]) \subseteq statusIdx
      BY <2>1, <3>1 DEF IndexesComplete
    <3> HIDE DEF ToolKeys, StatusKeys
    <3> QED BY <1>6, <3>1, <3>2
  <2>4. k \in stripped' => rec[k].status \in Terminal
    BY <2>1 DEF IndexesComplete
  <2> QED BY <2>1, <2>2, <2>3, <2>4
<1> QED BY <1>1, <1>5, <1>7

(* The jobs Cleanup meets are terminal, because the status index is sound. *)
LEMMA ListedTerminal ==
  ASSUME Inv PROVE \A j \in Listed : j \in Job /\ Exists(j) /\ rec[j].status \in Terminal
BY DEF Inv, Listed, IndexesSound

-----------------------------------------------------------------------------
(***************************************************************************)
(* The indexes mirror the records in every reachable state: every entry    *)
(* has its record, every record its entries unless a Cleanup without room  *)
(* took them.                                                              *)
(***************************************************************************)
THEOREM IndexesMatch == Spec => [](TypeOK /\ IndexesSound /\ IndexesComplete)
<1>1. Init => Inv
  BY DEF Init, Inv, TypeOK, IndexesSound, IndexesComplete
<1>2. ASSUME Inv, [Next]_storageVars PROVE Inv'
  <2> USE <1>2
  <2>1. ASSUME NEW j \in Job, NEW r \in Record, Save(j, r) PROVE Inv'
    BY <2>1, ReindexKeeps DEF Save
  <2>2. ASSUME NEW j \in Job, NEW s \in Status, UpdateStatus(j, s) PROVE Inv'
    <3> DEFINE new == [rec[j] EXCEPT !.status = s]
    <3>1. new \in Record
      BY <2>2 DEF UpdateStatus, Inv, TypeOK, Record
    <3>2. rec' = [rec EXCEPT ![j] = new] /\ Reindex(j, rec[j], new)
          /\ stripped' = stripped \ {j} /\ UNCHANGED answer
      BY <2>2 DEF UpdateStatus
    <3> HIDE DEF new
    <3> QED BY <3>1, <3>2, ReindexKeeps
  <2>3. ASSUME NEW j \in Job, Delete(j) PROVE Inv'
    <3>1. /\ toolIdx' = toolIdx \ Removed({j}, ToolKeys)
          /\ statusIdx' = statusIdx \ Removed({j}, StatusKeys)
      BY <2>3 DEF Delete, Removed
    <3>2. Removal({j}, {j}, {j}, {j}, {})
      BY <2>3, <3>1 DEF Removal, Delete, Inv, TypeOK
    <3>3. {j} \in SUBSET Job /\ {} \in SUBSET Job
      OBVIOUS
    <3> QED BY <3>2, <3>3, RemovalKeeps
  <2>4. CASE Cleanup
    <3>1. PICK old \in SUBSET Listed : (CleanupAll(old) \/ CleanupSome(old)) /\ UNCHANGED answer
      BY <2>4 DEF Cleanup
    <3>2. old \in SUBSET Job /\ \A k \in old : Exists(k) /\ rec[k].status \in Terminal
      BY <3>1, ListedTerminal
    <3>3. CASE CleanupAll(old)
      <4>1. Removal(old, old, old, old, {})
        BY <3>1, <3>3 DEF Removal, CleanupAll
      <4>2. {} \in SUBSET Job
        OBVIOUS
      <4> QED BY <3>2, <4>1, <4>2, RemovalKeeps
    <3>4. CASE CleanupSome(old)
      <4>1. PICK gone \in SUBSET old : \E cut \in old \ gone :
              LET left == MaxWrites - Room(gone)
                  tool == left >= 2 /\ rec[cut].tool # NoTool
                  stat == left >= Writes(cut) - 1
              IN  /\ rec' = [j \in Job |-> IF j \in gone THEN Absent ELSE rec[j]]
                  /\ pendingIdx' = pendingIdx \ (gone \union (IF left >= 1 THEN {cut} ELSE {}))
                  /\ toolIdx' = toolIdx \ Removed(gone \union (IF tool THEN {cut} ELSE {}), ToolKeys)
                  /\ statusIdx' = statusIdx \ Removed(gone \union (IF stat THEN {cut} ELSE {}), StatusKeys)
                  /\ stripped' = (stripped \ gone) \union (IF tool \/ stat THEN {cut} ELSE {})
        BY <3>4 DEF CleanupSome
      <4>2. PICK cut \in old \ gone :
              LET left == MaxWrites - Room(gone)
                  tool == left >= 2 /\ rec[cut].tool # NoTool
                  stat == left >= Writes(cut) - 1
              IN  /\ rec' = [j \in Job |-> IF j \in gone THEN Absent ELSE rec[j]]
                  /\ pendingIdx' = pendingIdx \ (gone \union (IF left >= 1 THEN {cut} ELSE {}))
                  /\ toolIdx' = toolIdx \ Removed(gone \union (IF tool THEN {cut} ELSE {}), ToolKeys)
                  /\ statusIdx' = statusIdx \ Removed(gone \union (IF stat THEN {cut} ELSE {}), StatusKeys)
                  /\ stripped' = (stripped \ gone) \union (IF tool \/ stat THEN {cut} ELSE {})
        BY <4>1
      <4> DEFINE left == MaxWrites - Room(gone)
                 tool == left >= 2 /\ rec[cut].tool # NoTool
                 stat == left >= Writes(cut) - 1
                 P == gone \union (IF left >= 1 THEN {cut} ELSE {})
                 T == gone \union (IF tool THEN {cut} ELSE {})
                 S == gone \union (IF stat THEN {cut} ELSE {})
                 C == IF tool \/ stat THEN {cut} ELSE {}
      <4>3. /\ rec' = [j \in Job |-> IF j \in gone THEN Absent ELSE rec[j]]
            /\ pendingIdx' = pendingIdx \ P
            /\ toolIdx' = toolIdx \ Removed(T, ToolKeys)
            /\ statusIdx' = statusIdx \ Removed(S, StatusKeys)
            /\ stripped' = (stripped \ gone) \union C
        BY <4>2
      <4> HIDE DEF tool, stat, left
      <4>4. /\ gone \in SUBSET Job /\ C \in SUBSET Job
            /\ P \in SUBSET Job /\ T \in SUBSET Job /\ S \in SUBSET Job
            /\ gone \subseteq P \intersect T \intersect S
            /\ (T \union S) \ gone \subseteq C
            /\ P \ gone \subseteq old /\ C \subseteq old
        BY <3>2
      <4> HIDE DEF P, T, S, C
      <4>5. \A k \in old : rec[k].status # "pending"
        BY <3>2 DEF Terminal
      <4>6. Removal(gone, P, T, S, C)
        BY <3>1, <3>2, <4>3, <4>4, <4>5 DEF Removal
      <4> QED BY <4>4, <4>6, RemovalKeeps
    <3> QED BY <3>1, <3>3, <3>4
  <2>5. ASSUME NEW limit \in Limit, GetPending(limit) PROVE Inv'
    BY <2>5 DEF GetPending, Oldest, Inv, TypeOK, IndexesSound, IndexesComplete
  <2>6. CASE UNCHANGED storageVars
    BY <2>6 DEF Inv, TypeOK, IndexesSound, IndexesComplete
  <2> QED BY <2>1, <2>2, <2>3, <2>4, <2>5, <2>6 DEF Next
<1> QED BY <1>1, <1>2, PTL DEF Spec, Inv

-----------------------------------------------------------------------------
(***************************************************************************)
(* The storage implements JobRecords: every operation changes the statuses *)
(* as its abstract counterpart does, Cleanup deletes only jobs that have   *)
(* ended (it trusts its index for that, which is sound) and GetPending     *)
(* answers from its index what the records say.                            *)
(***************************************************************************)
THEOREM Implements == Spec => ImplementsRecords
<1>1. Init => Records!Init
  BY DEF Init, Records!Init, StatusOf
<1>2. ASSUME Inv, [Next]_storageVars PROVE [Records!Next]_(Records!recordVars)
  <2> USE <1>2, AbsentAssumption
  <2> USE DEF StatusOf
  <2>1. ASSUME NEW j \in Job, NEW new \in Record, rec' = [rec EXCEPT ![j] = new], UNCHANGED answer
        PROVE  Records!Next
    <3>1. new # Absent /\ new.status \in Status /\ rec'[j] = new
          /\ \A k \in Job : k # j => rec'[k] = rec[k]
      BY <2>1 DEF Inv, TypeOK, Record
    <3>2. StatusOf' = [StatusOf EXCEPT ![j] = new.status]
      BY <3>1
    <3>3. new.status \in Records!Status
      BY <3>1 DEF Status, Terminal, Records!Status, Records!Terminal
    <3> QED BY <2>1, <3>2, <3>3 DEF Records!Next, Records!Put
  <2>2. ASSUME NEW j \in Job, NEW r \in Record, Save(j, r) PROVE Records!Next
    BY <2>1, <2>2 DEF Save
  <2>3. ASSUME NEW j \in Job, NEW s \in Status, UpdateStatus(j, s) PROVE Records!Next
    <3>1. [rec[j] EXCEPT !.status = s] \in Record
      BY <2>3 DEF UpdateStatus, Inv, TypeOK, Record
    <3> QED BY <2>1, <2>3, <3>1 DEF UpdateStatus
  <2>4. ASSUME NEW j \in Job, Delete(j) PROVE Records!Next
    <3>1. StatusOf[j] # "absent" /\ StatusOf' = [StatusOf EXCEPT ![j] = "absent"]
      BY <2>4 DEF Delete, Inv, TypeOK, Record, Status, Terminal
    <3> QED BY <2>4, <3>1 DEF Records!Next, Records!Remove, Delete
  <2>5. ASSUME NEW S \in SUBSET Job, \A k \in S : Exists(k) /\ rec[k].status \in Terminal,
               rec' = [k \in Job |-> IF k \in S THEN Absent ELSE rec[k]], UNCHANGED answer
        PROVE  Records!Next
    <3>1. \A k \in S : StatusOf[k] \in Records!Terminal
      BY <2>5 DEF Terminal, Records!Terminal
    <3>2. StatusOf' = [k \in Job |-> IF k \in S THEN "absent" ELSE StatusOf[k]]
      BY <2>5
    <3> QED BY <2>5, <3>1, <3>2 DEF Records!Next, Records!Expire
  <2>6. CASE Cleanup
    <3>1. PICK old \in SUBSET Listed : (CleanupAll(old) \/ CleanupSome(old)) /\ UNCHANGED answer
      BY <2>6 DEF Cleanup
    <3>2. old \in SUBSET Job /\ \A k \in old : Exists(k) /\ rec[k].status \in Terminal
      BY <3>1, ListedTerminal
    <3>3. \E S \in SUBSET old : rec' = [k \in Job |-> IF k \in S THEN Absent ELSE rec[k]]
      BY <3>1 DEF CleanupAll, CleanupSome
    <3> QED BY <2>5, <3>1, <3>2, <3>3
  <2>7. ASSUME NEW limit \in Limit, GetPending(limit) PROVE Records!Next
    <3> DEFINE found == {j \in pendingIdx : Exists(j) /\ rec[j].status = "pending"}
    <3>a. \A j \in found : j \in Job /\ StatusOf[j] = "pending"
      BY DEF Inv, TypeOK
    <3>b. \A j \in Job : StatusOf[j] = "pending" => Exists(j) /\ rec[j].status = "pending"
      OBVIOUS
    <3>c. \A j \in Job : StatusOf[j] = "pending" => j \in found
      BY <3>b DEF Inv, IndexesComplete, PendingKeys
    <3>1. found = Records!Pending
      <4> HIDE DEF found, StatusOf
      <4> QED BY <3>a, <3>c DEF Records!Pending
    <3>2. Oldest(Records!Pending, limit) = Records!Oldest(Records!Pending, limit)
      BY Zenon DEF Oldest, Records!Oldest, Cardinality, Records!Cardinality
    <3> QED BY <2>7, <3>1, <3>2 DEF GetPending, Records!Next, Records!GetPending
  <2>8. CASE UNCHANGED storageVars
    BY <2>8 DEF Records!recordVars
  <2> QED BY <2>2, <2>3, <2>4, <2>6, <2>7, <2>8 DEF Next
<1>3. Spec => []Inv
  BY IndexesMatch DEF Inv
<1> QED BY <1>1, <1>2, <1>3, PTL DEF Spec, ImplementsRecords, Records!Spec

(* TypeOK, for any jobs and tools. *)
THEOREM Typing == Spec => []TypeOK
BY IndexesMatch, PTL

(***************************************************************************)
(* IndexesComplete, for any jobs, tools and limits of Cleanup: a record is *)
(* found by List, GetStats, Cleanup and GetPending, and one that Cleanup   *)
(* half removed has ended.                                                 *)
(***************************************************************************)
THEOREM Complete == Spec => []IndexesComplete
BY IndexesMatch, PTL
=============================================================================
