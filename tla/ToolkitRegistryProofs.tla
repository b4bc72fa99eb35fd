----------------------- MODULE ToolkitRegistryProofs -----------------------
(***************************************************************************)
(* The properties of ToolkitRegistry for every set of ids, configuration,  *)
(* number of goroutines, starts and requests. All follow from one          *)
(* inductive invariant, Inv. StoreFollows is not inductive alone: the      *)
(* goroutine of the last change of an id must still carry what the map     *)
(* has (Carried). StartRestores needs that no id is given twice (Fresh)    *)
(* and that a start has registered what it has taken from the              *)
(* configuration (Loaded).                                                 *)
(***************************************************************************)
EXTENDS ToolkitRegistry, TLAPS

Job == [kind : {"idle", "save", "delete", "index", "unindex"},
        id : Id \union {None}, tk : Toolkit, todo : SUBSET Box]

(* The goroutine of the last change of an id has what the map has, unless the process is down. *)
Carried ==
  \A id \in Id : newest[id] # None =>
    LET j == job[newest[id]]
    IN  /\ phase # "down"
        /\ j.kind \in {"save", "delete"} /\ j.id = id
        /\ j.kind = "save" => j.tk = toolkits[id]
        /\ j.kind = "delete" => toolkits[id] = NoToolkit

(* What is registered, stored or to be saved has an id that was given. *)
Fresh ==
  /\ \A id \in Id : toolkits[id] # NoToolkit \/ stored[id] # NoToolkit => id \in used
  /\ \A g \in Go : job[g].kind = "save" => job[g].id \in used

(* A start has registered the entries that are well formed and that it has done. *)
Loaded ==
  phase = "starting" =>
    \A k \in Config \ config : ToolkitOk(k) => \E id \in Id : toolkits[id].name = k.name

Inv == TypeOK /\ Carried /\ StoreFollows /\ IndexFollows /\ Fresh /\ Loaded

-----------------------------------------------------------------------------
(* Toolkits and jobs. *)

LEMMA ToolkitType ==
  /\ NoToolkit \in Toolkit
  /\ \A tk \in Toolkit : tk.boxes \subseteq Box
<1>1. ASSUME NEW tk \in Toolkit PROVE tk.boxes \subseteq Box
  <2> DEFINE Names == (Name \ {""}) \union {k.name : k \in Config}
  <2> HIDE DEF Names
  <2>1. tk \in [name : Names, boxes : SUBSET Box] \/ tk = NoToolkit
    BY DEF Toolkit, Names
  <2> QED BY <2>1 DEF NoToolkit
<1> QED BY <1>1 DEF Toolkit

LEMMA JobType ==
  ASSUME NEW id \in Id, NEW tk \in Toolkit, NEW todo \in SUBSET Box
  PROVE  /\ NoJob \in Job
         /\ \A kind \in {"index", "unindex"} : Loop(kind, id, todo) \in Job
         /\ \A kind \in {"save", "delete"} : Storing(kind, id, tk) \in Job
BY ToolkitType DEF Job, NoJob, Loop, Storing

(* What a loop that has something to do looks like. *)
LEMMA LoopHas ==
  ASSUME NEW kind, NEW id, NEW todo, NEW b \in todo, Indexed
  PROVE  Loop(kind, id, todo).kind = kind /\ Loop(kind, id, todo).id = id
         /\ Loop(kind, id, todo).todo = todo
BY DEF Loop

LEMMA LoopKinds ==
  ASSUME NEW kind, NEW id, NEW todo
  PROVE  Loop(kind, id, todo).kind \in {kind, "idle"}
         /\ (Loop(kind, id, todo).kind # "idle" => Loop(kind, id, todo).id = id)
BY DEF Loop, NoJob

LEMMA InitInv == Init => Inv
<1> SUFFICES ASSUME Init PROVE Inv
  OBVIOUS
<1>1. TypeOK
  BY ToolkitType, BoundAssumption, JobType DEF Init, TypeOK, NoJob, Job
<1>2. Carried /\ Fresh /\ Loaded
  BY DEF Init, Carried, Fresh, Loaded, NoJob
<1>3. StoreFollows /\ IndexFollows
  BY DEF Init, StoreFollows, IndexFollows
<1> QED BY <1>1, <1>2, <1>3 DEF Inv

-----------------------------------------------------------------------------
(* The map. *)

LEMMA RegisterKeeps ==
  ASSUME Inv, phase # "down", phase' = phase,
         requests' \in 0..MaxRequests, param' \in Id \union {None}, config' \subseteq config,
         NEW id \in Id, NEW tk \in Toolkit \ {NoToolkit}, NEW g \in Go, NEW h \in Go,
         RegisterToolkit(id, tk, g, h)
  PROVE  TypeOK' /\ Carried' /\ StoreFollows' /\ IndexFollows' /\ Fresh'
<1> DEFINE save == Storing("save", id, tk)
           loop == Loop("index", id, tk.boxes)
<1>0. /\ TypeOK /\ Carried /\ StoreFollows /\ IndexFollows /\ Fresh
      /\ job \in [Go -> Job]
  BY DEF Inv, TypeOK, Job
<1>1. save \in Job /\ loop \in Job /\ NoJob \in Job /\ tk.boxes \subseteq Box
  BY ToolkitType, JobType
<1>2. save.kind = "save" /\ save.id = id /\ save.tk = tk /\ loop.kind \in {"index", "idle"}
      /\ (loop.kind # "idle" => loop.id = id)
  BY LoopKinds DEF Storing
<1>3. NoJob.kind = "idle"
  BY DEF NoJob
<1> HIDE DEF save, loop
<1>4. /\ job[g] = NoJob /\ job[h] = NoJob
      /\ job' = [job EXCEPT ![h] = loop, ![g] = save]
      /\ toolkits' = [toolkits EXCEPT ![id] = tk]
      /\ used' = used \union {id} \union tk.boxes
      /\ newest' = [newest EXCEPT ![id] = g]
      /\ UNCHANGED <<provider, starts, stored, index, reindex, astray, missed>>
  BY DEF RegisterToolkit, save, loop
<1>5. /\ job' \in [Go -> Job] /\ job'[g] = save
      /\ g # h => job'[h] = loop
      /\ \A f \in Go \ {g, h} : job'[f] = job[f]
  BY <1>0, <1>1, <1>4
<1>6. TypeOK'
  <2>1. \A f \in Go : job'[f].kind \in {"save", "delete", "index"} => job'[f].id \in Id
    BY <1>0, <1>2, <1>5 DEF TypeOK
  <2> QED BY <1>0, <1>1, <1>4, <1>5, <2>1 DEF TypeOK, Job
<1>7. Carried'
  BY <1>0, <1>2, <1>3, <1>4, <1>5, NoneAssumption DEF Carried, TypeOK
<1>8. StoreFollows'
  BY <1>0, <1>4, NoneAssumption DEF StoreFollows, TypeOK
<1>9. IndexFollows'
  <2> SUFFICES ASSUME Indexed', NEW p \in BoxesOf(toolkits)'
               PROVE  \/ (Documents(p[1], p[2]) \subseteq index)'
                      \/ p \in missed' \/ p \in reindex'
                      \/ \E f \in Go : job'[f].kind = "index" /\ job'[f].id = p[1] /\ p[2] \in job'[f].todo
    BY DEF IndexFollows
  <2>1. Indexed /\ g # h /\ p \in Id \X Box /\ p[2] \in toolkits'[p[1]].boxes
    BY <1>4 DEF Indexed, RegisterToolkit, BoxesOf
  <2>2. CASE p[1] = id
    <3>1. p[2] \in tk.boxes
      BY <1>0, <1>4, <2>1, <2>2 DEF TypeOK
    <3>2. loop.kind = "index" /\ loop.id = id /\ p[2] \in loop.todo
      BY <2>1, <3>1, LoopHas DEF loop
    <3> QED BY <1>5, <2>1, <2>2, <3>2
  <2>3. CASE p[1] # id
    <3>1. p \in BoxesOf(toolkits)
      BY <1>0, <1>4, <2>1, <2>3 DEF BoxesOf, TypeOK
    <3> QED BY <1>0, <1>3, <1>4, <1>5, <2>1, <3>1 DEF IndexFollows, Documents
  <2> QED BY <2>2, <2>3
<1>10. Fresh'
  BY <1>0, <1>2, <1>4, <1>5 DEF Fresh, TypeOK
<1> QED BY <1>6, <1>7, <1>8, <1>9, <1>10

LEMMA CreateKeeps ==
  ASSUME Inv, NEW id \in Id, NEW name \in Name, NEW boxes \in SUBSET Box, NEW g \in Go, NEW h \in Go,
         CreateToolkit(id, name, boxes, g, h)
  PROVE  Inv'
<1> DEFINE tk == [name |-> name, boxes |-> boxes]
<1>1. tk \in Toolkit \ {NoToolkit}
  BY NoneAssumption DEF CreateToolkit, Toolkit, NoToolkit
<1>2. /\ phase = "serving" /\ phase' = phase
      /\ requests' \in 0..MaxRequests /\ param' \in Id \union {None} /\ config' \subseteq config
  <2>1. /\ phase = "serving" /\ UNCHANGED <<phase, config>> /\ param' = None
        /\ requests < MaxRequests /\ requests' = requests + 1
    BY DEF CreateToolkit, Counted
  <2>2. requests \in 0..MaxRequests
    BY DEF Inv, TypeOK
  <2> QED BY <2>1, <2>2, BoundAssumption
<1>5. RegisterToolkit(id, tk, g, h)
  BY DEF CreateToolkit
<1> HIDE DEF tk
<1>3. TypeOK' /\ Carried' /\ StoreFollows' /\ IndexFollows' /\ Fresh'
  BY <1>1, <1>2, <1>5, RegisterKeeps
<1>4. Loaded'
  BY <1>2 DEF Loaded
<1> QED BY <1>3, <1>4 DEF Inv

LEMMA LoadKeeps ==
  ASSUME Inv, NEW k \in Config, NEW g \in Go, NEW h \in Go, LoadEntry(k, g, h)
  PROVE  Inv'
<1>0. /\ phase = "starting" /\ phase' = phase /\ config' = config \ {k}
      /\ requests' \in 0..MaxRequests /\ param' \in Id \union {None} /\ config' \subseteq config
  BY DEF LoadEntry, Inv, TypeOK
<1>1. CASE /\ ToolkitOk(k)
           /\ \E id \in Id \ used, boxes \in SUBSET (Box \ used) :
                RegisterToolkit(id, [name |-> k.name, boxes |-> boxes], g, h)
  <2>1. PICK id \in Id \ used, boxes \in SUBSET (Box \ used) :
          RegisterToolkit(id, [name |-> k.name, boxes |-> boxes], g, h)
    BY <1>1
  <2> DEFINE tk == [name |-> k.name, boxes |-> boxes]
  <2>2. tk \in Toolkit \ {NoToolkit} /\ tk.name = k.name
    BY ConfigAssumption DEF Toolkit, NoToolkit
  <2>3. RegisterToolkit(id, tk, g, h)
    BY <2>1
  <2> HIDE DEF tk
  <2>4. TypeOK' /\ Carried' /\ StoreFollows' /\ IndexFollows' /\ Fresh'
    BY <1>0, <2>2, <2>3, RegisterKeeps
  <2>5. toolkits' = [toolkits EXCEPT ![id] = tk] /\ toolkits \in [Id -> Toolkit]
    BY <2>3 DEF RegisterToolkit, Inv, TypeOK
  <2>6. Loaded'
    <3> SUFFICES ASSUME NEW l \in Config \ config', ToolkitOk(l)
                 PROVE  \E i \in Id : toolkits'[i].name = l.name
      BY DEF Loaded
    <3>1. CASE l = k
      BY <2>2, <2>5, <3>1
    <3>2. CASE l # k
      <4>1. PICK i \in Id : toolkits[i].name = l.name
        BY <1>0, <3>2 DEF Inv, Loaded
      <4>2. toolkits[i] # NoToolkit
        BY <4>1, ConfigAssumption DEF NoToolkit
      <4>3. i # id
        BY <4>2 DEF Inv, Fresh
      <4> QED BY <2>5, <4>1, <4>3
    <3> QED BY <3>1, <3>2
  <2> QED BY <2>4, <2>6 DEF Inv
<1>2. CASE /\ ~ToolkitOk(k)
           /\ UNCHANGED <<provider, starts, toolkits, stored, index, job, reindex, used, historyVars>>
  <2>1. TypeOK' /\ Carried' /\ StoreFollows' /\ Fresh'
    BY <1>0, <1>2 DEF Inv, TypeOK, Carried, StoreFollows, Fresh, historyVars
  <2>2. IndexFollows'
    BY <1>0, <1>2 DEF Inv, IndexFollows, Indexed, BoxesOf, Documents, historyVars
  <2>3. Loaded'
    BY <1>0, <1>2 DEF Inv, Loaded
  <2> QED BY <2>1, <2>2, <2>3 DEF Inv
<1> QED BY <1>1, <1>2 DEF LoadEntry

LEMMA DeleteKeeps ==
  ASSUME Inv, NEW id \in Id, NEW g \in Go, NEW h \in Go, DeleteToolkit(id, g, h)
  PROVE  Inv'
<1> DEFINE delete == Storing("delete", id, NoToolkit)
           loop == Loop("unindex", id, toolkits[id].boxes)
<1>0. /\ TypeOK /\ Carried /\ StoreFollows /\ IndexFollows /\ Fresh
      /\ job \in [Go -> Job] /\ toolkits[id].boxes \subseteq Box
  BY ToolkitType DEF Inv, TypeOK, Job
<1>1. delete \in Job /\ loop \in Job /\ NoJob \in Job
  BY <1>0, ToolkitType, JobType
<1>2. delete.kind = "delete" /\ delete.id = id /\ loop.kind \in {"unindex", "idle"}
  BY LoopKinds DEF Storing
<1>3. NoJob.kind = "idle"
  BY DEF NoJob
<1> HIDE DEF delete, loop
<1>4. /\ phase = "serving" /\ phase' = phase /\ param' = id
      /\ requests' \in 0..MaxRequests
      /\ job[g] = NoJob /\ job[h] = NoJob
      /\ job' = [job EXCEPT ![h] = loop, ![g] = delete]
      /\ toolkits' = [toolkits EXCEPT ![id] = NoToolkit]
      /\ newest' = [newest EXCEPT ![id] = g]
      /\ UNCHANGED <<provider, starts, stored, index, reindex, config, used, astray, missed>>
  BY BoundAssumption, <1>0
     DEF DeleteToolkit, UnregisterToolkit, Counted, delete, loop, TypeOK
<1>5. /\ job' \in [Go -> Job] /\ job'[g] = delete
      /\ g # h => job'[h] = loop
      /\ \A f \in Go \ {g, h} : job'[f] = job[f]
  BY <1>0, <1>1, <1>4
<1>6. TypeOK'
  <2>1. \A f \in Go : job'[f].kind \in {"save", "delete", "index"} => job'[f].id \in Id
    BY <1>0, <1>2, <1>5 DEF TypeOK
  <2> QED BY <1>0, <1>1, <1>4, <1>5, <2>1, ToolkitType DEF TypeOK, Job
<1>7. Carried'
  BY <1>0, <1>2, <1>3, <1>4, <1>5, NoneAssumption DEF Carried, TypeOK
<1>8. StoreFollows'
  BY <1>0, <1>4, NoneAssumption DEF StoreFollows, TypeOK
<1>9. IndexFollows'
  <2>1. BoxesOf(toolkits)' \subseteq BoxesOf(toolkits)
    BY <1>0, <1>4 DEF BoxesOf, TypeOK, NoToolkit
  <2> QED BY <1>0, <1>3, <1>4, <1>5, <2>1 DEF IndexFollows, Documents, Indexed
<1>10. Fresh' /\ Loaded'
  BY <1>0, <1>2, <1>4, <1>5 DEF Fresh, Loaded, TypeOK
<1> QED BY <1>6, <1>7, <1>8, <1>9, <1>10 DEF Inv

-----------------------------------------------------------------------------
(* The records. *)

LEMMA SaveKeeps ==
  ASSUME Inv, NEW g \in Go, SaveToolkit(g)
  PROVE  Inv'
<1> DEFINE id == job[g].id
<1>0. /\ TypeOK /\ Carried /\ StoreFollows /\ IndexFollows /\ Fresh /\ Loaded
      /\ job \in [Go -> Job]
  BY DEF Inv, TypeOK, Job
<1>1. /\ job[g].kind = "save" /\ id \in Id /\ job[g].tk \in Toolkit /\ id \in used
      /\ job' = [job EXCEPT ![g] = NoJob]
      /\ NoJob \in Job /\ NoJob.kind = "idle"
      /\ UNCHANGED <<provider, phase, starts, requests, toolkits, index, reindex, config, used,
                     param, missed>>
  BY <1>0, JobType, ToolkitType
     DEF SaveToolkit, TypeOK, Job, Fresh, startVars, requestVars, NoJob
<1>2. PICK good \in BOOLEAN :
        /\ good => stored' = [stored EXCEPT ![id] = job[g].tk]
        /\ ~good => stored' = stored
        /\ Settle(id, g, good)
  BY DEF SaveToolkit
<1>3. /\ newest' = IF newest[id] = g THEN [newest EXCEPT ![id] = None] ELSE newest
      /\ newest' \in [Id -> Go \union {None}]
      /\ astray' \subseteq astray \union {id} /\ astray \subseteq astray' \union {id}
      /\ id \notin astray' => newest[id] # None /\ (newest[id] = g => good)
  BY <1>0, <1>1, <1>2, NoneAssumption DEF Settle, TypeOK
<1> HIDE DEF id
<1>4. stored' \in [Id -> Toolkit] /\ \A i \in Id \ {id} : stored'[i] = stored[i]
  BY <1>0, <1>1, <1>2 DEF TypeOK
<1>5. TypeOK'
  BY <1>0, <1>1, <1>3, <1>4 DEF TypeOK, Job
<1>6. Carried'
  BY <1>0, <1>1, <1>3 DEF Carried, TypeOK, id
<1>7. StoreFollows'
  BY <1>0, <1>1, <1>2, <1>3, <1>4, NoneAssumption DEF StoreFollows, Carried, TypeOK
<1>8. IndexFollows'
  BY <1>0, <1>1 DEF IndexFollows, Indexed, BoxesOf, Documents
<1>9. Fresh' /\ Loaded'
  BY <1>0, <1>1, <1>4 DEF Fresh, Loaded, TypeOK
<1> QED BY <1>5, <1>6, <1>7, <1>8, <1>9 DEF Inv

LEMMA DeleteRecordKeeps ==
  ASSUME Inv, NEW g \in Go, DeleteRecord(g)
  PROVE  Inv'
<1> DEFINE id == job[g].id
<1>0. /\ TypeOK /\ Carried /\ StoreFollows /\ IndexFollows /\ Fresh /\ Loaded
      /\ job \in [Go -> Job]
  BY DEF Inv, TypeOK, Job
<1>1. /\ job[g].kind = "delete" /\ id \in Id
      /\ job' = [job EXCEPT ![g] = NoJob]
      /\ NoJob \in Job /\ NoJob.kind = "idle"
      /\ UNCHANGED <<provider, phase, starts, requests, toolkits, index, reindex, config, used,
                     param, missed>>
  BY <1>0, JobType, ToolkitType DEF DeleteRecord, TypeOK, startVars, requestVars, NoJob
<1> HIDE DEF id
<1>2. /\ newest' = IF newest[id] = g THEN [newest EXCEPT ![id] = None] ELSE newest
      /\ newest' \in [Id -> Go \union {None}]
      /\ astray' \subseteq Id /\ stored' \in [Id -> Toolkit]
      /\ \A i \in Id : stored'[i] \in {stored[i], NoToolkit}
      /\ \A i \in Id \ astray' :
           \/ newest'[i] # None
           \/ i = id /\ newest[id] = g /\ stored'[id] = NoToolkit
           \/ stored'[i] = stored[i] /\ newest[i] = None /\ i \notin astray
  <2>1. CASE stored' = [stored EXCEPT ![id] = NoToolkit] /\ Settle(id, g, TRUE)
    BY <1>0, <1>1, <2>1, ToolkitType, NoneAssumption DEF Settle, TypeOK
  <2>2. CASE stored' = stored /\ Settle(id, g, FALSE)
    BY <1>0, <1>1, <2>2, NoneAssumption DEF Settle, TypeOK
  <2>3. CASE /\ param \in Id \ {id}
             /\ stored' = [stored EXCEPT ![param] = NoToolkit]
             /\ newest' = IF newest[id] = g THEN [newest EXCEPT ![id] = None] ELSE newest
             /\ astray' = astray \union {i \in {id, param} : newest[i] \in {g, None}}
    <3>1. newest' \in [Id -> Go \union {None}] /\ astray' \subseteq Id /\ stored' \in [Id -> Toolkit]
      BY <1>0, <1>1, <2>3, ToolkitType DEF TypeOK
    <3> QED BY <1>0, <1>1, <2>3, <3>1, NoneAssumption DEF TypeOK
  <2> QED BY <2>1, <2>2, <2>3 DEF DeleteRecord, id
<1>3. TypeOK'
  BY <1>0, <1>1, <1>2 DEF TypeOK, Job
<1>4. Carried'
  BY <1>0, <1>1, <1>2 DEF Carried, TypeOK, id
<1>5. StoreFollows'
  BY <1>0, <1>1, <1>2, NoneAssumption DEF StoreFollows, Carried, TypeOK, id
<1>6. IndexFollows'
  BY <1>0, <1>1 DEF IndexFollows, Indexed, BoxesOf, Documents
<1>7. Fresh' /\ Loaded'
  BY <1>0, <1>1, <1>2 DEF Fresh, Loaded, TypeOK
<1> QED BY <1>3, <1>4, <1>5, <1>6, <1>7 DEF Inv

-----------------------------------------------------------------------------
(* The index. *)

(* Indexing adds documents, the toolbox's among them if it succeeds. *)
LEMMA IndexToolboxAdds ==
  ASSUME NEW id \in Id, NEW b \in Box, NEW ok \in BOOLEAN, index \subseteq Id \X Box \X Tool,
         IndexToolbox(id, b, ok)
  PROVE  /\ index \subseteq index' /\ index' \subseteq Id \X Box \X Tool
         /\ ok => Documents(id, b) \subseteq index'
<1>1. CASE AddDocuments(id, b, ok)
  BY <1>1 DEF AddDocuments, Documents
<1>2. CASE UpsertEach(id, b, ok)
  <2>1. PICK done \in SUBSET Tool : /\ ok <=> done = Tool
                                    /\ index' = index \union {<<id, b, t>> : t \in done}
    BY <1>2 DEF UpsertEach
  <2> QED BY <2>1 DEF Documents
<1> QED BY <1>1, <1>2 DEF IndexToolbox

(* A goroutine that is not the one of a last change goes on or ends. *)
LEMMA OtherJob ==
  ASSUME Inv, NEW g \in Go, job[g].kind \in {"index", "unindex"}, NEW j \in Job,
         j.kind \in {job[g].kind, "idle"}, j.kind # "idle" => j.id = job[g].id,
         job' = [job EXCEPT ![g] = j], UNCHANGED <<phase, toolkits, stored, used, newest, astray>>
  PROVE  Carried' /\ StoreFollows' /\ Fresh'
<1>0. TypeOK /\ Carried /\ StoreFollows /\ Fresh
  BY DEF Inv
<1>1. job'[g] = j /\ \A f \in Go \ {g} : job'[f] = job[f]
  BY <1>0 DEF TypeOK
<1>2. Carried'
  BY <1>0, <1>1 DEF Carried, TypeOK
<1>3. StoreFollows' /\ Fresh'
  BY <1>0, <1>1 DEF StoreFollows, Fresh
<1> QED BY <1>2, <1>3

LEMMA IndexNextKeeps ==
  ASSUME Inv, NEW g \in Go, NEW b \in Box, IndexNext(g, b)
  PROVE  Inv'
<1> DEFINE id == job[g].id
           loop == Loop("index", id, job[g].todo \ {b})
<1>0. /\ TypeOK /\ IndexFollows /\ Loaded /\ job \in [Go -> Job]
      /\ job[g].kind = "index" /\ b \in job[g].todo /\ id \in Id /\ job[g].todo \subseteq Box
  BY DEF IndexNext, Inv, TypeOK, Job
<1>1. /\ job' = [job EXCEPT ![g] = loop]
      /\ UNCHANGED <<provider, phase, starts, requests, toolkits, stored, reindex, config, used,
                     param, newest, astray>>
  BY DEF IndexNext, startVars, requestVars
<1>2. PICK ok \in BOOLEAN :
        /\ IndexToolbox(id, b, ok)
        /\ missed' = IF ok THEN missed \ {<<id, b>>} ELSE missed \union {<<id, b>>}
  BY DEF IndexNext
<1>3. /\ index \subseteq index' /\ index' \subseteq Id \X Box \X Tool
      /\ ok => Documents(id, b) \subseteq index'
  BY <1>0, <1>2, IndexToolboxAdds DEF TypeOK
<1>4. loop \in Job /\ loop.kind \in {"index", "idle"} /\ (loop.kind # "idle" => loop.id = id)
  BY <1>0, JobType, ToolkitType, LoopKinds
<1>5. \A c \in job[g].todo \ {b} : Indexed => loop.kind = "index" /\ loop.id = id /\ c \in loop.todo
  BY LoopHas
<1> HIDE DEF id, loop
<1>6. job'[g] = loop /\ \A f \in Go \ {g} : job'[f] = job[f]
  BY <1>0, <1>1
<1>7. TypeOK'
  BY <1>0, <1>1, <1>2, <1>3, <1>4 DEF TypeOK, Job
<1>8. Carried' /\ StoreFollows' /\ Fresh'
  BY <1>0, <1>1, <1>4, OtherJob DEF id
<1>9. IndexFollows'
  <2> SUFFICES ASSUME Indexed', phase' # "down", NEW p \in BoxesOf(toolkits)'
               PROVE  \/ (Documents(p[1], p[2]) \subseteq index)'
                      \/ p \in missed' \/ p \in reindex'
                      \/ \E f \in Go : job'[f].kind = "index" /\ job'[f].id = p[1] /\ p[2] \in job'[f].todo
    BY DEF IndexFollows
  <2>1. Indexed /\ phase # "down" /\ p \in BoxesOf(toolkits) /\ p \in Id \X Box
    BY <1>1 DEF Indexed, BoxesOf
  <2>2. CASE p = <<id, b>>
    BY <1>2, <1>3, <2>2 DEF Documents
  <2>3. CASE p # <<id, b>>
    <3>1. \/ Documents(p[1], p[2]) \subseteq index \/ p \in missed \/ p \in reindex
          \/ \E f \in Go : job[f].kind = "index" /\ job[f].id = p[1] /\ p[2] \in job[f].todo
      BY <1>0, <2>1 DEF IndexFollows
    <3>2. ASSUME NEW f \in Go, job[f].kind = "index", job[f].id = p[1], p[2] \in job[f].todo
          PROVE  job'[f].kind = "index" /\ job'[f].id = p[1] /\ p[2] \in job'[f].todo
      <4>1. CASE f = g
        <5>1. p[2] # b
          BY <2>1, <2>3, <3>2, <4>1 DEF id
        <5> QED BY <1>5, <1>6, <2>1, <3>2, <4>1, <5>1 DEF id
      <4> QED BY <1>6, <3>2, <4>1
    <3> QED BY <1>1, <1>2, <1>3, <2>3, <3>1, <3>2 DEF Documents
  <2> QED BY <2>2, <2>3
<1>10. Loaded'
  BY <1>0, <1>1 DEF Loaded
<1> QED BY <1>7, <1>8, <1>9, <1>10 DEF Inv

LEMMA UnindexNextKeeps ==
  ASSUME Inv, NEW g \in Go, NEW b \in Box, UnindexNext(g, b)
  PROVE  Inv'
<1> DEFINE id == job[g].id
           loop == Loop("unindex", id, job[g].todo \ {b})
<1>0. /\ TypeOK /\ IndexFollows /\ Loaded /\ job \in [Go -> Job]
      /\ job[g].kind = "unindex" /\ b \in job[g].todo /\ job[g].todo \subseteq Box
  BY DEF UnindexNext, Inv, TypeOK, Job
<1>1. /\ job' = [job EXCEPT ![g] = loop]
      /\ UNCHANGED <<provider, phase, starts, requests, toolkits, stored, reindex, config, used,
                     param, newest, astray>>
  BY DEF UnindexNext, startVars, requestVars
<1>2. PICK ok \in BOOLEAN : DeleteToolbox(b, ok)
  BY DEF UnindexNext
<1>3. loop \in Job /\ loop.kind \in {"unindex", "idle"} /\ (loop.kind # "idle" => loop.id = id)
  <2>1. loop \in [kind : {"unindex", "idle"}, id : Id \union {None}, tk : Toolkit, todo : SUBSET Box]
    BY <1>0, ToolkitType DEF Loop, NoJob, Job
  <2> QED BY <2>1, LoopKinds DEF Job
<1> HIDE DEF id, loop
<1>4. job'[g] = loop /\ \A f \in Go \ {g} : job'[f] = job[f]
  BY <1>0, <1>1
<1>5. TypeOK'
  <2>1. index' \subseteq Id \X Box \X Tool /\ missed' \subseteq Id \X Box
    BY <1>0, <1>2 DEF DeleteToolbox, TypeOK
  <2> QED BY <1>0, <1>1, <1>3, <1>4, <2>1 DEF TypeOK, Job
<1>6. Carried' /\ StoreFollows' /\ Fresh'
  BY <1>0, <1>1, <1>3, OtherJob DEF id
<1>7. IndexFollows'
  <2> SUFFICES ASSUME Indexed', phase' # "down", NEW p \in BoxesOf(toolkits)'
               PROVE  \/ (Documents(p[1], p[2]) \subseteq index)'
                      \/ p \in missed' \/ p \in reindex'
                      \/ \E f \in Go : job'[f].kind = "index" /\ job'[f].id = p[1] /\ p[2] \in job'[f].todo
    BY DEF IndexFollows
  <2>1. Indexed /\ phase # "down" /\ p \in BoxesOf(toolkits) /\ p \in Id \X Box
        /\ p[2] \in toolkits[p[1]].boxes
    BY <1>1 DEF Indexed, BoxesOf
  <2>2. \/ Documents(p[1], p[2]) \subseteq index \/ p \in missed \/ p \in reindex
        \/ \E f \in Go : job[f].kind = "index" /\ job[f].id = p[1] /\ p[2] \in job[f].todo
    BY <1>0, <2>1 DEF IndexFollows
  <2>3. missed \subseteq missed' /\ (p[2] # b /\ Documents(p[1], p[2]) \subseteq index => Documents(p[1], p[2]) \subseteq index')
    BY <1>2 DEF DeleteToolbox, Documents
  <2>4. CASE ok /\ p[2] = b
    BY <1>2, <2>1, <2>4 DEF DeleteToolbox
  <2>5. CASE ~ok
    BY <1>0, <1>1, <1>2, <1>4, <2>2, <2>5 DEF DeleteToolbox, Documents
  <2>6. CASE p[2] # b
    BY <1>0, <1>1, <1>4, <2>2, <2>3, <2>6 DEF Documents
  <2> QED BY <2>4, <2>5, <2>6
<1>8. Loaded'
  BY <1>0, <1>1 DEF Loaded
<1> QED BY <1>5, <1>6, <1>7, <1>8 DEF Inv

-----------------------------------------------------------------------------
(* The process. *)

LEMMA StartKeeps ==
  ASSUME Inv, Start
  PROVE  Inv'
<1>0. TypeOK /\ Carried /\ Fresh
  BY DEF Inv
<1>1. /\ phase = "down" /\ phase' = "starting" /\ starts < MaxStarts /\ starts' = starts + 1
      /\ config' = Config /\ missed' = {} /\ param' = None
      /\ UNCHANGED <<provider, requests, stored, index, job, used, newest>>
  BY DEF Start
<1>2. PICK records \in {stored, [id \in Id |-> NoToolkit]} :
        /\ toolkits' = records
        /\ astray' = {id \in Id : stored[id] # records[id]}
        /\ reindex' = IF Indexed THEN BoxesOf(records) ELSE {}
  BY DEF Start
<1>3. records \in [Id -> Toolkit] /\ \A id \in Id : records[id] \in {stored[id], NoToolkit}
  BY <1>0, ToolkitType DEF TypeOK
<1>4. \A id \in Id : newest[id] = None
  BY <1>0, <1>1 DEF Carried
<1>5. TypeOK'
  <2>1. starts' \in 0..MaxStarts
    BY <1>0, <1>1, BoundAssumption DEF TypeOK
  <2>2. reindex' \subseteq Id \X Box
    BY <1>2 DEF BoxesOf
  <2> QED BY <1>0, <1>1, <1>2, <1>3, <2>1, <2>2 DEF TypeOK
<1>6. Carried' /\ StoreFollows'
  BY <1>1, <1>2, <1>4 DEF Carried, StoreFollows
<1>7. IndexFollows'
  BY <1>1, <1>2 DEF IndexFollows, Indexed, BoxesOf
<1>8. Fresh' /\ Loaded'
  BY <1>0, <1>1, <1>2, <1>3 DEF Fresh, Loaded
<1> QED BY <1>5, <1>6, <1>7, <1>8 DEF Inv

LEMMA ReindexKeeps ==
  ASSUME Inv, NEW p \in Id \X Box, Reindex(p)
  PROVE  Inv'
<1>0. TypeOK /\ Carried /\ StoreFollows /\ IndexFollows /\ Fresh /\ Loaded
  BY DEF Inv
<1>1. /\ reindex' = reindex \ {p}
      /\ UNCHANGED <<provider, phase, starts, requests, toolkits, stored, job, config, used, param,
                     newest, astray>>
  BY DEF Reindex, requestVars
<1>2. PICK ok \in BOOLEAN :
        /\ IndexToolbox(p[1], p[2], ok)
        /\ missed' = IF ok THEN missed ELSE missed \union {p}
  BY DEF Reindex
<1>3. /\ index \subseteq index' /\ index' \subseteq Id \X Box \X Tool
      /\ ok => Documents(p[1], p[2]) \subseteq index'
  BY <1>0, <1>2, IndexToolboxAdds DEF TypeOK
<1>4. TypeOK'
  BY <1>0, <1>1, <1>2, <1>3 DEF TypeOK
<1>5. Carried' /\ StoreFollows' /\ Fresh' /\ Loaded'
  BY <1>0, <1>1 DEF Carried, StoreFollows, Fresh, Loaded
<1>6. IndexFollows'
  <2> SUFFICES ASSUME Indexed', phase' # "down", NEW q \in BoxesOf(toolkits)'
               PROVE  \/ (Documents(q[1], q[2]) \subseteq index)'
                      \/ q \in missed' \/ q \in reindex'
                      \/ \E f \in Go : job'[f].kind = "index" /\ job'[f].id = q[1] /\ q[2] \in job'[f].todo
    BY DEF IndexFollows
  <2>1. \/ Documents(q[1], q[2]) \subseteq index \/ q \in missed \/ q \in reindex
        \/ \E f \in Go : job[f].kind = "index" /\ job[f].id = q[1] /\ q[2] \in job[f].todo
    BY <1>0, <1>1 DEF IndexFollows, Indexed, BoxesOf
  <2> QED BY <1>1, <1>2, <1>3, <2>1 DEF Documents
<1> QED BY <1>4, <1>5, <1>6 DEF Inv

LEMMA ServeKeeps ==
  ASSUME Inv, Serve
  PROVE  Inv'
<1> USE DEF Inv, Serve, startVars, requestVars, historyVars
<1>1. TypeOK'
  BY DEF TypeOK
<1>2. Carried' /\ StoreFollows' /\ Fresh' /\ Loaded'
  BY DEF Carried, StoreFollows, Fresh, Loaded
<1>3. IndexFollows'
  BY DEF IndexFollows, Indexed, BoxesOf, Documents
<1> QED BY <1>1, <1>2, <1>3

LEMMA EndKeeps ==
  ASSUME Inv, End
  PROVE  Inv'
<1>0. TypeOK /\ StoreFollows /\ Fresh
  BY DEF Inv
<1>1. /\ phase' = "down"
      /\ astray' = astray \union {id \in Id : newest[id] # None}
      /\ newest' = [id \in Id |-> None]
      /\ job' = [g \in Go |-> NoJob]
      /\ reindex' = {} /\ config' = {} /\ missed' = {}
      /\ UNCHANGED <<provider, starts, requests, toolkits, stored, index, used, param>>
  BY DEF End, requestVars
<1>2. NoJob \in Job /\ NoJob.kind = "idle"
  BY ToolkitType DEF NoJob, Job
<1>3. TypeOK'
  BY <1>0, <1>1, <1>2 DEF TypeOK, Job
<1>4. Carried' /\ StoreFollows' /\ IndexFollows' /\ Fresh' /\ Loaded'
  BY <1>0, <1>1, <1>2 DEF Carried, StoreFollows, IndexFollows, Fresh, Loaded
<1> QED BY <1>3, <1>4 DEF Inv

LEMMA GetKeeps ==
  ASSUME Inv, NEW id \in Id, GetToolkit(id)
  PROVE  Inv'
<1>1. /\ requests < MaxRequests /\ requests' = requests + 1 /\ param' = id
      /\ UNCHANGED <<provider, phase, starts, toolkits, stored, index, job, reindex, config, used,
                     newest, astray, missed>>
  BY DEF GetToolkit, Counted, startVars, historyVars
<1>2. TypeOK'
  BY <1>1, BoundAssumption DEF Inv, TypeOK
<1>3. Carried' /\ StoreFollows' /\ Fresh' /\ Loaded'
  BY <1>1 DEF Inv, Carried, StoreFollows, Fresh, Loaded
<1>4. IndexFollows'
  BY <1>1 DEF Inv, IndexFollows, Indexed, BoxesOf, Documents
<1> QED BY <1>2, <1>3, <1>4 DEF Inv

LEMMA NextKeeps == Inv /\ [Next]_vars => Inv'
<1> SUFFICES ASSUME Inv, [Next]_vars PROVE Inv'
  OBVIOUS
<1>1. ASSUME NEW g \in Go, NEW h \in Go, Request(g, h) PROVE Inv'
  BY <1>1, CreateKeeps, DeleteKeeps DEF Request
<1>2. ASSUME NEW g \in Go, Goroutine(g) PROVE Inv'
  BY <1>2, SaveKeeps, DeleteRecordKeeps, IndexNextKeeps, UnindexNextKeeps DEF Goroutine
<1>3. CASE UNCHANGED vars
  <2> USE <1>3 DEF Inv, vars, startVars, requestVars, historyVars
  <2>1. TypeOK' /\ Carried' /\ StoreFollows'
    BY DEF TypeOK, Carried, StoreFollows
  <2>2. IndexFollows' /\ Fresh' /\ Loaded'
    BY DEF IndexFollows, Indexed, BoxesOf, Documents, Fresh, Loaded
  <2> QED BY <2>1, <2>2
<1> QED
  BY <1>1, <1>2, <1>3, StartKeeps, ServeKeeps, EndKeeps, ReindexKeeps, GetKeeps, LoadKeeps DEF Next

LEMMA Invariant == Spec => []Inv
BY InitInv, NextKeeps, PTL DEF Spec

-----------------------------------------------------------------------------
(* The properties. *)

(* Typing, for every value of the constants: no toolkit of a client is without a name. *)
THEOREM Typing == Spec => []TypeOK
BY Invariant, PTL DEF Inv

(***************************************************************************)
(* A record that was written by the last change of its toolkit is what the *)
(* map has, in whatever order the goroutines that save and delete ran.     *)
(***************************************************************************)
THEOREM RecordsFollow == Spec => []StoreFollows
BY Invariant, PTL DEF Inv

(***************************************************************************)
(* A registered toolbox is in the index, or somebody is still to put it    *)
(* there, unless its call failed or a removal of the same toolbox came.    *)
(***************************************************************************)
THEOREM DocumentsFollow == Spec => []IndexFollows
BY Invariant, PTL DEF Inv

(* One start restores what was stored as it should be, and loads the whole configuration. *)
LEMMA StepRestores ==
  ASSUME Inv, Next
  PROVE  /\ phase = "down" /\ phase' = "starting" /\ astray' = {} =>
              \A id \in Id \ astray : toolkits'[id] = toolkits[id]
         /\ phase = "starting" /\ phase' = "serving" =>
              \A k \in Config : ToolkitOk(k) => \E id \in Id : toolkits[id].name = k.name
<1>1. ASSUME phase = "down", phase' = "starting", astray' = {}, NEW id \in Id \ astray
      PROVE  toolkits'[id] = toolkits[id]
  <2>1. Start
    BY <1>1 DEF Next, Serve, End, Reindex, GetToolkit, Goroutine, SaveToolkit, DeleteRecord, IndexNext,
                UnindexNext, Request, CreateToolkit, DeleteToolkit, LoadEntry
  <2>2. toolkits'[id] = stored[id]
    BY <1>1, <2>1 DEF Start
  <2>3. newest[id] = None
    BY <1>1 DEF Inv, Carried
  <2> QED BY <1>1, <2>2, <2>3 DEF Inv, StoreFollows
<1>2. ASSUME phase = "starting", phase' = "serving", NEW k \in Config, ToolkitOk(k)
      PROVE  \E id \in Id : toolkits[id].name = k.name
  <2>1. Serve
    BY <1>2 DEF Next, Start, End, Reindex, GetToolkit, Goroutine, SaveToolkit, DeleteRecord, IndexNext,
                UnindexNext, Request, CreateToolkit, DeleteToolkit, LoadEntry
  <2> QED BY <1>2, <2>1 DEF Serve, Inv, Loaded
<1> QED BY <1>1, <1>2

(***************************************************************************)
(* A start whose load succeeds restores every toolkit whose record was not *)
(* astray, and the server serves only with the whole configuration.        *)
(***************************************************************************)
THEOREM Restores == Spec => StartRestores
<1>1. Inv /\ [Next]_vars =>
        [/\ phase = "down" /\ phase' = "starting" /\ astray' = {} =>
              \A id \in Id \ astray : toolkits'[id] = toolkits[id]
         /\ phase = "starting" /\ phase' = "serving" =>
              \A k \in Config : ToolkitOk(k) => \E id \in Id : toolkits[id].name = k.name]_vars
  BY StepRestores
<1> QED BY <1>1, Invariant, PTL DEF Spec, StartRestores
=============================================================================
