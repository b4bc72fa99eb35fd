--------------------------- MODULE ToolkitRegistry --------------------------
(***************************************************************************)
(* The registry of toolkits: internal/toolkit (manager.go, loader.go), the *)
(* records it keeps in BadgerDB (internal/storage/badger/db.go), the index *)
(* it keeps in Meilisearch or Typesense, the handlers that change it       *)
(* (internal/gateway/http/handlers.go) and the start and end of the        *)
(* process (cmd/saltare/main.go).                                          *)
(*                                                                         *)
(* The map in memory is changed under a lock; the record and the index     *)
(* follow in goroutines that nobody orders, repeats or waits for.          *)
(***************************************************************************)
EXTENDS Naturals, FiniteSets

CONSTANTS
  Id, Box, Tool,  \* ids of toolkits and toolboxes, and the places of a toolbox's tools
  Name,           \* names a client gives to toolkits; "" among them
  Config,         \* the toolkits of the configuration file
  Go,             \* goroutines of the manager: a bound
  MaxStarts,      \* a bound on the starts of the process
  MaxRequests,    \* a bound on the requests
  None

ASSUME BoundAssumption == MaxStarts \in Nat /\ MaxRequests \in Nat
ASSUME NoneAssumption == None \notin Id \union Box \union Name \union Go
ASSUME ConfigAssumption == \A k \in Config : k.name # None

VARIABLES
  provider,     \* the search engine of the configuration
  phase,        \* of the process: "down", "starting", "serving"
  starts, requests,     \* how many there were: they only bound the model
  toolkits,     \* m.toolkits
  stored,       \* the records "toolkit:<id>" in BadgerDB
  index,        \* the documents in the search engine: <<toolkit, toolbox, tool>>
  job,          \* what each goroutine has to do
  reindex,      \* toolboxes the start still has to index
  config,       \* entries of the configuration the start still has to load
  used,         \* ids that exist or existed: a new uuid is none of them
  param,        \* the id in the request buffer the framework uses again
  newest,       \* history: the goroutine of the last change of an id, until it ends
  astray,       \* history: ids whose record some failure keeps from their last change
  missed        \* history: toolboxes that a failure or a late removal keeps from the index

requestVars == <<used, param>>
startVars == <<reindex, config>>
historyVars == <<newest, astray, missed>>
vars == <<provider, phase, starts, requests, toolkits, stored, index, job, startVars,
          requestVars, historyVars>>

NoToolkit == [name |-> None, boxes |-> {}]
NoJob == [kind |-> "idle", id |-> None, tk |-> NoToolkit, todo |-> {}]
Indexed == provider # "none"
Storing(kind, id, tk) == [kind |-> kind, id |-> id, tk |-> tk, todo |-> {}]
(* A loop over toolboxes, or over what is left of them. *)
Loop(kind, id, todo) ==
  IF Indexed /\ todo # {} THEN [kind |-> kind, id |-> id, tk |-> NoToolkit, todo |-> todo] ELSE NoJob
Exists(m, id) == m[id] # NoToolkit
Documents(id, b) == {<<id, b, t>> : t \in Tool}
BoxesOf(m) == {p \in Id \X Box : p[2] \in m[p[1]].boxes}

Init ==
  /\ provider \in {"none", "meilisearch", "typesense"}
  /\ phase = "down" /\ starts = 0 /\ requests = 0
  /\ toolkits = [id \in Id |-> NoToolkit]
  /\ stored = [id \in Id |-> NoToolkit]
  /\ index = {}
  /\ job = [g \in Go |-> NoJob]
  /\ reindex = {} /\ config = {}
  /\ used = {} /\ param = None
  /\ newest = [id \in Id |-> None]
  /\ astray = {} /\ missed = {}

-----------------------------------------------------------------------------
(* The map, and the goroutines a change of it starts. *)

(* Mutant: the record of a toolkit that exists is not written again. *)
RegisterOnce(id, tk, g, h) ==
  /\ job[g] = NoJob /\ job[h] = NoJob
  /\ Indexed <=> g # h
  /\ toolkits' = [toolkits EXCEPT ![id] = tk]
  /\ job' = [job EXCEPT
       ![h] = Loop("index", id, tk.boxes),
       ![g] = IF Exists(toolkits, id) THEN NoJob ELSE Storing("save", id, tk)]
  /\ used' = used \union {id} \union tk.boxes
  /\ newest' = IF Exists(toolkits, id) THEN newest ELSE [newest EXCEPT ![id] = g]
  /\ UNCHANGED <<provider, starts, stored, index, reindex, astray, missed>>

(* RegisterToolkit: it overwrites; g saves, h indexes if there is an index. *)
RegisterToolkit(id, tk, g, h) ==
  /\ job[g] = NoJob /\ job[h] = NoJob
  /\ Indexed <=> g # h
  /\ toolkits' = [toolkits EXCEPT ![id] = tk]
  /\ job' = [job EXCEPT
       ![h] = Loop("index", id, tk.boxes), ![g] = Storing("save", id, tk)]
  /\ used' = used \union {id} \union tk.boxes
  /\ newest' = [newest EXCEPT ![id] = g]
  /\ UNCHANGED <<provider, starts, stored, index, reindex, astray, missed>>

(* UnregisterToolkit of a toolkit that exists. *)
UnregisterToolkit(id, g, h) ==
  /\ Exists(toolkits, id)
  /\ job[g] = NoJob /\ job[h] = NoJob
  /\ Indexed <=> g # h
  /\ toolkits' = [toolkits EXCEPT ![id] = NoToolkit]
  /\ job' = [job EXCEPT
       ![h] = Loop("unindex", id, toolkits[id].boxes), ![g] = Storing("delete", id, NoToolkit)]
  /\ newest' = [newest EXCEPT ![id] = g]
  /\ UNCHANGED <<provider, starts, stored, index, reindex, used, astray, missed>>

-----------------------------------------------------------------------------
(* The requests. *)

Counted == requests < MaxRequests /\ requests' = requests + 1

(* Mutant: the name is not required. *)
CreateUnnamed(id, name, boxes, g, h) ==
  /\ phase = "serving"
  /\ RegisterToolkit(id, [name |-> name, boxes |-> boxes], g, h)
  /\ Counted /\ param' = None
  /\ UNCHANGED <<phase, config>>

(* POST toolkits: the client may give the ids, of toolkits and toolboxes that exist too. *)
CreateToolkit(id, name, boxes, g, h) ==
  /\ phase = "serving" /\ name # ""
  /\ RegisterToolkit(id, [name |-> name, boxes |-> boxes], g, h)
  /\ Counted /\ param' = None
  /\ UNCHANGED <<phase, config>>

(***************************************************************************)
(* DELETE toolkits/:id. The id is a string in the request buffer, which    *)
(* the framework fills again with the next request; the goroutine that     *)
(* deletes the record reads it when it runs.                               *)
(***************************************************************************)
DeleteToolkit(id, g, h) ==
  /\ phase = "serving"
  /\ UnregisterToolkit(id, g, h)
  /\ Counted /\ param' = id
  /\ UNCHANGED <<phase, config>>

(* GET toolkits/:id, and a DELETE that is answered with 404: nothing but the buffer changes. *)
GetToolkit(id) ==
  /\ phase = "serving"
  /\ Counted /\ param' = id
  /\ UNCHANGED <<provider, phase, starts, toolkits, stored, index, job, startVars, used, historyVars>>

-----------------------------------------------------------------------------
(* The goroutines: the record. *)

(* The last change of id has run, as it should (good) or not. *)
Settle(id, g, good) ==
  /\ newest' = IF newest[id] = g THEN [newest EXCEPT ![id] = None] ELSE newest
  /\ astray' =
       CASE newest[id] = g /\ good -> astray \ {id}
         [] newest[id] = g /\ ~good -> astray \union {id}
         [] newest[id] = None -> astray \union {id}
         [] OTHER -> astray

(* SaveToolkit: one transaction, or an error that is logged. *)
SaveToolkit(g) ==
  LET id == job[g].id
  IN  /\ job[g].kind = "save"
      /\ \/ stored' = [stored EXCEPT ![id] = job[g].tk] /\ Settle(id, g, TRUE)
         \/ UNCHANGED stored /\ Settle(id, g, FALSE)
      /\ job' = [job EXCEPT ![g] = NoJob]
      /\ UNCHANGED <<provider, phase, starts, requests, toolkits, index, startVars, requestVars, missed>>

(***************************************************************************)
(* DeleteToolkit of BadgerDB, with the key its goroutine finds: the id of  *)
(* its own request, or what a later request put in the buffer. A key       *)
(* without a record is no error.                                           *)
(***************************************************************************)
DeleteRecord(g) ==
  LET id == job[g].id
  IN  /\ job[g].kind = "delete"
      /\ \/ stored' = [stored EXCEPT ![id] = NoToolkit] /\ Settle(id, g, TRUE)
         \/ UNCHANGED stored /\ Settle(id, g, FALSE)
         \/ /\ param \in Id \ {id}
            /\ stored' = [stored EXCEPT ![param] = NoToolkit]
            /\ newest' = IF newest[id] = g THEN [newest EXCEPT ![id] = None] ELSE newest
            /\ astray' = astray \union {i \in {id, param} : newest[i] \in {g, None}}
      /\ job' = [job EXCEPT ![g] = NoJob]
      /\ UNCHANGED <<provider, phase, starts, requests, toolkits, index, startVars, requestVars, missed>>

-----------------------------------------------------------------------------
(* The goroutines: the index. *)

(* Meilisearch takes the toolbox's documents in one call. *)
AddDocuments(id, b, ok) ==
  \/ ok /\ index' = index \union Documents(id, b)
  \/ ~ok /\ UNCHANGED index

(* Typesense takes them one by one: the first error ends it. *)
UpsertEach(id, b, ok) ==
  \E done \in SUBSET Tool : /\ ok <=> done = Tool
                            /\ index' = index \union {<<id, b, t>> : t \in done}

IndexToolbox(id, b, ok) ==
  \/ provider = "meilisearch" /\ AddDocuments(id, b, ok)
  \/ provider = "typesense" /\ UpsertEach(id, b, ok)

(* Mutant: the first toolbox that is not indexed ends the goroutine. *)
IndexUntilError(g, b) ==
  /\ job[g].kind = "index" /\ b \in job[g].todo
  /\ \E ok \in BOOLEAN :
       /\ IndexToolbox(job[g].id, b, ok)
       /\ missed' = IF ok THEN missed \ {<<job[g].id, b>>} ELSE missed \union {<<job[g].id, b>>}
       /\ job' = [job EXCEPT ![g] = IF ok THEN Loop("index", job[g].id, job[g].todo \ {b}) ELSE NoJob]
  /\ UNCHANGED <<provider, phase, starts, requests, toolkits, stored, startVars, requestVars, newest, astray>>

(* One iteration of the goroutine that indexes a toolkit: it goes on after an error. *)
IndexNext(g, b) ==
  /\ job[g].kind = "index" /\ b \in job[g].todo
  /\ \E ok \in BOOLEAN :
       /\ IndexToolbox(job[g].id, b, ok)
       /\ missed' = IF ok THEN missed \ {<<job[g].id, b>>} ELSE missed \union {<<job[g].id, b>>}
  /\ job' = [job EXCEPT ![g] = Loop("index", job[g].id, job[g].todo \ {b})]
  /\ UNCHANGED <<provider, phase, starts, requests, toolkits, stored, startVars, requestVars, newest, astray>>

(* Every document with this toolbox, whatever toolkit it is from. *)
DeleteToolbox(b, ok) ==
  /\ index' = IF ok THEN {d \in index : d[2] # b} ELSE index
  /\ missed' = IF ok THEN missed \union {p \in Id \X Box : p[2] = b /\ b \in toolkits[p[1]].boxes}
                     ELSE missed

UnindexNext(g, b) ==
  /\ job[g].kind = "unindex" /\ b \in job[g].todo
  /\ \E ok \in BOOLEAN : DeleteToolbox(b, ok)
  /\ job' = [job EXCEPT ![g] = Loop("unindex", job[g].id, job[g].todo \ {b})]
  /\ UNCHANGED <<provider, phase, starts, requests, toolkits, stored, startVars, requestVars, newest, astray>>

-----------------------------------------------------------------------------
(* The start of the process. *)

(* ListToolkits: every record, or an error as soon as one cannot be read. *)
ListToolkits(records) ==
  \/ records = stored
  \/ records = [id \in Id |-> NoToolkit]

(***************************************************************************)
(* A new manager, LoadFromStorage, the search engine. A load that fails    *)
(* leaves the map empty and the start goes on.                             *)
(***************************************************************************)
Start ==
  /\ phase = "down" /\ starts < MaxStarts
  /\ phase' = "starting" /\ starts' = starts + 1 /\ UNCHANGED requests
  /\ \E records \in {stored, [id \in Id |-> NoToolkit]} :
       /\ ListToolkits(records)
       /\ toolkits' = records
       /\ astray' = {id \in Id : stored[id] # records[id]}
       /\ reindex' = IF Indexed THEN BoxesOf(records) ELSE {}
  /\ config' = Config
  /\ missed' = {} /\ param' = None
  /\ UNCHANGED <<provider, stored, index, job, used, newest>>

(* The toolboxes that were loaded are indexed by the start itself. *)
Reindex(p) ==
  /\ phase = "starting" /\ p \in reindex
  /\ \E ok \in BOOLEAN :
       /\ IndexToolbox(p[1], p[2], ok)
       /\ missed' = IF ok THEN missed ELSE missed \union {p}
  /\ reindex' = reindex \ {p}
  /\ UNCHANGED <<provider, phase, starts, requests, toolkits, stored, job, config, requestVars, newest, astray>>

(* convertToTool; the scheme of mcp_server is all that is looked at. *)
ToolOk(t) ==
  /\ t.name # ""
  /\ IF t.transport = "stdio" THEN t.command # ""
     ELSE t.server \in {"stdio", "http", "https"}

(* convertToToolbox *)
ToolboxOk(b) == b.name # "" /\ b.version # "" /\ \A t \in b.tools : ToolOk(t)

(* convertToToolkit: one toolbox that is wrong drops the toolkit. *)
ToolkitOk(k) == \A b \in k.toolboxes : ToolboxOk(b)

(* Mutant: the first entry that is wrong ends the load. *)
LoadUntilError(k, g, h) ==
  /\ phase = "starting" /\ reindex = {} /\ k \in config
  /\ \/ /\ ToolkitOk(k)
        /\ \E id \in Id \ used, boxes \in SUBSET (Box \ used) :
             /\ Cardinality(boxes) = Cardinality(k.toolboxes)
             /\ RegisterToolkit(id, [name |-> k.name, boxes |-> boxes], g, h)
        /\ config' = config \ {k}
     \/ /\ ~ToolkitOk(k)
        /\ config' = {}
        /\ UNCHANGED <<provider, starts, toolkits, stored, index, job, reindex, used, historyVars>>
  /\ UNCHANGED <<phase, requests, param>>

(* Loader.Load, one entry: it has no id, so it is registered as new at every start. *)
LoadEntry(k, g, h) ==
  /\ phase = "starting" /\ reindex = {} /\ k \in config
  /\ \/ /\ ToolkitOk(k)
        /\ \E id \in Id \ used, boxes \in SUBSET (Box \ used) :
             /\ Cardinality(boxes) = Cardinality(k.toolboxes)
             /\ RegisterToolkit(id, [name |-> k.name, boxes |-> boxes], g, h)
     \/ /\ ~ToolkitOk(k)
        /\ UNCHANGED <<provider, starts, toolkits, stored, index, job, reindex, used, historyVars>>
  /\ config' = config \ {k}
  /\ UNCHANGED <<phase, requests, param>>

Serve ==
  /\ phase = "starting" /\ reindex = {} /\ config = {}
  /\ phase' = "serving"
  /\ UNCHANGED <<provider, starts, requests, toolkits, stored, index, job, startVars, requestVars, historyVars>>

(***************************************************************************)
(* A crash, or the end of main: the database is closed and the process     *)
(* ends whatever the manager's goroutines still have to do. What was in    *)
(* memory stays in toolkits until the next start, as history.              *)
(***************************************************************************)
End ==
  /\ phase # "down"
  /\ phase' = "down"
  /\ astray' = astray \union {id \in Id : newest[id] # None}
  /\ newest' = [id \in Id |-> None]
  /\ job' = [g \in Go |-> NoJob]
  /\ reindex' = {} /\ config' = {}
  /\ missed' = {}
  /\ UNCHANGED <<provider, starts, requests, toolkits, stored, index, requestVars>>

-----------------------------------------------------------------------------
Request(g, h) ==
  \E id \in Id :
    \/ \E name \in Name, boxes \in SUBSET Box : CreateToolkit(id, name, boxes, g, h)
    \/ DeleteToolkit(id, g, h)

Goroutine(g) ==
  \/ SaveToolkit(g) \/ DeleteRecord(g)
  \/ \E b \in Box : IndexNext(g, b) \/ UnindexNext(g, b)

Next ==
  \/ Start \/ Serve \/ End
  \/ \E p \in Id \X Box : Reindex(p)
  \/ \E id \in Id : GetToolkit(id)
  \/ \E g \in Go : Goroutine(g)
  \/ \E g, h \in Go : Request(g, h) \/ \E k \in Config : LoadEntry(k, g, h)

Spec == Init /\ [][Next]_vars

-----------------------------------------------------------------------------
(* Properties. *)

Toolkit ==
  [name : (Name \ {""}) \union {k.name : k \in Config}, boxes : SUBSET Box] \union {NoToolkit}

(* Types: among them, that no toolkit of a client is without a name. *)
TypeOK ==
  /\ provider \in {"none", "meilisearch", "typesense"}
  /\ phase \in {"down", "starting", "serving"}
  /\ starts \in 0..MaxStarts /\ requests \in 0..MaxRequests
  /\ toolkits \in [Id -> Toolkit] /\ stored \in [Id -> Toolkit]
  /\ index \subseteq Id \X Box \X Tool
  /\ job \in [Go -> [kind : {"idle", "save", "delete", "index", "unindex"},
                     id : Id \union {None}, tk : Toolkit, todo : SUBSET Box]]
  /\ \A g \in Go : job[g].kind \in {"save", "delete", "index"} => job[g].id \in Id
  /\ reindex \subseteq Id \X Box /\ config \subseteq Config
  /\ used \subseteq Id \union Box /\ param \in Id \union {None}
  /\ newest \in [Id -> Go \union {None}]
  /\ astray \subseteq Id /\ missed \subseteq Id \X Box

(***************************************************************************)
(* Whatever the goroutines' order, the record of a toolkit is what the     *)
(* last change of it left, once that change has been written: only a       *)
(* failed write, an end of the process before the write, an older write    *)
(* that runs after it or a removal with another request's id (astray)      *)
(* keeps the two apart.                                                    *)
(***************************************************************************)
StoreFollows ==
  \A id \in Id : newest[id] = None /\ id \notin astray => stored[id] = toolkits[id]

(***************************************************************************)
(* A toolbox of a registered toolkit is in the index, or the start or a    *)
(* goroutine is still to put it there, unless the call failed or a removal *)
(* of the same toolbox came later (missed).                                *)
(***************************************************************************)
IndexFollows ==
  Indexed /\ phase # "down" =>
    \A p \in BoxesOf(toolkits) :
      \/ Documents(p[1], p[2]) \subseteq index
      \/ p \in missed \/ p \in reindex
      \/ \E g \in Go : job[g].kind = "index" /\ job[g].id = p[1] /\ p[2] \in job[g].todo

(***************************************************************************)
(* A start that can read its records restores every toolkit whose record   *)
(* was not astray, and the server only serves when every toolkit of the    *)
(* configuration that is well formed is registered, whatever entries are   *)
(* not.                                                                    *)
(***************************************************************************)
StartRestores ==
  [][/\ phase = "down" /\ phase' = "starting" /\ astray' = {} =>
          \A id \in Id \ astray : toolkits'[id] = toolkits[id]
     /\ phase = "starting" /\ phase' = "serving" =>
          \A k \in Config : ToolkitOk(k) => \E id \in Id : toolkits[id].name = k.name]_vars
=============================================================================
