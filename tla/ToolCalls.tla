------------------------------ MODULE ToolCalls -----------------------------
(***************************************************************************)
(* How a call finds its tool: call_tool of the MCP server                  *)
(* (internal/gateway/mcp/server.go), ExecuteTool of the HTTP API           *)
(* (internal/gateway/http/handlers.go), the semantic router                *)
(* (internal/router/semantic) with its two providers                       *)
(* (internal/router/providers), and the lookups of toolkit/manager.go.     *)
(*                                                                         *)
(* A call reads the registry several times and asks a language model in    *)
(* between; other requests register and unregister toolkits meanwhile. A   *)
(* text is the set of its words: one contains another if it has its words. *)
(***************************************************************************)
EXTENDS Naturals

CONSTANTS
  Caller,        \* requests to call a tool, one each
  Toolkit,       \* toolkits: sequences of toolboxes [name, tags, tools]
  Query,         \* questions in natural language
  Name,          \* names a client gives: of a tool, its id, or toolbox.tool
  Qualified,     \* the toolbox and the tool of the names that are written toolbox.tool
  Domain,        \* domains a model answers with
  Retries,       \* attempts at a provider: 3
  None

ASSUME RetriesAssumption == Retries \in Nat \ {0}
ASSUME QualifiedAssumption == DOMAIN Qualified \subseteq Name
ASSUME NoneAssumption == None \notin Query \union Name /\ None \notin Domain
ASSUME RequestAssumption == Query \intersect Name = {}

VARIABLES
  registered,    \* m.toolkits
  initialized,   \* of the MCP server: one flag for all clients
  fallback,      \* the second provider of the configuration
  useFallback,   \* whether the first one has failed once
  cache,         \* of the router: the domain of each query's intent
  call           \* per request, what its goroutine has in hand

sharedVars == <<registered, initialized, fallback, useFallback, cache>>
vars == <<sharedVars, call>>

(***************************************************************************)
(* A call: where it is, what it asks, the attempts at a provider and the   *)
(* last body that was read, the domain it looks for, the tools that were   *)
(* listed at the start of MatchTool, the tool that was found, the answer.  *)
(* History: the toolkits that were registered at some time of the call,    *)
(* and those that were registered all the time until a tool was found.     *)
(***************************************************************************)
NoCall ==
  [pc |-> "new", req |-> None, tries |-> 0, body |-> "none", intent |-> None, seen |-> {},
   tool |-> None, answer |-> "none", during |-> {}, throughout |-> {}]

-----------------------------------------------------------------------------
(* The lookups, each under the read lock of the manager. *)

Items(s) == {s[i] : i \in DOMAIN s}

(* ListToolboxes, as a set: the toolkits come in any order. *)
Toolboxes(tks) == UNION {Items(tk) : tk \in tks}
(* ListAllTools *)
AllTools(tks) == UNION {Items(tb.tools) : tb \in Toolboxes(tks)}
ASSUME ToolAssumption == None \notin AllTools(Toolkit)

(* GetTool *)
ById(tks, n) == {t \in AllTools(tks) : t.id = n}
(* GetToolByName: it splits the name at its dot, and fails without one. *)
ByName(tks, n) ==
  IF n \notin DOMAIN Qualified THEN {}
  ELSE UNION {{t \in Items(tb.tools) : t.name = Qualified[n].tool} :
              tb \in {b \in Toolboxes(tks) : b.name = Qualified[n].box}}
(* The short name, for clients that do not qualify it. *)
ByShortName(tks, n) == {t \in AllTools(tks) : t.name = n}
(* SearchTools without tags. *)
SearchTools(tks, d) == {t \in AllTools(tks) : d \subseteq t.words \/ d \subseteq t.text}

Contains(x, y) == y \subseteq x

(* MatchTool, 1.: the first tool of a toolbox whose name or tag fits the domain. *)
FitsToolbox(tb, d) ==
  \/ Contains(tb.words, d) \/ Contains(d, tb.words)
  \/ \E tag \in tb.tags : Contains(d, tag)
ByToolbox(tks, d) ==
  {tb.tools[1] : tb \in {b \in Toolboxes(tks) : 1 \in DOMAIN b.tools /\ FitsToolbox(b, d)}}
(* 2.: a tool whose name or description fits. *)
ByTool(ts, d) ==
  {t \in ts : Contains(t.words, d) \/ Contains(d, t.words) \/ Contains(t.text, d)}

-----------------------------------------------------------------------------
Init ==
  /\ registered \in SUBSET Toolkit
  /\ initialized = FALSE
  /\ fallback \in {"ollama", "openrouter"} /\ useFallback = FALSE
  /\ cache = [q \in Query |-> None]
  /\ call = [c \in Caller |-> NoCall]

At(c, l) == call[c].pc = l
Now(c, r) == call' = [call EXCEPT ![c] = r]
Goto(c, l) == Now(c, [call[c] EXCEPT !.pc = l])
(* The answer; what the call had in hand is gone. *)
Answer(c, a) == Now(c, [NoCall EXCEPT !.pc = "answered", !.answer = a])
Found(c, t) == Now(c, [call[c] EXCEPT !.pc = "call", !.tool = t, !.seen = {}, !.throughout = {}])
InCall(c) == call[c].pc \notin {"new", "answered"}

-----------------------------------------------------------------------------
(* The registry changes under the calls: see ToolkitRegistry. *)
Change(tks) ==
  /\ registered' = tks
  /\ call' = [c \in Caller |->
                IF InCall(c)
                THEN [call[c] EXCEPT !.during = @ \union tks, !.throughout = @ \intersect tks]
                ELSE call[c]]
  /\ UNCHANGED <<initialized, fallback, useFallback, cache>>

Register(tk) == tk \notin registered /\ Change(registered \union {tk})
Unregister(tk) == tk \in registered /\ Change(registered \ {tk})

(* handleInitialize, by any client. *)
Initialize ==
  /\ ~initialized /\ initialized' = TRUE
  /\ UNCHANGED <<registered, fallback, useFallback, cache, call>>

-----------------------------------------------------------------------------
(* The request comes in. *)

Begin(c, r, l) ==
  Now(c, [NoCall EXCEPT !.pc = l, !.req = r, !.during = registered, !.throughout = registered])

(* handleCallTool before anybody called initialize. *)
CallTooEarly(c) ==
  /\ At(c, "new") /\ ~initialized
  /\ Answer(c, "error")
  /\ UNCHANGED sharedVars

(* With a query it is a smart call: the router looks in its cache first. *)
CallQuery(c, q) ==
  /\ At(c, "new") /\ initialized
  /\ Begin(c, q, "cache")
  /\ UNCHANGED sharedVars

(* With a name it is a direct call; with neither it is refused. *)
CallName(c, n) ==
  /\ At(c, "new") /\ initialized
  /\ Begin(c, n, "name")
  /\ UNCHANGED sharedVars

CallNothing(c) ==
  /\ At(c, "new") /\ initialized
  /\ Answer(c, "error")
  /\ UNCHANGED sharedVars

(* POST tools/:id/execute looks for the id first, and never for the short name. *)
ExecuteTool(c, n) ==
  /\ At(c, "new")
  /\ Begin(c, n, "restid")
  /\ UNCHANGED sharedVars

-----------------------------------------------------------------------------
(* The direct call: three lookups, with the lock given back in between. *)

(* One lookup: any tool it finds, or on to the next one. *)
Lookup(c, l, ts, next) ==
  /\ At(c, l)
  /\ \/ \E t \in ts : Found(c, t)
     \/ ts = {} /\ next = "notfound" /\ Answer(c, "notfound")
     \/ ts = {} /\ next # "notfound" /\ Goto(c, next)
  /\ UNCHANGED sharedVars

(* Mutant: a name that is not qualified is not looked up any further. *)
FindByNameOnly(c) ==
  Lookup(c, "name", ByName(registered, call[c].req),
         IF call[c].req \in DOMAIN Qualified THEN "id" ELSE "notfound")

FindByName(c) == Lookup(c, "name", ByName(registered, call[c].req), "id")
FindById(c) == Lookup(c, "id", ById(registered, call[c].req), "short")
FindByShortName(c) == Lookup(c, "short", ByShortName(registered, call[c].req), "notfound")

RestById(c) == Lookup(c, "restid", ById(registered, call[c].req), "restname")
RestByName(c) == Lookup(c, "restname", ByName(registered, call[c].req), "notfound")

-----------------------------------------------------------------------------
(* The intent: the cache, the providers. *)

ParseIntent(c) ==
  LET d == cache[call[c].req]
  IN  /\ At(c, "cache")
      /\ Now(c, [call[c] EXCEPT !.intent = d, !.pc = IF d # None THEN "list" ELSE "provider"])
      /\ UNCHANGED sharedVars

(* GenerateIntentWithContext of the fallback provider: the flag, read without a lock. *)
ChooseProvider(c) ==
  /\ At(c, "provider")
  /\ Goto(c, IF useFallback THEN fallback ELSE "cerebras")
  /\ UNCHANGED sharedVars

(* An intent was read: it goes into the cache, for good. *)
Parsed(c, d) ==
  /\ Now(c, [call[c] EXCEPT !.intent = d, !.pc = "list", !.body = "none", !.tries = 0])
  /\ cache' = [cache EXCEPT ![call[c].req] = d]
  /\ UNCHANGED <<registered, initialized, fallback, useFallback>>

(* The first provider failed: it is never asked again. The second one failed too: no intent. *)
ProviderFails(c) ==
  /\ \/ /\ At(c, "cerebras")
        /\ useFallback' = TRUE
        /\ Now(c, [call[c] EXCEPT !.pc = fallback, !.body = "none", !.tries = 0])
     \/ ~At(c, "cerebras") /\ Answer(c, "error") /\ UNCHANGED useFallback
  /\ UNCHANGED <<registered, initialized, fallback, cache>>

(* Cerebras, or OpenRouter with the same code; it has attempts left. *)
AtCerebras(c) == call[c].pc \in {"cerebras", "openrouter"}
(* Mutant: one attempt more. *)
TryingOnceMore(c) == AtCerebras(c) /\ call[c].tries <= Retries

Trying(c) == AtCerebras(c) /\ call[c].tries < Retries

(* Mutant: an attempt that fails is not counted. *)
CerebrasForever(c) ==
  /\ Trying(c)
  /\ \E b \in {call[c].body, "useless", "intent"} : Now(c, [call[c] EXCEPT !.body = b])
  /\ UNCHANGED sharedVars

(* An attempt that fails in the network, or with a server error and its body. *)
CerebrasRetry(c) ==
  /\ Trying(c)
  /\ \E b \in {call[c].body, "useless", "intent"} :
       Now(c, [call[c] EXCEPT !.tries = @ + 1, !.body = b])
  /\ UNCHANGED sharedVars

(* An attempt that is refused, or whose body cannot be read: no more attempts. *)
CerebrasRefused(c) == Trying(c) /\ ProviderFails(c)

(***************************************************************************)
(* The answer is parsed: that of the attempt that succeeded, or after the  *)
(* last attempt whatever body was read last, be it of a server error.      *)
(***************************************************************************)
CerebrasParse(c) ==
  /\ AtCerebras(c)
  /\ \E b \in IF Trying(c) THEN {"useless", "intent"} ELSE {call[c].body} :
       \/ b = "intent" /\ \E d \in Domain : Parsed(c, d)
       \/ b # "intent" /\ ProviderFails(c)

(* generateWithRetry: one attempt at Ollama that fails in whatever way. *)
OllamaRetry(c) ==
  /\ At(c, "ollama")
  /\ \/ /\ call[c].tries + 1 < Retries
        /\ Now(c, [call[c] EXCEPT !.tries = @ + 1])
        /\ UNCHANGED sharedVars
     \/ call[c].tries + 1 = Retries /\ ProviderFails(c)

OllamaParse(c) == At(c, "ollama") /\ \E d \in Domain : Parsed(c, d)

(* A closing brace before the opening one: the slice of the text panics. *)
OllamaPanic(c) ==
  /\ At(c, "ollama")
  /\ Answer(c, "panic")
  /\ UNCHANGED sharedVars

-----------------------------------------------------------------------------
(* MatchTool: it reads the registry up to three times. *)

(* Mutant: it takes the tools from a list in which what is unregistered stays. *)
MatchStale(c) ==
  /\ At(c, "list")
  /\ Now(c, [call[c] EXCEPT !.seen = AllTools(Toolkit), !.pc = "match"])
  /\ UNCHANGED sharedVars

MatchList(c) ==
  LET ts == AllTools(registered)
  IN  /\ At(c, "list")
      /\ \/ ts = {} /\ Answer(c, "notfound")
         \/ ts # {} /\ Now(c, [call[c] EXCEPT !.seen = ts, !.pc = "match"])
      /\ UNCHANGED sharedVars

(* An intent without a domain matches nothing; toolboxes come first, then the tools listed before. *)
MatchTool(c) ==
  LET d == call[c].intent
      boxed == ByToolbox(registered, d)
      listed == ByTool(call[c].seen, d)
  IN  /\ At(c, "match")
      /\ \/ d = {} /\ Answer(c, "notfound")
         \/ d # {} /\ \E t \in boxed : Found(c, t)
         \/ d # {} /\ boxed = {} /\ \E t \in listed : Found(c, t)
         \/ d # {} /\ boxed = {} /\ listed = {} /\ Goto(c, "search")
      /\ UNCHANGED sharedVars

MatchSearch(c) == Lookup(c, "search", SearchTools(registered, call[c].intent), "notfound")

-----------------------------------------------------------------------------
(* The arguments of a smart call, and the call itself. *)

Extracts(c) == At(c, "call") /\ call[c].req \in Query /\ call[c].tool.schema

(* ExtractParameters asks one provider once, then the other; without either the call goes on. *)
Extract(c) ==
  /\ Extracts(c)
  /\ Goto(c, "execute")
  /\ UNCHANGED sharedVars

(* Either provider slices the text as it is. *)
ExtractPanic(c) ==
  /\ Extracts(c)
  /\ Answer(c, "panic")
  /\ UNCHANGED sharedVars

(* Synchronously the executor's result or error. *)
ExecuteSync(c) ==
  /\ At(c, "execute") \/ (At(c, "call") /\ ~Extracts(c))
  /\ \E a \in {"result", "error"} : Answer(c, a)
  /\ UNCHANGED sharedVars

(* With async, which only the MCP server knows: the id of a job, or no job. *)
ExecuteAsync(c) ==
  /\ At(c, "execute") \/ (At(c, "call") /\ ~Extracts(c))
  /\ \E a \in {"job", "error"} : Answer(c, a)
  /\ UNCHANGED sharedVars

-----------------------------------------------------------------------------
Arrive(c) ==
  \/ CallTooEarly(c) \/ CallNothing(c)
  \/ \E q \in Query : CallQuery(c, q)
  \/ \E n \in Name : CallName(c, n) \/ ExecuteTool(c, n)

Step(c) ==
  \/ FindByName(c) \/ FindById(c) \/ FindByShortName(c)
  \/ RestById(c) \/ RestByName(c)
  \/ ParseIntent(c) \/ ChooseProvider(c)
  \/ CerebrasRetry(c) \/ CerebrasRefused(c) \/ CerebrasParse(c)
  \/ OllamaRetry(c) \/ OllamaParse(c) \/ OllamaPanic(c)
  \/ MatchList(c) \/ MatchTool(c) \/ MatchSearch(c)
  \/ Extract(c) \/ ExtractPanic(c) \/ ExecuteSync(c) \/ ExecuteAsync(c)

Next ==
  \/ \E tk \in Toolkit : Register(tk) \/ Unregister(tk)
  \/ Initialize
  \/ \E c \in Caller : Arrive(c) \/ Step(c)

Spec == Init /\ [][Next]_vars

(* A request's goroutine runs: the clients of both providers and the executor have timeouts. *)
Fairness == \A c \in Caller : WF_vars(Step(c))

FairSpec == Spec /\ Fairness

-----------------------------------------------------------------------------
(* Properties. *)

PC == {"new", "name", "id", "short", "restid", "restname", "cache", "provider", "cerebras",
       "openrouter", "ollama", "list", "match", "search", "call", "execute", "answered"}
Answers == {"none", "error", "notfound", "panic", "result", "job"}
Calls ==
  [pc : PC, req : Query \union Name \union {None}, tries : 0..Retries,
   body : {"none", "useless", "intent"}, intent : Domain \union {None},
   seen : SUBSET AllTools(Toolkit), tool : AllTools(Toolkit) \union {None},
   answer : Answers, during : SUBSET Toolkit, throughout : SUBSET Toolkit]

(* Types: no more attempts are made than there are retries, and what is called is a tool. *)
TypeOK ==
  /\ registered \subseteq Toolkit
  /\ initialized \in BOOLEAN /\ useFallback \in BOOLEAN
  /\ fallback \in {"ollama", "openrouter"}
  /\ cache \in [Query -> Domain \union {None}]
  /\ call \in [Caller -> Calls]
  /\ \A c \in Caller :
       /\ call[c].pc \in {"call", "execute"} <=> call[c].tool # None
       /\ call[c].pc \in {"cache", "provider", "cerebras", "openrouter", "ollama"} =>
            call[c].req \in Query
       /\ call[c].pc \in {"list", "match", "search"} => call[c].intent \in Domain

(***************************************************************************)
(* The tool a call runs was registered at some time during the call,       *)
(* however old the cached intent is and whatever was unregistered between  *)
(* the reads of the registry.                                              *)
(***************************************************************************)
ResolvesDuringCall ==
  \A c \in Caller : call[c].tool # None => call[c].tool \in AllTools(call[c].during)

(* The tools among those of the toolkits that a call means. *)
Meant(k, tks) ==
  IF k.req \in Query
  THEN IF k.intent \in {None, {}} THEN {}
       ELSE ByToolbox(tks, k.intent) \union ByTool(AllTools(tks), k.intent)
  ELSE ById(tks, k.req) \union ByName(tks, k.req)

(***************************************************************************)
(* A tool that is registered all the time of a call that means it, by its  *)
(* id, by toolbox and name or by the domain of its intent, is not missed,  *)
(* although the lookups are separate reads of a registry that changes.     *)
(***************************************************************************)
PresentIsFound ==
  [][\A c \in Caller :
       call[c].answer # "notfound" /\ call'[c].answer = "notfound" =>
         Meant(call[c], call[c].throughout) = {}]_vars

(* Every call is answered, whatever the providers do and the registry becomes. *)
EveryCallIsAnswered ==
  \A c \in Caller : InCall(c) ~> At(c, "answered")
=============================================================================
