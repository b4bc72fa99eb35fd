--------------------------- MODULE ToolCallsProofs ---------------------------
(***************************************************************************)
(* ToolCalls for every registry, number of callers, queries, names and     *)
(* retries. One invariant per call, CallInv: besides its types it says     *)
(* what the call has learnt from its reads of the registry so far. That is *)
(* what PresentIsFound rests on: a lookup that found nothing found nothing *)
(* among the toolkits that are there all the time, and these only become   *)
(* fewer.                                                                  *)
(***************************************************************************)
EXTENDS ToolCalls, TLAPS

Direct == {"name", "id", "short", "restid", "restname"}
Asking == {"cache", "provider", "cerebras", "openrouter", "ollama"}
Matching == {"list", "match", "search"}

CallType(k) ==
  /\ k \in Calls
  /\ k.pc \in {"call", "execute"} <=> k.tool # None
  /\ k.pc \in Asking \union Matching => k.req \in Query
  /\ k.pc \in Matching => k.intent \in Domain
  /\ k.pc \in Direct => k.req \in Name

(* What is registered was so during the call; what was so all the time is still. *)
During(k, tks) ==
  /\ k.pc \notin {"new", "answered"} => tks \subseteq k.during /\ k.throughout \subseteq tks
  /\ k.tool # None => k.tool \in AllTools(k.during)
  /\ k.pc = "match" => k.seen \subseteq AllTools(k.during) /\ AllTools(k.throughout) \subseteq k.seen

(* What the call has looked for in vain. *)
Missing(k) ==
  /\ k.pc \in {"id", "short"} => ByName(k.throughout, k.req) = {}
  /\ k.pc \in {"short", "restname"} => ById(k.throughout, k.req) = {}
  /\ k.pc = "search" => /\ ByToolbox(k.throughout, k.intent) = {}
                        /\ ByTool(AllTools(k.throughout), k.intent) = {}

CallInv(k, tks) == CallType(k) /\ During(k, tks) /\ Missing(k)

Shared ==
  /\ registered \subseteq Toolkit
  /\ initialized \in BOOLEAN /\ useFallback \in BOOLEAN
  /\ fallback \in {"ollama", "openrouter"}
  /\ cache \in [Query -> Domain \union {None}]

AllCalls ==
  /\ call \in [Caller -> Calls]
  /\ \A c \in Caller : CallInv(call[c], registered)

Inv == Shared /\ AllCalls

-----------------------------------------------------------------------------
(* The lookups are monotone: among fewer toolkits there is nothing more to be found. *)

LEMMA Monotone ==
  ASSUME NEW S, NEW T, S \subseteq T
  PROVE  /\ AllTools(S) \subseteq AllTools(T)
         /\ \A n : ById(S, n) \subseteq ById(T, n) /\ ByName(S, n) \subseteq ByName(T, n)
         /\ \A d : ByToolbox(S, d) \subseteq ByToolbox(T, d)
<1>1. Toolboxes(S) \subseteq Toolboxes(T)
  BY DEF Toolboxes
<1>2. AllTools(S) \subseteq AllTools(T)
  BY <1>1 DEF AllTools
<1>3. ASSUME NEW n PROVE ById(S, n) \subseteq ById(T, n)
  BY <1>2 DEF ById
<1>4. ASSUME NEW n PROVE ByName(S, n) \subseteq ByName(T, n)
  BY <1>1 DEF ByName
<1>5. ASSUME NEW d PROVE ByToolbox(S, d) \subseteq ByToolbox(T, d)
  BY <1>1 DEF ByToolbox
<1> QED BY <1>2, <1>3, <1>4, <1>5

LEMMA ByToolMonotone ==
  ASSUME NEW S, NEW T, S \subseteq T, NEW d
  PROVE  ByTool(S, d) \subseteq ByTool(T, d)
BY DEF ByTool

(* What a lookup finds is a tool of the toolkits it looks at. *)
LEMMA LookupsFindTools ==
  ASSUME NEW tks
  PROVE  /\ \A n : ById(tks, n) \subseteq AllTools(tks) /\ ByShortName(tks, n) \subseteq AllTools(tks)
         /\ \A n : ByName(tks, n) \subseteq AllTools(tks)
         /\ \A d : ByToolbox(tks, d) \subseteq AllTools(tks) /\ SearchTools(tks, d) \subseteq AllTools(tks)
<1>1. ASSUME NEW n PROVE ById(tks, n) \subseteq AllTools(tks) /\ ByShortName(tks, n) \subseteq AllTools(tks)
  BY DEF ById, ByShortName
<1>2. ASSUME NEW n PROVE ByName(tks, n) \subseteq AllTools(tks)
  <2> SUFFICES ASSUME n \in DOMAIN Qualified, NEW t \in ByName(tks, n) PROVE t \in AllTools(tks)
    BY DEF ByName
  <2>1. PICK tb \in Toolboxes(tks) : t \in Items(tb.tools)
    BY DEF ByName
  <2> QED BY <2>1 DEF AllTools
<1>3. ASSUME NEW d PROVE ByToolbox(tks, d) \subseteq AllTools(tks)
  <2> SUFFICES ASSUME NEW t \in ByToolbox(tks, d) PROVE t \in AllTools(tks)
    OBVIOUS
  <2>1. PICK tb \in Toolboxes(tks) : 1 \in DOMAIN tb.tools /\ t = tb.tools[1]
    BY DEF ByToolbox
  <2>2. t \in Items(tb.tools)
    BY <2>1 DEF Items
  <2> QED BY <2>2 DEF AllTools
<1>4. ASSUME NEW d PROVE SearchTools(tks, d) \subseteq AllTools(tks)
  BY DEF SearchTools
<1> QED BY <1>1, <1>2, <1>3, <1>4

-----------------------------------------------------------------------------
(* A step of one call. *)

LEMMA OneCall ==
  ASSUME AllCalls, NEW c \in Caller, NEW r, CallInv(r, registered), Now(c, r), registered' = registered
  PROVE  AllCalls'
<1>1. r \in Calls
  BY DEF CallInv, CallType
<1>2. call' = [call EXCEPT ![c] = r] /\ call' \in [Caller -> Calls]
  BY <1>1 DEF Now, AllCalls
<1>3. ASSUME NEW d \in Caller PROVE CallInv(call'[d], registered)
  <2>1. CASE d = c
    BY <1>2, <2>1 DEF AllCalls
  <2>2. CASE d # c
    BY <1>2, <2>2 DEF AllCalls
  <2> QED BY <2>1, <2>2
<1> QED BY <1>2, <1>3 DEF AllCalls

LEMMA SharedStays == ASSUME Shared, UNCHANGED sharedVars PROVE Shared' /\ registered' = registered
BY DEF Shared, sharedVars

LEMMA NoCallType == NoCall \in Calls
BY RetriesAssumption DEF NoCall, Calls, PC, Answers

LEMMA AnswerKeeps ==
  ASSUME AllCalls, NEW c \in Caller, NEW a \in Answers, Answer(c, a), registered' = registered
  PROVE  AllCalls'
<1> DEFINE r == [NoCall EXCEPT !.pc = "answered", !.answer = a]
<1>1. r \in Calls
  BY NoCallType DEF Calls, PC
<1>2. r.pc = "answered" /\ r.tool = None
  BY DEF NoCall
<1>3. CallInv(r, registered)
  BY <1>1, <1>2 DEF CallInv, CallType, During, Missing, Asking, Matching, Direct
<1>4. Now(c, r)
  BY DEF Answer
<1> HIDE DEF r
<1> QED BY <1>3, <1>4, OneCall

LEMMA FoundKeeps ==
  ASSUME Shared, AllCalls, NEW c \in Caller, InCall(c), NEW t \in AllTools(call[c].during), Found(c, t),
         registered' = registered
  PROVE  AllCalls'
<1> DEFINE k == call[c]
           r == [k EXCEPT !.pc = "call", !.tool = t, !.seen = {}, !.throughout = {}]
<1>1. k \in Calls /\ registered \subseteq k.during /\ k.during \subseteq Toolkit
  BY DEF AllCalls, CallInv, CallType, During, InCall, Calls
<1>2. t \in AllTools(Toolkit) /\ t # None
  BY <1>1, Monotone, ToolAssumption
<1>3. Now(c, r)
  BY DEF Found
<1> HIDE DEF k
<1>4. r \in Calls
  BY <1>1, <1>2 DEF Calls, PC
<1>5. r.pc = "call" /\ r.tool = t /\ r.during = k.during /\ r.throughout = {} /\ r.req = k.req
  BY <1>1 DEF Calls
<1>6. t \in AllTools(k.during)
  BY DEF k
<1> HIDE DEF r
<1>7. CallInv(r, registered)
  BY <1>1, <1>2, <1>4, <1>5, <1>6 DEF CallInv, CallType, During, Missing, Asking, Matching, Direct
<1> QED BY <1>3, <1>7, OneCall

(* The program counter alone moves. *)
LEMMA GotoKeeps ==
  ASSUME AllCalls, NEW c \in Caller, NEW l \in PC, Goto(c, l), registered' = registered,
         CallInv([call[c] EXCEPT !.pc = l], registered)
  PROVE  AllCalls'
BY OneCall DEF Goto

LEMMA Fields ==
  ASSUME NEW k \in Calls, NEW l \in PC
  PROVE  LET r == [k EXCEPT !.pc = l]
         IN  /\ r \in Calls /\ r.pc = l
             /\ r.req = k.req /\ r.tries = k.tries /\ r.body = k.body /\ r.intent = k.intent
             /\ r.seen = k.seen /\ r.tool = k.tool /\ r.answer = k.answer
             /\ r.during = k.during /\ r.throughout = k.throughout
BY DEF Calls

LEMMA LookupKeeps ==
  ASSUME Inv, NEW c \in Caller, NEW l \in PC \ {"new", "answered"}, NEW ts \in SUBSET AllTools(registered),
         NEW next \in PC \union {"notfound"}, Lookup(c, l, ts, next),
         ts = {} /\ next # "notfound" => CallInv([call[c] EXCEPT !.pc = next], registered)
  PROVE  Inv'
<1>0. Shared /\ AllCalls /\ Shared' /\ registered' = registered
  BY SharedStays DEF Inv, Lookup
<1>1. CASE \E t \in ts : Found(c, t)
  <2>1. InCall(c) /\ registered \subseteq call[c].during
    BY <1>0 DEF AllCalls, CallInv, During, Lookup, At, InCall
  <2>2. ts \subseteq AllTools(call[c].during)
    BY <2>1, Monotone
  <2> QED BY <1>0, <1>1, <2>1, <2>2, FoundKeeps DEF Inv
<1>2. CASE Answer(c, "notfound")
  BY <1>0, <1>2, AnswerKeeps DEF Inv, Answers
<1>3. CASE ts = {} /\ next # "notfound" /\ Goto(c, next)
  BY <1>0, <1>3, GotoKeeps DEF Inv
<1> QED BY <1>1, <1>2, <1>3 DEF Lookup

-----------------------------------------------------------------------------
(* The direct call. *)

LEMMA DirectKeeps ==
  ASSUME Inv, NEW c \in Caller,
         FindByName(c) \/ FindById(c) \/ FindByShortName(c) \/ RestById(c) \/ RestByName(c)
  PROVE  Inv'
<1> DEFINE k == call[c]
<1>0. k \in Calls /\ CallInv(k, registered)
  BY DEF Inv, AllCalls
<1>1. /\ \A n : ById(registered, n) \subseteq AllTools(registered)
      /\ \A n : ByShortName(registered, n) \subseteq AllTools(registered)
      /\ \A n : ByName(registered, n) \subseteq AllTools(registered)
  BY LookupsFindTools
<1>2. k.pc \in Direct =>
        /\ k.throughout \subseteq registered
        /\ ById(k.throughout, k.req) \subseteq ById(registered, k.req)
        /\ ByName(k.throughout, k.req) \subseteq ByName(registered, k.req)
  <2>1. k.pc \in Direct => k.throughout \subseteq registered
    BY <1>0 DEF CallInv, During, Direct
  <2> QED BY <2>1, Monotone
<1> HIDE DEF k
<1>3. ASSUME NEW l \in {"id", "short", "restname"}, k.pc \in Direct,
             l \in {"id", "short"} => ByName(k.throughout, k.req) = {},
             l \in {"short", "restname"} => ById(k.throughout, k.req) = {}
      PROVE  CallInv([k EXCEPT !.pc = l], registered)
  <2>1. l \in PC
    BY DEF PC
  <2> QED BY <1>0, <1>3, <2>1, Fields
          DEF CallInv, CallType, During, Missing, Asking, Matching, Direct
<1>4. CASE FindByName(c)
  <2>1. k.pc = "name" /\ Lookup(c, "name", ByName(registered, k.req), "id")
    BY <1>4 DEF FindByName, Lookup, At, k
  <2>2. ByName(registered, k.req) = {} => CallInv([k EXCEPT !.pc = "id"], registered)
    BY <1>2, <1>3, <2>1 DEF Direct
  <2> QED BY <1>1, <2>1, <2>2, LookupKeeps DEF PC, k
<1>5. CASE FindById(c)
  <2>1. k.pc = "id" /\ Lookup(c, "id", ById(registered, k.req), "short")
    BY <1>5 DEF FindById, Lookup, At, k
  <2>2. ByName(k.throughout, k.req) = {}
    BY <1>0, <2>1 DEF CallInv, Missing
  <2>3. ById(registered, k.req) = {} => CallInv([k EXCEPT !.pc = "short"], registered)
    BY <1>2, <1>3, <2>1, <2>2 DEF Direct
  <2> QED BY <1>1, <2>1, <2>3, LookupKeeps DEF PC, k
<1>6. CASE FindByShortName(c)
  BY <1>1, <1>6, LookupKeeps DEF FindByShortName, PC
<1>7. CASE RestById(c)
  <2>1. k.pc = "restid" /\ Lookup(c, "restid", ById(registered, k.req), "restname")
    BY <1>7 DEF RestById, Lookup, At, k
  <2>2. ById(registered, k.req) = {} => CallInv([k EXCEPT !.pc = "restname"], registered)
    BY <1>2, <1>3, <2>1 DEF Direct
  <2> QED BY <1>1, <2>1, <2>2, LookupKeeps DEF PC, k
<1>8. CASE RestByName(c)
  BY <1>1, <1>8, LookupKeeps DEF RestByName, PC
<1> QED BY <1>4, <1>5, <1>6, <1>7, <1>8

-----------------------------------------------------------------------------
(* The requests and the registry. *)

LEMMA InitInv == Init => Inv
<1> SUFFICES ASSUME Init PROVE Inv
  OBVIOUS
<1>1. Shared
  BY DEF Init, Shared
<1>2. CallInv(NoCall, registered)
  BY NoCallType DEF NoCall, CallInv, CallType, During, Missing, Asking, Matching, Direct
<1> QED BY <1>1, <1>2, NoCallType DEF Init, Inv, AllCalls

LEMMA ChangeKeeps ==
  ASSUME Inv, NEW tks \in SUBSET Toolkit, Change(tks)
  PROVE  Inv'
<1>1. Shared'
  BY DEF Inv, Shared, Change
<1>2. registered' = tks
  BY DEF Change
<1>3. ASSUME NEW c \in Caller PROVE call'[c] \in Calls /\ CallInv(call'[c], tks)
  <2> DEFINE k == call[c]
             r == [k EXCEPT !.during = k.during \union tks, !.throughout = k.throughout \intersect tks]
  <2>1. k \in Calls /\ CallInv(k, registered)
    BY DEF Inv, AllCalls
  <2>2. call'[c] = IF k.pc \notin {"new", "answered"} THEN r ELSE k
    BY DEF Change, InCall
  <2> HIDE DEF k
  <2>3. r \in Calls
    BY <2>1 DEF Calls
  <2>4. /\ r.pc = k.pc /\ r.req = k.req /\ r.tool = k.tool /\ r.intent = k.intent /\ r.seen = k.seen
        /\ r.during = k.during \union tks /\ r.throughout = k.throughout \intersect tks
    BY <2>1 DEF Calls
  <2> HIDE DEF r
  <2>5. /\ AllTools(k.during) \subseteq AllTools(r.during)
        /\ AllTools(r.throughout) \subseteq AllTools(k.throughout)
        /\ ById(r.throughout, k.req) \subseteq ById(k.throughout, k.req)
        /\ ByName(r.throughout, k.req) \subseteq ByName(k.throughout, k.req)
        /\ ByToolbox(r.throughout, k.intent) \subseteq ByToolbox(k.throughout, k.intent)
    BY <2>4, Monotone
  <2>6. ByTool(AllTools(r.throughout), k.intent) \subseteq ByTool(AllTools(k.throughout), k.intent)
    BY <2>5, ByToolMonotone
  <2>7. CallType(r)
    BY <2>1, <2>3, <2>4 DEF CallInv, CallType
  <2>8. During(r, tks) /\ Missing(r)
    BY <2>1, <2>4, <2>5, <2>6 DEF CallInv, During, Missing
  <2>9. CASE k.pc \in {"new", "answered"}
    BY <2>1, <2>2, <2>9 DEF CallInv, CallType, During, Missing
  <2> QED BY <2>2, <2>3, <2>7, <2>8, <2>9 DEF CallInv
<1>4. call' \in [Caller -> Calls]
  BY <1>3 DEF Change
<1> QED BY <1>1, <1>2, <1>3, <1>4 DEF Inv, AllCalls

LEMMA ArriveKeeps ==
  ASSUME Inv, NEW c \in Caller, Arrive(c)
  PROVE  Inv'
<1>1. ASSUME NEW q, NEW l \in PC, Begin(c, q, l), UNCHANGED sharedVars,
             \/ q \in Query /\ l = "cache"
             \/ q \in Name /\ l \in {"name", "restid"}
      PROVE  Inv'
  <2> DEFINE r == [NoCall EXCEPT !.pc = l, !.req = q, !.during = registered, !.throughout = registered]
  <2>1. r \in Calls /\ r.pc = l /\ r.req = q /\ r.during = registered /\ r.throughout = registered
        /\ r.tool = None
    BY <1>1, NoCallType DEF Calls, Inv, Shared, NoCall
  <2>2. Now(c, r)
    BY <1>1 DEF Begin
  <2> HIDE DEF r
  <2>3. CallInv(r, registered)
    BY <1>1, <2>1 DEF CallInv, CallType, During, Missing, Asking, Matching, Direct
  <2> QED BY <1>1, <2>2, <2>3, OneCall, SharedStays DEF Inv
<1>2. CASE CallTooEarly(c) \/ CallNothing(c)
  BY <1>2, AnswerKeeps, SharedStays DEF CallTooEarly, CallNothing, Inv, Answers
<1>3. CASE \E q \in Query : CallQuery(c, q)
  BY <1>1, <1>3 DEF CallQuery, PC
<1>4. CASE \E n \in Name : CallName(c, n) \/ ExecuteTool(c, n)
  BY <1>1, <1>4 DEF CallName, ExecuteTool, PC
<1> QED BY <1>2, <1>3, <1>4 DEF Arrive

-----------------------------------------------------------------------------
(* The intent. *)

(* A call that asks for an intent has looked for nothing yet. *)
LEMMA AskingKeeps ==
  ASSUME Inv, NEW c \in Caller, NEW r \in Calls, call[c].pc \in Asking, Now(c, r), UNCHANGED registered,
         r.pc \in Asking \union {"list"}, r.pc = "list" => r.intent \in Domain,
         r.req = call[c].req, r.tool = call[c].tool,
         r.during = call[c].during, r.throughout = call[c].throughout
  PROVE  AllCalls'
<1>1. CallInv(call[c], registered)
  BY DEF Inv, AllCalls
<1>2. CallInv(r, registered)
  BY <1>1 DEF CallInv, CallType, During, Missing, Asking, Matching, Direct
<1> QED BY <1>2, OneCall DEF Inv

LEMMA FailsKeeps ==
  ASSUME Inv, NEW c \in Caller, call[c].pc \in Asking, ProviderFails(c)
  PROVE  Inv'
<1>1. Shared' /\ registered' = registered
  BY DEF Inv, Shared, ProviderFails
<1>2. CASE Answer(c, "error")
  BY <1>1, <1>2, AnswerKeeps DEF Inv, Answers
<1>3. CASE Now(c, [call[c] EXCEPT !.pc = fallback, !.body = "none", !.tries = 0])
  <2> DEFINE k == call[c]
             r == [k EXCEPT !.pc = fallback, !.body = "none", !.tries = 0]
  <2>1. k \in Calls /\ fallback \in Asking /\ fallback \in PC /\ 0 \in 0..Retries
    BY RetriesAssumption DEF Inv, AllCalls, Shared, Asking, PC
  <2>2. Now(c, r)
    BY <1>3
  <2> HIDE DEF k
  <2>3. r.pc = fallback /\ r.req = k.req /\ r.tool = k.tool
        /\ r.during = k.during /\ r.throughout = k.throughout
    BY <2>1 DEF Calls
  <2>4. r \in Calls
    BY <2>1 DEF Calls
  <2> HIDE DEF r
  <2>5. r.pc # "list"
    BY <2>1, <2>3 DEF Asking
  <2> QED BY <1>1, <2>1, <2>2, <2>3, <2>4, <2>5, AskingKeeps DEF Inv, k
<1> QED BY <1>2, <1>3 DEF ProviderFails

LEMMA ParsedKeeps ==
  ASSUME Inv, NEW c \in Caller, call[c].pc \in Asking, NEW d \in Domain, Parsed(c, d)
  PROVE  Inv'
<1> DEFINE k == call[c]
           r == [k EXCEPT !.intent = d, !.pc = "list", !.body = "none", !.tries = 0]
<1>1. k \in Calls /\ k.req \in Query /\ "list" \in PC /\ 0 \in 0..Retries
  BY RetriesAssumption DEF Inv, AllCalls, CallInv, CallType, PC
<1>2. Shared' /\ registered' = registered
  BY <1>1 DEF Inv, Shared, Parsed
<1>3. Now(c, r)
  BY DEF Parsed
<1> HIDE DEF k
<1>4. /\ r.pc = "list" /\ r.intent = d /\ r.req = k.req /\ r.tool = k.tool
      /\ r.during = k.during /\ r.throughout = k.throughout
  BY <1>1 DEF Calls
<1>5. r \in Calls
  BY <1>1 DEF Calls
<1> HIDE DEF r
<1> QED BY <1>2, <1>3, <1>4, <1>5, AskingKeeps DEF Inv, k

LEMMA IntentKeeps ==
  ASSUME Inv, NEW c \in Caller,
         \/ ParseIntent(c) \/ ChooseProvider(c) \/ CerebrasRetry(c) \/ CerebrasRefused(c)
         \/ CerebrasParse(c) \/ OllamaRetry(c) \/ OllamaParse(c) \/ OllamaPanic(c)
  PROVE  Inv'
<1> DEFINE k == call[c]
<1>0. k \in Calls /\ CallInv(k, registered) /\ k.pc \in Asking
  BY DEF Inv, AllCalls, ParseIntent, ChooseProvider, CerebrasRetry, CerebrasRefused, CerebrasParse,
         OllamaRetry, OllamaParse, OllamaPanic, Trying, AtCerebras, At, Asking
<1>1. ASSUME NEW r \in Calls, UNCHANGED sharedVars, Now(c, r),
             r.pc \in Asking \union {"list"}, r.pc = "list" => r.intent \in Domain,
             r.req = k.req, r.tool = k.tool, r.during = k.during, r.throughout = k.throughout
      PROVE  Inv'
  BY <1>0, <1>1, AskingKeeps, SharedStays DEF Inv
<1>2. CASE ParseIntent(c)
  <2> DEFINE d == cache[k.req]
             r == [k EXCEPT !.intent = d, !.pc = IF d # None THEN "list" ELSE "provider"]
  <2>1. d \in Domain \union {None}
    BY <1>0 DEF Inv, Shared, CallInv, CallType
  <2>2. Now(c, r) /\ UNCHANGED sharedVars
    BY <1>2 DEF ParseIntent
  <2> HIDE DEF d, k
  <2>3. /\ r \in Calls /\ r.intent = d /\ r.pc = IF d # None THEN "list" ELSE "provider"
        /\ r.req = k.req /\ r.tool = k.tool /\ r.during = k.during /\ r.throughout = k.throughout
    BY <1>0, <2>1 DEF Calls, PC
  <2> HIDE DEF r
  <2> QED BY <1>1, <2>1, <2>2, <2>3 DEF Asking
<1>3. CASE ChooseProvider(c)
  <2> DEFINE l == IF useFallback THEN fallback ELSE "cerebras"
  <2>1. l \in PC /\ l \in Asking /\ l # "list"
    BY DEF Inv, Shared, PC, Asking
  <2>2. Now(c, [k EXCEPT !.pc = l]) /\ UNCHANGED sharedVars
    BY <1>3 DEF ChooseProvider, Goto
  <2> DEFINE r == [k EXCEPT !.pc = l]
  <2> HIDE DEF l, k
  <2>3. /\ r \in Calls /\ r.pc = l /\ r.req = k.req /\ r.tool = k.tool
        /\ r.during = k.during /\ r.throughout = k.throughout
    BY <1>0, <2>1, Fields
  <2>4. Now(c, r)
    BY <2>2
  <2> HIDE DEF r
  <2> QED BY <1>1, <2>1, <2>2, <2>3, <2>4
<1>4. CASE CerebrasRetry(c)
  <2>1. PICK b \in {k.body, "useless", "intent"} : Now(c, [k EXCEPT !.tries = @ + 1, !.body = b])
    BY <1>4 DEF CerebrasRetry
  <2> DEFINE r == [k EXCEPT !.tries = k.tries + 1, !.body = b]
  <2>2. k.tries < Retries /\ UNCHANGED sharedVars
    BY <1>4 DEF CerebrasRetry, Trying
  <2> HIDE DEF k
  <2>3. k.tries + 1 \in 0..Retries /\ b \in {"none", "useless", "intent"}
    BY <1>0, <2>1, <2>2, RetriesAssumption DEF Calls
  <2>4. /\ r \in Calls /\ r.pc = k.pc
        /\ r.req = k.req /\ r.tool = k.tool /\ r.during = k.during /\ r.throughout = k.throughout
    BY <1>0, <2>3 DEF Calls
  <2>5. Now(c, r)
    BY <2>1
  <2> HIDE DEF r
  <2> QED BY <1>0, <1>1, <2>2, <2>4, <2>5 DEF Asking
<1>5. CASE CerebrasRefused(c)
  BY <1>0, <1>5, FailsKeeps DEF CerebrasRefused
<1>6. CASE CerebrasParse(c)
  <2>1. ProviderFails(c) \/ \E d \in Domain : Parsed(c, d)
    BY <1>6 DEF CerebrasParse
  <2> QED BY <1>0, <2>1, FailsKeeps, ParsedKeeps
<1>7. CASE OllamaRetry(c)
  <2>1. CASE ProviderFails(c)
    BY <1>0, <2>1, FailsKeeps
  <2>2. CASE k.tries + 1 < Retries /\ Now(c, [k EXCEPT !.tries = @ + 1]) /\ UNCHANGED sharedVars
    <3> DEFINE r == [k EXCEPT !.tries = k.tries + 1]
    <3>1. Now(c, r)
      BY <2>2
    <3> HIDE DEF k
    <3>2. k.tries + 1 \in 0..Retries
      BY <1>0, <2>2, RetriesAssumption DEF Calls
    <3>3. /\ r \in Calls /\ r.pc = k.pc
          /\ r.req = k.req /\ r.tool = k.tool /\ r.during = k.during /\ r.throughout = k.throughout
      BY <1>0, <3>2 DEF Calls
    <3> HIDE DEF r
    <3> QED BY <1>0, <1>1, <2>2, <3>1, <3>3 DEF Asking
  <2> QED BY <1>7, <2>1, <2>2 DEF OllamaRetry
<1>8. CASE OllamaParse(c)
  BY <1>0, <1>8, ParsedKeeps DEF OllamaParse
<1>9. CASE OllamaPanic(c)
  BY <1>9, AnswerKeeps, SharedStays DEF OllamaPanic, Inv, Answers
<1> QED BY <1>2, <1>3, <1>4, <1>5, <1>6, <1>7, <1>8, <1>9

-----------------------------------------------------------------------------
(* The match, the arguments and the call. *)

LEMMA MatchListKeeps ==
  ASSUME Inv, NEW c \in Caller, MatchList(c)
  PROVE  Inv'
<1> DEFINE k == call[c]
           ts == AllTools(registered)
           r == [k EXCEPT !.seen = ts, !.pc = "match"]
<1>0. /\ k \in Calls /\ CallInv(k, registered) /\ k.pc = "list"
      /\ Shared' /\ registered' = registered /\ registered \subseteq Toolkit
  BY SharedStays DEF Inv, AllCalls, MatchList, At, Shared
<1>1. CASE Answer(c, "notfound")
  BY <1>0, <1>1, AnswerKeeps DEF Inv, Answers
<1>2. CASE Now(c, r)
  <2> HIDE DEF k
  <2>1. /\ ts \subseteq AllTools(Toolkit) /\ ts \subseteq AllTools(k.during)
        /\ AllTools(k.throughout) \subseteq ts
    BY <1>0, Monotone DEF CallInv, During
  <2> HIDE DEF ts
  <2>2. /\ r \in Calls /\ r.pc = "match" /\ r.seen = ts /\ r.req = k.req /\ r.tool = k.tool
        /\ r.intent = k.intent /\ r.during = k.during /\ r.throughout = k.throughout
    BY <1>0, <2>1 DEF Calls, PC
  <2> HIDE DEF r
  <2>3. CallInv(r, registered)
    BY <1>0, <2>1, <2>2 DEF CallInv, CallType, During, Missing, Asking, Matching, Direct
  <2> QED BY <1>0, <1>2, <2>3, OneCall DEF Inv
<1> QED BY <1>1, <1>2 DEF MatchList

LEMMA MatchToolKeeps ==
  ASSUME Inv, NEW c \in Caller, MatchTool(c)
  PROVE  Inv'
<1> DEFINE k == call[c]
           boxed == ByToolbox(registered, k.intent)
           listed == ByTool(k.seen, k.intent)
<1>0. /\ k \in Calls /\ CallInv(k, registered) /\ k.pc = "match" /\ InCall(c)
      /\ Shared /\ AllCalls /\ Shared' /\ registered' = registered
      /\ registered \subseteq k.during /\ k.throughout \subseteq registered
      /\ k.seen \subseteq AllTools(k.during) /\ AllTools(k.throughout) \subseteq k.seen
  BY SharedStays DEF Inv, AllCalls, MatchTool, At, InCall, CallInv, During
<1>1. boxed \subseteq AllTools(k.during)
  <2>1. boxed \subseteq AllTools(registered)
    BY LookupsFindTools
  <2> HIDE DEF boxed
  <2>2. AllTools(registered) \subseteq AllTools(k.during)
    BY <1>0, Monotone
  <2> QED BY <2>1, <2>2
<1>2. listed \subseteq AllTools(k.during)
  BY <1>0 DEF ByTool
<1>3. CASE Answer(c, "notfound")
  BY <1>0, <1>3, AnswerKeeps DEF Inv, Answers
<1>4. CASE \E t \in boxed \union listed : Found(c, t)
  BY <1>0, <1>1, <1>2, <1>4, FoundKeeps DEF Inv
<1>5. CASE boxed = {} /\ listed = {} /\ Goto(c, "search")
  <2>1. ByToolbox(k.throughout, k.intent) = {}
    BY <1>0, <1>5, Monotone
  <2>2. ByTool(AllTools(k.throughout), k.intent) = {}
    BY <1>0, <1>5, ByToolMonotone
  <2> HIDE DEF k
  <2>3. CallInv([k EXCEPT !.pc = "search"], registered)
    <3>1. "search" \in PC
      BY DEF PC
    <3> QED BY <1>0, <2>1, <2>2, <3>1, Fields
            DEF CallInv, CallType, During, Missing, Asking, Matching, Direct
  <2> QED BY <1>0, <1>5, <2>3, GotoKeeps DEF Inv, PC, k
<1> QED BY <1>3, <1>4, <1>5 DEF MatchTool

LEMMA MatchSearchKeeps ==
  ASSUME Inv, NEW c \in Caller, MatchSearch(c)
  PROVE  Inv'
BY LookupsFindTools, LookupKeeps DEF MatchSearch, PC

LEMMA ExecuteKeeps ==
  ASSUME Inv, NEW c \in Caller, Extract(c) \/ ExtractPanic(c) \/ ExecuteSync(c) \/ ExecuteAsync(c)
  PROVE  Inv'
<1> DEFINE k == call[c]
<1>1. CASE Extract(c)
  <2>1. k \in Calls /\ CallInv(k, registered) /\ k.pc = "call" /\ Goto(c, "execute") /\ "execute" \in PC
        /\ UNCHANGED sharedVars
    BY <1>1 DEF Inv, AllCalls, Extract, Extracts, At, PC
  <2> HIDE DEF k
  <2>2. CallInv([k EXCEPT !.pc = "execute"], registered)
    BY <2>1, Fields DEF CallInv, CallType, During, Missing, Asking, Matching, Direct
  <2> QED BY <2>1, <2>2, GotoKeeps, SharedStays DEF Inv, k
<1>2. CASE ExtractPanic(c) \/ ExecuteSync(c) \/ ExecuteAsync(c)
  BY <1>2, AnswerKeeps, SharedStays DEF ExtractPanic, ExecuteSync, ExecuteAsync, Inv, Answers
<1> QED BY <1>1, <1>2

LEMMA NextKeeps == Inv /\ [Next]_vars => Inv'
<1> SUFFICES ASSUME Inv, [Next]_vars PROVE Inv'
  OBVIOUS
<1>1. ASSUME NEW tk \in Toolkit, Register(tk) \/ Unregister(tk) PROVE Inv'
  <2>1. registered \subseteq Toolkit
    BY DEF Inv, Shared
  <2> QED BY <1>1, <2>1, ChangeKeeps DEF Register, Unregister
<1>2. CASE Initialize
  BY <1>2 DEF Initialize, Inv, Shared, AllCalls
<1>3. ASSUME NEW c \in Caller, Step(c) PROVE Inv'
  BY <1>3, DirectKeeps, IntentKeeps, MatchListKeeps, MatchToolKeeps, MatchSearchKeeps, ExecuteKeeps
     DEF Step
<1>4. CASE UNCHANGED vars
  BY <1>4 DEF vars, sharedVars, Inv, Shared, AllCalls
<1> QED BY <1>1, <1>2, <1>3, <1>4, ArriveKeeps DEF Next

LEMMA Invariant == Spec => []Inv
BY InitInv, NextKeeps, PTL DEF Spec

-----------------------------------------------------------------------------
(* The properties. *)

(* Typing; no more attempts are made at a provider than there are retries. *)
THEOREM Typing == Spec => []TypeOK
<1>1. Inv => TypeOK
  BY DEF Inv, Shared, AllCalls, CallInv, CallType, TypeOK, Asking, Matching
<1> QED BY <1>1, Invariant, PTL

(* A call only ever runs a tool that was registered at some time of the call. *)
THEOREM Resolves == Spec => []ResolvesDuringCall
<1>1. Inv => ResolvesDuringCall
  BY DEF Inv, AllCalls, CallInv, During, ResolvesDuringCall
<1> QED BY <1>1, Invariant, PTL

LEMMA NowIs ==
  ASSUME Inv, NEW c \in Caller, NEW r, Now(c, r)
  PROVE  call'[c] = r /\ \A d \in Caller \ {c} : call'[d] = call[d]
BY DEF Inv, AllCalls, Now

(* What a request does changes nothing of the other requests. *)
LEMMA OneRecord ==
  ASSUME NEW c \in Caller, Arrive(c) \/ Step(c)
  PROVE  \E r : Now(c, r)
BY DEF Arrive, CallTooEarly, CallNothing, CallQuery, CallName, ExecuteTool, Begin, Step,
       FindByName, FindById, FindByShortName, RestById, RestByName, Lookup, Found, Answer, Goto,
       ParseIntent, ChooseProvider, CerebrasRetry, CerebrasRefused, CerebrasParse, OllamaRetry,
       OllamaParse, OllamaPanic, Parsed, ProviderFails, MatchList, MatchTool, MatchSearch,
       Extract, ExtractPanic, ExecuteSync, ExecuteAsync

(* What a call means is not among the toolkits that were there all the time when it gives up. *)
LEMMA GivesUpRightly ==
  ASSUME Inv, NEW c \in Caller, Next, call[c].answer # "notfound", call'[c].answer = "notfound"
  PROVE  Meant(call[c], call[c].throughout) = {}
<1> DEFINE k == call[c]
<1>0. k \in Calls /\ CallInv(k, registered)
  BY DEF Inv, AllCalls
<1>1. ASSUME NEW r, Now(c, r), r.answer = k.answer \/ r.answer # "notfound" PROVE FALSE
  BY <1>1, NowIs
<1>2. ASSUME NEW a, Answer(c, a) PROVE a = "notfound"
  <2> DEFINE r == [NoCall EXCEPT !.pc = "answered", !.answer = a]
  <2>1. Now(c, r) /\ r.answer = a
    BY <1>2 DEF Answer, NoCall
  <2> HIDE DEF r
  <2> QED BY <2>1, NowIs
<1> HIDE DEF k
<1>3. ASSUME NEW l, Goto(c, l) PROVE FALSE
  BY <1>0, <1>1, <1>3 DEF Goto, Calls, k
<1>4. ASSUME NEW t, Found(c, t) PROVE FALSE
  BY <1>0, <1>1, <1>4 DEF Found, Calls, k
<1>5. ASSUME NEW q, NEW l, Begin(c, q, l) PROVE FALSE
  BY <1>1, <1>5 DEF Begin, NoCall
<1>6. ASSUME NEW d, Parsed(c, d) PROVE FALSE
  BY <1>0, <1>1, <1>6 DEF Parsed, Calls, k
<1>7. ASSUME ProviderFails(c) PROVE FALSE
  BY <1>0, <1>1, <1>2, <1>7 DEF ProviderFails, Calls, k
<1>8. ASSUME NEW l, NEW ts, NEW next, Lookup(c, l, ts, next)
      PROVE  k.pc = l /\ ts = {} /\ next = "notfound"
  BY <1>3, <1>4, <1>8 DEF Lookup, At, k
<1>9. k.pc \notin {"new", "answered"} => k.throughout \subseteq registered
  BY <1>0 DEF CallInv, During
<1>10. CASE Arrive(c)
  BY <1>2, <1>5, <1>10 DEF Arrive, CallTooEarly, CallNothing, CallQuery, CallName, ExecuteTool
<1>11. CASE FindByName(c) \/ FindById(c) \/ FindByShortName(c)
  <2>1. k.pc = "short"
    BY <1>8, <1>11 DEF FindByName, FindById, FindByShortName
  <2>2. k.req \in Name /\ ById(k.throughout, k.req) = {} /\ ByName(k.throughout, k.req) = {}
    BY <1>0, <2>1 DEF CallInv, CallType, Missing, Direct
  <2> QED BY <2>2, RequestAssumption DEF Meant, k
<1>12. CASE RestById(c) \/ RestByName(c)
  <2>1. k.pc = "restname" /\ ByName(registered, k.req) = {}
    BY <1>8, <1>12 DEF RestById, RestByName, k
  <2>2. k.req \in Name /\ ById(k.throughout, k.req) = {}
    BY <1>0, <2>1 DEF CallInv, CallType, Missing, Direct
  <2>3. ByName(k.throughout, k.req) = {}
    BY <1>9, <2>1, Monotone
  <2> QED BY <2>2, <2>3, RequestAssumption DEF Meant, k
<1>13. CASE \/ ParseIntent(c) \/ ChooseProvider(c) \/ CerebrasRetry(c) \/ CerebrasRefused(c)
            \/ CerebrasParse(c) \/ OllamaRetry(c) \/ OllamaParse(c) \/ OllamaPanic(c)
  <2>1. ASSUME ParseIntent(c) PROVE FALSE
    BY <1>0, <1>1, <2>1 DEF ParseIntent, Calls, k
  <2>2. ASSUME CerebrasRetry(c) PROVE FALSE
    BY <1>0, <1>1, <2>2 DEF CerebrasRetry, Calls, k
  <2>3. ASSUME OllamaRetry(c) PROVE FALSE
    BY <1>0, <1>1, <1>7, <2>3 DEF OllamaRetry, Calls, k
  <2> QED BY <1>2, <1>3, <1>6, <1>7, <1>13, <2>1, <2>2, <2>3
          DEF ChooseProvider, CerebrasRefused, CerebrasParse, OllamaParse, OllamaPanic
<1>14. CASE MatchList(c)
  <2>1. k.pc = "list" /\ AllTools(registered) = {}
    BY <1>0, <1>1, <1>14 DEF MatchList, At, Calls, k
  <2>2. AllTools(k.throughout) = {}
    BY <1>9, <2>1, Monotone
  <2>3. \A d : ByToolbox(k.throughout, d) = {} /\ ByTool(AllTools(k.throughout), d) = {}
    BY <2>2, LookupsFindTools DEF ByTool
  <2>4. k.req \in Query
    BY <1>0, <2>1 DEF CallInv, CallType, Matching
  <2> QED BY <2>3, <2>4 DEF Meant, k
<1>15. CASE MatchTool(c)
  <2>1. k.pc = "match" /\ k.intent = {}
    BY <1>3, <1>4, <1>15 DEF MatchTool, At, k
  <2>2. k.req \in Query
    BY <1>0, <2>1 DEF CallInv, CallType, Matching
  <2> QED BY <2>1, <2>2 DEF Meant, k
<1>16. CASE MatchSearch(c)
  <2>1. k.pc = "search"
    BY <1>8, <1>16 DEF MatchSearch
  <2> QED BY <1>0, <2>1 DEF CallInv, CallType, Missing, Matching, Meant, k
<1>17. CASE Extract(c) \/ ExtractPanic(c) \/ ExecuteSync(c) \/ ExecuteAsync(c)
  BY <1>2, <1>3, <1>17 DEF Extract, ExtractPanic, ExecuteSync, ExecuteAsync
<1>18. ASSUME NEW d \in Caller \ {c}, Arrive(d) \/ Step(d) PROVE FALSE
  <2>1. PICK r : Now(d, r)
    BY <1>18, OneRecord
  <2> QED BY <2>1, NowIs
<1>19. ASSUME NEW tks, Change(tks) PROVE FALSE
  <2>1. call'[c].answer = k.answer
    BY <1>0, <1>19 DEF Change, Calls, k
  <2> QED BY <2>1 DEF k
<1>20. CASE Initialize
  BY <1>20 DEF Initialize
<1>21. CASE Step(c)
  BY <1>11, <1>12, <1>13, <1>14, <1>15, <1>16, <1>17, <1>21 DEF Step
<1> QED
  BY <1>10, <1>18, <1>19, <1>20, <1>21 DEF Next, Register, Unregister

(***************************************************************************)
(* A tool that is registered throughout a call that means it is found,     *)
(* although the registry changes between the reads of it.                  *)
(***************************************************************************)
THEOREM Finds == Spec => PresentIsFound
<1>1. Inv /\ [Next]_vars =>
        [\A c \in Caller :
           call[c].answer # "notfound" /\ call'[c].answer = "notfound" =>
             Meant(call[c], call[c].throughout) = {}]_vars
  BY GivesUpRightly
<1> QED BY <1>1, Invariant, PTL DEF Spec, PresentIsFound

-----------------------------------------------------------------------------
(***************************************************************************)
(* Why a call ends: the steps it has still to take, at most. Each lookup   *)
(* is made once, each provider is asked Retries times, and the second      *)
(* provider only after the first.                                          *)
(***************************************************************************)
Longest == 9 + 2 * Retries

ToGo(k) ==
  CASE k.pc \in {"new", "answered"} -> 0
    [] k.pc = "execute" -> 1
    [] k.pc = "call" -> 2
    [] k.pc \in {"short", "restname", "search"} -> 3
    [] k.pc \in {"id", "restid", "match"} -> 4
    [] k.pc \in {"name", "list"} -> 5
    [] k.pc \in {"openrouter", "ollama"} -> 6 + (Retries - k.tries)
    [] k.pc = "cerebras" -> 7 + Retries + (Retries - k.tries)
    [] k.pc = "provider" -> 8 + 2 * Retries
    [] k.pc = "cache" -> Longest

(* A step of the call brings it nearer to its answer; nothing else takes it farther away. *)
CountsDown ==
  \A c \in Caller :
    InCall(c) => /\ ToGo(call[c]) \in 1..Longest
                 /\ ToGo(call'[c]) <= ToGo(call[c])
                 /\ Step(c) => ToGo(call'[c]) < ToGo(call[c])

(* The values, read off one by one. *)
LEMMA ToGoAt ==
  ASSUME NEW k
  PROVE  /\ k.pc \in {"new", "answered"} => ToGo(k) = 0
         /\ k.pc = "execute" => ToGo(k) = 1
         /\ k.pc = "call" => ToGo(k) = 2
         /\ k.pc \in {"short", "restname", "search"} => ToGo(k) = 3
         /\ k.pc \in {"id", "restid", "match"} => ToGo(k) = 4
         /\ k.pc \in {"name", "list"} => ToGo(k) = 5
         /\ k.pc \in {"openrouter", "ollama"} => ToGo(k) = 6 + (Retries - k.tries)
         /\ k.pc = "cerebras" => ToGo(k) = 7 + Retries + (Retries - k.tries)
         /\ k.pc = "provider" => ToGo(k) = 8 + 2 * Retries
         /\ k.pc = "cache" => ToGo(k) = Longest
BY DEF ToGo

LEMMA ToGoBounds ==
  ASSUME NEW k \in Calls
  PROVE  /\ ToGo(k) \in 0..Longest
         /\ k.pc \notin {"new", "answered"} => ToGo(k) > 0
<1>1. k.tries \in 0..Retries /\ k.pc \in PC
  BY DEF Calls
<1> QED BY <1>1, ToGoAt, RetriesAssumption DEF Longest, PC

LEMMA Nearer ==
  ASSUME Inv, NEW c \in Caller, InCall(c), Step(c)
  PROVE  ToGo(call'[c]) < ToGo(call[c])
<1> DEFINE k == call[c]
<1>0. /\ k \in Calls /\ k.tries \in 0..Retries /\ Retries \in Nat /\ fallback \in {"ollama", "openrouter"}
      /\ ToGo(k) \in Nat /\ ToGo(k) > 0
  <2>1. k \in Calls /\ k.pc \notin {"new", "answered"}
    BY DEF Inv, AllCalls, InCall
  <2> QED BY <2>1, ToGoBounds, RetriesAssumption DEF Inv, Shared, Calls, Longest
<1>1. ASSUME NEW r, Now(c, r), ToGo(r) < ToGo(k) PROVE ToGo(call'[c]) < ToGo(k)
  BY <1>1, NowIs
<1>2. ASSUME NEW a, Answer(c, a) PROVE ToGo(call'[c]) < ToGo(k)
  <2> DEFINE r == [NoCall EXCEPT !.pc = "answered", !.answer = a]
  <2>1. Now(c, r) /\ r.pc = "answered"
    BY <1>2 DEF Answer, NoCall
  <2> HIDE DEF r
  <2> QED BY <1>0, <1>1, <2>1, ToGoAt
<1> SUFFICES ToGo(call'[c]) < ToGo(k)
  OBVIOUS
<1> HIDE DEF k
<1>3. ASSUME NEW t, Found(c, t), k.pc \in Direct \union Matching PROVE ToGo(call'[c]) < ToGo(k)
  <2> DEFINE r == [k EXCEPT !.pc = "call", !.tool = t, !.seen = {}, !.throughout = {}]
  <2>1. Now(c, r) /\ r.pc = "call"
    BY <1>0, <1>3 DEF Found, Calls, k
  <2> HIDE DEF r
  <2> QED BY <1>1, <1>3, <2>1, ToGoAt DEF Direct, Matching
<1>4. ASSUME NEW l, Goto(c, l) PROVE \E r : Now(c, r) /\ r.pc = l /\ r.tries = k.tries
  BY <1>0, <1>4 DEF Goto, Calls, k
<1>5. ASSUME NEW l \in Direct \union Matching, NEW ts, NEW next, Lookup(c, l, ts, next),
             next # "notfound" => \A r : r.pc = next => ToGo(r) < ToGo(k)
      PROVE  ToGo(call'[c]) < ToGo(k)
  <2>1. k.pc = l
    BY <1>5 DEF Lookup, At, k
  <2>2. CASE \E t \in ts : Found(c, t)
    BY <1>3, <2>1, <2>2
  <2>3. CASE Answer(c, "notfound")
    BY <1>2, <2>3
  <2>4. CASE next # "notfound" /\ Goto(c, next)
    BY <1>1, <1>4, <1>5, <2>4
  <2> QED BY <1>5, <2>2, <2>3, <2>4 DEF Lookup
<1>6. CASE FindByName(c) \/ FindById(c) \/ FindByShortName(c) \/ RestById(c) \/ RestByName(c)
  <2>1. ASSUME NEW r, \/ k.pc = "name" /\ r.pc = "id"
                      \/ k.pc = "id" /\ r.pc = "short"
                      \/ k.pc = "restid" /\ r.pc = "restname"
        PROVE  ToGo(r) < ToGo(k)
    BY <2>1, ToGoAt
  <2>2. ASSUME NEW l, NEW ts, NEW next, Lookup(c, l, ts, next),
               <<l, next>> \in {<<"name", "id">>, <<"id", "short">>, <<"short", "notfound">>,
                               <<"restid", "restname">>, <<"restname", "notfound">>}
        PROVE  ToGo(call'[c]) < ToGo(k)
    <3>1. k.pc = l /\ l \in Direct
      BY <2>2 DEF Lookup, At, Direct, k
    <3> QED BY <1>5, <2>1, <2>2, <3>1
  <2> QED BY <1>6, <2>2 DEF FindByName, FindById, FindByShortName, RestById, RestByName
<1>7. ASSUME ProviderFails(c), k.pc \in Asking PROVE ToGo(call'[c]) < ToGo(k)
  <2>1. CASE k.pc = "cerebras" /\ Now(c, [call[c] EXCEPT !.pc = fallback, !.body = "none", !.tries = 0])
    <3> DEFINE r == [k EXCEPT !.pc = fallback, !.body = "none", !.tries = 0]
    <3>1. Now(c, r) /\ r.pc \in {"openrouter", "ollama"} /\ r.tries = 0
      BY <1>0, <2>1 DEF Calls, k
    <3> HIDE DEF r
    <3>2. ToGo(r) = 6 + Retries /\ ToGo(k) >= 7 + Retries
      BY <1>0, <2>1, <3>1, ToGoAt
    <3> QED BY <1>0, <1>1, <3>1, <3>2
  <2> QED BY <1>2, <1>7, <2>1 DEF ProviderFails, At, k
<1>8. ASSUME NEW d, Parsed(c, d), k.pc \in Asking PROVE ToGo(call'[c]) < ToGo(k)
  <2> DEFINE r == [k EXCEPT !.intent = d, !.pc = "list", !.body = "none", !.tries = 0]
  <2>1. Now(c, r) /\ r.pc = "list"
    BY <1>0, <1>8 DEF Parsed, Calls, k
  <2> HIDE DEF r
  <2>2. ToGo(r) = 5 /\ ToGo(k) >= 6
    BY <1>0, <1>8, <2>1, ToGoAt DEF Asking, Longest
  <2> QED BY <1>0, <1>1, <2>1, <2>2
<1>9. CASE ParseIntent(c) \/ ChooseProvider(c)
  <2>1. PICK r : /\ Now(c, r) /\ r.tries = k.tries
                 /\ \/ k.pc = "cache" /\ r.pc \in {"list", "provider"}
                    \/ k.pc = "provider" /\ r.pc \in {"cerebras", "openrouter", "ollama"}
    <3>1. CASE ParseIntent(c)
      <4> DEFINE d == cache[k.req]
                 r == [k EXCEPT !.intent = d, !.pc = IF d # None THEN "list" ELSE "provider"]
      <4>1. k.pc = "cache" /\ Now(c, r)
        BY <3>1 DEF ParseIntent, At, k
      <4> HIDE DEF d
      <4>2. r.tries = k.tries /\ r.pc \in {"list", "provider"}
        BY <1>0 DEF Calls
      <4> QED BY <4>1, <4>2
    <3>2. CASE ChooseProvider(c)
      BY <1>0, <1>4, <3>2 DEF ChooseProvider, At, k
    <3> QED BY <1>9, <3>1, <3>2
  <2>2. ToGo(r) < ToGo(k)
    BY <1>0, <2>1, ToGoAt DEF Longest
  <2> QED BY <1>1, <2>1, <2>2
<1>10. CASE CerebrasRetry(c) \/ OllamaRetry(c)
  <2>1. ASSUME NEW r, Now(c, r), r.pc = k.pc, r.tries = k.tries + 1,
               k.pc \in {"cerebras", "openrouter", "ollama"}
        PROVE  ToGo(call'[c]) < ToGo(k)
    <3>1. ToGo(r) < ToGo(k)
      BY <1>0, <2>1, ToGoAt
    <3> QED BY <1>1, <2>1, <3>1
  <2>2. CASE CerebrasRetry(c)
    <3>1. PICK b : Now(c, [k EXCEPT !.tries = k.tries + 1, !.body = b])
      BY <2>2 DEF CerebrasRetry, k
    <3> DEFINE r == [k EXCEPT !.tries = k.tries + 1, !.body = b]
    <3>2. Now(c, r) /\ r.pc = k.pc /\ r.tries = k.tries + 1
      BY <1>0, <3>1 DEF Calls
    <3>3. k.pc \in {"cerebras", "openrouter"}
      BY <2>2 DEF CerebrasRetry, Trying, AtCerebras, k
    <3> HIDE DEF r
    <3> QED BY <2>1, <3>2, <3>3
  <2>3. CASE OllamaRetry(c)
    <3> DEFINE r == [k EXCEPT !.tries = k.tries + 1]
    <3>1. k.pc = "ollama" /\ (Now(c, r) \/ ProviderFails(c))
      BY <2>3 DEF OllamaRetry, At, k
    <3>2. r.pc = k.pc /\ r.tries = k.tries + 1
      BY <1>0 DEF Calls
    <3> HIDE DEF r
    <3> QED BY <1>7, <2>1, <3>1, <3>2 DEF Asking
  <2> QED BY <1>10, <2>2, <2>3
<1>11. CASE CerebrasRefused(c) \/ CerebrasParse(c) \/ OllamaParse(c) \/ OllamaPanic(c)
  <2>1. k.pc \in Asking
    BY <1>11 DEF CerebrasRefused, CerebrasParse, OllamaParse, OllamaPanic, Trying, AtCerebras, At, Asking, k
  <2> QED BY <1>2, <1>7, <1>8, <1>11, <2>1 DEF CerebrasRefused, CerebrasParse, OllamaParse, OllamaPanic
<1>12. CASE MatchList(c) \/ MatchTool(c) \/ MatchSearch(c)
  <2>1. ASSUME NEW r, Now(c, r), \/ k.pc = "list" /\ r.pc = "match"
                                 \/ k.pc = "match" /\ r.pc = "search"
        PROVE  ToGo(call'[c]) < ToGo(k)
    <3>1. ToGo(r) < ToGo(k)
      BY <2>1, ToGoAt
    <3> QED BY <1>1, <2>1, <3>1
  <2>2. CASE MatchList(c)
    <3> DEFINE r == [k EXCEPT !.seen = AllTools(registered), !.pc = "match"]
    <3>1. k.pc = "list" /\ (Now(c, r) \/ Answer(c, "notfound"))
      BY <2>2 DEF MatchList, At, k
    <3>2. r.pc = "match"
      BY <1>0 DEF Calls
    <3> HIDE DEF r
    <3> QED BY <1>2, <2>1, <3>1, <3>2
  <2>3. CASE MatchTool(c)
    BY <1>2, <1>3, <1>4, <2>1, <2>3 DEF MatchTool, At, Matching, k
  <2>4. CASE MatchSearch(c)
    BY <1>5, <2>4 DEF MatchSearch, Matching
  <2> QED BY <1>12, <2>2, <2>3, <2>4
<1>13. CASE Extract(c) \/ ExtractPanic(c) \/ ExecuteSync(c) \/ ExecuteAsync(c)
  <2>1. CASE Extract(c)
    <3>1. PICK r : Now(c, r) /\ r.pc = "execute" /\ k.pc = "call"
      BY <1>4, <2>1 DEF Extract, Extracts, At, k
    <3>2. ToGo(r) < ToGo(k)
      BY <3>1, ToGoAt
    <3> QED BY <1>1, <3>1, <3>2
  <2> QED BY <1>2, <1>13, <2>1 DEF ExtractPanic, ExecuteSync, ExecuteAsync
<1> QED BY <1>6, <1>9, <1>10, <1>11, <1>12, <1>13 DEF Step

(***************************************************************************)
(* Every step of a call lowers the number of those it has still to take,   *)
(* and no change of the registry, no failure of a provider for another     *)
(* call raises it: it is answered after at most Longest steps of its own.  *)
(***************************************************************************)
THEOREM CallsEnd == Spec => [][CountsDown]_vars
<1>1. ASSUME Inv, Next, NEW c \in Caller, InCall(c), ~Step(c)
      PROVE  call'[c].pc = call[c].pc /\ call'[c].tries = call[c].tries
  <2>1. call \in [Caller -> Calls]
    BY <1>1 DEF Inv, AllCalls
  <2>2. ASSUME NEW tks, Change(tks) PROVE call'[c].pc = call[c].pc /\ call'[c].tries = call[c].tries
    BY <2>1, <2>2 DEF Change, Calls
  <2>3. ~Arrive(c)
    BY <1>1 DEF InCall, Arrive, CallTooEarly, CallNothing, CallQuery, CallName, ExecuteTool, At
  <2>4. ASSUME NEW d \in Caller \ {c}, Arrive(d) \/ Step(d) PROVE call'[c] = call[c]
    <3>1. PICK r : Now(d, r)
      BY <2>4, OneRecord
    <3> QED BY <1>1, <3>1, NowIs
  <2>5. CASE Initialize
    BY <2>5 DEF Initialize
  <2> QED BY <1>1, <2>2, <2>3, <2>4, <2>5 DEF Next, Register, Unregister
<1>2. ASSUME Inv, Next PROVE CountsDown
  <2> SUFFICES ASSUME NEW c \in Caller, InCall(c)
               PROVE  /\ ToGo(call[c]) \in 1..Longest
                      /\ ToGo(call'[c]) <= ToGo(call[c])
                      /\ Step(c) => ToGo(call'[c]) < ToGo(call[c])
    BY DEF CountsDown
  <2>1. ToGo(call[c]) \in 1..Longest
    <3>1. call[c] \in Calls /\ call[c].pc \notin {"new", "answered"}
      BY <1>2 DEF Inv, AllCalls, InCall
    <3> QED BY <3>1, ToGoBounds, RetriesAssumption DEF Longest
  <2>2. ToGo(call'[c]) \in Nat
    <3>1. call'[c] \in Calls
      BY <1>2, NextKeeps DEF Inv, AllCalls
    <3> QED BY <3>1, ToGoBounds, RetriesAssumption DEF Longest
  <2>3. CASE Step(c)
    <3>1. ToGo(call'[c]) < ToGo(call[c])
      BY <1>2, <2>3, Nearer
    <3> QED BY <2>1, <2>2, <3>1
  <2>4. CASE ~Step(c)
    <3>1. ToGo(call'[c]) = ToGo(call[c])
      BY <1>1, <1>2, <2>4 DEF ToGo
    <3> QED BY <2>1, <2>4, <3>1 DEF Longest
  <2> QED BY <2>3, <2>4
<1>3. Inv /\ [Next]_vars => [CountsDown]_vars
  BY <1>2
<1> QED BY <1>3, Invariant, PTL DEF Spec
=============================================================================
