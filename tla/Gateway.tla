------------------------------ MODULE Gateway -------------------------------
(***************************************************************************)
(* How calls of many principals reach the stores of all tenants.  A REST   *)
(* call is identified by its dependency and handed to a service; an MCP    *)
(* tool call passes the middleware (identity and scopes of the tool), then *)
(* the tool resolves a principal of its own for the service, and the       *)
(* middleware weighs the result.  A service authorises, validates, and     *)
(* reads or changes what it addresses by key.                              *)
(*                                                                         *)
(* What services do await by await is in IngestApi, ScratchQuota and       *)
(* ReadPath; here each serves a call in one step.                          *)
(***************************************************************************)
EXTENDS Access, Integers, FiniteSets

CONSTANTS
  Contents,      \* bytes of documents, texts, cursors of connectors
  Extracts,      \* Extracts[c]: what the API's extraction of c comes to
  Size,          \* Size[c]: bytes of c
  Callers,       \* calls in flight
  SettingsUsed,  \* the deployments of the instance
  Populations,   \* what the stores may hold at first
  Requests,      \* what callers may ask
  MaxCalls       \* bound: calls received

(* Routes of the REST surface and tools of the MCP mount, with the service *)
(* operation each hands its call to.                                       *)
Routes ==
  [me |-> "whoami", entries |-> "list", stat |-> "stat", doc |-> "read",
   put_doc |-> "put", delete_doc |-> "delete",
   get_checkpoint |-> "get_checkpoint", put_checkpoint |-> "put_checkpoint"]

Tools ==
  [whoami |-> "whoami",
   fs_list |-> "list", fs_glob |-> "list", fs_tree |-> "list", fs_find |-> "list",
   fs_stat |-> "stat", fs_read |-> "read", fs_outline |-> "read", fs_tables |-> "read",
   fs_diff |-> "read", fs_grep |-> "grep",
   scratch_write |-> "scratch_write", scratch_read |-> "scratch_read",
   scratch_list |-> "scratch_list", scratch_delete |-> "scratch_delete"]

(* required_scopes of the tools.                                           *)
ToolScopes ==
  [tool \in DOMAIN Tools |->
     CASE tool = "whoami" -> {}
       [] tool \in {"scratch_write", "scratch_read", "scratch_list", "scratch_delete"} ->
            {"fs:write:scratch"}
       [] OTHER -> {"fs:read"}]

Reads == {"list", "stat", "read", "grep"}
Ingests == {"put", "delete"}
Syncs == {"get_checkpoint", "put_checkpoint"}
Scratches == {"scratch_write", "scratch_read", "scratch_list", "scratch_delete"}
Operations == Reads \union Ingests \union Syncs \union Scratches \union {"whoami"}

(* require_scope of the services and of the connector routes.              *)
Required ==
  [o \in Operations |->
     CASE o \in Reads -> {"fs:read"}
       [] o \in Ingests \union Syncs -> {"ingest"}
       [] o \in Scratches -> {"fs:write:scratch"}
       [] OTHER -> {}]

Request ==
  [surface: {"rest"}, name: DOMAIN Routes, token: Tokens \union {Nothing},
   namespace: Namespaces, path: Paths, content: Contents, connector: Connectors] \union
  [surface: {"mcp"}, name: DOMAIN Tools \union {"tools/list"}, token: Tokens \union {Nothing},
   namespace: Namespaces, path: Paths, content: Contents, connector: Connectors]

OperationOf(r) == IF r.surface = "rest" THEN Routes[r.name] ELSE Tools[r.name]

(* An item of the table: a document's row, a usage item or a checkpoint.   *)
Extractions == {"none", "pending", "extracted", "catalog_only"}
Item == [content: Contents \union {Nothing}, status: Extractions,
         live: BOOLEAN, bytes: Int]
NoItem == [content |-> Nothing, status |-> "none", live |-> FALSE, bytes |-> 0]

(* What an extraction raises: InvalidKeyError at a page whose number no    *)
(* key can hold, or whatever an engine raises and the pipeline lets pass.  *)
Raised == {"invalid_key", "internal_error"}

ASSUME ContentAssumption ==
  /\ Extracts \in [Contents -> {"extracted", "catalog_only"} \union Raised]
  /\ Size \in [Contents -> Nat]
  /\ Nothing \notin Contents
ASSUME RequestAssumption == Requests \subseteq Request
ASSUME DeploymentAssumption == SettingsUsed \subseteq {s \in Settings : Starts(s)}
(* Rows come from put_document and extract_object, behind a built key, and *)
(* pages are kept for live rows, for those extracted if for any.           *)
Population ==
  {p \in [objects: [ObjectKeys -> Contents \union {Nothing}], table: [TableKeys -> Item]] :
     \A t \in Tenants, n \in Namespaces, path \in Paths :
       LET row == p.table[DocumentItem(t, n, path)]
           text == p.objects[TextKey(t, n, path)]
       IN  /\ row.live => CanBuild(t, n, path)
           /\ text # Nothing => row.live
           /\ row.live /\ row.status = "extracted" => text # Nothing}
ASSUME PopulationAssumption == \A p \in Populations : p \in Population
ASSUME BoundAssumption == MaxCalls \in Nat

VARIABLES
  settings,   \* those the server was started with
  objects,    \* the bucket: key -> content
  table,      \* the catalog: partition and sort key -> item
  calls,      \* the calls in flight
  received    \* how many calls were received, for the bound

stores == <<objects, table>>
vars == <<settings, objects, table, calls, received>>

Refusals ==
  {"unauthenticated", "insufficient_scope", "namespace_not_found", "document_not_found",
   "invalid_key", "catalog_only", "over_budget", "internal_error"}

(* What an answer tells: paths, contents, statuses, usage, names of tools. *)
Fact == [path: Paths \union {<<>>}, content: Contents \union {Nothing},
         status: Extractions \union DOMAIN Tools \union Principals, bytes: Int]
Tells(path, content, status, bytes) ==
  [path |-> path, content |-> content, status |-> status, bytes |-> bytes]
Word(word) == Tells(<<>>, Nothing, word, 0)

Answer == [status: {"none", "ok"} \union Refusals, body: SUBSET Fact]
Unanswered == [status |-> "none", body |-> {}]
Refuse(why) == [status |-> why, body |-> {}]
Ok(body) == [status |-> "ok", body |-> body]

Touched == [bucket: BOOLEAN, catalog: BOOLEAN]
Untouched == [bucket |-> FALSE, catalog |-> FALSE]

Call ==
  [pc: {"arrived", "tool", "service", "reply", "done"}, request: Request,
   context: Context \union {Nothing}, answer: Answer,
   touched: Touched]    \* history: which of the stores did it change?

CallOf(pc, request, context, answer, touched) ==
  [pc |-> pc, request |-> request, context |-> context, answer |-> answer,
   touched |-> touched]

ASSUME CallAssumption == Nothing \notin Call

(* TypeOK: the stores, the calls and their answers have the right kinds of *)
(* values, and a call has a principal when a service is to serve it.       *)
TypeOK ==
  /\ settings \in SettingsUsed
  /\ objects \in [ObjectKeys -> Contents \union {Nothing}]
  /\ table \in [TableKeys -> Item]
  /\ calls \in [Callers -> Call \union {Nothing}]
  /\ \A c \in Callers : calls[c] # Nothing =>
       /\ calls[c].pc = "service" =>
            calls[c].context # Nothing /\ calls[c].request.name # "tools/list"
       /\ calls[c].pc \in {"reply", "done"} => calls[c].answer.status # "none"
  /\ received \in 0..MaxCalls

Init ==
  /\ settings \in SettingsUsed
  /\ \E population \in Populations :
       objects = population.objects /\ table = population.table
  /\ calls = [c \in Callers |-> Nothing]
  /\ received = 0

-----------------------------------------------------------------------------
(* A call until it is served.                                              *)

At(c, pc) == calls[c] # Nothing /\ calls[c].pc = pc

Receive(c, r) ==
  /\ received < MaxCalls /\ (calls[c] # Nothing => calls[c].pc = "done")
  /\ received' = received + 1
  /\ calls' = [calls EXCEPT ![c] = CallOf("arrived", r, Nothing, Unanswered, Untouched)]
  /\ UNCHANGED <<settings, objects, table>>

GoesTo(c, pc, context) ==
  /\ calls' = [calls EXCEPT ![c] =
       CallOf(pc, calls[c].request, context, Unanswered, Untouched)]
  /\ UNCHANGED <<settings, objects, table, received>>

Ends(c, answer) ==
  /\ calls' = [calls EXCEPT ![c] =
       CallOf("done", calls[c].request, calls[c].context, answer, calls[c].touched)]
  /\ UNCHANGED <<settings, objects, table, received>>

IdentifyRestOpen(c) ==   \* mutant: what cannot be identified is let in
  LET token == calls[c].request.token
  IN  /\ At(c, "arrived") /\ calls[c].request.surface = "rest"
      /\ GoesTo(c, "service",
               IF Identified(settings, token) THEN Identity(settings, token) ELSE Nothing)

(* get_principal, the dependency of every route.                           *)
IdentifyRest(c) ==
  LET token == calls[c].request.token
  IN  /\ At(c, "arrived") /\ calls[c].request.surface = "rest"
      /\ \/ Identified(settings, token) /\ GoesTo(c, "service", Identity(settings, token))
         \/ ~Identified(settings, token) /\ Ends(c, Refuse("unauthenticated"))

(* on_list_tools: without an identity nothing is visible.                  *)
Visible(s, token) ==
  IF Identified(s, token)
  THEN {tool \in DOMAIN Tools : ToolScopes[tool] \subseteq Identity(s, token).scopes}
  ELSE {}

ListTools(c) ==
  /\ At(c, "arrived") /\ calls[c].request.name = "tools/list"
  /\ \/ /\ Passes(settings, calls[c].request.token)
        /\ Ends(c, Ok({Word(tool) : tool \in Visible(settings, calls[c].request.token)}))
     \/ ~Passes(settings, calls[c].request.token) /\ Ends(c, Refuse("unauthenticated"))

(* on_call_tool, up to call_next.                                          *)
Allowed(tool, context) == ToolScopes[tool] \subseteq context.scopes

Gate(c) ==
  LET r == calls[c].request
  IN  /\ At(c, "arrived") /\ r.surface = "mcp" /\ r.name # "tools/list"
      /\ \/ ~Identified(settings, r.token) /\ Ends(c, Refuse("unauthenticated"))
         \/ /\ Identified(settings, r.token)
            /\ ~Allowed(r.name, Identity(settings, r.token))
            /\ Ends(c, Refuse("insufficient_scope"))
         \/ /\ Identified(settings, r.token)
            /\ Allowed(r.name, Identity(settings, r.token))
            /\ GoesTo(c, "tool", Identity(settings, r.token))

(* deps.resolve() in the tool: what the middleware found is not passed on. *)
ResolveTool(c) ==
  /\ At(c, "tool")
  /\ \/ ToolsIdentified(settings) /\ GoesTo(c, "service", DevContext(settings))
     \/ ~ToolsIdentified(settings) /\ Ends(c, Refuse("unauthenticated"))

-----------------------------------------------------------------------------
(* The services.                                                           *)

(* Conjoined after the changes to the stores.                              *)
Answers(c, answer) ==
  /\ calls' = [calls EXCEPT ![c] =
       CallOf("reply", calls[c].request, calls[c].context, answer,
              [bucket |-> objects' # objects, catalog |-> table' # table])]
  /\ UNCHANGED <<settings, received>>

Only(c, answer) == UNCHANGED stores /\ Answers(c, answer)

Serving(c, operation) == At(c, "service") /\ OperationOf(calls[c].request) = operation

(* _authorize: the scope first, then the namespace, whose absence and      *)
(* whose not being granted are told by the same error.                     *)
Scoped(c) ==
  Required[OperationOf(calls[c].request)] \subseteq calls[c].context.scopes
Granted(c) ==
  OperationOf(calls[c].request) \in Reads \union Ingests =>
    calls[c].request.namespace \in calls[c].context.namespaces
Authorized(c) == Scoped(c) /\ Granted(c)

Deny(c) ==
  /\ At(c, "service")
  /\ \/ ~Scoped(c) /\ Only(c, Refuse("insufficient_scope"))
     \/ Scoped(c) /\ ~Granted(c) /\ Only(c, Refuse("namespace_not_found"))

Who(c) == calls[c].context
What(c) == calls[c].request
Owner(c) == IF OperationOf(What(c)) \in Scratches THEN Who(c).principal ELSE What(c).namespace

DocumentAt(c) == DocumentItem(Who(c).tenant, What(c).namespace, What(c).path)
OriginalAt(c) == OriginalKey(Who(c).tenant, What(c).namespace, What(c).path)
TextAt(c) == TextKey(Who(c).tenant, What(c).namespace, What(c).path)
ScratchAt(c) == ScratchKey(Who(c).tenant, Who(c).principal, What(c).path)
UsageAt(c) == UsageItem(Who(c).tenant, Who(c).principal)
CheckpointAt(c) == CheckpointItem(Who(c).tenant, What(c).connector)

(* What an answer says of a row, and of the pages behind one.              *)
Row(path, item) == Tells(path, item.content, item.status, 0)
Text(path, text) == Tells(path, text, "extracted", 0)

WhoAmI(c) ==
  Serving(c, "whoami") /\ Only(c, Ok({Word(Who(c).principal)}))

List(c) ==
  LET at(p) == table[DocumentItem(Who(c).tenant, What(c).namespace, p)]
  IN  /\ Serving(c, "list") /\ Authorized(c)
      /\ Only(c, Ok({Row(p, at(p)) : p \in {q \in Paths : at(q).live}}))

(* grep: the pages of what is extracted.                                   *)
Grep(c) ==
  LET at(p) == table[DocumentItem(Who(c).tenant, What(c).namespace, p)]
      text(p) == objects[TextKey(Who(c).tenant, What(c).namespace, p)]
  IN  /\ Serving(c, "grep") /\ Authorized(c)
      /\ Only(c, Ok({Text(p, text(p)) :
                       p \in {q \in Paths : at(q).live /\ at(q).status = "extracted"}}))

(* stat, and read, outline, tables and diff, which begin with it.          *)
Stat(c) ==
  LET row == table[DocumentAt(c)]
  IN  /\ Serving(c, "stat") /\ Authorized(c)
      /\ \/ ~RelpathOk(What(c).path) /\ Only(c, Refuse("invalid_key"))
         \/ RelpathOk(What(c).path) /\ ~row.live /\ Only(c, Refuse("document_not_found"))
         \/ RelpathOk(What(c).path) /\ row.live /\ Only(c, Ok({Row(What(c).path, row)}))

Read(c) ==
  LET row == table[DocumentAt(c)]
  IN  /\ Serving(c, "read") /\ Authorized(c)
      /\ \/ ~RelpathOk(What(c).path) /\ Only(c, Refuse("invalid_key"))
         \/ RelpathOk(What(c).path) /\ ~row.live /\ Only(c, Refuse("document_not_found"))
         \/ /\ RelpathOk(What(c).path) /\ row.live
            /\ \/ row.status # "extracted" /\ Only(c, Refuse("catalog_only"))
               \/ /\ row.status = "extracted"
                  /\ Only(c, Ok({Text(What(c).path, objects[TextAt(c)])}))

(* put_document validates the path first; that the tenant or the namespace *)
(* is no slug is found by the builder of the key, before anything is put.  *)
Buildable(c) == CanBuild(Who(c).tenant, Owner(c), What(c).path)

Outcome(c) == IF settings.async THEN "pending" ELSE Extracts[What(c).content]
Fails(c) == Outcome(c) \in Raised

NewRow(c) == [content |-> What(c).content, status |-> Outcome(c), live |-> TRUE, bytes |-> 0]

(* The original is put before the extraction.  That puts its pages one by  *)
(* one under the id of the live row, if there is one, which the new row    *)
(* keeps: also those before a page it fails at.  Without a row the id is   *)
(* new, and pages left under an id that no row gets are found by nobody.   *)
PutsText(c) ==
  \/ Outcome(c) = "extracted"
  \/ Outcome(c) = "invalid_key" /\ table[DocumentAt(c)].live

PutObjects(c) ==
  LET original == [objects EXCEPT ![OriginalAt(c)] = What(c).content]
  IN  IF PutsText(c) THEN [original EXCEPT ![TextAt(c)] = What(c).content] ELSE original

PutRowFirst(c) ==   \* mutant: the row is written before the extraction
  /\ Serving(c, "put") /\ Authorized(c)
  /\ \/ ~Buildable(c) /\ Only(c, Refuse("invalid_key"))
     \/ /\ Buildable(c)
        /\ objects' = PutObjects(c)
        /\ \/ /\ Fails(c)
              /\ table' = [table EXCEPT ![DocumentAt(c)] = [NewRow(c) EXCEPT !.status = "pending"]]
              /\ Answers(c, Refuse(Outcome(c)))
           \/ /\ ~Fails(c)
              /\ table' = [table EXCEPT ![DocumentAt(c)] = NewRow(c)]
              /\ Answers(c, Ok({Row(What(c).path, NewRow(c))}))

(* What the extraction raises is the answer: the row is written last.      *)
Put(c) ==
  /\ Serving(c, "put") /\ Authorized(c)
  /\ \/ ~Buildable(c) /\ Only(c, Refuse("invalid_key"))
     \/ /\ Buildable(c)
        /\ objects' = PutObjects(c)
        /\ \/ Fails(c) /\ UNCHANGED table /\ Answers(c, Refuse(Outcome(c)))
           \/ /\ ~Fails(c)
              /\ table' = [table EXCEPT ![DocumentAt(c)] = NewRow(c)]
              /\ Answers(c, Ok({Row(What(c).path, NewRow(c))}))

(* delete_document tombstones the row, if any, before it builds the key of *)
(* the original; the pages of a row that was live go last.                 *)
DeletedObjects(c) ==
  LET gone == [objects EXCEPT ![OriginalAt(c)] = Nothing]
  IN  IF table[DocumentAt(c)].live THEN [gone EXCEPT ![TextAt(c)] = Nothing] ELSE gone

Delete(c) ==
  /\ Serving(c, "delete") /\ Authorized(c)
  /\ \/ ~RelpathOk(What(c).path) /\ Only(c, Refuse("invalid_key"))
     \/ /\ RelpathOk(What(c).path)
        /\ table' = [table EXCEPT ![DocumentAt(c)].live = FALSE]
        /\ \/ ~Buildable(c) /\ UNCHANGED objects /\ Answers(c, Refuse("invalid_key"))
           \/ /\ Buildable(c)
              /\ objects' = DeletedObjects(c)
              /\ Answers(c, Ok({}))

(* The routes of the connectors: no namespace is asked for.                *)
GetCheckpoint(c) ==
  /\ Serving(c, "get_checkpoint") /\ Authorized(c)
  /\ Only(c, Ok({Tells(<<>>, table[CheckpointAt(c)].content, "none", 0)}))

PutCheckpoint(c) ==
  /\ Serving(c, "put_checkpoint") /\ Authorized(c)
  /\ table' = [table EXCEPT ![CheckpointAt(c)].content = What(c).content]
  /\ UNCHANGED objects
  /\ Answers(c, Ok({}))

-----------------------------------------------------------------------------
(* The scratch workspace.  No code records a quota for a principal, so the *)
(* adjustment is never refused here; ScratchQuota has the quota.           *)

Stored(key) == IF objects[key] = Nothing THEN 0 ELSE Size[objects[key]]

Charge(c, bytes) ==
  table' = [table EXCEPT ![UsageAt(c)].bytes = @ + bytes]

Usage(c, bytes) ==
  {Tells(What(c).path, Nothing, "none", table[UsageAt(c)].bytes + bytes)}

ScratchWrite(c) ==
  LET added == Size[What(c).content] - Stored(ScratchAt(c))
  IN  /\ Serving(c, "scratch_write") /\ Authorized(c)
      /\ \/ ~Buildable(c) /\ Only(c, Refuse("invalid_key"))
         \/ /\ Buildable(c)
            /\ Charge(c, added)
            /\ objects' = [objects EXCEPT ![ScratchAt(c)] = What(c).content]
            /\ Answers(c, Ok(Usage(c, added)))

ScratchRead(c) ==
  /\ Serving(c, "scratch_read") /\ Authorized(c)
  /\ \/ ~Buildable(c) /\ Only(c, Refuse("invalid_key"))
     \/ /\ Buildable(c)
        /\ \/ objects[ScratchAt(c)] = Nothing /\ Only(c, Refuse("document_not_found"))
           \/ /\ objects[ScratchAt(c)] # Nothing
              /\ Only(c, Ok({Tells(What(c).path, objects[ScratchAt(c)], "none", 0)}))

(* Mutant: the prefix stops at the tenant.                                 *)
ScratchListTenant(c) ==
  LET under(p) == {ScratchKey(Who(c).tenant, u, p) : u \in Principals}
  IN  /\ Serving(c, "scratch_list") /\ Authorized(c)
      /\ Only(c, Ok({Tells(p, Nothing, "none", 0) :
                       p \in {q \in Paths : \E k \in under(q) : objects[k] # Nothing}}))

(* list validates nothing: it asks for the objects under the caller's own  *)
(* prefix.                                                                 *)
ScratchList(c) ==
  LET at(p) == ScratchKey(Who(c).tenant, Who(c).principal, p)
  IN  /\ Serving(c, "scratch_list") /\ Authorized(c)
      /\ Only(c, Ok({Tells(p, Nothing, "none", 0) : p \in {q \in Paths : objects[at(q)] # Nothing}}))

ScratchDelete(c) ==
  LET freed == -Stored(ScratchAt(c))
  IN  /\ Serving(c, "scratch_delete") /\ Authorized(c)
      /\ \/ ~Buildable(c) /\ Only(c, Refuse("invalid_key"))
         \/ /\ Buildable(c)
            /\ \/ objects[ScratchAt(c)] = Nothing /\ Only(c, Refuse("document_not_found"))
               \/ /\ objects[ScratchAt(c)] # Nothing
                  /\ objects' = [objects EXCEPT ![ScratchAt(c)] = Nothing]
                  /\ Charge(c, freed)
                  /\ Answers(c, Ok(Usage(c, freed)))

Serve(c) ==
  \/ Deny(c) \/ WhoAmI(c)
  \/ List(c) \/ Grep(c) \/ Stat(c) \/ Read(c)
  \/ Put(c) \/ Delete(c) \/ GetCheckpoint(c) \/ PutCheckpoint(c)
  \/ ScratchWrite(c) \/ ScratchRead(c) \/ ScratchList(c) \/ ScratchDelete(c)

-----------------------------------------------------------------------------
(* The way back: errors pass as they are; the middleware refuses a tool's  *)
(* result that is over the budget, whatever the tool did to get it.        *)

Weight(body) == Cardinality(UNION {{fact} \X (0..Len(fact.path)) : fact \in body})

OverBudget(c) ==
  /\ calls[c].request.surface = "mcp" /\ calls[c].answer.status = "ok"
  /\ settings.budget > 0 /\ Weight(calls[c].answer.body) > settings.budget

Reply(c) ==
  /\ At(c, "reply")
  /\ \/ OverBudget(c) /\ Ends(c, Refuse("over_budget"))
     \/ ~OverBudget(c) /\ Ends(c, calls[c].answer)

Step(c) ==
  IdentifyRest(c) \/ ListTools(c) \/ Gate(c) \/ ResolveTool(c) \/ Serve(c) \/ Reply(c)

Next == \E c \in Callers : Step(c) \/ \E r \in Requests : Receive(c, r)

Spec == Init /\ [][Next]_vars
-----------------------------------------------------------------------------
(* A PUT whose content was stored and could then not be extracted.         *)
ExtractionFailed(call) ==
  /\ call.request.surface = "rest" /\ call.request.name = "put_doc" /\ ~settings.async
  /\ call.answer.status = Extracts[call.request.content] /\ call.answer.status \in Raised

(* A call that was refused has left the catalog as it was, whatever else   *)
(* it had done by then: no row, usage or cursor says what its caller was   *)
(* told had failed.  It has left the bucket as it was too, unless it is a  *)
(* PUT whose extraction failed once the original was stored (services/     *)
(* ingest.py:91-107, extraction/runner.py:55-60), which was then told just *)
(* that error.  Delete writes its row before the key of the original is    *)
(* found to be impossible (ingest.py:182-183): no such document has a row. *)
(* Only a result that is over the budget is refused after everything is    *)
(* done (tools/middleware.py:98-114); no other refusal is excepted.        *)
RefusedLeavesRows ==
  \A c \in Callers : calls[c] # Nothing /\ calls[c].pc = "done" =>
    LET call == calls[c]
    IN  call.answer.status \notin {"ok", "over_budget"} =>
          /\ ~call.touched.catalog
          /\ call.touched.bucket => ExtractionFailed(call)

(* docs/decisions/0013-auth-oauth-resource-server.md:71: resolve_context   *)
(* "reads the verified token off the request": a tool the middleware lets  *)
(* a caller use knows its caller.                                          *)
AllowedToolsWork ==
  \A c \in Callers : calls[c] # Nothing /\ calls[c].pc = "done" =>
    LET r == calls[c].request
    IN  r.surface = "mcp" /\ r.name # "tools/list" /\ Identified(settings, r.token) =>
          calls[c].answer.status # "unauthenticated"
=============================================================================
