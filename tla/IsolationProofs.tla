-------------------------- MODULE IsolationProofs --------------------------
(***************************************************************************)
(* Secrecy, for all tenants, tokens, settings and requests: two gateways   *)
(* that serve the same calls from stores that differ in one area answer    *)
(* alike whoever has no right to that area.                                *)
(***************************************************************************)
EXTENDS GatewayProofs

-----------------------------------------------------------------------------
(* What does not depend on the stores is the same in both gateways.        *)

LEMMA SameKeys ==
  /\ \A p : Twin!RelpathOk(p) = RelpathOk(p)
  /\ \A t, o, p : /\ Twin!CanBuild(t, o, p) = CanBuild(t, o, p)
                  /\ Twin!OriginalKey(t, o, p) = OriginalKey(t, o, p)
                  /\ Twin!ScratchKey(t, o, p) = ScratchKey(t, o, p)
                  /\ Twin!TextKey(t, o, p) = TextKey(t, o, p)
                  /\ Twin!DocumentItem(t, o, p) = DocumentItem(t, o, p)
  /\ \A t, o : /\ Twin!UsageItem(t, o) = UsageItem(t, o)
               /\ Twin!CheckpointItem(t, o) = CheckpointItem(t, o)
<1>1. \A p : Twin!RelpathOk(p) = RelpathOk(p)
  BY DEF Twin!RelpathOk, RelpathOk, Twin!Reserved, Reserved
<1>2. \A t, o, p : Twin!CanBuild(t, o, p) = CanBuild(t, o, p)
  BY <1>1 DEF Twin!CanBuild, CanBuild, Twin!IsSlug, IsSlug
<1> QED
  BY <1>1, <1>2 DEF Twin!OriginalKey, OriginalKey, Twin!ScratchKey, ScratchKey, Twin!TextKey,
     TextKey, Twin!DocumentItem, DocumentItem, Twin!UsageItem, UsageItem, Twin!CheckpointItem, CheckpointItem

LEMMA SameAccess ==
  \A s, token : /\ Twin!Identified(s, token) = Identified(s, token)
                /\ Twin!Identity(s, token) = Identity(s, token)
                /\ Twin!DevContext(s) = DevContext(s)
                /\ Twin!Passes(s, token) = Passes(s, token)
                /\ Twin!ToolsIdentified(s) = ToolsIdentified(s)
<1>1. \A v, d : Twin!Claim(v, d) = Claim(v, d) /\ Twin!CoerceNamespaces(v) = CoerceNamespaces(v)
  BY DEF Twin!Claim, Claim, Twin!CoerceNamespaces, CoerceNamespaces
<1>2. Twin!AllScopes = AllScopes
  BY DEF Twin!AllScopes, AllScopes
<1> TAKE s, token
<1>3. Twin!DevContext(s) = DevContext(s)
  BY <1>2 DEF Twin!DevContext, DevContext
<1>4. Twin!ContextFromClaims(s, token) = ContextFromClaims(s, token)
  BY <1>1 DEF Twin!ContextFromClaims, ContextFromClaims
<1>5. Twin!Verified(s, token) = Verified(s, token)
  BY <1>1 DEF Twin!Verified, Verified, Twin!ClaimsComplete, ClaimsComplete
<1> QED
  BY <1>3, <1>4, <1>5 DEF Twin!Identified, Identified, Twin!Identity, Identity, Twin!Passes, Passes,
     Twin!ToolsIdentified, ToolsIdentified

LEMMA SameTables ==
  /\ Twin!Routes = Routes /\ Twin!Tools = Tools /\ Twin!ToolScopes = ToolScopes
  /\ Twin!Reads = Reads /\ Twin!Ingests = Ingests /\ Twin!Syncs = Syncs
  /\ Twin!Scratches = Scratches /\ Twin!Required = Required
  /\ \A r : Twin!OperationOf(r) = OperationOf(r)
<1>1. /\ Twin!Routes = Routes /\ Twin!Tools = Tools
      /\ Twin!Reads = Reads /\ Twin!Ingests = Ingests /\ Twin!Syncs = Syncs
      /\ Twin!Scratches = Scratches
  BY DEF Twin!Routes, Routes, Twin!Tools, Tools, Twin!Reads, Reads, Twin!Ingests, Ingests,
     Twin!Syncs, Syncs, Twin!Scratches, Scratches
<1>2. Twin!ToolScopes = ToolScopes
  BY <1>1 DEF Twin!ToolScopes, ToolScopes
<1>3. Twin!Operations = Operations
  BY <1>1 DEF Twin!Operations, Operations
<1>4. Twin!Required = Required
  BY <1>1, <1>3 DEF Twin!Required, Required
<1>5. \A r : Twin!OperationOf(r) = OperationOf(r)
  BY <1>1 DEF Twin!OperationOf, OperationOf
<1> QED
  BY <1>1, <1>2, <1>4, <1>5

LEMMA SameWords ==
  /\ \A why : Twin!Refuse(why) = Refuse(why)
  /\ \A body : Twin!Ok(body) = Ok(body) /\ Twin!Weight(body) = Weight(body)
  /\ \A p, k, s, b : Twin!Tells(p, k, s, b) = Tells(p, k, s, b)
  /\ \A w : Twin!Word(w) = Word(w)
  /\ \A p, item : Twin!Row(p, item) = Row(p, item)
  /\ \A p, text : Twin!Text(p, text) = Text(p, text)
  /\ Twin!Unanswered = Unanswered /\ Twin!Untouched = Untouched
  /\ \A pc, r, ctx, a, t : Twin!CallOf(pc, r, ctx, a, t) = CallOf(pc, r, ctx, a, t)
  /\ \A s, token : Twin!Visible(s, token) = Visible(s, token)
  /\ \A tool, ctx : Twin!Allowed(tool, ctx) = Allowed(tool, ctx)
<1>1. \A p, k, s, b : Twin!Tells(p, k, s, b) = Tells(p, k, s, b)
  BY DEF Twin!Tells, Tells
<1>2. \A p, item : Twin!Row(p, item) = Row(p, item)
  BY <1>1 DEF Twin!Row, Row
<1>3. \A p, text : Twin!Text(p, text) = Text(p, text)
  BY <1>1 DEF Twin!Text, Text
<1>4. \A w : Twin!Word(w) = Word(w)
  BY <1>1 DEF Twin!Word, Word
<1>5. \A s, token : Twin!Visible(s, token) = Visible(s, token)
  BY SameAccess, SameTables DEF Twin!Visible, Visible
<1>6. \A tool, ctx : Twin!Allowed(tool, ctx) = Allowed(tool, ctx)
  BY SameTables DEF Twin!Allowed, Allowed
<1>7. \A body : Twin!Weight(body) = Weight(body)
  <2>1. \A S : Twin!Cardinality(S) = Cardinality(S)
    BY DEF Twin!Cardinality, Cardinality
  <2> QED
    BY <2>1 DEF Twin!Weight, Weight
<1>8. /\ \A why : Twin!Refuse(why) = Refuse(why)
      /\ \A body : Twin!Ok(body) = Ok(body)
      /\ Twin!Unanswered = Unanswered /\ Twin!Untouched = Untouched
      /\ \A pc, r, ctx, a, t : Twin!CallOf(pc, r, ctx, a, t) = CallOf(pc, r, ctx, a, t)
  BY DEF Twin!Refuse, Refuse, Twin!Ok, Ok, Twin!Unanswered, Unanswered, Twin!Untouched, Untouched,
     Twin!CallOf, CallOf
<1> QED
  BY <1>1, <1>2, <1>3, <1>4, <1>5, <1>6, <1>7, <1>8
-----------------------------------------------------------------------------
(* The invariant that relates the two: outside the secret area the stores  *)
(* agree, calls stand at the same point, and answers differ only where the *)
(* caller has a right to the secret.                                       *)

Learns(c) == secret \in MayLearn(settings, calls[c].request.token)

Matched(c) ==
  calls[c] # Nothing =>
    /\ otherCalls[c].pc = calls[c].pc /\ otherCalls[c].request = calls[c].request
    /\ otherCalls[c].context = calls[c].context
    /\ Learns(c) \/ otherCalls[c].answer = calls[c].answer

Domains ==
  DOMAIN otherObjects = ObjectKeys /\ DOMAIN otherTable = TableKeys /\ DOMAIN otherCalls = Callers

TInv ==
  /\ IInv /\ secret \in Areas \ {Nowhere} /\ AgreeBut(secret) /\ Domains
  /\ \A c \in Callers : Matched(c)

LEMMA SameCall ==
  ASSUME TInv, NEW c \in Callers, calls[c] # Nothing
  PROVE  /\ Twin!Who(c) = Who(c) /\ Twin!What(c) = What(c) /\ Twin!Owner(c) = Owner(c)
         /\ Twin!Scoped(c) <=> Scoped(c)
         /\ Twin!Granted(c) <=> Granted(c)
         /\ Twin!Authorized(c) <=> Authorized(c)
         /\ Twin!Buildable(c) <=> Buildable(c)
         /\ Twin!NewRow(c) = NewRow(c)
         /\ Twin!Outcome(c) = Outcome(c)
         /\ Twin!Fails(c) <=> Fails(c)
<1>1. otherCalls[c].request = calls[c].request /\ otherCalls[c].context = calls[c].context
  BY DEF TInv, Matched
<1>2. Twin!Who(c) = Who(c) /\ Twin!What(c) = What(c)
  BY <1>1 DEF Twin!Who, Who, Twin!What, What
<1>3. Twin!Owner(c) = Owner(c)
  BY <1>2, SameTables DEF Twin!Owner, Owner
<1>4. (Twin!Scoped(c) <=> Scoped(c)) /\ (Twin!Granted(c) <=> Granted(c))
  BY <1>1, SameTables DEF Twin!Scoped, Scoped, Twin!Granted, Granted
<1>5. Twin!Buildable(c) <=> Buildable(c)
  BY <1>2, <1>3, SameKeys DEF Twin!Buildable, Buildable
<1>6. Twin!Outcome(c) = Outcome(c)
  BY <1>2 DEF Twin!Outcome, Outcome
<1>7. Twin!NewRow(c) = NewRow(c)
  BY <1>2, <1>6 DEF Twin!NewRow, NewRow
<1>8. Twin!Fails(c) <=> Fails(c)
  BY <1>6 DEF Twin!Fails, Fails, Twin!Raised, Raised
<1> QED
  BY <1>2, <1>3, <1>4, <1>5, <1>6, <1>7, <1>8 DEF Twin!Authorized, Authorized

LEMMA SamePlaces ==
  ASSUME TInv, NEW c \in Callers, calls[c] # Nothing
  PROVE  /\ Twin!DocumentAt(c) = DocumentAt(c) /\ Twin!OriginalAt(c) = OriginalAt(c)
         /\ Twin!ScratchAt(c) = ScratchAt(c) /\ Twin!UsageAt(c) = UsageAt(c)
         /\ Twin!CheckpointAt(c) = CheckpointAt(c) /\ Twin!TextAt(c) = TextAt(c)
BY SameCall, SameKeys DEF Twin!TextAt, TextAt, Twin!DocumentAt, DocumentAt, Twin!OriginalAt, OriginalAt, Twin!ScratchAt,
   ScratchAt, Twin!UsageAt, UsageAt, Twin!CheckpointAt, CheckpointAt

-----------------------------------------------------------------------------
(* A step both take.                                                       *)

Follows(c) ==
  /\ AgreeBut(secret)' /\ Domains' /\ settings' = settings
  /\ \A d \in Callers \ {c} : calls'[d] = calls[d] /\ otherCalls'[d] = otherCalls[d]
  /\ Matched(c)'

LEMMA BothChange ==
  ASSUME TInv, NEW c \in Callers, calls[c] # Nothing, secret' = secret,
         NEW pc, NEW ctx, NEW other, NEW a, NEW b, NEW t, NEW u,
         calls' = [calls EXCEPT ![c] = CallOf(pc, calls[c].request, ctx, a, t)],
         otherCalls' =
           [otherCalls EXCEPT ![c] = Twin!CallOf(pc, otherCalls[c].request, other, b, u)],
         other = ctx, Learns(c) \/ a = b, settings' = settings,
         AgreeBut(secret)', DOMAIN otherObjects' = ObjectKeys, DOMAIN otherTable' = TableKeys
  PROVE  Follows(c)
<1>1. DOMAIN calls = Callers /\ DOMAIN otherCalls = Callers
  BY DEF TInv, IInv, TypeOK, Domains
<1>2. \A d \in Callers \ {c} : calls'[d] = calls[d] /\ otherCalls'[d] = otherCalls[d]
  BY <1>1
<1>3. /\ calls'[c] = CallOf(pc, calls[c].request, ctx, a, t)
      /\ otherCalls'[c] = CallOf(pc, otherCalls[c].request, other, b, u)
      /\ DOMAIN otherCalls' = Callers
  BY <1>1, SameWords
<1>4. otherCalls[c].request = calls[c].request
  BY DEF TInv, Matched
<1>5. /\ calls'[c].pc = pc /\ calls'[c].request = calls[c].request
      /\ calls'[c].context = ctx /\ calls'[c].answer = a
      /\ otherCalls'[c].pc = pc /\ otherCalls'[c].request = calls[c].request
      /\ otherCalls'[c].context = ctx /\ otherCalls'[c].answer = b
  BY <1>3, <1>4, CallOfFields
<1>6. Matched(c)'
  BY <1>5 DEF Matched, Learns
<1> QED
  BY <1>2, <1>3, <1>6 DEF Follows, Domains

LEMMA StoresStay ==
  ASSUME TInv, secret' = secret, UNCHANGED <<objects, table, otherObjects, otherTable>>
  PROVE  AgreeBut(secret)' /\ DOMAIN otherObjects' = ObjectKeys /\ DOMAIN otherTable' = TableKeys
BY DEF TInv, AgreeBut, Domains

LEMMA BothGo ==
  ASSUME TInv, NEW c \in Callers, calls[c] # Nothing, secret' = secret, NEW pc, NEW ctx, NEW other,
         GoesTo(c, pc, ctx), Twin!GoesTo(c, pc, other), other = ctx
  PROVE  Follows(c)
BY StoresStay, BothChange, SameWords DEF GoesTo, Twin!GoesTo

LEMMA BothEnd ==
  ASSUME TInv, NEW c \in Callers, calls[c] # Nothing, secret' = secret, NEW a, NEW b,
         Ends(c, a), Twin!Ends(c, b), Learns(c) \/ a = b
  PROVE  Follows(c)
<1>1. otherCalls[c].context = calls[c].context
  BY DEF TInv, Matched
<1> QED
  BY <1>1, StoresStay, BothChange DEF Ends, Twin!Ends

LEMMA BothAnswer ==
  ASSUME TInv, NEW c \in Callers, calls[c] # Nothing, secret' = secret, NEW a, NEW b,
         Answers(c, a), Twin!Answers(c, b), Learns(c) \/ a = b,
         AgreeBut(secret)', DOMAIN otherObjects' = ObjectKeys, DOMAIN otherTable' = TableKeys
  PROVE  Follows(c)
<1>1. otherCalls[c].context = calls[c].context
  BY DEF TInv, Matched
<1> QED
  BY <1>1, BothChange DEF Answers, Twin!Answers

LEMMA BothOnly ==
  ASSUME TInv, NEW c \in Callers, calls[c] # Nothing, secret' = secret, NEW a, NEW b,
         Only(c, a), Twin!Only(c, b), Learns(c) \/ a = b
  PROVE  Follows(c)
<1>1. UNCHANGED <<objects, table, otherObjects, otherTable>>
  BY DEF Only, Twin!Only, stores, Twin!stores
<1> QED
  BY <1>1, StoresStay, BothAnswer DEF Only, Twin!Only
-----------------------------------------------------------------------------
(* Before and after a service: nothing is read from the stores.            *)

LEMMA SameRequest ==
  ASSUME TInv, NEW c \in Callers, calls[c] # Nothing
  PROVE  otherCalls[c].request = calls[c].request
BY DEF TInv, Matched

LEMMA TogetherFromRest ==
  ASSUME TInv, NEW c \in Callers, secret' = secret, IdentifyRest(c), Twin!IdentifyRest(c)
  PROVE  Follows(c)
<1> DEFINE token == calls[c].request.token
<1>1. calls[c] # Nothing /\ otherCalls[c].request.token = token
  BY SameRequest DEF IdentifyRest, At
<1>2. CASE Identified(settings, token)
  <2>1. GoesTo(c, "service", Identity(settings, token))
    BY <1>2 DEF IdentifyRest
  <2>2. Twin!GoesTo(c, "service", Twin!Identity(settings, token))
    BY <1>1, <1>2, SameAccess DEF Twin!IdentifyRest
  <2> QED
    BY <1>1, <2>1, <2>2, SameAccess, BothGo
<1>3. CASE ~Identified(settings, token)
  <2>1. Ends(c, Refuse("unauthenticated"))
    BY <1>3 DEF IdentifyRest
  <2>2. Twin!Ends(c, Twin!Refuse("unauthenticated"))
    BY <1>1, <1>3, SameAccess DEF Twin!IdentifyRest
  <2> QED
    BY <1>1, <2>1, <2>2, SameWords, BothEnd
<1> QED
  BY <1>2, <1>3

LEMMA TogetherListTools ==
  ASSUME TInv, NEW c \in Callers, secret' = secret, ListTools(c), Twin!ListTools(c)
  PROVE  Follows(c)
<1> DEFINE token == calls[c].request.token
           told == Ok({Word(tool) : tool \in Visible(settings, token)})
<1>1. calls[c] # Nothing /\ otherCalls[c].request.token = token
  BY SameRequest DEF ListTools, At
<1>2. CASE Passes(settings, token)
  <2>1. Ends(c, told)
    BY <1>2 DEF ListTools
  <2>2. Twin!Ends(c, Twin!Ok({Twin!Word(tool) : tool \in Twin!Visible(settings, token)}))
    BY <1>1, <1>2, SameAccess DEF Twin!ListTools
  <2>3. Twin!Ok({Twin!Word(tool) : tool \in Twin!Visible(settings, token)}) = told
    BY SameWords
  <2> QED
    BY <1>1, <2>1, <2>2, <2>3, BothEnd
<1>3. CASE ~Passes(settings, token)
  <2>1. Ends(c, Refuse("unauthenticated"))
    BY <1>3 DEF ListTools
  <2>2. Twin!Ends(c, Twin!Refuse("unauthenticated"))
    BY <1>1, <1>3, SameAccess DEF Twin!ListTools
  <2> QED
    BY <1>1, <2>1, <2>2, SameWords, BothEnd
<1> QED
  BY <1>2, <1>3

LEMMA TogetherGate ==
  ASSUME TInv, NEW c \in Callers, secret' = secret, Gate(c), Twin!Gate(c)
  PROVE  Follows(c)
<1> DEFINE r == calls[c].request
           me == Identity(settings, r.token)
<1>1. calls[c] # Nothing /\ otherCalls[c].request = r
  BY SameRequest DEF Gate, At
<1>2. CASE ~Identified(settings, r.token)
  <2>1. Ends(c, Refuse("unauthenticated"))
    BY <1>2 DEF Gate
  <2>2. Twin!Ends(c, Twin!Refuse("unauthenticated"))
    BY <1>1, <1>2, SameAccess DEF Twin!Gate
  <2> QED
    BY <1>1, <2>1, <2>2, SameWords, BothEnd
<1>3. CASE Identified(settings, r.token) /\ ~Allowed(r.name, me)
  <2>1. Ends(c, Refuse("insufficient_scope"))
    BY <1>3 DEF Gate
  <2>2. Twin!Ends(c, Twin!Refuse("insufficient_scope"))
    BY <1>1, <1>3, SameAccess, SameWords DEF Twin!Gate
  <2> QED
    BY <1>1, <2>1, <2>2, SameWords, BothEnd
<1>4. CASE Identified(settings, r.token) /\ Allowed(r.name, me)
  <2>1. GoesTo(c, "tool", me)
    BY <1>4 DEF Gate
  <2>2. Twin!GoesTo(c, "tool", Twin!Identity(settings, r.token))
    BY <1>1, <1>4, SameAccess, SameWords DEF Twin!Gate
  <2> QED
    BY <1>1, <2>1, <2>2, SameAccess, BothGo
<1> QED
  BY <1>2, <1>3, <1>4

LEMMA TogetherResolve ==
  ASSUME TInv, NEW c \in Callers, secret' = secret, ResolveTool(c), Twin!ResolveTool(c)
  PROVE  Follows(c)
<1>1. calls[c] # Nothing
  BY DEF ResolveTool, At
<1>2. CASE ToolsIdentified(settings)
  <2>1. GoesTo(c, "service", DevContext(settings))
    BY <1>2 DEF ResolveTool
  <2>2. Twin!GoesTo(c, "service", Twin!DevContext(settings))
    BY <1>2, SameAccess DEF Twin!ResolveTool
  <2> QED
    BY <1>1, <2>1, <2>2, SameAccess, BothGo
<1>3. CASE ~ToolsIdentified(settings)
  <2>1. Ends(c, Refuse("unauthenticated"))
    BY <1>3 DEF ResolveTool
  <2>2. Twin!Ends(c, Twin!Refuse("unauthenticated"))
    BY <1>3, SameAccess DEF Twin!ResolveTool
  <2> QED
    BY <1>1, <2>1, <2>2, SameWords, BothEnd
<1> QED
  BY <1>2, <1>3

(* Whether a result is over the budget is told by the result alone.        *)
LEMMA TogetherReply ==
  ASSUME TInv, NEW c \in Callers, secret' = secret, Reply(c), Twin!Reply(c)
  PROVE  Follows(c)
<1>1. calls[c] # Nothing /\ otherCalls[c].request = calls[c].request
  BY SameRequest DEF Reply, At
<1>2. PICK a : Ends(c, a) /\ a = IF OverBudget(c) THEN Refuse("over_budget") ELSE calls[c].answer
  BY DEF Reply
<1>3. PICK b : /\ Twin!Ends(c, b)
               /\ b = IF Twin!OverBudget(c) THEN Refuse("over_budget") ELSE otherCalls[c].answer
  BY SameWords DEF Twin!Reply
<1>4. Learns(c) \/ otherCalls[c].answer = calls[c].answer
  BY <1>1 DEF TInv, Matched
<1>5. Learns(c) \/ (Twin!OverBudget(c) <=> OverBudget(c))
  BY <1>1, <1>4, SameWords DEF Twin!OverBudget, OverBudget
<1> QED
  BY <1>1, <1>2, <1>3, <1>4, <1>5, BothEnd

-----------------------------------------------------------------------------
(* At a service.                                                           *)

(* What an authorised call reads it has a right to learn.                  *)
LEMMA LearnsAt ==
  ASSUME IInv, NEW c \in Callers, At(c, "service"), Authorized(c)
  PROVE  LET may == MayLearn(settings, What(c).token)
             o == OperationOf(What(c))
         IN  /\ o \in Reads => Area("docs", Who(c).tenant, What(c).namespace) \in may
             /\ o \in Syncs => Area("sync", Who(c).tenant, "") \in may
             /\ o \in Scratches =>
                  /\ Area("scratch", Who(c).tenant, Who(c).principal) \in may
                  /\ Owner(c) = Who(c).principal
<1> DEFINE o == OperationOf(What(c))
<1>1. Who(c) = Identity(settings, What(c).token) /\ settings \in Settings
      /\ What(c).token \in Tokens \union {Nothing} /\ Identified(settings, What(c).token)
  BY AtService
<1>2. Required[o] \subseteq Who(c).scopes
  BY DEF Authorized, Scoped, What, Who
<1>3. ASSUME o \in Reads
      PROVE  Area("docs", Who(c).tenant, What(c).namespace) \in MayLearn(settings, What(c).token)
  <2>1. Required[o] = {"fs:read"}
    BY <1>3 DEF Required, Operations, Ingests, Reads, Syncs, Scratches
  <2>2. "fs:read" \in Who(c).scopes
    BY <2>1, <1>2
  <2>3. What(c).namespace \in Who(c).namespaces
    BY <1>3 DEF Authorized, Granted, What, Who
  <2> QED
    BY <2>2, <2>3, <1>1, MayFacts
<1>4. ASSUME o \in Syncs
      PROVE  Area("sync", Who(c).tenant, "") \in MayLearn(settings, What(c).token)
  <2>1. Required[o] = {"ingest"}
    BY <1>4 DEF Required, Operations, Ingests, Reads, Syncs, Scratches
  <2> QED
    BY <2>1, <1>1, <1>2, MayFacts
<1>5. ASSUME o \in Scratches
      PROVE  /\ Area("scratch", Who(c).tenant, Who(c).principal)
                   \in MayLearn(settings, What(c).token)
             /\ Owner(c) = Who(c).principal
  <2>1. Required[o] = {"fs:write:scratch"}
    BY <1>5 DEF Required, Operations, Ingests, Reads, Syncs, Scratches
  <2> QED
    BY <2>1, <1>1, <1>2, <1>5, MayFacts DEF Owner
<1> QED
  BY <1>3, <1>4, <1>5

LEMMA RowsAlike ==
  ASSUME TInv, NEW c \in Callers, At(c, "service"), Authorized(c), ~Learns(c),
         OperationOf(What(c)) \in Reads, NEW p \in Paths
  PROVE  LET k == DocumentItem(Who(c).tenant, What(c).namespace, p)
         IN  otherTable[k] = table[k]
<1> DEFINE k == DocumentItem(Who(c).tenant, What(c).namespace, p)
<1>1. IInv /\ Who(c).tenant \in Tenants /\ What(c).namespace \in Namespaces
  BY AtService DEF TInv
<1>2. k \in TableKeys /\ AreaOfItem(k) = Area("docs", Who(c).tenant, What(c).namespace)
  BY <1>1, ItemAreas
<1>3. AreaOfItem(k) # secret
  BY <1>1, <1>2, LearnsAt DEF Learns, What
<1> QED
  BY <1>2, <1>3 DEF TInv, AgreeBut

LEMMA TextsAlike ==
  ASSUME TInv, NEW c \in Callers, At(c, "service"), Authorized(c), ~Learns(c),
         OperationOf(What(c)) \in Reads, NEW p \in Paths
  PROVE  LET k == TextKey(Who(c).tenant, What(c).namespace, p)
         IN  otherObjects[k] = objects[k]
<1> DEFINE k == TextKey(Who(c).tenant, What(c).namespace, p)
<1>1. IInv /\ Who(c).tenant \in Tenants /\ What(c).namespace \in Namespaces
  BY AtService DEF TInv
<1>2. /\ k \in ObjectKeys
      /\ AreaOfObject(k) \in {Area("docs", Who(c).tenant, What(c).namespace), Nowhere}
  BY <1>1, TextAreas
<1>3. AreaOfObject(k) # secret
  BY <1>1, <1>2, LearnsAt DEF Learns, What, TInv
<1> QED
  BY <1>2, <1>3 DEF TInv, AgreeBut

LEMMA NotesAlike ==
  ASSUME TInv, NEW c \in Callers, At(c, "service"), Authorized(c), ~Learns(c),
         OperationOf(What(c)) \in Scratches
  PROVE  /\ otherTable[UsageAt(c)] = table[UsageAt(c)]
         /\ \A p \in Paths :
              LET k == ScratchKey(Who(c).tenant, Who(c).principal, p)
              IN  otherObjects[k] = objects[k]
<1>1. IInv /\ Who(c).tenant \in Tenants /\ Who(c).principal \in Principals
  BY AtService DEF TInv
<1>2. Area("scratch", Who(c).tenant, Who(c).principal) # secret
  BY <1>1, LearnsAt DEF Learns, What
<1>3. otherTable[UsageAt(c)] = table[UsageAt(c)]
  BY <1>1, <1>2, ItemAreas DEF TInv, AgreeBut, UsageAt
<1>4. ASSUME NEW p \in Paths
      PROVE  LET k == ScratchKey(Who(c).tenant, Who(c).principal, p)
             IN  otherObjects[k] = objects[k]
  <2> DEFINE k == ScratchKey(Who(c).tenant, Who(c).principal, p)
  <2>1. k \in ObjectKeys /\ AreaOfObject(k) # secret
    BY <1>1, <1>2, ObjectAreas DEF TInv
  <2> QED
    BY <2>1 DEF TInv, AgreeBut
<1> QED
  BY <1>3, <1>4

LEMMA TogetherDeny ==
  ASSUME TInv, NEW c \in Callers, secret' = secret, Deny(c), Twin!Deny(c)
  PROVE  Follows(c)
<1>1. calls[c] # Nothing
  BY DEF Deny, At
<1>2. PICK a : Only(c, a) /\ a = IF Scoped(c) THEN Refuse("namespace_not_found")
                                              ELSE Refuse("insufficient_scope")
  BY DEF Deny
<1>3. PICK b : Twin!Only(c, b) /\ b = IF Scoped(c) THEN Refuse("namespace_not_found")
                                                   ELSE Refuse("insufficient_scope")
  BY <1>1, SameCall, SameWords DEF Twin!Deny
<1> QED
  BY <1>1, <1>2, <1>3, BothOnly

LEMMA TogetherWhoAmI ==
  ASSUME TInv, NEW c \in Callers, secret' = secret, WhoAmI(c), Twin!WhoAmI(c)
  PROVE  Follows(c)
<1>1. calls[c] # Nothing /\ Only(c, Ok({Word(Who(c).principal)}))
  BY DEF WhoAmI, Serving, At
<1>2. Twin!Only(c, Ok({Word(Who(c).principal)}))
  BY <1>1, SameCall, SameWords DEF Twin!WhoAmI
<1> QED
  BY <1>1, <1>2, BothOnly

(* The rows a listing tells, those grep searches.                          *)
LEMMA TogetherList ==
  ASSUME TInv, NEW c \in Callers, secret' = secret, List(c), Twin!List(c)
  PROVE  Follows(c)
<1> DEFINE key(p) == DocumentItem(Who(c).tenant, What(c).namespace, p)
           told(t) == {Row(p, t[key(p)]) : p \in {q \in Paths : t[key(q)].live}}
<1>1. /\ At(c, "service") /\ Authorized(c) /\ OperationOf(What(c)) \in Reads
      /\ calls[c] # Nothing /\ Only(c, Ok(told(table)))
  BY DEF List, Serving, At, What, Reads
<1>2. Twin!Only(c, Ok(told(otherTable)))
  BY <1>1, SameCall, SameKeys, SameWords DEF Twin!List
<1>3. Learns(c) \/ told(otherTable) = told(table)
  BY <1>1, RowsAlike
<1> HIDE DEF told
<1> QED
  BY <1>1, <1>2, <1>3, BothOnly

LEMMA TogetherGrep ==
  ASSUME TInv, NEW c \in Callers, secret' = secret, Grep(c), Twin!Grep(c)
  PROVE  Follows(c)
<1> DEFINE key(p) == DocumentItem(Who(c).tenant, What(c).namespace, p)
           text(p) == TextKey(Who(c).tenant, What(c).namespace, p)
           told(t, o) == {Text(p, o[text(p)]) :
                            p \in {q \in Paths : t[key(q)].live /\ t[key(q)].status = "extracted"}}
<1>1. /\ At(c, "service") /\ Authorized(c) /\ OperationOf(What(c)) \in Reads
      /\ calls[c] # Nothing /\ Only(c, Ok(told(table, objects)))
  BY DEF Grep, Serving, At, What, Reads
<1>2. Twin!Only(c, Ok(told(otherTable, otherObjects)))
  BY <1>1, SameCall, SameKeys, SameWords DEF Twin!Grep
<1>3. Learns(c) \/ told(otherTable, otherObjects) = told(table, objects)
  <2>1. ~Learns(c) => \A p \in Paths : /\ otherTable[key(p)] = table[key(p)]
                                       /\ otherObjects[text(p)] = objects[text(p)]
    BY <1>1, RowsAlike, TextsAlike
  <2> HIDE DEF key, text
  <2> QED
    BY <2>1
<1> HIDE DEF told
<1> QED
  BY <1>1, <1>2, <1>3, BothOnly

(* What stat and read answer of a row.                                     *)
StatOf(path, row) ==
  IF ~RelpathOk(path) THEN Refuse("invalid_key")
  ELSE IF ~row.live THEN Refuse("document_not_found") ELSE Ok({Row(path, row)})

ReadOf(path, row, text) ==
  IF ~RelpathOk(path) THEN Refuse("invalid_key")
  ELSE IF ~row.live THEN Refuse("document_not_found")
  ELSE IF row.status # "extracted" THEN Refuse("catalog_only") ELSE Ok({Text(path, text)})

LEMMA RowAlike ==
  ASSUME TInv, NEW c \in Callers, At(c, "service"), Authorized(c),
         OperationOf(What(c)) \in Reads
  PROVE  Learns(c) \/ /\ otherTable[DocumentAt(c)] = table[DocumentAt(c)]
                      /\ otherObjects[TextAt(c)] = objects[TextAt(c)]
<1>1. What(c).path \in Paths
  BY AtService DEF TInv
<1> QED
  BY <1>1, RowsAlike, TextsAlike DEF DocumentAt, TextAt

LEMMA TogetherStat ==
  ASSUME TInv, NEW c \in Callers, secret' = secret, Stat(c), Twin!Stat(c)
  PROVE  Follows(c)
<1>1. /\ At(c, "service") /\ Authorized(c) /\ OperationOf(What(c)) \in Reads /\ calls[c] # Nothing
  BY DEF Stat, Serving, At, What, Reads
<1>2. Only(c, StatOf(What(c).path, table[DocumentAt(c)]))
  BY DEF Stat, StatOf
<1>3. Twin!Only(c, StatOf(What(c).path, otherTable[DocumentAt(c)]))
  BY <1>1, SameCall, SamePlaces, SameKeys, SameWords DEF Twin!Stat, StatOf
<1> QED
  BY <1>1, <1>2, <1>3, RowAlike, BothOnly

LEMMA TogetherRead ==
  ASSUME TInv, NEW c \in Callers, secret' = secret, Read(c), Twin!Read(c)
  PROVE  Follows(c)
<1>1. /\ At(c, "service") /\ Authorized(c) /\ OperationOf(What(c)) \in Reads /\ calls[c] # Nothing
  BY DEF Read, Serving, At, What, Reads
<1>2. Only(c, ReadOf(What(c).path, table[DocumentAt(c)], objects[TextAt(c)]))
  BY DEF Read, ReadOf
<1>3. Twin!Only(c, ReadOf(What(c).path, otherTable[DocumentAt(c)], otherObjects[TextAt(c)]))
  BY <1>1, SameCall, SamePlaces, SameKeys, SameWords DEF Twin!Read, ReadOf
<1> QED
  BY <1>1, <1>2, <1>3, RowAlike, BothOnly

LEMMA TogetherGetCheckpoint ==
  ASSUME TInv, NEW c \in Callers, secret' = secret, GetCheckpoint(c), Twin!GetCheckpoint(c)
  PROVE  Follows(c)
<1> DEFINE told(t) == Ok({Tells(<<>>, t[CheckpointAt(c)].content, "none", 0)})
<1>1. /\ At(c, "service") /\ Authorized(c) /\ OperationOf(What(c)) \in Syncs
      /\ calls[c] # Nothing /\ Only(c, told(table))
  BY DEF GetCheckpoint, Serving, At, What, Syncs
<1>2. Twin!Only(c, told(otherTable))
  BY <1>1, SamePlaces, SameWords DEF Twin!GetCheckpoint
<1>3. Learns(c) \/ otherTable[CheckpointAt(c)] = table[CheckpointAt(c)]
  <2>1. /\ IInv /\ Who(c).tenant \in Tenants /\ What(c).connector \in Connectors
    BY <1>1, AtService DEF TInv
  <2>2. /\ CheckpointAt(c) \in TableKeys
        /\ AreaOfItem(CheckpointAt(c)) = Area("sync", Who(c).tenant, "")
    BY <2>1, ItemAreas DEF CheckpointAt
  <2>3. Learns(c) \/ AreaOfItem(CheckpointAt(c)) # secret
    BY <1>1, <2>1, <2>2, LearnsAt DEF Learns, What
  <2> QED
    BY <2>2, <2>3 DEF TInv, AgreeBut
<1> QED
  BY <1>1, <1>2, <1>3, BothOnly

LEMMA TogetherScratchList ==
  ASSUME TInv, NEW c \in Callers, secret' = secret, ScratchList(c), Twin!ScratchList(c)
  PROVE  Follows(c)
<1> DEFINE key(p) == ScratchKey(Who(c).tenant, Who(c).principal, p)
           told(o) == {Tells(p, Nothing, "none", 0) : p \in {q \in Paths : o[key(q)] # Nothing}}
<1>1. /\ At(c, "service") /\ Authorized(c) /\ OperationOf(What(c)) \in Scratches
      /\ calls[c] # Nothing /\ Only(c, Ok(told(objects)))
  BY DEF ScratchList, Serving, At, What, Scratches
<1>2. Twin!Only(c, Ok(told(otherObjects)))
  BY <1>1, SameCall, SameKeys, SameWords DEF Twin!ScratchList
<1>3. Learns(c) \/ told(otherObjects) = told(objects)
  BY <1>1, NotesAlike
<1> HIDE DEF told
<1> QED
  BY <1>1, <1>2, <1>3, BothOnly

LEMMA NoteAlike ==
  ASSUME TInv, NEW c \in Callers, At(c, "service"), Authorized(c),
         OperationOf(What(c)) \in Scratches
  PROVE  Learns(c) \/ /\ otherObjects[ScratchAt(c)] = objects[ScratchAt(c)]
                      /\ otherTable[UsageAt(c)] = table[UsageAt(c)]
<1>1. What(c).path \in Paths
  BY AtService DEF TInv
<1> QED
  BY <1>1, NotesAlike DEF ScratchAt

LEMMA TogetherScratchRead ==
  ASSUME TInv, NEW c \in Callers, secret' = secret, ScratchRead(c), Twin!ScratchRead(c)
  PROVE  Follows(c)
<1> DEFINE told(o) ==
             IF ~Buildable(c) THEN Refuse("invalid_key")
             ELSE IF o[ScratchAt(c)] = Nothing THEN Refuse("document_not_found")
             ELSE Ok({Tells(What(c).path, o[ScratchAt(c)], "none", 0)})
<1>1. /\ At(c, "service") /\ Authorized(c) /\ OperationOf(What(c)) \in Scratches
      /\ calls[c] # Nothing
  BY DEF ScratchRead, Serving, At, What, Scratches
<1>2. Only(c, told(objects))
  BY DEF ScratchRead
<1>3. Twin!Only(c, told(otherObjects))
  BY <1>1, SameCall, SamePlaces, SameWords DEF Twin!ScratchRead
<1>4. Learns(c) \/ told(otherObjects) = told(objects)
  BY <1>1, NoteAlike
<1> HIDE DEF told
<1> QED
  BY <1>1, <1>2, <1>3, <1>4, BothOnly
-----------------------------------------------------------------------------
(* What changes the stores changes both alike, but in the secret area.     *)

ObjectsAgree ==
  \A k \in ObjectKeys : AreaOfObject(k) # secret => otherObjects[k] = objects[k]

ItemsAgree == \A k \in TableKeys : AreaOfItem(k) # secret => otherTable[k] = table[k]

LEMMA ObjectsKept ==
  ASSUME TInv, secret' = secret, UNCHANGED objects, UNCHANGED otherObjects
  PROVE  ObjectsAgree' /\ DOMAIN otherObjects' = ObjectKeys
BY DEF TInv, AgreeBut, Domains, ObjectsAgree

LEMMA ItemsKept ==
  ASSUME TInv, secret' = secret, UNCHANGED table, UNCHANGED otherTable
  PROVE  ItemsAgree' /\ DOMAIN otherTable' = TableKeys
BY DEF TInv, AgreeBut, Domains, ItemsAgree

LEMMA ObjectSet ==
  ASSUME TInv, secret' = secret, NEW k, NEW v,
         objects' = [objects EXCEPT ![k] = v], otherObjects' = [otherObjects EXCEPT ![k] = v]
  PROVE  ObjectsAgree' /\ DOMAIN otherObjects' = ObjectKeys
<1>1. DOMAIN objects = ObjectKeys /\ DOMAIN otherObjects = ObjectKeys
  BY DEF TInv, IInv, TypeOK, Domains
<1> QED
  BY <1>1 DEF TInv, AgreeBut, ObjectsAgree

LEMMA ItemSet ==
  ASSUME TInv, secret' = secret, NEW k, NEW v, NEW w,
         table' = [table EXCEPT ![k] = v], otherTable' = [otherTable EXCEPT ![k] = w],
         AreaOfItem(k) # secret => v = w
  PROVE  ItemsAgree' /\ DOMAIN otherTable' = TableKeys
<1>1. DOMAIN table = TableKeys /\ DOMAIN otherTable = TableKeys
  BY DEF TInv, IInv, TypeOK, Domains
<1> QED
  BY <1>1 DEF TInv, AgreeBut, ItemsAgree

(* A change of what both have at one key, made by the same words.          *)
LEMMA BothSet ==
  ASSUME TInv, NEW c \in Callers, calls[c] # Nothing, secret' = secret, NEW a, NEW b,
         Answers(c, a), Twin!Answers(c, b), Learns(c) \/ a = b,
         ObjectsAgree', ItemsAgree', DOMAIN otherObjects' = ObjectKeys,
         DOMAIN otherTable' = TableKeys
  PROVE  Follows(c)
<1>1. AgreeBut(secret)'
  BY DEF AgreeBut, ObjectsAgree, ItemsAgree
<1> QED
  BY <1>1, BothAnswer

LEMMA ItemAgrees ==
  ASSUME TInv, NEW k \in TableKeys
  PROVE  AreaOfItem(k) # secret => otherTable[k] = table[k]
BY DEF TInv, AgreeBut

(* Whether the pages of a document go with its original is told by its row,*)
(* which is the same in both but in the secret area.                       *)
WithText(o, c, v, pages) ==
  LET original == [o EXCEPT ![OriginalAt(c)] = v]
  IN  IF pages THEN [original EXCEPT ![TextAt(c)] = v] ELSE original

LEMMA DocumentSet ==
  ASSUME TInv, NEW c \in Callers, At(c, "service"), secret' = secret,
         CanBuild(Who(c).tenant, What(c).namespace, What(c).path),
         NEW v, NEW pages, NEW otherPages,
         objects' = WithText(objects, c, v, pages),
         otherObjects' = WithText(otherObjects, c, v, otherPages),
         table[DocumentAt(c)] = otherTable[DocumentAt(c)] => (pages <=> otherPages)
  PROVE  ObjectsAgree' /\ DOMAIN otherObjects' = ObjectKeys
<1> DEFINE a == Area("docs", Who(c).tenant, What(c).namespace)
<1>1. /\ Who(c).tenant \in Tenants /\ What(c).namespace \in Namespaces
      /\ What(c).path \in Paths
  BY AtService DEF TInv
<1>2. /\ TextAt(c) \in ObjectKeys /\ AreaOfObject(TextAt(c)) = a
      /\ DocumentAt(c) \in TableKeys /\ AreaOfItem(DocumentAt(c)) = a
  BY <1>1, TextAreas, ItemAreas DEF TextAt, DocumentAt
<1>3. AreaOfObject(TextAt(c)) # secret => (pages <=> otherPages)
  BY <1>2 DEF TInv, AgreeBut
<1>4. DOMAIN objects = ObjectKeys /\ DOMAIN otherObjects = ObjectKeys
  BY DEF TInv, IInv, TypeOK, Domains
<1>5. DOMAIN otherObjects' = ObjectKeys
  BY <1>4 DEF WithText
<1>6. ASSUME NEW k \in ObjectKeys, AreaOfObject(k) # secret
      PROVE  otherObjects'[k] = objects'[k]
  <2>1. otherObjects[k] = objects[k]
    BY <1>6 DEF TInv, AgreeBut
  <2>2. CASE k = TextAt(c)
    BY <1>3, <1>4, <1>6, <2>1, <2>2 DEF WithText
  <2>3. CASE k # TextAt(c)
    BY <1>4, <2>1, <2>3 DEF WithText
  <2> QED
    BY <2>2, <2>3
<1> QED
  BY <1>5, <1>6 DEF ObjectsAgree

LEMMA BuiltAt ==
  ASSUME TInv, NEW c \in Callers, At(c, "service"), Authorized(c), Buildable(c),
         OperationOf(What(c)) \in Ingests
  PROVE  CanBuild(Who(c).tenant, What(c).namespace, What(c).path)
BY RightsAt DEF TInv, Buildable

LEMMA TogetherPut ==
  ASSUME TInv, NEW c \in Callers, secret' = secret, Put(c), Twin!Put(c)
  PROVE  Follows(c)
<1>1. calls[c] # Nothing
  BY DEF Put, Serving, At
<1>2. CASE ~Buildable(c)
  <2>1. Only(c, Refuse("invalid_key"))
    BY <1>2 DEF Put
  <2>2. Twin!Only(c, Refuse("invalid_key"))
    BY <1>1, <1>2, SameCall, SameWords DEF Twin!Put
  <2> QED
    BY <1>1, <2>1, <2>2, BothOnly
<1>3. CASE Buildable(c)
  <2> DEFINE told == Ok({Row(What(c).path, NewRow(c))})
  <2>1. /\ objects' = WithText(objects, c, What(c).content, PutsText(c))
        /\ \/ Fails(c) /\ UNCHANGED table /\ Answers(c, Refuse(Outcome(c)))
           \/ /\ ~Fails(c) /\ table' = [table EXCEPT ![DocumentAt(c)] = NewRow(c)]
              /\ Answers(c, told)
    BY <1>3 DEF Put, PutObjects, WithText
  <2>2. /\ otherObjects' = WithText(otherObjects, c, What(c).content, Twin!PutsText(c))
        /\ \/ Fails(c) /\ UNCHANGED otherTable /\ Twin!Answers(c, Refuse(Outcome(c)))
           \/ /\ ~Fails(c) /\ otherTable' = [otherTable EXCEPT ![DocumentAt(c)] = NewRow(c)]
              /\ Twin!Answers(c, told)
    BY <1>1, <1>3, SameCall, SamePlaces, SameWords DEF Twin!Put, Twin!PutObjects, WithText
  <2>3. table[DocumentAt(c)] = otherTable[DocumentAt(c)] => (PutsText(c) <=> Twin!PutsText(c))
    BY <1>1, SameCall, SamePlaces DEF PutsText, Twin!PutsText
  <2>4. At(c, "service") /\ CanBuild(Who(c).tenant, What(c).namespace, What(c).path)
    <3>1. At(c, "service") /\ Authorized(c) /\ OperationOf(What(c)) \in Ingests
      BY DEF Put, Serving, What, Ingests
    <3> QED
      BY <1>3, <3>1, BuiltAt
  <2>5. ObjectsAgree' /\ DOMAIN otherObjects' = ObjectKeys
    <3> DEFINE v == What(c).content
    <3>1. PICK pages, otherPages :
            /\ objects' = WithText(objects, c, v, pages)
            /\ otherObjects' = WithText(otherObjects, c, v, otherPages)
            /\ table[DocumentAt(c)] = otherTable[DocumentAt(c)] => (pages <=> otherPages)
      BY <2>1, <2>2, <2>3
    <3> HIDE DEF v
    <3> QED
      BY <2>4, <3>1, DocumentSet
  <2> HIDE DEF told
  <2>6. CASE Fails(c)
    <3>1. ItemsAgree' /\ DOMAIN otherTable' = TableKeys
      BY <2>1, <2>2, <2>6, ItemsKept
    <3> QED
      BY <1>1, <2>1, <2>2, <2>5, <2>6, <3>1, BothSet
  <2>7. CASE ~Fails(c)
    <3>1. ItemsAgree' /\ DOMAIN otherTable' = TableKeys
      BY <2>1, <2>2, <2>7, ItemSet
    <3> QED
      BY <1>1, <2>1, <2>2, <2>5, <2>7, <3>1, BothSet
  <2> QED
    BY <2>6, <2>7
<1> QED
  BY <1>2, <1>3

LEMMA TogetherDelete ==
  ASSUME TInv, NEW c \in Callers, secret' = secret, Delete(c), Twin!Delete(c)
  PROVE  Follows(c)
<1>1. calls[c] # Nothing /\ At(c, "service") /\ DocumentAt(c) \in TableKeys
  <2>1. calls[c] # Nothing /\ At(c, "service")
    BY DEF Delete, Serving, At
  <2>2. /\ Who(c).tenant \in Tenants /\ What(c).namespace \in Namespaces /\ What(c).path \in Paths
    BY <2>1, AtService DEF TInv
  <2> QED
    BY <2>1, <2>2, ItemAreas DEF DocumentAt
<1>2. CASE ~RelpathOk(What(c).path)
  <2>1. Only(c, Refuse("invalid_key"))
    BY <1>2 DEF Delete
  <2>2. Twin!Only(c, Refuse("invalid_key"))
    BY <1>1, <1>2, SameCall, SameKeys, SameWords DEF Twin!Delete
  <2> QED
    BY <1>1, <2>1, <2>2, BothOnly
<1>3. CASE RelpathOk(What(c).path)
  <2>1. /\ table' = [table EXCEPT ![DocumentAt(c)] = [table[DocumentAt(c)] EXCEPT !.live = FALSE]]
        /\ \/ ~Buildable(c) /\ UNCHANGED objects /\ Answers(c, Refuse("invalid_key"))
           \/ /\ Buildable(c)
              /\ objects' = WithText(objects, c, Nothing, table[DocumentAt(c)].live)
              /\ Answers(c, Ok({}))
    BY <1>3 DEF Delete, DeletedObjects, WithText
  <2>2. /\ otherTable' =
             [otherTable EXCEPT ![DocumentAt(c)] = [otherTable[DocumentAt(c)] EXCEPT !.live = FALSE]]
        /\ \/ ~Buildable(c) /\ UNCHANGED otherObjects /\ Twin!Answers(c, Refuse("invalid_key"))
           \/ /\ Buildable(c)
              /\ otherObjects' = WithText(otherObjects, c, Nothing, otherTable[DocumentAt(c)].live)
              /\ Twin!Answers(c, Ok({}))
    BY <1>1, <1>3, SameCall, SamePlaces, SameKeys, SameWords
    DEF Twin!Delete, Twin!DeletedObjects, WithText
  <2>3. ItemsAgree' /\ DOMAIN otherTable' = TableKeys
    BY <1>1, <2>1, <2>2, ItemAgrees, ItemSet
  <2>4. CASE ~Buildable(c)
    BY <1>1, <2>1, <2>2, <2>3, <2>4, ObjectsKept, BothSet
  <2>5. CASE Buildable(c)
    <3>1. CanBuild(Who(c).tenant, What(c).namespace, What(c).path)
      <4>1. Authorized(c) /\ OperationOf(What(c)) \in Ingests
        BY DEF Delete, Serving, What, Ingests
      <4> QED
        BY <1>1, <2>5, <4>1, BuiltAt
    <3>2. PICK pages, otherPages :
            /\ objects' = WithText(objects, c, Nothing, pages)
            /\ otherObjects' = WithText(otherObjects, c, Nothing, otherPages)
            /\ table[DocumentAt(c)] = otherTable[DocumentAt(c)] => (pages <=> otherPages)
      BY <2>1, <2>2, <2>5
    <3>3. ObjectsAgree' /\ DOMAIN otherObjects' = ObjectKeys
      BY <1>1, <3>1, <3>2, DocumentSet
    <3> QED
      BY <1>1, <2>1, <2>2, <2>3, <2>5, <3>3, BothSet
  <2> QED
    BY <2>4, <2>5
<1> QED
  BY <1>2, <1>3

LEMMA TogetherPutCheckpoint ==
  ASSUME TInv, NEW c \in Callers, secret' = secret, PutCheckpoint(c), Twin!PutCheckpoint(c)
  PROVE  Follows(c)
<1> DEFINE k == CheckpointAt(c)
<1>1. calls[c] # Nothing /\ At(c, "service") /\ k \in TableKeys
  <2>1. calls[c] # Nothing /\ At(c, "service")
    BY DEF PutCheckpoint, Serving, At
  <2>2. Who(c).tenant \in Tenants /\ What(c).connector \in Connectors
    BY <2>1, AtService DEF TInv
  <2> QED
    BY <2>1, <2>2, ItemAreas DEF CheckpointAt
<1>2. /\ table' = [table EXCEPT ![k] = [table[k] EXCEPT !.content = What(c).content]]
      /\ UNCHANGED objects /\ Answers(c, Ok({}))
  BY DEF PutCheckpoint
<1>3. /\ otherTable' = [otherTable EXCEPT ![k] = [otherTable[k] EXCEPT !.content = What(c).content]]
      /\ UNCHANGED otherObjects /\ Twin!Answers(c, Ok({}))
  BY <1>1, SameCall, SamePlaces, SameWords DEF Twin!PutCheckpoint
<1> HIDE DEF k
<1> QED
  BY <1>1, <1>2, <1>3, ItemAgrees, ItemSet, ObjectsKept, BothSet

(* What is changed within the secret area may be changed differently, by   *)
(* who has a right to it.                                                  *)
LEMMA SecretChange ==
  ASSUME TInv, NEW c \in Callers, calls[c] # Nothing, secret' = secret, NEW a, NEW b,
         Answers(c, a), Twin!Answers(c, b), Learns(c),
         NEW k \in ObjectKeys, NEW i \in TableKeys, AreaOfObject(k) = secret, AreaOfItem(i) = secret,
         DOMAIN otherObjects' = ObjectKeys, DOMAIN otherTable' = TableKeys,
         \A x \in ObjectKeys \ {k} : objects'[x] = objects[x] /\ otherObjects'[x] = otherObjects[x],
         \A x \in TableKeys \ {i} : table'[x] = table[x] /\ otherTable'[x] = otherTable[x]
  PROVE  Follows(c)
<1>1. ObjectsAgree' /\ ItemsAgree'
  BY DEF TInv, AgreeBut, ObjectsAgree, ItemsAgree
<1> QED
  BY <1>1, BothSet

(* A charge, and the answer that tells the usage.                          *)
LEMMA BothCharge ==
  ASSUME TInv, NEW c \in Callers, secret' = secret, At(c, "service"), Authorized(c),
         OperationOf(What(c)) \in Scratches, Buildable(c), NEW m, NEW n,
         Charge(c, m), Twin!Charge(c, n), Answers(c, Ok(Usage(c, m))),
         Twin!Answers(c, Twin!Ok(Twin!Usage(c, n))),
         objects[ScratchAt(c)] = otherObjects[ScratchAt(c)] => m = n,
         ObjectsAgree', DOMAIN otherObjects' = ObjectKeys
  PROVE  Follows(c)
<1> DEFINE u == UsageAt(c)
<1>1. calls[c] # Nothing
  BY DEF At
<1>2. IInv /\ Who(c).tenant \in Tenants /\ Who(c).principal \in Principals /\ What(c).path \in Paths
  BY AtService DEF TInv
<1>3. u \in TableKeys /\ AreaOfItem(u) = Area("scratch", Who(c).tenant, Who(c).principal)
  BY <1>2, ItemAreas DEF UsageAt
<1>4. /\ ScratchAt(c) \in ObjectKeys
      /\ AreaOfObject(ScratchAt(c)) = Area("scratch", Who(c).tenant, Who(c).principal)
  BY <1>2, LearnsAt, ObjectAreas DEF ScratchAt, Buildable
<1>5. AreaOfItem(u) # secret => m = n /\ otherTable[u] = table[u]
  BY <1>3, <1>4 DEF TInv, AgreeBut
<1>6. /\ table' = [table EXCEPT ![u] = [table[u] EXCEPT !.bytes = @ + m]]
      /\ otherTable' = [otherTable EXCEPT ![u] = [otherTable[u] EXCEPT !.bytes = @ + n]]
  BY <1>1, SamePlaces DEF Charge, Twin!Charge
<1>7. ItemsAgree' /\ DOMAIN otherTable' = TableKeys
  <2> HIDE DEF u
  <2> QED
    BY <1>5, <1>6, ItemSet
<1>8. Learns(c) \/ AreaOfItem(u) # secret
  BY <1>2, <1>3, LearnsAt DEF Learns, What
<1>9. Twin!Ok(Twin!Usage(c, n)) =
        Ok({Tells(What(c).path, Nothing, "none", otherTable[u].bytes + n)})
  BY <1>1, SameCall, SamePlaces, SameWords DEF Twin!Usage
<1>10. Learns(c) \/ Ok(Usage(c, m)) = Twin!Ok(Twin!Usage(c, n))
  BY <1>5, <1>8, <1>9 DEF Usage
<1> QED
  BY <1>1, <1>7, <1>10, BothSet

LEMMA TogetherScratchWrite ==
  ASSUME TInv, NEW c \in Callers, secret' = secret, ScratchWrite(c), Twin!ScratchWrite(c)
  PROVE  Follows(c)
<1>1. /\ At(c, "service") /\ Authorized(c) /\ OperationOf(What(c)) \in Scratches
      /\ calls[c] # Nothing
  BY DEF ScratchWrite, Serving, At, What, Scratches
<1>2. CASE ~Buildable(c)
  <2>1. Only(c, Refuse("invalid_key"))
    BY <1>2 DEF ScratchWrite
  <2>2. Twin!Only(c, Refuse("invalid_key"))
    BY <1>1, <1>2, SameCall, SameWords DEF Twin!ScratchWrite
  <2> QED
    BY <1>1, <2>1, <2>2, BothOnly
<1>3. CASE Buildable(c)
  <2> DEFINE m == Size[What(c).content] - Stored(ScratchAt(c))
             n == Size[What(c).content] - Twin!Stored(ScratchAt(c))
  <2>1. /\ Charge(c, m) /\ Answers(c, Ok(Usage(c, m)))
        /\ objects' = [objects EXCEPT ![ScratchAt(c)] = What(c).content]
    BY <1>3 DEF ScratchWrite
  <2>2. /\ Twin!Charge(c, n) /\ Twin!Answers(c, Twin!Ok(Twin!Usage(c, n)))
        /\ otherObjects' = [otherObjects EXCEPT ![ScratchAt(c)] = What(c).content]
    BY <1>1, <1>3, SameCall, SamePlaces DEF Twin!ScratchWrite
  <2>3. objects[ScratchAt(c)] = otherObjects[ScratchAt(c)] => m = n
    BY DEF Stored, Twin!Stored
  <2> HIDE DEF m, n
  <2> QED
    BY <1>1, <1>3, <2>1, <2>2, <2>3, ObjectSet, BothCharge
<1> QED
  BY <1>2, <1>3

LEMMA TogetherScratchDelete ==
  ASSUME TInv, NEW c \in Callers, secret' = secret, ScratchDelete(c), Twin!ScratchDelete(c)
  PROVE  Follows(c)
<1> DEFINE k == ScratchAt(c)
           u == UsageAt(c)
           m == -Stored(k)
           n == -Twin!Stored(k)
<1>1. /\ At(c, "service") /\ Authorized(c) /\ OperationOf(What(c)) \in Scratches
      /\ calls[c] # Nothing
  BY DEF ScratchDelete, Serving, At, What, Scratches
<1>2. CASE ~Buildable(c)
  <2>1. Only(c, Refuse("invalid_key"))
    BY <1>2 DEF ScratchDelete
  <2>2. Twin!Only(c, Refuse("invalid_key"))
    BY <1>1, <1>2, SameCall, SameWords DEF Twin!ScratchDelete
  <2> QED
    BY <1>1, <2>1, <2>2, BothOnly
<1>3. CASE Buildable(c)
  <2> DEFINE Removes == /\ objects[k] # Nothing /\ objects' = [objects EXCEPT ![k] = Nothing]
                        /\ Charge(c, m) /\ Answers(c, Ok(Usage(c, m)))
             OtherRemoves == /\ otherObjects[k] # Nothing
                             /\ otherObjects' = [otherObjects EXCEPT ![k] = Nothing]
                             /\ Twin!Charge(c, n)
                             /\ Twin!Answers(c, Twin!Ok(Twin!Usage(c, n)))
             Finds == objects[k] = Nothing /\ Only(c, Refuse("document_not_found"))
             OtherFinds == /\ otherObjects[k] = Nothing
                           /\ Twin!Only(c, Refuse("document_not_found"))
  <2>1. Removes \/ Finds
    BY <1>3 DEF ScratchDelete
  <2>2. OtherRemoves \/ OtherFinds
    BY <1>1, <1>3, SameCall, SamePlaces, SameWords DEF Twin!ScratchDelete
  <2>3. CASE Removes /\ OtherRemoves
    <3>1. objects[k] = otherObjects[k] => m = n
      BY DEF Stored, Twin!Stored
    <3> HIDE DEF m, n
    <3> QED
      BY <1>1, <1>3, <2>3, <3>1, ObjectSet, BothCharge
  <2>4. CASE Finds /\ OtherFinds
    BY <1>1, <2>4, BothOnly
  <2>5. CASE objects[k] # otherObjects[k]
    <3>1. IInv /\ Who(c).tenant \in Tenants /\ Who(c).principal \in Principals
            /\ What(c).path \in Paths
      BY <1>1, AtService DEF TInv
    <3>2. /\ k \in ObjectKeys /\ u \in TableKeys
          /\ AreaOfObject(k) = Area("scratch", Who(c).tenant, Who(c).principal)
          /\ AreaOfItem(u) = Area("scratch", Who(c).tenant, Who(c).principal)
      BY <1>1, <1>3, <3>1, LearnsAt, ObjectAreas, ItemAreas DEF ScratchAt, Buildable, UsageAt
    <3>3. AreaOfObject(k) = secret /\ AreaOfItem(u) = secret
      BY <2>5, <3>2 DEF TInv, AgreeBut
    <3>4. Learns(c)
      BY <1>1, <3>1, <3>2, <3>3, LearnsAt DEF Learns, What
    <3>5. /\ DOMAIN otherObjects = ObjectKeys /\ DOMAIN otherTable = TableKeys
          /\ DOMAIN objects = ObjectKeys /\ DOMAIN table = TableKeys
      BY DEF TInv, IInv, TypeOK, Domains
    <3> HIDE DEF k, u, m, n
    <3>6. /\ \A x \in ObjectKeys \ {k} : objects'[x] = objects[x]
          /\ \A x \in TableKeys \ {u} : table'[x] = table[x]
          /\ \E a : Answers(c, a)
      <4>1. CASE Removes
        BY <3>5, <4>1 DEF Charge, u
      <4>2. CASE Finds
        BY <4>2 DEF Only, stores
      <4> QED
        BY <2>1, <4>1, <4>2
    <3>7. /\ \A x \in ObjectKeys \ {k} : otherObjects'[x] = otherObjects[x]
          /\ \A x \in TableKeys \ {u} : otherTable'[x] = otherTable[x]
          /\ DOMAIN otherObjects' = ObjectKeys /\ DOMAIN otherTable' = TableKeys
          /\ \E b : Twin!Answers(c, b)
      <4>1. CASE OtherRemoves
        BY <1>1, <3>5, <4>1, SamePlaces DEF Twin!Charge, u
      <4>2. CASE OtherFinds
        BY <3>5, <4>2 DEF Twin!Only, Twin!stores
      <4> QED
        BY <2>2, <4>1, <4>2
    <3>8. PICK a, b : Answers(c, a) /\ Twin!Answers(c, b)
      BY <3>6, <3>7
    <3> QED
      BY <1>1, <3>2, <3>3, <3>4, <3>6, <3>7, <3>8, SecretChange
  <2> QED
    BY <2>1, <2>2, <2>3, <2>4, <2>5
<1> QED
  BY <1>2, <1>3
-----------------------------------------------------------------------------
(* Both together.                                                          *)

LEMMA TogetherFollows ==
  ASSUME TInv, NEW c \in Callers, secret' = secret, Together(c)
  PROVE  Follows(c) /\ Step(c)
<1>1. Step(c)
  BY DEF Together, Step, Serve
<1>2. Follows(c)
  BY TogetherFromRest, TogetherListTools, TogetherGate, TogetherResolve, TogetherReply, TogetherDeny,
     TogetherWhoAmI, TogetherList, TogetherGrep, TogetherStat, TogetherRead, TogetherGetCheckpoint,
     TogetherScratchList, TogetherScratchRead, TogetherPut, TogetherDelete, TogetherPutCheckpoint,
     TogetherScratchWrite, TogetherScratchDelete DEF Together
<1> QED
  BY <1>1, <1>2

LEMMA OthersMatch ==
  ASSUME TInv, NEW c \in Callers, settings' = settings, secret' = secret, Matched(c)',
         \A d \in Callers \ {c} : calls'[d] = calls[d] /\ otherCalls'[d] = otherCalls[d]
  PROVE  \A d \in Callers : Matched(d)'
<1> SUFFICES ASSUME NEW d \in Callers \ {c} PROVE Matched(d)'
  OBVIOUS
<1>1. Matched(d) /\ calls'[d] = calls[d] /\ otherCalls'[d] = otherCalls[d]
  BY DEF TInv
<1> QED
  BY <1>1 DEF Matched, Learns

LEMMA TwinReceive ==
  ASSUME TInv, NEW c \in Callers, NEW r \in Requests, secret' = secret,
         Receive(c, r), Twin!Receive(c, r)
  PROVE  TInv'
<1> DEFINE new == CallOf("arrived", r, Nothing, Unanswered, Untouched)
<1>1. calls' = [calls EXCEPT ![c] = new] /\ otherCalls' = [otherCalls EXCEPT ![c] = new]
  BY SameWords DEF Receive, Twin!Receive
<1>2. DOMAIN calls = Callers /\ DOMAIN otherCalls = Callers
  BY DEF TInv, IInv, TypeOK, Domains
<1>3. UNCHANGED <<settings, objects, table, otherObjects, otherTable>>
  BY DEF Receive, Twin!Receive
<1> HIDE DEF new
<1>4. calls'[c] = new /\ otherCalls'[c] = new /\ DOMAIN otherCalls' = Callers
      /\ \A d \in Callers \ {c} : calls'[d] = calls[d] /\ otherCalls'[d] = otherCalls[d]
  BY <1>1, <1>2
<1>5. \A d \in Callers : Matched(d)'
  <2>1. Matched(c)'
    BY <1>4 DEF Matched
  <2> QED
    BY <2>1, <1>3, <1>4, OthersMatch
<1>6. AgreeBut(secret)' /\ Domains'
  BY <1>3, <1>4, StoresStay DEF Domains
<1>7. IInv'
  BY ReceiveStep DEF TInv
<1> QED
  BY <1>5, <1>6, <1>7 DEF TInv

LEMMA TwinTogether ==
  ASSUME TInv, NEW c \in Callers, secret' = secret, Together(c)
  PROVE  TInv'
<1>1. Follows(c) /\ Step(c)
  BY TogetherFollows
<1>2. IInv'
  BY <1>1, StepStays DEF TInv, Proceeds
<1>3. \A d \in Callers : Matched(d)'
  BY <1>1, OthersMatch DEF Follows
<1> QED
  BY <1>1, <1>2, <1>3 DEF TInv, Follows

LEMMA TwinInitial == TwinInit => TInv
<1> SUFFICES ASSUME TwinInit PROVE TInv
  OBVIOUS
<1>1. Init /\ Twin!Init /\ secret \in Areas \ {Nowhere} /\ AgreeBut(secret)
  BY SecretsAssumption DEF TwinInit
<1>2. calls = [c \in Callers |-> Nothing] /\ otherCalls = [c \in Callers |-> Nothing]
  BY <1>1 DEF Init, Twin!Init
<1>3. Domains
  <2>1. PICK population \in Populations :
          otherObjects = population.objects /\ otherTable = population.table
    BY <1>1 DEF Twin!Init
  <2>2. population \in Population
    BY PopulationAssumption
  <2> QED
    BY <1>2, <2>1, <2>2 DEF Population, Domains
<1> QED
  BY <1>1, <1>2, <1>3, InitIInv DEF TInv, Matched

LEMMA TwinNextTInv == TInv /\ [TwinNext]_twinVars => TInv'
<1>1. ASSUME TInv, TwinNext PROVE TInv'
  BY <1>1, TwinReceive, TwinTogether DEF TwinNext
<1>2. ASSUME TInv, UNCHANGED twinVars PROVE TInv'
  <2>1. IInv'
    BY <1>2, NextIInv DEF TInv, twinVars
  <2>2. UNCHANGED <<settings, objects, table, calls, secret, otherObjects, otherTable, otherCalls>>
    BY <1>2 DEF twinVars, vars
  <2>3. secret' \in Areas \ {Nowhere} /\ AgreeBut(secret)' /\ Domains'
    BY <1>2, <2>2 DEF TInv, AgreeBut, Domains
  <2>4. \A c \in Callers : Matched(c)'
    BY <1>2, <2>2 DEF TInv, Matched, Learns
  <2> QED
    BY <2>1, <2>3, <2>4 DEF TInv
<1> QED
  BY <1>1, <1>2

(* Whoever has no right to an area gets the answers it would get if the    *)
(* area held anything else, for all tenants, tokens, settings, requests    *)
(* and contents of the stores (errors.py:9-14, services/fs.py:169).        *)
THEOREM Secrecy == TwinSpec => []NoLeak
<1>1. TInv => NoLeak
  BY DEF TInv, Matched, Learns, NoLeak
<1> QED
  BY <1>1, TwinInitial, TwinNextTInv, PTL DEF TwinSpec
=============================================================================
