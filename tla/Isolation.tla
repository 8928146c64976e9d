------------------------------ MODULE Isolation ------------------------------
(***************************************************************************)
(* Who may see and change what, told from the claims alone, and what the   *)
(* gateway makes of it.  For secrecy a second gateway serves the same      *)
(* calls from stores that differ from the first's in one area only, the    *)
(* secret one: a caller without a right to it must get the same answers    *)
(* from both.                                                              *)
(***************************************************************************)
EXTENDS Gateway

CONSTANT Secrets   \* the areas that may be the secret one

-----------------------------------------------------------------------------
(* Areas: the documents of a namespace, the workspace of a principal, the  *)
(* checkpoints of a tenant, and what no builder of keys can name.          *)
Area(kind, tenant, owner) == [kind |-> kind, tenant |-> tenant, owner |-> owner]
Nowhere == Area("nowhere", "", "")

Areas ==
  {Area("docs", t, n) : t \in Tenants, n \in Namespaces} \union
  {Area("scratch", t, u) : t \in Tenants, u \in Principals} \union
  {Area("sync", t, "") : t \in Tenants} \union {Nowhere}

ASSUME SecretsAssumption == Secrets \subseteq Areas \ {Nowhere}

AreaOfObject(key) ==
  LET parsed == ParseKey(key)
  IN  CASE parsed.channel \in {"original", "derived_text"} ->
             Area("docs", parsed.tenant, parsed.owner)
        [] parsed.channel = "scratch" -> Area("scratch", parsed.tenant, parsed.owner)
        [] OTHER -> Nowhere

AreaOfItem(key) ==
  CASE key.sk[1] = "P" -> Area("docs", key.pk[2], key.pk[4])
    [] key.sk[1] = "U" -> Area("scratch", key.pk[2], key.sk[2])
    [] OTHER -> Area("sync", key.pk[2], "")

ObjectsIn == [a \in Areas |-> {k \in ObjectKeys : AreaOfObject(k) = a}]
ItemsIn == [a \in Areas |-> {k \in TableKeys : AreaOfItem(k) = a}]

-----------------------------------------------------------------------------
(* Rights, as ADR 0013 tells them: the tenant and the principal are the    *)
(* token's, a namespace is open to those it is granted to, by name or by   *)
(* `*`, and a scope the token does not carry opens nothing.                *)

Told(claim, default) == IF claim = Nothing THEN default ELSE claim

IsOf(s, token, a) ==
  IF s.mode = "dev" THEN a.tenant = s.devTenant
  ELSE a.tenant = Told(token.tenant, s.defaultTenant)

Carries(s, token, scope) ==
  s.mode = "dev" \/ (token.scopes # Nothing /\ scope \in token.scopes)

Opens(s, token, a) ==
  LET grants == Told(token.namespaces, s.defaultNamespaces)
      principal == IF s.mode = "dev" THEN s.devPrincipal ELSE token.principal
  IN  CASE a.kind = "docs" ->
             s.mode = "dev" \/ (grants # Nothing /\ (a.owner \in grants \/ "*" \in grants))
        [] a.kind = "scratch" -> a.owner = principal
        [] OTHER -> a.kind = "sync"

Rights(s, token, scopes) ==
  IF Identified(s, token)
  THEN {a \in Areas \ {Nowhere} :
          /\ IsOf(s, token, a) /\ Opens(s, token, a)
          /\ \E scope \in scopes[a.kind] : Carries(s, token, scope)}
  ELSE {}

(* Whoever replaces a document is told of the row it replaces.             *)
MayLearn(s, token) ==
  Rights(s, token,
    [docs |-> {"fs:read", "ingest"}, scratch |-> {"fs:write:scratch"}, sync |-> {"ingest"}])

MayChange(s, token) ==
  Rights(s, token,
    [docs |-> {"ingest"}, scratch |-> {"fs:write:scratch"}, sync |-> {"ingest"}])

-----------------------------------------------------------------------------
(* No call changes anything outside the one area it addresses, and none    *)
(* its token gives no right to, whatever path, namespace or claims it came *)
(* with; what no key can name stays as it is.  (services/fs.py:162,        *)
(* services/ingest.py:64, services/scratch.py:35 and keys.py)              *)
Guarded == INSTANCE Vault WITH
  kept <- [a \in Areas |-> <<[k \in ObjectsIn[a] |-> objects[k]],
                             [k \in ItemsIn[a] |-> table[k]]>>],
  mayChange <- [c \in Callers |->
    IF calls[c] = Nothing THEN {} ELSE MayChange(settings, calls[c].request.token)]

Isolated == Guarded!Spec

-----------------------------------------------------------------------------
VARIABLES
  secret,                                \* the area in which the stores differ
  otherObjects, otherTable, otherCalls   \* the second gateway's

twinVars == <<vars, secret, otherObjects, otherTable, otherCalls>>

Twin == INSTANCE Gateway WITH
  objects <- otherObjects, table <- otherTable, calls <- otherCalls

AgreeBut(area) ==
  /\ \A k \in ObjectKeys : AreaOfObject(k) # area => otherObjects[k] = objects[k]
  /\ \A k \in TableKeys : AreaOfItem(k) # area => otherTable[k] = table[k]

TwinInit ==
  /\ Init /\ Twin!Init /\ secret \in Secrets /\ AgreeBut(secret)
  /\ <<otherObjects, otherTable>> # stores

Together(c) ==
  \/ IdentifyRest(c) /\ Twin!IdentifyRest(c)
  \/ ListTools(c) /\ Twin!ListTools(c)
  \/ Gate(c) /\ Twin!Gate(c)
  \/ ResolveTool(c) /\ Twin!ResolveTool(c)
  \/ Deny(c) /\ Twin!Deny(c)
  \/ WhoAmI(c) /\ Twin!WhoAmI(c)
  \/ List(c) /\ Twin!List(c)
  \/ Grep(c) /\ Twin!Grep(c)
  \/ Stat(c) /\ Twin!Stat(c)
  \/ Read(c) /\ Twin!Read(c)
  \/ Put(c) /\ Twin!Put(c)
  \/ Delete(c) /\ Twin!Delete(c)
  \/ GetCheckpoint(c) /\ Twin!GetCheckpoint(c)
  \/ PutCheckpoint(c) /\ Twin!PutCheckpoint(c)
  \/ ScratchWrite(c) /\ Twin!ScratchWrite(c)
  \/ ScratchRead(c) /\ Twin!ScratchRead(c)
  \/ ScratchList(c) /\ Twin!ScratchList(c)
  \/ ScratchDelete(c) /\ Twin!ScratchDelete(c)
  \/ Reply(c) /\ Twin!Reply(c)

TwinNext ==
  /\ \E c \in Callers :
       Together(c) \/ \E r \in Requests : Receive(c, r) /\ Twin!Receive(c, r)
  /\ UNCHANGED secret

TwinSpec == TwinInit /\ [][TwinNext]_twinVars

(* A call without a right to the secret area is answered as if the area    *)
(* held anything else: neither contents nor existence nor sizes get out,   *)
(* and neither does a refusal tell the forbidden from what does not exist  *)
(* (errors.py:9-14, services/fs.py:169).                                   *)
NoLeak ==
  \A c \in Callers : calls[c] # Nothing =>
    \/ secret \in MayLearn(settings, calls[c].request.token)
    \/ otherCalls[c].pc = calls[c].pc /\ otherCalls[c].answer = calls[c].answer
=============================================================================
