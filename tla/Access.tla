------------------------------- MODULE Access -------------------------------
(***************************************************************************)
(* Who is calling: from the settings and a bearer token to a TenantContext *)
(* or none.  Whether a token is genuine (signature, issuer, audience,      *)
(* expiry) is FastMCP's JWTVerifier to say.                                *)
(***************************************************************************)
EXTENDS Keys

CONSTANTS
  Nothing,     \* no token, no claim, no value
  Malformed,   \* a claim of an unexpected type
  Tokens       \* the bearer tokens callers present

AllScopes == {"fs:read", "fs:search", "fs:write:scratch", "ingest", "admin"}

Grants == SUBSET (Namespaces \union {"*"})

Settings ==
  [mode: {"dev", "oidc", "other"},
   keyed: BOOLEAN, issuer: BOOLEAN,   \* a public key or JWKS URI, an issuer
   devTenant: Tenants, devPrincipal: Principals,
   defaultTenant: Tenants \union {Nothing},
   defaultNamespaces: {Nothing} \union Grants,
   async: BOOLEAN, budget: Nat]       \* extraction_mode, tool_max_result_bytes

Token ==
  [genuine: BOOLEAN,
   principal: Principals \union {Nothing}, tenant: Tenants \union {Nothing},
   scopes: {Nothing, Malformed} \union SUBSET AllScopes,
   namespaces: {Nothing, Malformed} \union Grants]

ASSUME TokenAssumption == Tokens \subseteq Token
Context ==
  [tenant: Tenants, principal: Principals, scopes: SUBSET AllScopes,
   namespaces: SUBSET Namespaces]

ASSUME NothingAssumption ==
  /\ \A value \in (SUBSET AllScopes) \union Grants : value # Nothing /\ value # Malformed
  /\ Nothing # Malformed /\ Nothing \notin Token /\ Nothing \notin Context
  /\ Nothing \notin Tenants \union Principals

(* create_app raises when the verifier or the MCP mount lacks its keys.    *)
Starts(s) == s.mode = "oidc" => (s.keyed \/ s.issuer) /\ s.issuer

DevContext(s) ==
  [tenant |-> s.devTenant, principal |-> s.devPrincipal,
   scopes |-> AllScopes, namespaces |-> Namespaces]

(* A claim, or the default of a deployment when the claim is absent.       *)
Claim(value, default) == IF value = Nothing THEN default ELSE value

CoerceNamespacesOpen(value) ==   \* mutant: an absent claim does not restrict
  IF value = Nothing THEN Namespaces ELSE IF "*" \in value THEN Namespaces ELSE value

(* `*` grants every namespace of the tenant; no claim and no default none. *)
CoerceNamespaces(value) ==
  IF value = Nothing THEN {} ELSE IF "*" \in value THEN Namespaces ELSE value

ClaimsComplete(s, token) ==
  /\ token.principal # Nothing
  /\ Claim(token.tenant, s.defaultTenant) # Nothing
  /\ token.namespaces # Malformed /\ token.scopes # Malformed

ContextFromClaims(s, token) ==
  [tenant |-> Claim(token.tenant, s.defaultTenant), principal |-> token.principal,
   scopes |-> Claim(token.scopes, {}),
   namespaces |-> CoerceNamespaces(Claim(token.namespaces, s.defaultNamespaces))]

(* The transport of the MCP mount lets nothing but genuine tokens in.      *)
Passes(s, token) ==
  s.mode = "oidc" => IF token = Nothing THEN FALSE ELSE token.genuine

(* get_principal of the REST routes, and _principal of the tools'          *)
(* middleware behind the transport's own check: both need a dev server or  *)
(* a verified token whose claims say enough.                               *)
Verified(s, token) ==
  IF token = Nothing THEN FALSE
  ELSE s.mode = "oidc" /\ token.genuine /\ ClaimsComplete(s, token)

Identified(s, token) == s.mode = "dev" \/ Verified(s, token)

Identity(s, token) == IF s.mode = "dev" THEN DevContext(s) ELSE ContextFromClaims(s, token)

(* resolve_context, what the tools themselves call: it sees no request.    *)
ToolsIdentified(s) == s.mode = "dev"
=============================================================================
