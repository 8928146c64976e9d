------------------------------ MODULE MCGateway ------------------------------
(* Instances of the gateway for TLC: two tenants; a namespace named like   *)
(* the partition of the usage items and one that is no slug; tokens that   *)
(* say everything, too little, or nothing true.                            *)
EXTENDS Isolation, TLC

(* The properties of the run are invariants and actions: no call has a     *)
(* place of its own in them.                                               *)
GatewaySymmetry == Permutations(Callers)

MCTenants == {"acme", "globex"}
MCNamespaces == {"scratch", "HR"}
MCPrincipals == {"alice", "bob"}
MCSlugs == MCTenants \union MCPrincipals \union {"scratch"}
MCPaths == {<<"d">>, <<"a", "b">>, <<"..", "d">>}
MCSize == [text |-> 2, scan |-> 3, tome |-> 4, mess |-> 1]

(* A tome has a page past the last number, a mess breaks an engine.        *)
MCExtracts == [text |-> "extracted", scan |-> "catalog_only",
               tome |-> "invalid_key", mess |-> "internal_error"]

Alice == [genuine |-> TRUE, principal |-> "alice", tenant |-> "acme",
          scopes |-> {"fs:read", "ingest", "fs:write:scratch"}, namespaces |-> {"*"}]
Bob == [genuine |-> TRUE, principal |-> "bob", tenant |-> Nothing,
        scopes |-> {"fs:read", "ingest"}, namespaces |-> Nothing]
Stranger == [Alice EXCEPT !.tenant = "globex", !.principal = "bob"]
Crawler == [Alice EXCEPT !.scopes = {"ingest"}, !.namespaces = {"HR"}]
Forged == [Alice EXCEPT !.genuine = FALSE]
Vague == [Alice EXCEPT !.scopes = Malformed]
MCTokens == {Alice, Bob, Stranger, Crawler, Forged, Vague}

Dev == [mode |-> "dev", keyed |-> FALSE, issuer |-> FALSE,
        devTenant |-> "acme", devPrincipal |-> "alice",
        defaultTenant |-> Nothing, defaultNamespaces |-> Nothing,
        async |-> FALSE, budget |-> 2]
Oidc == [Dev EXCEPT !.mode = "oidc", !.keyed = TRUE, !.issuer = TRUE,
                    !.defaultTenant = "acme", !.budget = 0]
MCSettings ==
  {Dev, Oidc, [Oidc EXCEPT !.defaultNamespaces = {"scratch"}, !.async = TRUE]}
MCOidc == {Oidc}

-----------------------------------------------------------------------------
Row_(content, status) == [content |-> content, status |-> status, live |-> TRUE, bytes |-> 0]

(* Everything has something: a document, a note and its charge, a cursor.  *)
Full ==
  [objects |-> [k \in ObjectKeys |->
     LET parsed == ParseKey(k)
     IN  IF parsed.path = <<"d">> \/ (parsed.path = <<"a", "b">> /\ parsed.channel # "derived_text")
         THEN "text" ELSE Nothing],
   table |-> [k \in TableKeys |->
     CASE AreaOfItem(k).kind = "docs" ->
            IF k.pk[4] = "scratch" /\ k.sk \in {<<"P", "d">>, <<"P", "a", "b">>}
            THEN Row_("text", IF k.sk[2] = "d" THEN "extracted" ELSE "catalog_only") ELSE NoItem
       [] AreaOfItem(k).kind = "scratch" -> [NoItem EXCEPT !.bytes = 4]
       [] OTHER -> [NoItem EXCEPT !.content = "text"]]]

Without(area) ==
  [objects |-> [k \in ObjectKeys |->
     IF AreaOfObject(k) = area THEN Nothing ELSE Full.objects[k]],
   table |-> [k \in TableKeys |->
     IF AreaOfItem(k) = area THEN NoItem ELSE Full.table[k]]]

MCSecrets == {Area("docs", "acme", "scratch"), Area("scratch", "acme", "bob")}
MCPopulations == {Full} \union {Without(a) : a \in MCSecrets}
MCFull == {Full}

-----------------------------------------------------------------------------
Ask(surface, name, token, namespace, path) ==
  [surface |-> surface, name |-> name, token |-> token, namespace |-> namespace,
   path |-> path, content |-> "scan", connector |-> "drive"]

PutOf(content, path) ==
  [Ask("rest", "put_doc", Alice, "scratch", path) EXCEPT !.content = content]

D == <<"d">>
Ab == <<"a", "b">>
Up == <<"..", "d">>

MCRequests ==
  {Ask("rest", "doc", token, "scratch", D) : token \in MCTokens \union {Nothing}} \union
  {Ask("rest", "doc", Alice, "scratch", path) : path \in {Ab, Up}} \union
  {Ask("rest", name, token, "scratch", D) :
     name \in {"entries", "get_checkpoint"}, token \in {Alice, Bob, Stranger}} \union
  {Ask("rest", "put_doc", token, "scratch", D) : token \in {Alice, Bob, Stranger}} \union
  {PutOf(content, D) : content \in {"text", "tome", "mess"}} \union
  {Ask("rest", name, Alice, at[1], at[2]) :
     name \in {"put_doc", "delete_doc", "stat"}, at \in {<<"scratch", Up>>, <<"HR", D>>}} \union
  {Ask("rest", name, Alice, "scratch", D) :
     name \in {"delete_doc", "stat", "me", "put_checkpoint"}} \union
  {Ask("mcp", "tools/list", token, "scratch", D) : token \in {Alice, Bob, Forged}} \union
  {Ask("mcp", "fs_list", token, "scratch", D) : token \in {Alice, Crawler}} \union
  {Ask("mcp", name, Alice, "scratch", D) :
     name \in {"whoami", "fs_stat", "fs_read", "fs_grep", "scratch_list"}} \union
  {Ask("mcp", name, Alice, "scratch", path) :
     name \in {"scratch_write", "scratch_read", "scratch_delete"}, path \in {D, Up}} \union
  {Ask("mcp", "scratch_write", Alice, "scratch", Ab)}
=============================================================================
