-------------------------------- MODULE Keys --------------------------------
(***************************************************************************)
(* Where things are kept: the object keys of afs_core.keys and the items   *)
(* of the catalog's single table.  A key is a sequence of segments, a      *)
(* relative path the segments of a document's name.  Builders validate     *)
(* what they are given; ParseKey reverses them and never guesses.          *)
(***************************************************************************)
EXTENDS Naturals, Sequences

CONSTANTS
  Tenants, Namespaces, Principals, Connectors,
  Paths,     \* the relative paths callers name, good and bad
  Slugs,     \* the words _SLUG_RE matches
  Hidden     \* segments that start with an underscore

ASSUME KeyAssumption ==
  /\ Tenants \union Namespaces \union Principals \union Connectors
       \union Slugs \union Hidden \subseteq STRING
  /\ Paths \subseteq Seq(STRING)

Reserved == {"", ".", "..", "tenants", "scratch", "derived"}

IsSlug(word) == word \in Slugs

RelpathOk(path) == path # <<>> /\ \A i \in DOMAIN path : path[i] \notin Reserved \union Hidden

OriginalKey(tenant, namespace, path) == <<"tenants", tenant, namespace>> \o path
ScratchKey(tenant, principal, path) == <<"scratch", tenant, principal>> \o path

(* The pages of the row at the path, all of them: the code keys them by    *)
(* the id of the row, which nothing but that row has.                      *)
TextKey(tenant, namespace, path) == <<"derived", tenant, namespace>> \o path

(* The builders of keys raise InvalidKeyError otherwise.                   *)
CanBuild(tenant, owner, path) == IsSlug(tenant) /\ IsSlug(owner) /\ RelpathOk(path)

NotAKey == [channel |-> "none", tenant |-> "", owner |-> "", path |-> <<>>]

Channel == [tenants |-> "original", scratch |-> "scratch", derived |-> "derived_text"]

ParseKey(key) ==
  LET path == SubSeq(key, 4, Len(key))
  IN  IF /\ Len(key) > 3 /\ key[1] \in DOMAIN Channel
         /\ IsSlug(key[2]) /\ IsSlug(key[3]) /\ RelpathOk(path)
      THEN [channel |-> Channel[key[1]], tenant |-> key[2], owner |-> key[3], path |-> path]
      ELSE NotAKey

ObjectKeys ==
  {OriginalKey(t, n, p) : t \in Tenants, n \in Namespaces, p \in Paths} \union
  {ScratchKey(t, u, p) : t \in Tenants, u \in Principals, p \in Paths} \union
  {TextKey(t, n, p) : t \in Tenants, n \in Namespaces, p \in Paths}

-----------------------------------------------------------------------------
(* Items of the table, by partition and sort key.                          *)

DocumentItem(tenant, namespace, path) ==
  [pk |-> <<"T", tenant, "NS", namespace>>, sk |-> <<"P">> \o path]
UsageItem(tenant, principal) ==
  [pk |-> <<"T", tenant, "NS", "scratch">>, sk |-> <<"U", principal>>]
CheckpointItem(tenant, connector) ==
  [pk |-> <<"T", tenant>>, sk |-> <<"CP", connector>>]

TableKeys ==
  {DocumentItem(t, n, p) : t \in Tenants, n \in Namespaces, p \in Paths} \union
  {UsageItem(t, u) : t \in Tenants, u \in Principals} \union
  {CheckpointItem(t, c) : t \in Tenants, c \in Connectors}
=============================================================================
