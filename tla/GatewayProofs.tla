---------------------------- MODULE GatewayProofs ----------------------------
(***************************************************************************)
(* What holds of the gateway for all tenants, namespaces, principals,      *)
(* tokens, settings and requests: types, refusals and the implementation   *)
(* of Vault.  Secrecy is proved in IsolationProofs.                        *)
(***************************************************************************)
EXTENDS Isolation, SequenceTheorems, TLAPS

-----------------------------------------------------------------------------
(* Keys.                                                                   *)

LEMMA Tuples ==
  ASSUME NEW S, NEW a \in S, NEW b \in S, NEW c \in S
  PROVE  /\ <<a>> \in Seq(S) /\ Len(<<a>>) = 1
         /\ <<a, b, c>> \in Seq(S) /\ Len(<<a, b, c>>) = 3
OBVIOUS

LEMMA KeyParts ==
  ASSUME NEW w \in STRING, NEW t \in STRING, NEW o \in STRING, NEW p \in Seq(STRING)
  PROVE  LET k == <<w, t, o>> \o p
         IN  /\ k \in Seq(STRING) /\ Len(k) = Len(p) + 3
             /\ k[1] = w /\ k[2] = t /\ k[3] = o
             /\ SubSeq(k, 4, Len(k)) = p
<1> DEFINE k == <<w, t, o>> \o p
           q == SubSeq(k, 4, Len(k))
<1>1. <<w, t, o>> \in Seq(STRING) /\ Len(<<w, t, o>>) = 3
  BY Tuples
<1>2. /\ k \in Seq(STRING) /\ Len(k) = 3 + Len(p)
      /\ \A i \in 1..3 + Len(p) : k[i] = IF i <= 3 THEN <<w, t, o>>[i] ELSE p[i - 3]
  BY <1>1, ConcatProperties
<1>3. Len(p) \in Nat
  BY LenProperties
<1> HIDE DEF k
<1>4. k[1] = w /\ k[2] = t /\ k[3] = o
  <2>1. 1 \in 1..3 + Len(p) /\ 2 \in 1..3 + Len(p) /\ 3 \in 1..3 + Len(p)
    BY <1>3
  <2>2. 1 <= 3 /\ 2 <= 3 /\ 3 <= 3
    OBVIOUS
  <2>3. k[1] = <<w, t, o>>[1]
    BY <2>1, <2>2, <1>2
  <2>4. k[2] = <<w, t, o>>[2]
    BY <2>1, <2>2, <1>2
  <2>5. k[3] = <<w, t, o>>[3]
    BY <2>1, <2>2, <1>2
  <2> QED
    BY <2>3, <2>4, <2>5
<1>5. \A i \in 4..Len(k) : k[i] \in STRING
  BY <1>2, <1>3, ElementOfSeq
<1>6. q \in Seq(STRING) /\ Len(q) = Len(p) /\ \A i \in 1..Len(p) : q[i] = k[4 + i - 1]
  BY <1>2, <1>3, <1>5, SubSeqProperties
<1>7. \A i \in 1..Len(p) : q[i] = p[i]
  BY <1>2, <1>3, <1>6
<1>8. q = p
  BY <1>6, <1>7, SeqEqual
<1>9. /\ k \in Seq(STRING) /\ Len(k) = Len(p) + 3 /\ k[1] = w /\ k[2] = t /\ k[3] = o
      /\ SubSeq(k, 4, Len(k)) = p
  BY <1>2, <1>3, <1>4, <1>8
<1> QED
  BY <1>9 DEF k

LEMMA Words ==
  /\ Tenants \subseteq STRING /\ Namespaces \subseteq STRING /\ Principals \subseteq STRING
  /\ Connectors \subseteq STRING /\ Paths \subseteq Seq(STRING)
BY KeyAssumption

(* A built key parses back into what it was built from; what cannot be     *)
(* built parses into nothing.                                              *)
LEMMA ParseOriginal ==
  ASSUME NEW t \in Tenants, NEW n \in Namespaces, NEW p \in Paths
  PROVE  ParseKey(OriginalKey(t, n, p)) =
           IF CanBuild(t, n, p)
           THEN [channel |-> "original", tenant |-> t, owner |-> n, path |-> p]
           ELSE NotAKey
<1> DEFINE k == OriginalKey(t, n, p)
<1>1. /\ k[1] = "tenants" /\ k[2] = t /\ k[3] = n /\ Len(k) = Len(p) + 3
      /\ SubSeq(k, 4, Len(k)) = p
  BY KeyParts, Words DEF OriginalKey
<1>2. p # <<>> <=> Len(k) > 3
  BY <1>1, Words, EmptySeq, LenProperties
<1> HIDE DEF k
<1>3. Channel["tenants"] = "original" /\ "tenants" \in DOMAIN Channel
  BY DEF Channel
<1> QED
  BY <1>1, <1>2, <1>3 DEF ParseKey, CanBuild, RelpathOk, k

LEMMA ParseScratch ==
  ASSUME NEW t \in Tenants, NEW u \in Principals, NEW p \in Paths
  PROVE  ParseKey(ScratchKey(t, u, p)) =
           IF CanBuild(t, u, p)
           THEN [channel |-> "scratch", tenant |-> t, owner |-> u, path |-> p]
           ELSE NotAKey
<1> DEFINE k == ScratchKey(t, u, p)
<1>1. /\ k[1] = "scratch" /\ k[2] = t /\ k[3] = u /\ Len(k) = Len(p) + 3
      /\ SubSeq(k, 4, Len(k)) = p
  BY KeyParts, Words DEF ScratchKey
<1>2. p # <<>> <=> Len(k) > 3
  BY <1>1, Words, EmptySeq, LenProperties
<1> HIDE DEF k
<1>3. Channel["scratch"] = "scratch" /\ "scratch" \in DOMAIN Channel
  BY DEF Channel
<1> QED
  BY <1>1, <1>2, <1>3 DEF ParseKey, CanBuild, RelpathOk, k

LEMMA ObjectAreas ==
  ASSUME NEW t \in Tenants, NEW p \in Paths
  PROVE  /\ \A n \in Namespaces :
              /\ OriginalKey(t, n, p) \in ObjectKeys
              /\ AreaOfObject(OriginalKey(t, n, p)) =
                   IF CanBuild(t, n, p) THEN Area("docs", t, n) ELSE Nowhere
         /\ \A u \in Principals :
              /\ ScratchKey(t, u, p) \in ObjectKeys
              /\ AreaOfObject(ScratchKey(t, u, p)) =
                   IF CanBuild(t, u, p) THEN Area("scratch", t, u) ELSE Nowhere
<1>1. \A n \in Namespaces : OriginalKey(t, n, p) \in ObjectKeys
  BY DEF ObjectKeys
<1>2. \A u \in Principals : ScratchKey(t, u, p) \in ObjectKeys
  BY DEF ObjectKeys
<1>3. ASSUME NEW n \in Namespaces
      PROVE  AreaOfObject(OriginalKey(t, n, p)) =
               IF CanBuild(t, n, p) THEN Area("docs", t, n) ELSE Nowhere
  <2> DEFINE parsed == ParseKey(OriginalKey(t, n, p))
  <2>1. CASE CanBuild(t, n, p)
    <3>1. parsed.channel = "original" /\ parsed.tenant = t /\ parsed.owner = n
      BY <2>1, ParseOriginal
    <3> QED
      BY <2>1, <3>1 DEF AreaOfObject
  <2>2. CASE ~CanBuild(t, n, p)
    <3>0. parsed = NotAKey /\ NotAKey.channel = "none"
      BY <2>2, ParseOriginal DEF NotAKey
    <3>1. parsed.channel = "none"
      BY <3>0
    <3> QED
      BY <2>2, <3>1 DEF AreaOfObject
  <2> QED
    BY <2>1, <2>2
<1>4. ASSUME NEW u \in Principals
      PROVE  AreaOfObject(ScratchKey(t, u, p)) =
               IF CanBuild(t, u, p) THEN Area("scratch", t, u) ELSE Nowhere
  <2> DEFINE parsed == ParseKey(ScratchKey(t, u, p))
  <2>1. CASE CanBuild(t, u, p)
    <3>1. parsed.channel = "scratch" /\ parsed.tenant = t /\ parsed.owner = u
      BY <2>1, ParseScratch
    <3> QED
      BY <2>1, <3>1 DEF AreaOfObject
  <2>2. CASE ~CanBuild(t, u, p)
    <3>0. parsed = NotAKey /\ NotAKey.channel = "none"
      BY <2>2, ParseScratch DEF NotAKey
    <3>1. parsed.channel = "none"
      BY <3>0
    <3> QED
      BY <2>2, <3>1 DEF AreaOfObject
  <2> QED
    BY <2>1, <2>2
<1> QED
  BY <1>1, <1>2, <1>3, <1>4

LEMMA ParseText ==
  ASSUME NEW t \in Tenants, NEW n \in Namespaces, NEW p \in Paths
  PROVE  ParseKey(TextKey(t, n, p)) =
           IF CanBuild(t, n, p)
           THEN [channel |-> "derived_text", tenant |-> t, owner |-> n, path |-> p]
           ELSE NotAKey
<1> DEFINE k == TextKey(t, n, p)
<1>1. /\ k[1] = "derived" /\ k[2] = t /\ k[3] = n /\ Len(k) = Len(p) + 3
      /\ SubSeq(k, 4, Len(k)) = p
  BY KeyParts, Words DEF TextKey
<1>2. p # <<>> <=> Len(k) > 3
  BY <1>1, Words, EmptySeq, LenProperties
<1> HIDE DEF k
<1>3. Channel["derived"] = "derived_text" /\ "derived" \in DOMAIN Channel
  BY DEF Channel
<1> QED
  BY <1>1, <1>2, <1>3 DEF ParseKey, CanBuild, RelpathOk, k

LEMMA TextAreas ==
  ASSUME NEW t \in Tenants, NEW n \in Namespaces, NEW p \in Paths
  PROVE  /\ TextKey(t, n, p) \in ObjectKeys
         /\ AreaOfObject(TextKey(t, n, p)) =
              IF CanBuild(t, n, p) THEN Area("docs", t, n) ELSE Nowhere
<1> DEFINE parsed == ParseKey(TextKey(t, n, p))
<1>1. TextKey(t, n, p) \in ObjectKeys
  BY DEF ObjectKeys
<1>2. CASE CanBuild(t, n, p)
  <2>1. parsed.channel = "derived_text" /\ parsed.tenant = t /\ parsed.owner = n
    BY <1>2, ParseText
  <2> QED
    BY <1>1, <1>2, <2>1 DEF AreaOfObject
<1>3. CASE ~CanBuild(t, n, p)
  <2>1. parsed = NotAKey /\ NotAKey.channel = "none"
    BY <1>3, ParseText DEF NotAKey
  <2>2. parsed.channel = "none"
    BY <2>1
  <2> QED
    BY <1>1, <1>3, <2>2 DEF AreaOfObject
<1> QED
  BY <1>2, <1>3

LEMMA ItemAreas ==
  ASSUME NEW t \in Tenants
  PROVE  /\ \A n \in Namespaces, p \in Paths :
              /\ DocumentItem(t, n, p) \in TableKeys
              /\ AreaOfItem(DocumentItem(t, n, p)) = Area("docs", t, n)
         /\ \A u \in Principals :
              /\ UsageItem(t, u) \in TableKeys
              /\ AreaOfItem(UsageItem(t, u)) = Area("scratch", t, u)
         /\ \A x \in Connectors :
              /\ CheckpointItem(t, x) \in TableKeys
              /\ AreaOfItem(CheckpointItem(t, x)) = Area("sync", t, "")
<1>1. ASSUME NEW n \in Namespaces, NEW p \in Paths
      PROVE  AreaOfItem(DocumentItem(t, n, p)) = Area("docs", t, n)
  <2> DEFINE S == STRING \union {"P"}
  <2>1. /\ <<"P">> \in Seq(S) /\ Len(<<"P">>) = 1
        /\ p \in Seq(S) /\ Len(p) \in Nat
    <3>1. STRING \subseteq S /\ "P" \in S
      OBVIOUS
    <3>2. <<"P">> \in Seq(S) /\ Len(<<"P">>) = 1
      BY <3>1, Tuples
    <3>3. p \in Seq(S)
      BY <3>1, Words, SeqMonotonic
    <3> QED
      BY <3>2, <3>3, LenProperties
  <2> HIDE DEF S
  <2>2. (<<"P">> \o p)[1] = "P"
    BY <2>1, ConcatProperties
  <2> QED
    BY <2>2 DEF AreaOfItem, DocumentItem
<1>2. ASSUME NEW u \in Principals
      PROVE  AreaOfItem(UsageItem(t, u)) = Area("scratch", t, u)
  BY DEF AreaOfItem, UsageItem
<1>3. ASSUME NEW x \in Connectors
      PROVE  AreaOfItem(CheckpointItem(t, x)) = Area("sync", t, "")
  BY DEF AreaOfItem, CheckpointItem
<1>4. /\ \A n \in Namespaces, p \in Paths : DocumentItem(t, n, p) \in TableKeys
      /\ \A u \in Principals : UsageItem(t, u) \in TableKeys
      /\ \A x \in Connectors : CheckpointItem(t, x) \in TableKeys
  BY DEF TableKeys
<1> QED
  BY <1>1, <1>2, <1>3, <1>4

LEMMA SameDocument ==
  ASSUME NEW t \in Tenants, NEW n \in Namespaces, NEW p \in Paths,
         NEW u \in Tenants, NEW m \in Namespaces, NEW q \in Paths,
         DocumentItem(t, n, p) = DocumentItem(u, m, q)
  PROVE  t = u /\ n = m /\ p = q
<1>1. /\ <<"T", t, "NS", n>> = <<"T", u, "NS", m>>
      /\ <<"P">> \o p = <<"P">> \o q
  BY DEF DocumentItem
<1>2. t = u /\ n = m
  BY <1>1
<1> DEFINE S == STRING \union {"P"}
<1>3. /\ <<"P">> \in Seq(S) /\ Len(<<"P">>) = 1
      /\ p \in Seq(S) /\ Len(p) \in Nat /\ q \in Seq(S) /\ Len(q) \in Nat
  <2>1. STRING \subseteq S /\ "P" \in S
    OBVIOUS
  <2>2. p \in Seq(S) /\ q \in Seq(S)
    BY <2>1, Words, SeqMonotonic
  <2> QED
    BY <2>1, <2>2, Tuples, LenProperties
<1> HIDE DEF S
<1>4. /\ Len(<<"P">> \o p) = 1 + Len(p) /\ Len(<<"P">> \o q) = 1 + Len(q)
      /\ \A i \in 1..1 + Len(p) : i > 1 => (<<"P">> \o p)[i] = p[i - 1]
      /\ \A i \in 1..1 + Len(q) : i > 1 => (<<"P">> \o q)[i] = q[i - 1]
  BY <1>3, ConcatProperties
<1>5. Len(p) = Len(q)
  BY <1>1, <1>3, <1>4
<1>6. \A i \in 1..Len(p) : p[i] = q[i]
  <2> TAKE i \in 1..Len(p)
  <2>1. i + 1 \in 1..1 + Len(p) /\ i + 1 > 1 /\ (i + 1) - 1 = i
    BY <1>3
  <2> QED
    BY <2>1, <1>1, <1>4, <1>5
<1>7. p = q
  BY <1>3, <1>5, <1>6, SeqEqual
<1> QED
  BY <1>2, <1>7

LEMMA AreaFacts ==
  /\ \A t \in Tenants, n \in Namespaces : Area("docs", t, n) \in Areas \ {Nowhere}
  /\ \A t \in Tenants, u \in Principals : Area("scratch", t, u) \in Areas \ {Nowhere}
  /\ \A t \in Tenants : Area("sync", t, "") \in Areas \ {Nowhere}
<1> DEFINE Docs == {Area("docs", t, n) : t \in Tenants, n \in Namespaces}
           Notes == {Area("scratch", t, u) : t \in Tenants, u \in Principals}
           Cursors == {Area("sync", t, "") : t \in Tenants}
<1>1. \A t \in Tenants, n \in Namespaces : Area("docs", t, n) \in Docs
  OBVIOUS
<1>2. \A t \in Tenants, u \in Principals : Area("scratch", t, u) \in Notes
  OBVIOUS
<1>3. \A t \in Tenants : Area("sync", t, "") \in Cursors
  OBVIOUS
<1>4. Areas = Docs \union Notes \union Cursors \union {Nowhere}
  BY DEF Areas
<1>5. \A k, t, o : k # "nowhere" => Area(k, t, o) # Nowhere
  BY DEF Area, Nowhere
<1> HIDE DEF Docs, Notes, Cursors
<1> QED
  BY <1>1, <1>2, <1>3, <1>4, <1>5
-----------------------------------------------------------------------------
(* Who a call acts for, and the rights that go with it.                    *)

LEMMA IdentityTyped ==
  ASSUME NEW s \in Settings, NEW token \in Tokens \union {Nothing}, Identified(s, token)
  PROVE  Identity(s, token) \in Context
<1>1. CASE s.mode = "dev"
  <2>1. DevContext(s) \in Context
    BY DEF DevContext, Context, Settings
  <2> QED
    BY <1>1, <2>1 DEF Identity
<1>2. CASE s.mode # "dev"
  <2>1. Verified(s, token)
    BY <1>2 DEF Identified
  <2>2. token # Nothing /\ ClaimsComplete(s, token)
    BY <2>1 DEF Verified
  <2>3. token \in Token
    BY <2>2, TokenAssumption
  <2>4. token.principal \in Principals /\ Claim(token.tenant, s.defaultTenant) \in Tenants
    BY <2>2, <2>3 DEF ClaimsComplete, Token, Settings, Claim
  <2>5. Claim(token.scopes, {}) \in SUBSET AllScopes
    BY <2>2, <2>3 DEF ClaimsComplete, Token, Claim
  <2>6. Claim(token.namespaces, s.defaultNamespaces) \in {Nothing} \union Grants
    BY <2>2, <2>3 DEF ClaimsComplete, Token, Settings, Claim
  <2>7. CoerceNamespaces(Claim(token.namespaces, s.defaultNamespaces)) \in SUBSET Namespaces
    BY <2>6 DEF CoerceNamespaces, Grants
  <2>8. ContextFromClaims(s, token) \in Context
    BY <2>4, <2>5, <2>7 DEF ContextFromClaims, Context
  <2> QED
    BY <1>2, <2>8 DEF Identity
<1> QED
  BY <1>1, <1>2

(* The namespaces of a caller are those opened by the claims.              *)
LEMMA RightsFollow ==
  ASSUME NEW s \in Settings, NEW token \in Tokens \union {Nothing}, Identified(s, token),
         NEW scopes, NEW kind \in {"docs", "scratch", "sync"}, NEW owner,
         LET me == Identity(s, token)
             a == Area(kind, me.tenant, owner)
         IN  /\ a \in Areas \ {Nowhere}
             /\ \E scope \in scopes[kind] : scope \in me.scopes
             /\ kind = "docs" => owner \in me.namespaces
             /\ kind = "scratch" => owner = me.principal
  PROVE  Area(kind, Identity(s, token).tenant, owner) \in Rights(s, token, scopes)
<1> DEFINE me == Identity(s, token)
           a == Area(kind, me.tenant, owner)
<1>1. a.kind = kind /\ a.tenant = me.tenant /\ a.owner = owner
  BY DEF Area
<1>2. IsOf(s, token, a) /\ Opens(s, token, a) /\ \E scope \in scopes[a.kind] : Carries(s, token, scope)
  <2>1. CASE s.mode = "dev"
    <3>1. me = DevContext(s)
      BY <2>1 DEF Identity
    <3>2. me.tenant = s.devTenant /\ me.principal = s.devPrincipal
      BY <3>1 DEF DevContext
    <3> QED
      BY <1>1, <2>1, <3>2 DEF IsOf, Opens, Carries
  <2>2. CASE s.mode # "dev"
    <3>1. me = ContextFromClaims(s, token)
      BY <2>2 DEF Identity
    <3>2. /\ me.tenant = Claim(token.tenant, s.defaultTenant) /\ me.principal = token.principal
          /\ me.scopes = Claim(token.scopes, {})
          /\ me.namespaces = CoerceNamespaces(Claim(token.namespaces, s.defaultNamespaces))
      BY <3>1 DEF ContextFromClaims
    <3>3. IsOf(s, token, a)
      BY <1>1, <2>2, <3>2 DEF IsOf, Told, Claim
    <3>4. \E scope \in scopes[a.kind] : Carries(s, token, scope)
      BY <1>1, <3>2 DEF Carries, Claim
    <3>5. kind = "docs" => Opens(s, token, a)
      <4>1. SUFFICES ASSUME kind = "docs" PROVE Opens(s, token, a)
        OBVIOUS
      <4>2. owner \in CoerceNamespaces(Told(token.namespaces, s.defaultNamespaces))
        BY <4>1, <3>2 DEF Told, Claim
      <4>3. LET grants == Told(token.namespaces, s.defaultNamespaces)
            IN  grants # Nothing /\ (owner \in grants \/ "*" \in grants)
        BY <4>2 DEF CoerceNamespaces
      <4> QED
        BY <1>1, <4>1, <4>3 DEF Opens
    <3>6. kind # "docs" => Opens(s, token, a)
      BY <1>1, <2>2, <3>2 DEF Opens
    <3> QED
      BY <3>3, <3>4, <3>5, <3>6
  <2> QED
    BY <2>1, <2>2
<1>3. a \in Areas \ {Nowhere}
  OBVIOUS
<1> QED
  BY <1>2, <1>3 DEF Rights

LEMMA MayFacts ==
  ASSUME NEW s \in Settings, NEW token \in Tokens \union {Nothing}, Identified(s, token)
  PROVE  LET me == Identity(s, token)
         IN  /\ \A n \in me.namespaces :
                  /\ "ingest" \in me.scopes =>
                       Area("docs", me.tenant, n) \in MayChange(s, token) \cap MayLearn(s, token)
                  /\ "fs:read" \in me.scopes => Area("docs", me.tenant, n) \in MayLearn(s, token)
             /\ "fs:write:scratch" \in me.scopes =>
                  Area("scratch", me.tenant, me.principal)
                    \in MayChange(s, token) \cap MayLearn(s, token)
             /\ "ingest" \in me.scopes =>
                  Area("sync", me.tenant, "") \in MayChange(s, token) \cap MayLearn(s, token)
<1> DEFINE me == Identity(s, token)
           learn == [docs |-> {"fs:read", "ingest"}, scratch |-> {"fs:write:scratch"},
                     sync |-> {"ingest"}]
           change == [docs |-> {"ingest"}, scratch |-> {"fs:write:scratch"}, sync |-> {"ingest"}]
<1>0. /\ learn["docs"] = {"fs:read", "ingest"} /\ learn["scratch"] = {"fs:write:scratch"}
      /\ learn["sync"] = {"ingest"} /\ change["docs"] = {"ingest"}
      /\ change["scratch"] = {"fs:write:scratch"} /\ change["sync"] = {"ingest"}
  OBVIOUS
<1>1. /\ MayLearn(s, token) = Rights(s, token, learn)
      /\ MayChange(s, token) = Rights(s, token, change)
  BY DEF MayLearn, MayChange
<1>2. me \in Context
  BY IdentityTyped
<1>3. me.tenant \in Tenants /\ me.principal \in Principals /\ me.namespaces \subseteq Namespaces
  BY <1>2 DEF Context
<1> HIDE DEF learn, change
<1>4. ASSUME NEW n \in me.namespaces
      PROVE  /\ "ingest" \in me.scopes =>
                  Area("docs", me.tenant, n) \in MayChange(s, token) \cap MayLearn(s, token)
             /\ "fs:read" \in me.scopes => Area("docs", me.tenant, n) \in MayLearn(s, token)
  <2>1. Area("docs", me.tenant, n) \in Areas \ {Nowhere}
    BY <1>3, AreaFacts
  <2>2. "ingest" \in me.scopes => Area("docs", me.tenant, n) \in Rights(s, token, change)
    BY <2>1, <1>0, RightsFollow
  <2>3. "ingest" \in me.scopes \/ "fs:read" \in me.scopes =>
          Area("docs", me.tenant, n) \in Rights(s, token, learn)
    BY <2>1, <1>0, RightsFollow
  <2> QED
    BY <2>2, <2>3, <1>1
<1>5. "fs:write:scratch" \in me.scopes =>
        Area("scratch", me.tenant, me.principal) \in MayChange(s, token) \cap MayLearn(s, token)
  <2>1. Area("scratch", me.tenant, me.principal) \in Areas \ {Nowhere}
    BY <1>3, AreaFacts
  <2>2. "fs:write:scratch" \in me.scopes =>
          /\ Area("scratch", me.tenant, me.principal) \in Rights(s, token, change)
          /\ Area("scratch", me.tenant, me.principal) \in Rights(s, token, learn)
    BY <2>1, <1>0, RightsFollow
  <2> QED
    BY <2>2, <1>1
<1>6. "ingest" \in me.scopes =>
        Area("sync", me.tenant, "") \in MayChange(s, token) \cap MayLearn(s, token)
  <2>1. Area("sync", me.tenant, "") \in Areas \ {Nowhere}
    BY <1>3, AreaFacts
  <2>2. "ingest" \in me.scopes =>
          /\ Area("sync", me.tenant, "") \in Rights(s, token, change)
          /\ Area("sync", me.tenant, "") \in Rights(s, token, learn)
    BY <2>1, <1>0, RightsFollow
  <2> QED
    BY <2>2, <1>1
<1> QED
  BY <1>4, <1>5, <1>6
-----------------------------------------------------------------------------
(* The invariant: besides its types, that a call past the gate acts for    *)
(* the caller its token names, that a refusal goes with what the call has  *)
(* changed, and that live rows are behind keys that can be built.          *)

Excused(call) ==
  call.answer.status \notin {"ok", "over_budget"} =>
    ~call.touched.catalog /\ (call.touched.bucket => ExtractionFailed(call))

Linked(call) ==
  /\ call.request \in Requests
  /\ call.pc \in {"tool", "service"} =>
       /\ Identified(settings, call.request.token)
       /\ call.context = Identity(settings, call.request.token)
       /\ call.request.name # "tools/list"
  /\ call.pc \notin {"reply", "done"} => call.touched = Untouched
  /\ Excused(call)

RowsBuilt ==
  \A t \in Tenants, n \in Namespaces, p \in Paths :
    table[DocumentItem(t, n, p)].live => CanBuild(t, n, p)

IInv == TypeOK /\ RowsBuilt /\ \A c \in Callers : calls[c] # Nothing => Linked(calls[c])

LEMMA InUse == settings \in SettingsUsed => settings \in Settings
BY DeploymentAssumption

LEMMA RequestFacts ==
  ASSUME NEW r \in Requests
  PROVE  /\ r.token \in Tokens \union {Nothing} /\ r.namespace \in Namespaces
         /\ r.path \in Paths /\ r.content \in Contents /\ r.connector \in Connectors
         /\ r.surface \in {"rest", "mcp"}
BY RequestAssumption DEF Request

LEMMA InitIInv == Init => IInv
<1> SUFFICES ASSUME Init PROVE IInv
  OBVIOUS
<1>1. PICK population \in Populations :
        objects = population.objects /\ table = population.table
  BY DEF Init
<1>2. population \in Population
  BY PopulationAssumption
<1>3. /\ objects \in [ObjectKeys -> Contents \union {Nothing}] /\ table \in [TableKeys -> Item]
      /\ RowsBuilt
  BY <1>1, <1>2 DEF Population, RowsBuilt
<1>4. calls \in [Callers -> Call \union {Nothing}] /\ \A c \in Callers : calls[c] = Nothing
  BY DEF Init
<1>5. settings \in SettingsUsed /\ received \in 0..MaxCalls
  BY BoundAssumption DEF Init
<1> QED
  BY <1>3, <1>4, <1>5 DEF IInv, TypeOK

(* One call changes, the others and the settings stay.                     *)
LEMMA CallChanges ==
  ASSUME IInv, NEW c \in Callers, NEW call \in Call,
         calls' = [calls EXCEPT ![c] = call],
         settings' = settings, received' \in 0..MaxCalls,
         objects' \in [ObjectKeys -> Contents \union {Nothing}], table' \in [TableKeys -> Item],
         RowsBuilt', Linked(call),
         call.pc = "service" => call.context # Nothing,
         call.pc \in {"reply", "done"} => call.answer.status # "none"
  PROVE  IInv'
<1>1. calls \in [Callers -> Call \union {Nothing}] /\ settings \in SettingsUsed
  BY DEF IInv, TypeOK
<1>2. /\ calls' \in [Callers -> Call \union {Nothing}]
      /\ calls'[c] = call
      /\ \A d \in Callers \ {c} : calls'[d] = calls[d]
  BY <1>1
<1>3. call.pc = "service" => call.request.name # "tools/list"
  BY DEF Linked
<1>4. \A d \in Callers : calls[d] # Nothing =>
        /\ calls[d].pc = "service" => calls[d].context # Nothing /\ calls[d].request.name # "tools/list"
        /\ calls[d].pc \in {"reply", "done"} => calls[d].answer.status # "none"
  BY DEF IInv, TypeOK
<1>5. \A d \in Callers : calls'[d] # Nothing =>
        /\ calls'[d].pc = "service" => calls'[d].context # Nothing /\ calls'[d].request.name # "tools/list"
        /\ calls'[d].pc \in {"reply", "done"} => calls'[d].answer.status # "none"
  BY <1>2, <1>3, <1>4
<1>6. TypeOK'
  BY <1>1, <1>2, <1>5 DEF TypeOK
<1>7. \A d \in Callers : calls'[d] # Nothing => Linked(calls[d])'
  <2> SUFFICES ASSUME NEW d \in Callers, calls'[d] # Nothing PROVE Linked(calls[d])'
    OBVIOUS
  <2>1. CASE d = c
    BY <2>1, <1>2 DEF Linked, Excused, ExtractionFailed
  <2>2. CASE d # c
    <3>1. calls'[d] = calls[d] /\ Linked(calls[d])
      BY <2>2, <1>2 DEF IInv
    <3> QED
      BY <3>1 DEF Linked, Excused, ExtractionFailed
  <2> QED
    BY <2>1, <2>2
<1> QED
  BY <1>6, <1>7 DEF IInv

LEMMA UntouchedExcused ==
  /\ Untouched \in Touched
  /\ \A call : call.touched = Untouched => Excused(call)
<1>1. Untouched \in Touched /\ ~Untouched.bucket /\ ~Untouched.catalog
  BY DEF Untouched, Touched
<1> QED
  BY <1>1 DEF Excused

LEMMA CallFields ==
  ASSUME NEW call \in Call
  PROVE  /\ call.pc \in {"arrived", "tool", "service", "reply", "done"}
         /\ call.request \in Request /\ call.context \in Context \union {Nothing}
         /\ call.answer \in Answer /\ call.touched \in Touched
BY DEF Call, CallOf

LEMMA CallOfTyped ==
  ASSUME NEW pc \in {"arrived", "tool", "service", "reply", "done"}, NEW r \in Request,
         NEW ctx \in Context \union {Nothing}, NEW a \in Answer, NEW t \in Touched
  PROVE  CallOf(pc, r, ctx, a, t) \in Call
BY DEF Call, CallOf

LEMMA CallOfFields ==
  ASSUME NEW pc, NEW r, NEW ctx, NEW a, NEW t
  PROVE  LET call == CallOf(pc, r, ctx, a, t)
         IN  /\ call.pc = pc /\ call.request = r /\ call.context = ctx
             /\ call.answer = a /\ call.touched = t
BY DEF CallOf

LEMMA UnansweredTyped == Unanswered \in Answer
BY DEF Unanswered, Answer

LEMMA CallTyped ==
  ASSUME IInv, NEW c \in Callers, calls[c] # Nothing
  PROVE  /\ calls \in [Callers -> Call \union {Nothing}] /\ calls[c] \in Call
         /\ Linked(calls[c]) /\ calls[c].request \in Requests /\ calls[c].request \in Request
         /\ calls[c].context \in Context \union {Nothing}
         /\ calls[c].answer \in Answer /\ calls[c].touched \in Touched
<1>1. calls \in [Callers -> Call \union {Nothing}] /\ Linked(calls[c])
  BY DEF IInv, TypeOK
<1>2. calls[c] \in Call
  BY <1>1
<1> QED
  BY <1>1, <1>2, CallFields DEF Linked

(* A step of a call keeps the invariant, the settings, its request and the *)
(* calls of others.                                                        *)
Proceeds(c) ==
  /\ IInv' /\ settings' = settings
  /\ calls'[c] # Nothing /\ calls'[c].request = calls[c].request
  /\ \A d \in Callers \ {c} : calls'[d] = calls[d]

LEMMA CallProceeds ==
  ASSUME IInv, NEW c \in Callers, calls[c] # Nothing, NEW call \in Call,
         calls' = [calls EXCEPT ![c] = call], call.request = calls[c].request,
         UNCHANGED <<settings, received>>,
         objects' \in [ObjectKeys -> Contents \union {Nothing}], table' \in [TableKeys -> Item],
         RowsBuilt', Linked(call),
         call.pc = "service" => call.context # Nothing,
         call.pc \in {"reply", "done"} => call.answer.status # "none"
  PROVE  Proceeds(c)
<1>1. IInv'
  BY CallChanges DEF IInv, TypeOK
<1>2. calls \in [Callers -> Call \union {Nothing}]
  BY DEF IInv, TypeOK
<1>3. calls'[c] = call /\ \A d \in Callers \ {c} : calls'[d] = calls[d]
  BY <1>2
<1> QED
  BY <1>1, <1>3, CallAssumption DEF Proceeds

LEMMA ByGoesTo ==
  ASSUME IInv, NEW c \in Callers, calls[c] # Nothing,
         NEW pc \in {"tool", "service"}, NEW ctx \in Context, GoesTo(c, pc, ctx),
         Identified(settings, calls[c].request.token),
         ctx = Identity(settings, calls[c].request.token),
         calls[c].request.name # "tools/list"
  PROVE  Proceeds(c)
<1> DEFINE old == calls[c]
           new == CallOf(pc, old.request, ctx, Unanswered, Untouched)
<1>1. calls' = [calls EXCEPT ![c] = new]
  BY DEF GoesTo
<1>2. new \in Call
  BY CallTyped, CallOfTyped, UnansweredTyped, UntouchedExcused
<1>3. /\ new.pc = pc /\ new.request = old.request /\ new.context = ctx
      /\ new.touched = Untouched
  BY DEF CallOf
<1> HIDE DEF new
<1>4. Linked(new)
  BY <1>3, UntouchedExcused, CallTyped DEF Linked
<1>5. ctx # Nothing
  BY NothingAssumption
<1>6. UNCHANGED <<settings, objects, table, received>>
  BY DEF GoesTo
<1>7. RowsBuilt'
  BY <1>6 DEF IInv, RowsBuilt
<1> QED
  BY <1>1, <1>2, <1>3, <1>4, <1>5, <1>6, <1>7, CallProceeds DEF IInv, TypeOK

LEMMA ByEnds ==
  ASSUME IInv, NEW c \in Callers, calls[c] # Nothing,
         NEW a \in Answer, Ends(c, a), a.status # "none",
         \/ calls[c].touched = Untouched \/ a = calls[c].answer
         \/ a.status = "over_budget"
  PROVE  Proceeds(c)
<1> DEFINE old == calls[c]
           new == CallOf("done", old.request, old.context, a, old.touched)
<1>1. calls' = [calls EXCEPT ![c] = new]
  BY DEF Ends
<1>2. new \in Call
  BY CallTyped, CallOfTyped
<1>3. /\ new.pc = "done" /\ new.request = old.request /\ new.answer = a
      /\ new.touched = old.touched
  BY CallOfFields
<1> HIDE DEF new
<1>4. Linked(new)
  <2>0. old.request \in Requests /\ Excused(old)
    BY CallTyped DEF Linked
  <2>1. Excused(new)
    BY <1>3, <2>0, UntouchedExcused DEF Excused, ExtractionFailed
  <2> QED
    BY <1>3, <2>0, <2>1 DEF Linked
<1>5. UNCHANGED <<settings, objects, table, received>>
  BY DEF Ends
<1>6. RowsBuilt'
  BY <1>5 DEF IInv, RowsBuilt
<1> QED
  BY <1>1, <1>2, <1>3, <1>4, <1>5, <1>6, CallProceeds DEF IInv, TypeOK

LEMMA ByAnswers ==
  ASSUME IInv, NEW c \in Callers, calls[c] # Nothing,
         NEW a \in Answer, Answers(c, a), a.status # "none",
         objects' \in [ObjectKeys -> Contents \union {Nothing}], table' \in [TableKeys -> Item],
         RowsBuilt',
         \/ stores' = stores
         \/ a.status = "ok"
         \/ table' = table /\ ExtractionFailed([calls[c] EXCEPT !.answer = a])
  PROVE  Proceeds(c)
<1> DEFINE old == calls[c]
           t == [bucket |-> objects' # objects, catalog |-> table' # table]
           new == CallOf("reply", old.request, old.context, a, t)
<1>1. calls' = [calls EXCEPT ![c] = new]
  BY DEF Answers
<1>2. new \in Call
  <2>1. t \in Touched
    BY DEF Touched
  <2> QED
    BY <2>1, CallTyped, CallOfTyped
<1>3. /\ new.pc = "reply" /\ new.request = old.request /\ new.answer = a
      /\ new.touched = t
  BY CallOfFields
<1> HIDE DEF new
<1>4. Excused(new)
  <2>1. /\ t.bucket <=> objects' # objects
        /\ t.catalog <=> table' # table
    OBVIOUS
  <2> HIDE DEF t
  <2>2. CASE stores' = stores
    BY <2>1, <2>2, <1>3 DEF Excused, stores
  <2>3. CASE a.status = "ok"
    BY <2>3, <1>3 DEF Excused
  <2>4. CASE table' = table /\ ExtractionFailed([old EXCEPT !.answer = a])
    <3>1. old \in Call
      BY CallTyped
    <3>2. LET failed == [old EXCEPT !.answer = a]
          IN  failed.request = old.request /\ failed.answer = a
      BY <3>1 DEF Call
    <3>3. ExtractionFailed(new)
      BY <2>4, <3>2, <1>3 DEF ExtractionFailed
    <3> QED
      BY <2>1, <2>4, <3>3, <1>3 DEF Excused
  <2> QED
    BY <2>2, <2>3, <2>4
<1>5. Linked(new)
  BY <1>3, <1>4, CallTyped DEF Linked
<1>6. UNCHANGED <<settings, received>>
  BY DEF Answers
<1> QED
  BY <1>1, <1>2, <1>3, <1>5, <1>6, CallProceeds DEF IInv, TypeOK

LEMMA ByOnly ==
  ASSUME IInv, NEW c \in Callers, calls[c] # Nothing,
         NEW a \in Answer, Only(c, a), a.status # "none"
  PROVE  Proceeds(c)
<1>1. stores' = stores /\ Answers(c, a)
  BY DEF Only
<1>2. objects' = objects /\ table' = table
  BY <1>1 DEF stores
<1>3. RowsBuilt'
  BY <1>2 DEF IInv, RowsBuilt
<1> QED
  BY <1>1, <1>2, <1>3, ByAnswers DEF IInv, TypeOK
-----------------------------------------------------------------------------
(* What a call under way stands on.                                        *)

LEMMA AtService ==
  ASSUME IInv, NEW c \in Callers, At(c, "service")
  PROVE  /\ calls[c] # Nothing /\ What(c) \in Requests
         /\ Who(c) \in Context
         /\ Who(c).tenant \in Tenants /\ Who(c).principal \in Principals
         /\ Who(c).namespaces \subseteq Namespaces
         /\ What(c).path \in Paths /\ What(c).namespace \in Namespaces
         /\ What(c).content \in Contents /\ What(c).connector \in Connectors
         /\ What(c).token \in Tokens \union {Nothing}
         /\ settings \in Settings /\ Identified(settings, What(c).token)
         /\ Who(c) = Identity(settings, What(c).token)
<1>1. calls[c] # Nothing /\ calls[c].pc = "service"
  BY DEF At
<1>2. Linked(calls[c]) /\ calls[c].context # Nothing /\ calls[c].context \in Context \union {Nothing}
  BY <1>1, CallTyped DEF IInv, TypeOK
<1>3. Who(c) \in Context
  BY <1>2 DEF Who
<1>4. /\ Who(c).tenant \in Tenants /\ Who(c).principal \in Principals
      /\ Who(c).namespaces \subseteq Namespaces
  BY <1>3 DEF Context
<1>5. settings \in Settings
  BY InUse DEF IInv, TypeOK
<1> QED
  BY <1>1, <1>2, <1>3, <1>4, <1>5, RequestFacts DEF Linked, What, Who

LEMMA StoresTyped ==
  IInv => /\ objects \in [ObjectKeys -> Contents \union {Nothing}] /\ table \in [TableKeys -> Item]
          /\ settings \in SettingsUsed /\ settings \in Settings
BY InUse DEF IInv, TypeOK

LEMMA RefuseTyped ==
  ASSUME NEW why \in Refusals
  PROVE  Refuse(why) \in Answer /\ Refuse(why).status = why /\ why # "none"
BY DEF Refuse, Answer, Refusals

LEMMA RefusalWords ==
  /\ "unauthenticated" \in Refusals /\ "insufficient_scope" \in Refusals
  /\ "namespace_not_found" \in Refusals /\ "document_not_found" \in Refusals
  /\ "invalid_key" \in Refusals /\ "catalog_only" \in Refusals /\ "over_budget" \in Refusals
  /\ "internal_error" \in Refusals
BY DEF Refusals

LEMMA OkTyped ==
  ASSUME NEW body \in SUBSET Fact
  PROVE  Ok(body) \in Answer /\ Ok(body).status = "ok"
BY DEF Ok, Answer

LEMMA RowTyped ==
  ASSUME NEW p \in Paths, NEW item \in Item
  PROVE  Row(p, item) \in Fact
BY DEF Row, Tells, Item, Fact

(* What is refused at the service leaves the invariant alone.              *)
LEMMA RefusedOnly ==
  ASSUME IInv, NEW c \in Callers, calls[c] # Nothing, NEW why \in Refusals, Only(c, Refuse(why))
  PROVE  Proceeds(c)
BY RefuseTyped, ByOnly

LEMMA AnsweredOnly ==
  ASSUME IInv, NEW c \in Callers, calls[c] # Nothing, NEW body \in SUBSET Fact, Only(c, Ok(body))
  PROVE  Proceeds(c)
BY OkTyped, ByOnly

LEMMA AnsweredOk ==
  ASSUME IInv, NEW c \in Callers, calls[c] # Nothing, NEW body \in SUBSET Fact, Answers(c, Ok(body)),
         objects' \in [ObjectKeys -> Contents \union {Nothing}], table' \in [TableKeys -> Item],
         RowsBuilt'
  PROVE  Proceeds(c)
BY OkTyped, ByAnswers

LEMMA ItemOf ==
  ASSUME IInv, NEW t \in Tenants
  PROVE  /\ \A n \in Namespaces, p \in Paths : table[DocumentItem(t, n, p)] \in Item
         /\ \A u \in Principals : table[UsageItem(t, u)] \in Item
         /\ \A x \in Connectors : table[CheckpointItem(t, x)] \in Item
BY StoresTyped, ItemAreas
-----------------------------------------------------------------------------
(* A call until it is served.                                              *)

LEMMA ReceiveStep ==
  ASSUME IInv, NEW c \in Callers, NEW r \in Requests, Receive(c, r)
  PROVE  IInv'
<1> DEFINE new == CallOf("arrived", r, Nothing, Unanswered, Untouched)
<1>1. calls' = [calls EXCEPT ![c] = new]
  BY DEF Receive
<1>2. new \in Call
  BY CallOfTyped, UnansweredTyped, UntouchedExcused, RequestAssumption
<1>3. new.pc = "arrived" /\ new.request = r /\ new.touched = Untouched
  BY DEF CallOf
<1> HIDE DEF new
<1>4. Linked(new)
  BY <1>3, UntouchedExcused DEF Linked
<1>5. UNCHANGED <<settings, objects, table>> /\ received' \in 0..MaxCalls
  BY BoundAssumption DEF Receive, IInv, TypeOK
<1>6. RowsBuilt'
  BY <1>5 DEF IInv, RowsBuilt
<1> QED
  BY <1>1, <1>2, <1>3, <1>4, <1>5, <1>6, CallChanges DEF IInv, TypeOK

LEMMA NotServed ==
  ASSUME IInv, NEW c \in Callers, At(c, "arrived") \/ At(c, "tool")
  PROVE  /\ calls[c] # Nothing /\ calls[c].touched = Untouched /\ calls[c].request \in Requests
         /\ calls[c].request.token \in Tokens \union {Nothing}
         /\ settings \in Settings
<1>1. calls[c] # Nothing /\ calls[c].pc \in {"arrived", "tool"}
  BY DEF At
<1>2. Linked(calls[c])
  BY <1>1, CallTyped
<1> QED
  BY <1>1, <1>2, RequestFacts, StoresTyped DEF Linked

LEMMA RefusedBefore ==
  ASSUME IInv, NEW c \in Callers, At(c, "arrived") \/ At(c, "tool"),
         NEW why \in Refusals, Ends(c, Refuse(why))
  PROVE  Proceeds(c)
BY NotServed, RefuseTyped, ByEnds

LEMMA IdentifyRestStep ==
  ASSUME IInv, NEW c \in Callers, IdentifyRest(c)
  PROVE  Proceeds(c)
<1> DEFINE token == calls[c].request.token
<1>1. At(c, "arrived") /\ calls[c].request.surface = "rest"
  BY DEF IdentifyRest
<1>2. CASE Identified(settings, token) /\ GoesTo(c, "service", Identity(settings, token))
  <2>1. calls[c].request.name # "tools/list"
    BY <1>1, NotServed, RequestAssumption DEF Request, Routes
  <2>2. Identity(settings, token) \in Context
    BY <1>1, <1>2, NotServed, IdentityTyped
  <2> QED
    BY <1>1, <1>2, <2>1, <2>2, NotServed, ByGoesTo
<1>3. CASE Ends(c, Refuse("unauthenticated"))
  BY <1>1, <1>3, RefusedBefore, RefusalWords
<1> QED
  BY <1>2, <1>3 DEF IdentifyRest

LEMMA ListToolsStep ==
  ASSUME IInv, NEW c \in Callers, ListTools(c)
  PROVE  Proceeds(c)
<1> DEFINE body == {Word(tool) : tool \in Visible(settings, calls[c].request.token)}
<1>1. At(c, "arrived")
  BY DEF ListTools
<1>2. CASE Ends(c, Ok(body))
  <2>1. \A tool \in DOMAIN Tools : Word(tool) \in Fact
    BY NothingAssumption DEF Word, Tells, Fact
  <2>2. Visible(settings, calls[c].request.token) \subseteq DOMAIN Tools
    BY DEF Visible
  <2>3. body \in SUBSET Fact
    BY <2>1, <2>2
  <2>4. Ok(body) \in Answer /\ Ok(body).status = "ok"
    BY <2>3, OkTyped
  <2> HIDE DEF body
  <2> QED
    BY <1>1, <1>2, <2>4, NotServed, ByEnds
<1>3. CASE Ends(c, Refuse("unauthenticated"))
  BY <1>1, <1>3, RefusedBefore, RefusalWords
<1> QED
  BY <1>2, <1>3 DEF ListTools

LEMMA GateStep ==
  ASSUME IInv, NEW c \in Callers, Gate(c)
  PROVE  Proceeds(c)
<1> DEFINE r == calls[c].request
<1>1. At(c, "arrived") /\ r.name # "tools/list"
  BY DEF Gate
<1>2. CASE \E why \in Refusals : Ends(c, Refuse(why))
  BY <1>1, <1>2, RefusedBefore
<1>3. CASE Identified(settings, r.token) /\ GoesTo(c, "tool", Identity(settings, r.token))
  <2>1. Identity(settings, r.token) \in Context
    BY <1>1, <1>3, NotServed, IdentityTyped
  <2> QED
    BY <1>1, <1>3, <2>1, NotServed, ByGoesTo
<1> QED
  BY <1>2, <1>3, RefusalWords DEF Gate

LEMMA ResolveToolStep ==
  ASSUME IInv, NEW c \in Callers, ResolveTool(c)
  PROVE  Proceeds(c)
<1> DEFINE r == calls[c].request
<1>1. At(c, "tool")
  BY DEF ResolveTool
<1>2. CASE ToolsIdentified(settings) /\ GoesTo(c, "service", DevContext(settings))
  <2>1. Identity(settings, r.token) = DevContext(settings) /\ Identified(settings, r.token)
    BY <1>2 DEF ToolsIdentified, Identity, Identified
  <2>2. Linked(calls[c]) /\ calls[c].pc = "tool"
    BY <1>1, CallTyped DEF At
  <2>3. DevContext(settings) \in Context
    BY <1>1, <2>1, NotServed, IdentityTyped
  <2> QED
    BY <1>1, <1>2, <2>1, <2>2, <2>3, NotServed, ByGoesTo DEF Linked
<1>3. CASE Ends(c, Refuse("unauthenticated"))
  BY <1>1, <1>3, RefusedBefore, RefusalWords
<1> QED
  BY <1>2, <1>3 DEF ResolveTool

LEMMA ReplyStep ==
  ASSUME IInv, NEW c \in Callers, Reply(c)
  PROVE  Proceeds(c)
<1>1. calls[c] # Nothing /\ calls[c].pc = "reply"
  BY DEF Reply, At
<1>2. calls[c].answer \in Answer /\ calls[c].answer.status # "none"
  BY <1>1, CallTyped DEF IInv, TypeOK
<1>3. CASE Ends(c, Refuse("over_budget"))
  BY <1>1, <1>3, RefuseTyped, RefusalWords, ByEnds
<1>4. CASE Ends(c, calls[c].answer)
  BY <1>1, <1>2, <1>4, ByEnds
<1> QED
  BY <1>3, <1>4 DEF Reply
-----------------------------------------------------------------------------
(* The services that only look.                                            *)

LEMMA DenyStep ==
  ASSUME IInv, NEW c \in Callers, Deny(c)
  PROVE  Proceeds(c)
<1>1. At(c, "service") /\ \E why \in Refusals : Only(c, Refuse(why))
  BY RefusalWords DEF Deny
<1> QED
  BY <1>1, AtService, RefusedOnly

LEMMA WhoAmIStep ==
  ASSUME IInv, NEW c \in Callers, WhoAmI(c)
  PROVE  Proceeds(c)
<1> DEFINE fact == Word(Who(c).principal)
<1>1. At(c, "service") /\ Only(c, Ok({fact}))
  BY DEF WhoAmI, Serving
<1>2. Who(c).principal \in Principals /\ calls[c] # Nothing
  BY <1>1, AtService
<1>3. fact \in Fact
  BY <1>2, NothingAssumption DEF Word, Tells, Fact
<1> HIDE DEF fact
<1> QED
  BY <1>1, <1>2, <1>3, AnsweredOnly

(* What a reader is told of the pages behind a row.                        *)
LEMMA TextTyped ==
  ASSUME IInv, NEW t \in Tenants, NEW n \in Namespaces, NEW p \in Paths
  PROVE  Text(p, objects[TextKey(t, n, p)]) \in Fact
<1>1. objects[TextKey(t, n, p)] \in Contents \union {Nothing}
  BY TextAreas, StoresTyped
<1> QED
  BY <1>1 DEF Text, Tells, Fact, Extractions

(* What a listing tells of the rows of a namespace.                        *)
LEMMA RowsTyped ==
  ASSUME IInv, NEW t \in Tenants, NEW n \in Namespaces, NEW S \in SUBSET Paths
  PROVE  {Row(p, table[DocumentItem(t, n, p)]) : p \in S} \in SUBSET Fact
<1>1. \A p \in S : Row(p, table[DocumentItem(t, n, p)]) \in Fact
  BY ItemOf, RowTyped
<1> QED
  BY <1>1

LEMMA ListStep ==
  ASSUME IInv, NEW c \in Callers, List(c)
  PROVE  Proceeds(c)
<1> DEFINE at(p) == table[DocumentItem(Who(c).tenant, What(c).namespace, p)]
           S == {q \in Paths : at(q).live}
           body == {Row(p, at(p)) : p \in S}
<1>1. At(c, "service") /\ Only(c, Ok(body))
  BY DEF List, Serving
<1>2. body \in SUBSET Fact
  <2>1. S \in SUBSET Paths
    OBVIOUS
  <2> HIDE DEF S
  <2> QED
    BY <1>1, <2>1, AtService, RowsTyped
<1> HIDE DEF body
<1> QED
  BY <1>1, <1>2, AtService, AnsweredOnly

LEMMA GrepStep ==
  ASSUME IInv, NEW c \in Callers, Grep(c)
  PROVE  Proceeds(c)
<1> DEFINE at(p) == table[DocumentItem(Who(c).tenant, What(c).namespace, p)]
           S == {q \in Paths : at(q).live /\ at(q).status = "extracted"}
           text(p) == objects[TextKey(Who(c).tenant, What(c).namespace, p)]
           body == {Text(p, text(p)) : p \in S}
<1>1. At(c, "service") /\ Only(c, Ok(body))
  BY DEF Grep, Serving
<1>2. body \in SUBSET Fact
  <2>1. S \in SUBSET Paths
    OBVIOUS
  <2> HIDE DEF S
  <2>2. \A p \in S : Text(p, text(p)) \in Fact
    BY <1>1, <2>1, AtService, TextTyped
  <2> QED
    BY <2>2
<1> HIDE DEF body
<1> QED
  BY <1>1, <1>2, AtService, AnsweredOnly

LEMMA RowAt ==
  ASSUME IInv, NEW c \in Callers, At(c, "service")
  PROVE  /\ table[DocumentAt(c)] \in Item
         /\ {Row(What(c).path, table[DocumentAt(c)])} \in SUBSET Fact
BY AtService, ItemOf, RowTyped DEF DocumentAt

LEMMA StatStep ==
  ASSUME IInv, NEW c \in Callers, Stat(c)
  PROVE  Proceeds(c)
<1> DEFINE body == {Row(What(c).path, table[DocumentAt(c)])}
<1>1. /\ At(c, "service")
      /\ (\E why \in Refusals : Only(c, Refuse(why))) \/ Only(c, Ok(body))
  BY RefusalWords DEF Stat, Serving
<1>2. body \in SUBSET Fact
  BY <1>1, RowAt
<1> HIDE DEF body
<1> QED
  BY <1>1, <1>2, AtService, RefusedOnly, AnsweredOnly

LEMMA ReadStep ==
  ASSUME IInv, NEW c \in Callers, Read(c)
  PROVE  Proceeds(c)
<1> DEFINE fact == Text(What(c).path, objects[TextAt(c)])
           body == {fact}
<1>1. /\ At(c, "service")
      /\ (\E why \in Refusals : Only(c, Refuse(why))) \/ Only(c, Ok(body))
  BY RefusalWords DEF Read, Serving
<1>2. body \in SUBSET Fact
  <2>1. fact \in Fact
    BY <1>1, AtService, TextTyped DEF TextAt
  <2> QED
    BY <2>1
<1> HIDE DEF body
<1> QED
  BY <1>1, <1>2, AtService, RefusedOnly, AnsweredOnly

LEMMA GetCheckpointStep ==
  ASSUME IInv, NEW c \in Callers, GetCheckpoint(c)
  PROVE  Proceeds(c)
<1> DEFINE fact == Tells(<<>>, table[CheckpointAt(c)].content, "none", 0)
<1>1. At(c, "service") /\ Only(c, Ok({fact}))
  BY DEF GetCheckpoint, Serving
<1>2. table[CheckpointAt(c)].content \in Contents \union {Nothing}
  BY <1>1, AtService, ItemOf DEF CheckpointAt, Item
<1>3. fact \in Fact
  BY <1>2 DEF Tells, Fact, Extractions
<1> HIDE DEF fact
<1> QED
  BY <1>1, <1>3, AtService, AnsweredOnly

LEMMA ScratchReadStep ==
  ASSUME IInv, NEW c \in Callers, ScratchRead(c)
  PROVE  Proceeds(c)
<1> DEFINE fact == Tells(What(c).path, objects[ScratchAt(c)], "none", 0)
<1>1. /\ At(c, "service")
      /\ (\E why \in Refusals : Only(c, Refuse(why))) \/ Only(c, Ok({fact}))
  BY RefusalWords DEF ScratchRead, Serving
<1>2. objects[ScratchAt(c)] \in Contents \union {Nothing} /\ What(c).path \in Paths
  <2>1. /\ Who(c).tenant \in Tenants /\ Who(c).principal \in Principals
        /\ What(c).path \in Paths
    BY <1>1, AtService
  <2>2. ScratchAt(c) \in ObjectKeys
    BY <2>1, ObjectAreas DEF ScratchAt
  <2> QED
    BY <2>1, <2>2, StoresTyped
<1>3. fact \in Fact
  BY <1>2 DEF Tells, Fact, Extractions
<1> HIDE DEF fact
<1> QED
  BY <1>1, <1>3, AtService, RefusedOnly, AnsweredOnly

LEMMA ScratchListStep ==
  ASSUME IInv, NEW c \in Callers, ScratchList(c)
  PROVE  Proceeds(c)
<1> DEFINE at(p) == ScratchKey(Who(c).tenant, Who(c).principal, p)
           S == {q \in Paths : objects[at(q)] # Nothing}
           body == {Tells(p, Nothing, "none", 0) : p \in S}
<1>1. At(c, "service") /\ Only(c, Ok(body))
  BY DEF ScratchList, Serving
<1>2. \A p \in Paths : Tells(p, Nothing, "none", 0) \in Fact
  BY DEF Tells, Fact, Extractions
<1>3. body \in SUBSET Fact
  BY <1>2
<1> HIDE DEF body
<1> QED
  BY <1>1, <1>3, AtService, AnsweredOnly
-----------------------------------------------------------------------------
(* The services that change the stores.                                    *)

(* A row that is not live, or whose key can be built, keeps rows built.    *)
LEMMA RowChanges ==
  ASSUME IInv, NEW t \in Tenants, NEW n \in Namespaces, NEW p \in Paths, NEW item \in Item,
         table' = [table EXCEPT ![DocumentItem(t, n, p)] = item],
         item.live => CanBuild(t, n, p)
  PROVE  table' \in [TableKeys -> Item] /\ RowsBuilt'
<1> DEFINE k == DocumentItem(t, n, p)
<1>1. k \in TableKeys /\ table \in [TableKeys -> Item]
  BY ItemAreas, StoresTyped
<1>2. table'[k] = item /\ \A l \in TableKeys \ {k} : table'[l] = table[l]
  BY <1>1
<1>3. ASSUME NEW u \in Tenants, NEW m \in Namespaces, NEW q \in Paths,
             table'[DocumentItem(u, m, q)].live
      PROVE  CanBuild(u, m, q)
  <2>1. CASE DocumentItem(u, m, q) = k
    <3>1. u = t /\ m = n /\ q = p
      BY <2>1, SameDocument
    <3> QED
      BY <2>1, <3>1, <1>2, <1>3
  <2>2. CASE DocumentItem(u, m, q) # k
    <3>1. DocumentItem(u, m, q) \in TableKeys
      BY ItemAreas
    <3> QED
      BY <2>2, <3>1, <1>2, <1>3 DEF IInv, RowsBuilt
  <2> QED
    BY <2>1, <2>2
<1> QED
  BY <1>1, <1>3 DEF RowsBuilt

(* What a call may change: the rest of the stores, outside an area, stays. *)
Within(a) ==
  /\ objects' \in [ObjectKeys -> Contents \union {Nothing}] /\ table' \in [TableKeys -> Item]
  /\ \A k \in ObjectKeys : AreaOfObject(k) # a => objects'[k] = objects[k]
  /\ \A k \in TableKeys : AreaOfItem(k) # a => table'[k] = table[k]

Confined(c) ==
  \/ stores' = stores
  \/ \E a \in MayChange(settings, calls[c].request.token) : Within(a)

LEMMA ObjectChanges ==
  ASSUME IInv, NEW k \in ObjectKeys, NEW v \in Contents \union {Nothing},
         objects' = [objects EXCEPT ![k] = v]
  PROVE  /\ objects' \in [ObjectKeys -> Contents \union {Nothing}]
         /\ \A l \in ObjectKeys : AreaOfObject(l) # AreaOfObject(k) => objects'[l] = objects[l]
<1>1. objects \in [ObjectKeys -> Contents \union {Nothing}]
  BY StoresTyped
<1> QED
  BY <1>1

(* The original and the pages of a document lie in one area.               *)
LEMMA DocumentChanges ==
  ASSUME IInv, NEW c \in Callers, At(c, "service"),
         CanBuild(Who(c).tenant, What(c).namespace, What(c).path),
         NEW v \in Contents \union {Nothing}, NEW changed,
         LET original == [objects EXCEPT ![OriginalAt(c)] = v]
         IN  changed \in {original, [original EXCEPT ![TextAt(c)] = v]}
  PROVE  /\ changed \in [ObjectKeys -> Contents \union {Nothing}]
         /\ \A k \in ObjectKeys :
              AreaOfObject(k) # Area("docs", Who(c).tenant, What(c).namespace) =>
                changed[k] = objects[k]
<1>1. /\ Who(c).tenant \in Tenants /\ What(c).namespace \in Namespaces
      /\ What(c).path \in Paths
  BY AtService
<1>2. /\ OriginalAt(c) \in ObjectKeys
      /\ AreaOfObject(OriginalAt(c)) = Area("docs", Who(c).tenant, What(c).namespace)
  BY <1>1, ObjectAreas DEF OriginalAt
<1>3. /\ TextAt(c) \in ObjectKeys
      /\ AreaOfObject(TextAt(c)) = Area("docs", Who(c).tenant, What(c).namespace)
  BY <1>1, TextAreas DEF TextAt
<1>4. objects \in [ObjectKeys -> Contents \union {Nothing}]
  BY StoresTyped
<1> QED
  BY <1>2, <1>3, <1>4

LEMMA ItemChanges ==
  ASSUME IInv, NEW k \in TableKeys, NEW item \in Item, table' = [table EXCEPT ![k] = item]
  PROVE  /\ table' \in [TableKeys -> Item]
         /\ \A l \in TableKeys : AreaOfItem(l) # AreaOfItem(k) => table'[l] = table[l]
         /\ AreaOfItem(k).kind # "docs" => RowsBuilt'
<1>1. table \in [TableKeys -> Item]
  BY StoresTyped
<1>2. table' \in [TableKeys -> Item] /\ \A l \in TableKeys \ {k} : table'[l] = table[l]
  BY <1>1
<1>3. ASSUME AreaOfItem(k).kind # "docs", NEW t \in Tenants, NEW n \in Namespaces,
             NEW p \in Paths
      PROVE  table'[DocumentItem(t, n, p)] = table[DocumentItem(t, n, p)]
  <2>1. DocumentItem(t, n, p) \in TableKeys /\ AreaOfItem(DocumentItem(t, n, p)).kind = "docs"
    <3>1. /\ DocumentItem(t, n, p) \in TableKeys
          /\ AreaOfItem(DocumentItem(t, n, p)) = Area("docs", t, n)
      BY ItemAreas
    <3>2. Area("docs", t, n).kind = "docs"
      BY DEF Area
    <3> QED
      BY <3>1, <3>2
  <2> QED
    BY <2>1, <1>2, <1>3
<1>4. AreaOfItem(k).kind # "docs" => RowsBuilt'
  BY <1>3 DEF RowsBuilt, IInv
<1> QED
  BY <1>2, <1>4

(* The area an authorised call may change, and the owner of its keys.      *)
LEMMA RightsAt ==
  ASSUME IInv, NEW c \in Callers, At(c, "service"), Authorized(c)
  PROVE  LET may == MayChange(settings, What(c).token)
             o == OperationOf(What(c))
         IN  /\ o \in Ingests =>
                  /\ Area("docs", Who(c).tenant, What(c).namespace) \in may
                  /\ Owner(c) = What(c).namespace
             /\ o = "put_checkpoint" => Area("sync", Who(c).tenant, "") \in may
             /\ o \in Scratches =>
                  /\ Area("scratch", Who(c).tenant, Who(c).principal) \in may
                  /\ Owner(c) = Who(c).principal
<1> DEFINE o == OperationOf(What(c))
<1>1. Who(c) = Identity(settings, What(c).token) /\ settings \in Settings
      /\ What(c).token \in Tokens \union {Nothing} /\ Identified(settings, What(c).token)
  BY AtService
<1>2. Required[o] \subseteq Who(c).scopes
  BY DEF Authorized, Scoped, What, Who
<1>3. ASSUME o \in Ingests
      PROVE  /\ Area("docs", Who(c).tenant, What(c).namespace) \in MayChange(settings, What(c).token)
             /\ Owner(c) = What(c).namespace
  <2>1. Required[o] = {"ingest"}
    BY <1>3 DEF Required, Operations, Ingests, Reads, Syncs, Scratches
  <2>2. "ingest" \in Who(c).scopes
    BY <2>1, <1>2
  <2>3. What(c).namespace \in Who(c).namespaces
    BY <1>3 DEF Authorized, Granted, What, Who
  <2>4. o \notin Scratches
    BY <1>3 DEF Ingests, Scratches
  <2> QED
    BY <2>2, <2>3, <2>4, <1>1, MayFacts DEF Owner
<1>4. ASSUME o = "put_checkpoint"
      PROVE  Area("sync", Who(c).tenant, "") \in MayChange(settings, What(c).token)
  <2>1. Required[o] = {"ingest"}
    BY <1>4 DEF Required, Operations, Ingests, Reads, Syncs, Scratches
  <2> QED
    BY <2>1, <1>1, <1>2, MayFacts
<1>5. ASSUME o \in Scratches
      PROVE  /\ Area("scratch", Who(c).tenant, Who(c).principal)
                   \in MayChange(settings, What(c).token)
             /\ Owner(c) = Who(c).principal
  <2>1. Required[o] = {"fs:write:scratch"}
    BY <1>5 DEF Required, Operations, Ingests, Reads, Syncs, Scratches
  <2> QED
    BY <2>1, <1>1, <1>2, <1>5, MayFacts DEF Owner
<1> QED
  BY <1>3, <1>4, <1>5

(* Only the route of uploads hands a call to put_document.                 *)
LEMMA PutIsRest ==
  ASSUME IInv, NEW c \in Callers, At(c, "service"), OperationOf(What(c)) = "put"
  PROVE  What(c).surface = "rest" /\ What(c).name = "put_doc"
<1>1. What(c) \in Request /\ What(c).name # "tools/list"
  BY AtService, RequestAssumption DEF At, IInv, TypeOK, What
<1>2. CASE What(c).surface = "rest"
  <2>1. What(c).name \in DOMAIN Routes /\ Routes[What(c).name] = "put"
    BY <1>1, <1>2 DEF Request, OperationOf
  <2> QED
    BY <1>2, <2>1 DEF Routes
<1>3. CASE What(c).surface = "mcp"
  <2>1. What(c).name \in DOMAIN Tools /\ Tools[What(c).name] = "put"
    BY <1>1, <1>3 DEF Request, OperationOf
  <2> QED
    BY <2>1 DEF Tools
<1> QED
  BY <1>1, <1>2, <1>3 DEF Request

LEMMA PutStep ==
  ASSUME IInv, NEW c \in Callers, Put(c)
  PROVE  Proceeds(c) /\ Confined(c)
<1> DEFINE a == Area("docs", Who(c).tenant, What(c).namespace)
           body == {Row(What(c).path, NewRow(c))}
<1>1. At(c, "service") /\ Authorized(c) /\ OperationOf(What(c)) \in Ingests
  BY DEF Put, Serving, What, Ingests
<1>2. /\ Who(c).tenant \in Tenants /\ What(c).namespace \in Namespaces
      /\ What(c).path \in Paths /\ What(c).content \in Contents /\ calls[c] # Nothing
  BY <1>1, AtService
<1>3. CASE Only(c, Refuse("invalid_key"))
  BY <1>2, <1>3, RefusedOnly, RefusalWords DEF Only, Confined
<1>4. ASSUME Buildable(c), objects' = PutObjects(c)
      PROVE  /\ CanBuild(Who(c).tenant, What(c).namespace, What(c).path)
             /\ objects' \in [ObjectKeys -> Contents \union {Nothing}]
             /\ \A k \in ObjectKeys : AreaOfObject(k) # a => objects'[k] = objects[k]
             /\ a \in MayChange(settings, calls[c].request.token)
  <2>1. CanBuild(Who(c).tenant, What(c).namespace, What(c).path)
    BY <1>1, <1>4, RightsAt DEF Buildable
  <2>2. LET original == [objects EXCEPT ![OriginalAt(c)] = What(c).content]
        IN  objects' \in {original, [original EXCEPT ![TextAt(c)] = What(c).content]}
    BY <1>4 DEF PutObjects
  <2>3. a \in MayChange(settings, calls[c].request.token)
    BY <1>1, RightsAt DEF What
  <2> QED
    BY <1>1, <1>2, <2>1, <2>2, <2>3, DocumentChanges
<1>5. CASE /\ Buildable(c) /\ objects' = PutObjects(c) /\ Fails(c)
           /\ UNCHANGED table /\ Answers(c, Refuse(Outcome(c)))
  <2>1. ~settings.async /\ Outcome(c) = Extracts[What(c).content] /\ Outcome(c) \in Raised
    BY <1>5 DEF Fails, Outcome, Raised
  <2>2. Outcome(c) \in Refusals
    BY <2>1, RefusalWords DEF Raised
  <2> DEFINE answer == Refuse(Outcome(c))
             failed == [calls[c] EXCEPT !.answer = answer]
  <2>3. answer \in Answer /\ answer.status = Outcome(c) /\ answer.status # "none"
    BY <2>2, RefuseTyped
  <2>4. ExtractionFailed(failed)
    <3>1. calls[c] \in Call
      BY <1>2, CallTyped
    <3>2. failed.request = What(c) /\ failed.answer = answer
      BY <3>1 DEF Call, What
    <3>3. What(c).surface = "rest" /\ What(c).name = "put_doc"
      BY <1>1, PutIsRest DEF Put, Serving, What
    <3> HIDE DEF failed, answer
    <3> QED
      BY <2>1, <2>3, <3>2, <3>3 DEF ExtractionFailed
  <2>5. RowsBuilt' /\ table' \in [TableKeys -> Item]
    BY <1>5, StoresTyped DEF IInv, RowsBuilt
  <2> HIDE DEF answer
  <2>6. Answers(c, answer)
    BY <1>5 DEF answer
  <2>7. Proceeds(c)
    BY <1>2, <1>4, <1>5, <2>3, <2>4, <2>5, <2>6, ByAnswers
  <2>8. Within(a)
    BY <1>4, <1>5, <2>5 DEF Within
  <2> QED
    BY <1>4, <1>5, <2>7, <2>8 DEF Confined
<1>6. CASE /\ Buildable(c) /\ objects' = PutObjects(c) /\ ~Fails(c)
           /\ table' = [table EXCEPT ![DocumentAt(c)] = NewRow(c)]
           /\ Answers(c, Ok(body))
  <2>1. NewRow(c) \in Item
    <3>1. Outcome(c) \in {"pending", "extracted", "catalog_only"}
      BY <1>2, <1>6, ContentAssumption DEF Outcome, Fails
    <3> QED
      BY <1>2, <3>1 DEF NewRow, Item, Extractions
  <2>2. DocumentAt(c) \in TableKeys /\ AreaOfItem(DocumentAt(c)) = a
    BY <1>2, ItemAreas DEF DocumentAt
  <2>3. RowsBuilt'
    BY <1>2, <1>4, <1>6, <2>1, RowChanges DEF DocumentAt
  <2>4. Within(a)
    BY <1>4, <1>6, <2>1, <2>2, ItemChanges DEF Within
  <2>5. body \in SUBSET Fact
    BY <1>2, <2>1, RowTyped
  <2> HIDE DEF body
  <2>6. Proceeds(c)
    BY <1>2, <1>6, <2>3, <2>4, <2>5, AnsweredOk DEF Within
  <2> QED
    BY <1>4, <1>6, <2>4, <2>6 DEF Confined
<1> QED
  BY <1>1, <1>3, <1>5, <1>6 DEF Put

LEMMA DeleteStep ==
  ASSUME IInv, NEW c \in Callers, Delete(c)
  PROVE  Proceeds(c) /\ Confined(c)
<1> DEFINE a == Area("docs", Who(c).tenant, What(c).namespace)
           row == table[DocumentAt(c)]
           dead == [row EXCEPT !.live = FALSE]
<1>1. At(c, "service") /\ Authorized(c) /\ OperationOf(What(c)) \in Ingests
  BY DEF Delete, Serving, What, Ingests
<1>2. /\ Who(c).tenant \in Tenants /\ What(c).namespace \in Namespaces
      /\ What(c).path \in Paths /\ calls[c] # Nothing
  BY <1>1, AtService
<1>3. row \in Item /\ DocumentAt(c) \in TableKeys /\ AreaOfItem(DocumentAt(c)) = a
  BY <1>2, ItemAreas, ItemOf DEF DocumentAt
<1>4. dead \in Item /\ ~dead.live
  BY <1>3 DEF Item
<1>5. ASSUME table' = [table EXCEPT ![DocumentAt(c)].live = FALSE]
      PROVE  table' = [table EXCEPT ![DocumentAt(c)] = dead]
  BY <1>5
<1>6. CASE Only(c, Refuse("invalid_key"))
  BY <1>2, <1>6, RefusedOnly, RefusalWords DEF Only, Confined
<1>7. CASE /\ table' = [table EXCEPT ![DocumentAt(c)].live = FALSE]
           /\ ~Buildable(c) /\ UNCHANGED objects /\ Answers(c, Refuse("invalid_key"))
  <2>1. ~row.live
    BY <1>1, <1>2, <1>7, RightsAt DEF Buildable, IInv, RowsBuilt, DocumentAt
  <2>2. dead = row
    BY <2>1, <1>3 DEF Item
  <2>3. table' = table
    BY <1>3, <1>5, <1>7, <2>2, StoresTyped
  <2>4. Only(c, Refuse("invalid_key"))
    BY <1>7, <2>3 DEF Only, stores
  <2> QED
    BY <1>6, <2>4
<1>8. CASE /\ table' = [table EXCEPT ![DocumentAt(c)].live = FALSE]
           /\ Buildable(c) /\ objects' = DeletedObjects(c)
           /\ Answers(c, Ok({}))
  <2>1. CanBuild(Who(c).tenant, What(c).namespace, What(c).path)
    BY <1>1, <1>8, RightsAt DEF Buildable
  <2>2. /\ objects' \in [ObjectKeys -> Contents \union {Nothing}]
        /\ \A k \in ObjectKeys : AreaOfObject(k) # a => objects'[k] = objects[k]
    <3>1. LET original == [objects EXCEPT ![OriginalAt(c)] = Nothing]
          IN  objects' \in {original, [original EXCEPT ![TextAt(c)] = Nothing]}
      BY <1>8 DEF DeletedObjects
    <3> QED
      BY <1>1, <2>1, <3>1, DocumentChanges
  <2> HIDE DEF dead
  <2>3. table' = [table EXCEPT ![DocumentAt(c)] = dead]
    BY <1>5, <1>8
  <2>4. RowsBuilt'
    BY <1>2, <1>4, <2>1, <2>3, RowChanges DEF DocumentAt
  <2>5. Within(a)
    BY <1>3, <1>4, <1>8, <2>2, <2>3, ItemChanges DEF Within
  <2>6. a \in MayChange(settings, calls[c].request.token)
    BY <1>1, RightsAt DEF What
  <2>7. Proceeds(c)
    BY <1>2, <1>8, <2>4, <2>5, AnsweredOk DEF Within
  <2> QED
    BY <2>5, <2>6, <2>7 DEF Confined
<1> QED
  BY <1>6, <1>7, <1>8 DEF Delete

LEMMA PutCheckpointStep ==
  ASSUME IInv, NEW c \in Callers, PutCheckpoint(c)
  PROVE  Proceeds(c) /\ Confined(c)
<1> DEFINE a == Area("sync", Who(c).tenant, "")
           item == [table[CheckpointAt(c)] EXCEPT !.content = What(c).content]
<1>1. At(c, "service") /\ Authorized(c) /\ OperationOf(What(c)) = "put_checkpoint"
  BY DEF PutCheckpoint, Serving, What
<1>2. /\ Who(c).tenant \in Tenants /\ What(c).connector \in Connectors
      /\ What(c).content \in Contents /\ calls[c] # Nothing
  BY <1>1, AtService
<1>3. table[CheckpointAt(c)] \in Item /\ CheckpointAt(c) \in TableKeys /\ AreaOfItem(CheckpointAt(c)) = a
  BY <1>2, ItemAreas, ItemOf DEF CheckpointAt
<1>4. item \in Item
  BY <1>2, <1>3 DEF Item
<1>5. table' = [table EXCEPT ![CheckpointAt(c)] = item] /\ objects' = objects /\ Answers(c, Ok({}))
  BY DEF PutCheckpoint
<1> HIDE DEF item
<1>6. a.kind # "docs"
  BY DEF Area
<1>7. Within(a) /\ RowsBuilt'
  BY <1>3, <1>4, <1>5, <1>6, ItemChanges, StoresTyped DEF Within
<1>8. a \in MayChange(settings, calls[c].request.token)
  BY <1>1, RightsAt DEF What
<1>9. Proceeds(c)
  BY <1>2, <1>5, <1>7, AnsweredOk DEF Within
<1> QED
  BY <1>7, <1>8, <1>9 DEF Confined

(* A charge and an object of the caller's workspace.                       *)
LEMMA ScratchChanges ==
  ASSUME IInv, NEW c \in Callers, At(c, "service"), Authorized(c),
         OperationOf(What(c)) \in Scratches, Buildable(c),
         NEW bytes \in Int, NEW v \in Contents \union {Nothing},
         Charge(c, bytes), objects' = [objects EXCEPT ![ScratchAt(c)] = v],
         Answers(c, Ok(Usage(c, bytes)))
  PROVE  Proceeds(c) /\ Confined(c)
<1> DEFINE a == Area("scratch", Who(c).tenant, Who(c).principal)
           used == table[UsageAt(c)]
           item == [used EXCEPT !.bytes = used.bytes + bytes]
<1>1. /\ Who(c).tenant \in Tenants /\ Who(c).principal \in Principals
      /\ What(c).path \in Paths /\ calls[c] # Nothing
  BY AtService
<1>2. used \in Item /\ UsageAt(c) \in TableKeys /\ AreaOfItem(UsageAt(c)) = a
  BY <1>1, ItemAreas, ItemOf DEF UsageAt
<1>3. used.bytes \in Int
  BY <1>2 DEF Item
<1>4. item \in Item /\ used.bytes + bytes \in Int
  BY <1>2, <1>3 DEF Item
<1>5. table' = [table EXCEPT ![UsageAt(c)] = item]
  BY DEF Charge
<1>6. CanBuild(Who(c).tenant, Who(c).principal, What(c).path)
  BY RightsAt DEF Buildable
<1>7. ScratchAt(c) \in ObjectKeys /\ AreaOfObject(ScratchAt(c)) = a
  BY <1>1, <1>6, ObjectAreas DEF ScratchAt
<1>8. a.kind # "docs"
  BY DEF Area
<1> HIDE DEF item
<1>9. Within(a) /\ RowsBuilt'
  BY <1>2, <1>4, <1>5, <1>7, <1>8, ObjectChanges, ItemChanges DEF Within
<1>10. a \in MayChange(settings, calls[c].request.token)
  BY RightsAt DEF What
<1>11. Usage(c, bytes) \in SUBSET Fact
  BY <1>1, <1>4 DEF Usage, Tells, Fact, Extractions
<1>12. Proceeds(c)
  BY <1>1, <1>9, <1>11, AnsweredOk DEF Within
<1> QED
  BY <1>9, <1>10, <1>12 DEF Confined

LEMMA StoredTyped ==
  ASSUME IInv, NEW k \in ObjectKeys
  PROVE  Stored(k) \in Int
<1>1. objects[k] \in Contents \union {Nothing}
  BY StoresTyped
<1>2. objects[k] # Nothing => Size[objects[k]] \in Nat
  BY <1>1, ContentAssumption
<1> QED
  BY <1>2 DEF Stored

LEMMA ScratchKeyAt ==
  ASSUME IInv, NEW c \in Callers, At(c, "service")
  PROVE  ScratchAt(c) \in ObjectKeys
BY AtService, ObjectAreas DEF ScratchAt

LEMMA ScratchWriteStep ==
  ASSUME IInv, NEW c \in Callers, ScratchWrite(c)
  PROVE  Proceeds(c) /\ Confined(c)
<1> DEFINE added == Size[What(c).content] - Stored(ScratchAt(c))
<1>1. At(c, "service") /\ Authorized(c) /\ OperationOf(What(c)) \in Scratches
  BY DEF ScratchWrite, Serving, What, Scratches
<1>2. What(c).content \in Contents /\ calls[c] # Nothing
  BY <1>1, AtService
<1>3. CASE Only(c, Refuse("invalid_key"))
  BY <1>2, <1>3, RefusedOnly, RefusalWords DEF Only, Confined
<1>4. CASE /\ Buildable(c) /\ Charge(c, added)
           /\ objects' = [objects EXCEPT ![ScratchAt(c)] = What(c).content]
           /\ Answers(c, Ok(Usage(c, added)))
  <2>1. Size[What(c).content] \in Nat
    BY <1>2, ContentAssumption
  <2>2. added \in Int
    BY <1>1, <2>1, ScratchKeyAt, StoredTyped
  <2> HIDE DEF added
  <2> QED
    BY <1>1, <1>2, <1>4, <2>2, ScratchChanges
<1> QED
  BY <1>3, <1>4 DEF ScratchWrite

LEMMA ScratchDeleteStep ==
  ASSUME IInv, NEW c \in Callers, ScratchDelete(c)
  PROVE  Proceeds(c) /\ Confined(c)
<1> DEFINE freed == -Stored(ScratchAt(c))
<1>1. At(c, "service") /\ Authorized(c) /\ OperationOf(What(c)) \in Scratches
  BY DEF ScratchDelete, Serving, What, Scratches
<1>2. calls[c] # Nothing
  BY <1>1, AtService
<1>3. CASE \E why \in Refusals : Only(c, Refuse(why))
  BY <1>2, <1>3, RefusedOnly DEF Only, Confined
<1>4. CASE /\ Buildable(c) /\ Charge(c, freed)
           /\ objects' = [objects EXCEPT ![ScratchAt(c)] = Nothing]
           /\ Answers(c, Ok(Usage(c, freed)))
  <2>1. freed \in Int
    BY <1>1, ScratchKeyAt, StoredTyped
  <2> HIDE DEF freed
  <2> QED
    BY <1>1, <1>2, <1>4, <2>1, ScratchChanges
<1> QED
  BY <1>3, <1>4, RefusalWords DEF ScratchDelete
-----------------------------------------------------------------------------
(* Every step of a call proceeds, and changes the stores in one area only. *)

LEMMA StepStays ==
  ASSUME IInv, NEW c \in Callers, Step(c)
  PROVE  Proceeds(c) /\ Confined(c)
<1> DEFINE Early == IdentifyRest(c) \/ ListTools(c) \/ Gate(c) \/ ResolveTool(c) \/ Reply(c)
           Looking == \/ Deny(c) \/ WhoAmI(c) \/ List(c) \/ Grep(c) \/ Stat(c) \/ Read(c)
                      \/ GetCheckpoint(c) \/ ScratchRead(c) \/ ScratchList(c)
           Changing == Put(c) \/ Delete(c) \/ PutCheckpoint(c) \/ ScratchWrite(c) \/ ScratchDelete(c)
<1>1. CASE Early
  <2>1. Proceeds(c)
    BY <1>1, IdentifyRestStep, ListToolsStep, GateStep, ResolveToolStep, ReplyStep
  <2>2. stores' = stores
    BY <1>1 DEF IdentifyRest, ListTools, Gate, ResolveTool, Reply, GoesTo, Ends, stores
  <2> QED
    BY <2>1, <2>2 DEF Confined
<1>2. CASE Looking
  <2>1. Proceeds(c)
    BY <1>2, DenyStep, WhoAmIStep, ListStep, GrepStep, StatStep, ReadStep, GetCheckpointStep,
       ScratchReadStep, ScratchListStep
  <2>2. stores' = stores
    BY <1>2 DEF Deny, WhoAmI, List, Grep, Stat, Read, GetCheckpoint, ScratchRead, ScratchList, Only
  <2> QED
    BY <2>1, <2>2 DEF Confined
<1>3. CASE Changing
  BY <1>3, PutStep, DeleteStep, PutCheckpointStep, ScratchWriteStep, ScratchDeleteStep
<1> QED
  BY <1>1, <1>2, <1>3 DEF Step, Serve

LEMMA StepOfCall ==
  ASSUME NEW c \in Callers, Step(c)
  PROVE  calls[c] # Nothing
BY DEF Step, Serve, IdentifyRest, ListTools, Gate, ResolveTool, Reply, Deny, WhoAmI, List, Grep,
   Stat, Read, Put, Delete, GetCheckpoint, PutCheckpoint, ScratchWrite, ScratchRead, ScratchList,
   ScratchDelete, Serving, At

LEMMA NextIInv == IInv /\ [Next]_vars => IInv'
<1>1. ASSUME IInv, Next PROVE IInv'
  BY <1>1, StepStays, ReceiveStep DEF Next, Proceeds
<1>2. ASSUME IInv, UNCHANGED vars PROVE IInv'
  BY <1>2 DEF vars, IInv, TypeOK, RowsBuilt, Linked, Excused, ExtractionFailed
<1> QED
  BY <1>1, <1>2

LEMMA Invariant == Spec => []IInv
BY InitIInv, NextIInv, PTL DEF Spec

(* Types are right in every deployment, for any tokens and requests: in    *)
(* particular a service has a principal to act for whenever it serves.     *)
THEOREM GatewayTypeCorrect == Spec => []TypeOK
<1>1. IInv => TypeOK
  BY DEF IInv
<1> QED
  BY <1>1, Invariant, PTL

(* A refused call leaves the rows, the usage and the cursors as they were, *)
(* whatever the settings, the paths, the names and the contents it came    *)
(* with; and the bucket too, unless it is a PUT that stored an original    *)
(* its extraction then failed at (services/ingest.py:91-107 and 182-183,   *)
(* extraction/runner.py:55-60, tools/middleware.py:98-114).                *)
THEOREM RefusalsLeaveRows == Spec => []RefusedLeavesRows
<1>1. IInv => RefusedLeavesRows
  BY DEF IInv, Linked, Excused, RefusedLeavesRows
<1> QED
  BY <1>1, Invariant, PTL
-----------------------------------------------------------------------------
(* The gateway implements the vault.                                       *)

LEMMA VaultInit == Init => Guarded!Init
BY DEF Init, Guarded!Init

LEMMA RightsInAreas ==
  ASSUME NEW s, NEW token
  PROVE  MayChange(s, token) \subseteq Areas
BY DEF MayChange, Rights

LEMMA VaultReceive ==
  ASSUME IInv, NEW c \in Callers, NEW r \in Requests, Receive(c, r)
  PROVE  Guarded!Arrive(c)
<1>1. calls' = [calls EXCEPT ![c] = CallOf("arrived", r, Nothing, Unanswered, Untouched)]
  BY DEF Receive
<1>2. \A d \in Callers \ {c} : calls'[d] = calls[d]
  BY <1>1 DEF IInv, TypeOK
<1>3. settings' = settings /\ objects' = objects /\ table' = table
  BY DEF Receive
<1> QED
  BY <1>2, <1>3, RightsInAreas DEF Guarded!Arrive

LEMMA RightsStay ==
  ASSUME IInv, NEW c \in Callers, Step(c)
  PROVE  \A d \in Callers :
           (IF calls'[d] = Nothing THEN {} ELSE MayChange(settings', calls'[d].request.token))
           = (IF calls[d] = Nothing THEN {} ELSE MayChange(settings, calls[d].request.token))
<1>1. Proceeds(c) /\ calls[c] # Nothing
  BY StepStays, StepOfCall
<1> QED
  BY <1>1 DEF Proceeds

(* What is kept in an area, as Vault sees it.                              *)
Kept(a) == <<[k \in ObjectsIn[a] |-> objects[k]], [k \in ItemsIn[a] |-> table[k]]>>

LEMMA WithinOneArea ==
  ASSUME NEW a, Within(a)
  PROVE  \A b \in Areas \ {a} : Kept(b)' = Kept(b)
<1> TAKE b \in Areas \ {a}
<1>1. \A k \in ObjectsIn[b] : objects'[k] = objects[k]
  BY DEF Within, ObjectsIn
<1>2. \A k \in ItemsIn[b] : table'[k] = table[k]
  BY DEF Within, ItemsIn
<1> QED
  BY <1>1, <1>2 DEF Kept

LEMMA VaultStep ==
  ASSUME IInv, NEW c \in Callers, Step(c)
  PROVE  Guarded!Change(c) \/ UNCHANGED Guarded!vars
<1> DEFINE may(d) == IF calls[d] = Nothing THEN {} ELSE MayChange(settings, calls[d].request.token)
<1>1. \A d \in Callers : may(d)' = may(d)
  BY RightsStay
<1>2. [d \in Callers |-> may(d)]' = [d \in Callers |-> may(d)]
  BY <1>1
<1>3. calls[c] # Nothing /\ Confined(c)
  BY StepOfCall, StepStays
<1>4. CASE stores' = stores
  <2>1. [a \in Areas |-> Kept(a)]' = [a \in Areas |-> Kept(a)]
    BY <1>4 DEF stores, Kept
  <2> QED
    BY <1>2, <2>1 DEF Guarded!vars, Kept
<1>5. CASE \E a \in MayChange(settings, calls[c].request.token) : Within(a)
  <2>1. PICK a \in may(c) : Within(a)
    BY <1>3, <1>5
  <2>2. \A b \in Areas \ {a} : Kept(b)' = Kept(b)
    BY <2>1, WithinOneArea
  <2> QED
    BY <1>2, <2>1, <2>2 DEF Guarded!Change, Kept
<1> QED
  BY <1>3, <1>4, <1>5 DEF Confined

LEMMA VaultNext == IInv /\ [Next]_vars => [Guarded!Next]_(Guarded!vars)
<1>1. ASSUME IInv, Next PROVE [Guarded!Next]_(Guarded!vars)
  BY <1>1, VaultStep, VaultReceive DEF Next, Guarded!Next
<1>2. ASSUME UNCHANGED vars PROVE UNCHANGED Guarded!vars
  BY <1>2 DEF vars, Guarded!vars
<1> QED
  BY <1>1, <1>2

(* Nothing is changed outside the areas a token gives rights to, and a     *)
(* call changes one of them at a time, for all tenants, namespaces, paths  *)
(* and claims: the gateway implements the vault (services/fs.py:162,       *)
(* services/ingest.py:64, services/scratch.py:35, keys.py:137).            *)
THEOREM GatewayImplementsVault == Spec => Isolated
BY VaultInit, VaultNext, Invariant, PTL DEF Spec, Isolated, Guarded!Spec
=============================================================================
