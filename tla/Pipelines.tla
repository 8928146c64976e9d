----------------------------- MODULE Pipelines ------------------------------
(***************************************************************************)
(* From settings to the ladder a document takes: an explicit ladder, a     *)
(* preset, or a file of routes by content type.                            *)
(***************************************************************************)
EXTENDS Rungs

DefaultLadder == <<"text_native", "pdf", "docx">>

Presets ==
  [lite       |-> <<"text_native", "pdf", "docx">>,
   ocr        |-> <<"text_native", "pdf", "docx", "textract">>,
   tables     |-> <<"text_native", "pdftables", "docx", "textract_analyze">>,
   multimodal |-> <<"text_native", "pdf", "docx", "llm">>,
   full       |-> <<"text_native", "pdftables", "docx", "textract_analyze", "llm">>]

Settings ==
  [routes: Seq([glob: Kinds \union {"image/*", "*"}, rungs: Seq(RungNames)]),
   ladder: Seq(RungNames), preset: DOMAIN Presets, engine: {"ladder", "haystack"},
   installed: SUBSET Extras, features: SUBSET {"TABLES", "FORMS", "LAYOUT"},
   confidence: Nat]

LadderNames(s) == IF s.ladder # <<>> THEN s.ladder ELSE Presets[s.preset]

(* build_pipeline takes an empty list for none given.                      *)
Built(rungs) == IF rungs = <<>> THEN DefaultLadder ELSE rungs

(* Without the haystack extra the built-in ladder runs instead.            *)
EngineOf(s) == IF "haystack" \in s.installed THEN s.engine ELSE "ladder"

(* The route of a type: the exact one, then its family's, then `*`.        *)
Family(type) == IF type \in {"image", "webp"} THEN "image/*" ELSE "*"

RouteOf(s, type) ==
  LET to(glob) == {i \in DOMAIN s.routes : s.routes[i].glob = glob}
  IN  IF to(type) # {} THEN to(type)
      ELSE IF to(Family(type)) # {} THEN to(Family(type)) ELSE to("*")

(* The ladder of a route, and of document d; an empty one when no route    *)
(* takes it.  Globs are the keys of a mapping: at most one route has each. *)
LadderAt(s, route) ==
  IF s.routes = <<>> THEN Built(LadderNames(s))
  ELSE IF route = {} THEN <<>>
  ELSE Built(s.routes[CHOOSE i \in route : TRUE].rungs)

LadderOf(s, d) == LadderAt(s, RouteOf(s, d.type))
=============================================================================
