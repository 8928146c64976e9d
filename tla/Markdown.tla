------------------------------ MODULE Markdown ------------------------------
(***************************************************************************)
(* What the rungs make of one page (packages/afs-server/.../extraction).   *)
(* A page has lines of words, tables whose cells hold some of the same     *)
(* words, forms and figures; a PDF page may carry its words as a text      *)
(* layer or only as pixels.  A word is one occurrence: no two lines share  *)
(* one.  Markdown is what ends up in the derived text, section by section. *)
(***************************************************************************)
EXTENDS Naturals, Sequences, FiniteSets, SequencesExt, FiniteSetsExt

Markdown(body, tables, forms, figures) ==
  [body |-> body, tables |-> tables, forms |-> forms, figures |-> figures]

Nothing == Markdown(<<>>, <<>>, <<>>, 0)

(* The numbers in a finite set, from the least to the greatest, and the    *)
(* entries of a sequence at these places.  Unlike SelectSeq, these can be  *)
(* reasoned about.                                                         *)
InOrder ==
  [K \in SUBSET Nat |->
    CHOOSE at \in [1..Cardinality(K) -> K] : \A m, n \in DOMAIN at : m < n => at[m] < at[n]]

Entries(s, K) == [n \in 1..Cardinality(K) |-> s[InOrder[K][n]]]

Blank(md) == md = Nothing   \* `not markdown.strip()`

LineWords(lines) == UNION {ToSet(lines[i]) : i \in DOMAIN lines}
CellWords(cells) == UNION {ToSet(c.words) : c \in cells}
TableWords(tables) == UNION {CellWords(tables[i]) : i \in DOMAIN tables}
FormWords(forms) == UNION {ToSet(forms[i].key) \union ToSet(forms[i].value) : i \in DOMAIN forms}

(* The grid a table is rendered from: every cell at its row and column.    *)
Grid(cells) ==
  [r \in 1..Max({c.row : c \in cells}) |->
    [k \in 1..Max({c.col : c \in cells}) |->
      UNION {ToSet(c.words) : c \in {x \in cells : x.row = r /\ x.col = k}}]]

Grids(tables) ==
  LET drawn == Entries(tables, {i \in DOMAIN tables : tables[i] # {}})
  IN  [i \in DOMAIN drawn |-> Grid(drawn[i])]

GridWords(grids) == UNION UNION UNION {{Range(row) : row \in Range(g)} : g \in Range(grids)}

PlainText(p) == Markdown(p.lines, <<>>, <<>>, 0)

(* pdftables: the text of the page, then its tables once more as grids.    *)
TextAndTables(p) == Markdown(p.lines, Grids(p.tables), <<>>, 0)

(* Mutant: a line that touches a table counts as table text.               *)
TouchesTables(line, tables) == ToSet(line) \intersect TableWords(tables) # {}

(* textract_analyze: lines that lie wholly in a table are left out of the  *)
(* body; the service sends tables, forms and figures only when asked.      *)
InTablesOnly(line, tables) == line # <<>> /\ ToSet(line) \subseteq TableWords(tables)

AnalyzeMarkdown(p, features) ==
  LET tables == IF "TABLES" \in features THEN p.tables ELSE <<>>
  IN  Markdown(
        Entries(p.lines, {i \in DOMAIN p.lines : ~InTablesOnly(p.lines[i], tables)}),
        Grids(tables),
        IF "FORMS" \in features THEN Entries(p.forms, {i \in DOMAIN p.forms : p.forms[i].key # <<>>}) ELSE <<>>,
        IF "LAYOUT" \in features THEN p.figures ELSE 0)

(* The words a reader of the derived page finds.                           *)
WordsOf(md) == LineWords(md.body) \union GridWords(md.tables) \union FormWords(md.forms)
=============================================================================
