---------------------------- MODULE MCExtraction ----------------------------
(* Instances of Extraction for TLC: documents of every kind, in pairs that *)
(* share the rungs, and pages laid out in every way on their own.          *)
EXTENDS Extraction, TLC

Page(layer, lines, figures, score) ==
  [layer |-> layer, lines |-> lines, tables |-> <<>>, forms |-> <<>>,
   figures |-> figures, score |-> score]

Printed == Page(TRUE, <<<<1, 2>>>>, 0, 90)
Scanned == Page(FALSE, <<<<1, 2>>>>, 0, 90)
Faint   == Page(FALSE, <<<<1, 2>>>>, 0, 40)
Drawing == Page(FALSE, <<>>, 1, 90)
Empty   == Page(FALSE, <<>>, 0, 90)

Document(kind, bytes, pages) == [type |-> kind, suffix |-> kind, bytes |-> bytes, pages |-> pages]

MCDocuments ==
  {Document("text", "text", <<Printed>>),
   Document("pdf", "pdf", <<Printed, Empty, Printed>>),
   Document("pdf", "pdf", <<Scanned, Faint>>),
   Document("pdf", "pdf", <<Drawing, Printed, Scanned, Printed, Printed>>),
   Document("pdf", "damaged", <<Printed>>),
   Document("image", "image", <<Scanned>>),
   Document("image", "image", <<Faint>>),
   Document("webp", "webp", <<Faint>>),
   Document("docx", "docx", <<Printed>>),
   Document("other", "other", <<Printed>>),
   [type |-> "other", suffix |-> "pdf", bytes |-> "pdf", pages |-> <<Scanned, Scanned>>],
   [type |-> "image", suffix |-> "pdf", bytes |-> "image", pages |-> <<Scanned>>]}

MCOthers ==   \* what the second document is: these load every engine
  {Document("pdf", "pdf", <<Scanned, Faint>>), Document("webp", "webp", <<Faint>>),
   Document("pdf", "damaged", <<Printed>>)}

(* One image whose three words are on one line or two, each in a cell of a *)
(* table or in none, in any way.                                           *)
Laid(line, cell) ==
  LET of(k) == SelectSeq(<<1, 2, 3>>, LAMBDA w : line[w] = k)
      at(c) == SelectSeq(<<1, 2, 3>>, LAMBDA w : cell[w] = c)
  IN  [layer |-> FALSE,
       lines |-> SelectSeq(<<of(1), of(2)>>, LAMBDA l : l # <<>>),
       tables |-> <<{[row |-> c, col |-> c, words |-> at(c)] : c \in {cell[w] : w \in 1..3} \ {0}}>>,
       forms |-> <<[key |-> of(2), value |-> at(1)]>>,
       figures |-> 1, score |-> 90]

MCLayouts ==
  {Document("image", "image", <<Laid(line, cell)>>) :
     line \in {<<1, 1, 1>>, <<1, 1, 2>>}, cell \in [1..3 -> 0..2]}

Trifle == Document("pdf", "corrupt", <<Empty>>)

MCJobs == {"a", "b"}
MCBatches ==
  {[a |-> d, b |-> e] : d \in MCDocuments, e \in MCOthers} \union
  {[a |-> d, b |-> Trifle] : d \in MCLayouts}

Plain == [routes |-> <<>>, ladder |-> <<>>, preset |-> "lite", engine |-> "haystack",
          installed |-> Extras, features |-> {"TABLES", "LAYOUT"}, confidence |-> 60]

MCSettings ==
  {[Plain EXCEPT !.preset = "full", !.features = {"TABLES", "FORMS"}],
   [Plain EXCEPT !.preset = "full", !.engine = "ladder"],
   [Plain EXCEPT !.preset = "multimodal", !.installed = {"pillow"}],
   [Plain EXCEPT !.ladder = <<"text_native", "rapidocr", "docling">>,
                 !.installed = {"rapidocr", "docling", "haystack"}],
   [Plain EXCEPT !.ladder = <<"docling", "pdf", "tesseract">>, !.installed = {"tesseract", "pillow"}],
   [Plain EXCEPT !.routes = <<[glob |-> "*", rungs |-> <<>>],
                              [glob |-> "image/*", rungs |-> <<"textract", "docling">>],
                              [glob |-> "pdf", rungs |-> <<"pdf", "textract_analyze", "llm">>]>>],
   [Plain EXCEPT !.routes = <<[glob |-> "webp", rungs |-> <<"llm">>],
                              [glob |-> "image/*", rungs |-> <<"textract_analyze">>]>>]}
=============================================================================
