------------------------------- MODULE Rungs --------------------------------
(***************************************************************************)
(* The ten builtin rungs: which documents each claims (by MIME type or by  *)
(* file name suffix), which extra it needs and what it does without it,    *)
(* which bytes it can open, and what it reads on a page.  The readers      *)
(* themselves (pdfium, pdfplumber, Textract, Docling, a vision model) are  *)
(* external: a page's `layer`, `lines` and `score` say what they see.      *)
(***************************************************************************)
EXTENDS Markdown

Kinds == {"text", "pdf", "docx", "office", "image", "webp", "other"}
Bytes == Kinds \union {"damaged", "corrupt"}   \* what a file really holds
Extras == {"pdfplumber", "tesseract", "rapidocr", "pillow", "docling", "llm", "haystack"}

(* claims, suffixes: what accepts() looks at.  extra: an optional import;  *)
(* declines: is its absence a NormalizationError (a RuntimeError if not)?  *)
(* caches: is the loaded engine kept on the rung, which all documents      *)
(* share?  rasterizes: PDFs are rendered to images, with Pillow.  late:    *)
(* is the page image made before the engine is loaded?                     *)
Base == [claims |-> {}, suffixes |-> {}, extra |-> "none", declines |-> TRUE,
         caches |-> FALSE, rasterizes |-> FALSE, late |-> FALSE,
         opens |-> {}, scores |-> FALSE]

TextNative ==
  [Base EXCEPT !.claims = {"text"}, !.suffixes = {"text"}, !.opens = Bytes]

Pdf ==
  [Base EXCEPT !.claims = {"pdf"}, !.suffixes = {"pdf"}, !.opens = {"pdf"}]

PdfTables == [Pdf EXCEPT !.extra = "pdfplumber", !.declines = FALSE]

Docx ==
  [Base EXCEPT !.claims = {"docx"}, !.suffixes = {"docx"}, !.opens = {"docx"}]

Textract ==
  [Base EXCEPT !.claims = {"image", "webp", "pdf"}, !.suffixes = {"image", "pdf"},
               !.caches = TRUE, !.rasterizes = TRUE,
               !.opens = {"image", "pdf"}, !.scores = TRUE]

TextractAnalyze == Textract

Tesseract ==
  [Textract EXCEPT !.extra = "tesseract", !.declines = FALSE, !.caches = FALSE,
                   !.opens = @ \union {"webp"}, !.scores = FALSE]

RapidOcr == [Tesseract EXCEPT !.extra = "rapidocr", !.caches = TRUE]

Docling ==
  [Base EXCEPT !.claims = Kinds \ {"text", "other"}, !.suffixes = Kinds \ {"text", "other"},
               !.extra = "docling", !.caches = TRUE, !.opens = Kinds \ {"text", "other"}]

Llm ==
  [Textract EXCEPT !.suffixes = @ \union {"webp"}, !.extra = "llm", !.late = TRUE,
                   !.opens = @ \union {"webp"}, !.scores = FALSE]

Rung ==
  [text_native |-> TextNative, pdf |-> Pdf, pdftables |-> PdfTables, docx |-> Docx,
   textract |-> Textract, textract_analyze |-> TextractAnalyze,
   tesseract |-> Tesseract, rapidocr |-> RapidOcr, docling |-> Docling, llm |-> Llm]

RungNames == DOMAIN Rung

Accepts(r, d) == d.type \in Rung[r].claims \/ d.suffix \in Rung[r].suffixes

IsPdf(d) == d.type = "pdf" \/ d.suffix = "pdf"

Missing(s, r) == Rung[r].extra \notin s.installed \union {"none"}

Loads(r) == Rung[r].caches \/ Rung[r].extra # "none"

(* Rendering a PDF needs Pillow; what is not claimed to be one is opened   *)
(* as an image.                                                            *)
Renders(s, r, d) == Rung[r].rasterizes /\ IsPdf(d) => "pillow" \in s.installed

Opens(r, d) ==
  /\ d.bytes \in Rung[r].opens
  /\ Rung[r].rasterizes => (IsPdf(d) <=> d.bytes = "pdf")

(* Docling reports a file it cannot parse; every other reader raises.      *)
ReportsDamage(r, d) == r = "docling" /\ d.bytes = "damaged"

CannotRead(s, r, d) == ~Renders(s, r, d) \/ (~Opens(r, d) /\ ~ReportsDamage(r, d))

(* What rung r reads on page p.                                            *)
Reads(s, r, p) ==
  CASE r \in {"text_native", "pdf", "docx"} -> IF p.layer THEN PlainText(p) ELSE Nothing
    [] r = "pdftables"        -> IF p.layer THEN TextAndTables(p) ELSE Nothing
    [] r = "textract_analyze" -> AnalyzeMarkdown(p, s.features)
    [] r = "llm"              -> Markdown(p.lines, <<>>, <<>>, p.figures)
    [] OTHER                  -> PlainText(p)

(* The pages of the source on which the rung found anything: blank ones    *)
(* are dropped.                                                            *)
Written(s, r, d) == {i \in DOMAIN d.pages : ~Blank(Reads(s, r, d.pages[i]))}

(* Mutant: pages keep the number they have in the source.                  *)
KeptAsInSource(s, r, d) ==
  LET written == InOrder[Written(s, r, d)]
  IN  [n \in DOMAIN written |->
        [number |-> written[n], locator |-> written[n],
         markdown |-> Reads(s, r, d.pages[written[n]])]]

(* The pages kept, numbered from 1, each with the page of the source it    *)
(* came from.                                                              *)
Kept(s, r, d) ==
  LET written == InOrder[Written(s, r, d)]
  IN  [n \in DOMAIN written |->
        [number |-> n, locator |-> written[n],
         markdown |-> Reads(s, r, d.pages[written[n]])]]

(* The confidence of the kept pages, where the rung reports one: it is the *)
(* mean over the lines the service found on the page.                      *)
Scores(s, r, d) ==
  {d.pages[i].score :
     i \in {x \in Written(s, r, d) : Rung[r].scores /\ d.pages[x].lines # <<>>}}

(* Mutant: the best page speaks for the document.                          *)
BestPagePasses(s, r, d) ==
  Scores(s, r, d) = {} \/ \E c \in Scores(s, r, d) : c >= s.confidence

(* QualityReport.confidence is the lowest of them, or None.                *)
PassesGate(s, r, d) == \A c \in Scores(s, r, d) : c >= s.confidence
=============================================================================
