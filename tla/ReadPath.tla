------------------------------ MODULE ReadPath ------------------------------
(***************************************************************************)
(* FsService, the read path: list, tree, find, glob, grep, outline and     *)
(* read over the catalog and the derived text, one action per await.  A    *)
(* call pages through the catalog by a cursor, keeps the rows it was       *)
(* given, and fetches derived pages by them, while a writer puts, extracts *)
(* and deletes documents.  Budgets cut a call short; `truncated` is to say *)
(* so.                                                                     *)
(*                                                                         *)
(* One reader suffices, since calls change nothing; writers follow one     *)
(* another (what overlapping writers leave behind is the subject of        *)
(* Corpus).  A content is a sequence: how many lines (or headings) of each *)
(* page match.                                                             *)
(***************************************************************************)
EXTENDS Integers, FiniteSets, Sequences, SequencesExt

CONSTANTS
  N,             \* paths are 1..N, in the order of their keys
  Contents,      \* what a document may hold: matches per page
  MaxPage,       \* the most pages of a document
  Patterns,      \* what a call may look for
  CatalogLimit,  \* items per list_entries query
  ResultLimit,   \* tree's max_entries, limit of find and glob
  MaxFiles,      \* grep's max_files
  MaxMatches,    \* grep's max_matches
  MaxPerFile,    \* grep's max_matches_per_file
  PageBudget,    \* GREP_BYTE_BUDGET, in pages
  MaxReadPages,  \* MAX_READ_PAGES: the window of one read
  MaxScanPages,  \* MAX_OUTLINE_PAGES
  MaxItems,      \* outline's max_headings
  MaxWrites,     \* bound: puts and deletes
  MaxCrashes     \* bound: writers that die

Paths == 1..N
Pages == 1..MaxPage

(* A glob: the keys under its literal prefix, those it matches, and those  *)
(* among them that pass the metadata filters.                              *)
Pattern == [under: SUBSET Paths, match: SUBSET Paths, typed: SUBSET Paths]

ASSUME LimitAssumption ==
  /\ N \in Nat \ {0} /\ MaxPage \in Nat \ {0}
  /\ {CatalogLimit, ResultLimit, MaxFiles, MaxMatches, MaxPerFile, PageBudget,
      MaxReadPages, MaxScanPages, MaxItems} \subseteq Nat \ {0}
  /\ MaxWrites \in Nat /\ MaxCrashes \in Nat
ASSUME ContentAssumption ==
  \A c \in Contents : c \in Seq(Nat) /\ Len(c) \in Pages
ASSUME PatternAssumption ==
  Patterns \subseteq {g \in Pattern : g.typed \subseteq g.match /\ g.match \subseteq g.under}

VARIABLES
  row,       \* path -> catalog row
  text,      \* entry id -> page -> matches on it, or NoPage
  writer,    \* the put or delete under way
  call,      \* the call under way, or its outcome
  steady,    \* history: paths no writer touched since the call began
  kept,      \* history: paths no delete took since the call began
  writes, crashes   \* what happened so far, for the bounds

writeVars == <<row, text, writer, writes, crashes>>
vars == <<row, text, writer, call, steady, kept, writes, crashes>>

NoPage == -1
Hits == {NoPage} \union UNION {ToSet(c) : c \in Contents}

(* new_ulid never repeats itself: an id is told by its path and a count.   *)
Ids == Paths \X (0..MaxWrites)
NoId == <<0, 0>>

NoRow == [id |-> NoId, live |-> FALSE, extracted |-> FALSE, pages |-> 0]
Row == [id: Ids \union {NoId}, live: BOOLEAN, extracted: BOOLEAN, pages: 0..MaxPage]

Unread == <<NoPage>>   \* bytes no extractor reads, or does not read yet

Writer == [pc: {"idle", "pages", "delete", "text"}, path: Paths \union {0},
           id: Ids \union {NoId}, content: Contents \union {Unread},
           page: 1..MaxPage + 1]
NoWriter == [pc |-> "idle", path |-> 0, id |-> NoId, content |-> Unread, page |-> 1]

Walks == {"list", "tree", "find", "glob", "grep", "files"}   \* over the catalog
Scans == {"outline", "read"}                                 \* of one document

(* A candidate: a row as it was when the catalog listed it.                *)
Doc == [path: Paths \union {0}, id: Ids \union {NoId}, pages: 0..MaxPage]
NoDoc == [path |-> 0, id |-> NoId, pages |-> 0]

Hit == Paths \X Pages \X Nat   \* path, page, number on the page

CallState ==
  [kind: Walks \union Scans,
   pc: {"idle", "walk", "stat", "scan", "page", "done", "refused", "failed"},
   want: Pattern, cursor: 0..N,
   found: SUBSET Doc, count: Nat,    \* documents collected, and how many
   filled: BOOLEAN,                  \* did collecting stop at its limit?
   doc: Doc, page: 1..MaxPage + 1, end: 0..MaxPage,   \* the place in the text
   hits: Seq(Hit), perFile: Nat, scanned: Nat,
   truncated: BOOLEAN]

NoCall ==
  [kind |-> "list", pc |-> "idle",
   want |-> [under |-> {}, match |-> {}, typed |-> {}], cursor |-> 0,
   found |-> {}, count |-> 0, filled |-> FALSE,
   doc |-> NoDoc, page |-> 1, end |-> 0,
   hits |-> <<>>, perFile |-> 0, scanned |-> 0, truncated |-> FALSE]

-----------------------------------------------------------------------------
(* Rows, text, the writer and the call have values of the right kind; no   *)
(* scan is to read past the largest document.                              *)
TypeOK ==
  /\ row \in [Paths -> Row]
  /\ text \in [Ids -> [Pages -> Hits]]
  /\ writer \in Writer
  /\ call \in CallState
  /\ steady \subseteq Paths /\ kept \subseteq Paths
  /\ writes \in 0..MaxWrites /\ crashes \in 0..MaxCrashes

(* The corpus a call may find: per path nothing, a document with or        *)
(* without text, or the tombstone of one.                                  *)
Population == [Paths -> [content: Contents \union {Unread}, state: {"none", "live", "dead"}]]

Stored(p, d) ==
  IF d.state = "none" THEN NoRow
  ELSE [id |-> <<p, 0>>, live |-> d.state = "live", extracted |-> d.content # Unread,
        pages |-> IF d.content = Unread THEN 0 ELSE Len(d.content)]

Init ==
  /\ \E docs \in Population :
       /\ \A p \in Paths : docs[p].state # "live" => docs[p].content = Unread
       /\ row = [p \in Paths |-> Stored(p, docs[p])]
       /\ text = [i \in Ids |-> [n \in Pages |->
            IF i[2] = 0 /\ n <= Len(docs[i[1]].content) THEN docs[i[1]].content[n]
                                                        ELSE NoPage]]
  /\ writer = NoWriter /\ call = NoCall
  /\ steady = Paths /\ kept = Paths
  /\ writes = 0 /\ crashes = 0

-----------------------------------------------------------------------------
(* The writers: put_document, extract_object, delete_document.             *)

WriterBegins(p) ==
  /\ writer.pc = "idle" /\ writes < MaxWrites
  /\ writes' = writes + 1
  /\ steady' = steady \ {p}

(* A put keeps the id of a live row, and mints one otherwise.  Extracting  *)
(* a pending document later is the same from here on: pages, then the row. *)
PutBegin(p, c) ==
  /\ WriterBegins(p)
  /\ writer' = [pc |-> "pages", path |-> p, content |-> c, page |-> 1,
                id |-> IF row[p].live THEN row[p].id ELSE <<p, writes + 1>>]
  /\ UNCHANGED <<row, text, call, kept, crashes>>

MorePages == writer.content # Unread /\ writer.page <= Len(writer.content)

(* Mutant: the text of the last version is cleared first.                  *)
PutPageAfterClearing ==
  /\ writer.pc = "pages" /\ MorePages
  /\ text' = [text EXCEPT ![writer.id] = [n \in Pages |->
       IF n = writer.page THEN writer.content[n]
       ELSE IF writer.page = 1 THEN NoPage ELSE @[n]]]
  /\ writer' = [writer EXCEPT !.page = @ + 1]
  /\ UNCHANGED <<row, call, steady, kept, writes, crashes>>

PutPage ==
  /\ writer.pc = "pages" /\ MorePages
  /\ text' = [text EXCEPT ![writer.id][writer.page] = writer.content[writer.page]]
  /\ writer' = [writer EXCEPT !.page = @ + 1]
  /\ UNCHANGED <<row, call, steady, kept, writes, crashes>>

PutRow ==
  /\ writer.pc = "pages" /\ ~MorePages
  /\ row' = [row EXCEPT ![writer.path] =
       [id |-> writer.id, live |-> TRUE, extracted |-> writer.content # Unread,
        pages |-> IF writer.content = Unread THEN 0 ELSE Len(writer.content)]]
  /\ writer' = NoWriter
  /\ UNCHANGED <<text, call, steady, kept, writes, crashes>>

DeleteBegin(p) ==
  /\ row[p].live
  /\ WriterBegins(p)
  /\ writer' = [NoWriter EXCEPT !.pc = "delete", !.path = p, !.id = row[p].id]
  /\ UNCHANGED <<row, text, call, kept, crashes>>

DeleteRow ==
  /\ writer.pc = "delete"
  /\ row' = [row EXCEPT ![writer.path].live = FALSE]
  /\ kept' = kept \ {writer.path}
  /\ writer' = [writer EXCEPT !.pc = "text"]
  /\ UNCHANGED <<text, call, steady, writes, crashes>>

DeleteText ==
  /\ writer.pc = "text"
  /\ text' = [text EXCEPT ![writer.id] = [n \in Pages |-> NoPage]]
  /\ writer' = NoWriter
  /\ UNCHANGED <<row, call, steady, kept, writes, crashes>>

WriterCrash ==
  /\ writer.pc # "idle" /\ crashes < MaxCrashes
  /\ crashes' = crashes + 1
  /\ writer' = NoWriter
  /\ UNCHANGED <<row, text, call, steady, kept, writes>>

WriterStep ==
  \/ \E p \in Paths : DeleteBegin(p) \/ \E c \in Contents \union {Unread} : PutBegin(p, c)
  \/ PutPage \/ PutRow \/ DeleteRow \/ DeleteText \/ WriterCrash

-----------------------------------------------------------------------------
(* A call begins: a walk over the catalog, or a scan of one document.      *)

Begins(new) ==
  /\ call.pc \in {"idle", "done", "refused", "failed"}
  /\ call' = new
  /\ steady' = Paths \ {writer.path}
  /\ kept' = Paths
  /\ UNCHANGED writeVars

BeginWalk(kind, g) ==
  Begins([NoCall EXCEPT !.kind = kind, !.pc = "walk", !.want = g])

BeginScan(kind, p) ==
  Begins([NoCall EXCEPT !.kind = kind, !.pc = "stat", !.doc.path = p])

Smaller(m, n) == IF m <= n THEN m ELSE n

ReaderMoves(new) == call' = new /\ UNCHANGED <<steady, kept>> /\ UNCHANGED writeVars

-----------------------------------------------------------------------------
(* list_entries, and the loops of tree, find, _match_entries around it.    *)

(* The keys one query evaluates; the filter on tombstones comes after, so  *)
(* a page may be short, or empty, and yet not the last.                    *)
Evaluated ==
  LET rest == {p \in call.want.under : p > call.cursor /\ row[p] # NoRow}
  IN  {p \in rest : Cardinality({q \in rest : q <= p}) <= CatalogLimit}

Listed == {p \in Evaluated : row[p].live}

LastOf(S) == {p \in S : \A q \in S : q <= p}

(* Mutant: a page without items is taken for the last one.                 *)
NextCursorUnlessEmpty ==
  IF Cardinality(Evaluated) = CatalogLimit /\ Listed # {} THEN LastOf(Evaluated) ELSE {0}

(* Mutant: the cursor is the last item of the page.                        *)
NextCursorOfItems ==
  IF Cardinality(Evaluated) < CatalogLimit THEN {0}
  ELSE IF Listed = {} THEN {call.cursor} ELSE LastOf(Listed)

(* The last key evaluated when the limit was reached, or none (0).         *)
NextCursor ==
  IF Cardinality(Evaluated) = CatalogLimit THEN LastOf(Evaluated) ELSE {0}

Matching ==
  CASE call.kind \in {"list", "tree"} -> Listed
    [] call.kind = "find" -> Listed \intersect call.want.typed
    [] call.kind = "glob" -> Listed \intersect call.want.match
    [] call.kind \in {"grep", "files"} -> {p \in Listed \intersect call.want.match : row[p].extracted}

Limit == CASE call.kind = "list" -> N + 1   \* none: the caller follows next_cursor
           [] call.kind \in {"tree", "find", "glob"} -> ResultLimit
           [] call.kind \in {"grep", "files"} -> MaxFiles

(* The first k of a page's items, as they are collected.                   *)
Documents(S, k) ==
  {[path |-> p, id |-> row[p].id, pages |-> row[p].pages] :
     p \in {q \in S : Cardinality({r \in S : r <= q}) <= k}}

(* grep filters by content type what it has collected, after the limit.    *)
Candidates(docs) == {d \in docs : d.path \in call.want.typed}

(* One query, and what the loop does with its page.                        *)
Walk ==
  /\ call.pc = "walk"
  /\ \E next \in NextCursor :
       LET room == Limit - call.count
           full == Cardinality(Matching) >= room
           found == call.found \union Documents(Matching, room)
           more == ~full /\ next # 0
           searching == call.kind \in {"grep", "files"} /\ ~more
       IN  ReaderMoves([call EXCEPT
             !.found = IF searching THEN Candidates(found) ELSE found,
             !.count = @ + Smaller(Cardinality(Matching), room),
             !.filled = full,
             !.truncated = full /\ call.kind \in {"tree", "find"} /\ next # 0,
             !.cursor = next,
             !.pc = IF more THEN "walk" ELSE IF searching THEN "scan" ELSE "done"])

-----------------------------------------------------------------------------
(* grep's second stage.                                                    *)

FetchedPage == text[call.doc.id][call.page]

(* The first k matches on the page at hand.                                *)
FirstHits(k) == [i \in 1..k |-> <<call.doc.path, call.page, i>>]

Spent ==
  \/ call.kind = "grep" /\ Len(call.hits) >= MaxMatches
  \/ call.scanned >= PageBudget

(* The head of the loop over the candidates, in the order of their keys.   *)
GrepEnds ==
  /\ call.pc = "scan"
  /\ call.found = {} \/ Spent
  /\ ReaderMoves([call EXCEPT !.pc = "done", !.truncated = @ \/ call.found # {}])

(* Mutant: the matches in the last file count for the next.                *)
GrepOpenKeepsCount ==
  /\ call.pc = "scan" /\ ~Spent
  /\ \E d \in call.found :
       /\ \A other \in call.found : d.path <= other.path
       /\ ReaderMoves([call EXCEPT !.pc = "page", !.found = @ \ {d}, !.doc = d, !.page = 1])

GrepOpen ==
  /\ call.pc = "scan" /\ ~Spent
  /\ \E d \in call.found :
       /\ \A other \in call.found : d.path <= other.path
       /\ ReaderMoves([call EXCEPT !.pc = "page", !.found = @ \ {d}, !.doc = d, !.page = 1,
                                   !.perFile = 0])

(* One round of the loop over a candidate's pages; a page that is gone     *)
(* fails the whole call.                                                   *)
GrepPage ==
  /\ call.kind \in {"grep", "files"} /\ call.pc = "page"
  /\ IF call.page > call.doc.pages
     THEN ReaderMoves([call EXCEPT !.pc = "scan"])
     ELSE IF call.scanned >= PageBudget
     THEN ReaderMoves([call EXCEPT !.pc = "scan", !.truncated = TRUE])
     ELSE IF FetchedPage = NoPage
     THEN ReaderMoves([call EXCEPT !.pc = "failed"])
     ELSE LET room == IF call.kind = "files" THEN 1
                      ELSE Smaller(MaxPerFile - call.perFile, MaxMatches - Len(call.hits))
              taken == Smaller(FetchedPage, room)
          IN  ReaderMoves([call EXCEPT
                !.scanned = @ + 1,
                !.hits = @ \o FirstHits(taken),
                !.perFile = @ + taken,
                !.page = @ + 1,
                !.pc = IF taken = room THEN "scan" ELSE "page"])

-----------------------------------------------------------------------------
(* stat, and what read and outline make of the row.                        *)

(* Mutant: the window runs past the document.                              *)
WindowOfPages(first, pages) == first + MaxReadPages - 1

Window(first, pages) == Smaller(pages, first + MaxReadPages - 1)

CutOffByOne(end, pages) == end + 1 < pages   \* mutant

(* Is the scan cut before the document's last page?                        *)
Cut(end, pages) == end < pages

Stat ==
  /\ call.pc = "stat"
  /\ LET r == row[call.doc.path]
         end == IF call.kind = "read" THEN Window(call.page, r.pages)
                                      ELSE Smaller(r.pages, MaxScanPages)
     IN  IF ~r.live \/ ~r.extracted
         THEN ReaderMoves([call EXCEPT !.pc = "refused"])
         ELSE ReaderMoves([call EXCEPT
                !.pc = "page", !.end = end, !.truncated = Cut(end, r.pages),
                !.doc = [path |-> @.path, id |-> r.id, pages |-> r.pages]])

(* The window of a read, page by page.  While a window ends before the     *)
(* document, the caller asks for the next one.                             *)
ReadPage ==
  /\ call.kind = "read" /\ call.pc = "page"
  /\ IF call.page > call.end
     THEN ReaderMoves([call EXCEPT !.pc = IF call.truncated THEN "stat" ELSE "done"])
     ELSE IF FetchedPage = NoPage
     THEN ReaderMoves([call EXCEPT !.pc = "failed"])
     ELSE ReaderMoves([call EXCEPT !.hits = Append(@, <<call.doc.path, call.page, FetchedPage>>),
                                   !.page = @ + 1])

OutlinePage ==
  /\ call.kind = "outline" /\ call.pc = "page"
  /\ IF call.page > call.end
     THEN ReaderMoves([call EXCEPT !.pc = "done"])
     ELSE IF Len(call.hits) >= MaxItems
     THEN ReaderMoves([call EXCEPT !.pc = "done", !.truncated = TRUE])
     ELSE IF FetchedPage = NoPage
     THEN ReaderMoves([call EXCEPT !.pc = "failed"])
     ELSE LET room == MaxItems - Len(call.hits)
          IN  ReaderMoves([call EXCEPT !.hits = @ \o FirstHits(Smaller(FetchedPage, room)),
                                       !.truncated = @ \/ FetchedPage >= room,
                                       !.page = @ + 1])

CallStep == Walk \/ GrepEnds \/ GrepOpen \/ GrepPage \/ Stat \/ ReadPage \/ OutlinePage

BeginCall ==
  \/ \E kind \in Walks, g \in Patterns : BeginWalk(kind, g)
  \/ \E kind \in Scans, p \in Paths : BeginScan(kind, p)

Next == BeginCall \/ CallStep \/ WriterStep

Spec == Init /\ [][Next]_vars

(* A call that was started goes on.                                        *)
FairSpec == Spec /\ WF_vars(CallStep)

-----------------------------------------------------------------------------
(* Properties.                                                             *)

Ended == {"done", "refused", "failed"}

(* What a walk should report: the documents no writer touched, and that    *)
(* match.                                                                  *)
Expected ==
  {p \in steady : row[p].live /\
     CASE call.kind \in {"list", "tree"} -> p \in call.want.under
       [] call.kind = "find" -> p \in call.want.typed
       [] call.kind = "glob" -> p \in call.want.match
       [] call.kind \in {"grep", "files"} -> p \in call.want.typed /\ row[p].extracted}

(* Although pages are cut before tombstones are filtered out, and writers  *)
(* come in between two of them, a listing that reached no limit has every  *)
(* matching document that stayed as it was, and one that did has only such *)
(* documents; none appears twice.                                          *)
ListingComplete ==
  call.pc = "done" /\ call.kind \in {"list", "tree", "find", "glob"} =>
    LET paths == {d.path : d \in call.found}
    IN  /\ ~call.filled => Expected \subseteq paths
        /\ paths \intersect steady \subseteq Expected
        /\ Cardinality(paths) = call.count

(* All matches in a document, and those the call reported.                 *)
HitsIn(p) ==
  UNION {{<<p, n, i>> : i \in 1..text[row[p].id][n]} : n \in 1..row[p].pages}
Reported(p) == {h \in ToSet(call.hits) : h[1] = p}

Before(g, h) == g[2] < h[2] \/ (g[2] = h[2] /\ g[3] < h[3])

(* The first k matches of a document, and nothing else, were reported.     *)
ReportsFirst(p, k) ==
  /\ Reported(p) \subseteq HitsIn(p)
  /\ Cardinality(Reported(p)) = Smaller(k, Cardinality(HitsIn(p)))
  /\ \A h \in Reported(p), g \in HitsIn(p) : Before(g, h) => g \in Reported(p)

PerFile == IF call.kind = "files" THEN 1 ELSE MaxPerFile

EveryMatchReported == \A p \in Expected : ReportsFirst(p, PerFile)

(* A grep that says it is not truncated, and that reached neither its      *)
(* limit on files nor the one on matches, reports of every document that   *)
(* stayed as it was the first matches, up to the limit per file, although  *)
(* candidates were collected long before their pages were read.            *)
GrepComplete ==
  /\ call.pc = "done" /\ call.kind \in {"grep", "files"}
  /\ ~call.truncated /\ ~call.filled
  /\ call.kind = "files" \/ Len(call.hits) < MaxMatches
  => EveryMatchReported

(* "Hitting any budget (files/matches/bytes) sets `truncated`": then a     *)
(* call that does not set it left nothing out.  (It does.)                 *)
GrepToldWhenCut ==
  call.pc = "done" /\ call.kind \in {"grep", "files"} /\ ~call.truncated
    => EveryMatchReported

(* A caller that asks for the next window as long as the last one was      *)
(* truncated gets each page of a document that stayed as it was, once and  *)
(* in order.                                                               *)
ReadComplete ==
  call.pc = "done" /\ call.kind = "read" /\ call.doc.path \in steady =>
    LET r == row[call.doc.path]
    IN  call.hits = [n \in 1..r.pages |-> <<call.doc.path, n, text[r.id][n]>>]

(* An outline that is not truncated has every heading.                     *)
OutlineTold ==
  call.pc = "done" /\ call.kind = "outline" /\ ~call.truncated /\ call.doc.path \in steady =>
    /\ ReportsFirst(call.doc.path, MaxItems + 1)
    /\ \A i, j \in DOMAIN call.hits : i < j => Before(call.hits[i], call.hits[j])

(* Only a deletion makes a call miss a page.  Putting a document again,    *)
(* with fewer pages or with none, and a writer that dies half-way, do not: *)
(* the pages of a live document are written before its row names them, in  *)
(* place, and those of a longer version are left.                          *)
OnlyDeletionFails == call.pc = "failed" => call.doc.path \notin kept

(* Every call comes to an end: its cursor passes over tombstones.          *)
CallsEnd == call.pc \in {"walk", "stat", "scan", "page"} ~> call.pc \in Ended

=============================================================================
