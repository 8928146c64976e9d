----------------------------- MODULE Extraction -----------------------------
(***************************************************************************)
(* run_extraction: documents walk their ladders at the same time and share *)
(* the rungs, each of which loads its engine when it is first needed (a    *)
(* thread checks, loads and stores it without a lock).  The winner's pages *)
(* are then written one by one.  Two engines run a ladder: the loop of     *)
(* ExtractionPipeline, and a Haystack graph in which a rung hands the      *)
(* document to the next or an outcome to a collector.                      *)
(***************************************************************************)
EXTENDS Pipelines

CONSTANTS
  SettingsUsed,   \* the configurations to consider
  Jobs,           \* run_extraction calls under way at once
  Batches,        \* what they extract: functions from jobs to documents
  MaxPage         \* keys.MAX_PAGE: the last page number a key can carry

(* What a page and a document are, as far as this module looks.            *)
Sequence(s) == s \in Seq(ToSet(s))

PageAssumed(p) ==
  /\ p.layer \in BOOLEAN /\ p.score \in Nat /\ p.figures \in Nat
  /\ Sequence(p.lines) /\ Sequence(p.tables) /\ Sequence(p.forms)
  /\ \A line \in ToSet(p.lines) : Sequence(line) /\ line # <<>>
  /\ \A cells \in ToSet(p.tables) :
       /\ IsFiniteSet(cells)
       /\ \A c, x \in cells :
            c.row \in Nat \ {0} /\ c.col \in Nat \ {0} /\ (c.row = x.row /\ c.col = x.col => c = x)

ASSUME SettingsAssumption == SettingsUsed \subseteq Settings
ASSUME DocumentAssumption ==
  \A b \in Batches : DOMAIN b = Jobs /\ \A j \in Jobs :
    /\ b[j].type \in Kinds /\ b[j].suffix \in Kinds /\ b[j].bytes \in Bytes
    /\ Sequence(b[j].pages) /\ \A i \in DOMAIN b[j].pages : PageAssumed(b[j].pages[i])
ASSUME MaxPageAssumption == MaxPage \in Nat

VARIABLES
  settings,   \* of this process
  doc,        \* job -> the document it extracts
  loaded,     \* the rungs of the ladders whose engine is loaded
  job,        \* job -> where its walk is
  derived     \* job -> the pages written: page number -> source page, or 0

vars == <<settings, doc, loaded, job, derived>>

Verdict == [verdict: {"undecided", "none", "won", "raised"},
            rung: RungNames \union {"none"}]
Undecided == [verdict |-> "undecided", rung |-> "none"]
NoOutcome == [verdict |-> "none", rung |-> "none"]
Won(r) == [verdict |-> "won", rung |-> r]
Raised(r) == [verdict |-> "raised", rung |-> r]

Stages == {"idle", "walk", "load", "read", "collect", "write", "extracted",
           "catalog_only", "raised"}

Job == [pc: Stages, rung: Nat, emitted: SUBSET RungNames, outcome: Verdict, page: Nat]

Ladder(j) == LadderOf(settings, doc[j])
Current(j) == Ladder(j)[job[j].rung]
Slot(j) == <<RouteOf(settings, doc[j].type), job[j].rung>>   \* each ladder has rungs of its own
Kept_(j, r) == Kept(settings, r, doc[j])

Init ==
  /\ settings \in SettingsUsed
  /\ doc \in Batches
  /\ loaded = {}
  /\ job = [j \in Jobs |-> [pc |-> "idle", rung |-> 1, emitted |-> {},
                            outcome |-> Undecided, page |-> 1]]
  /\ derived = [j \in Jobs |-> [n \in 1..MaxPage |-> 0]]

(* Mutant: the next rung reads without being asked whether it accepts.     *)
PassOnUnchecked(j) == job' = [job EXCEPT ![j].rung = @ + 1, ![j].pc = "read"]

(* The document goes on to the next rung.                                  *)
PassOn(j) == job' = [job EXCEPT ![j].rung = @ + 1, ![j].pc = "walk"]

Raise(j) == job' = [job EXCEPT ![j].outcome = Raised(Current(j)), ![j].pc = "raised"]

Continue(j, pc) == job' = [job EXCEPT ![j].pc = pc]

-----------------------------------------------------------------------------
(* Staged to a file and handed to the pipeline.                            *)
Begin(j) ==
  /\ job[j].pc = "idle"
  /\ Continue(j, "walk")
  /\ UNCHANGED <<settings, doc, loaded, derived>>

(* The rung does not accept the document.                                  *)
Skip(j) ==
  /\ job[j].pc = "walk" /\ job[j].rung <= Len(Ladder(j))
  /\ ~Accepts(Current(j), doc[j])
  /\ PassOn(j)
  /\ UNCHANGED <<settings, doc, loaded, derived>>

(* It does: normalize() runs in a thread of its own.  Is there an engine?  *)
Enter(j) ==
  /\ job[j].pc = "walk" /\ job[j].rung <= Len(Ladder(j))
  /\ LET r == Current(j) IN
     /\ Accepts(r, doc[j])
     /\ IF Rung[r].late /\ CannotRead(settings, r, doc[j])
        THEN Raise(j)
        ELSE Continue(j, IF Loads(r) /\ Slot(j) \notin loaded THEN "load" ELSE "read")
  /\ UNCHANGED <<settings, doc, loaded, derived>>

(* Mutant: an import that failed is tried again.                           *)
LoadAgain(j) ==
  /\ job[j].pc = "load"
  /\ LET r == Current(j) IN
     IF Missing(settings, r)
     THEN UNCHANGED <<job, loaded>>
     ELSE /\ Continue(j, "read")
          /\ loaded' = IF Rung[r].caches THEN loaded \union {Slot(j)} ELSE loaded
  /\ UNCHANGED <<settings, doc, derived>>

(* Import the extra and build the engine, keeping it where the rung does.  *)
Load(j) ==
  /\ job[j].pc = "load"
  /\ LET r == Current(j) IN
     IF Missing(settings, r)
     THEN /\ IF Rung[r].declines THEN PassOn(j) ELSE Raise(j)
          /\ UNCHANGED loaded
     ELSE /\ Continue(j, "read")
          /\ loaded' = IF Rung[r].caches THEN loaded \union {Slot(j)} ELSE loaded
  /\ UNCHANGED <<settings, doc, derived>>

(* Mutant: a Haystack component sends the document on all the same.        *)
EmitAndPassOn(j) ==
  IF EngineOf(settings) = "haystack"
  THEN job' = [job EXCEPT ![j].emitted = @ \union {Current(j)}, ![j].rung = @ + 1,
                          ![j].pc = "walk"]
  ELSE job' = [job EXCEPT ![j].outcome = Won(Current(j)), ![j].pc = "write"]

(* The rung has a result above the gate: the ladder returns it, a Haystack *)
(* component sends it to the collector instead of the document on.         *)
Emit(j) ==
  IF EngineOf(settings) = "haystack"
  THEN job' = [job EXCEPT ![j].emitted = @ \union {Current(j)}, ![j].pc = "collect"]
  ELSE job' = [job EXCEPT ![j].outcome = Won(Current(j)), ![j].pc = "write"]

(* Render, read page by page and judge the result.                         *)
Read(j) ==
  /\ job[j].pc = "read"
  /\ LET r == Current(j)
         d == doc[j] IN
     IF CannotRead(settings, r, d) THEN Raise(j)
     ELSE IF ~Opens(r, d) \/ Written(settings, r, d) = {} \/ ~PassesGate(settings, r, d) THEN PassOn(j)
     ELSE Emit(j)
  /\ UNCHANGED <<settings, doc, loaded, derived>>

(* The collector runs when no rung can any more.                           *)
Collect(j) ==
  /\ job[j].pc = "collect"
  /\ \E r \in job[j].emitted :
       job' = [job EXCEPT ![j].outcome = Won(r), ![j].pc = "write"]
  /\ UNCHANGED <<settings, doc, loaded, derived>>

(* No rung is left: the row will say catalog_only.                         *)
Exhaust(j) ==
  /\ job[j].pc = "walk" /\ job[j].rung > Len(Ladder(j))
  /\ job' = [job EXCEPT ![j].outcome = NoOutcome, ![j].pc = "catalog_only"]
  /\ UNCHANGED <<settings, doc, loaded, derived>>

(* The next page of the winner, under its number, if a key can carry it.   *)
PutPage(j) ==
  /\ job[j].pc = "write"
  /\ LET pages == Kept_(j, job[j].outcome.rung)
         n == job[j].page IN
     /\ n \in DOMAIN pages
     /\ IF pages[n].number <= MaxPage
        THEN /\ derived' = [derived EXCEPT ![j][pages[n].number] = pages[n].locator]
             /\ job' = [job EXCEPT ![j].page = n + 1]
        ELSE /\ Continue(j, "raised")
             /\ UNCHANGED derived
  /\ UNCHANGED <<settings, doc, loaded>>

(* All pages are written: the row gets their count.                        *)
Finish(j) ==
  /\ job[j].pc = "write"
  /\ job[j].page \notin DOMAIN Kept_(j, job[j].outcome.rung)
  /\ Continue(j, "extracted")
  /\ UNCHANGED <<settings, doc, loaded, derived>>

JobStep(j) ==
  \/ Begin(j) \/ Skip(j) \/ Enter(j) \/ Load(j) \/ Read(j)
  \/ Collect(j) \/ Exhaust(j) \/ PutPage(j) \/ Finish(j)

Next == \E j \in Jobs : JobStep(j)

Spec == Init /\ [][Next]_vars

(* A coroutine that was started goes on: threads end.                      *)
FairSpec == Spec /\ \A j \in Jobs : WF_vars(JobStep(j))

-----------------------------------------------------------------------------
(* What rung r does with a document alone: the pure function that          *)
(* PassesGate, Load and Read compute step by step.                         *)
WinsAlone(r, t) ==
  LET s == t[1]
      d == t[2] IN
  /\ Accepts(r, d) /\ ~Missing(s, r) /\ Renders(s, r, d) /\ Opens(r, d)
  /\ Written(s, r, d) # {} /\ PassesGate(s, r, d)

FailsAlone(r, t) ==
  LET s == t[1]
      d == t[2] IN
  /\ Accepts(r, d)
  /\ \/ Rung[r].late /\ ~(Renders(s, r, d) /\ Opens(r, d))
     \/ Missing(s, r) /\ ~Rung[r].declines
     \/ ~Missing(s, r) /\ CannotRead(s, r, d)

LadderOfTask(t) == LadderOf(t[1], t[2])

Tasks == {[j \in Jobs |-> <<s, b[j]>>] : s \in SettingsUsed, b \in Batches}

Pipeline == INSTANCE FirstWins
  WITH Jobs <- Jobs, Batches <- Tasks, Ladder <- LadderOfTask, Wins <- WinsAlone, Fails <- FailsAlone,
       task <- [j \in Jobs |-> <<settings, doc[j]>>],
       outcome <- [j \in Jobs |-> job[j].outcome]

(* Both engines implement the promise "the first rung that accepts the     *)
(* document and clears the gate wins" (pipeline.py:46, haystack_engine.py: *)
(* 10: "behavior matches the built-in ladder exactly"), although documents *)
(* load and share the rungs' engines in any order.                         *)
FirstRungWins == Pipeline!Spec

TypeOK ==
  /\ settings \in SettingsUsed /\ doc \in Batches
  /\ loaded \subseteq (SUBSET Nat) \X Nat
  /\ job \in [Jobs -> Job]
  /\ \A j \in Jobs : job[j].pc \in {"load", "read"} => job[j].rung \in DOMAIN Ladder(j)
  /\ DOMAIN derived = Jobs /\ \A j \in Jobs : DOMAIN derived[j] = 1..MaxPage

(* The read path fetches pages 1..page_count of a row: an extracted        *)
(* document has exactly these, in the order of the source, and every       *)
(* source page its rung found anything on (docling.py:17-20).              *)
PagesWithoutGaps ==
  \A j \in Jobs : job[j].pc = "extracted" =>
    LET r == job[j].outcome.rung
        count == Len(Kept_(j, r)) IN
    /\ \A n \in 1..MaxPage : derived[j][n] # 0 <=> n <= count
    /\ \A m, n \in 1..count : m < n => derived[j][m] < derived[j][n]
    /\ \A i \in DOMAIN doc[j].pages :
         Blank(Reads(settings, r, doc[j].pages[i])) \/ \E n \in 1..count : derived[j][n] = i

(* What is written was read with the confidence asked for, on every page   *)
(* the winner scored: one shaky page sends the whole document on.          *)
NoShakyPage ==
  \A j \in Jobs : job[j].outcome.verdict = "won" /\ Rung[job[j].outcome.rung].scores =>
    \A n \in 1..MaxPage : derived[j][n] # 0 =>
      \/ doc[j].pages[derived[j][n]].lines = <<>>
      \/ doc[j].pages[derived[j][n]].score >= settings.confidence

(* Leaving table text out of the body loses no word of the page, and a     *)
(* word of a table is not repeated in the body, unless its line has words  *)
(* outside the table (textract_analyze.py:132-134).                        *)
TableTextMoves ==
  \A j \in Jobs : job[j].outcome = Won("textract_analyze") =>
    LET kept == Kept_(j, "textract_analyze") IN
    \A k \in DOMAIN kept :
      LET md == kept[k].markdown
          lines == doc[j].pages[kept[k].locator].lines IN
      /\ LineWords(lines) \subseteq WordsOf(md)
      /\ \A line \in ToSet(md.body) : ~(ToSet(line) \subseteq GridWords(md.tables))

(* Every document is decided in the end: no rung waits for another         *)
(* document, and a document is not passed on for ever.                     *)
DocumentsEnd ==
  \A j \in Jobs : <>(job[j].pc \in {"extracted", "catalog_only", "raised"})
=============================================================================
