-------------------------- MODULE ExtractionProofs --------------------------
(***************************************************************************)
(* Both extraction engines implement FirstWins, for any settings, ladders, *)
(* documents and number of documents that share the rungs.  No document    *)
(* gets a page its winner read with less confidence than asked for, none   *)
(* gets its pages with a gap, and what Textract's tables say is kept.      *)
(***************************************************************************)
EXTENDS Extraction, TLAPS, FiniteSetTheorems, SequenceTheorems, Induction

Task(j) == <<settings, doc[j]>>

Stopped(r, j) == WinsAlone(r, Task(j)) \/ FailsAlone(r, Task(j))

(* A document still on its walk is undecided, and every rung before the    *)
(* current one passes it on.                                               *)
Walks(j) ==
  job[j].pc \in {"idle", "walk", "load", "read", "collect"} =>
    /\ job[j].outcome = Undecided
    /\ job[j].rung \in 1..Len(Ladder(j)) + 1
    /\ \A k \in 1..job[j].rung - 1 : ~Stopped(Ladder(j)[k], j)

(* A rung at work accepts the document, and has what its step relies on.   *)
Works(j) ==
  /\ job[j].pc \in {"load", "read", "collect"} => job[j].rung \in 1..Len(Ladder(j))
  /\ job[j].pc \in {"load", "read"} =>
       /\ Accepts(Current(j), doc[j])
       /\ Rung[Current(j)].late => ~CannotRead(settings, Current(j), doc[j])
  /\ job[j].pc = "read" => ~Missing(settings, Current(j))
  /\ job[j].pc \in {"idle", "walk", "load", "read"} => job[j].emitted = {}
  /\ job[j].pc = "collect" =>
       job[j].emitted = {Current(j)} /\ WinsAlone(Current(j), Task(j))

(* A page on disk is one the winner kept, and the winner passed its gate.  *)
Wrote(j) ==
  /\ job[j].outcome.verdict = "won" =>
       PassesGate(settings, job[j].outcome.rung, doc[j])
  /\ \A n \in 1..MaxPage : derived[j][n] # 0 =>
       /\ job[j].outcome.verdict = "won"
       /\ \E k \in DOMAIN Kept_(j, job[j].outcome.rung) :
            derived[j][n] = Kept_(j, job[j].outcome.rung)[k].locator
  /\ job[j].pc = "write" => job[j].outcome.verdict = "won"

JobInv(j) == Walks(j) /\ Works(j) /\ Wrote(j) /\ DOMAIN derived[j] = 1..MaxPage

IInv ==
  /\ settings \in SettingsUsed /\ doc \in Batches
  /\ loaded \subseteq (SUBSET Nat) \X Nat
  /\ \A l \in loaded : ~Missing(settings, LadderAt(settings, l[1])[l[2]])
  /\ job \in [Jobs -> Job]
  /\ DOMAIN derived = Jobs
  /\ \A j \in Jobs : JobInv(j)

-----------------------------------------------------------------------------
(* Every ladder is a sequence of builtin rungs.                            *)
LEMMA LadderTyped ==
  ASSUME NEW s \in Settings, NEW d
  PROVE  LadderOf(s, d) \in Seq(RungNames)
<1> DEFINE Route == [glob: Kinds \union {"image/*", "*"}, rungs: Seq(RungNames)]
<1>1. s.routes \in Seq(Route) /\ s.ladder \in Seq(RungNames) /\ s.preset \in DOMAIN Presets
  BY DEF Settings
<1>2. \A p \in DOMAIN Presets : Presets[p] \in Seq(RungNames)
  <2>1. {"text_native", "pdf", "pdftables", "docx", "textract", "textract_analyze", "llm"}
          \subseteq RungNames
    BY DEF RungNames, Rung
  <2>2. DOMAIN Presets = {"lite", "ocr", "tables", "multimodal", "full"}
    BY DEF Presets
  <2>3. /\ Presets["lite"] \in Seq(RungNames) /\ Presets["ocr"] \in Seq(RungNames)
        /\ Presets["tables"] \in Seq(RungNames) /\ Presets["multimodal"] \in Seq(RungNames)
        /\ Presets["full"] \in Seq(RungNames)
    BY <2>1 DEF Presets
  <2> QED
    BY <2>2, <2>3
<1>3. DefaultLadder \in Seq(RungNames)
  BY DEF DefaultLadder, RungNames, Rung
<1>4. \A q \in Seq(RungNames) : Built(q) \in Seq(RungNames)
  BY <1>3 DEF Built
<1>5. LadderNames(s) \in Seq(RungNames)
  BY <1>1, <1>2 DEF LadderNames
<1>6. CASE s.routes = <<>>
  BY <1>4, <1>5, <1>6 DEF LadderOf, LadderAt
<1>7. CASE s.routes # <<>> /\ RouteOf(s, d.type) = {}
  BY <1>7 DEF LadderOf, LadderAt
<1>8. CASE s.routes # <<>> /\ RouteOf(s, d.type) # {}
  <2> DEFINE i == CHOOSE x \in RouteOf(s, d.type) : TRUE
  <2>1. i \in RouteOf(s, d.type)
    BY <1>8
  <2>2. RouteOf(s, d.type) \subseteq DOMAIN s.routes
    BY DEF RouteOf
  <2> HIDE DEF i
  <2>3. s.routes[i].rungs \in Seq(RungNames)
    <3>1. s.routes[i] \in Route
      <4> HIDE DEF Route
      <4> QED
        BY <1>1, <2>1, <2>2
    <3> QED
      BY <3>1
  <2>4. LadderOf(s, d) = Built(s.routes[i].rungs)
    BY <1>8 DEF LadderOf, LadderAt, i
  <2> QED
    BY <1>4, <2>3, <2>4
<1> QED
  BY <1>6, <1>7, <1>8

LEMMA RouteTyped ==
  ASSUME NEW s \in Settings, NEW type
  PROVE  RouteOf(s, type) \in SUBSET Nat
<1>1. DOMAIN s.routes \subseteq Nat
  BY DEF Settings
<1> QED
  BY <1>1 DEF RouteOf

LEMMA InvTypes == IInv => TypeOK
BY DEF IInv, TypeOK, JobInv, Works, Ladder

LEMMA LadderSeq == ASSUME IInv, NEW j \in Jobs PROVE Ladder(j) \in Seq(RungNames)
BY LadderTyped, SettingsAssumption DEF IInv, Ladder

LEMMA InitInv == Init => IInv
<1> SUFFICES ASSUME Init PROVE IInv
  OBVIOUS
<1>1. settings \in SettingsUsed /\ doc \in Batches /\ loaded \subseteq (SUBSET Nat) \X Nat
  BY DEF Init
<1>2. job \in [Jobs -> Job]
  BY DEF Init, Job, Stages, Verdict, Undecided
<1>3. ASSUME NEW j \in Jobs PROVE JobInv(j)
  <2>1. Ladder(j) \in Seq(RungNames)
    BY <1>1, LadderTyped, SettingsAssumption DEF Ladder
  <2>2. job[j].pc = "idle" /\ job[j].rung = 1 /\ job[j].emitted = {} /\ job[j].outcome = Undecided
    BY DEF Init
  <2>3. DOMAIN derived[j] = 1..MaxPage /\ \A n \in 1..MaxPage : derived[j][n] = 0
    BY DEF Init
  <2>4. Walks(j)
    BY <2>1, <2>2 DEF Walks
  <2>5. Works(j)
    BY <2>2 DEF Works
  <2>6. Wrote(j)
    BY <2>2, <2>3 DEF Wrote, Undecided
  <2> QED
    BY <2>3, <2>4, <2>5, <2>6 DEF JobInv
<1> QED
  BY <1>1, <1>2, <1>3 DEF Init, IInv

-----------------------------------------------------------------------------
(* The record updates of the actions stay in Job.                          *)
LEMMA SetRung ==
  ASSUME NEW j \in Jobs, job \in [Jobs -> Job], NEW n \in Nat, NEW p \in Stages,
         job' = [job EXCEPT ![j].rung = n, ![j].pc = p]
  PROVE  /\ job' \in [Jobs -> Job] /\ \A i \in Jobs \ {j} : job'[i] = job[i]
         /\ job'[j].rung = n /\ job'[j].pc = p
         /\ job'[j].outcome = job[j].outcome /\ job'[j].emitted = job[j].emitted
<1> DEFINE u == [job[j] EXCEPT !.rung = n]
<1> DEFINE v == [u EXCEPT !.pc = p]
<1>1. u \in Job /\ u.rung = n /\ u.outcome = job[j].outcome /\ u.emitted = job[j].emitted
  BY DEF Job
<1>2. v \in Job /\ v.rung = u.rung /\ v.pc = p /\ v.outcome = u.outcome /\ v.emitted = u.emitted
  <2> HIDE DEF u
  <2> QED
    BY <1>1 DEF Job
<1>3. job' = [job EXCEPT ![j] = v]
  OBVIOUS
<1> QED
  <2> HIDE DEF v
  <2> QED
    BY <1>1, <1>2, <1>3

LEMMA SetEmitted ==
  ASSUME NEW j \in Jobs, job \in [Jobs -> Job], NEW e \in SUBSET RungNames, NEW p \in Stages,
         job' = [job EXCEPT ![j].emitted = e, ![j].pc = p]
  PROVE  /\ job' \in [Jobs -> Job] /\ \A i \in Jobs \ {j} : job'[i] = job[i]
         /\ job'[j].rung = job[j].rung /\ job'[j].pc = p
         /\ job'[j].outcome = job[j].outcome /\ job'[j].emitted = e
<1> DEFINE u == [job[j] EXCEPT !.emitted = e]
<1> DEFINE v == [u EXCEPT !.pc = p]
<1>1. u \in Job /\ u.rung = job[j].rung /\ u.outcome = job[j].outcome /\ u.emitted = e
  BY DEF Job
<1>2. v \in Job /\ v.rung = u.rung /\ v.pc = p /\ v.outcome = u.outcome /\ v.emitted = u.emitted
  <2> HIDE DEF u
  <2> QED
    BY <1>1 DEF Job
<1>3. job' = [job EXCEPT ![j] = v]
  OBVIOUS
<1> QED
  <2> HIDE DEF v
  <2> QED
    BY <1>1, <1>2, <1>3

LEMMA SetOutcome ==
  ASSUME NEW j \in Jobs, job \in [Jobs -> Job], NEW o \in Verdict, NEW p \in Stages,
         job' = [job EXCEPT ![j].outcome = o, ![j].pc = p]
  PROVE  /\ job' \in [Jobs -> Job] /\ \A i \in Jobs \ {j} : job'[i] = job[i]
         /\ job'[j].outcome = o /\ job'[j].pc = p
<1> DEFINE u == [job[j] EXCEPT !.outcome = o]
<1> DEFINE v == [u EXCEPT !.pc = p]
<1>1. u \in Job /\ u.outcome = o
  BY DEF Job
<1>2. v \in Job /\ v.outcome = u.outcome /\ v.pc = p
  <2> HIDE DEF u
  <2> QED
    BY <1>1 DEF Job
<1>3. job' = [job EXCEPT ![j] = v]
  OBVIOUS
<1> QED
  <2> HIDE DEF v
  <2> QED
    BY <1>1, <1>2, <1>3

LEMMA SetPc ==
  ASSUME NEW j \in Jobs, job \in [Jobs -> Job], NEW p \in Stages, Continue(j, p)
  PROVE  /\ job' \in [Jobs -> Job] /\ \A i \in Jobs \ {j} : job'[i] = job[i]
         /\ job'[j].rung = job[j].rung /\ job'[j].pc = p /\ job'[j].outcome = job[j].outcome
         /\ job'[j].emitted = job[j].emitted /\ job'[j].page = job[j].page
<1> DEFINE v == [job[j] EXCEPT !.pc = p]
<1>1. /\ v \in Job /\ v.rung = job[j].rung /\ v.pc = p /\ v.outcome = job[j].outcome
      /\ v.emitted = job[j].emitted /\ v.page = job[j].page
  BY DEF Job
<1>2. job' = [job EXCEPT ![j] = v]
  BY DEF Continue
<1> QED
  <2> HIDE DEF v
  <2> QED
    BY <1>1, <1>2

(* A step of one document.                                                 *)
Alone(j) ==
  /\ settings' = settings /\ doc' = doc
  /\ \A i \in Jobs \ {j} : job'[i] = job[i] /\ derived'[i] = derived[i]
  /\ DOMAIN derived' = DOMAIN derived

(* The invariant of the documents that take no step.                       *)
LEMMA OthersKeep ==
  ASSUME IInv, NEW j \in Jobs, Alone(j), job' \in [Jobs -> Job],
         loaded' \subseteq (SUBSET Nat) \X Nat,
         \A l \in loaded' : ~Missing(settings, LadderAt(settings, l[1])[l[2]]),
         JobInv(j)'
  PROVE  IInv'
<1>1. ASSUME NEW i \in Jobs, i # j PROVE JobInv(i)'
  <2>1. job'[i] = job[i] /\ derived'[i] = derived[i] /\ settings' = settings /\ doc' = doc
    BY <1>1 DEF Alone
  <2>2. JobInv(i)
    BY DEF IInv
  <2>3. Ladder(i)' = Ladder(i) /\ Current(i)' = Current(i) /\ Task(i)' = Task(i)
    BY <2>1 DEF Ladder, Current, Task
  <2>4. Walks(i)'
    BY <2>1, <2>2, <2>3 DEF JobInv, Walks, Stopped
  <2>5. Works(i)'
    BY <2>1, <2>2, <2>3 DEF JobInv, Works
  <2>6. Wrote(i)'
    BY <2>1, <2>2 DEF JobInv, Wrote, Kept_
  <2> QED
    BY <2>1, <2>2, <2>4, <2>5, <2>6 DEF JobInv
<1>2. \A i \in Jobs : JobInv(i)'
  BY <1>1
<1>3. settings' \in SettingsUsed /\ doc' \in Batches /\ DOMAIN derived' = Jobs
  BY DEF IInv, Alone
<1>4. \A l \in loaded' : ~Missing(settings', LadderAt(settings', l[1])[l[2]])
  BY DEF Alone
<1> QED
  BY <1>2, <1>3, <1>4 DEF IInv

(* A step that changes nothing but job[j].                                 *)
LEMMA WalkStep ==
  ASSUME IInv, NEW j \in Jobs,
         UNCHANGED <<settings, doc, derived>>,
         \A i \in Jobs \ {j} : job'[i] = job[i]
  PROVE  Alone(j) /\ Ladder(j)' = Ladder(j) /\ Task(j)' = Task(j)
BY DEF Alone, Ladder, Task

(* Nothing is written for a document that is still undecided.              *)
LEMMA WalkWroteNothing ==
  ASSUME IInv, NEW j \in Jobs, UNCHANGED <<settings, doc, derived>>,
         job[j].outcome = Undecided,
         job'[j].outcome.verdict = "won" => PassesGate(settings, job'[j].outcome.rung, doc[j]),
         job'[j].pc = "write" => job'[j].outcome.verdict = "won"
  PROVE  Wrote(j)' /\ DOMAIN derived'[j] = 1..MaxPage
<1>1. Wrote(j) /\ DOMAIN derived[j] = 1..MaxPage
  BY DEF IInv, JobInv
<1>2. \A n \in 1..MaxPage : derived[j][n] = 0
  BY <1>1 DEF Wrote, Undecided
<1> QED
  BY <1>1, <1>2 DEF Wrote

(* Handing the document on, when this rung does not stop it.               *)
LEMMA PassOnKeeps ==
  ASSUME IInv, NEW j \in Jobs, PassOn(j), UNCHANGED <<settings, doc, derived, loaded>>,
         job[j].pc \in {"walk", "load", "read"}, job[j].rung \in 1..Len(Ladder(j)),
         ~Stopped(Current(j), j)
  PROVE  IInv' /\ Alone(j) /\ job'[j].outcome = job[j].outcome
<1>1. Ladder(j) \in Seq(RungNames)
  BY LadderSeq
<1>2. Walks(j) /\ Works(j) /\ job \in [Jobs -> Job]
  BY DEF IInv, JobInv
<1>3. /\ job' \in [Jobs -> Job] /\ \A i \in Jobs \ {j} : job'[i] = job[i]
      /\ job'[j].rung = job[j].rung + 1 /\ job'[j].pc = "walk"
      /\ job'[j].outcome = job[j].outcome /\ job'[j].emitted = job[j].emitted
  <2>1. job[j].rung + 1 \in Nat /\ "walk" \in Stages
    BY <1>2 DEF Job, Stages
  <2>2. job' = [job EXCEPT ![j].rung = job[j].rung + 1, ![j].pc = "walk"]
    BY DEF PassOn
  <2> QED
    BY <1>2, <2>1, <2>2, SetRung
<1>4. Alone(j) /\ Ladder(j)' = Ladder(j) /\ Task(j)' = Task(j)
  BY <1>3, WalkStep
<1>5. Walks(j)'
  <2>1. ASSUME NEW k \in 1..job'[j].rung - 1 PROVE ~Stopped(Ladder(j)[k], j)
    <3>1. CASE k = job[j].rung
      BY <3>1 DEF Current
    <3>2. CASE k # job[j].rung
      BY <1>1, <1>2, <1>3, <3>2 DEF Walks
    <3> QED
      BY <3>1, <3>2
  <2>2. ASSUME NEW k \in 1..job'[j].rung - 1 PROVE ~Stopped(Ladder(j)[k], j)'
    BY <1>4, <2>1 DEF Stopped
  <2> QED
    BY <1>1, <1>2, <1>3, <1>4, <2>2 DEF Walks
<1>6. Works(j)'
  BY <1>2, <1>3 DEF Works
<1>7. Wrote(j)' /\ DOMAIN derived'[j] = 1..MaxPage
  BY <1>2, <1>3, WalkWroteNothing DEF Walks, Undecided
<1> QED
  BY <1>3, <1>4, <1>5, <1>6, <1>7, OthersKeep DEF JobInv, IInv

(* A rung raises: the walk ends.                                           *)
LEMMA RaiseKeeps ==
  ASSUME IInv, NEW j \in Jobs, Raise(j), UNCHANGED <<settings, doc, derived, loaded>>,
         job[j].pc \in {"walk", "load", "read"}, job[j].rung \in 1..Len(Ladder(j))
  PROVE  IInv' /\ job'[j].outcome = Raised(Current(j)) /\ Alone(j)
<1>1. Walks(j) /\ job \in [Jobs -> Job] /\ Current(j) \in RungNames
  BY LadderSeq DEF IInv, JobInv, Current
<1>2. /\ job' \in [Jobs -> Job] /\ \A i \in Jobs \ {j} : job'[i] = job[i]
      /\ job'[j].outcome = Raised(Current(j)) /\ job'[j].pc = "raised"
  <2>1. Raised(Current(j)) \in Verdict /\ "raised" \in Stages
    BY <1>1 DEF Verdict, Raised, Stages
  <2> QED
    BY <1>1, <2>1, SetOutcome DEF Raise
<1>3. Alone(j) /\ Walks(j)' /\ Works(j)'
  BY <1>2, WalkStep DEF Walks, Works
<1>4. Wrote(j)' /\ DOMAIN derived'[j] = 1..MaxPage
  BY <1>1, <1>2, WalkWroteNothing DEF Walks, Raised
<1> QED
  BY <1>2, <1>3, <1>4, OthersKeep DEF JobInv, IInv

(* A rung wins: the ladder stops, a Haystack component tells the collector. *)
LEMMA WinKeeps ==
  ASSUME IInv, NEW j \in Jobs, UNCHANGED <<settings, doc, derived, loaded>>,
         NEW r \in RungNames, r = Current(j), WinsAlone(r, Task(j)),
         job' = [job EXCEPT ![j].outcome = Won(r), ![j].pc = "write"],
         job[j].pc \in {"read", "collect"}
  PROVE  IInv' /\ job'[j].outcome = Won(r) /\ Alone(j)
<1>1. Walks(j) /\ job \in [Jobs -> Job]
  BY DEF IInv, JobInv
<1>2. /\ job' \in [Jobs -> Job] /\ \A i \in Jobs \ {j} : job'[i] = job[i]
      /\ job'[j].outcome = Won(r) /\ job'[j].pc = "write"
  <2>1. Won(r) \in Verdict /\ "write" \in Stages
    BY DEF Verdict, Won, Stages
  <2> QED
    BY <1>1, <2>1, SetOutcome
<1>3. Alone(j) /\ Walks(j)' /\ Works(j)'
  BY <1>2, WalkStep DEF Walks, Works
<1>4. PassesGate(settings, r, doc[j])
  BY DEF WinsAlone, Task
<1>5. Wrote(j)' /\ DOMAIN derived'[j] = 1..MaxPage
  BY <1>1, <1>2, <1>4, WalkWroteNothing DEF Walks, Won
<1> QED
  BY <1>2, <1>3, <1>5, OthersKeep DEF JobInv, IInv

LEMMA EmitKeeps ==
  ASSUME IInv, NEW j \in Jobs, Emit(j), UNCHANGED <<settings, doc, derived, loaded>>,
         job[j].pc = "read", WinsAlone(Current(j), Task(j))
  PROVE  /\ IInv' /\ Alone(j)
         /\ job'[j].outcome \in {job[j].outcome, Won(Current(j))}
<1>1. Walks(j) /\ Works(j) /\ job \in [Jobs -> Job] /\ Current(j) \in RungNames
  BY LadderSeq DEF IInv, JobInv, Current, Works
<1>2. CASE EngineOf(settings) = "haystack"
  <2>1. /\ job' \in [Jobs -> Job] /\ \A i \in Jobs \ {j} : job'[i] = job[i]
        /\ job'[j].rung = job[j].rung /\ job'[j].pc = "collect"
        /\ job'[j].outcome = job[j].outcome /\ job'[j].emitted = {Current(j)}
    <3>1. job[j].emitted = {} /\ "collect" \in Stages /\ {Current(j)} \in SUBSET RungNames
      BY <1>1 DEF Works, Stages
    <3>2. job' = [job EXCEPT ![j].emitted = {Current(j)}, ![j].pc = "collect"]
      BY <1>2, <3>1 DEF Emit
    <3> QED
      BY <1>1, <3>1, <3>2, SetEmitted
  <2>2. Alone(j) /\ Ladder(j)' = Ladder(j) /\ Task(j)' = Task(j)
    BY <2>1, WalkStep
  <2>3. Current(j)' = Current(j)
    BY <2>1, <2>2 DEF Current
  <2>4. Walks(j)'
    BY <1>1, <2>1, <2>2 DEF Walks, Stopped
  <2>5. Works(j)'
    BY <1>1, <2>1, <2>2, <2>3 DEF Works
  <2>6. Wrote(j)' /\ DOMAIN derived'[j] = 1..MaxPage
    BY <1>1, <2>1, WalkWroteNothing DEF Walks, Undecided
  <2> QED
    BY <2>1, <2>2, <2>4, <2>5, <2>6, OthersKeep DEF JobInv, IInv
<1>3. CASE EngineOf(settings) # "haystack"
  <2>1. job' = [job EXCEPT ![j].outcome = Won(Current(j)), ![j].pc = "write"]
    BY <1>3 DEF Emit
  <2> QED
    BY <1>1, <2>1, WinKeeps
<1> QED
  BY <1>2, <1>3

-----------------------------------------------------------------------------
(* One lemma per action: it keeps the invariant, and the outcome of the    *)
(* document is either as before or the one its ladder demands.             *)
Demanded(j) ==
  \/ job'[j].outcome = job[j].outcome
  \/ /\ job[j].outcome = Undecided
     /\ \/ \E i \in 1..Len(Ladder(j)) :
             /\ \A k \in 1..i - 1 : ~Stopped(Ladder(j)[k], j)
             /\ \/ WinsAlone(Ladder(j)[i], Task(j)) /\ job'[j].outcome = Won(Ladder(j)[i])
                \/ FailsAlone(Ladder(j)[i], Task(j)) /\ job'[j].outcome = Raised(Ladder(j)[i])
        \/ /\ \A k \in 1..Len(Ladder(j)) : ~Stopped(Ladder(j)[k], j)
           /\ job'[j].outcome = NoOutcome

Keeps(j) == IInv' /\ Alone(j) /\ Demanded(j)

LEMMA PassOnGood ==
  ASSUME IInv, NEW j \in Jobs, PassOn(j), UNCHANGED <<settings, doc, derived, loaded>>,
         job[j].pc \in {"walk", "load", "read"}, job[j].rung \in 1..Len(Ladder(j)),
         ~Stopped(Current(j), j)
  PROVE  Keeps(j)
BY PassOnKeeps DEF Keeps, Demanded

LEMMA RaiseGood ==
  ASSUME IInv, NEW j \in Jobs, Raise(j), UNCHANGED <<settings, doc, derived, loaded>>,
         job[j].pc \in {"walk", "load", "read"}, job[j].rung \in 1..Len(Ladder(j)),
         FailsAlone(Current(j), Task(j))
  PROVE  Keeps(j)
<1>1. Walks(j)
  BY DEF IInv, JobInv
<1> QED
  BY <1>1, RaiseKeeps DEF Keeps, Demanded, Walks, Current

LEMMA BeginGood == ASSUME IInv, NEW j \in Jobs, Begin(j) PROVE Keeps(j)
<1>1. Walks(j) /\ Works(j) /\ job \in [Jobs -> Job] /\ job[j].pc = "idle"
  BY DEF IInv, JobInv, Begin
<1>2. /\ job' \in [Jobs -> Job] /\ \A i \in Jobs \ {j} : job'[i] = job[i]
      /\ job'[j].rung = job[j].rung /\ job'[j].pc = "walk" /\ job'[j].outcome = job[j].outcome
      /\ job'[j].emitted = job[j].emitted
  <2>1. "walk" \in Stages
    BY DEF Stages
  <2> QED
    BY <1>1, <2>1, SetPc DEF Begin
<1>3. Alone(j) /\ Ladder(j)' = Ladder(j) /\ Task(j)' = Task(j)
  BY <1>2, WalkStep DEF Begin
<1>4. Walks(j)' /\ Works(j)'
  BY <1>1, <1>2, <1>3 DEF Walks, Works, Stopped
<1>5. Wrote(j)' /\ DOMAIN derived'[j] = 1..MaxPage
  BY <1>1, <1>2, WalkWroteNothing DEF Begin, Walks, Undecided
<1> QED
  BY <1>2, <1>3, <1>4, <1>5, OthersKeep DEF Keeps, Demanded, JobInv, IInv, Begin

LEMMA SkipGood == ASSUME IInv, NEW j \in Jobs, Skip(j) PROVE Keeps(j)
<1>1. Walks(j)
  BY DEF IInv, JobInv
<1>2. job[j].rung \in 1..Len(Ladder(j))
  BY <1>1, LadderSeq DEF Skip, Walks
<1>3. ~Stopped(Current(j), j)
  BY DEF Skip, Stopped, WinsAlone, FailsAlone, Task
<1> QED
  BY <1>2, <1>3, PassOnGood DEF Skip

(* The state of a rung at work, as Enter, Load and Read set it.            *)
LEMMA ContinueKeeps ==
  ASSUME IInv, NEW j \in Jobs, NEW p \in {"load", "read"}, Continue(j, p),
         UNCHANGED <<settings, doc, derived>>,
         loaded' \subseteq (SUBSET Nat) \X Nat,
         \A l \in loaded' : ~Missing(settings, LadderAt(settings, l[1])[l[2]]),
         job[j].pc \in {"walk", "load"}, job[j].rung \in 1..Len(Ladder(j)),
         Accepts(Current(j), doc[j]),
         Rung[Current(j)].late => ~CannotRead(settings, Current(j), doc[j]),
         p = "read" => ~Missing(settings, Current(j))
  PROVE  Keeps(j)
<1>1. Walks(j) /\ Works(j) /\ job \in [Jobs -> Job]
  BY DEF IInv, JobInv
<1>2. /\ job' \in [Jobs -> Job] /\ \A i \in Jobs \ {j} : job'[i] = job[i]
      /\ job'[j].rung = job[j].rung /\ job'[j].pc = p /\ job'[j].outcome = job[j].outcome
      /\ job'[j].emitted = job[j].emitted
  <2>1. p \in Stages
    BY DEF Stages
  <2> QED
    BY <1>1, <2>1, SetPc
<1>3. Alone(j) /\ Ladder(j)' = Ladder(j) /\ Task(j)' = Task(j)
  BY <1>2, WalkStep
<1>4. Current(j)' = Current(j) /\ settings' = settings /\ doc' = doc
  BY <1>2, <1>3 DEF Current
<1>5. Walks(j)'
  BY <1>1, <1>2, <1>3 DEF Walks, Stopped
<1>6. Works(j)'
  BY <1>1, <1>2, <1>3, <1>4 DEF Works
<1>7. Wrote(j)' /\ DOMAIN derived'[j] = 1..MaxPage
  BY <1>1, <1>2, WalkWroteNothing DEF Walks, Undecided
<1> QED
  BY <1>2, <1>3, <1>5, <1>6, <1>7, OthersKeep DEF Keeps, Demanded, JobInv

LEMMA EnterGood == ASSUME IInv, NEW j \in Jobs, Enter(j) PROVE Keeps(j)
<1>1. Walks(j) /\ Ladder(j) \in Seq(RungNames)
  BY LadderSeq DEF IInv, JobInv
<1>2. job[j].rung \in 1..Len(Ladder(j)) /\ job[j].pc = "walk" /\ Accepts(Current(j), doc[j])
  BY <1>1 DEF Enter, Walks
<1>3. Current(j) \in RungNames
  BY <1>1, <1>2 DEF Current
<1>4. CASE Rung[Current(j)].late /\ CannotRead(settings, Current(j), doc[j])
  <2>1. FailsAlone(Current(j), Task(j))
    BY <1>2, <1>4 DEF FailsAlone, CannotRead, Task
  <2> QED
    BY <1>2, <1>4, <2>1, RaiseGood DEF Enter
<1>5. CASE ~(Rung[Current(j)].late /\ CannotRead(settings, Current(j), doc[j]))
  <2>1. CASE Loads(Current(j)) /\ Slot(j) \notin loaded
    BY <1>2, <1>5, <2>1, ContinueKeeps DEF Enter, IInv
  <2>2. CASE ~(Loads(Current(j)) /\ Slot(j) \notin loaded)
    <3>1. ~Missing(settings, Current(j))
      <4>1. CASE Slot(j) \in loaded
        BY <4>1 DEF IInv, Slot, Current, Ladder, LadderOf
      <4>2. CASE ~Loads(Current(j))
        BY <4>2 DEF Loads, Missing
      <4> QED
        BY <2>2, <4>1, <4>2
    <3> QED
      BY <1>2, <1>5, <2>2, <3>1, ContinueKeeps DEF Enter, IInv
  <2> QED
    BY <2>1, <2>2
<1> QED
  BY <1>4, <1>5

(* A late rung that can read the document opens it: none reports damage.   *)
LEMMA LateOpens ==
  ASSUME NEW s, NEW r, NEW d, Rung[r].late => ~CannotRead(s, r, d)
  PROVE  ~(Rung[r].late /\ ~(Renders(s, r, d) /\ Opens(r, d)))
<1>1. ~Rung["docling"].late
  BY DEF Rung, Docling, Base
<1> QED
  BY <1>1 DEF CannotRead, ReportsDamage

LEMMA LoadGood == ASSUME IInv, NEW j \in Jobs, Load(j) PROVE Keeps(j)
<1>1. Works(j) /\ job[j].pc = "load"
  BY DEF IInv, JobInv, Load
<1>2. job[j].rung \in 1..Len(Ladder(j)) /\ Accepts(Current(j), doc[j])
  BY <1>1 DEF Works
<1>3. Current(j) \in RungNames
  BY <1>2, LadderSeq DEF Current
<1>4. CASE Missing(settings, Current(j)) /\ Rung[Current(j)].declines
  <2>1. ~Stopped(Current(j), j)
    BY <1>1, <1>4, LateOpens DEF Works, Stopped, WinsAlone, FailsAlone, Task
  <2> QED
    BY <1>1, <1>2, <1>4, <2>1, PassOnGood DEF Load
<1>5. CASE Missing(settings, Current(j)) /\ ~Rung[Current(j)].declines
  <2>1. FailsAlone(Current(j), Task(j))
    BY <1>2, <1>5 DEF FailsAlone, Task
  <2> QED
    BY <1>1, <1>2, <1>5, <2>1, RaiseGood DEF Load
<1>6. CASE ~Missing(settings, Current(j))
  <2>1. loaded' \subseteq loaded \union {Slot(j)}
    BY <1>6 DEF Load
  <2>2. Slot(j) \in (SUBSET Nat) \X Nat
    <3>1. job[j].rung \in Nat /\ settings \in Settings
      BY <1>2, SettingsAssumption DEF IInv
    <3> QED
      BY <3>1, RouteTyped DEF Slot
  <2>3. loaded' \subseteq (SUBSET Nat) \X Nat
    BY <2>1, <2>2 DEF IInv
  <2>4. \A l \in loaded' : ~Missing(settings, LadderAt(settings, l[1])[l[2]])
    BY <1>6, <2>1 DEF IInv, Slot, Current, Ladder, LadderOf
  <2> QED
    BY <1>1, <1>2, <1>6, <2>3, <2>4, ContinueKeeps DEF Load, Works
<1> QED
  BY <1>4, <1>5, <1>6

LEMMA ReadGood == ASSUME IInv, NEW j \in Jobs, Read(j) PROVE Keeps(j)
<1>1. Walks(j) /\ Works(j) /\ job[j].pc = "read"
  BY DEF IInv, JobInv, Read
<1>2. /\ job[j].rung \in 1..Len(Ladder(j)) /\ Accepts(Current(j), doc[j])
      /\ ~Missing(settings, Current(j))
      /\ Rung[Current(j)].late => ~CannotRead(settings, Current(j), doc[j])
  BY <1>1 DEF Works
<1> DEFINE r == Current(j)
<1> DEFINE Declined == ~Opens(r, doc[j]) \/ Written(settings, r, doc[j]) = {} \/ ~PassesGate(settings, r, doc[j])
<1>3. CASE CannotRead(settings, r, doc[j])
  <2>1. FailsAlone(Current(j), Task(j))
    BY <1>2, <1>3 DEF FailsAlone, Task
  <2> QED
    BY <1>1, <1>2, <1>3, <2>1, RaiseGood DEF Read
<1>4. CASE ~CannotRead(settings, r, doc[j]) /\ Declined
  <2>1. ~WinsAlone(r, Task(j))
    BY <1>4 DEF WinsAlone, Task
  <2>2. ~FailsAlone(r, Task(j))
    BY <1>2, <1>4, LateOpens DEF FailsAlone, Task
  <2>3. PassOn(j)
    BY <1>4 DEF Read
  <2> QED
    BY <1>1, <1>2, <2>1, <2>2, <2>3, PassOnGood DEF Read, Stopped
<1>5. CASE ~CannotRead(settings, r, doc[j]) /\ ~Declined
  <2>1. WinsAlone(Current(j), Task(j))
    BY <1>2, <1>5 DEF WinsAlone, Task, CannotRead
  <2>2. Emit(j)
    BY <1>5 DEF Read
  <2>3. /\ IInv' /\ Alone(j)
        /\ job'[j].outcome \in {job[j].outcome, Won(Current(j))}
    BY <1>1, <2>1, <2>2, EmitKeeps DEF Read
  <2> QED
    BY <1>1, <1>2, <2>1, <2>3 DEF Keeps, Demanded, Walks, Current
<1> QED
  BY <1>3, <1>4, <1>5

LEMMA CollectGood == ASSUME IInv, NEW j \in Jobs, Collect(j) PROVE Keeps(j)
<1>1. Walks(j) /\ Works(j) /\ job[j].pc = "collect"
  BY DEF IInv, JobInv, Collect
<1>2. /\ job[j].rung \in 1..Len(Ladder(j)) /\ job[j].emitted = {Current(j)}
      /\ WinsAlone(Current(j), Task(j))
  BY <1>1 DEF Works
<1>3. Current(j) \in RungNames
  BY <1>2, LadderSeq DEF Current
<1>4. job' = [job EXCEPT ![j].outcome = Won(Current(j)), ![j].pc = "write"]
  BY <1>2 DEF Collect
<1>5. IInv' /\ job'[j].outcome = Won(Current(j)) /\ Alone(j)
  BY <1>1, <1>2, <1>3, <1>4, WinKeeps DEF Collect
<1> QED
  BY <1>1, <1>2, <1>5 DEF Keeps, Demanded, Walks, Current

LEMMA ExhaustGood == ASSUME IInv, NEW j \in Jobs, Exhaust(j) PROVE Keeps(j)
<1>1. Walks(j) /\ job \in [Jobs -> Job] /\ job[j].pc = "walk" /\ Ladder(j) \in Seq(RungNames)
  BY LadderSeq DEF IInv, JobInv, Exhaust
<1>2. job[j].rung = Len(Ladder(j)) + 1
  BY <1>1 DEF Walks, Exhaust
<1>3. /\ job' \in [Jobs -> Job] /\ \A i \in Jobs \ {j} : job'[i] = job[i]
      /\ job'[j].outcome = NoOutcome /\ job'[j].pc = "catalog_only"
  <2>1. NoOutcome \in Verdict /\ "catalog_only" \in Stages
    BY DEF Verdict, NoOutcome, Stages
  <2> QED
    BY <1>1, <2>1, SetOutcome DEF Exhaust
<1>4. Alone(j) /\ Walks(j)' /\ Works(j)'
  BY <1>3, WalkStep DEF Walks, Works, Exhaust
<1>5. Wrote(j)' /\ DOMAIN derived'[j] = 1..MaxPage
  BY <1>1, <1>3, WalkWroteNothing DEF Walks, NoOutcome, Exhaust
<1>6. IInv'
  BY <1>3, <1>4, <1>5, OthersKeep DEF JobInv, IInv, Exhaust
<1>7. \A k \in 1..Len(Ladder(j)) : ~Stopped(Ladder(j)[k], j)
  BY <1>1, <1>2 DEF Walks
<1> QED
  BY <1>1, <1>3, <1>4, <1>6, <1>7 DEF Keeps, Demanded, Walks

LEMMA PutPageGood == ASSUME IInv, NEW j \in Jobs, PutPage(j) PROVE Keeps(j)
<1> DEFINE o == job[j].outcome
<1> DEFINE pages == Kept_(j, o.rung)
<1> DEFINE n == job[j].page
<1>1. /\ Walks(j) /\ Works(j) /\ Wrote(j) /\ DOMAIN derived[j] = 1..MaxPage
      /\ job \in [Jobs -> Job] /\ job[j].pc = "write" /\ n \in Nat /\ DOMAIN derived = Jobs
  BY DEF IInv, JobInv, PutPage, Job
<1>2. o.verdict = "won" /\ n \in DOMAIN pages
  BY <1>1 DEF Wrote, PutPage
<1>3. CASE ~(pages[n].number <= MaxPage)
  <2>1. Continue(j, "raised") /\ UNCHANGED <<settings, doc, derived, loaded>>
    BY <1>3 DEF PutPage
  <2>2. /\ job' \in [Jobs -> Job] /\ \A i \in Jobs \ {j} : job'[i] = job[i]
        /\ job'[j].pc = "raised" /\ job'[j].outcome = o
    <3>1. "raised" \in Stages
      BY DEF Stages
    <3> QED
      BY <1>1, <2>1, <3>1, SetPc
  <2>3. Alone(j) /\ Walks(j)' /\ Works(j)'
    BY <2>1, <2>2, WalkStep DEF Walks, Works
  <2>4. Wrote(j)' /\ DOMAIN derived'[j] = 1..MaxPage
    BY <1>1, <2>1, <2>2 DEF Wrote, Kept_
  <2> QED
    BY <2>1, <2>2, <2>3, <2>4, OthersKeep DEF Keeps, Demanded, JobInv, IInv
<1>4. CASE pages[n].number <= MaxPage
  <2>1. /\ derived' = [derived EXCEPT ![j][pages[n].number] = pages[n].locator]
        /\ job' = [job EXCEPT ![j].page = n + 1]
        /\ UNCHANGED <<settings, doc, loaded>>
    BY <1>4 DEF PutPage
  <2>2. /\ job' \in [Jobs -> Job] /\ \A i \in Jobs \ {j} : job'[i] = job[i]
        /\ job'[j].pc = "write" /\ job'[j].outcome = o
    <3> DEFINE next == n + 1
    <3> DEFINE v == [job[j] EXCEPT !.page = next]
    <3>0. next \in Nat /\ job[j] \in Job
      BY <1>1
    <3>1. v \in Job /\ v.pc = "write" /\ v.outcome = o
      <4> HIDE DEF next
      <4> QED
        BY <1>1, <3>0 DEF Job
    <3>2. job' = [job EXCEPT ![j] = v]
      BY <2>1
    <3> QED
      <4> HIDE DEF v
      <4> QED
        BY <1>1, <3>1, <3>2
  <2>3. /\ DOMAIN derived' = DOMAIN derived /\ DOMAIN derived'[j] = 1..MaxPage
        /\ \A i \in Jobs \ {j} : derived'[i] = derived[i]
        /\ \A m \in 1..MaxPage : derived'[j][m] \in {derived[j][m], pages[n].locator}
    <3> HIDE DEF pages, n
    <3> QED
      BY <1>1, <2>1
  <2>4. Alone(j) /\ Walks(j)' /\ Works(j)'
    BY <2>1, <2>2, <2>3 DEF Walks, Works, Alone
  <2>5. Wrote(j)'
    <3>1. PICK won : won = o
      OBVIOUS
    <3>2. job'[j].outcome = won /\ won.verdict = "won"
      BY <1>2, <2>2, <3>1
    <3>3. Kept_(j, won.rung)' = Kept_(j, won.rung)
      BY <2>1 DEF Kept_
    <3>4. PassesGate(settings', won.rung, doc'[j])
      BY <1>1, <1>2, <2>1, <3>1 DEF Wrote
    <3>5. \A m \in 1..MaxPage : derived'[j][m] # 0 =>
            \E k \in DOMAIN Kept_(j, won.rung) :
              derived'[j][m] = Kept_(j, won.rung)[k].locator
      <4>1. \A m \in 1..MaxPage : derived[j][m] # 0 =>
              \E k \in DOMAIN pages : derived[j][m] = pages[k].locator
        BY <1>1 DEF Wrote
      <4> HIDE DEF pages, n
      <4>2. \A m \in 1..MaxPage : derived'[j][m] # 0 =>
              \E k \in DOMAIN pages : derived'[j][m] = pages[k].locator
        BY <1>2, <2>3, <4>1
      <4>3. pages = Kept_(j, won.rung)
        BY <3>1 DEF pages
      <4> QED
        BY <4>2, <4>3
    <3> QED
      BY <3>2, <3>3, <3>4, <3>5 DEF Wrote
  <2> QED
    BY <2>1, <2>2, <2>3, <2>4, <2>5, OthersKeep DEF Keeps, Demanded, JobInv, IInv
<1> QED
  BY <1>3, <1>4

LEMMA FinishGood == ASSUME IInv, NEW j \in Jobs, Finish(j) PROVE Keeps(j)
<1>1. Wrote(j) /\ DOMAIN derived[j] = 1..MaxPage /\ job \in [Jobs -> Job]
  BY DEF IInv, JobInv
<1>2. /\ job' \in [Jobs -> Job] /\ \A i \in Jobs \ {j} : job'[i] = job[i]
      /\ job'[j].pc = "extracted" /\ job'[j].outcome = job[j].outcome
  <2>1. "extracted" \in Stages
    BY DEF Stages
  <2> QED
    BY <1>1, <2>1, SetPc DEF Finish
<1>3. Alone(j) /\ Walks(j)' /\ Works(j)'
  BY <1>2, WalkStep DEF Walks, Works, Finish
<1>4. Wrote(j)' /\ DOMAIN derived'[j] = 1..MaxPage
  BY <1>1, <1>2 DEF Wrote, Kept_, Finish
<1> QED
  BY <1>2, <1>3, <1>4, OthersKeep DEF Keeps, Demanded, JobInv, IInv, Finish

LEMMA StepKeeps == ASSUME IInv, NEW j \in Jobs, JobStep(j) PROVE Keeps(j)
BY BeginGood, SkipGood, EnterGood, LoadGood, ReadGood, CollectGood, ExhaustGood, PutPageGood,
   FinishGood DEF JobStep

LEMMA NextInv == IInv /\ [Next]_vars => IInv'
<1> SUFFICES ASSUME IInv, [Next]_vars PROVE IInv'
  OBVIOUS
<1>1. CASE Next
  BY <1>1, StepKeeps DEF Next, Keeps
<1>2. CASE UNCHANGED vars
  <2>1. /\ settings' = settings /\ doc' = doc /\ loaded' = loaded /\ job' = job
        /\ derived' = derived
    BY <1>2 DEF vars
  <2> QED
    BY <2>1 DEF IInv, JobInv, Walks, Works, Wrote, Ladder, Current, Kept_, Stopped, Task
<1> QED
  BY <1>1, <1>2

LEMMA Invariant == Spec => []IInv
BY InitInv, NextInv, PTL DEF Spec

-----------------------------------------------------------------------------
(* The variables keep their types: a rung at work is one of the ladder.    *)
THEOREM TypeCorrect == Spec => []TypeOK
BY Invariant, InvTypes, PTL

(* A finite set of numbers is enumerated, each number once, in order: its  *)
(* numbers differ in how many are not above them, so every count occurs.   *)
LEMMA InOrderFacts ==
  ASSUME NEW K \in SUBSET Nat, IsFiniteSet(K)
  PROVE  /\ Cardinality(K) \in Nat
         /\ InOrder[K] \in [1..Cardinality(K) -> K]
         /\ \A m, n \in 1..Cardinality(K) : m < n => InOrder[K][m] < InOrder[K][n]
         /\ \A k \in K : \E n \in 1..Cardinality(K) : InOrder[K][n] = k
<1> DEFINE size == Cardinality(K)
           upto(i) == {k \in K : k <= i}
           rank == [i \in K |-> Cardinality(upto(i))]
           Ordered(at) == \A m, n \in DOMAIN at : m < n => at[m] < at[n]
<1>1. size \in Nat /\ IsFiniteSet(1..size) /\ Cardinality(1..size) = size
  BY FS_CardinalityType, FS_Interval
<1>2. ASSUME NEW i \in K
      PROVE  /\ IsFiniteSet(upto(i)) /\ Cardinality(upto(i)) \in 1..size
  <2>1. upto(i) \in SUBSET K
    OBVIOUS
  <2>2. IsFiniteSet(upto(i)) /\ Cardinality(upto(i)) <= size
    BY <2>1, FS_Subset
  <2>3. Cardinality(upto(i)) \in Nat /\ (Cardinality(upto(i)) = 0 <=> upto(i) = {})
    BY <2>2, FS_CardinalityType, FS_EmptySet
  <2>4. i \in upto(i)
    OBVIOUS
  <2> HIDE DEF upto, size
  <2>5. QED BY <1>1, <2>2, <2>3, <2>4
<1>3. ASSUME NEW i \in K, NEW l \in K, i < l
      PROVE  Cardinality(upto(i)) < Cardinality(upto(l))
  <2>1. l \in upto(l) /\ l \notin upto(i)
    BY <1>3
  <2>2. \A k \in K : k <= i => k <= l
    BY <1>3
  <2>3. upto(i) \in SUBSET upto(l)
    BY <2>2
  <2> HIDE DEF upto
  <2>4. Cardinality(upto(i)) <= Cardinality(upto(l)) /\ Cardinality(upto(i)) # Cardinality(upto(l))
    BY <1>2, <2>1, <2>3, FS_Subset
  <2>5. QED BY <1>2, <2>4
<1> HIDE DEF upto
<1>4. rank \in [K -> 1..size] /\ \A i, l \in K : i < l => rank[i] < rank[l]
  BY <1>2, <1>3
<1> HIDE DEF rank, size
<1>5. \A i, l \in K : rank[i] = rank[l] => i = l
  <2> SUFFICES ASSUME NEW i \in K, NEW l \in K, i # l PROVE rank[i] # rank[l]
    OBVIOUS
  <2>1. rank[i] \in Int /\ rank[l] \in Int
    BY <1>4
  <2>2. i < l \/ l < i
    OBVIOUS
  <2>3. QED BY <1>4, <2>1, <2>2
<1>6. \A n \in 1..size : \E i \in K : rank[i] = n
  <2>1. rank \in Injection(K, 1..size)
    BY <1>4, <1>5 DEF Injection, IsInjective
  <2>2. rank \in Surjection(K, 1..size)
    BY <1>1, <2>1, FS_Injection DEF size
  <2>3. QED BY <2>2 DEF Surjection
<1> DEFINE by == [n \in 1..size |-> CHOOSE i \in K : rank[i] = n]
<1>7. by \in [1..size -> K] /\ \A n \in 1..size : rank[by[n]] = n
  BY <1>6
<1>8. Ordered(by)
  <2> SUFFICES ASSUME NEW m \in 1..size, NEW n \in 1..size, m < n PROVE by[m] < by[n]
    BY <1>7
  <2>1. by[m] \in K /\ by[n] \in K /\ rank[by[m]] = m /\ rank[by[n]] = n
    BY <1>7
  <2> HIDE DEF by
  <2>2. by[m] \in Nat /\ by[n] \in Nat /\ m \in Int /\ n \in Int
    <3>1. by[m] \in Nat /\ by[n] \in Nat
      BY <2>1
    <3>2. m \in Int /\ n \in Int
      BY <1>1
    <3>3. QED BY <3>1, <3>2
  <2>3. by[m] # by[n]
    BY <2>1, <2>2
  <2>4. ~(by[n] < by[m])
    BY <1>4, <2>1, <2>2
  <2>5. QED BY <2>2, <2>3, <2>4
<1>9. InOrder[K] \in [1..size -> K] /\ Ordered(InOrder[K])
  <2>1. \E at \in [1..size -> K] : Ordered(at)
    BY <1>7, <1>8
  <2>2. InOrder[K] = CHOOSE at \in [1..size -> K] : Ordered(at)
    BY DEF InOrder, size
  <2> HIDE DEF Ordered
  <2>3. QED BY <2>1, <2>2
<1> DEFINE at == InOrder[K]
<1>10. \A m, n \in 1..size : m < n => at[m] < at[n]
  BY <1>9
<1>11. \A k \in K : \E n \in 1..size : at[n] = k
  <2> HIDE DEF at
  <2>1. \A m, n \in 1..size : at[m] = at[n] => m = n
    <3> SUFFICES ASSUME NEW m \in 1..size, NEW n \in 1..size, m # n PROVE at[m] # at[n]
      OBVIOUS
    <3>1. at[m] \in Nat /\ at[n] \in Nat
      BY <1>9 DEF at
    <3>2. m < n \/ n < m
      BY <1>1
    <3>3. QED BY <1>10, <3>1, <3>2
  <2>2. at \in Injection(1..size, K)
    BY <1>9, <2>1 DEF Injection, IsInjective, at
  <2>3. at \in Surjection(1..size, K)
    BY <1>1, <2>2, FS_Injection DEF size
  <2>4. QED BY <2>3 DEF Surjection
<1>12. QED BY <1>1, <1>9, <1>10, <1>11 DEF size

(* The pages kept, in order, are those on which the rung found something,  *)
(* each with what it read there.                                           *)
LEMMA KeptFacts ==
  ASSUME NEW s, NEW r, NEW d, Sequence(d.pages)
  PROVE  LET kept == Kept(s, r, d)
             size == Cardinality(Written(s, r, d))
         IN  /\ size \in Nat /\ DOMAIN kept = 1..size /\ Len(kept) = size
             /\ \A n \in 1..size :
                  /\ kept[n].number = n
                  /\ kept[n].locator \in Written(s, r, d) /\ kept[n].locator \in Nat \ {0}
                  /\ kept[n].markdown = Reads(s, r, d.pages[kept[n].locator])
             /\ \A m, n \in 1..size : m < n => kept[m].locator < kept[n].locator
             /\ \A i \in Written(s, r, d) : \E n \in 1..size : kept[n].locator = i
<1> DEFINE kept == Kept(s, r, d)
           written == Written(s, r, d)
           size == Cardinality(written)
           at == InOrder[written]
<1>1. written \in SUBSET (Nat \ {0}) /\ IsFiniteSet(written)
  <2>1. DOMAIN d.pages = 1..Len(d.pages) /\ Len(d.pages) \in Nat
    BY LenProperties DEF Sequence
  <2>2. IsFiniteSet(DOMAIN d.pages)
    BY <2>1, FS_Interval
  <2>3. written \in SUBSET DOMAIN d.pages
    BY DEF Written
  <2> HIDE DEF written
  <2>4. QED BY <2>1, <2>2, <2>3, FS_Subset
<1> HIDE DEF written
<1>2. /\ size \in Nat /\ at \in [1..size -> written]
      /\ \A m, n \in 1..size : m < n => at[m] < at[n]
      /\ \A i \in written : \E n \in 1..size : at[n] = i
  <2>1. written \in SUBSET Nat
    BY <1>1
  <2>2. QED BY <1>1, <2>1, InOrderFacts
<1>3. kept = [n \in 1..size |-> [number |-> n, locator |-> at[n],
                                markdown |-> Reads(s, r, d.pages[at[n]])]]
  BY <1>2 DEF Kept, written
<1> HIDE DEF kept, size, at
<1>4. DOMAIN kept = 1..size
  BY <1>3
<1>5. \A n \in 1..size : kept[n].number = n /\ kept[n].locator = at[n]
                         /\ kept[n].markdown = Reads(s, r, d.pages[at[n]])
  BY <1>3
<1>6. Len(kept) = size
  <2>1. kept \in Seq({kept[n] : n \in 1..size})
    BY <1>2, <1>3
  <2>2. QED BY <1>2, <1>4, <2>1, LenProperties
<1>7. \A n \in 1..size : at[n] \in written /\ at[n] \in Nat \ {0}
  BY <1>1, <1>2
<1>8. QED BY <1>2, <1>4, <1>5, <1>6, <1>7 DEF kept, size, written

(* No page of the derived text was read with less confidence than asked    *)
(* for, whatever documents, ladders and thresholds there are.              *)
THEOREM ConfidentPages == Spec => []NoShakyPage
<1>1. IInv => NoShakyPage
  <2> SUFFICES ASSUME IInv, NEW j \in Jobs, NEW n \in 1..MaxPage,
                      job[j].outcome.verdict = "won", Rung[job[j].outcome.rung].scores,
                      derived[j][n] # 0
               PROVE  \/ doc[j].pages[derived[j][n]].lines = <<>>
                      \/ doc[j].pages[derived[j][n]].score >= settings.confidence
    BY DEF NoShakyPage
  <2> DEFINE r == job[j].outcome.rung
  <2>1. Wrote(j)
    BY DEF IInv, JobInv
  <2>2. PassesGate(settings, r, doc[j])
    BY <2>1 DEF Wrote
  <2>3. PICK k \in DOMAIN Kept_(j, r) : derived[j][n] = Kept_(j, r)[k].locator
    BY <2>1 DEF Wrote
  <2>4. derived[j][n] \in Written(settings, r, doc[j])
    <3>1. Sequence(doc[j].pages)
      BY DocumentAssumption DEF IInv
    <3> QED
      BY <2>3, <3>1, KeptFacts DEF Kept_
  <2> HIDE DEF r
  <2>5. doc[j].pages[derived[j][n]].lines # <<>> =>
          doc[j].pages[derived[j][n]].score \in Scores(settings, r, doc[j])
    BY <2>4 DEF Scores, r
  <2> QED
    BY <2>2, <2>5 DEF PassesGate
<1> QED
  BY <1>1, Invariant, PTL

-----------------------------------------------------------------------------
(* The refinement: a document's step decides it, or is a stutter.          *)
LEMMA InitRefines == Init => Pipeline!Init
<1> SUFFICES ASSUME Init PROVE Pipeline!Init
  OBVIOUS
<1>1. [j \in Jobs |-> <<settings, doc[j]>>] \in Tasks
  BY DEF Init, Tasks
<1>2. \A j \in Jobs : job[j].outcome = Undecided
  BY DEF Init
<1> QED
  BY <1>1, <1>2 DEF Pipeline!Init, Pipeline!Undecided, Undecided

LEMMA OutcomeRefines ==
  ASSUME IInv, NEW j \in Jobs, Keeps(j), job'[j].outcome # job[j].outcome
  PROVE  Pipeline!Decide(j)
<1> DEFINE t == Task(j)
<1> DEFINE o == job'[j].outcome
<1>1. /\ job \in [Jobs -> Job] /\ job' \in [Jobs -> Job] /\ Alone(j) /\ Demanded(j)
      /\ Ladder(j) = LadderOfTask(t)
  BY DEF IInv, Keeps, Ladder, LadderOfTask, Task
<1>2. job[j].outcome = Undecided
  BY <1>1 DEF Demanded
<1>3. \A i, k : Pipeline!Stops(LadderOfTask(t)[k], t) <=> Stopped(Ladder(j)[k], j)
  BY <1>1 DEF Pipeline!Stops, Stopped
<1>4. Pipeline!Verdict(t, o)
  <2>1. CASE /\ \A k \in 1..Len(Ladder(j)) : ~Stopped(Ladder(j)[k], j)
             /\ o = NoOutcome
    BY <1>1, <1>3, <2>1 DEF Pipeline!Verdict, Pipeline!PassedOn, Pipeline!NoOutcome, NoOutcome
  <2>2. CASE \E i \in 1..Len(Ladder(j)) :
               /\ \A k \in 1..i - 1 : ~Stopped(Ladder(j)[k], j)
               /\ \/ WinsAlone(Ladder(j)[i], t) /\ o = Won(Ladder(j)[i])
                  \/ FailsAlone(Ladder(j)[i], t) /\ o = Raised(Ladder(j)[i])
    <3>1. PICK i \in 1..Len(Ladder(j)) :
               /\ \A k \in 1..i - 1 : ~Stopped(Ladder(j)[k], j)
               /\ \/ WinsAlone(Ladder(j)[i], t) /\ o = Won(Ladder(j)[i])
                  \/ FailsAlone(Ladder(j)[i], t) /\ o = Raised(Ladder(j)[i])
      BY <2>2
    <3>2. Pipeline!PassedOn(t, i - 1)
      BY <1>1, <1>3, <3>1 DEF Pipeline!PassedOn
    <3>3. Pipeline!Stops(LadderOfTask(t)[i], t)
      BY <1>1, <3>1 DEF Pipeline!Stops
    <3>4. Pipeline!FirstToStop(t, i)
      BY <1>1, <3>2, <3>3 DEF Pipeline!FirstToStop
    <3> QED
      BY <1>1, <3>1, <3>4 DEF Pipeline!Verdict, Pipeline!Won, Pipeline!Raised, Won, Raised
  <2> QED
    BY <1>1, <2>1, <2>2 DEF Demanded
<1>5. [i \in Jobs |-> job[i].outcome]' = [[i \in Jobs |-> job[i].outcome] EXCEPT ![j] = o]
  BY <1>1 DEF Alone
<1>6. [i \in Jobs |-> <<settings, doc[i]>>]' = [i \in Jobs |-> <<settings, doc[i]>>]
  BY <1>1 DEF Alone
<1> QED
  BY <1>2, <1>4, <1>5, <1>6 DEF Pipeline!Decide, Pipeline!Undecided, Undecided, Task

LEMMA NextRefines ==
  IInv /\ [Next]_vars => [Pipeline!Next]_<<[j \in Jobs |-> <<settings, doc[j]>>],
                                           [j \in Jobs |-> job[j].outcome]>>
<1> DEFINE view == <<[j \in Jobs |-> <<settings, doc[j]>>], [j \in Jobs |-> job[j].outcome]>>
<1> SUFFICES ASSUME IInv, [Next]_vars PROVE [Pipeline!Next]_view
  OBVIOUS
<1>1. CASE UNCHANGED vars
  BY <1>1 DEF vars
<1>2. ASSUME NEW j \in Jobs, JobStep(j) PROVE [Pipeline!Next]_view
  <2>1. Keeps(j)
    BY <1>2, StepKeeps
  <2>2. CASE job'[j].outcome # job[j].outcome
    BY <2>1, <2>2, OutcomeRefines DEF Pipeline!Next
  <2>3. CASE job'[j].outcome = job[j].outcome
    BY <2>1, <2>3 DEF Keeps, Alone
  <2> QED
    BY <2>2, <2>3
<1> QED
  BY <1>1, <1>2 DEF Next

(* Both engines implement the promise of the pipeline: each document is    *)
(* decided once, by the first rung of its ladder that does not pass it on. *)
THEOREM EnginesImplementFirstWins == Spec => FirstRungWins
BY InitRefines, NextRefines, Invariant, PTL DEF Spec, FirstRungWins, Pipeline!Spec
-----------------------------------------------------------------------------
(* The pages of a document: until the winner is known none was written and *)
(* the first is next; then those before the next one are there, and no     *)
(* others.                                                                 *)
Numbered(j) ==
  /\ job[j].pc \in {"idle", "walk", "load", "read", "collect"} => job[j].page = 1
  /\ job[j].pc \in {"write", "extracted"} =>
       LET kept == Kept_(j, job[j].outcome.rung)
           done == job[j].page - 1
       IN  /\ done \in 0..MaxPage /\ done <= Len(kept)
           /\ \A n \in 1..MaxPage : derived[j][n] = IF n <= done THEN kept[n].locator ELSE 0
           /\ job[j].pc = "extracted" => done = Len(kept)

PagesInv == \A j \in Jobs : Numbered(j)

(* What a step of the walk leaves as it was.                               *)
Walking == {"idle", "walk", "load", "read", "collect"}

LEMMA WalkPage ==
  ASSUME job \in [Jobs -> Job], NEW j \in Jobs,
         Begin(j) \/ Skip(j) \/ Enter(j) \/ Load(j) \/ Read(j) \/ Collect(j) \/ Exhaust(j)
  PROVE  /\ job[j].pc \in Walking /\ job'[j].page = job[j].page
         /\ UNCHANGED <<settings, doc, derived>>
         /\ job'[j].pc \in Walking \union {"write", "catalog_only", "raised"}
<1>1. \A n : PassOn(j) => job'[j].page = job[j].page /\ job'[j].pc = "walk"
  BY DEF PassOn, Job
<1>2. Raise(j) => job'[j].page = job[j].page /\ job'[j].pc = "raised"
  BY DEF Raise, Job
<1>3. \A pc : Continue(j, pc) => job'[j].page = job[j].page /\ job'[j].pc = pc
  BY DEF Continue, Job
<1>4. Emit(j) => job'[j].page = job[j].page /\ job'[j].pc \in {"write", "collect"}
  BY DEF Emit, Job
<1>5. CASE Begin(j)
  BY <1>3, <1>5 DEF Begin, Walking
<1>6. CASE Skip(j)
  BY <1>1, <1>6 DEF Skip, Walking
<1>7. CASE Enter(j)
  BY <1>2, <1>3, <1>7 DEF Enter, Walking
<1>8. CASE Load(j)
  BY <1>1, <1>2, <1>3, <1>8 DEF Load, Walking
<1>9. CASE Read(j)
  BY <1>1, <1>2, <1>4, <1>9 DEF Read, Walking
<1>10. CASE Collect(j)
  BY <1>10 DEF Collect, Walking, Job
<1>11. CASE Exhaust(j)
  BY <1>11 DEF Exhaust, Walking, Job
<1>12. QED BY <1>5, <1>6, <1>7, <1>8, <1>9, <1>10, <1>11

(* Until it is decided, nothing of a document is written.                  *)
LEMMA WalkNumbered ==
  ASSUME IInv, IInv', NEW j \in Jobs, Numbered(j),
         Begin(j) \/ Skip(j) \/ Enter(j) \/ Load(j) \/ Read(j) \/ Collect(j) \/ Exhaust(j)
  PROVE  Numbered(j)'
<1>1. /\ job[j].pc \in Walking /\ job'[j].page = job[j].page /\ derived' = derived
      /\ settings' = settings /\ doc' = doc
      /\ job'[j].pc \in Walking \union {"write", "catalog_only", "raised"}
  BY WalkPage DEF IInv
<1>2. job'[j].page = 1
  BY <1>1 DEF Numbered, Walking
<1>3. \A n \in 1..MaxPage : derived[j][n] = 0
  BY <1>1 DEF IInv, JobInv, Walks, Wrote, Walking, Undecided
<1> DEFINE kept == Kept_(j, job[j].outcome.rung)'
<1>4. Len(kept) \in Nat
  <2>1. Sequence(doc[j].pages)
    BY DocumentAssumption DEF IInv
  <2> DEFINE r == job'[j].outcome.rung
  <2>2. kept = Kept(settings, r, doc[j])
    BY <1>1 DEF Kept_
  <2> HIDE DEF r, kept
  <2>3. QED BY <2>1, <2>2, KeptFacts
<1> DEFINE done == job'[j].page - 1
<1>5. done = 0
  BY <1>2
<1>6. done \in 0..MaxPage /\ done <= Len(kept)
  BY <1>4, <1>5, MaxPageAssumption
<1>7. \A n \in 1..MaxPage : derived'[j][n] = IF n <= done THEN kept[n].locator ELSE 0
  BY <1>1, <1>3, <1>5
<1>8. job'[j].pc # "extracted"
  BY <1>1 DEF Walking
<1>9. QED BY <1>2, <1>6, <1>7, <1>8 DEF Numbered

(* The next page is written, under its number; or no key can carry it.     *)
LEMMA PutNumbered ==
  ASSUME IInv, NEW j \in Jobs, Numbered(j), PutPage(j)
  PROVE  Numbered(j)'
<1> DEFINE r == job[j].outcome.rung
           kept == Kept_(j, r)
           n == job[j].page
           size == Cardinality(Written(settings, r, doc[j]))
<1>1. /\ job \in [Jobs -> Job] /\ job[j].pc = "write" /\ n \in Nat
      /\ DOMAIN derived = Jobs /\ DOMAIN derived[j] = 1..MaxPage
  BY DEF IInv, JobInv, PutPage, Job
<1>2. /\ size \in Nat /\ DOMAIN kept = 1..size /\ Len(kept) = size
      /\ \A m \in 1..size : kept[m].number = m
  <2>1. Sequence(doc[j].pages)
    BY DocumentAssumption DEF IInv
  <2>2. QED BY <2>1, KeptFacts DEF Kept_
<1>3. /\ n - 1 \in 0..MaxPage /\ n - 1 <= size
      /\ \A m \in 1..MaxPage : derived[j][m] = IF m <= n - 1 THEN kept[m].locator ELSE 0
  BY <1>1, <1>2 DEF Numbered
<1>4. n \in 1..size /\ kept[n].number = n
  BY <1>2 DEF PutPage
<1>5. CASE ~(n <= MaxPage)
  <2>1. Continue(j, "raised")
    BY <1>4, <1>5 DEF PutPage
  <2>2. job'[j].pc = "raised"
    BY <1>1, <2>1 DEF Continue
  <2>3. QED BY <2>2 DEF Numbered
<1>6. CASE n <= MaxPage
  <2>1. /\ derived' = [derived EXCEPT ![j][n] = kept[n].locator]
        /\ job' = [job EXCEPT ![j].page = n + 1]
        /\ UNCHANGED <<settings, doc>>
    BY <1>4, <1>6 DEF PutPage
  <2> HIDE DEF n
  <2>2. job'[j].page = n + 1 /\ job'[j].pc = "write" /\ job'[j].outcome = job[j].outcome
    <3> DEFINE next == n + 1
    <3>1. job' = [job EXCEPT ![j].page = next]
      BY <2>1
    <3> HIDE DEF next
    <3>2. job'[j].page = next /\ job'[j].pc = "write" /\ job'[j].outcome = job[j].outcome
      BY <1>1, <3>1 DEF Job
    <3>3. QED BY <3>2 DEF next
  <2>3. Kept_(j, job[j].outcome.rung)' = kept
    BY <2>1, <2>2 DEF Kept_
  <2> HIDE DEF kept, size
  <2>4. \A m \in 1..MaxPage : derived'[j][m] = IF m = n THEN kept[n].locator ELSE derived[j][m]
    BY <1>1, <2>1
  <2>5. \A m \in 1..MaxPage : derived'[j][m] = IF m <= n THEN kept[m].locator ELSE 0
    <3> SUFFICES ASSUME NEW m \in 1..MaxPage
                 PROVE  derived'[j][m] = IF m <= n THEN kept[m].locator ELSE 0
      OBVIOUS
    <3>1. m <= n <=> m = n \/ m <= n - 1
      BY <1>1, MaxPageAssumption
    <3>2. m = n => ~(m <= n - 1)
      BY <1>1
    <3>3. QED BY <1>3, <2>4, <3>1, <3>2
  <2>6. n \in 0..MaxPage /\ n <= Len(kept)
    BY <1>1, <1>2, <1>4, <1>6, MaxPageAssumption
  <2>7. n + 1 - 1 = n
    BY <1>1
  <2>8. QED BY <2>2, <2>3, <2>5, <2>6, <2>7 DEF Numbered, kept
<1>7. QED BY <1>5, <1>6

(* All are written.                                                        *)
LEMMA FinishNumbered ==
  ASSUME IInv, NEW j \in Jobs, Numbered(j), Finish(j)
  PROVE  Numbered(j)'
<1> DEFINE r == job[j].outcome.rung
           kept == Kept_(j, r)
           n == job[j].page
           size == Cardinality(Written(settings, r, doc[j]))
<1>1. /\ job \in [Jobs -> Job] /\ job[j].pc = "write" /\ n \in Nat /\ n \notin DOMAIN kept
      /\ UNCHANGED <<settings, doc, derived>> /\ Continue(j, "extracted")
  BY DEF IInv, Finish, Job
<1>2. size \in Nat /\ DOMAIN kept = 1..size /\ Len(kept) = size
  <2>1. Sequence(doc[j].pages)
    BY DocumentAssumption DEF IInv
  <2>2. QED BY <2>1, KeptFacts DEF Kept_
<1>3. job'[j].pc = "extracted" /\ job'[j].page = n /\ job'[j].outcome = job[j].outcome
  BY <1>1 DEF Continue, Job
<1>4. Kept_(j, job[j].outcome.rung)' = kept
  BY <1>1, <1>3 DEF Kept_
<1>5. /\ n - 1 \in 0..MaxPage /\ n - 1 <= size
      /\ \A m \in 1..MaxPage : derived[j][m] = IF m <= n - 1 THEN kept[m].locator ELSE 0
  BY <1>1, <1>2 DEF Numbered
<1> HIDE DEF kept, size
<1>6. n - 1 = size
  <2>1. n \notin 1..size /\ n >= 1
    BY <1>1, <1>2, <1>5
  <2>2. QED BY <1>1, <1>2, <1>5, <2>1
<1>7. QED BY <1>1, <1>2, <1>3, <1>4, <1>5, <1>6 DEF Numbered, kept

(* Every step keeps the pages in order.                                    *)
LEMMA NextPages == IInv /\ PagesInv /\ [Next]_vars => PagesInv'
<1> SUFFICES ASSUME IInv, PagesInv, [Next]_vars PROVE PagesInv'
  OBVIOUS
<1>1. IInv'
  BY NextInv
<1>2. CASE UNCHANGED vars
  BY <1>2 DEF vars, PagesInv, Numbered, Kept_
<1>3. ASSUME NEW j \in Jobs, JobStep(j) PROVE PagesInv'
  <2>1. Alone(j)
    BY <1>3, StepKeeps DEF Keeps
  <2>2. ASSUME NEW i \in Jobs, i # j PROVE Numbered(i)'
    <3>1. /\ Numbered(i) /\ job'[i] = job[i] /\ derived'[i] = derived[i]
          /\ settings' = settings /\ doc' = doc
      BY <2>1, <2>2 DEF Alone, PagesInv
    <3>2. Kept_(i, job[i].outcome.rung)' = Kept_(i, job[i].outcome.rung)
      BY <3>1 DEF Kept_
    <3>3. QED BY <3>1, <3>2 DEF Numbered
  <2>3. Numbered(j)
    BY DEF PagesInv
  <2>4. Numbered(j)'
    BY <1>1, <1>3, <2>3, WalkNumbered, PutNumbered, FinishNumbered DEF JobStep
  <2>5. QED BY <2>2, <2>4 DEF PagesInv
<1>4. QED BY <1>2, <1>3 DEF Next

(* PagesWithoutGaps: an extracted document has the pages 1 to n and no     *)
(* others, in the order of the source, and each page of the source its     *)
(* rung found anything on.                                                 *)
THEOREM NoPageMissing == Spec => []PagesWithoutGaps
<1>1. Init => PagesInv
  BY DEF Init, PagesInv, Numbered
<1>2. IInv /\ PagesInv => PagesWithoutGaps
  <2> SUFFICES ASSUME IInv, PagesInv, NEW j \in Jobs, job[j].pc = "extracted"
               PROVE  LET r == job[j].outcome.rung
                          count == Len(Kept_(j, r)) IN
                      /\ \A n \in 1..MaxPage : derived[j][n] # 0 <=> n <= count
                      /\ \A m, n \in 1..count : m < n => derived[j][m] < derived[j][n]
                      /\ \A i \in DOMAIN doc[j].pages :
                           Blank(Reads(settings, r, doc[j].pages[i]))
                             \/ \E n \in 1..count : derived[j][n] = i
    BY DEF PagesWithoutGaps
  <2> DEFINE r == job[j].outcome.rung
             kept == Kept_(j, r)
             count == Len(kept)
             written == Written(settings, r, doc[j])
  <2>1. /\ count \in Nat
        /\ \A n \in 1..count : kept[n].locator \in Nat \ {0}
        /\ \A m, n \in 1..count : m < n => kept[m].locator < kept[n].locator
        /\ \A i \in written : \E n \in 1..count : kept[n].locator = i
    <3>1. Sequence(doc[j].pages)
      BY DocumentAssumption DEF IInv
    <3>2. QED BY <3>1, KeptFacts DEF Kept_
  <2>2. /\ count <= MaxPage
        /\ \A n \in 1..MaxPage : derived[j][n] = IF n <= count THEN kept[n].locator ELSE 0
    <3>1. Numbered(j)
      BY DEF PagesInv
    <3>2. QED BY <3>1, <2>1, MaxPageAssumption DEF Numbered
  <2> HIDE DEF kept, count
  <2>3. \A n \in 1..count : n \in 1..MaxPage /\ n <= count
    BY <2>1, <2>2, MaxPageAssumption
  <2>4. \A n \in 1..count : derived[j][n] = kept[n].locator
    BY <2>2, <2>3
  <2>5. \A n \in 1..MaxPage : derived[j][n] # 0 <=> n <= count
    <3> SUFFICES ASSUME NEW n \in 1..MaxPage PROVE derived[j][n] # 0 <=> n <= count
      OBVIOUS
    <3>1. CASE n <= count
      <4>1. n \in 1..count
        BY <2>1, <3>1, MaxPageAssumption
      <4>2. QED BY <2>1, <2>4, <3>1, <4>1
    <3>2. CASE ~(n <= count)
      BY <2>2, <3>2
    <3>3. QED BY <3>1, <3>2
  <2>6. \A i \in DOMAIN doc[j].pages :
          Blank(Reads(settings, r, doc[j].pages[i])) \/ i \in written
    BY DEF Written
  <2> HIDE DEF written
  <2>7. \A i \in written : \E n \in 1..count : derived[j][n] = i
    BY <2>1, <2>4
  <2>8. \A m, n \in 1..count : m < n => derived[j][m] < derived[j][n]
    BY <2>1, <2>4
  <2>9. QED BY <2>5, <2>6, <2>7, <2>8 DEF count, kept
<1>3. QED BY <1>1, <1>2, InitInv, NextInv, NextPages, PTL DEF Spec

-----------------------------------------------------------------------------
(* The entries of a sequence at some places are those at these places.     *)
LEMMA EntriesFacts ==
  ASSUME NEW s, Sequence(s), NEW K \in SUBSET DOMAIN s
  PROVE  ToSet(Entries(s, K)) = {s[i] : i \in K}
<1> DEFINE size == Cardinality(K)
           at == InOrder[K]
<1>1. K \in SUBSET Nat /\ IsFiniteSet(K)
  <2>1. DOMAIN s = 1..Len(s) /\ Len(s) \in Nat
    BY LenProperties DEF Sequence
  <2>2. IsFiniteSet(DOMAIN s)
    BY <2>1, FS_Interval
  <2>3. QED BY <2>1, <2>2, FS_Subset
<1>2. at \in [1..size -> K] /\ \A i \in K : \E n \in 1..size : at[n] = i
  BY <1>1, InOrderFacts
<1>3. Entries(s, K) = [n \in 1..size |-> s[at[n]]]
  BY DEF Entries
<1> HIDE DEF size, at
<1>4. ToSet(Entries(s, K)) = {s[at[n]] : n \in 1..size}
  BY <1>3 DEF ToSet
<1>5. {s[at[n]] : n \in 1..size} = {s[i] : i \in K}
  BY <1>2
<1>6. QED BY <1>4, <1>5

(* The largest of finitely many numbers.                                   *)
LEMMA MaxFacts ==
  ASSUME NEW S \in SUBSET Nat, IsFiniteSet(S), S # {}
  PROVE  Max(S) \in S /\ \A k \in S : k <= Max(S)
<1>1. \E m \in S : \A k \in S : k <= m
  BY LeastAndLast
<1>2. \E m \in S : \A k \in S : m >= k
  BY <1>1
<1>3. Max(S) \in S /\ \A k \in S : Max(S) >= k
  BY <1>2 DEF Max
<1>4. QED BY <1>3

(* A grid holds the words of the cells it is drawn from, each.             *)
LEMMA GridFacts ==
  ASSUME NEW cells, IsFiniteSet(cells), cells # {},
         \A c \in cells : c.row \in Nat \ {0} /\ c.col \in Nat \ {0}
  PROVE  UNION UNION {Range(row) : row \in Range(Grid(cells))} = CellWords(cells)
<1> DEFINE rows == {c.row : c \in cells}
           cols == {c.col : c \in cells}
           in(r, k) == {x \in cells : x.row = r /\ x.col = k}
           words(r, k) == UNION {ToSet(c.words) : c \in in(r, k)}
           R == 1..Max(rows)
           C == 1..Max(cols)
<1>1. \A c \in cells : c.row \in R /\ c.col \in C
  <2>1. rows \in SUBSET Nat /\ rows # {} /\ IsFiniteSet(rows)
    <3> DEFINE f == [c \in cells |-> c.row]
    <3>1. rows = {f[c] : c \in cells}
      OBVIOUS
    <3>2. f \in [cells -> {f[c] : c \in cells}]
      OBVIOUS
    <3> HIDE DEF f
    <3>3. IsFiniteSet({f[c] : c \in cells})
      BY <3>2, ImageFacts
    <3>4. QED BY <3>1, <3>3
  <2>2. cols \in SUBSET Nat /\ cols # {} /\ IsFiniteSet(cols)
    <3> DEFINE f == [c \in cells |-> c.col]
    <3>1. cols = {f[c] : c \in cells}
      OBVIOUS
    <3>2. f \in [cells -> {f[c] : c \in cells}]
      OBVIOUS
    <3> HIDE DEF f
    <3>3. IsFiniteSet({f[c] : c \in cells})
      BY <3>2, ImageFacts
    <3>4. QED BY <3>1, <3>3
  <2> HIDE DEF rows, cols
  <2>3. Max(rows) \in Nat /\ \A k \in rows : k <= Max(rows)
    BY <2>1, MaxFacts
  <2>4. Max(cols) \in Nat /\ \A k \in cols : k <= Max(cols)
    BY <2>2, MaxFacts
  <2>5. QED BY <2>3, <2>4 DEF rows, cols
<1>2. Grid(cells) = [r \in R |-> [k \in C |-> words(r, k)]]
  BY DEF Grid
<1> HIDE DEF R, C
<1>3. {Range(row) : row \in Range(Grid(cells))} = {{words(r, k) : k \in C} : r \in R}
  <2> DEFINE line(r) == [k \in C |-> words(r, k)]
             all(r) == {words(r, k) : k \in C}
  <2>1. Range(Grid(cells)) = {line(r) : r \in R}
    BY <1>2 DEF Range
  <2>2. \A r \in R : Range(line(r)) = all(r)
    BY DEF Range
  <2> HIDE DEF line, all
  <2>3. {Range(row) : row \in {line(r) : r \in R}} = {all(r) : r \in R}
    BY <2>2
  <2>4. QED BY <2>1, <2>3 DEF all
<1>4. UNION UNION {{words(r, k) : k \in C} : r \in R} = CellWords(cells)
  <2>1. ASSUME NEW r \in R, NEW k \in C PROVE words(r, k) \subseteq CellWords(cells)
    BY DEF CellWords
  <2>2. ASSUME NEW c \in cells
        PROVE  ToSet(c.words) \subseteq words(c.row, c.col) /\ c.row \in R /\ c.col \in C
    BY <1>1
  <2> HIDE DEF words
  <2>3. UNION UNION {{words(r, k) : k \in C} : r \in R} \subseteq CellWords(cells)
    BY <2>1
  <2>4. CellWords(cells) \subseteq UNION UNION {{words(r, k) : k \in C} : r \in R}
    <3> SUFFICES ASSUME NEW c \in cells, NEW w \in ToSet(c.words)
                 PROVE  w \in UNION UNION {{words(r, k) : k \in C} : r \in R}
      BY DEF CellWords
    <3>1. w \in words(c.row, c.col) /\ words(c.row, c.col) \in {words(c.row, k) : k \in C}
      BY <2>2
    <3>2. {words(c.row, k) : k \in C} \in {{words(r, k) : k \in C} : r \in R}
      BY <2>2
    <3>3. QED BY <3>1, <3>2
  <2>5. QED BY <2>3, <2>4
<1>5. QED BY <1>3, <1>4

(* What a table's words are on the page, they are in its grid.             *)
LEMMA GridsFacts ==
  ASSUME NEW tables, Sequence(tables),
         \A cells \in ToSet(tables) :
           IsFiniteSet(cells) /\ \A c \in cells : c.row \in Nat \ {0} /\ c.col \in Nat \ {0}
  PROVE  GridWords(Grids(tables)) = TableWords(tables)
<1> DEFINE K == {i \in DOMAIN tables : tables[i] # {}}
           drawn == Entries(tables, K)
<1>1. ToSet(drawn) = {tables[i] : i \in K}
  BY EntriesFacts
<1>2. Grids(tables) = [i \in DOMAIN drawn |-> Grid(drawn[i])]
  BY DEF Grids
<1> HIDE DEF drawn
<1>3. Range(Grids(tables)) = {Grid(t) : t \in ToSet(drawn)}
  BY <1>2 DEF Range, ToSet
<1>4. Range(Grids(tables)) = {Grid(tables[i]) : i \in K}
  BY <1>1, <1>3
<1> DEFINE found(g) == UNION UNION {Range(row) : row \in Range(g)}
<1>5. \A i \in K : found(Grid(tables[i])) = CellWords(tables[i])
  <2> SUFFICES ASSUME NEW i \in K PROVE found(Grid(tables[i])) = CellWords(tables[i])
    OBVIOUS
  <2>1. tables[i] \in ToSet(tables) /\ tables[i] # {}
    BY DEF ToSet
  <2>2. QED BY <2>1, GridFacts
<1>6. GridWords(Grids(tables)) = UNION {found(g) : g \in Range(Grids(tables))}
  <2> DEFINE G == Range(Grids(tables))
             of(g) == {Range(row) : row \in Range(g)}
  <2> HIDE DEF of, G
  <2>1. UNION UNION UNION {of(g) : g \in G} = UNION {UNION UNION of(g) : g \in G}
    OBVIOUS
  <2>2. QED BY <2>1 DEF GridWords, of, G
<1> HIDE DEF found
<1>7. UNION {found(g) : g \in Range(Grids(tables))} = UNION {CellWords(tables[i]) : i \in K}
  BY <1>4, <1>5
<1>8. UNION {CellWords(tables[i]) : i \in K} = TableWords(tables)
  <2>1. \A i \in DOMAIN tables : i \notin K => CellWords(tables[i]) = {}
    BY DEF CellWords
  <2>2. QED BY <2>1 DEF TableWords
<1>9. QED BY <1>6, <1>7, <1>8

(* Leaving out lines that are in a table loses nothing, repeats nothing.   *)
LEMMA AnalyzeFacts ==
  ASSUME NEW p, PageAssumed(p), NEW features
  PROVE  LET md == AnalyzeMarkdown(p, features)
         IN  /\ LineWords(p.lines) \subseteq WordsOf(md)
             /\ \A line \in ToSet(md.body) : ~(ToSet(line) \subseteq GridWords(md.tables))
<1> DEFINE md == AnalyzeMarkdown(p, features)
           tables == IF "TABLES" \in features THEN p.tables ELSE <<>>
           K == {i \in DOMAIN p.lines : ~InTablesOnly(p.lines[i], tables)}
<1>1. GridWords(Grids(tables)) = TableWords(tables)
  <2>1. Sequence(tables)
    <3>1. Sequence(<<>>)
      BY DEF Sequence, ToSet
    <3>2. QED BY <3>1 DEF PageAssumed
  <2>2. \A cells \in ToSet(tables) :
           IsFiniteSet(cells) /\ \A c \in cells : c.row \in Nat \ {0} /\ c.col \in Nat \ {0}
    <3>1. ToSet(<<>>) = {}
      BY DEF ToSet
    <3>2. QED BY <3>1 DEF PageAssumed
  <2> HIDE DEF tables
  <2>3. QED BY <2>1, <2>2, GridsFacts
<1>2. md.body = Entries(p.lines, K) /\ md.tables = Grids(tables)
  BY DEF AnalyzeMarkdown, Markdown
<1>3. ToSet(md.body) = {p.lines[i] : i \in K}
  <2>1. Sequence(p.lines) /\ K \in SUBSET DOMAIN p.lines
    BY DEF PageAssumed
  <2> HIDE DEF K, md
  <2>2. QED BY <1>2, <2>1, EntriesFacts
<1> HIDE DEF tables, md
<1>4. ASSUME NEW i \in K PROVE ~(ToSet(p.lines[i]) \subseteq GridWords(md.tables))
  <2>1. p.lines[i] # <<>>
    BY DEF PageAssumed, ToSet
  <2>2. QED BY <1>1, <1>2, <2>1 DEF InTablesOnly
<1>5. ASSUME NEW i \in DOMAIN p.lines PROVE ToSet(p.lines[i]) \subseteq WordsOf(md)
  <2>1. CASE i \in K
    <3>1. LineWords(md.body) = UNION {ToSet(line) : line \in ToSet(md.body)}
      BY DEF LineWords, ToSet
    <3>2. p.lines[i] \in ToSet(md.body)
      BY <1>3, <2>1
    <3>3. ToSet(p.lines[i]) \subseteq LineWords(md.body)
      BY <3>1, <3>2
    <3>4. QED BY <3>3 DEF WordsOf
  <2>2. CASE i \notin K
    BY <1>1, <1>2, <2>2 DEF InTablesOnly, WordsOf
  <2>3. QED BY <2>1, <2>2
<1>6. LineWords(p.lines) \subseteq WordsOf(md)
  BY <1>5 DEF LineWords
<1>7. QED BY <1>3, <1>4, <1>6 DEF md

(* TableTextMoves: no word of a page is lost to its tables, and no line    *)
(* that lies wholly in a table is repeated in the body, for any pages,     *)
(* tables and features.                                                    *)
THEOREM TablesKeepText == Spec => []TableTextMoves
<1>1. IInv => TableTextMoves
  <2> DEFINE r == "textract_analyze"
  <2> SUFFICES ASSUME IInv, NEW j \in Jobs, NEW k \in DOMAIN Kept_(j, r)
               PROVE  LET md == Kept_(j, r)[k].markdown
                          lines == doc[j].pages[Kept_(j, r)[k].locator].lines
                      IN  /\ LineWords(lines) \subseteq WordsOf(md)
                          /\ \A line \in ToSet(md.body) : ~(ToSet(line) \subseteq GridWords(md.tables))
    BY DEF TableTextMoves
  <2> DEFINE i == Kept_(j, r)[k].locator
             p == doc[j].pages[i]
  <2>1. Sequence(doc[j].pages) /\ \A n \in DOMAIN doc[j].pages : PageAssumed(doc[j].pages[n])
    BY DocumentAssumption DEF IInv
  <2>2. /\ i \in Written(settings, r, doc[j])
        /\ Kept_(j, r)[k].markdown = Reads(settings, r, doc[j].pages[i])
    BY <2>1, KeptFacts DEF Kept_
  <2> HIDE DEF i
  <2>3. PageAssumed(p)
    BY <2>1, <2>2 DEF Written
  <2>4. Reads(settings, r, p) = AnalyzeMarkdown(p, settings.features)
    BY DEF Reads
  <2>5. QED BY <2>2, <2>3, <2>4, AnalyzeFacts DEF i
<1>2. QED BY <1>1, Invariant, PTL
=============================================================================
