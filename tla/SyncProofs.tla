----------------------------- MODULE SyncProofs -----------------------------
(***************************************************************************)
(* Theorems about SyncEngine: types; that a version lags behind the bytes  *)
(* it is stored with and never runs ahead of them; and that a checkpoint   *)
(* covers every change up to it, whatever the source does while a run is   *)
(* under way and wherever a run dies.                                      *)
(***************************************************************************)
EXTENDS SyncEngine, TLAPS

(* n is the last position of the source's change feed.                     *)
IsClock(n) == /\ \A p \in Paths : changed[p] <= n
              /\ n = 0 \/ \E p \in Paths : changed[p] = n

(* The feed has a last position, and no cursor is ahead of it.             *)
FeedInv ==
  /\ \E n \in 0..MaxChanges : IsClock(n)
  /\ checkpoint <= Clock
  /\ \A r \in Runs : run[r].cursor <= Clock

(* What exists, or is being worked on, appeared in the feed.               *)
Appeared ==
  \A p \in Paths :
    /\ source[p] # Nothing \/ docs[p] # Nothing => changed[p] > 0
    /\ \A r \in Runs : run[r].task[p].pc # "none" => changed[p] > 0

(* What is put was fetched.                                                *)
Fetched ==
  \A r \in Runs, p \in Paths :
    run[r].task[p].pc = "put" => run[r].task[p].bytes \in Contents

(* Only incremental runs have a checkpoint.                                *)
Incremental ==
  /\ \A r \in Runs : run[r].pc = "checkpoint" => deployment.incremental
  /\ ~deployment.incremental => checkpoint = 0

BaseInv == TypeOK /\ FeedInv /\ Appeared /\ Fetched /\ Incremental

(* A version, of a document or of an item under work, is one the source    *)
(* had; and if it is the one the source still has, the bytes are, too.     *)
Lags(p, version, bytes) ==
  /\ version \in Nat /\ version <= changed[p]
  /\ version = changed[p] => bytes = source[p]

VersionInv ==
  \A p \in Paths :
    /\ docs[p] # Nothing => Lags(p, docs[p].version, docs[p].checksum)
    /\ \A r \in Runs :
         /\ run[r].task[p].pc # "none" => run[r].task[p].version \in Nat
                                          /\ run[r].task[p].version <= changed[p]
         /\ run[r].task[p].pc = "put" =>
              Lags(p, run[r].task[p].version, run[r].task[p].bytes)

(* What the next incremental run passes over is in step, at any time.      *)
Covered == \A p \in Paths : changed[p] <= checkpoint => InStep(p)

(* The states an item that changed up to the cursor goes through.          *)
Settled(r, p) ==
  run[r].task[p].pc = "none" /\ p \notin run[r].doomed /\ InStep(p)
ToDelete(r, p) ==
  run[r].task[p].pc = "none" /\ p \in run[r].doomed /\ source[p] = Nothing
ToWrite(r, p) ==
  /\ run[r].task[p].pc # "none" /\ p \notin run[r].doomed /\ source[p] # Nothing
  /\ run[r].task[p].version = changed[p]
  /\ run[r].task[p].pc = "fetch" => run[r].task[p].existing = docs[p]
  /\ run[r].task[p].pc = "put" => run[r].task[p].bytes = source[p]

(* A run that knows what changed: nothing it works on is covered yet, and  *)
(* everything up to its cursor is in step or still to be worked on.        *)
Working(r) == run[r].pc \in {"items", "delete", "checkpoint"}
RunCovers(r) ==
  /\ run[r].pc # "list"
  /\ run[r].pc = "changes" => run[r].cursor = checkpoint
  /\ run[r].pc = "checkpoint" => run[r].doomed = {}
  /\ Working(r) => run[r].cursor >= checkpoint
  /\ \A p \in Paths :
       /\ run[r].task[p].pc # "none" => run[r].pc = "items"
       /\ Working(r) =>
            /\ run[r].task[p].pc # "none" \/ p \in run[r].doomed
                 => changed[p] > checkpoint
            /\ changed[p] <= run[r].cursor
                 => Settled(r, p) \/ ToDelete(r, p) \/ ToWrite(r, p)

(* The deployments the checkpoint is sound for: change tokens of their own *)
(* for each change, one crawler at a time, no failing call.                *)
Alone ==
  /\ deployment.incremental /\ ~deployment.contentVersions
  /\ deployment.failures = 0
  /\ \A r, s \in deployment.crawlers : r = s

CoverInv == Covered /\ \A r \in deployment.crawlers : RunCovers(r)

SyncInv ==
  /\ BaseInv
  /\ ~deployment.contentVersions => VersionInv
  /\ Alone => CoverInv

-----------------------------------------------------------------------------
(* How a step changes a run.                                               *)

(* One item of one run moves on, and nothing else of the runs.             *)
TaskSet(r, p, t) ==
  /\ run' \in [Runs -> RunState]
  /\ \A s \in Runs : /\ run'[s].pc = run[s].pc /\ run'[s].cursor = run[s].cursor
                     /\ run'[s].doomed = run[s].doomed
  /\ \A s \in Runs, q \in Paths :
       run'[s].task[q] = IF s = r /\ q = p THEN t ELSE run[s].task[q]

LEMMA TaskSetFacts ==
  ASSUME TypeOK, NEW r \in Runs, NEW p \in Paths, NEW t \in Task,
         run' = [run EXCEPT ![r].task[p] = t]
  PROVE  TaskSet(r, p, t)
<1>1. run \in [Runs -> RunState]
  BY DEF TypeOK
<1> DEFINE w == [run[r] EXCEPT !.task = [run[r].task EXCEPT ![p] = t]]
<1>2. run' = [run EXCEPT ![r] = w]
  OBVIOUS
<1>3. run[r] \in RunState
  BY <1>1
<1>4. [run[r].task EXCEPT ![p] = t] \in [Paths -> Task]
  BY <1>3 DEF RunState
<1>5. w \in RunState
  BY <1>3, <1>4 DEF RunState
<1>6. run[r].task \in [Paths -> Task]
  BY <1>3 DEF RunState
<1>7. w.task = [run[r].task EXCEPT ![p] = t] /\ w.pc = run[r].pc
      /\ w.cursor = run[r].cursor /\ w.doomed = run[r].doomed
  BY <1>3 DEF RunState
<1>8. \A q \in Paths : w.task[q] = IF q = p THEN t ELSE run[r].task[q]
  BY <1>6, <1>7
<1> HIDE DEF w
<1>9. run' \in [Runs -> RunState]
  BY <1>1, <1>2, <1>5
<1>10. \A s \in Runs : run'[s] = IF s = r THEN w ELSE run[s]
  BY <1>1, <1>2
<1>11. QED BY <1>7, <1>8, <1>9, <1>10 DEF TaskSet

(* One run is in another state, and nothing else of the runs.              *)
LEMMA RunSetFacts ==
  ASSUME TypeOK, NEW r \in Runs, NEW v \in RunState, run' = [run EXCEPT ![r] = v]
  PROVE  /\ run' \in [Runs -> RunState]
         /\ \A s \in Runs : run'[s] = IF s = r THEN v ELSE run[s]
BY DEF TypeOK

(* No item, and no run.                                                    *)
LEMMA NoneFacts ==
  /\ NoTask \in Task /\ NoRun \in RunState
  /\ NoRun.pc = "idle" /\ NoRun.cursor = 0 /\ NoRun.doomed = {}
  /\ \A p \in Paths : NoRun.task[p] = NoTask
<1>1. NoTask \in Task
  BY DEF NoTask, Task, Versions
<1>2. 0 \in 0..MaxChanges
  BY BoundAssumption
<1>3. [p \in Paths |-> NoTask] \in [Paths -> Task]
  BY <1>1
<1>4. NoRun \in RunState
  BY <1>2, <1>3 DEF NoRun, RunState
<1>5. QED BY <1>1, <1>4 DEF NoRun

(* While the feed has a last position, Clock is that position.             *)
LEMMA ClockFacts ==
  ASSUME \E n \in 0..MaxChanges : IsClock(n)
  PROVE  Clock \in 0..MaxChanges /\ IsClock(Clock)
BY DEF Clock, IsClock

(* It is the only one.                                                     *)
LEMMA ClockUnique ==
  ASSUME TypeOK, NEW n \in 0..MaxChanges, IsClock(n)
  PROVE  Clock = n
<1>1. Clock \in 0..MaxChanges /\ IsClock(Clock)
  BY ClockFacts
<1>2. \A p \in Paths : changed[p] \in 0..MaxChanges
  BY DEF TypeOK
<1>3. Clock <= n
  BY <1>1, <1>2 DEF IsClock
<1>4. n <= Clock
  BY <1>1, <1>2 DEF IsClock
<1>5. QED BY <1>1, <1>3, <1>4

-----------------------------------------------------------------------------
(* The items.                                                              *)

(* What an action on an item does to it (t) and to the document (d): it is *)
(* to be fetched, or to be put; or it is done, because it was put, because *)
(* nothing was to be done, or because a call failed.                       *)
Put(r, p) == [checksum |-> run[r].task[p].bytes, version |-> run[r].task[p].version]
Skips(r, p) ==
  \/ run[r].task[p].pc = "queued" /\ docs[p] # Nothing
     /\ docs[p].version = run[r].task[p].version
  \/ run[r].task[p].pc = "fetch" /\ source[p] = Nothing
  \/ run[r].task[p].pc = "fetch" /\ run[r].task[p].existing # Nothing
     /\ run[r].task[p].existing.checksum = source[p]
Outcome(r, p, t, d) ==
  \/ /\ run[r].task[p].pc = "queued" /\ d = docs[p]
     /\ t = [run[r].task[p] EXCEPT !.pc = "fetch", !.existing = docs[p]]
  \/ /\ run[r].task[p].pc = "fetch" /\ d = docs[p] /\ source[p] # Nothing
     /\ t = [run[r].task[p] EXCEPT !.pc = "put", !.bytes = source[p]]
  \/ run[r].task[p].pc = "put" /\ d = Put(r, p) /\ t = NoTask
  \/ /\ run[r].task[p].pc # "none" /\ d = docs[p] /\ t = NoTask
     /\ failures < deployment.failures \/ Skips(r, p)

ItemMoves(r, p, t, d) ==
  /\ Outcome(r, p, t, d)
  /\ t \in Task /\ d \in Doc \union {Nothing}
  /\ TaskSet(r, p, t)
  /\ docs' = [docs EXCEPT ![p] = d]
  /\ failures' \in 0..MaxFailures
  /\ UNCHANGED <<deployment, source, changed, checkpoint, crashes>>

(* The types an item's action reads.                                       *)
LEMMA ItemTypes ==
  ASSUME TypeOK, Fetched, NEW r \in Runs, NEW p \in Paths
  PROVE  /\ run[r] \in RunState /\ run[r].task[p] \in Task
         /\ docs[p] \in Doc \union {Nothing} /\ docs = [docs EXCEPT ![p] = docs[p]]
         /\ source[p] \in Contents \union {Nothing}
         /\ [run[r].task[p] EXCEPT !.pc = "fetch", !.existing = docs[p]] \in Task
         /\ source[p] # Nothing =>
              [run[r].task[p] EXCEPT !.pc = "put", !.bytes = source[p]] \in Task
         /\ run[r].task[p].pc = "put" => Put(r, p) \in Doc
         /\ failures \in 0..MaxFailures /\ deployment.failures \in 0..MaxFailures
<1>1. run[r] \in RunState /\ run[r].task[p] \in Task
  BY DEF TypeOK, RunState
<1>2. docs[p] \in Doc \union {Nothing} /\ docs = [docs EXCEPT ![p] = docs[p]]
      /\ source[p] \in Contents \union {Nothing}
  BY DEF TypeOK
<1>3. [run[r].task[p] EXCEPT !.pc = "fetch", !.existing = docs[p]] \in Task
  BY <1>1, <1>2 DEF Task
<1>4. source[p] # Nothing =>
        [run[r].task[p] EXCEPT !.pc = "put", !.bytes = source[p]] \in Task
  BY <1>1, <1>2 DEF Task
<1>5. run[r].task[p].pc = "put" => Put(r, p) \in Doc
  <2>1. run[r].task[p].version \in Versions
    BY <1>1 DEF Task
  <2>2. run[r].task[p].pc = "put" => run[r].task[p].bytes \in Contents
    BY DEF Fetched
  <2>3. QED BY <2>1, <2>2 DEF Put, Doc
<1>6. failures \in 0..MaxFailures /\ deployment.failures \in 0..MaxFailures
  BY DeploymentAssumption DEF TypeOK, Deployment
<1>7. QED BY <1>1, <1>2, <1>3, <1>4, <1>5, <1>6

(* Every action on an item has one of the outcomes.                        *)
LEMMA ItemMoving ==
  ASSUME TypeOK, Fetched, NEW r \in Runs, NEW p \in Paths,
         ItemStat(r, p) \/ ItemFetch(r, p) \/ ItemPut(r, p) \/ ItemFail(r, p)
  PROVE  \E t, d : ItemMoves(r, p, t, d)
<1> DEFINE task == run[r].task[p]
           fetching == [task EXCEPT !.pc = "fetch", !.existing = docs[p]]
           putting == [task EXCEPT !.pc = "put", !.bytes = source[p]]
<1>1. /\ run[r] \in RunState /\ task \in Task
      /\ docs[p] \in Doc \union {Nothing} /\ docs = [docs EXCEPT ![p] = docs[p]]
      /\ fetching \in Task
      /\ source[p] # Nothing => putting \in Task
      /\ task.pc = "put" => Put(r, p) \in Doc
      /\ failures \in 0..MaxFailures /\ deployment.failures \in 0..MaxFailures
  BY ItemTypes
<1>2. TaskDone(r, p) => TaskSet(r, p, NoTask)
  BY NoneFacts, TaskSetFacts DEF TaskDone
<1>3. run' = [run EXCEPT ![r].task[p] = fetching] => TaskSet(r, p, fetching)
  BY <1>1, TaskSetFacts
<1>4. source[p] # Nothing /\ run' = [run EXCEPT ![r].task[p] = putting]
        => TaskSet(r, p, putting)
  BY <1>1, TaskSetFacts
<1>5. CASE ItemStat(r, p)
  <2>1. CASE docs[p] # Nothing /\ docs[p].version = task.version
    <3>1. ItemMoves(r, p, NoTask, docs[p])
      BY <1>1, <1>2, <1>5, <2>1, NoneFacts DEF ItemStat, ItemMoves, Outcome, Skips
    <3>2. QED BY <3>1
  <2>2. CASE ~(docs[p] # Nothing /\ docs[p].version = task.version)
    <3>1. run' = [run EXCEPT ![r].task[p] = fetching]
      BY <1>5, <2>2 DEF ItemStat
    <3>2. ItemMoves(r, p, fetching, docs[p])
      BY <1>1, <1>3, <1>5, <3>1 DEF ItemStat, ItemMoves, Outcome
    <3>3. QED BY <3>2
  <2>3. QED BY <2>1, <2>2
<1>6. CASE ItemFetch(r, p)
  <2>1. CASE source[p] = Nothing \/ (task.existing # Nothing
                                     /\ task.existing.checksum = source[p])
    <3>1. ItemMoves(r, p, NoTask, docs[p])
      BY <1>1, <1>2, <1>6, <2>1, NoneFacts DEF ItemFetch, ItemMoves, Outcome, Skips
    <3>2. QED BY <3>1
  <2>2. CASE ~(source[p] = Nothing \/ (task.existing # Nothing
                                       /\ task.existing.checksum = source[p]))
    <3>1. run' = [run EXCEPT ![r].task[p] = putting]
      BY <1>6, <2>2 DEF ItemFetch
    <3>2. ItemMoves(r, p, putting, docs[p])
      BY <1>1, <1>4, <1>6, <2>2, <3>1 DEF ItemFetch, ItemMoves, Outcome
    <3>3. QED BY <3>2
  <2>3. QED BY <2>1, <2>2
<1>7. CASE ItemPut(r, p)
  <2>1. ItemMoves(r, p, NoTask, Put(r, p))
    BY <1>1, <1>2, <1>7, NoneFacts DEF ItemPut, ItemMoves, Outcome, Put
  <2>2. QED BY <2>1
<1>8. CASE ItemFail(r, p)
  <2>1. failures < deployment.failures /\ failures' \in 0..MaxFailures
    BY <1>1, <1>8, BoundAssumption DEF ItemFail, Failing
  <2>2. CASE UNCHANGED docs
    <3>1. ItemMoves(r, p, NoTask, docs[p])
      BY <1>1, <1>2, <1>8, <2>1, <2>2, NoneFacts DEF ItemFail, ItemMoves, Outcome
    <3>2. QED BY <3>1
  <2>3. CASE task.pc = "put" /\ docs' = [docs EXCEPT ![p] = Put(r, p)]
    <3>1. ItemMoves(r, p, NoTask, Put(r, p))
      BY <1>1, <1>2, <1>8, <2>1, <2>3, NoneFacts DEF ItemFail, ItemMoves, Outcome
    <3>2. QED BY <3>1
  <2>4. QED BY <1>8, <2>2, <2>3 DEF ItemFail, Put
<1>9. QED BY <1>5, <1>6, <1>7, <1>8

(* An item moving on keeps the types and what they rest on.                *)
LEMMA ItemKeepsBase ==
  ASSUME BaseInv, NEW r \in Runs, NEW p \in Paths, NEW t, NEW d,
         ItemMoves(r, p, t, d)
  PROVE  BaseInv'
<1>1. TypeOK /\ FeedInv /\ Appeared /\ Fetched /\ Incremental
  BY DEF BaseInv
<1>2. /\ run' \in [Runs -> RunState]
      /\ \A s \in Runs : run'[s].pc = run[s].pc /\ run'[s].cursor = run[s].cursor
      /\ \A s \in Runs, q \in Paths :
           run'[s].task[q] = IF s = r /\ q = p THEN t ELSE run[s].task[q]
  BY DEF ItemMoves, TaskSet
<1>3. /\ t \in Task /\ d \in Doc \union {Nothing}
      /\ docs' = [docs EXCEPT ![p] = d] /\ failures' \in 0..MaxFailures
      /\ UNCHANGED <<deployment, source, changed, checkpoint, crashes>>
  BY DEF ItemMoves
<1>4. TypeOK'
  BY <1>1, <1>2, <1>3 DEF TypeOK
<1>5. FeedInv'
  <2>1. Clock' = Clock
    BY <1>3 DEF Clock
  <2>2. \A n \in 0..MaxChanges : IsClock(n) => IsClock(n)'
    BY <1>3 DEF IsClock
  <2>3. QED BY <1>1, <1>2, <1>3, <2>1, <2>2 DEF FeedInv
<1>6. d # Nothing \/ t.pc # "none" => changed[p] > 0
  BY <1>1 DEF ItemMoves, Outcome, NoTask, Appeared
<1>7. Appeared'
  <2>1. \A q \in Paths : docs'[q] = IF q = p THEN d ELSE docs[q]
    BY <1>1, <1>3 DEF TypeOK
  <2>2. QED BY <1>1, <1>2, <1>3, <1>6, <2>1 DEF Appeared
<1>8. t.pc = "put" => t.bytes \in Contents
  <2>1. run[r].task[p] \in Task /\ source[p] \in Contents \union {Nothing}
    BY <1>1, ItemTypes
  <2>2. CASE t = NoTask
    BY <2>2 DEF NoTask
  <2>3. CASE t = [run[r].task[p] EXCEPT !.pc = "fetch", !.existing = docs[p]]
    BY <2>1, <2>3 DEF Task
  <2>4. CASE t = [run[r].task[p] EXCEPT !.pc = "put", !.bytes = source[p]]
             /\ source[p] # Nothing
    BY <2>1, <2>4 DEF Task
  <2>5. QED BY <2>2, <2>3, <2>4 DEF ItemMoves, Outcome
<1>9. Fetched'
  BY <1>1, <1>2, <1>8 DEF Fetched
<1>10. Incremental'
  BY <1>1, <1>2, <1>3 DEF Incremental
<1>11. QED BY <1>4, <1>5, <1>7, <1>9, <1>10 DEF BaseInv

(* An item moving on stores no version ahead of its bytes.                 *)
LEMMA ItemKeepsVersions ==
  ASSUME BaseInv, VersionInv, NEW r \in Runs, NEW p \in Paths, NEW t, NEW d,
         ItemMoves(r, p, t, d)
  PROVE  VersionInv'
<1>1. TypeOK /\ Fetched
  BY DEF BaseInv
<1>2. /\ \A s \in Runs, q \in Paths :
           run'[s].task[q] = IF s = r /\ q = p THEN t ELSE run[s].task[q]
      /\ docs' = [docs EXCEPT ![p] = d] /\ UNCHANGED <<source, changed>>
  BY DEF ItemMoves, TaskSet
<1>3. \A q \in Paths : docs'[q] = IF q = p THEN d ELSE docs[q]
  BY <1>1, <1>2 DEF TypeOK
<1>4. run[r].task[p] \in Task
  BY <1>1, ItemTypes
<1>5. /\ docs[p] # Nothing => Lags(p, docs[p].version, docs[p].checksum)
      /\ run[r].task[p].pc # "none" => run[r].task[p].version \in Nat
                                       /\ run[r].task[p].version <= changed[p]
      /\ run[r].task[p].pc = "put" =>
           Lags(p, run[r].task[p].version, run[r].task[p].bytes)
  BY DEF VersionInv
<1>6. d # Nothing => Lags(p, d.version, d.checksum)
  BY <1>5 DEF ItemMoves, Outcome, Put
<1>7. /\ t.pc # "none" => t.version \in Nat /\ t.version <= changed[p]
      /\ t.pc = "put" => Lags(p, t.version, t.bytes)
  <2>1. CASE t = NoTask
    BY <2>1 DEF NoTask
  <2>2. CASE t = [run[r].task[p] EXCEPT !.pc = "fetch", !.existing = docs[p]]
             /\ run[r].task[p].pc = "queued"
    BY <1>4, <1>5, <2>2 DEF Task
  <2>3. CASE t = [run[r].task[p] EXCEPT !.pc = "put", !.bytes = source[p]]
             /\ run[r].task[p].pc = "fetch"
    <3>1. t.version = run[r].task[p].version /\ t.bytes = source[p]
      BY <1>4, <2>3 DEF Task
    <3>2. QED BY <1>5, <2>3, <3>1 DEF Lags
  <2>4. QED BY <2>1, <2>2, <2>3 DEF ItemMoves, Outcome
<1>8. QED BY <1>2, <1>3, <1>6, <1>7 DEF VersionInv, Lags

(* An item moving on keeps what the checkpoint and the cursor cover.       *)
LEMMA ItemKeepsCover ==
  ASSUME BaseInv, VersionInv, Alone, CoverInv, NEW r \in deployment.crawlers,
         NEW p \in Paths, NEW t, NEW d, ItemMoves(r, p, t, d)
  PROVE  CoverInv'
<1>1. TypeOK /\ Fetched /\ r \in Runs /\ deployment.crawlers \subseteq Runs
  BY DeploymentAssumption DEF BaseInv, TypeOK, Deployment
<1>2. /\ \A s \in Runs : /\ run'[s].pc = run[s].pc /\ run'[s].cursor = run[s].cursor
                         /\ run'[s].doomed = run[s].doomed
      /\ \A s \in Runs, q \in Paths :
           run'[s].task[q] = IF s = r /\ q = p THEN t ELSE run[s].task[q]
      /\ docs' = [docs EXCEPT ![p] = d]
      /\ UNCHANGED <<source, changed, deployment, checkpoint>>
  BY <1>1 DEF ItemMoves, TaskSet
<1>3. \A q \in Paths : docs'[q] = IF q = p THEN d ELSE docs[q]
  BY <1>1, <1>2 DEF TypeOK
<1>4. run[r].task[p] \in Task
  BY <1>1, ItemTypes
<1>5. RunCovers(r) /\ run[r].task[p].pc # "none" /\ run[r].pc = "items"
  BY <1>1 DEF CoverInv, RunCovers, ItemMoves, Outcome
<1>6. Working(r) /\ changed[p] > checkpoint
      /\ (changed[p] <= run[r].cursor => ToWrite(r, p))
  BY <1>5 DEF RunCovers, Working, Settled, ToDelete
<1>7. changed[p] \in Nat /\ checkpoint \in Nat
  BY <1>1 DEF TypeOK
<1>8. Covered'
  <2>1. \A q \in Paths : q # p => (InStep(q)' <=> InStep(q))
    BY <1>2, <1>3 DEF InStep
  <2>2. ~(changed[p] <= checkpoint)
    BY <1>6, <1>7
  <2>3. QED BY <1>2, <2>1, <2>2 DEF CoverInv, Covered
<1>9. changed[p] <= run[r].cursor => (Settled(r, p) \/ ToWrite(r, p))'
  <2> SUFFICES ASSUME changed[p] <= run[r].cursor
               PROVE  (Settled(r, p) \/ ToWrite(r, p))'
    OBVIOUS
  <2>1. ToWrite(r, p)
    BY <1>6
  <2>2. run'[r].task[p] = t /\ run'[r].doomed = run[r].doomed /\ docs'[p] = d
    BY <1>1, <1>2, <1>3
  <2>3. CASE t = NoTask
    <3>1. InStep(p)'
      <4>1. CASE run[r].task[p].pc = "put" /\ d = Put(r, p)
        <5>1. Put(r, p) \in Doc /\ Put(r, p).checksum = source[p]
          BY <1>1, <2>1, <4>1, ItemTypes DEF ToWrite, Put
        <5>2. QED BY <1>2, <2>1, <2>2, <4>1, <5>1, AbsentAssumption DEF ToWrite, InStep
      <4>2. CASE d = docs[p] /\ (failures < deployment.failures \/ Skips(r, p))
        <5>1. Skips(r, p)
          BY <1>1, <4>2 DEF Alone, TypeOK
        <5>2. docs[p] # Nothing /\ docs[p].checksum = source[p]
          BY <2>1, <5>1 DEF Skips, ToWrite, VersionInv, Lags
        <5>3. QED BY <1>2, <2>1, <2>2, <4>2, <5>2 DEF ToWrite, InStep
      <4>3. t.pc = "none"
        BY <2>3 DEF NoTask
      <4>4. t # [run[r].task[p] EXCEPT !.pc = "fetch", !.existing = docs[p]]
            /\ t # [run[r].task[p] EXCEPT !.pc = "put", !.bytes = source[p]]
        BY <1>4, <4>3 DEF Task
      <4>5. QED BY <4>1, <4>2, <4>4 DEF ItemMoves, Outcome
    <3>2. QED BY <2>1, <2>2, <2>3, <3>1 DEF Settled, ToWrite, NoTask
  <2>4. CASE t = [run[r].task[p] EXCEPT !.pc = "fetch", !.existing = docs[p]]
             /\ d = docs[p]
    BY <1>2, <1>4, <2>1, <2>2, <2>4 DEF ToWrite, Task
  <2>5. CASE t = [run[r].task[p] EXCEPT !.pc = "put", !.bytes = source[p]]
             /\ d = docs[p]
    BY <1>2, <1>4, <2>1, <2>2, <2>5 DEF ToWrite, Task
  <2>6. QED BY <2>3, <2>4, <2>5 DEF ItemMoves, Outcome
<1>10. RunCovers(r)'
  <2>1. ASSUME NEW q \in Paths, q # p
        PROVE  /\ InStep(q)' <=> InStep(q)
               /\ run'[r].task[q] = run[r].task[q] /\ docs'[q] = docs[q]
    BY <1>1, <1>2, <1>3, <2>1 DEF InStep
  <2>2. ASSUME NEW q \in Paths, q # p
        PROVE  /\ Settled(r, q)' <=> Settled(r, q)
               /\ ToDelete(r, q)' <=> ToDelete(r, q)
               /\ ToWrite(r, q)' <=> ToWrite(r, q)
    BY <1>1, <1>2, <2>1, <2>2 DEF Settled, ToDelete, ToWrite
  <2>3. /\ run'[r].pc = run[r].pc /\ run'[r].cursor = run[r].cursor
        /\ run'[r].doomed = run[r].doomed
    BY <1>1, <1>2
  <2>4. Working(r)' <=> Working(r)
    BY <2>3 DEF Working
  <2>5. QED BY <1>2, <1>5, <1>6, <1>9, <2>1, <2>2, <2>3, <2>4 DEF RunCovers
<1>11. QED BY <1>2, <1>8, <1>10 DEF CoverInv, Alone

-----------------------------------------------------------------------------
(* The runs.                                                               *)

(* What an action on a whole run does: the run is in the state v, whose    *)
(* items are none, those it had, or items of the source yet to be looked   *)
(* at; documents may go; the cursor may become the checkpoint.             *)
Queued(p) == [NoTask EXCEPT !.pc = "queued", !.version = VersionOf(p)]
Started(items, doomed, cursor) ==
  [pc |-> "items", task |-> [p \in Paths |-> IF p \in items THEN Queued(p) ELSE NoTask],
   seen |-> items, doomed |-> doomed, cursor |-> cursor]

RunMoves(r, v) ==
  /\ v \in RunState /\ run' = [run EXCEPT ![r] = v]
  /\ v.cursor <= Clock
  /\ v.pc = "checkpoint" => deployment.incremental
  /\ \A p \in Paths : \/ v.task[p] \in {NoTask, run[r].task[p]}
                      \/ v.task[p] = Queued(p) /\ source[p] # Nothing
  /\ docs' \in [Paths -> Doc \union {Nothing}]
  /\ \A p \in Paths : docs'[p] \in {docs[p], Nothing}
  /\ \/ checkpoint' = checkpoint
     \/ run[r].pc = "checkpoint" /\ checkpoint' = run[r].cursor
  /\ failures' \in 0..MaxFailures /\ crashes' \in 0..MaxCrashes
  /\ UNCHANGED <<deployment, source, changed>>

(* What BaseInv says of a run and of the bounds.                           *)
LEMMA RunTypes ==
  ASSUME BaseInv, NEW r \in Runs
  PROVE  /\ run[r] \in RunState /\ run[r].cursor <= Clock
         /\ Clock \in 0..MaxChanges /\ IsClock(Clock)
         /\ checkpoint \in 0..MaxChanges /\ checkpoint <= Clock
         /\ docs \in [Paths -> Doc \union {Nothing}]
         /\ failures \in 0..MaxFailures /\ crashes \in 0..MaxCrashes
         /\ deployment.failures \in 0..MaxFailures
         /\ deployment.crashes \in 0..MaxCrashes
         /\ run[r].pc = "checkpoint" => deployment.incremental
<1>1. TypeOK /\ FeedInv /\ Incremental
  BY DEF BaseInv
<1>2. Clock \in 0..MaxChanges /\ IsClock(Clock)
  BY <1>1, ClockFacts DEF FeedInv
<1>3. deployment.failures \in 0..MaxFailures /\ deployment.crashes \in 0..MaxCrashes
  BY <1>1, DeploymentAssumption DEF TypeOK, Deployment
<1>4. QED BY <1>1, <1>2, <1>3 DEF TypeOK, FeedInv, Incremental

(* A failing call stays within its bound.                                  *)
LEMMA FailingBound ==
  ASSUME BaseInv, NEW r \in Runs, Failing
  PROVE  failures' \in 0..MaxFailures /\ failures < deployment.failures
BY RunTypes, BoundAssumption DEF Failing

(* A run that ends moves to NoRun.                                         *)
LEMMA EndMoves ==
  ASSUME BaseInv, NEW r \in Runs, run' = [run EXCEPT ![r] = NoRun],
         docs' = docs,
         checkpoint' = checkpoint \/ (run[r].pc = "checkpoint" /\ checkpoint' = run[r].cursor),
         failures' \in 0..MaxFailures, crashes' \in 0..MaxCrashes,
         UNCHANGED <<deployment, source, changed>>
  PROVE  RunMoves(r, NoRun)
<1>1. NoRun \in RunState /\ NoRun.pc = "idle" /\ NoRun.cursor = 0
      /\ \A p \in Paths : NoRun.task[p] = NoTask
  BY NoneFacts
<1>2. 0 <= Clock
  BY RunTypes
<1>3. docs' \in [Paths -> Doc \union {Nothing}]
  BY RunTypes
<1>4. QED BY <1>1, <1>2, <1>3 DEF RunMoves

(* A run whose items stay as they are moves on.                            *)
LEMMA StageMoves ==
  ASSUME BaseInv, NEW r \in Runs, NEW v \in RunState, run' = [run EXCEPT ![r] = v],
         v.task = run[r].task, v.cursor <= Clock,
         v.pc = "checkpoint" => deployment.incremental,
         docs' \in [Paths -> Doc \union {Nothing}],
         \A p \in Paths : docs'[p] \in {docs[p], Nothing},
         failures' \in 0..MaxFailures,
         UNCHANGED <<deployment, source, changed, checkpoint, crashes>>
  PROVE  RunMoves(r, v)
<1>1. crashes' \in 0..MaxCrashes
  BY RunTypes
<1>2. QED BY <1>1 DEF RunMoves

(* A run that begins with items of the source has them queued.             *)
LEMMA BeginMoves ==
  ASSUME BaseInv, NEW r \in Runs, NEW items \in SUBSET Present,
         NEW doomed \in SUBSET Paths, NEW cursor \in 0..Clock,
         Begin(r, items, doomed, cursor)
  PROVE  RunMoves(r, Started(items, doomed, cursor))
<1> DEFINE v == Started(items, doomed, cursor)
<1>1. TypeOK /\ Appeared
  BY DEF BaseInv
<1>2. \A p \in items : Queued(p) \in Task /\ source[p] # Nothing
  <2> SUFFICES ASSUME NEW p \in items
               PROVE  Queued(p) \in Task /\ source[p] # Nothing
    OBVIOUS
  <2>1. p \in Paths /\ source[p] # Nothing
    BY DEF Present
  <2>2. changed[p] \in 1..MaxChanges /\ source[p] \in Contents
    BY <1>1, <2>1 DEF Appeared, TypeOK
  <2>3. VersionOf(p) \in Versions
    BY <2>2 DEF VersionOf, Versions
  <2>4. QED BY <2>1, <2>3, NoneFacts DEF Queued, Task
<1>3. [p \in Paths |-> IF p \in items THEN Queued(p) ELSE NoTask] \in [Paths -> Task]
  BY <1>2, NoneFacts
<1>4. cursor \in 0..MaxChanges /\ cursor <= Clock /\ items \subseteq Paths
  <2>1. Clock \in 0..MaxChanges /\ MaxChanges \in Nat
    BY RunTypes, BoundAssumption
  <2>2. Present \subseteq Paths
    BY DEF Present
  <2>3. QED BY <2>1, <2>2
<1>5. v \in RunState
  BY <1>3, <1>4 DEF Started, RunState
<1>6. /\ v.cursor = cursor /\ v.pc = "items"
      /\ \A p \in Paths : v.task[p] = IF p \in items THEN Queued(p) ELSE NoTask
  BY DEF Started
<1>7. run' = [run EXCEPT ![r] = v]
      /\ UNCHANGED <<deployment, source, changed, docs, checkpoint, failures, crashes>>
  BY DEF Begin, Started, Queued
<1>8. failures' \in 0..MaxFailures /\ crashes' \in 0..MaxCrashes
      /\ docs' \in [Paths -> Doc \union {Nothing}]
  BY <1>7, RunTypes
<1> HIDE DEF v
<1>9. QED BY <1>2, <1>4, <1>5, <1>6, <1>7, <1>8 DEF RunMoves, v

(* Which state an action leads its run to.                                 *)
LEMMA RunMoving ==
  ASSUME BaseInv, NEW r \in Runs
  PROVE  /\ Discover(r) => RunMoves(r, Started(Present, {}, 0))
         /\ GetCheckpoint(r) =>
              RunMoves(r, [run[r] EXCEPT !.pc = "changes", !.cursor = checkpoint])
         /\ DiscoverChanges(r) =>
              LET since == {p \in Paths : changed[p] > run[r].cursor}
              IN  RunMoves(r, Started(since \intersect Present, since \ Present, Clock))
         /\ ItemsDone(r) =>
              IF ~deployment.incremental /\ ~deployment.prune THEN RunMoves(r, NoRun)
              ELSE RunMoves(r, [run[r] EXCEPT !.pc = IF deployment.incremental
                                                     THEN "delete" ELSE "list"])
         /\ PruneList(r) =>
              \/ RunMoves(r, NoRun)
              \/ RunMoves(r, [run[r] EXCEPT !.pc = "delete",
                    !.doomed = {p \in Paths : docs[p] # Nothing} \ run[r].seen])
         /\ \A p \in Paths : DeletePath(r, p) =>
              RunMoves(r, [run[r] EXCEPT !.doomed = @ \ {p}])
         /\ DeletesDone(r) =>
              IF deployment.incremental
              THEN RunMoves(r, [run[r] EXCEPT !.pc = "checkpoint"])
              ELSE RunMoves(r, NoRun)
         /\ PutCheckpoint(r) => RunMoves(r, NoRun)
         /\ RunCrash(r) => RunMoves(r, NoRun)
<1>1. /\ run[r] \in RunState /\ run[r].cursor <= Clock
      /\ Clock \in 0..MaxChanges /\ checkpoint \in 0..MaxChanges /\ checkpoint <= Clock
      /\ docs \in [Paths -> Doc \union {Nothing}]
      /\ failures \in 0..MaxFailures /\ crashes \in 0..MaxCrashes
      /\ deployment.crashes \in 0..MaxCrashes
  BY RunTypes
<1>2. run \in [Runs -> RunState]
  BY DEF BaseInv, TypeOK
<1>3. Failing => failures' \in 0..MaxFailures
  BY FailingBound
<1>4. Discover(r) => RunMoves(r, Started(Present, {}, 0))
  BY <1>1, BeginMoves DEF Discover
<1>5. ASSUME GetCheckpoint(r)
      PROVE  RunMoves(r, [run[r] EXCEPT !.pc = "changes", !.cursor = checkpoint])
  <2> DEFINE v == [run[r] EXCEPT !.pc = "changes", !.cursor = checkpoint]
  <2>1. v \in RunState /\ v.task = run[r].task /\ v.cursor = checkpoint /\ v.pc = "changes"
    BY <1>1 DEF RunState
  <2>2. run' = [run EXCEPT ![r] = v]
    BY <1>2, <1>5 DEF GetCheckpoint
  <2> HIDE DEF v
  <2>3. RunMoves(r, v)
    BY <1>1, <1>5, <2>1, <2>2, StageMoves DEF GetCheckpoint
  <2>4. QED BY <2>3 DEF v
<1>6. ASSUME DiscoverChanges(r)
      PROVE  LET since == {p \in Paths : changed[p] > run[r].cursor}
             IN  RunMoves(r, Started(since \intersect Present, since \ Present, Clock))
  BY <1>1, <1>6, BeginMoves DEF DiscoverChanges
<1>7. ASSUME ItemsDone(r)
      PROVE  IF ~deployment.incremental /\ ~deployment.prune THEN RunMoves(r, NoRun)
             ELSE RunMoves(r, [run[r] EXCEPT !.pc = IF deployment.incremental
                                                    THEN "delete" ELSE "list"])
  <2> DEFINE v == [run[r] EXCEPT !.pc = IF deployment.incremental
                                        THEN "delete" ELSE "list"]
  <2>1. v \in RunState /\ v.task = run[r].task /\ v.cursor = run[r].cursor
        /\ v.pc # "checkpoint"
    BY <1>1 DEF RunState
  <2>2. ~(~deployment.incremental /\ ~deployment.prune) => run' = [run EXCEPT ![r] = v]
    BY <1>2, <1>7 DEF ItemsDone
  <2> HIDE DEF v
  <2>3. ~(~deployment.incremental /\ ~deployment.prune) => RunMoves(r, v)
    BY <1>1, <1>7, <2>1, <2>2, StageMoves DEF ItemsDone
  <2>4. ~deployment.incremental /\ ~deployment.prune => RunMoves(r, NoRun)
    BY <1>1, <1>7, EndMoves DEF ItemsDone
  <2>5. QED BY <2>3, <2>4 DEF v
<1>8. ASSUME PruneList(r)
      PROVE  \/ RunMoves(r, NoRun)
             \/ RunMoves(r, [run[r] EXCEPT !.pc = "delete",
                   !.doomed = {p \in Paths : docs[p] # Nothing} \ run[r].seen])
  <2> DEFINE v == [run[r] EXCEPT !.pc = "delete",
                     !.doomed = {p \in Paths : docs[p] # Nothing} \ run[r].seen]
  <2>1. v \in RunState /\ v.task = run[r].task /\ v.cursor = run[r].cursor
        /\ v.pc = "delete"
    BY <1>1 DEF RunState
  <2>2. \/ run' = [run EXCEPT ![r] = v] /\ UNCHANGED failures
        \/ run' = [run EXCEPT ![r] = NoRun] /\ Failing
    BY <1>2, <1>8 DEF PruneList
  <2> HIDE DEF v
  <2>3. RunMoves(r, v) \/ RunMoves(r, NoRun)
    BY <1>1, <1>3, <1>8, <2>1, <2>2, StageMoves, EndMoves DEF PruneList
  <2>4. QED BY <2>3 DEF v
<1>9. ASSUME NEW p \in Paths, DeletePath(r, p)
      PROVE  RunMoves(r, [run[r] EXCEPT !.doomed = @ \ {p}])
  <2> DEFINE v == [run[r] EXCEPT !.doomed = @ \ {p}]
  <2>1. v \in RunState /\ v.task = run[r].task /\ v.cursor = run[r].cursor
        /\ v.pc = "delete"
    BY <1>1, <1>9 DEF RunState, DeletePath
  <2>2. run' = [run EXCEPT ![r] = v]
    BY <1>2, <1>9 DEF DeletePath
  <2> HIDE DEF v
  <2>3. docs' \in {docs, [docs EXCEPT ![p] = Nothing]} /\ failures' \in 0..MaxFailures
    BY <1>1, <1>3, <1>9 DEF DeletePath
  <2>4. docs' \in [Paths -> Doc \union {Nothing}]
        /\ \A q \in Paths : docs'[q] \in {docs[q], Nothing}
    BY <1>1, <2>3
  <2>5. RunMoves(r, v)
    BY <1>1, <1>9, <2>1, <2>2, <2>3, <2>4, StageMoves DEF DeletePath
  <2>6. QED BY <2>5 DEF v
<1>10. ASSUME DeletesDone(r)
       PROVE  IF deployment.incremental
              THEN RunMoves(r, [run[r] EXCEPT !.pc = "checkpoint"])
              ELSE RunMoves(r, NoRun)
  <2> DEFINE v == [run[r] EXCEPT !.pc = "checkpoint"]
  <2>1. v \in RunState /\ v.task = run[r].task /\ v.cursor = run[r].cursor
    BY <1>1 DEF RunState
  <2>2. deployment.incremental => run' = [run EXCEPT ![r] = v]
    BY <1>2, <1>10 DEF DeletesDone
  <2> HIDE DEF v
  <2>3. deployment.incremental => RunMoves(r, v)
    BY <1>1, <1>10, <2>1, <2>2, StageMoves DEF DeletesDone
  <2>4. ~deployment.incremental => RunMoves(r, NoRun)
    BY <1>1, <1>10, EndMoves DEF DeletesDone
  <2>5. QED BY <2>3, <2>4 DEF v
<1>11. PutCheckpoint(r) => RunMoves(r, NoRun)
  BY <1>1, <1>3, EndMoves DEF PutCheckpoint
<1>12. ASSUME RunCrash(r) PROVE RunMoves(r, NoRun)
  <2>1. crashes' \in 0..MaxCrashes
    BY <1>1, <1>12, BoundAssumption DEF RunCrash
  <2>2. QED BY <1>1, <1>12, <2>1, EndMoves DEF RunCrash
<1>13. QED
  BY <1>4, <1>5, <1>6, <1>7, <1>8, <1>9, <1>10, <1>11, <1>12

(* A run moving on keeps the types and what they rest on.                  *)
LEMMA RunKeepsBase ==
  ASSUME BaseInv, NEW r \in Runs, NEW v, RunMoves(r, v)
  PROVE  BaseInv'
<1>1. TypeOK /\ FeedInv /\ Appeared /\ Fetched /\ Incremental
  BY DEF BaseInv
<1>2. run' \in [Runs -> RunState] /\ v \in RunState
      /\ \A s \in Runs : run'[s] = IF s = r THEN v ELSE run[s]
  BY <1>1, RunSetFacts DEF RunMoves
<1>3. UNCHANGED <<deployment, source, changed>> /\ Clock' = Clock
  BY DEF RunMoves, Clock
<1>4. checkpoint' \in 0..MaxChanges /\ checkpoint' <= Clock
      /\ (~deployment.incremental => checkpoint' = 0)
  <2>1. run[r].cursor \in 0..MaxChanges /\ run[r].cursor <= Clock
    BY RunTypes DEF RunState
  <2>2. CASE checkpoint' = checkpoint
    BY <1>1, <2>2, RunTypes DEF Incremental
  <2>3. CASE run[r].pc = "checkpoint" /\ checkpoint' = run[r].cursor
    BY <2>1, <2>3, RunTypes
  <2>4. QED BY <2>2, <2>3 DEF RunMoves
<1>5. TypeOK'
  BY <1>1, <1>2, <1>4 DEF TypeOK, RunMoves
<1>6. FeedInv'
  <2>1. \A n \in 0..MaxChanges : IsClock(n) => IsClock(n)'
    BY <1>3 DEF IsClock
  <2>2. v.cursor <= Clock
    BY DEF RunMoves
  <2>3. QED BY <1>1, <1>2, <1>3, <1>4, <2>1, <2>2 DEF FeedInv
<1>7. \A p \in Paths : /\ NoTask.pc = "none"
                       /\ Queued(p).pc = "queued"
  BY DEF NoTask, Queued
<1>8. \A p \in Paths : \/ v.task[p].pc = "none" \/ v.task[p] = run[r].task[p]
                       \/ v.task[p].pc = "queued" /\ source[p] # Nothing
  BY <1>7 DEF RunMoves
<1>9. Appeared'
  BY <1>1, <1>2, <1>3, <1>8 DEF Appeared, RunMoves
<1>10. Fetched'
  BY <1>1, <1>2, <1>8 DEF Fetched
<1>11. Incremental'
  BY <1>1, <1>2, <1>3, <1>4 DEF Incremental, RunMoves
<1>12. QED BY <1>5, <1>6, <1>9, <1>10, <1>11 DEF BaseInv

(* A run moving on takes the versions the source has.                      *)
LEMMA RunKeepsVersions ==
  ASSUME BaseInv, VersionInv, ~deployment.contentVersions,
         NEW r \in Runs, NEW v, RunMoves(r, v)
  PROVE  VersionInv'
<1>1. TypeOK
  BY DEF BaseInv
<1>2. \A s \in Runs : run'[s] = IF s = r THEN v ELSE run[s]
  BY <1>1, RunSetFacts DEF RunMoves
<1>3. UNCHANGED <<source, changed>> /\ \A p \in Paths : docs'[p] \in {docs[p], Nothing}
  BY DEF RunMoves
<1>4. \A p \in Paths : /\ NoTask.pc = "none"
                       /\ Queued(p).pc = "queued" /\ Queued(p).version = changed[p]
                       /\ changed[p] \in Nat
  BY <1>1 DEF NoTask, Queued, VersionOf, TypeOK
<1>5. \A p \in Paths : \/ v.task[p].pc = "none" \/ v.task[p] = run[r].task[p]
                       \/ /\ v.task[p].pc = "queued"
                          /\ v.task[p].version = changed[p] /\ changed[p] \in Nat
  BY <1>4 DEF RunMoves
<1>6. QED BY <1>2, <1>3, <1>5 DEF VersionInv, Lags

-----------------------------------------------------------------------------
(* The source.                                                             *)

(* A change is the last in the feed, and ahead of every cursor.            *)
LEMMA SourceMoves ==
  ASSUME BaseInv, NEW p \in Paths, NEW c \in Contents \union {Nothing},
         SourceChange(p, c)
  PROVE  /\ changed' = [changed EXCEPT ![p] = Clock + 1]
         /\ source' = [source EXCEPT ![p] = c]
         /\ Clock + 1 \in 1..MaxChanges
         /\ \A q \in Paths : changed[q] <= Clock /\ changed[q] \in Nat
         /\ checkpoint <= Clock /\ \A r \in Runs : run[r].cursor <= Clock
         /\ UNCHANGED <<deployment, docs, checkpoint, run, failures, crashes>>
<1>1. TypeOK /\ FeedInv
  BY DEF BaseInv
<1>2. Clock \in 0..MaxChanges /\ IsClock(Clock)
  BY <1>1, ClockFacts DEF FeedInv
<1>3. deployment.changes \in 0..MaxChanges
  BY <1>1, DeploymentAssumption DEF TypeOK, Deployment
<1>4. Clock + 1 \in 1..MaxChanges
  BY <1>2, <1>3, BoundAssumption DEF SourceChange
<1>5. \A q \in Paths : changed[q] <= Clock /\ changed[q] \in Nat
  BY <1>1, <1>2 DEF IsClock, TypeOK
<1>6. QED BY <1>1, <1>4, <1>5 DEF SourceChange, FeedInv

(* A change of the source keeps the types and what they rest on.           *)
LEMMA SourceKeepsBase ==
  ASSUME BaseInv, NEW p \in Paths, NEW c \in Contents \union {Nothing},
         SourceChange(p, c)
  PROVE  BaseInv'
<1>1. TypeOK /\ FeedInv /\ Appeared /\ Fetched /\ Incremental
  BY DEF BaseInv
<1>2. /\ changed' = [changed EXCEPT ![p] = Clock + 1]
      /\ source' = [source EXCEPT ![p] = c]
      /\ Clock + 1 \in 1..MaxChanges
      /\ \A q \in Paths : changed[q] <= Clock /\ changed[q] \in Nat
      /\ checkpoint <= Clock /\ \A r \in Runs : run[r].cursor <= Clock
      /\ UNCHANGED <<deployment, docs, checkpoint, run, failures, crashes>>
  BY SourceMoves
<1>3. Clock \in 0..MaxChanges
  BY <1>1, ClockFacts DEF FeedInv
<1>4. TypeOK'
  BY <1>1, <1>2, <1>3 DEF TypeOK
<1>5. \A q \in Paths : changed'[q] = IF q = p THEN Clock + 1 ELSE changed[q]
  BY <1>1, <1>2 DEF TypeOK
<1> DEFINE n == Clock + 1
<1>6. n \in 0..MaxChanges /\ n \in Nat
  BY <1>2
<1>7. \A q \in Paths : changed'[q] <= n
  BY <1>2, <1>3, <1>5
<1>8. changed'[p] = n
  BY <1>5
<1>9. Clock' = n
  <2> HIDE DEF n
  <2>1. /\ Clock' \in 0..MaxChanges
        /\ \A q \in Paths : changed'[q] <= Clock'
        /\ Clock' = 0 \/ \E q \in Paths : changed'[q] = Clock'
    BY <1>6, <1>7, <1>8 DEF Clock
  <2>2. n <= Clock'
    BY <1>8, <2>1
  <2>3. Clock' <= n
    BY <1>6, <1>7, <2>1
  <2>4. QED BY <1>6, <2>1, <2>2, <2>3
<1>10. FeedInv'
  <2>1. \E m \in 0..MaxChanges : IsClock(m)'
    BY <1>6, <1>7, <1>8 DEF IsClock
  <2>2. checkpoint' <= n /\ \A r \in Runs : run'[r].cursor <= n
    <3>1. checkpoint \in Nat /\ \A r \in Runs : run[r].cursor \in Nat
      BY <1>1 DEF TypeOK, RunState
    <3>2. QED BY <1>2, <1>3, <3>1
  <2>3. QED BY <1>9, <2>1, <2>2 DEF FeedInv
<1>11. Appeared'
  <2>1. \A q \in Paths : source'[q] = IF q = p THEN c ELSE source[q]
    BY <1>1, <1>2 DEF TypeOK
  <2>2. n > 0
    BY <1>2
  <2>3. QED BY <1>1, <1>2, <1>5, <2>1, <2>2 DEF Appeared
<1>12. Fetched' /\ Incremental'
  BY <1>1, <1>2 DEF Fetched, Incremental
<1>13. QED BY <1>4, <1>10, <1>11, <1>12 DEF BaseInv

(* A change leaves every version of the document behind.                   *)
LEMMA SourceKeepsVersions ==
  ASSUME BaseInv, VersionInv, NEW p \in Paths, NEW c \in Contents \union {Nothing},
         SourceChange(p, c)
  PROVE  VersionInv'
<1>1. /\ changed' = [changed EXCEPT ![p] = Clock + 1]
      /\ source' = [source EXCEPT ![p] = c]
      /\ \A q \in Paths : changed[q] <= Clock /\ changed[q] \in Nat
      /\ UNCHANGED <<docs, run>>
  BY SourceMoves
<1>2. Clock \in Nat
  BY ClockFacts DEF BaseInv, FeedInv
<1>3. \A q \in Paths : /\ changed'[q] = IF q = p THEN Clock + 1 ELSE changed[q]
                       /\ source'[q] = IF q = p THEN c ELSE source[q]
  BY <1>1 DEF BaseInv, TypeOK
<1>4. \A n \in Nat : n <= changed[p] => n <= Clock + 1 /\ n # Clock + 1
  BY <1>1, <1>2
<1>5. QED BY <1>1, <1>2, <1>3, <1>4 DEF VersionInv, Lags

(* A change is not covered yet: neither by the checkpoint nor by a run.    *)
LEMMA SourceKeepsCover ==
  ASSUME BaseInv, CoverInv, NEW p \in Paths, NEW c \in Contents \union {Nothing},
         SourceChange(p, c)
  PROVE  CoverInv'
<1>1. /\ changed' = [changed EXCEPT ![p] = Clock + 1]
      /\ source' = [source EXCEPT ![p] = c]
      /\ \A q \in Paths : changed[q] <= Clock /\ changed[q] \in Nat
      /\ checkpoint <= Clock /\ \A r \in Runs : run[r].cursor <= Clock
      /\ UNCHANGED <<deployment, docs, checkpoint, run, failures, crashes>>
  BY SourceMoves
<1>2. Clock \in Nat /\ checkpoint \in Nat
  BY ClockFacts DEF BaseInv, FeedInv, TypeOK
<1>3. \A q \in Paths : /\ changed'[q] = IF q = p THEN Clock + 1 ELSE changed[q]
                       /\ source'[q] = IF q = p THEN c ELSE source[q]
  BY <1>1 DEF BaseInv, TypeOK
<1>4. \A q \in Paths : q # p => (InStep(q)' <=> InStep(q))
  BY <1>1, <1>3 DEF InStep
<1>5. ~(changed'[p] <= checkpoint) /\ changed'[p] > checkpoint
  BY <1>1, <1>2, <1>3
<1>6. Covered'
  BY <1>1, <1>3, <1>4, <1>5 DEF CoverInv, Covered
<1>7. ASSUME NEW r \in deployment.crawlers
      PROVE  RunCovers(r)'
  <2>1. r \in Runs /\ run[r].cursor \in Nat /\ run[r].cursor <= Clock
    BY <1>1, DeploymentAssumption DEF BaseInv, TypeOK, Deployment, RunState
  <2>2. ~(changed'[p] <= run[r].cursor)
    BY <1>2, <1>3, <2>1
  <2>3. \A q \in Paths : q # p => /\ Settled(r, q)' <=> Settled(r, q)
                                  /\ ToDelete(r, q)' <=> ToDelete(r, q)
                                  /\ ToWrite(r, q)' <=> ToWrite(r, q)
    BY <1>1, <1>3, <1>4 DEF Settled, ToDelete, ToWrite
  <2>4. RunCovers(r) /\ (Working(r)' <=> Working(r))
    BY <1>1 DEF CoverInv, Working
  <2>5. QED BY <1>1, <1>3, <1>5, <2>2, <2>3, <2>4 DEF RunCovers
<1>8. QED BY <1>1, <1>6, <1>7 DEF CoverInv

-----------------------------------------------------------------------------
(* What a run's own actions do to what is covered.                         *)

(* A run that ended claims nothing.                                        *)
LEMMA EndCovers ==
  ASSUME BaseInv, NEW r \in Runs, RunMoves(r, NoRun)
  PROVE  RunCovers(r)'
<1>1. run'[r] = NoRun
  BY RunSetFacts DEF RunMoves, BaseInv
<1>2. QED BY <1>1, NoneFacts DEF RunCovers, Working, NoTask

(* Where documents, source and checkpoint stay, what is covered stays.     *)
LEMMA CoveredStays ==
  ASSUME Covered, UNCHANGED <<source, changed, docs, checkpoint>>
  PROVE  Covered' /\ \A p \in Paths : InStep(p)' <=> InStep(p)
BY DEF Covered, InStep

(* A run asks for the changes since the checkpoint.                        *)
LEMMA CheckpointRead ==
  ASSUME BaseInv, NEW r \in Runs, RunCovers(r), Covered, GetCheckpoint(r)
  PROVE  RunCovers(r)' /\ Covered'
<1> DEFINE v == [run[r] EXCEPT !.pc = "changes", !.cursor = checkpoint]
<1>1. RunMoves(r, v) /\ run[r] \in RunState
  BY RunMoving, RunTypes
<1>2. run'[r] = v
  BY <1>1, RunSetFacts DEF RunMoves, BaseInv
<1>3. v.pc = "changes" /\ v.cursor = checkpoint /\ v.task = run[r].task
  BY <1>1 DEF RunState
<1>4. UNCHANGED <<source, changed, docs, checkpoint>> /\ run[r].pc = "idle"
  BY DEF GetCheckpoint
<1> HIDE DEF v
<1>5. QED BY <1>2, <1>3, <1>4, CoveredStays DEF RunCovers, Working

(* What changed since then is to be written or to be deleted; the rest is  *)
(* in step, since the checkpoint covered it.                               *)
LEMMA ChangesDiscovered ==
  ASSUME BaseInv, ~deployment.contentVersions, NEW r \in Runs, RunCovers(r), Covered,
         DiscoverChanges(r)
  PROVE  RunCovers(r)' /\ Covered'
<1> DEFINE since == {p \in Paths : changed[p] > run[r].cursor}
           items == since \intersect Present
           doomed == since \ Present
           v == Started(items, doomed, Clock)
<1>1. RunMoves(r, v)
  BY RunMoving
<1>2. run'[r] = v
  BY <1>1, RunSetFacts DEF RunMoves, BaseInv
<1>3. /\ v.pc = "items" /\ v.cursor = Clock /\ v.doomed = doomed
      /\ \A p \in Paths : v.task[p] = IF p \in items THEN Queued(p) ELSE NoTask
  BY DEF Started
<1>4. \A p \in Paths : p \in items <=> changed[p] > run[r].cursor /\ source[p] # Nothing
  BY DEF Present
<1>5. \A p \in Paths : p \in doomed <=> changed[p] > run[r].cursor /\ source[p] = Nothing
  BY DEF Present
<1>6. UNCHANGED <<source, changed, docs, checkpoint>> /\ run[r].cursor = checkpoint
  BY DEF DiscoverChanges, Begin, RunCovers
<1>7. \A p \in Paths : /\ Queued(p).pc = "queued" /\ Queued(p).version = changed[p]
                       /\ NoTask.pc = "none"
  BY DEF Queued, NoTask, VersionOf
<1>8. checkpoint \in Nat /\ Clock \in Nat /\ checkpoint <= Clock
      /\ \A p \in Paths : changed[p] \in Nat
  BY RunTypes DEF BaseInv, TypeOK
<1>9. Covered' /\ \A p \in Paths : InStep(p)' <=> InStep(p)
  BY <1>6, CoveredStays
<1> HIDE DEF since, items, doomed, v
<1>10. ASSUME NEW p \in Paths
       PROVE  /\ run'[r].task[p].pc # "none" \/ p \in run'[r].doomed
                   => changed'[p] > checkpoint'
              /\ (Settled(r, p) \/ ToDelete(r, p) \/ ToWrite(r, p))'
  <2>1. CASE p \in items
    <3>1. ToWrite(r, p)'
      BY <1>2, <1>3, <1>4, <1>5, <1>6, <1>7, <2>1 DEF ToWrite
    <3>2. QED BY <1>4, <1>6, <2>1, <3>1
  <2>2. CASE p \in doomed
    <3>1. ToDelete(r, p)'
      BY <1>2, <1>3, <1>4, <1>5, <1>6, <1>7, <2>2 DEF ToDelete
    <3>2. QED BY <1>5, <1>6, <2>2, <3>1
  <2>3. CASE p \notin items /\ p \notin doomed
    <3>1. changed[p] <= checkpoint
      BY <1>4, <1>5, <1>6, <1>8, <2>3
    <3>2. InStep(p)'
      BY <1>9, <3>1 DEF Covered
    <3>3. Settled(r, p)'
      BY <1>2, <1>3, <1>7, <2>3, <3>2 DEF Settled
    <3>4. QED BY <1>2, <1>3, <1>7, <2>3, <3>3
  <2>4. QED BY <2>1, <2>2, <2>3
<1>11. run'[r].pc = "items" /\ run'[r].cursor >= checkpoint'
  BY <1>2, <1>3, <1>6, <1>8
<1>12. QED BY <1>9, <1>10, <1>11 DEF RunCovers

(* Once every item is done, what is not in step is to be deleted.          *)
LEMMA ItemsCovered ==
  ASSUME BaseInv, deployment.incremental, NEW r \in Runs, RunCovers(r), Covered,
         ItemsDone(r)
  PROVE  RunCovers(r)' /\ Covered'
<1> DEFINE v == [run[r] EXCEPT !.pc = "delete"]
<1>1. RunMoves(r, v) /\ run[r] \in RunState
  BY RunMoving, RunTypes
<1>2. run'[r] = v
  BY <1>1, RunSetFacts DEF RunMoves, BaseInv
<1>3. /\ v.pc = "delete" /\ v.cursor = run[r].cursor /\ v.task = run[r].task
      /\ v.doomed = run[r].doomed
  BY <1>1 DEF RunState
<1>4. UNCHANGED <<source, changed, docs, checkpoint>> /\ run[r].pc = "items"
      /\ \A p \in Paths : run[r].task[p].pc = "none"
  BY DEF ItemsDone
<1>5. Covered' /\ \A p \in Paths : InStep(p)' <=> InStep(p)
  BY <1>4, CoveredStays
<1> HIDE DEF v
<1>6. \A p \in Paths : /\ Settled(r, p) => Settled(r, p)'
                       /\ ToDelete(r, p) => ToDelete(r, p)'
                       /\ ~ToWrite(r, p)
  BY <1>2, <1>3, <1>4, <1>5 DEF Settled, ToDelete, ToWrite
<1>7. Working(r) /\ Working(r)'
  BY <1>2, <1>3, <1>4 DEF Working
<1>8. QED BY <1>2, <1>3, <1>4, <1>5, <1>6, <1>7 DEF RunCovers

(* A delete puts its path in step, unless the source has changed since.    *)
LEMMA DeleteCovered ==
  ASSUME BaseInv, deployment.failures = 0, NEW r \in Runs, RunCovers(r), Covered,
         NEW p \in Paths, DeletePath(r, p)
  PROVE  RunCovers(r)' /\ Covered'
<1> DEFINE v == [run[r] EXCEPT !.doomed = @ \ {p}]
<1>1. RunMoves(r, v) /\ run[r] \in RunState
  BY RunMoving, RunTypes
<1>2. run'[r] = v
  BY <1>1, RunSetFacts DEF RunMoves, BaseInv
<1>3. /\ v.pc = run[r].pc /\ v.cursor = run[r].cursor /\ v.task = run[r].task
      /\ v.doomed = run[r].doomed \ {p}
  BY <1>1 DEF RunState
<1>4. ~Failing
  BY FailingBound DEF BaseInv, TypeOK
<1>5. /\ docs' = [docs EXCEPT ![p] = Nothing] /\ UNCHANGED <<source, changed, checkpoint>>
      /\ run[r].pc = "delete" /\ p \in run[r].doomed
  BY <1>4 DEF DeletePath
<1>6. \A q \in Paths : docs'[q] = IF q = p THEN Nothing ELSE docs[q]
  BY <1>5, RunTypes
<1> HIDE DEF v
<1>7. \A q \in Paths : /\ q # p => (InStep(q)' <=> InStep(q))
                       /\ source[p] = Nothing => InStep(p)'
  BY <1>5, <1>6 DEF InStep
<1>8. Working(r) /\ Working(r)' /\ \A q \in Paths : run[r].task[q].pc = "none"
  BY <1>2, <1>3, <1>5 DEF Working, RunCovers
<1>9. changed[p] > checkpoint /\ (changed[p] <= run[r].cursor => ToDelete(r, p))
  BY <1>5, <1>8 DEF RunCovers, Settled, ToDelete, ToWrite
<1>10. ~(changed[p] <= checkpoint)
  BY <1>9 DEF BaseInv, TypeOK
<1>11. Covered'
  BY <1>5, <1>7, <1>10 DEF Covered
<1>12. \A q \in Paths : q # p => /\ Settled(r, q) => Settled(r, q)'
                                 /\ ToDelete(r, q) => ToDelete(r, q)'
                                 /\ ~ToWrite(r, q)
  BY <1>2, <1>3, <1>5, <1>7, <1>8 DEF Settled, ToDelete, ToWrite
<1>13. changed[p] <= run[r].cursor => Settled(r, p)'
  BY <1>2, <1>3, <1>7, <1>8, <1>9 DEF Settled, ToDelete
<1>14. QED BY <1>2, <1>3, <1>5, <1>8, <1>9, <1>11, <1>12, <1>13 DEF RunCovers

(* With nothing left to delete, everything up to the cursor is in step.    *)
LEMMA DeletesCovered ==
  ASSUME BaseInv, deployment.incremental, NEW r \in Runs, RunCovers(r), Covered,
         DeletesDone(r)
  PROVE  RunCovers(r)' /\ Covered'
<1> DEFINE v == [run[r] EXCEPT !.pc = "checkpoint"]
<1>1. RunMoves(r, v) /\ run[r] \in RunState
  BY RunMoving, RunTypes
<1>2. run'[r] = v
  BY <1>1, RunSetFacts DEF RunMoves, BaseInv
<1>3. /\ v.pc = "checkpoint" /\ v.cursor = run[r].cursor /\ v.task = run[r].task
      /\ v.doomed = run[r].doomed
  BY <1>1 DEF RunState
<1>4. UNCHANGED <<source, changed, docs, checkpoint>> /\ run[r].pc = "delete"
      /\ run[r].doomed = {}
  BY DEF DeletesDone
<1>5. Covered' /\ \A p \in Paths : InStep(p)' <=> InStep(p)
  BY <1>4, CoveredStays
<1> HIDE DEF v
<1>6. \A p \in Paths : run[r].task[p].pc = "none"
  BY <1>4 DEF RunCovers
<1>7. \A p \in Paths : /\ Settled(r, p) => Settled(r, p)'
                       /\ ~ToDelete(r, p) /\ ~ToWrite(r, p)
  BY <1>2, <1>3, <1>4, <1>5, <1>6 DEF Settled, ToDelete, ToWrite
<1>8. Working(r) /\ Working(r)'
  BY <1>2, <1>3, <1>4 DEF Working
<1>9. QED BY <1>2, <1>3, <1>4, <1>5, <1>6, <1>7, <1>8 DEF RunCovers

(* So the cursor may become the checkpoint.                                *)
LEMMA CheckpointStored ==
  ASSUME BaseInv, deployment.failures = 0, NEW r \in Runs, RunCovers(r), PutCheckpoint(r)
  PROVE  RunCovers(r)' /\ Covered'
<1>1. RunMoves(r, NoRun)
  BY RunMoving
<1>2. ~Failing
  BY FailingBound DEF BaseInv, TypeOK
<1>3. checkpoint' = run[r].cursor /\ UNCHANGED <<source, changed, docs>>
      /\ run[r].pc = "checkpoint"
  BY <1>2 DEF PutCheckpoint
<1>4. \A p \in Paths : InStep(p)' <=> InStep(p)
  BY <1>3 DEF InStep
<1>5. \A p \in Paths : run[r].task[p].pc = "none" /\ p \notin run[r].doomed
  BY <1>3 DEF RunCovers
<1>6. \A p \in Paths : changed[p] <= run[r].cursor => InStep(p)
  BY <1>3, <1>5 DEF RunCovers, Working, Settled, ToDelete, ToWrite
<1>7. QED BY <1>1, <1>3, <1>4, <1>6, EndCovers DEF Covered

-----------------------------------------------------------------------------
(* The invariant.                                                          *)

(* Nothing exists and nothing runs at first.                               *)
LEMMA InitSync ==
  ASSUME Init
  PROVE  SyncInv
<1>1. 0 \in 0..MaxChanges /\ 0 \in 0..MaxFailures /\ 0 \in 0..MaxCrashes
  BY BoundAssumption
<1>2. /\ deployment \in Deployments /\ checkpoint = 0 /\ failures = 0 /\ crashes = 0
      /\ \A p \in Paths : source[p] = Nothing /\ changed[p] = 0 /\ docs[p] = Nothing
      /\ \A r \in Runs : /\ run[r].pc = "idle" /\ run[r].cursor = 0
                         /\ \A p \in Paths : run[r].task[p] = NoTask
  BY NoneFacts DEF Init
<1>3. run \in [Runs -> RunState]
  BY NoneFacts DEF Init
<1>4. TypeOK
  BY <1>1, <1>2, <1>3 DEF Init, TypeOK
<1>5. NoTask.pc = "none"
  BY DEF NoTask
<1>6. IsClock(0) /\ Clock = 0
  <2>1. IsClock(0)
    BY <1>2 DEF IsClock
  <2>2. QED BY <1>1, <1>4, <2>1, ClockUnique
<1>7. FeedInv
  BY <1>1, <1>2, <1>6 DEF FeedInv
<1>8. BaseInv
  BY <1>2, <1>4, <1>5, <1>7 DEF BaseInv, Appeared, Fetched, Incremental
<1>9. VersionInv
  BY <1>2, <1>5 DEF VersionInv
<1>10. CoverInv
  <2>1. Covered
    BY <1>2 DEF Covered, InStep
  <2>2. deployment.crawlers \subseteq Runs
    BY <1>2, DeploymentAssumption DEF Deployment
  <2>3. \A r \in Runs : RunCovers(r)
    BY <1>2, <1>5 DEF RunCovers, Working
  <2>4. QED BY <2>1, <2>2, <2>3 DEF CoverInv
<1>11. QED BY <1>8, <1>9, <1>10 DEF SyncInv

(* The actions on an item keep the invariant.                              *)
LEMMA ItemKeeps ==
  ASSUME SyncInv, NEW r \in deployment.crawlers, NEW p \in Paths,
         ItemStat(r, p) \/ ItemFetch(r, p) \/ ItemPut(r, p) \/ ItemFail(r, p)
  PROVE  SyncInv'
<1>1. BaseInv /\ TypeOK /\ Fetched
  BY DEF SyncInv, BaseInv
<1>2. r \in Runs
  BY <1>1, DeploymentAssumption DEF TypeOK, Deployment
<1>3. PICK t, d : ItemMoves(r, p, t, d)
  BY <1>1, <1>2, ItemMoving
<1>4. UNCHANGED deployment
  BY <1>3 DEF ItemMoves
<1>5. BaseInv'
  BY <1>1, <1>2, <1>3, ItemKeepsBase
<1>6. ~deployment.contentVersions => VersionInv'
  BY <1>1, <1>2, <1>3, ItemKeepsVersions DEF SyncInv
<1>7. Alone => CoverInv'
  BY <1>1, <1>2, <1>3, ItemKeepsCover DEF SyncInv, Alone
<1>8. QED BY <1>4, <1>5, <1>6, <1>7 DEF SyncInv, Alone

(* The actions of a run keep what a checkpoint covers.                     *)
LEMMA RunKeepsCover ==
  ASSUME SyncInv, Alone, NEW r \in deployment.crawlers,
         \/ Discover(r) \/ GetCheckpoint(r) \/ DiscoverChanges(r) \/ ItemsDone(r)
         \/ PruneList(r) \/ DeletesDone(r) \/ PutCheckpoint(r) \/ RunCrash(r)
         \/ \E p \in Paths : DeletePath(r, p)
  PROVE  CoverInv'
<1>1. BaseInv /\ Covered /\ RunCovers(r)
  BY DEF SyncInv, CoverInv
<1>2. r \in Runs
  BY <1>1, DeploymentAssumption DEF BaseInv, TypeOK, Deployment
<1>3. /\ deployment.incremental /\ ~deployment.contentVersions
      /\ deployment.failures = 0 /\ \A s \in deployment.crawlers : s = r
  BY DEF Alone
<1>4. ~Discover(r) /\ ~PruneList(r)
  BY <1>1, <1>3 DEF Discover, PruneList, RunCovers
<1>5. CASE RunCrash(r)
  <2>1. RunMoves(r, NoRun)
    BY <1>1, <1>2, <1>5, RunMoving
  <2>2. UNCHANGED <<source, changed, docs, checkpoint, deployment>>
    BY <1>5 DEF RunCrash
  <2>3. QED BY <1>1, <1>2, <1>3, <2>1, <2>2, EndCovers, CoveredStays DEF CoverInv
<1>6. UNCHANGED deployment
  BY <1>1, <1>2, RunMoving DEF RunMoves
<1>7. CASE ~RunCrash(r)
  <2>1. RunCovers(r)' /\ Covered'
    BY <1>1, <1>2, <1>3, <1>4, <1>7, CheckpointRead, ChangesDiscovered, ItemsCovered,
       DeleteCovered, DeletesCovered, CheckpointStored
  <2>2. QED BY <1>3, <1>6, <2>1 DEF CoverInv
<1>8. QED BY <1>5, <1>7

(* The actions of a run keep the invariant.                                *)
LEMMA RunKeeps ==
  ASSUME SyncInv, NEW r \in deployment.crawlers,
         \/ Discover(r) \/ GetCheckpoint(r) \/ DiscoverChanges(r) \/ ItemsDone(r)
         \/ PruneList(r) \/ DeletesDone(r) \/ PutCheckpoint(r) \/ RunCrash(r)
         \/ \E p \in Paths : DeletePath(r, p)
  PROVE  SyncInv'
<1>1. BaseInv
  BY DEF SyncInv
<1>2. r \in Runs
  BY <1>1, DeploymentAssumption DEF BaseInv, TypeOK, Deployment
<1>3. PICK v : RunMoves(r, v)
  BY <1>1, <1>2, RunMoving
<1>4. UNCHANGED deployment
  BY <1>3 DEF RunMoves
<1>5. BaseInv'
  BY <1>1, <1>2, <1>3, RunKeepsBase
<1>6. ~deployment.contentVersions => VersionInv'
  BY <1>1, <1>2, <1>3, RunKeepsVersions DEF SyncInv
<1>7. Alone => CoverInv'
  BY RunKeepsCover
<1>8. QED BY <1>4, <1>5, <1>6, <1>7 DEF SyncInv, Alone

(* A change of the source keeps the invariant.                             *)
LEMMA SourceKeeps ==
  ASSUME SyncInv, NEW p \in Paths, NEW c \in Contents \union {Nothing},
         SourceChange(p, c)
  PROVE  SyncInv'
<1>1. BaseInv /\ UNCHANGED deployment
  BY DEF SyncInv, SourceChange
<1>2. BaseInv'
  BY <1>1, SourceKeepsBase
<1>3. ~deployment.contentVersions => VersionInv'
  BY <1>1, SourceKeepsVersions DEF SyncInv
<1>4. Alone => CoverInv'
  BY <1>1, SourceKeepsCover DEF SyncInv
<1>5. QED BY <1>1, <1>2, <1>3, <1>4 DEF SyncInv, Alone

(* Stuttering changes nothing the invariant reads.                         *)
LEMMA StutterKeeps ==
  ASSUME SyncInv, UNCHANGED vars
  PROVE  SyncInv'
<1>1. UNCHANGED <<deployment, source, changed, docs, checkpoint, run, failures, crashes>>
  BY DEF vars
<1>2. Clock' = Clock /\ \A n \in 0..MaxChanges : IsClock(n)' <=> IsClock(n)
  BY <1>1 DEF Clock, IsClock
<1>3. BaseInv' <=> BaseInv
  BY <1>1, <1>2 DEF BaseInv, TypeOK, FeedInv, Appeared, Fetched, Incremental
<1>4. VersionInv' <=> VersionInv
  BY <1>1 DEF VersionInv, Lags
<1>5. CoverInv' <=> CoverInv
  BY <1>1 DEF CoverInv, Covered, InStep, RunCovers, Working, Settled, ToDelete, ToWrite
<1>6. QED BY <1>1, <1>3, <1>4, <1>5 DEF SyncInv, Alone

(* Every step keeps the invariant.                                         *)
LEMMA StepSync ==
  ASSUME SyncInv, [Next]_vars
  PROVE  SyncInv'
<1>1. CASE \E p \in Paths, c \in Contents \union {Nothing} : SourceChange(p, c)
  BY <1>1, SourceKeeps
<1>2. ASSUME NEW r \in deployment.crawlers, RunStep(r) \/ RunCrash(r)
      PROVE  SyncInv'
  BY <1>2, ItemKeeps, RunKeeps DEF RunStep
<1>3. CASE UNCHANGED vars
  BY <1>3, StutterKeeps
<1>4. QED BY <1>1, <1>2, <1>3 DEF Next

(* SyncInv is an invariant of every deployment.                            *)
THEOREM SyncInvariant == Spec => []SyncInv
<1>1. Init => SyncInv
  BY InitSync
<1>2. SyncInv /\ [Next]_vars => SyncInv'
  BY StepSync
<1>3. QED BY <1>1, <1>2, PTL DEF Spec

-----------------------------------------------------------------------------
(* The properties.                                                         *)

(* Types: what is put was fetched, what is discovered has a version, and   *)
(* the change feed never outruns its bound, in every deployment.           *)
THEOREM SyncTypeCorrect == Spec => []TypeOK
<1>1. SyncInv => TypeOK
  BY DEF SyncInv, BaseInv
<1>2. QED BY <1>1, SyncInvariant, PTL

(* VersionsLag holds wherever a change token belongs to one change, for    *)
(* any number of crawlers, of failing calls and of runs that die: _process *)
(* stores with the bytes of a later fetch a version that is at most older. *)
THEOREM SyncVersionsLag == Spec => [](~deployment.contentVersions => VersionsLag)
<1>1. SyncInv => (~deployment.contentVersions => VersionsLag)
  BY DEF SyncInv, VersionInv, Lags, VersionsLag, VersionOf
<1>2. QED BY <1>1, SyncInvariant, PTL

(* CheckpointCovers holds for full runs, which keep no checkpoint, and for *)
(* incremental ones of one crawler whose calls do not fail, however often  *)
(* the source changes under them and wherever they die.                    *)
THEOREM SyncCheckpointCovers ==
  Spec => [](Alone \/ ~deployment.incremental => CheckpointCovers)
<1>1. SyncInv /\ Alone => CheckpointCovers
  BY DEF SyncInv, CoverInv, Covered, CheckpointCovers
<1>2. SyncInv /\ ~deployment.incremental => CheckpointCovers
  <2> SUFFICES ASSUME SyncInv, ~deployment.incremental, NEW p \in Paths,
                      changed[p] <= checkpoint
               PROVE  InStep(p)
    BY DEF CheckpointCovers
  <2>1. checkpoint = 0 /\ changed[p] \in Nat
    BY DEF SyncInv, BaseInv, Incremental, TypeOK
  <2>2. source[p] = Nothing /\ docs[p] = Nothing
    BY <2>1 DEF SyncInv, BaseInv, Appeared
  <2>3. QED BY <2>2 DEF InStep
<1>3. QED BY <1>1, <1>2, SyncInvariant, PTL
=============================================================================
