----------------------------- MODULE SyncEngine -----------------------------
(***************************************************************************)
(* The connector SDK's SyncEngine: runs of fs-crawler that mirror a source *)
(* into a namespace through the ingest API.  A full run discovers every    *)
(* item, processes them concurrently and, with prune, deletes what it did  *)
(* not discover; an incremental run asks the source for what changed since *)
(* the checkpoint, processes the items, applies the deletes and stores the *)
(* new checkpoint.  The source changes while a run works, calls fail, a    *)
(* run may die, and nothing keeps two runs from overlapping.               *)
(*                                                                         *)
(* The server is the documents it serves: what a put or a delete does      *)
(* inside it is the subject of Corpus.                                     *)
(***************************************************************************)
EXTENDS Naturals, FiniteSets

CONSTANTS
  Paths,           \* paths of the source, and of the namespace
  Contents,        \* what a document may hold (and its checksum)
  Nothing,         \* no document, no version
  Runs,            \* crawler processes
  Deployments,     \* how the connector is run in the instance
  Concurrency,     \* slots of the engine's semaphore
  MaxChanges,      \* bound: changes of the source
  MaxFailures,     \* bound: failing fetches and API calls
  MaxCrashes       \* bound: runs that die

ASSUME BoundAssumption ==
  /\ Concurrency \in Nat \ {0}
  /\ MaxChanges \in Nat /\ MaxFailures \in Nat /\ MaxCrashes \in Nat
(* An IncrementalConnector or not; with --prune or not; change tokens that *)
(* are derived from the bytes (an S3 ETag), or one for each change; the    *)
(* crawlers that may overlap; and how often the world disturbs them.       *)
Deployment ==
  [incremental: BOOLEAN, prune: BOOLEAN, contentVersions: BOOLEAN,
   crawlers: SUBSET Runs, files: SUBSET Paths,
   changes: 0..MaxChanges, failures: 0..MaxFailures, crashes: 0..MaxCrashes]
ASSUME DeploymentAssumption == Deployments \subseteq Deployment
ASSUME NothingAssumption == Nothing \notin Paths \union Contents

VARIABLES
  deployment,  \* the one at hand
  source,      \* path -> the document at the source
  changed,     \* path -> position in the source's change feed, 0 for never
  docs,        \* path -> the document the server has: checksum and version
  checkpoint,  \* the cursor the server keeps for the connector
  run,         \* crawler -> its state
  failures, crashes   \* what happened so far, for the bounds

vars == <<deployment, source, changed, docs, checkpoint, run, failures, crashes>>

Clock == CHOOSE n \in 0..MaxChanges :
           (\A p \in Paths : changed[p] <= n) /\ (n = 0 \/ \E p \in Paths : changed[p] = n)

Versions == Contents \union 1..MaxChanges \union {Nothing}
VersionOf(p) == IF deployment.contentVersions THEN source[p] ELSE changed[p]

Doc == [checksum: Contents, version: Versions]
ASSUME AbsentAssumption == Nothing \notin Doc

(* The work on one discovered item: its version, what stat answered, and   *)
(* the bytes that were fetched.                                            *)
Task == [pc: {"none", "queued", "fetch", "put"}, version: Versions,
         existing: Doc \union {Nothing}, bytes: Contents \union {Nothing}]

NoTask == [pc |-> "none", version |-> Nothing, existing |-> Nothing,
           bytes |-> Nothing]

RunState ==
  [pc: {"idle", "changes", "items", "list", "delete", "checkpoint"},
   task: [Paths -> Task], seen: SUBSET Paths, doomed: SUBSET Paths,
   cursor: 0..MaxChanges]

NoRun == [pc |-> "idle", task |-> [p \in Paths |-> NoTask], seen |-> {},
          doomed |-> {}, cursor |-> 0]

(* Source, documents, cursor and runs have values of the right kind: every *)
(* document has bytes and the version they were discovered under.          *)
TypeOK ==
  /\ deployment \in Deployments
  /\ source \in [Paths -> Contents \union {Nothing}]
  /\ changed \in [Paths -> 0..MaxChanges]
  /\ docs \in [Paths -> Doc \union {Nothing}]
  /\ checkpoint \in 0..MaxChanges
  /\ run \in [Runs -> RunState]
  /\ failures \in 0..MaxFailures /\ crashes \in 0..MaxCrashes

Init ==
  /\ deployment \in Deployments
  /\ source = [p \in Paths |-> Nothing]
  /\ changed = [p \in Paths |-> 0]
  /\ docs = [p \in Paths |-> Nothing]
  /\ checkpoint = 0
  /\ run = [r \in Runs |-> NoRun]
  /\ failures = 0 /\ crashes = 0

Failing == failures < deployment.failures /\ failures' = failures + 1

-----------------------------------------------------------------------------
(* The source: a document appears, changes or goes.                        *)
SourceChange(p, c) ==
  /\ p \in deployment.files /\ Clock < deployment.changes
  /\ source[p] # c
  /\ source' = [source EXCEPT ![p] = c]
  /\ changed' = [changed EXCEPT ![p] = Clock + 1]
  /\ UNCHANGED <<deployment, docs, checkpoint, run, failures, crashes>>

-----------------------------------------------------------------------------
(* sync: discover, or get_checkpoint and discover_changes since then.      *)

Present == {p \in Paths : source[p] # Nothing}

(* A run with these items to process and these paths to delete.            *)
Begin(r, items, doomed, cursor) ==
  /\ run' = [run EXCEPT ![r] =
       [pc |-> "items",
        task |-> [p \in Paths |->
                    IF p \in items
                    THEN [NoTask EXCEPT !.pc = "queued", !.version = VersionOf(p)]
                    ELSE NoTask],
        seen |-> items, doomed |-> doomed, cursor |-> cursor]]
  /\ UNCHANGED <<deployment, source, changed, docs, checkpoint, failures, crashes>>

Discover(r) ==
  /\ run[r].pc = "idle"
  /\ ~deployment.incremental
  /\ Begin(r, Present, {}, 0)

GetCheckpoint(r) ==
  /\ run[r].pc = "idle"
  /\ deployment.incremental
  /\ run' = [run EXCEPT ![r].pc = "changes", ![r].cursor = checkpoint]
  /\ UNCHANGED <<deployment, source, changed, docs, checkpoint, failures, crashes>>

DiscoverChanges(r) ==
  LET since == {p \in Paths : changed[p] > run[r].cursor}
  IN  /\ run[r].pc = "changes"
      /\ Begin(r, since \intersect Present, since \ Present, Clock)

-----------------------------------------------------------------------------
(* _process, one item under the semaphore.                                 *)

Slots(r) == Cardinality({p \in Paths : run[r].task[p].pc \in {"fetch", "put"}})

TaskDone(r, p) == run' = [run EXCEPT ![r].task[p] = NoTask]

(* Mutant: a document the server has counts as up to date.                 *)
ItemStatTrustsPresence(r, p) ==
  LET task == run[r].task[p]
  IN  /\ task.pc = "queued"
      /\ Slots(r) < Concurrency
      /\ IF docs[p] # Nothing
         THEN TaskDone(r, p)
         ELSE run' = [run EXCEPT ![r].task[p] =
                        [@ EXCEPT !.pc = "fetch", !.existing = docs[p]]]
      /\ UNCHANGED <<deployment, source, changed, docs, checkpoint, failures, crashes>>

(* stat, and L1: the version the server has is the one discovered.         *)
ItemStat(r, p) ==
  LET task == run[r].task[p]
  IN  /\ task.pc = "queued"
      /\ Slots(r) < Concurrency
      /\ IF docs[p] # Nothing /\ docs[p].version = task.version
         THEN TaskDone(r, p)
         ELSE run' = [run EXCEPT ![r].task[p] =
                        [@ EXCEPT !.pc = "fetch", !.existing = docs[p]]]
      /\ UNCHANGED <<deployment, source, changed, docs, checkpoint, failures, crashes>>

(* Mutant: an item that is gone is fetched as if it were there.            *)
ItemFetchOfGone(r, p) ==
  LET task == run[r].task[p]
  IN  /\ task.pc = "fetch"
      /\ IF task.existing # Nothing /\ task.existing.checksum = source[p]
         THEN TaskDone(r, p)
         ELSE run' = [run EXCEPT ![r].task[p] =
                        [@ EXCEPT !.pc = "put", !.bytes = source[p]]]
      /\ UNCHANGED <<deployment, source, changed, docs, checkpoint, failures, crashes>>

(* fetch the bytes as they are now, and skip the ingest of unchanged ones. *)
(* An item that is gone by now raises, and counts as failed.               *)
ItemFetch(r, p) ==
  LET task == run[r].task[p]
  IN  /\ task.pc = "fetch"
      /\ IF \/ source[p] = Nothing
            \/ task.existing # Nothing /\ task.existing.checksum = source[p]
         THEN TaskDone(r, p)
         ELSE run' = [run EXCEPT ![r].task[p] =
                        [@ EXCEPT !.pc = "put", !.bytes = source[p]]]
      /\ UNCHANGED <<deployment, source, changed, docs, checkpoint, failures, crashes>>

(* Mutant: the version is that of the put, not that of the discovery.      *)
ItemPutLatestVersion(r, p) ==
  LET task == run[r].task[p]
  IN  /\ task.pc = "put"
      /\ docs' = [docs EXCEPT ![p] = [checksum |-> task.bytes,
                                      version |-> VersionOf(p)]]
      /\ TaskDone(r, p)
      /\ UNCHANGED <<deployment, source, changed, checkpoint, failures, crashes>>

(* put_document with the bytes of the fetch and the version of discovery.  *)
ItemPut(r, p) ==
  LET task == run[r].task[p]
  IN  /\ task.pc = "put"
      /\ docs' = [docs EXCEPT ![p] = [checksum |-> task.bytes,
                                      version |-> task.version]]
      /\ TaskDone(r, p)
      /\ UNCHANGED <<deployment, source, changed, checkpoint, failures, crashes>>

(* Any of the three calls raises: the item is reported as failed and left. *)
(* A put that timed out may have been served all the same.                 *)
ItemFail(r, p) ==
  LET task == run[r].task[p]
  IN  /\ task.pc # "none"
      /\ Failing
      /\ \/ UNCHANGED docs
         \/ /\ task.pc = "put"
            /\ docs' = [docs EXCEPT ![p] = [checksum |-> task.bytes,
                                            version |-> task.version]]
      /\ TaskDone(r, p)
      /\ UNCHANGED <<deployment, source, changed, checkpoint, crashes>>

(* gather returns once every item is done.                                 *)
ItemsDone(r) ==
  /\ run[r].pc = "items"
  /\ \A p \in Paths : run[r].task[p].pc = "none"
  /\ run' = IF ~deployment.incremental /\ ~deployment.prune THEN [run EXCEPT ![r] = NoRun]
            ELSE [run EXCEPT ![r].pc = IF deployment.incremental THEN "delete" ELSE "list"]
  /\ UNCHANGED <<deployment, source, changed, docs, checkpoint, failures, crashes>>

-----------------------------------------------------------------------------
(* _prune_missing: list the namespace once; a failing list ends the run.   *)
PruneList(r) ==
  /\ run[r].pc = "list"
  /\ \/ /\ run' = [run EXCEPT
             ![r].pc = "delete",
             ![r].doomed = {p \in Paths : docs[p] # Nothing} \ run[r].seen]
        /\ UNCHANGED failures
     \/ Failing /\ run' = [run EXCEPT ![r] = NoRun]
  /\ UNCHANGED <<deployment, source, changed, docs, checkpoint, crashes>>

(* _delete: one path after the other; a delete that fails is left.         *)
DeletePath(r, p) ==
  /\ run[r].pc = "delete"
  /\ p \in run[r].doomed
  /\ \/ docs' = [docs EXCEPT ![p] = Nothing] /\ UNCHANGED failures
     \/ Failing /\ docs' \in {docs, [docs EXCEPT ![p] = Nothing]}
  /\ run' = [run EXCEPT ![r].doomed = @ \ {p}]
  /\ UNCHANGED <<deployment, source, changed, checkpoint, crashes>>

DeletesDone(r) ==
  /\ run[r].pc = "delete"
  /\ run[r].doomed = {}
  /\ run' = IF deployment.incremental THEN [run EXCEPT ![r].pc = "checkpoint"]
            ELSE [run EXCEPT ![r] = NoRun]
  /\ UNCHANGED <<deployment, source, changed, docs, checkpoint, failures, crashes>>

(* Mutant: the cursor is that of the end of the run, not of its start.     *)
PutCheckpointAtEnd(r) ==
  /\ run[r].pc = "checkpoint"
  /\ checkpoint' = Clock
  /\ run' = [run EXCEPT ![r] = NoRun]
  /\ UNCHANGED <<deployment, source, changed, docs, failures, crashes>>

PutCheckpoint(r) ==
  /\ run[r].pc = "checkpoint"
  /\ \/ checkpoint' = run[r].cursor /\ UNCHANGED failures
     \/ Failing /\ checkpoint' \in {checkpoint, run[r].cursor}
  /\ run' = [run EXCEPT ![r] = NoRun]
  /\ UNCHANGED <<deployment, source, changed, docs, crashes>>

RunCrash(r) ==
  /\ run[r].pc # "idle"
  /\ crashes < deployment.crashes
  /\ crashes' = crashes + 1
  /\ run' = [run EXCEPT ![r] = NoRun]
  /\ UNCHANGED <<deployment, source, changed, docs, checkpoint, failures>>

RunStep(r) ==
  \/ Discover(r) \/ GetCheckpoint(r) \/ DiscoverChanges(r) \/ ItemsDone(r)
  \/ PruneList(r) \/ DeletesDone(r) \/ PutCheckpoint(r)
  \/ \E p \in Paths : ItemStat(r, p) \/ ItemFetch(r, p) \/ ItemPut(r, p)
                      \/ ItemFail(r, p) \/ DeletePath(r, p)

Next ==
  \/ \E p \in Paths, c \in Contents \union {Nothing} : SourceChange(p, c)
  \/ \E r \in deployment.crawlers : RunStep(r) \/ RunCrash(r)

Spec == Init /\ [][Next]_vars

(* fs-crawler is scheduled again and again, and a run goes on to its end.  *)
FairSpec ==
  Spec /\ \A r \in Runs : WF_vars(r \in deployment.crawlers /\ RunStep(r))

-----------------------------------------------------------------------------
(* Properties.                                                             *)

InStep(p) ==
  IF source[p] = Nothing THEN docs[p] = Nothing
  ELSE docs[p] # Nothing /\ docs[p].checksum = source[p]

(* Runs that repeat make the documents those of the source, once the       *)
(* source and the failures stop.                                           *)
SyncConverges == <>[](\A p \in Paths : InStep(p))

(* The checkpoint covers what it claims: while no run is under way, every  *)
(* document the source has not changed since the checkpoint is in step     *)
(* with the source, so that the next incremental run may pass over it.     *)
CheckpointCovers ==
  (\A r \in Runs : run[r].pc = "idle")
    => \A p \in Paths : changed[p] <= checkpoint => InStep(p)

(* With tokens of their own for each change, the L1 check skips nothing it *)
(* should not: a document the server has under the source's present        *)
(* version has the source's present bytes, although the version was read   *)
(* at discovery and the bytes later.                                       *)
VersionsLag ==
  \A p \in Paths : docs[p] # Nothing /\ docs[p].version = VersionOf(p)
                     => docs[p].checksum = source[p]

=============================================================================
