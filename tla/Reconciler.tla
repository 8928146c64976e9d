----------------------------- MODULE Reconciler -----------------------------
(***************************************************************************)
(* The scheduled sweep: list the originals, then the catalog rows, enqueue *)
(* the originals whose row is missing, tombstoned or of another etag, and  *)
(* tombstone the old live rows whose original was not listed.              *)
(***************************************************************************)
EXTENDS Stores

CONSTANTS
  Registered,       \* the catalog has a record of the namespace
  Unquoted          \* Unquoted[p]: the path that unquote_plus makes of p

ASSUME ReconcilerAssumption ==
  Registered \in BOOLEAN /\ Unquoted \in [Paths -> Paths]

VARIABLE sweep

SweepState ==
  [pc: {"idle", "rows", "heal", "tombstone"},
   listed: [Paths -> Contents \union {Nothing}],   \* the S3 snapshot
   enqueue: SUBSET Paths,                          \* direction 1, to do
   orphans: SUBSET Paths,                          \* direction 2, to do
   path: Paths \union {Nothing}, raw: Row \union {Nothing},
   live: SUBSET Paths]                \* history: live in some replica at first

NoSweep == [pc |-> "idle", listed |-> [p \in Paths |-> Nothing],
            enqueue |-> {}, orphans |-> {}, path |-> Nothing,
            raw |-> Nothing, live |-> {}]

ReconcilerTypeOK == sweep \in SweepState

ReconcilerInit == sweep = NoSweep

(* The sweep goes on with what is left to heal, or ends.                   *)
SweepRest(s) ==
  IF s.enqueue \union s.orphans = {} THEN NoSweep ELSE [s EXCEPT !.pc = "heal"]

(* Mutant: a tombstoned row counts as a row.                               *)
DriftedIgnoresTombstones(listed, rows) ==
  {p \in Paths : /\ listed[p] # Nothing
                 /\ rows[p] = Nothing \/ rows[p].etag # listed[p]}

(* Direction 1: an original without a live row of its etag.                *)
Drifted(listed, rows) ==
  {p \in Paths : /\ listed[p] # Nothing
                 /\ ~Live(rows[p]) \/ rows[p].etag # listed[p]}

(* Mutant: no grace window.                                                *)
OrphanedNoGrace(listed, rows) ==
  {p \in Paths : Live(rows[p]) /\ listed[p] = Nothing}

(* Direction 2: a live row, its original not listed, past the grace window *)
Orphaned(listed, rows) ==
  {p \in Paths : Live(rows[p]) /\ listed[p] = Nothing /\ ~rows[p].fresh}

-----------------------------------------------------------------------------
(* Fix the cutoff and list the originals.  A namespace without originals   *)
(* is swept only when the catalog has a record of it, which                *)
(* _catalog_namespaces finds.                                              *)
SweepList ==
  /\ sweep.pc = "idle"
  /\ Registered \/ \E p \in Paths : obj[p] # Nothing
  /\ sweep' = [NoSweep EXCEPT !.pc = "rows", !.listed = obj,
                              !.live = {p \in Paths : \E r \in Seen(p) : Live(r)}]
  /\ UNCHANGED storeVars

(* Read the namespace's rows, tombstoned ones included.                    *)
SweepRows ==
  /\ sweep.pc = "rows"
  /\ \E late \in SUBSET {p \in Paths : replica[p] # row[p]} :
       LET rows == [p \in Paths |-> IF p \in late THEN replica[p] ELSE row[p]]
       IN  sweep' = SweepRest(
             [sweep EXCEPT !.enqueue = Drifted(sweep.listed, rows),
                           !.orphans = Orphaned(sweep.listed, rows)])
  /\ UNCHANGED storeVars

(* The message holds the key as it is; the worker decodes it as it does    *)
(* the encoded keys of S3's own events.                                    *)
SweepEnqueue(p) ==
  /\ sweep.pc = "heal"
  /\ p \in sweep.enqueue
  /\ Notify(Unquoted[p])
  /\ sweep' = SweepRest([sweep EXCEPT !.enqueue = @ \ {p}])
  /\ UNCHANGED <<obj, row, replica, text, owner, stored, budget>>

(* delete_entry(hard=False): read the raw row, if there is one ...         *)
SweepReadRaw(p) ==
  /\ sweep.pc = "heal"
  /\ sweep.enqueue = {}
  /\ p \in sweep.orphans
  /\ \E r \in Seen(p) :
       LET rest == [sweep EXCEPT !.orphans = @ \ {p}]
       IN  sweep' = IF r = Nothing
                    THEN SweepRest(rest)
                    ELSE [rest EXCEPT !.pc = "tombstone", !.path = p, !.raw = r]
  /\ UNCHANGED storeVars

(* ... and put it back tombstoned.                                         *)
SweepTombstone ==
  /\ sweep.pc = "tombstone"
  /\ Tombstone(sweep.path, sweep.raw)
  /\ sweep' = SweepRest([sweep EXCEPT !.path = Nothing, !.raw = Nothing])
  /\ UNCHANGED <<obj, text, queue, owner, stored>>

SweepCrash ==
  /\ sweep.pc # "idle"
  /\ Spend("crash")
  /\ sweep' = NoSweep
  /\ UNCHANGED <<obj, row, replica, text, queue, owner, stored>>

SweepStep ==
  \/ SweepRows \/ SweepTombstone
  \/ \E p \in Paths : SweepEnqueue(p) \/ SweepReadRaw(p)

=============================================================================
