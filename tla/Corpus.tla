------------------------------- MODULE Corpus -------------------------------
(***************************************************************************)
(* The ingestion side of agentic-fs: the API, the worker and the           *)
(* reconciler over the shared object store, catalog and extract queue,     *)
(* with writers that bypass the API.                                       *)
(***************************************************************************)
EXTENDS IngestApi, Worker, Reconciler

CONSTANT MaxActive  \* bound: how many operations overlap

ASSUME CorpusAssumption == MaxActive \in Nat \ {0}

vars == <<storeVars, client, worker, sweep>>

(* The stores hold what their contracts say, and every process is at a     *)
(* step of its handler, with values of the right kind.                     *)
TypeOK ==
  StoresTypeOK /\ IngestApiTypeOK /\ WorkerTypeOK /\ ReconcilerTypeOK

Init == StoresInit /\ IngestApiInit /\ WorkerInit /\ ReconcilerInit

Active ==
  Cardinality({c \in Clients : client[c].pc # "idle"})
  + Cardinality({w \in Workers : worker[w].pc # "idle"})
  + (IF sweep.pc = "idle" THEN 0 ELSE 1)

Idle == Active = 0

CanBegin == Active < MaxActive

(* An original put into, or removed from, the bucket directly.  Its event  *)
(* may be missed.                                                          *)
ExternalPut(p, c) ==
  /\ Spend("external")
  /\ StoreOriginal(p, c)
  /\ Notify(p) \/ UNCHANGED queue
  /\ UNCHANGED <<row, replica, text, owner, client, worker, sweep>>

ExternalDelete(p) ==
  /\ Spend("external")
  /\ obj[p] # Nothing
  /\ DeleteOriginal(p)
  /\ UNCHANGED <<row, replica, text, queue, owner, stored, client, worker, sweep>>

(* The cutoff of the next sweep passes: every row written so far is older. *)
(* updated_at is taken when a PUT begins, and no request outlives the      *)
(* window (30 s against 900 s), so none is under way; no replica is that   *)
(* late either.                                                            *)
GraceElapses ==
  /\ sweep.pc = "idle"
  /\ \A c \in Clients : client[c].pc = "idle"
  /\ replica = row
  /\ \E p \in Paths : row[p] # Nothing /\ row[p].fresh
  /\ row' = [p \in Paths |-> IF row[p] = Nothing THEN Nothing
                             ELSE [row[p] EXCEPT !.fresh = FALSE]]
  /\ replica' = row'
  /\ UNCHANGED <<obj, text, queue, owner, stored, budget,
                 client, worker, sweep>>

ClientNext(c) ==
  /\ (CanBegin /\ ClientBegin(c)) \/ ClientStep(c) \/ ClientCrash(c)
  /\ UNCHANGED <<worker, sweep>>

WorkerNext(w) ==
  /\ \/ CanBegin /\ \E m \in Message : Receive(w, m)
     \/ WorkerStep(w)
     \/ WorkerCrash(w)
  /\ UNCHANGED <<client, sweep>>

SweepNext ==
  /\ (CanBegin /\ SweepList) \/ SweepStep \/ SweepCrash
  /\ UNCHANGED <<client, worker>>

Next ==
  \/ \E c \in Clients : ClientNext(c)
  \/ \E w \in Workers : WorkerNext(w)
  \/ SweepNext
  \/ \E p \in Paths : ExternalDelete(p) \/ \E c \in Contents : ExternalPut(p, c)
  \/ GraceElapses
  \/ \E p \in Paths : Replicate(p) /\ UNCHANGED <<client, worker, sweep>>

Spec == Init /\ [][Next]_vars

(* A handler that was started goes on until it ends or crashes; the queue  *)
(* keeps delivering what waits in it; the schedule keeps starting sweeps,  *)
(* which are an hour apart, longer than the grace window; replicas catch   *)
(* up.                                                                     *)
DeliverPath(p) ==
  \E w \in Workers, m \in Message :
    /\ m.path = p
    /\ CanBegin
    /\ Receive(w, m)
    /\ UNCHANGED <<client, sweep>>

Fairness ==
  /\ \A c \in Clients : WF_vars(ClientStep(c) /\ UNCHANGED <<worker, sweep>>)
  /\ \A w \in Workers : WF_vars(WorkerStep(w) /\ UNCHANGED <<client, sweep>>)
  /\ \A p \in Paths : SF_vars(DeliverPath(p))
  /\ WF_vars(CanBegin /\ SweepList /\ UNCHANGED <<client, worker>>)
  /\ WF_vars(SweepStep /\ UNCHANGED <<client, worker>>)
  /\ SF_vars(GraceElapses)
  /\ \A p \in Paths : WF_vars(Replicate(p) /\ UNCHANGED <<client, worker, sweep>>)

FairSpec == Spec /\ Fairness

-----------------------------------------------------------------------------
(* Properties.                                                             *)

(* Whatever the API, the worker and the reconciler interleave, crash,      *)
(* repeat or read late, the text that a row read at a path leads to was    *)
(* extracted from bytes stored at that path, never from another document:  *)
(* entry ids are not shared.                                               *)
NoForeignText ==
  \A p \in Paths : \A r \in Seen(p) : r # Nothing =>
    \A n \in Pages : text[r.id][n] \in stored[p] \union {Nothing}

(* The inductive strengthening of TypeOK and NoForeignText.  Every id is   *)
(* used for one path only: by the rows, by the processes, and by the rows  *)
(* they are about to write back.                                           *)
OwnedBy(p, id) == id # Nothing => p \in Paths /\ owner[id] = p
RowOwnedBy(p, r) == r # Nothing => p \in Paths /\ owner[r.id] = p

(* Bytes and text only ever come from what was stored at the path.         *)
TextStored ==
  \A id \in EntryIds, n \in Pages :
    text[id][n] # Nothing =>
      owner[id] \in Paths /\ text[id][n] \in stored[owner[id]]

StoresInv ==
  /\ \A p \in Paths : RowOwnedBy(p, row[p]) /\ RowOwnedBy(p, replica[p])
  /\ \A p \in Paths : obj[p] # Nothing => obj[p] \in stored[p]
  /\ TextStored

(* What each process holds fits where it is, and is its path's.            *)
ClientInv(c) ==
  /\ client[c].pc # "idle" => client[c].path \in Paths
  /\ client[c].pc \in {"store", "pages", "entry"} =>
       client[c].data \in Contents /\ client[c].id \in EntryIds
  /\ client[c].pc = "tombstone" => client[c].raw \in Row
  /\ client[c].pc = "text" => client[c].id \in EntryIds
  /\ client[c].pc = "pages" => client[c].data \in stored[client[c].path]
  /\ OwnedBy(client[c].path, client[c].id)
  /\ RowOwnedBy(client[c].path, client[c].raw)

WorkerInv(w) ==
  /\ worker[w].pc # "idle" => worker[w].path \in Paths
  /\ worker[w].pc \in {"stat", "pages", "save", "write"} =>
       worker[w].data \in Contents /\ worker[w].data \in stored[worker[w].path]
  /\ worker[w].pc \in {"pages", "save", "write"} => worker[w].id \in EntryIds
  /\ worker[w].pc = "write" => worker[w].raw \in Row
  /\ OwnedBy(worker[w].path, worker[w].id)
  /\ RowOwnedBy(worker[w].path, worker[w].raw)

SweepInv ==
  /\ sweep.pc = "tombstone" => sweep.path \in Paths /\ sweep.raw \in Row
  /\ RowOwnedBy(sweep.path, sweep.raw)

IInv ==
  /\ TypeOK
  /\ StoresInv
  /\ \A c \in Clients : ClientInv(c)
  /\ \A w \in Workers : WorkerInv(w)
  /\ SweepInv

(* The sweep's write turns the live row of a path into a tombstone.        *)
SweepHides(p) ==
  sweep.pc = "tombstone" /\ sweep'.pc # "tombstone" /\ Live(row[p]) /\ ~Live(row'[p])

(* A sweep tombstones only documents that already had a live row, in some  *)
(* replica, when it listed the originals: the grace window keeps a         *)
(* document that was uploaded between its two listings out of its reach.   *)
SweepHidesOnlyOldDocuments ==
  [][\A p \in Paths : SweepHides(p) => p \in sweep.live]_vars

(* What makes it so: while a sweep is under way every row that turns live  *)
(* is fresh, so that what is live and old was live when it began.          *)
GraceInv ==
  /\ sweep.pc # "idle" =>
       \A p \in Paths : \A r \in Seen(p) : Live(r) /\ ~r.fresh => p \in sweep.live
  /\ sweep.orphans \subseteq sweep.live
  /\ sweep.pc = "tombstone" => sweep.path \in sweep.live

(* Nothing is under way and nothing is waiting.                            *)
Settled == Idle /\ \A m \in Message : queue[m] = 0

(* The row is what extracting the stored original yields, and its text is  *)
(* exactly that original's pages; no original, no live row.                *)
InSync(p) ==
  IF obj[p] = Nothing THEN ~Live(row[p])
  ELSE /\ Live(row[p])
       /\ row[p].etag = obj[p] /\ row[p].checksum = obj[p]
       /\ row[p].status = ExtractedStatus(obj[p])
       /\ row[p].pages = ExtractedPages(obj[p])
       /\ \A n \in 1..row[p].pages : text[row[p].id][n] = obj[p]

(* Operations that do not overlap, do not fail and go through the API      *)
(* leave catalog and text in step with the originals once the queue has    *)
(* drained, in whatever order and how often the messages are delivered.    *)
SettledInSync == Settled => \A p \in Paths : InSync(p)

(* Every derived text belongs to the id of a live row.                     *)
NoOrphanText ==
  \A id \in EntryIds : text[id] # NoText =>
    \E p \in Paths : Live(row[p]) /\ row[p].id = id

(* Operations that do not fail leave no derived text behind, either, once  *)
(* the queue has drained: delete_document removes what was extracted.      *)
SettledWithoutOrphans == Settled => NoOrphanText

(* Once the writers stop, existence converges whatever was lost, crashed   *)
(* or raced before: a path has a live row exactly when it has an original. *)
ExistenceConverges ==
  <>[](\A p \in Paths : Live(row[p]) <=> obj[p] # Nothing)

-----------------------------------------------------------------------------
(* What the documentation says and the code does not do: each of these is  *)
(* the PROPERTY of a run that ends in a counterexample.                    *)

Pending(p) == Live(row[p]) /\ row[p].status = "pending"

(* ADR 0009: a row is pending until the worker runs, about seconds.        *)
PendingIsTemporary == \A p \in Paths : Pending(p) ~> ~Pending(p)

ServesCurrentText(p) ==
  Live(row[p]) /\ row[p].status = "extracted" /\ obj[p] # Nothing =>
    \A n \in 1..row[p].pages : text[row[p].id][n] = obj[p]

(* ADR 0011: the catalog converges to S3.  The text of a document that is  *)
(* marked extracted is, in the end, that of the stored original.           *)
TextConverges == <>[](\A p \in Paths : ServesCurrentText(p))

(* extract_object: a redelivery overwrites the derived text rather than    *)
(* duplicating it, so that a document never has text under two ids.        *)
RedeliveryOverwrites ==
  \A i, j \in EntryIds :
    owner[i] = owner[j] /\ text[i] # NoText /\ text[j] # NoText => i = j

=============================================================================
