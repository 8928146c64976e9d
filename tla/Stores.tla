------------------------------- MODULE Stores -------------------------------
(***************************************************************************)
(* The two stores every agentic-fs process shares, and the extract queue   *)
(* between them:                                                           *)
(*                                                                         *)
(*   obj    the originals in the object store (tenants/...): canonical     *)
(*   text   the derived pages (derived/text/<entry_id>/<page>)             *)
(*   row    the catalog rows, one per path, tombstoned rather than deleted *)
(*   replica  the copy of them a read may still be answered from           *)
(*   queue  the SQS extract queue: object-created events and the           *)
(*          reconciler's requests                                          *)
(*                                                                         *)
(* One namespace of one tenant is modelled: every operation of the code    *)
(* names its tenant and namespace, and the sweep visits namespaces one     *)
(* after the other.  A content stands for the bytes of a document, for     *)
(* their etag and for their checksum: equal bytes have equal ones.         *)
(***************************************************************************)
EXTENDS Naturals, FiniteSets

CONSTANTS
  Paths,            \* document paths
  Contents,         \* what a document may hold
  EntryIds,         \* the ids new_ulid can mint
  Nothing,          \* no object, no row, no page, no id
  PageCount,        \* PageCount[c]: pages an extractor reads out of content c
  MaxPage,          \* the most pages a document has
  MaxReceive,       \* deliveries before a message is dead-lettered
  MaxQueued,        \* bound: more copies of one message are not told apart
  InitialBudgets    \* bound: how often the environment may do each thing

(* What the environment does, each kind a bounded number of times. *)
BudgetKinds ==
  {"put", "delete", "external", "lost", "duplicate", "crash", "late"}

ASSUME PageAssumption ==
  /\ MaxPage \in Nat \ {0}
  /\ PageCount \in [Contents -> 1..MaxPage]
ASSUME QueueAssumption == MaxReceive \in Nat \ {0} /\ MaxQueued \in Nat \ {0}
ASSUME BudgetAssumption == InitialBudgets \subseteq [BudgetKinds -> Nat]
VARIABLES
  obj,      \* path -> the stored original
  row,      \* path -> catalog row, as last written
  replica,  \* path -> the row a late replica of the table still has
  text,     \* entry id -> page number -> the content the page was read from
  queue,    \* message -> copies of it waiting
  owner,    \* entry id -> the path it was minted for
  stored,   \* history: path -> every content ever stored there
  budget    \* what is left of the initial one

storeVars == <<obj, row, replica, text, queue, owner, stored, budget>>

Pages == 1..MaxPage
Statuses == {"pending", "extracted", "catalog_only"}

(* A CatalogEntry, with the fields the protocols read: fresh says that     *)
(* updated_at is inside the reconciler's grace window.                     *)
Row == [id: EntryIds, etag: Contents \union {Nothing}, checksum: Contents,
        status: Statuses, pages: 0..MaxPage, deleted: BOOLEAN, fresh: BOOLEAN]

ASSUME NothingAssumption ==
  Nothing \notin Paths \union Contents \union EntryIds \union Row

(* An SQS message: the original it names and how often it was received.    *)
Message == [path: Paths, receives: 0..(MaxReceive - 1)]

NoText == [n \in Pages |-> Nothing]

StoresTypeOK ==
  /\ obj \in [Paths -> Contents \union {Nothing}]
  /\ row \in [Paths -> Row \union {Nothing}]
  /\ replica \in [Paths -> Row \union {Nothing}]
  /\ text \in [EntryIds -> [Pages -> Contents \union {Nothing}]]
  /\ queue \in [Message -> 0..MaxQueued]
  /\ owner \in [EntryIds -> Paths \union {Nothing}]
  /\ stored \in [Paths -> SUBSET Contents]
  /\ budget \in [BudgetKinds -> Nat]

StoresInit ==
  /\ obj = [p \in Paths |-> Nothing]
  /\ row = [p \in Paths |-> Nothing]
  /\ replica = [p \in Paths |-> Nothing]
  /\ text = [id \in EntryIds |-> NoText]
  /\ queue = [m \in Message |-> 0]
  /\ owner = [id \in EntryIds |-> Nothing]
  /\ stored = [p \in Paths |-> {}]
  /\ budget \in InitialBudgets

Spend(kind) ==
  /\ budget[kind] > 0
  /\ budget' = [budget EXCEPT ![kind] = @ - 1]

-----------------------------------------------------------------------------
(* The object store and the queue.                                         *)

Enqueue(m) == [queue EXCEPT ![m] = IF @ < MaxQueued THEN @ + 1 ELSE @]

(* put of an original replaces the object; S3 then emits an object-created  *)
(* event, which EventBridge delivers to the extract queue.                 *)
StoreOriginal(p, c) ==
  /\ obj' = [obj EXCEPT ![p] = c]
  /\ stored' = [stored EXCEPT ![p] = @ \union {c}]

Notify(p) == queue' = Enqueue([path |-> p, receives |-> 0])

DeleteOriginal(p) == obj' = [obj EXCEPT ![p] = Nothing]

(* One iteration of run_extraction's loop: page n of content c.            *)
StorePage(id, n, c) == text' = [text EXCEPT ![id][n] = c]

DeleteDerivedText(id) == text' = [text EXCEPT ![id] = NoText]

-----------------------------------------------------------------------------
(* The catalog.                                                            *)

Live(r) == IF r = Nothing THEN FALSE ELSE ~r.deleted

(* get_item and query ask for no consistent read: what they return of p    *)
(* may be what a late replica has.                                         *)
Seen(p) == {row[p], replica[p]}

(* What get_entry may return: a tombstoned row reads as absent.            *)
GetEntry(p) == {IF Live(r) THEN r ELSE Nothing : r \in Seen(p)}

(* The row a put_entry writes: it replaces whatever was there.             *)
NewRow(id, etag, checksum, status, pages) ==
  [id |-> id, etag |-> etag, checksum |-> checksum, status |-> status,
   pages |-> pages, deleted |-> FALSE, fresh |-> TRUE]

WriteRow(p, r) ==
  /\ row' = [row EXCEPT ![p] = r]
  /\ \/ replica' = [replica EXCEPT ![p] = r] /\ UNCHANGED budget
     \/ Spend("late") /\ UNCHANGED replica

PutEntry(p, r) == WriteRow(p, r)

(* The write halves of delete_entry and set_extraction: each puts back the *)
(* whole row r it read a step earlier, whatever the table holds by now.    *)
Tombstone(p, r) == WriteRow(p, [r EXCEPT !.deleted = TRUE])

SetExtraction(p, r, status, pages) ==
  WriteRow(p, [r EXCEPT !.status = status, !.pages = pages, !.fresh = TRUE])

(* The replica catches up with what was written to p.                      *)
Replicate(p) ==
  /\ replica[p] # row[p]
  /\ replica' = [replica EXCEPT ![p] = row[p]]
  /\ UNCHANGED <<obj, row, text, queue, owner, stored, budget>>

(* existing.entry_id if existing else new_ulid().  The ids are finite:     *)
(* the step waits when none is left, and the instances have enough.        *)
FreshIdCollides == CHOOSE id \in EntryIds : TRUE   \* mutant: no randomness

FreshId == CHOOSE id \in EntryIds : owner[id] = Nothing

ChooseEntryId(p, existing, id) ==
  \/ existing # Nothing /\ id = existing /\ UNCHANGED owner
  \/ /\ existing = Nothing
     /\ \E free \in EntryIds : owner[free] = Nothing
     /\ id = FreshId
     /\ owner' = [owner EXCEPT ![id] = p]

=============================================================================
