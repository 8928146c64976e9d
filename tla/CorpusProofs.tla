---------------------------- MODULE CorpusProofs ----------------------------
(***************************************************************************)
(* Theorems about Corpus, for every value of its constants: IInv is an     *)
(* inductive invariant, and it implies type correctness and NoForeignText; *)
(* with GraceInv it implies SweepHidesOnlyOldDocuments; and of serial      *)
(* systems, with SerialInv, it implies SettledInSync and                   *)
(* SettledWithoutOrphans.                                                  *)
(*                                                                         *)
(* Layout: what each write of the stores preserves, one lemma per action   *)
(* of put_document and delete_document, of the worker and of the           *)
(* reconciler, and the theorems.  Each action's lemma shows that the       *)
(* stores stay well-formed, that the histories owner and stored only grow  *)
(* (HistoryGrows, which preserves what the other processes hold) and that  *)
(* the acting process is left in a good state.  The last part goes through *)
(* the actions again for serial systems: what one operation leaves at its  *)
(* path, step by step, and that the other paths stay as they were.         *)
(***************************************************************************)
EXTENDS Corpus, FiniteSetTheorems, TLAPS

(* Ids are handed out once: the id a step of put_document or               *)
(* extract_object goes on with belongs to its path, and no id changes its  *)
(* path.                                                                   *)
LEMMA ChooseEntryIdOwned ==
  ASSUME NEW p \in Paths, NEW existing \in EntryIds \union {Nothing},
         NEW id \in EntryIds,
         owner \in [EntryIds -> Paths \union {Nothing}],
         OwnedBy(p, existing),
         ChooseEntryId(p, existing, id)
  PROVE  /\ owner' \in [EntryIds -> Paths \union {Nothing}]
         /\ owner'[id] = p
         /\ \A i \in EntryIds : owner[i] # Nothing => owner'[i] = owner[i]
<1>1. CASE existing # Nothing /\ id = existing /\ UNCHANGED owner
  BY <1>1 DEF OwnedBy
<1>2. CASE /\ existing = Nothing
           /\ \E free \in EntryIds : owner[free] = Nothing
           /\ id = FreshId
           /\ owner' = [owner EXCEPT ![id] = p]
  <2>1. owner[id] = Nothing
    BY <1>2 DEF FreshId
  <2>2. QED BY <1>2, <2>1
<1>3. QED BY <1>1, <1>2 DEF ChooseEntryId

(* Rows keep their shape through the catalog's three writes.               *)
LEMMA NewRowIsRow ==
  ASSUME NEW id \in EntryIds, NEW etag \in Contents \union {Nothing},
         NEW checksum \in Contents, NEW status \in Statuses,
         NEW pages \in 0..MaxPage
  PROVE  /\ NewRow(id, etag, checksum, status, pages) \in Row
         /\ NewRow(id, etag, checksum, status, pages).id = id
BY DEF NewRow, Row

(* delete_entry puts back a row, with the id of the row it read.           *)
LEMMA TombstoneRow ==
  ASSUME NEW r \in Row
  PROVE  /\ [r EXCEPT !.deleted = TRUE] \in Row
         /\ [r EXCEPT !.deleted = TRUE].id = r.id
BY DEF Row

(* set_extraction puts back a row, with the id of the row it read.         *)
LEMMA ExtractionRow ==
  ASSUME NEW r \in Row, NEW status \in Statuses, NEW pages \in 0..MaxPage
  PROVE  LET new == [r EXCEPT !.status = status, !.pages = pages, !.fresh = TRUE]
         IN  new \in Row /\ new.id = r.id
BY DEF Row

(* Sending a message keeps the queue within its bound.                     *)
LEMMA EnqueueType ==
  ASSUME NEW m \in Message, queue \in [Message -> 0..MaxQueued]
  PROVE  Enqueue(m) \in [Message -> 0..MaxQueued]
BY QueueAssumption DEF Enqueue

(* The budget stays one of natural numbers.                                *)
LEMMA SpendType ==
  ASSUME NEW kind \in BudgetKinds, budget \in [BudgetKinds -> Nat], Spend(kind)
  PROVE  budget' \in [BudgetKinds -> Nat]
BY DEF Spend


-----------------------------------------------------------------------------
(* The histories only grow, so what a process or a store knows about them  *)
(* stays true while other processes step.                                  *)
HistoryGrows ==
  /\ \A i \in EntryIds : owner[i] # Nothing => owner'[i] = owner[i]
  /\ \A p \in Paths : stored[p] \subseteq stored'[p]

(* An id that was minted for a path stays that path's.                     *)
LEMMA OwnedByStable ==
  ASSUME NEW p, NEW id \in EntryIds \union {Nothing}, HistoryGrows,
         OwnedBy(p, id)
  PROVE  id # Nothing => p \in Paths /\ owner'[id] = p
BY NothingAssumption DEF OwnedBy, HistoryGrows

(* So does the id of a row, whoever holds a copy of the row.               *)
LEMMA RowOwnedByStable ==
  ASSUME NEW p, NEW r \in Row \union {Nothing}, HistoryGrows,
         RowOwnedBy(p, r)
  PROVE  r # Nothing => p \in Paths /\ owner'[r.id] = p
BY NothingAssumption DEF RowOwnedBy, HistoryGrows, Row

(* A request keeps its invariant while another process steps.              *)
LEMMA ClientFrame ==
  ASSUME NEW c \in Clients, TypeOK, ClientInv(c), HistoryGrows,
         client'[c] = client[c]
  PROVE  ClientInv(c)'
<1>1. client[c] \in ClientState
  BY DEF TypeOK, IngestApiTypeOK
<1>2. /\ client[c].id \in EntryIds \union {Nothing}
      /\ client[c].raw \in Row \union {Nothing}
  BY <1>1 DEF ClientState
<1>3. OwnedBy(client[c].path, client[c].id)'
  BY <1>2, OwnedByStable DEF ClientInv, OwnedBy
<1>4. RowOwnedBy(client[c].path, client[c].raw)'
  BY <1>2, RowOwnedByStable DEF ClientInv, RowOwnedBy
<1>5. client[c].pc = "pages" => client[c].data \in stored'[client[c].path]
  BY DEF ClientInv, HistoryGrows
<1>6. QED BY <1>3, <1>4, <1>5 DEF ClientInv

(* A worker keeps its invariant while another process steps.               *)
LEMMA WorkerFrame ==
  ASSUME NEW w \in Workers, TypeOK, WorkerInv(w), HistoryGrows,
         worker'[w] = worker[w]
  PROVE  WorkerInv(w)'
<1>1. worker[w] \in WorkerState
  BY DEF TypeOK, WorkerTypeOK
<1>2. /\ worker[w].id \in EntryIds \union {Nothing}
      /\ worker[w].raw \in Row \union {Nothing}
  BY <1>1 DEF WorkerState
<1>3. OwnedBy(worker[w].path, worker[w].id)'
  BY <1>2, OwnedByStable DEF WorkerInv, OwnedBy
<1>4. RowOwnedBy(worker[w].path, worker[w].raw)'
  BY <1>2, RowOwnedByStable DEF WorkerInv, RowOwnedBy
<1>5. worker[w].pc \in {"stat", "pages", "save", "write"} =>
        worker[w].data \in stored'[worker[w].path]
  BY DEF WorkerInv, HistoryGrows
<1>6. QED BY <1>3, <1>4, <1>5 DEF WorkerInv

(* The sweep keeps its invariant while another process steps.              *)
LEMMA SweepFrame ==
  ASSUME TypeOK, SweepInv, HistoryGrows, UNCHANGED sweep
  PROVE  SweepInv'
<1>1. sweep.raw \in Row \union {Nothing}
  BY DEF TypeOK, ReconcilerTypeOK, SweepState
<1>2. RowOwnedBy(sweep.path, sweep.raw)'
  BY <1>1, RowOwnedByStable DEF SweepInv, RowOwnedBy
<1>3. QED BY <1>2 DEF SweepInv

(* A row that was there, written last or still in the replica, belongs to  *)
(* its path afterwards.                                                    *)
LEMMA SeenStable ==
  ASSUME StoresTypeOK, StoresInv, HistoryGrows, NEW p \in Paths,
         NEW r \in Seen(p)
  PROVE  r # Nothing => owner'[r.id] = p
<1>1. r \in Row \union {Nothing} /\ RowOwnedBy(p, r)
  BY DEF StoresTypeOK, StoresInv, Seen
<1>2. QED BY <1>1, RowOwnedByStable

(* Rows nobody writes still belong to their paths.                         *)
LEMMA RowsFrame ==
  ASSUME StoresTypeOK, StoresInv, HistoryGrows, UNCHANGED <<row, replica>>
  PROVE  (\A p \in Paths : RowOwnedBy(p, row[p]) /\ RowOwnedBy(p, replica[p]))'
BY SeenStable DEF RowOwnedBy, Seen

(* Derived text nobody writes still comes from the path of its id.         *)
LEMMA TextFrame ==
  ASSUME StoresTypeOK, StoresInv, HistoryGrows, UNCHANGED text
  PROVE  TextStored'
<1> SUFFICES ASSUME NEW id \in EntryIds, NEW n \in Pages,
                    text[id][n] # Nothing
             PROVE  owner'[id] \in Paths /\ text[id][n] \in stored'[owner'[id]]
  BY DEF TextStored, Pages
<1>1. owner[id] \in Paths /\ text[id][n] \in stored[owner[id]]
  BY DEF StoresInv, TextStored
<1>2. owner'[id] = owner[id]
  BY <1>1, NothingAssumption DEF HistoryGrows
<1>3. QED BY <1>1, <1>2 DEF HistoryGrows

(* Originals nobody writes are still among those stored.                   *)
LEMMA ObjectsFrame ==
  ASSUME StoresInv, HistoryGrows, UNCHANGED obj
  PROVE  \A p \in Paths : obj'[p] # Nothing => obj'[p] \in stored'[p]
BY DEF StoresInv, HistoryGrows

(* A step that writes neither store keeps their invariant.                 *)
LEMMA StoresUntouched ==
  ASSUME StoresInv, UNCHANGED <<obj, row, replica, text, owner, stored>>
  PROVE  StoresInv' /\ HistoryGrows
BY DEF StoresInv, TextStored, RowOwnedBy, HistoryGrows

(* objects.put of an original preserves the invariant of the stores.       *)
LEMMA OriginalWrite ==
  ASSUME StoresTypeOK, StoresInv, NEW p \in Paths, NEW c \in Contents,
         StoreOriginal(p, c), UNCHANGED <<row, replica, text, owner>>
  PROVE  /\ obj' \in [Paths -> Contents \union {Nothing}]
         /\ stored' \in [Paths -> SUBSET Contents]
         /\ c \in stored'[p]
         /\ HistoryGrows /\ StoresInv'
<1>1. /\ obj \in [Paths -> Contents \union {Nothing}]
      /\ stored \in [Paths -> SUBSET Contents]
  BY DEF StoresTypeOK
<1>2. /\ obj' \in [Paths -> Contents \union {Nothing}]
      /\ stored' \in [Paths -> SUBSET Contents]
      /\ c \in stored'[p]
  BY <1>1 DEF StoreOriginal
<1>3. HistoryGrows
  BY <1>1 DEF StoreOriginal, HistoryGrows
<1>4. \A q \in Paths : obj'[q] # Nothing => obj'[q] \in stored'[q]
  BY <1>1, <1>3 DEF StoreOriginal, StoresInv, HistoryGrows
<1>5. QED BY <1>2, <1>3, <1>4, RowsFrame, TextFrame DEF StoresInv

(* objects.delete of an original preserves the invariant of the stores.    *)
LEMMA OriginalDelete ==
  ASSUME StoresTypeOK, StoresInv, NEW p \in Paths, DeleteOriginal(p),
         UNCHANGED <<row, replica, text, owner, stored>>
  PROVE  /\ obj' \in [Paths -> Contents \union {Nothing}]
         /\ HistoryGrows /\ StoresInv'
<1>1. obj \in [Paths -> Contents \union {Nothing}]
  BY DEF StoresTypeOK
<1>2. HistoryGrows
  BY DEF HistoryGrows
<1>3. \A q \in Paths : obj'[q] # Nothing => obj'[q] \in stored'[q]
  BY <1>1 DEF DeleteOriginal, StoresInv
<1>4. QED BY <1>1, <1>2, <1>3, RowsFrame, TextFrame DEF StoresInv, DeleteOriginal

(* objects.put of a page of derived text does, when the page was read out  *)
(* of a document of the path that owns the id.                             *)
LEMMA PageWrite ==
  ASSUME StoresTypeOK, StoresInv, NEW id \in EntryIds, NEW n \in Pages,
         NEW c \in Contents, owner[id] \in Paths, c \in stored[owner[id]],
         StorePage(id, n, c), UNCHANGED <<obj, row, replica, owner, stored>>
  PROVE  /\ text' \in [EntryIds -> [Pages -> Contents \union {Nothing}]]
         /\ HistoryGrows /\ StoresInv'
<1>1. text \in [EntryIds -> [Pages -> Contents \union {Nothing}]]
  BY DEF StoresTypeOK
<1>2. HistoryGrows
  BY DEF HistoryGrows
<1>3. TextStored'
  <2> SUFFICES ASSUME NEW i \in EntryIds, NEW m \in Pages, text'[i][m] # Nothing
               PROVE  owner[i] \in Paths /\ text'[i][m] \in stored[owner[i]]
    BY DEF TextStored, Pages
  <2>1. text'[i][m] = IF i = id /\ m = n THEN c ELSE text[i][m]
    BY <1>1 DEF StorePage
  <2>2. QED BY <2>1 DEF StoresInv, TextStored
<1>4. QED
  BY <1>1, <1>2, <1>3, RowsFrame, ObjectsFrame DEF StoresInv, StorePage

(* objects.delete_prefix of derived text does.                             *)
LEMMA TextDelete ==
  ASSUME StoresTypeOK, StoresInv, NEW id \in EntryIds,
         DeleteDerivedText(id), UNCHANGED <<obj, row, replica, owner, stored>>
  PROVE  /\ text' \in [EntryIds -> [Pages -> Contents \union {Nothing}]]
         /\ HistoryGrows /\ StoresInv'
<1>1. text \in [EntryIds -> [Pages -> Contents \union {Nothing}]]
  BY DEF StoresTypeOK
<1>2. HistoryGrows
  BY DEF HistoryGrows
<1>3. TextStored'
  <2> SUFFICES ASSUME NEW i \in EntryIds, NEW m \in Pages, text'[i][m] # Nothing
               PROVE  owner[i] \in Paths /\ text'[i][m] \in stored[owner[i]]
    BY DEF TextStored, Pages
  <2>1. text'[i][m] = text[i][m]
    BY <1>1 DEF DeleteDerivedText, NoText
  <2>2. QED BY <2>1 DEF StoresInv, TextStored
<1>4. QED
  BY <1>1, <1>2, <1>3, RowsFrame, ObjectsFrame
  DEF StoresInv, DeleteDerivedText, NoText

(* A write of a row, which may leave the replica behind, changes nothing   *)
(* but its path's.                                                         *)
LEMMA WriteRowFacts ==
  ASSUME StoresTypeOK, NEW p \in Paths, NEW r, WriteRow(p, r)
  PROVE  \A q \in Paths :
           /\ row'[q] = IF q = p THEN r ELSE row[q]
           /\ replica'[q] = replica[q] \/ (q = p /\ replica'[q] = r)
<1>1. DOMAIN row = Paths /\ DOMAIN replica = Paths
  BY DEF StoresTypeOK
<1>2. row' = [row EXCEPT ![p] = r]
  BY DEF WriteRow
<1>3. replica' = [replica EXCEPT ![p] = r] \/ replica' = replica
  BY DEF WriteRow
<1>4. QED BY <1>1, <1>2, <1>3

(* Any write of a catalog row does, when the id of the row is that of the  *)
(* path.                                                                   *)
LEMMA RowWrite ==
  ASSUME StoresTypeOK, StoresInv, NEW p \in Paths, NEW r \in Row,
         owner[r.id] = p, WriteRow(p, r),
         UNCHANGED <<obj, text, queue, owner, stored>>
  PROVE  StoresTypeOK' /\ HistoryGrows /\ StoresInv'
<1>1. /\ row \in [Paths -> Row \union {Nothing}]
      /\ replica \in [Paths -> Row \union {Nothing}]
  BY DEF StoresTypeOK
<1>2. HistoryGrows
  BY DEF HistoryGrows
<1>3. ASSUME NEW q \in Paths
      PROVE  RowOwnedBy(q, row[q])' /\ RowOwnedBy(q, replica[q])'
  <2>1. owner'[r.id] = p
    BY DEF Row
  <2>2. row'[q] = IF q = p THEN r ELSE row[q]
    BY WriteRowFacts
  <2>3. replica'[q] = replica[q] \/ (q = p /\ replica'[q] = r)
    BY WriteRowFacts
  <2>4. /\ row[q] # Nothing => owner'[row[q].id] = q
        /\ replica[q] # Nothing => owner'[replica[q].id] = q
    BY <1>2, SeenStable DEF Seen
  <2>5. QED BY <2>1, <2>2, <2>3, <2>4 DEF RowOwnedBy
<1>4. budget' \in [BudgetKinds -> Nat]
  BY SpendType DEF StoresTypeOK, WriteRow, BudgetKinds
<1>5. /\ row' \in [Paths -> Row \union {Nothing}]
      /\ replica' \in [Paths -> Row \union {Nothing}]
  BY <1>1 DEF WriteRow
<1>6. StoresTypeOK'
  BY <1>4, <1>5 DEF StoresTypeOK
<1>7. QED BY <1>2, <1>3, <1>6, TextFrame, ObjectsFrame DEF StoresInv

(* Choosing an entry id does, and the chosen id is that of the path.       *)
LEMMA IdChoice ==
  ASSUME StoresTypeOK, StoresInv, NEW p \in Paths,
         NEW existing \in EntryIds \union {Nothing}, NEW id \in EntryIds,
         OwnedBy(p, existing), ChooseEntryId(p, existing, id),
         UNCHANGED <<obj, row, replica, text, stored>>
  PROVE  /\ owner' \in [EntryIds -> Paths \union {Nothing}]
         /\ owner'[id] = p
         /\ HistoryGrows /\ StoresInv'
<1>1. owner \in [EntryIds -> Paths \union {Nothing}]
  BY DEF StoresTypeOK
<1>2. /\ owner' \in [EntryIds -> Paths \union {Nothing}]
      /\ owner'[id] = p
      /\ \A i \in EntryIds : owner[i] # Nothing => owner'[i] = owner[i]
  BY <1>1, ChooseEntryIdOwned
<1>3. HistoryGrows
  BY <1>2 DEF HistoryGrows
<1>4. QED BY <1>2, <1>3, RowsFrame, TextFrame, ObjectsFrame DEF StoresInv

-----------------------------------------------------------------------------
(* put_document and delete_document.                                       *)

(* A request that is done is a request state.                              *)
LEMMA NoRequestType == 1 \in Pages /\ NoRequest \in ClientState
<1>1. 1 \in Pages
  BY PageAssumption DEF Pages
<1>2. QED BY <1>1 DEF NoRequest, ClientState, ClientPCs

(* A step of a request preserves IInv when it preserves what concerns the  *)
(* stores and that request.                                                *)
LEMMA ClientCompose ==
  ASSUME IInv, NEW c \in Clients, UNCHANGED <<worker, sweep>>, HistoryGrows,
         StoresTypeOK', StoresInv',
         NEW s \in ClientState, client' = [client EXCEPT ![c] = s],
         ClientInv(c)'
  PROVE  IInv'
<1>1. client \in [Clients -> ClientState]
  BY DEF IInv, TypeOK, IngestApiTypeOK
<1>2. TypeOK'
  BY <1>1 DEF IInv, TypeOK, IngestApiTypeOK, WorkerTypeOK, ReconcilerTypeOK
<1>3. ASSUME NEW d \in Clients PROVE ClientInv(d)'
  <2>1. CASE d = c
    BY <2>1
  <2>2. CASE d # c
    <3>1. client'[d] = client[d]
      BY <1>1, <2>2
    <3>2. QED BY <3>1, ClientFrame DEF IInv
  <2>3. QED BY <2>1, <2>2
<1>4. ASSUME NEW w \in Workers PROVE WorkerInv(w)'
  BY WorkerFrame DEF IInv
<1>5. SweepInv'
  BY SweepFrame DEF IInv
<1>6. QED BY <1>2, <1>3, <1>4, <1>5 DEF IInv

(* What IInv says of a request.                                            *)
LEMMA ClientFacts ==
  ASSUME IInv, NEW c \in Clients
  PROVE  /\ StoresTypeOK /\ StoresInv /\ ClientInv(c)
         /\ client \in [Clients -> ClientState]
         /\ client[c] \in ClientState
BY DEF IInv, TypeOK, IngestApiTypeOK

(* What a read of a row returns is a row with an id of its path.           *)
LEMMA SeenFacts ==
  ASSUME StoresTypeOK, StoresInv, NEW p \in Paths, NEW r \in Seen(p)
  PROVE  /\ r \in Row \union {Nothing} /\ RowOwnedBy(p, r)
         /\ r # Nothing => r.id \in EntryIds /\ owner[r.id] = p
<1>1. r \in Row \union {Nothing} /\ RowOwnedBy(p, r)
  BY DEF StoresTypeOK, StoresInv, Seen
<1>2. QED BY <1>1 DEF RowOwnedBy, Row

(* So is what get_entry answers.                                           *)
LEMMA GetEntryFacts ==
  ASSUME StoresTypeOK, StoresInv, NEW p \in Paths, NEW entry \in GetEntry(p),
         entry # Nothing
  PROVE  entry.id \in EntryIds /\ owner[entry.id] = p
<1>1. entry \in Seen(p)
  BY DEF GetEntry
<1>2. QED BY <1>1, SeenFacts

(* put_document looks up the row and chooses the id.                       *)
LEMMA PutLookupInv ==
  ASSUME IInv, NEW c \in Clients, NEW p \in Paths, NEW d \in Contents,
         PutLookup(c, p, d), UNCHANGED <<worker, sweep>>
  PROVE  IInv'
<1>1. StoresTypeOK /\ StoresInv /\ client \in [Clients -> ClientState]
  BY ClientFacts
<1>2. PICK entry \in GetEntry(p), id \in EntryIds :
        /\ ChooseEntryId(p, IF entry = Nothing THEN Nothing ELSE entry.id, id)
        /\ client' = [client EXCEPT ![c] =
             [NoRequest EXCEPT !.pc = "store", !.path = p, !.data = d,
                               !.id = id]]
  BY DEF PutLookup
<1> DEFINE existing == IF entry = Nothing THEN Nothing ELSE entry.id
<1>3. existing \in EntryIds \union {Nothing} /\ OwnedBy(p, existing)
  BY <1>1, GetEntryFacts DEF OwnedBy
<1>4. UNCHANGED <<obj, row, replica, text, queue, stored>> /\ Spend("put")
  BY DEF PutLookup
<1>5. /\ owner' \in [EntryIds -> Paths \union {Nothing}]
      /\ owner'[id] = p
      /\ HistoryGrows /\ StoresInv'
  <2>1. ChooseEntryId(p, existing, id)
    BY <1>2
  <2> HIDE DEF existing
  <2>2. QED BY <1>1, <1>3, <1>4, <2>1, IdChoice
<1>6. StoresTypeOK'
  BY <1>1, <1>4, <1>5, SpendType DEF StoresTypeOK, BudgetKinds
<1> DEFINE s == [NoRequest EXCEPT !.pc = "store", !.path = p, !.data = d,
                                  !.id = id]
<1>9. s \in ClientState /\ s.pc = "store" /\ s.path = p /\ s.data = d
      /\ s.id = id /\ s.raw = Nothing
  <2> HIDE DEF existing
  <2>1. 1 \in Pages
    BY NoRequestType
  <2>2. QED BY <2>1 DEF NoRequest, ClientState, ClientPCs
<1>10. client'[c] = s
  BY <1>1, <1>2
<1>11. ClientInv(c)'
  BY <1>5, <1>9, <1>10 DEF ClientInv, OwnedBy, RowOwnedBy
<1>12. QED
  BY <1>2, <1>5, <1>6, <1>9, <1>11, ClientCompose

(* A request that ends after a harmless step preserves IInv.               *)
LEMMA ClientDoneInv ==
  ASSUME IInv, NEW c \in Clients, UNCHANGED <<worker, sweep>>, HistoryGrows,
         StoresTypeOK', StoresInv', ClientDone(c)
  PROVE  IInv'
<1>1. client' = [client EXCEPT ![c] = NoRequest] /\ client'[c] = NoRequest
  BY ClientFacts DEF ClientDone
<1>2. ClientInv(c)'
  BY <1>1 DEF ClientInv, NoRequest, OwnedBy, RowOwnedBy
<1>3. QED BY <1>1, <1>2, NoRequestType, ClientCompose

(* put_document stores the original.                                       *)
LEMMA PutStoreInv ==
  ASSUME IInv, NEW c \in Clients, PutStore(c), UNCHANGED <<worker, sweep>>
  PROVE  IInv'
<1> DEFINE p == client[c].path
           d == client[c].data
           pc == IF ~AsyncMode /\ d \in InlineReadable THEN "pages" ELSE "entry"
           s == [client[c] EXCEPT !.pc = pc]
<1>1. /\ StoresTypeOK /\ StoresInv /\ ClientInv(c)
      /\ client \in [Clients -> ClientState] /\ client[c] \in ClientState
  BY ClientFacts
<1>2. /\ p \in Paths /\ d \in Contents /\ client[c].id \in EntryIds
      /\ OwnedBy(p, client[c].id) /\ RowOwnedBy(p, client[c].raw)
  BY <1>1 DEF PutStore, ClientInv
<1>3. /\ StoreOriginal(p, d) /\ UNCHANGED <<row, replica, text, owner>>
      /\ \/ Notify(p) /\ UNCHANGED budget
         \/ Spend("lost") /\ UNCHANGED queue
  BY DEF PutStore
<1>4. /\ obj' \in [Paths -> Contents \union {Nothing}]
      /\ stored' \in [Paths -> SUBSET Contents]
      /\ d \in stored'[p]
      /\ HistoryGrows /\ StoresInv'
  BY <1>1, <1>2, <1>3, OriginalWrite
<1>5. queue' \in [Message -> 0..MaxQueued]
  <2>1. CASE Notify(p)
    <3>1. [path |-> p, receives |-> 0] \in Message
      BY <1>2, QueueAssumption DEF Message
    <3>2. QED BY <1>1, <2>1, <3>1, EnqueueType DEF Notify, StoresTypeOK
  <2>2. CASE UNCHANGED queue
    BY <1>1, <2>2 DEF StoresTypeOK
  <2>3. QED BY <1>3, <2>1, <2>2
<1>6. budget' \in [BudgetKinds -> Nat]
  BY <1>1, <1>3, SpendType DEF StoresTypeOK, BudgetKinds
<1>7. StoresTypeOK'
  BY <1>1, <1>3, <1>4, <1>5, <1>6 DEF StoresTypeOK
<1>8. client' = [client EXCEPT ![c] = s] /\ client'[c] = s
  BY <1>1 DEF PutStore, ClientGoto
<1>9. /\ s \in ClientState /\ s.pc \in {"pages", "entry"}
      /\ s.path = p /\ s.data = d /\ s.id = client[c].id /\ s.raw = client[c].raw
  BY <1>1 DEF ClientState, ClientPCs
<1>10. ClientInv(c)'
  BY <1>2, <1>3, <1>4, <1>8, <1>9 DEF ClientInv, OwnedBy, RowOwnedBy
<1>11. QED BY <1>4, <1>7, <1>8, <1>9, <1>10, ClientCompose

(* put_document, inline, stores one page of text.                          *)
LEMMA PutPageInv ==
  ASSUME IInv, NEW c \in Clients, PutPage(c), UNCHANGED <<worker, sweep>>
  PROVE  IInv'
<1> DEFINE p == client[c].path
           d == client[c].data
           n == client[c].page
           s == IF n < PageCount[d] THEN [client[c] EXCEPT !.page = n + 1]
                ELSE [client[c] EXCEPT !.pc = "entry"]
<1>1. /\ StoresTypeOK /\ StoresInv /\ ClientInv(c)
      /\ client \in [Clients -> ClientState] /\ client[c] \in ClientState
  BY ClientFacts
<1>2. /\ p \in Paths /\ d \in Contents /\ client[c].id \in EntryIds
      /\ OwnedBy(p, client[c].id) /\ RowOwnedBy(p, client[c].raw)
      /\ d \in stored[p] /\ n \in Pages
  BY <1>1 DEF PutPage, ClientInv, ClientState
<1>3. owner[client[c].id] = p
  BY <1>2, NothingAssumption DEF OwnedBy
<1>4. /\ text' \in [EntryIds -> [Pages -> Contents \union {Nothing}]]
      /\ HistoryGrows /\ StoresInv'
  BY <1>1, <1>2, <1>3, PageWrite DEF PutPage
<1>5. StoresTypeOK'
  BY <1>1, <1>4 DEF StoresTypeOK, PutPage
<1>6. client' = [client EXCEPT ![c] = s] /\ client'[c] = s
  BY <1>1 DEF PutPage, ClientGoto
<1>7. n < PageCount[d] => n + 1 \in Pages
  BY <1>2, PageAssumption DEF Pages
<1>8. /\ s \in ClientState /\ s.pc \in {"pages", "entry"}
      /\ s.path = p /\ s.data = d /\ s.id = client[c].id /\ s.raw = client[c].raw
  BY <1>1, <1>7 DEF ClientState, ClientPCs, PutPage
<1>9. ClientInv(c)'
  BY <1>2, <1>6, <1>8 DEF ClientInv, OwnedBy, RowOwnedBy, PutPage
<1>10. QED BY <1>4, <1>5, <1>6, <1>8, <1>9, ClientCompose

(* put_document writes the row.                                            *)
LEMMA PutRowInv ==
  ASSUME IInv, NEW c \in Clients, PutRow(c), UNCHANGED <<worker, sweep>>
  PROVE  IInv'
<1> DEFINE p == client[c].path
           d == client[c].data
           status == InlineStatus(d)
           pages == IF status = "extracted" THEN PageCount[d] ELSE 0
           r == NewRow(client[c].id, d, d, status, pages)
<1>1. StoresTypeOK /\ StoresInv /\ ClientInv(c)
  BY ClientFacts
<1>2. /\ p \in Paths /\ d \in Contents /\ client[c].id \in EntryIds
      /\ OwnedBy(p, client[c].id)
  BY <1>1 DEF PutRow, ClientInv
<1>3. status \in Statuses
  BY DEF InlineStatus, Statuses
<1>4. pages \in 0..MaxPage
  BY <1>2, PageAssumption
<1>5. r \in Row /\ r.id = client[c].id
  BY <1>2, <1>3, <1>4, NewRowIsRow
<1>6. owner[r.id] = p
  BY <1>2, <1>5, NothingAssumption DEF OwnedBy
<1>7. WriteRow(p, r) /\ UNCHANGED <<obj, text, queue, owner, stored>>
  BY DEF PutRow, PutEntry
<1>8. StoresTypeOK' /\ HistoryGrows /\ StoresInv'
  <2> HIDE DEF r
  <2>1. QED BY <1>1, <1>2, <1>5, <1>6, <1>7, RowWrite
<1>9. QED BY <1>8, ClientDoneInv DEF PutRow

(* delete_document looks up the row.                                       *)
LEMMA DeleteLookupInv ==
  ASSUME IInv, NEW c \in Clients, NEW p \in Paths, DeleteLookup(c, p),
         UNCHANGED <<worker, sweep>>
  PROVE  IInv'
<1>0. PICK entry \in GetEntry(p) :
        client' = [client EXCEPT ![c] =
          [NoRequest EXCEPT !.pc = "readRaw", !.path = p,
             !.id = IF entry = Nothing THEN Nothing ELSE entry.id]]
  BY DEF DeleteLookup
<1> DEFINE id == IF entry = Nothing THEN Nothing ELSE entry.id
           s == [NoRequest EXCEPT !.pc = "readRaw", !.path = p, !.id = id]
<1>1. StoresTypeOK /\ StoresInv /\ client \in [Clients -> ClientState]
  BY ClientFacts
<1>2. id \in EntryIds \union {Nothing} /\ (id # Nothing => owner[id] = p)
  BY <1>1, GetEntryFacts
<1>3. /\ UNCHANGED <<obj, row, replica, text, queue, owner, stored>> /\ Spend("delete")
      /\ client' = [client EXCEPT ![c] = s]
  BY <1>0 DEF DeleteLookup
<1>4. StoresInv' /\ HistoryGrows
  BY <1>1, <1>3, StoresUntouched
<1>5. StoresTypeOK'
  BY <1>1, <1>3, SpendType DEF StoresTypeOK, BudgetKinds
<1> HIDE DEF id
<1>6. /\ s \in ClientState /\ s.pc = "readRaw" /\ s.path = p /\ s.id = id
      /\ s.raw = Nothing
  BY <1>2, NoRequestType DEF NoRequest, ClientState, ClientPCs
<1>7. client'[c] = s
  BY <1>1, <1>3
<1>8. ClientInv(c)'
  BY <1>2, <1>3, <1>6, <1>7 DEF ClientInv, OwnedBy, RowOwnedBy
<1>9. QED BY <1>3, <1>4, <1>5, <1>6, <1>8, ClientCompose

(* delete_entry reads the raw row.                                         *)
LEMMA DeleteReadRawInv ==
  ASSUME IInv, NEW c \in Clients, DeleteReadRaw(c), UNCHANGED <<worker, sweep>>
  PROVE  IInv'
<1> DEFINE p == client[c].path
<1>0. PICK r \in Seen(p) :
        client' = [client EXCEPT
          ![c].raw = r,
          ![c].pc = IF r = Nothing THEN "object" ELSE "tombstone"]
  BY DEF DeleteReadRaw
<1> DEFINE s == [client[c] EXCEPT !.raw = r,
                   !.pc = IF r = Nothing THEN "object" ELSE "tombstone"]
<1>1. /\ StoresTypeOK /\ StoresInv /\ ClientInv(c)
      /\ client \in [Clients -> ClientState] /\ client[c] \in ClientState
  BY ClientFacts
<1>2. p \in Paths /\ OwnedBy(p, client[c].id)
  BY <1>1 DEF DeleteReadRaw, ClientInv
<1>3. r \in Row \union {Nothing} /\ RowOwnedBy(p, r)
  BY <1>1, <1>2, SeenFacts
<1>4. UNCHANGED storeVars
  BY DEF DeleteReadRaw
<1>5. StoresInv' /\ HistoryGrows /\ StoresTypeOK'
  BY <1>1, <1>4, StoresUntouched DEF storeVars, StoresTypeOK
<1>6. client' = [client EXCEPT ![c] = s] /\ client'[c] = s
  BY <1>0, <1>1
<1>7. /\ s \in ClientState /\ s.path = p /\ s.id = client[c].id /\ s.raw = r
      /\ s.pc = IF r = Nothing THEN "object" ELSE "tombstone"
  BY <1>1, <1>3 DEF ClientState, ClientPCs
<1>8. ClientInv(c)'
  <2>1. UNCHANGED <<owner, stored>>
    BY <1>4 DEF storeVars
  <2>2. r # Nothing => p \in Paths /\ owner'[r.id] = p
    BY <1>3, <2>1 DEF RowOwnedBy
  <2>3. /\ client'[c].path = p /\ client'[c].id = client[c].id
        /\ client'[c].raw = r
        /\ client'[c].pc = IF r = Nothing THEN "object" ELSE "tombstone"
    BY <1>6, <1>7
  <2>4. client[c].id # Nothing => owner'[client[c].id] = p
    BY <1>2, <2>1 DEF OwnedBy
  <2> HIDE DEF p, s
  <2>5. QED BY <1>2, <1>3, <2>2, <2>3, <2>4 DEF ClientInv, OwnedBy, RowOwnedBy
<1>9. QED BY <1>5, <1>6, <1>7, <1>8, ClientCompose

(* delete_entry puts the row back tombstoned.                              *)
LEMMA DeleteTombstoneInv ==
  ASSUME IInv, NEW c \in Clients, DeleteTombstone(c), UNCHANGED <<worker, sweep>>
  PROVE  IInv'
<1> DEFINE p == client[c].path
           r == [client[c].raw EXCEPT !.deleted = TRUE]
           s == [client[c] EXCEPT !.raw = Nothing, !.pc = "object"]
<1>1. /\ StoresTypeOK /\ StoresInv /\ ClientInv(c)
      /\ client \in [Clients -> ClientState] /\ client[c] \in ClientState
  BY ClientFacts
<1>2. /\ p \in Paths /\ client[c].raw \in Row
      /\ OwnedBy(p, client[c].id) /\ RowOwnedBy(p, client[c].raw)
  BY <1>1 DEF DeleteTombstone, ClientInv
<1>3. r \in Row /\ r.id = client[c].raw.id
  BY <1>2, TombstoneRow
<1>4. WriteRow(p, r) /\ UNCHANGED <<obj, text, queue, owner, stored>>
  BY DEF DeleteTombstone, Tombstone
<1>5. StoresTypeOK' /\ HistoryGrows /\ StoresInv'
  <2>1. owner[r.id] = p
    BY <1>2, <1>3, NothingAssumption DEF RowOwnedBy
  <2>2. QED BY <1>1, <1>2, <1>3, <1>4, <2>1, RowWrite
<1>7. client' = [client EXCEPT ![c] = s] /\ client'[c] = s
  BY <1>1 DEF DeleteTombstone
<1>8. /\ s \in ClientState /\ s.path = p /\ s.id = client[c].id
      /\ s.raw = Nothing /\ s.pc = "object"
  BY <1>1 DEF ClientState, ClientPCs
<1>9. ClientInv(c)'
  BY <1>2, <1>4, <1>7, <1>8 DEF ClientInv, OwnedBy, RowOwnedBy
<1>10. QED BY <1>5, <1>7, <1>8, <1>9, ClientCompose

(* delete_document deletes the original.                                   *)
LEMMA DeleteObjectInv ==
  ASSUME IInv, NEW c \in Clients, DeleteObject(c), UNCHANGED <<worker, sweep>>
  PROVE  IInv'
<1> DEFINE p == client[c].path
           s == [client[c] EXCEPT !.pc = "text"]
<1>1. /\ StoresTypeOK /\ StoresInv /\ ClientInv(c)
      /\ client \in [Clients -> ClientState] /\ client[c] \in ClientState
  BY ClientFacts
<1>2. /\ p \in Paths /\ OwnedBy(p, client[c].id)
      /\ RowOwnedBy(p, client[c].raw)
  BY <1>1 DEF DeleteObject, ClientInv
<1>3. /\ obj' \in [Paths -> Contents \union {Nothing}]
      /\ HistoryGrows /\ StoresInv'
  BY <1>1, <1>2, OriginalDelete DEF DeleteObject
<1>4. StoresTypeOK'
  BY <1>1, <1>3 DEF StoresTypeOK, DeleteObject
<1>5. CASE client[c].id = Nothing
  BY <1>3, <1>4, <1>5, ClientDoneInv DEF DeleteObject
<1>6. CASE client[c].id # Nothing
  <2>1. client' = [client EXCEPT ![c] = s] /\ client'[c] = s
    BY <1>1, <1>6 DEF DeleteObject, ClientGoto
  <2>2. /\ s \in ClientState /\ s.path = p /\ s.id = client[c].id
        /\ s.raw = client[c].raw /\ s.pc = "text"
    BY <1>1 DEF ClientState, ClientPCs
  <2>3. client[c].id \in EntryIds
    BY <1>1, <1>6 DEF ClientState
  <2>4. ClientInv(c)'
    BY <1>2, <2>1, <2>2, <2>3 DEF ClientInv, OwnedBy, RowOwnedBy, DeleteObject
  <2>5. QED BY <1>3, <1>4, <2>1, <2>2, <2>4, ClientCompose
<1>7. QED BY <1>5, <1>6

(* delete_document deletes the derived text.                               *)
LEMMA DeleteTextInv ==
  ASSUME IInv, NEW c \in Clients, DeleteText(c), UNCHANGED <<worker, sweep>>
  PROVE  IInv'
<1>1. StoresTypeOK /\ StoresInv /\ client[c].id \in EntryIds
  BY ClientFacts DEF ClientInv, DeleteText
<1>2. /\ text' \in [EntryIds -> [Pages -> Contents \union {Nothing}]]
      /\ HistoryGrows /\ StoresInv'
  BY <1>1, TextDelete DEF DeleteText
<1>3. StoresTypeOK'
  BY <1>1, <1>2 DEF StoresTypeOK, DeleteText
<1>4. QED BY <1>2, <1>3, ClientDoneInv DEF DeleteText

(* A request dies.                                                         *)
LEMMA ClientCrashInv ==
  ASSUME IInv, NEW c \in Clients, ClientCrash(c), UNCHANGED <<worker, sweep>>
  PROVE  IInv'
<1>1. StoresTypeOK /\ StoresInv
  BY ClientFacts
<1>2. StoresInv' /\ HistoryGrows
  BY <1>1, StoresUntouched DEF ClientCrash
<1>3. StoresTypeOK'
  BY <1>1, SpendType DEF StoresTypeOK, BudgetKinds, ClientCrash
<1>4. QED BY <1>2, <1>3, ClientDoneInv DEF ClientCrash

(* No step of a request breaks IInv.                                       *)
LEMMA ClientNextInv ==
  ASSUME IInv, NEW c \in Clients, ClientNext(c)
  PROVE  IInv'
BY PutLookupInv, PutStoreInv, PutPageInv, PutRowInv, DeleteLookupInv,
   DeleteReadRawInv, DeleteTombstoneInv, DeleteObjectInv, DeleteTextInv,
   ClientCrashInv
DEF ClientNext, ClientBegin, ClientStep

-----------------------------------------------------------------------------
(* The worker.                                                             *)

(* A worker without a message is a worker state.                           *)
LEMMA NoMessageType == NoMessage \in WorkerState
<1>1. 1 \in Pages /\ 0 \in 0..(MaxReceive - 1)
  BY NoRequestType, QueueAssumption
<1>2. QED BY <1>1 DEF NoMessage, WorkerState, WorkerPCs

(* What IInv says of a worker.                                             *)
LEMMA WorkerFacts ==
  ASSUME IInv, NEW w \in Workers
  PROVE  /\ StoresTypeOK /\ StoresInv /\ WorkerInv(w)
         /\ worker \in [Workers -> WorkerState]
         /\ worker[w] \in WorkerState
BY DEF IInv, TypeOK, WorkerTypeOK

(* A step of a worker preserves IInv when it preserves what concerns the   *)
(* stores and that worker.                                                 *)
LEMMA WorkerCompose ==
  ASSUME IInv, NEW w \in Workers, UNCHANGED <<client, sweep>>, HistoryGrows,
         StoresTypeOK', StoresInv',
         NEW s \in WorkerState, worker' = [worker EXCEPT ![w] = s],
         WorkerInv(w)'
  PROVE  IInv'
<1>1. worker \in [Workers -> WorkerState]
  BY WorkerFacts
<1>2. TypeOK'
  BY <1>1 DEF IInv, TypeOK, IngestApiTypeOK, WorkerTypeOK, ReconcilerTypeOK
<1>3. ASSUME NEW v \in Workers PROVE WorkerInv(v)'
  <2>1. CASE v = w
    BY <2>1
  <2>2. CASE v # w
    <3>1. worker'[v] = worker[v]
      BY <1>1, <2>2
    <3>2. QED BY <3>1, WorkerFrame DEF IInv
  <2>3. QED BY <2>1, <2>2
<1>4. ASSUME NEW c \in Clients PROVE ClientInv(c)'
  BY ClientFrame DEF IInv
<1>5. SweepInv'
  BY SweepFrame DEF IInv
<1>6. QED BY <1>2, <1>3, <1>4, <1>5 DEF IInv

(* A worker that ends after a harmless step preserves IInv.                *)
LEMMA WorkerDoneInv ==
  ASSUME IInv, NEW w \in Workers, UNCHANGED <<client, sweep>>, HistoryGrows,
         StoresTypeOK', StoresInv', WorkerDone(w)
  PROVE  IInv'
<1>1. worker' = [worker EXCEPT ![w] = NoMessage] /\ worker'[w] = NoMessage
  BY WorkerFacts DEF WorkerDone
<1>2. WorkerInv(w)'
  BY <1>1 DEF WorkerInv, NoMessage, OwnedBy, RowOwnedBy
<1>3. QED BY <1>1, <1>2, NoMessageType, WorkerCompose

(* A failed invocation leaves the queue and the worker well-typed.         *)
LEMMA FailType ==
  ASSUME IInv, NEW w \in Workers, worker[w].pc # "idle", Fail(w)
  PROVE  queue' \in [Message -> 0..MaxQueued]
<1>1. /\ queue \in [Message -> 0..MaxQueued]
      /\ worker[w].path \in Paths
      /\ worker[w].receives \in 0..(MaxReceive - 1)
  BY WorkerFacts DEF StoresTypeOK, WorkerInv, WorkerState
<1> DEFINE again == worker[w].receives + 1
           m == [path |-> worker[w].path, receives |-> again]
<1>2. CASE again < MaxReceive
  <2>1. again \in 0..(MaxReceive - 1)
    BY <1>1, <1>2, QueueAssumption
  <2>2. m \in Message
    BY <1>1, <2>1 DEF Message
  <2>3. queue' = Enqueue(m)
    BY <1>2 DEF Fail
  <2> HIDE DEF m
  <2>4. QED BY <1>1, <2>2, <2>3, EnqueueType
<1>3. CASE ~(again < MaxReceive)
  BY <1>1, <1>3 DEF Fail
<1>4. QED BY <1>2, <1>3

(* A worker receives a message.                                            *)
LEMMA ReceiveInv ==
  ASSUME IInv, NEW w \in Workers, NEW m \in Message, Receive(w, m),
         UNCHANGED <<client, sweep>>
  PROVE  IInv'
<1> DEFINE s == [NoMessage EXCEPT !.pc = "lookup", !.path = m.path,
                                  !.receives = m.receives]
<1>1. /\ StoresTypeOK /\ StoresInv
      /\ worker \in [Workers -> WorkerState]
  BY WorkerFacts
<1>2. m.path \in Paths /\ m.receives \in 0..(MaxReceive - 1)
  BY DEF Message
<1>3. queue' \in [Message -> 0..MaxQueued] /\ budget' \in [BudgetKinds -> Nat]
  <2>1. /\ queue \in [Message -> 0..MaxQueued]
        /\ budget \in [BudgetKinds -> Nat]
    BY <1>1 DEF StoresTypeOK
  <2>2. CASE queue' = [queue EXCEPT ![m] = @ - 1] /\ UNCHANGED budget
    BY <2>1, <2>2, QueueAssumption DEF Receive
  <2>3. CASE Spend("duplicate") /\ UNCHANGED queue
    BY <2>1, <2>3, SpendType DEF BudgetKinds
  <2>4. QED BY <2>2, <2>3 DEF Receive
<1>4. StoresInv' /\ HistoryGrows
  BY <1>1, StoresUntouched DEF Receive
<1>5. StoresTypeOK'
  BY <1>1, <1>3 DEF StoresTypeOK, Receive
<1>6. worker' = [worker EXCEPT ![w] = s] /\ worker'[w] = s
  BY <1>1 DEF Receive
<1>7. /\ s \in WorkerState /\ s.pc = "lookup" /\ s.path = m.path
      /\ s.id = Nothing /\ s.raw = Nothing
  BY <1>2, NoMessageType DEF NoMessage, WorkerState, WorkerPCs
<1>8. WorkerInv(w)'
  BY <1>2, <1>6, <1>7 DEF WorkerInv, OwnedBy, RowOwnedBy
<1>9. QED BY <1>4, <1>5, <1>6, <1>7, <1>8, WorkerCompose

(* extract_object looks up the row.                                        *)
LEMMA WorkLookupInv ==
  ASSUME IInv, NEW w \in Workers, WorkLookup(w), UNCHANGED <<client, sweep>>
  PROVE  IInv'
<1> DEFINE p == worker[w].path
<1>0. PICK entry \in GetEntry(p) :
        IF entry = Nothing
        THEN worker' = [worker EXCEPT ![w].pc = "get"]
        ELSE IF entry.status = "extracted"
        THEN WorkerDone(w)
        ELSE worker' = [worker EXCEPT ![w].pc = "get", ![w].existing = TRUE,
                                      ![w].id = entry.id]
  BY DEF WorkLookup
<1>1. /\ StoresTypeOK /\ StoresInv /\ WorkerInv(w)
      /\ worker \in [Workers -> WorkerState] /\ worker[w] \in WorkerState
  BY WorkerFacts
<1>2. /\ p \in Paths /\ OwnedBy(p, worker[w].id)
      /\ RowOwnedBy(p, worker[w].raw)
  BY <1>1 DEF WorkLookup, WorkerInv
<1>3. /\ StoresInv' /\ HistoryGrows /\ StoresTypeOK'
      /\ UNCHANGED <<owner, stored>>
  BY <1>1, StoresUntouched DEF WorkLookup, storeVars, StoresTypeOK
<1>4. CASE WorkerDone(w)
  BY <1>3, <1>4, WorkerDoneInv
<1>5. CASE entry = Nothing /\ worker' = [worker EXCEPT ![w].pc = "get"]
  <2> DEFINE s == [worker[w] EXCEPT !.pc = "get"]
  <2>1. worker' = [worker EXCEPT ![w] = s] /\ worker'[w] = s
    BY <1>1, <1>5
  <2>2. /\ s \in WorkerState /\ s.pc = "get" /\ s.path = p
        /\ s.id = worker[w].id /\ s.raw = worker[w].raw
    BY <1>1 DEF WorkerState, WorkerPCs
  <2>3. WorkerInv(w)'
    BY <1>2, <1>3, <2>1, <2>2 DEF WorkerInv, OwnedBy, RowOwnedBy
  <2>4. QED BY <1>3, <2>1, <2>2, <2>3, WorkerCompose
<1>6. CASE /\ entry # Nothing
           /\ worker' = [worker EXCEPT ![w].pc = "get", ![w].existing = TRUE,
                                       ![w].id = entry.id]
  <2> DEFINE s == [worker[w] EXCEPT !.pc = "get", !.existing = TRUE,
                                    !.id = entry.id]
  <2>1. entry.id \in EntryIds /\ owner[entry.id] = p
    BY <1>1, <1>2, <1>6, GetEntryFacts
  <2>2. worker' = [worker EXCEPT ![w] = s] /\ worker'[w] = s
    BY <1>1, <1>6
  <2>3. /\ s \in WorkerState /\ s.pc = "get" /\ s.path = p
        /\ s.id = entry.id /\ s.raw = worker[w].raw
    BY <1>1, <2>1 DEF WorkerState, WorkerPCs
  <2>4. WorkerInv(w)'
    <3>1. /\ worker'[w].pc = "get" /\ worker'[w].path = p
          /\ worker'[w].id = entry.id /\ worker'[w].raw = worker[w].raw
      BY <2>2, <2>3
    <3> HIDE DEF s
    <3>2. QED BY <1>2, <1>3, <2>1, <3>1 DEF WorkerInv, OwnedBy, RowOwnedBy
  <2>5. QED BY <1>3, <2>2, <2>3, <2>4, WorkerCompose
<1>7. QED BY <1>0, <1>4, <1>5, <1>6

(* extract_object reads the original.                                      *)
LEMMA WorkGetInv ==
  ASSUME IInv, NEW w \in Workers, WorkGet(w), UNCHANGED <<client, sweep>>
  PROVE  IInv'
<1> DEFINE p == worker[w].path
           d == obj[p]
           s == [worker[w] EXCEPT !.pc = "stat", !.data = d]
<1>1. /\ StoresTypeOK /\ StoresInv /\ WorkerInv(w)
      /\ worker \in [Workers -> WorkerState] /\ worker[w] \in WorkerState
  BY WorkerFacts
<1>2. /\ p \in Paths /\ OwnedBy(p, worker[w].id)
      /\ RowOwnedBy(p, worker[w].raw)
  BY <1>1 DEF WorkGet, WorkerInv
<1>3. StoresInv' /\ HistoryGrows /\ UNCHANGED <<owner, stored>>
  BY <1>1, StoresUntouched DEF WorkGet
<1>4. CASE d = Nothing
  <2>1. Fail(w) /\ worker[w].pc # "idle"
    BY <1>4 DEF WorkGet
  <2>2. queue' \in [Message -> 0..MaxQueued]
    BY <2>1, FailType
  <2>3. StoresTypeOK'
    BY <1>1, <2>2 DEF StoresTypeOK, WorkGet
  <2>4. QED BY <1>3, <2>1, <2>3, WorkerDoneInv DEF Fail
<1>5. CASE d # Nothing
  <2>1. d \in Contents /\ d \in stored[p]
    BY <1>1, <1>2, <1>5 DEF StoresTypeOK, StoresInv
  <2>2. StoresTypeOK'
    BY <1>1, <1>5 DEF StoresTypeOK, WorkGet
  <2>3. worker' = [worker EXCEPT ![w] = s] /\ worker'[w] = s
    BY <1>1, <1>5 DEF WorkGet
  <2>4. /\ s \in WorkerState /\ s.pc = "stat" /\ s.path = p /\ s.data = d
        /\ s.id = worker[w].id /\ s.raw = worker[w].raw
    BY <1>1, <2>1 DEF WorkerState, WorkerPCs
  <2>5. WorkerInv(w)'
    BY <1>2, <1>3, <2>1, <2>3, <2>4 DEF WorkerInv, OwnedBy, RowOwnedBy
  <2>6. QED BY <1>3, <2>2, <2>3, <2>4, <2>5, WorkerCompose
<1>6. QED BY <1>4, <1>5

(* extract_object reads the etag and chooses the id.                       *)
LEMMA WorkStatInv ==
  ASSUME IInv, NEW w \in Workers, WorkStat(w), UNCHANGED <<client, sweep>>
  PROVE  IInv'
<1> DEFINE p == worker[w].path
           pc == IF worker[w].data \in Readable THEN "pages" ELSE "save"
<1>1. /\ StoresTypeOK /\ StoresInv /\ WorkerInv(w)
      /\ worker \in [Workers -> WorkerState] /\ worker[w] \in WorkerState
  BY WorkerFacts
<1>2. /\ p \in Paths /\ OwnedBy(p, worker[w].id)
      /\ RowOwnedBy(p, worker[w].raw)
      /\ worker[w].data \in Contents /\ worker[w].data \in stored[p]
      /\ worker[w].id \in EntryIds \union {Nothing}
      /\ obj[p] \in Contents \union {Nothing}
  BY <1>1 DEF WorkStat, WorkerInv, WorkerState, StoresTypeOK
<1>3. PICK id \in EntryIds :
        /\ ChooseEntryId(p, worker[w].id, id)
        /\ worker' = [worker EXCEPT ![w].etag = obj[p], ![w].id = id, ![w].pc = pc]
  BY DEF WorkStat
<1> DEFINE s == [worker[w] EXCEPT !.etag = obj[p], !.id = id, !.pc = pc]
<1>4. UNCHANGED <<obj, row, replica, text, queue, stored, budget>>
  BY DEF WorkStat
<1>5. /\ owner' \in [EntryIds -> Paths \union {Nothing}]
      /\ owner'[id] = p
      /\ HistoryGrows /\ StoresInv'
  BY <1>1, <1>2, <1>3, <1>4, IdChoice
<1>6. StoresTypeOK'
  BY <1>1, <1>4, <1>5 DEF StoresTypeOK
<1>7. worker' = [worker EXCEPT ![w] = s] /\ worker'[w] = s
  BY <1>1, <1>3
<1>8. /\ s \in WorkerState /\ s.pc \in {"pages", "save"} /\ s.path = p
      /\ s.data = worker[w].data /\ s.id = id /\ s.raw = worker[w].raw
  BY <1>1, <1>2 DEF WorkerState, WorkerPCs
<1>9. worker[w].raw # Nothing => owner'[worker[w].raw.id] = p
  BY <1>1, <1>2, <1>5, RowOwnedByStable DEF WorkerState
<1>10. WorkerInv(w)'
  BY <1>2, <1>4, <1>5, <1>7, <1>8, <1>9 DEF WorkerInv, OwnedBy, RowOwnedBy
<1>11. QED BY <1>5, <1>6, <1>7, <1>8, <1>10, WorkerCompose

(* run_extraction stores one page of text.                                 *)
LEMMA WorkPageInv ==
  ASSUME IInv, NEW w \in Workers, WorkPage(w), UNCHANGED <<client, sweep>>
  PROVE  IInv'
<1> DEFINE p == worker[w].path
           d == worker[w].data
           n == worker[w].page
           s == [worker[w] EXCEPT
                   !.page = IF n < PageCount[d] THEN n + 1 ELSE n,
                   !.pc = IF n < PageCount[d] THEN "pages" ELSE "save"]
<1>1. /\ StoresTypeOK /\ StoresInv /\ WorkerInv(w)
      /\ worker \in [Workers -> WorkerState] /\ worker[w] \in WorkerState
  BY WorkerFacts
<1>2. /\ p \in Paths /\ d \in Contents /\ worker[w].id \in EntryIds
      /\ OwnedBy(p, worker[w].id) /\ RowOwnedBy(p, worker[w].raw)
      /\ d \in stored[p] /\ n \in Pages
  BY <1>1 DEF WorkPage, WorkerInv, WorkerState
<1>3. owner[worker[w].id] = p
  BY <1>2, NothingAssumption DEF OwnedBy
<1>4. /\ text' \in [EntryIds -> [Pages -> Contents \union {Nothing}]]
      /\ HistoryGrows /\ StoresInv'
  BY <1>1, <1>2, <1>3, PageWrite DEF WorkPage
<1>5. StoresTypeOK'
  BY <1>1, <1>4 DEF StoresTypeOK, WorkPage
<1>6. worker' = [worker EXCEPT ![w] = s] /\ worker'[w] = s
  BY <1>1 DEF WorkPage
<1>7. n < PageCount[d] => n + 1 \in Pages
  BY <1>2, PageAssumption DEF Pages
<1>8. /\ s \in WorkerState /\ s.pc \in {"pages", "save"}
      /\ s.path = p /\ s.data = d /\ s.id = worker[w].id
      /\ s.raw = worker[w].raw
  BY <1>1, <1>7 DEF WorkerState, WorkerPCs
<1>9. WorkerInv(w)'
  BY <1>2, <1>6, <1>8 DEF WorkerInv, OwnedBy, RowOwnedBy, WorkPage
<1>10. QED BY <1>4, <1>5, <1>6, <1>8, <1>9, WorkerCompose

(* The outcome of an extraction fits a row.                                *)
LEMMA ExtractedTypes ==
  ASSUME NEW d \in Contents
  PROVE  ExtractedStatus(d) \in Statuses /\ ExtractedPages(d) \in 0..MaxPage
BY PageAssumption DEF ExtractedStatus, ExtractedPages, Statuses

(* extract_object writes a new row.                                        *)
LEMMA WorkPutRowInv ==
  ASSUME IInv, NEW w \in Workers, WorkPutRow(w), UNCHANGED <<client, sweep>>
  PROVE  IInv'
<1> DEFINE p == worker[w].path
           d == worker[w].data
           r == NewRow(worker[w].id, worker[w].etag, d,
                       ExtractedStatus(d), ExtractedPages(d))
<1>1. /\ StoresTypeOK /\ StoresInv /\ WorkerInv(w)
      /\ worker[w] \in WorkerState
  BY WorkerFacts
<1>2. /\ p \in Paths /\ d \in Contents /\ worker[w].id \in EntryIds
      /\ OwnedBy(p, worker[w].id)
      /\ worker[w].etag \in Contents \union {Nothing}
  BY <1>1 DEF WorkPutRow, WorkerInv, WorkerState
<1>3. r \in Row /\ r.id = worker[w].id
  BY <1>2, ExtractedTypes, NewRowIsRow
<1>4. owner[r.id] = p
  BY <1>2, <1>3, NothingAssumption DEF OwnedBy
<1>5. WriteRow(p, r) /\ UNCHANGED <<obj, text, queue, owner, stored>>
  BY DEF WorkPutRow, PutEntry
<1>6. StoresTypeOK' /\ HistoryGrows /\ StoresInv'
  <2> HIDE DEF r
  <2>1. QED BY <1>1, <1>2, <1>3, <1>4, <1>5, RowWrite
<1>7. QED BY <1>6, WorkerDoneInv DEF WorkPutRow

(* set_extraction reads the raw row.                                       *)
LEMMA WorkReadRawInv ==
  ASSUME IInv, NEW w \in Workers, WorkReadRaw(w), UNCHANGED <<client, sweep>>
  PROVE  IInv'
<1> DEFINE p == worker[w].path
<1>0. PICK r \in Seen(p) :
        IF r = Nothing
        THEN Fail(w)
        ELSE /\ worker' = [worker EXCEPT ![w].pc = "write", ![w].raw = r]
             /\ UNCHANGED queue
  BY DEF WorkReadRaw
<1> DEFINE s == [worker[w] EXCEPT !.pc = "write", !.raw = r]
<1>1. /\ StoresTypeOK /\ StoresInv /\ WorkerInv(w)
      /\ worker \in [Workers -> WorkerState] /\ worker[w] \in WorkerState
  BY WorkerFacts
<1>2. /\ p \in Paths /\ OwnedBy(p, worker[w].id)
      /\ worker[w].data \in Contents /\ worker[w].data \in stored[p]
      /\ worker[w].id \in EntryIds
  BY <1>1 DEF WorkReadRaw, WorkerInv
<1>3. StoresInv' /\ HistoryGrows /\ UNCHANGED <<owner, stored>>
  BY <1>1, StoresUntouched DEF WorkReadRaw
<1>4. CASE r = Nothing
  <2>1. Fail(w) /\ worker[w].pc # "idle"
    BY <1>0, <1>4 DEF WorkReadRaw
  <2>2. queue' \in [Message -> 0..MaxQueued]
    BY <2>1, FailType
  <2>3. StoresTypeOK'
    BY <1>1, <2>2 DEF StoresTypeOK, WorkReadRaw
  <2>4. QED BY <1>3, <2>1, <2>3, WorkerDoneInv DEF Fail
<1>5. CASE r # Nothing
  <2>1. r \in Row /\ owner[r.id] = p
    BY <1>1, <1>2, <1>5, SeenFacts
  <2>2. StoresTypeOK'
    BY <1>0, <1>1, <1>5 DEF StoresTypeOK, WorkReadRaw
  <2>3. worker' = [worker EXCEPT ![w] = s] /\ worker'[w] = s
    BY <1>0, <1>1, <1>5
  <2>4. /\ s \in WorkerState /\ s.pc = "write" /\ s.path = p
        /\ s.data = worker[w].data /\ s.id = worker[w].id /\ s.raw = r
    BY <1>1, <2>1 DEF WorkerState, WorkerPCs
  <2>5. /\ worker'[w].pc = "write" /\ worker'[w].path = p
        /\ worker'[w].data = worker[w].data /\ worker'[w].id = worker[w].id
        /\ worker'[w].raw = r
    BY <2>3, <2>4
  <2>6. WorkerInv(w)'
    <3> HIDE DEF p, s
    <3>1. QED BY <1>2, <1>3, <2>1, <2>5 DEF WorkerInv, OwnedBy, RowOwnedBy
  <2>7. QED BY <1>3, <2>2, <2>3, <2>4, <2>6, WorkerCompose
<1>6. QED BY <1>4, <1>5

(* set_extraction puts the row back with the extraction state.             *)
LEMMA WorkSetExtractionInv ==
  ASSUME IInv, NEW w \in Workers, WorkSetExtraction(w),
         UNCHANGED <<client, sweep>>
  PROVE  IInv'
<1> DEFINE p == worker[w].path
           d == worker[w].data
           r == [worker[w].raw EXCEPT !.status = ExtractedStatus(d),
                                      !.pages = ExtractedPages(d),
                                      !.fresh = TRUE]
<1>1. StoresTypeOK /\ StoresInv /\ WorkerInv(w)
  BY WorkerFacts
<1>2. /\ p \in Paths /\ d \in Contents /\ worker[w].raw \in Row
      /\ owner[worker[w].raw.id] = p
  BY <1>1, NothingAssumption DEF WorkSetExtraction, WorkerInv, RowOwnedBy
<1>3. r \in Row /\ r.id = worker[w].raw.id
  BY <1>2, ExtractedTypes, ExtractionRow
<1>4. WriteRow(p, r) /\ UNCHANGED <<obj, text, queue, owner, stored>>
  BY DEF WorkSetExtraction, SetExtraction
<1>5. StoresTypeOK' /\ HistoryGrows /\ StoresInv'
  <2> HIDE DEF r
  <2>1. QED BY <1>1, <1>2, <1>3, <1>4, RowWrite
<1>6. QED BY <1>5, WorkerDoneInv DEF WorkSetExtraction

(* An invocation dies.                                                     *)
LEMMA WorkerCrashInv ==
  ASSUME IInv, NEW w \in Workers, WorkerCrash(w), UNCHANGED <<client, sweep>>
  PROVE  IInv'
<1>1. StoresTypeOK /\ StoresInv
  BY WorkerFacts
<1>2. StoresInv' /\ HistoryGrows
  BY <1>1, StoresUntouched DEF WorkerCrash
<1>3. queue' \in [Message -> 0..MaxQueued]
  BY FailType DEF WorkerCrash
<1>4. StoresTypeOK'
  BY <1>1, <1>3, SpendType DEF StoresTypeOK, BudgetKinds, WorkerCrash
<1>5. QED BY <1>2, <1>4, WorkerDoneInv DEF WorkerCrash, Fail

(* No step of a worker breaks IInv.                                        *)
LEMMA WorkerNextInv ==
  ASSUME IInv, NEW w \in Workers, WorkerNext(w)
  PROVE  IInv'
BY ReceiveInv, WorkLookupInv, WorkGetInv, WorkStatInv, WorkPageInv,
   WorkPutRowInv, WorkReadRawInv, WorkSetExtractionInv, WorkerCrashInv
DEF WorkerNext, WorkerStep

-----------------------------------------------------------------------------
(* The reconciler and the writers beside the API.                          *)

(* A sweep that is over is a sweep state.                                  *)
LEMMA NoSweepType == NoSweep \in SweepState
BY DEF NoSweep, SweepState

(* What IInv says of the sweep.                                            *)
LEMMA SweepFacts ==
  ASSUME IInv
  PROVE  StoresTypeOK /\ StoresInv /\ SweepInv /\ sweep \in SweepState
BY DEF IInv, TypeOK, ReconcilerTypeOK

(* A step of the sweep preserves IInv when it preserves what concerns the  *)
(* stores and the sweep.                                                   *)
LEMMA SweepCompose ==
  ASSUME IInv, UNCHANGED <<client, worker>>, HistoryGrows,
         StoresTypeOK', StoresInv', sweep' \in SweepState, SweepInv'
  PROVE  IInv'
<1>1. TypeOK'
  BY DEF IInv, TypeOK, IngestApiTypeOK, WorkerTypeOK, ReconcilerTypeOK
<1>2. ASSUME NEW c \in Clients PROVE ClientInv(c)'
  BY ClientFrame DEF IInv
<1>3. ASSUME NEW w \in Workers PROVE WorkerInv(w)'
  BY WorkerFrame DEF IInv
<1>4. QED BY <1>1, <1>2, <1>3 DEF IInv

(* Going on with the rest of the sweep preserves the invariant of the      *)
(* sweep.                                                                  *)
LEMMA SweepRestInv ==
  ASSUME NEW s \in SweepState, RowOwnedBy(s.path, s.raw), UNCHANGED owner,
         sweep' = SweepRest(s)
  PROVE  sweep' \in SweepState /\ SweepInv'
<1>1. CASE sweep' = NoSweep
  BY <1>1, NoSweepType DEF NoSweep, SweepInv, RowOwnedBy
<1>2. CASE sweep' = [s EXCEPT !.pc = "heal"]
  <2>1. /\ sweep' \in SweepState
        /\ sweep'.pc = "heal" /\ sweep'.raw = s.raw /\ sweep'.path = s.path
    BY <1>2 DEF SweepState
  <2>2. QED BY <2>1 DEF SweepInv, RowOwnedBy
<1>3. QED BY <1>1, <1>2 DEF SweepRest

(* The sweep lists the originals.                                          *)
LEMMA SweepListInv ==
  ASSUME IInv, SweepList, UNCHANGED <<client, worker>>
  PROVE  IInv'
<1>1. StoresTypeOK /\ StoresInv
  BY SweepFacts
<1>2. StoresInv' /\ HistoryGrows /\ StoresTypeOK'
  BY <1>1, StoresUntouched DEF SweepList, storeVars, StoresTypeOK
<1>3. /\ sweep' \in SweepState
      /\ sweep'.pc = "rows" /\ sweep'.raw = Nothing
  BY <1>1, NoSweepType DEF SweepList, StoresTypeOK, NoSweep, SweepState
<1>4. SweepInv'
  BY <1>3 DEF SweepInv, RowOwnedBy
<1>5. QED BY <1>2, <1>3, <1>4, SweepCompose

(* The sweep reads the rows.                                               *)
LEMMA SweepRowsInv ==
  ASSUME IInv, SweepRows, UNCHANGED <<client, worker>>
  PROVE  IInv'
<1>0. PICK late \in SUBSET {p \in Paths : replica[p] # row[p]} :
        LET rows == [p \in Paths |-> IF p \in late THEN replica[p] ELSE row[p]]
        IN  sweep' = SweepRest(
              [sweep EXCEPT !.enqueue = Drifted(sweep.listed, rows),
                            !.orphans = Orphaned(sweep.listed, rows)])
  BY DEF SweepRows
<1> DEFINE rows == [p \in Paths |-> IF p \in late THEN replica[p] ELSE row[p]]
           s == [sweep EXCEPT !.enqueue = Drifted(sweep.listed, rows),
                              !.orphans = Orphaned(sweep.listed, rows)]
<1>1. StoresTypeOK /\ StoresInv /\ SweepInv /\ sweep \in SweepState
  BY SweepFacts
<1>2. /\ StoresInv' /\ HistoryGrows /\ StoresTypeOK'
      /\ UNCHANGED owner
  BY <1>1, StoresUntouched DEF SweepRows, storeVars, StoresTypeOK
<1>3. /\ Drifted(sweep.listed, rows) \subseteq Paths
      /\ Orphaned(sweep.listed, rows) \subseteq Paths
  BY DEF Drifted, Orphaned
<1>4. s \in SweepState /\ s.raw = sweep.raw /\ s.path = sweep.path
  BY <1>1, <1>3 DEF SweepState
<1>5. sweep' = SweepRest(s)
  BY <1>0
<1> HIDE DEF s, rows
<1>6. RowOwnedBy(s.path, s.raw)
  BY <1>1, <1>4 DEF SweepInv
<1>7. QED BY <1>2, <1>4, <1>5, <1>6, SweepRestInv, SweepCompose

(* The sweep enqueues a drifted original.                                  *)
LEMMA SweepEnqueueInv ==
  ASSUME IInv, NEW p \in Paths, SweepEnqueue(p), UNCHANGED <<client, worker>>
  PROVE  IInv'
<1> DEFINE s == [sweep EXCEPT !.enqueue = @ \ {p}]
<1>1. StoresTypeOK /\ StoresInv /\ SweepInv /\ sweep \in SweepState
  BY SweepFacts
<1>2. StoresInv' /\ HistoryGrows
  BY <1>1, StoresUntouched DEF SweepEnqueue
<1>3. [path |-> Unquoted[p], receives |-> 0] \in Message
  BY QueueAssumption, ReconcilerAssumption DEF Message
<1>4. StoresTypeOK'
  BY <1>1, <1>3, EnqueueType DEF SweepEnqueue, Notify, StoresTypeOK
<1>5. s \in SweepState /\ s.raw = sweep.raw /\ s.path = sweep.path
  BY <1>1 DEF SweepState
<1>6. sweep' = SweepRest(s) /\ UNCHANGED owner
  BY DEF SweepEnqueue
<1> HIDE DEF s
<1>7. RowOwnedBy(s.path, s.raw)
  BY <1>1, <1>5 DEF SweepInv
<1>8. QED BY <1>2, <1>4, <1>5, <1>6, <1>7, SweepRestInv, SweepCompose

(* The sweep's delete_entry reads the raw row.                             *)
LEMMA SweepReadRawInv ==
  ASSUME IInv, NEW p \in Paths, SweepReadRaw(p), UNCHANGED <<client, worker>>
  PROVE  IInv'
<1> DEFINE s == [sweep EXCEPT !.orphans = @ \ {p}]
<1>0. PICK r \in Seen(p) :
        sweep' = IF r = Nothing
                 THEN SweepRest(s)
                 ELSE [s EXCEPT !.pc = "tombstone", !.path = p, !.raw = r]
  BY DEF SweepReadRaw
<1> DEFINE t == [s EXCEPT !.pc = "tombstone", !.path = p, !.raw = r]
<1>1. StoresTypeOK /\ StoresInv /\ SweepInv /\ sweep \in SweepState
  BY SweepFacts
<1>2. /\ StoresInv' /\ HistoryGrows /\ StoresTypeOK'
      /\ UNCHANGED owner
  BY <1>1, StoresUntouched DEF SweepReadRaw, storeVars, StoresTypeOK
<1>3. s \in SweepState /\ s.raw = sweep.raw /\ s.path = sweep.path
  BY <1>1 DEF SweepState
<1>4. CASE r = Nothing
  <2>1. sweep' = SweepRest(s)
    BY <1>0, <1>4
  <2> HIDE DEF s
  <2>2. RowOwnedBy(s.path, s.raw)
    BY <1>1, <1>3 DEF SweepInv
  <2>3. QED BY <1>2, <1>3, <2>1, <2>2, SweepRestInv, SweepCompose
<1>5. CASE r # Nothing
  <2>1. sweep' = t
    BY <1>0, <1>5
  <2>2. r \in Row /\ owner[r.id] = p
    BY <1>1, <1>5, SeenFacts
  <2> HIDE DEF s
  <2>3. t \in SweepState /\ t.raw = r /\ t.path = p
    BY <1>3, <2>2 DEF SweepState
  <2>4. SweepInv'
    BY <1>2, <2>1, <2>2, <2>3 DEF SweepInv, RowOwnedBy
  <2>5. QED BY <1>2, <2>1, <2>3, <2>4, SweepCompose
<1>6. QED BY <1>4, <1>5

(* The sweep's delete_entry puts the row back tombstoned.                  *)
LEMMA SweepTombstoneInv ==
  ASSUME IInv, SweepTombstone, UNCHANGED <<client, worker>>
  PROVE  IInv'
<1> DEFINE p == sweep.path
           r == [sweep.raw EXCEPT !.deleted = TRUE]
           s == [sweep EXCEPT !.path = Nothing, !.raw = Nothing]
<1>1. StoresTypeOK /\ StoresInv /\ SweepInv /\ sweep \in SweepState
  BY SweepFacts
<1>2. p \in Paths /\ sweep.raw \in Row /\ owner[sweep.raw.id] = p
  BY <1>1, NothingAssumption DEF SweepTombstone, SweepInv, RowOwnedBy
<1>3. r \in Row /\ r.id = sweep.raw.id
  BY <1>2, TombstoneRow
<1>4. WriteRow(p, r) /\ UNCHANGED <<obj, text, queue, owner, stored>>
  BY DEF SweepTombstone, Tombstone
<1>5. StoresTypeOK' /\ HistoryGrows /\ StoresInv'
  <2> HIDE DEF r
  <2>1. QED BY <1>1, <1>2, <1>3, <1>4, RowWrite
<1>7. s \in SweepState /\ s.raw = Nothing
  BY <1>1 DEF SweepState
<1>8. sweep' = SweepRest(s)
  BY DEF SweepTombstone
<1> HIDE DEF s
<1>9. RowOwnedBy(s.path, s.raw)
  BY <1>7 DEF RowOwnedBy
<1>10. QED BY <1>4, <1>5, <1>7, <1>8, <1>9, SweepRestInv, SweepCompose

(* The sweep dies.                                                         *)
LEMMA SweepCrashInv ==
  ASSUME IInv, SweepCrash, UNCHANGED <<client, worker>>
  PROVE  IInv'
<1>1. StoresTypeOK /\ StoresInv
  BY SweepFacts
<1>2. StoresInv' /\ HistoryGrows
  BY <1>1, StoresUntouched DEF SweepCrash
<1>3. StoresTypeOK'
  BY <1>1, SpendType DEF StoresTypeOK, BudgetKinds, SweepCrash
<1>4. sweep' \in SweepState /\ SweepInv'
  BY NoSweepType DEF SweepCrash, NoSweep, SweepInv, RowOwnedBy
<1>5. QED BY <1>2, <1>3, <1>4, SweepCompose

(* No step of the sweep breaks IInv.                                       *)
LEMMA SweepNextInv == ASSUME IInv, SweepNext PROVE IInv'
BY SweepListInv, SweepRowsInv, SweepEnqueueInv, SweepReadRawInv,
   SweepTombstoneInv, SweepCrashInv
DEF SweepNext, SweepStep

(* A step outside the three processes preserves IInv when it preserves     *)
(* what concerns the stores.                                               *)
LEMMA EnvironmentFrame ==
  ASSUME IInv, UNCHANGED <<client, worker, sweep>>, HistoryGrows,
         StoresTypeOK', StoresInv'
  PROVE  IInv'
<1>1. sweep' \in SweepState /\ SweepInv'
  BY SweepFacts, SweepFrame DEF IInv
<1>2. QED BY <1>1, SweepCompose

(* A writer beside the API stores an original.                             *)
LEMMA ExternalPutInv ==
  ASSUME IInv, NEW p \in Paths, NEW c \in Contents, ExternalPut(p, c)
  PROVE  IInv'
<1>1. StoresTypeOK /\ StoresInv
  BY SweepFacts
<1>2. /\ obj' \in [Paths -> Contents \union {Nothing}]
      /\ stored' \in [Paths -> SUBSET Contents]
      /\ HistoryGrows /\ StoresInv'
  BY <1>1, OriginalWrite DEF ExternalPut
<1>3. queue' \in [Message -> 0..MaxQueued]
  <2>1. [path |-> p, receives |-> 0] \in Message
    BY QueueAssumption DEF Message
  <2>2. CASE Notify(p)
    BY <1>1, <2>1, <2>2, EnqueueType DEF Notify, StoresTypeOK
  <2>3. CASE UNCHANGED queue
    BY <1>1, <2>3 DEF StoresTypeOK
  <2>4. QED BY <2>2, <2>3 DEF ExternalPut
<1>4. StoresTypeOK'
  BY <1>1, <1>2, <1>3, SpendType DEF StoresTypeOK, ExternalPut, BudgetKinds
<1>5. QED BY <1>2, <1>4, EnvironmentFrame DEF ExternalPut

(* A writer beside the API removes an original.                            *)
LEMMA ExternalDeleteInv ==
  ASSUME IInv, NEW p \in Paths, ExternalDelete(p)
  PROVE  IInv'
<1>1. StoresTypeOK /\ StoresInv
  BY SweepFacts
<1>2. /\ obj' \in [Paths -> Contents \union {Nothing}]
      /\ HistoryGrows /\ StoresInv'
  BY <1>1, OriginalDelete DEF ExternalDelete
<1>3. StoresTypeOK'
  BY <1>1, <1>2, SpendType DEF StoresTypeOK, ExternalDelete, BudgetKinds
<1>4. QED BY <1>2, <1>3, EnvironmentFrame DEF ExternalDelete

(* The rows grow older than the grace window.                              *)
LEMMA GraceElapsesInv ==
  ASSUME IInv, GraceElapses
  PROVE  IInv'
<1>1. StoresTypeOK /\ StoresInv
  BY SweepFacts
<1>2. HistoryGrows
  BY DEF GraceElapses, HistoryGrows
<1>3. ASSUME NEW p \in Paths
      PROVE  /\ row'[p] \in Row \union {Nothing}
             /\ RowOwnedBy(p, row[p])' /\ RowOwnedBy(p, replica[p])'
  <2>1. row[p] \in Row \union {Nothing} /\ RowOwnedBy(p, row[p])
    BY <1>1 DEF StoresTypeOK, StoresInv
  <2>2. CASE row[p] = Nothing
    BY <2>1, <2>2 DEF GraceElapses, RowOwnedBy
  <2>3. CASE row[p] # Nothing
    <3>1. row'[p] = [row[p] EXCEPT !.fresh = FALSE] /\ UNCHANGED owner
      BY <2>3 DEF GraceElapses
    <3>2. row'[p] \in Row /\ row'[p].id = row[p].id
      BY <2>1, <2>3, <3>1 DEF Row
    <3>3. replica'[p] = row'[p]
      BY DEF GraceElapses
    <3>4. QED BY <2>1, <2>3, <3>1, <3>2, <3>3 DEF RowOwnedBy
  <2>4. QED BY <2>2, <2>3
<1>4. /\ row' \in [Paths -> Row \union {Nothing}]
      /\ replica' \in [Paths -> Row \union {Nothing}]
  BY <1>3 DEF GraceElapses
<1>5. StoresTypeOK'
  BY <1>1, <1>4 DEF StoresTypeOK, GraceElapses
<1>6. StoresInv'
  BY <1>1, <1>2, <1>3, TextFrame, ObjectsFrame DEF StoresInv, GraceElapses
<1>7. QED BY <1>2, <1>5, <1>6, EnvironmentFrame DEF GraceElapses

(* The replica catches up.                                                 *)
LEMMA ReplicateInv ==
  ASSUME IInv, NEW p \in Paths, Replicate(p), UNCHANGED <<client, worker, sweep>>
  PROVE  IInv'
<1>1. StoresTypeOK /\ StoresInv
  BY SweepFacts
<1>2. HistoryGrows
  BY DEF Replicate, HistoryGrows
<1>3. \A q \in Paths : replica'[q] \in Seen(q) /\ row'[q] \in Seen(q)
  BY <1>1 DEF Replicate, Seen, StoresTypeOK
<1>4. StoresTypeOK'
  BY <1>1 DEF Replicate, StoresTypeOK
<1>5. (\A q \in Paths : RowOwnedBy(q, row[q]) /\ RowOwnedBy(q, replica[q]))'
  BY <1>1, <1>2, <1>3, SeenStable DEF RowOwnedBy
<1>6. StoresInv'
  BY <1>1, <1>2, <1>5, TextFrame, ObjectsFrame DEF StoresInv, Replicate
<1>7. QED BY <1>2, <1>4, <1>6, EnvironmentFrame

-----------------------------------------------------------------------------
(* The inductive invariant and what follows from it.                       *)

(* IInv holds of the empty stores.                                         *)
LEMMA InitIInv == Init => IInv
<1> SUFFICES ASSUME Init PROVE IInv
  OBVIOUS
<1>1. /\ StoresInit /\ client = [c \in Clients |-> NoRequest]
      /\ worker = [w \in Workers |-> NoMessage] /\ sweep = NoSweep
  BY DEF Init, IngestApiInit, WorkerInit, ReconcilerInit
<1>2. StoresTypeOK
  BY <1>1, BudgetAssumption, QueueAssumption
  DEF StoresInit, StoresTypeOK, NoText
<1>3. TypeOK
  BY <1>1, <1>2, NoRequestType, NoMessageType, NoSweepType
  DEF TypeOK, IngestApiTypeOK, WorkerTypeOK, ReconcilerTypeOK
<1>4. StoresInv
  BY <1>1 DEF StoresInit, StoresInv, TextStored, RowOwnedBy, NoText
<1>5. ASSUME NEW c \in Clients PROVE ClientInv(c)
  BY <1>1 DEF ClientInv, NoRequest, OwnedBy, RowOwnedBy
<1>6. ASSUME NEW w \in Workers PROVE WorkerInv(w)
  BY <1>1 DEF WorkerInv, NoMessage, OwnedBy, RowOwnedBy
<1>7. SweepInv
  BY <1>1 DEF SweepInv, NoSweep, RowOwnedBy
<1>8. QED BY <1>3, <1>4, <1>5, <1>6, <1>7 DEF IInv

(* A step that changes nothing preserves IInv.                             *)
LEMMA StutterIInv == ASSUME IInv, UNCHANGED vars PROVE IInv'
<1>1. /\ UNCHANGED <<obj, row, replica, text, queue, owner, stored, budget>>
      /\ UNCHANGED <<client, worker, sweep>>
  BY DEF vars, storeVars
<1>2. StoresTypeOK' /\ StoresInv' /\ HistoryGrows
  BY <1>1, SweepFacts, StoresUntouched DEF StoresTypeOK
<1>3. QED BY <1>1, <1>2, EnvironmentFrame

(* IInv is inductive.                                                      *)
LEMMA NextIInv == IInv /\ [Next]_vars => IInv'
BY ClientNextInv, WorkerNextInv, SweepNextInv, ExternalPutInv,
   ExternalDeleteInv, GraceElapsesInv, ReplicateInv, StutterIInv
DEF Next

(* IInv holds in every reachable state, for all values of the constants.   *)
THEOREM Invariance == Spec => []IInv
<1>1. QED BY InitIInv, NextIInv, PTL DEF Spec

(* The stores, the requests, the messages and the sweep keep their types.  *)
THEOREM TypeCorrect == Spec => []TypeOK
<1>1. IInv => TypeOK
  BY DEF IInv
<1>2. QED BY <1>1, Invariance, PTL

(* No interleaving, crash, repetition or late read of put_document,        *)
(* delete_document, extract_object and the sweep leads a path's row to     *)
(* text that was extracted from another path's bytes.                      *)
THEOREM Provenance == Spec => []NoForeignText
<1>1. IInv => NoForeignText
  <2> SUFFICES ASSUME IInv, NEW p \in Paths, NEW r \in Seen(p), r # Nothing,
                      NEW n \in Pages
               PROVE  text[r.id][n] \in stored[p] \union {Nothing}
    BY DEF NoForeignText
  <2>1. r.id \in EntryIds /\ owner[r.id] = p
    BY SweepFacts, SeenFacts
  <2>2. QED BY <2>1, SweepFacts DEF StoresInv, TextStored
<1>2. QED BY <1>1, Invariance, PTL

-----------------------------------------------------------------------------
(* The grace window.                                                       *)

(* Whoever writes a row writes a fresh one or a tombstone: a row that can  *)
(* be read as live and old could be so before.                             *)
Old(r) == Live(r) /\ ~r.fresh
NoRowAges ==
  \A p \in Paths : (\E r \in Seen(p)' : Old(r)) => \E r \in Seen(p) : Old(r)

(* A step that writes no row ages none, and no late replica does.          *)
LEMMA UntouchedRowsDoNotAge == UNCHANGED <<row, replica>> => NoRowAges
BY DEF NoRowAges, Seen

LEMMA ReplicateDoesNotAge ==
  ASSUME StoresTypeOK, NEW p \in Paths, Replicate(p)
  PROVE  NoRowAges
<1>1. \A q \in Paths : Seen(q)' \subseteq Seen(q)
  BY DEF StoresTypeOK, Replicate, Seen
<1>2. QED BY <1>1 DEF NoRowAges

(* A write of a fresh row or of a tombstone ages none.                     *)
LEMMA WrittenRowDoesNotAge ==
  ASSUME StoresTypeOK, NEW p \in Paths, NEW r, WriteRow(p, r),
         ~Live(r) \/ r.fresh
  PROVE  NoRowAges
<1>1. \A q \in Paths : Seen(q)' \subseteq Seen(q) \union {r}
  BY WriteRowFacts DEF Seen
<1>2. QED BY <1>1 DEF NoRowAges, Old

(* delete_entry ages no live row.                                          *)
LEMMA TombstoneDoesNotAge ==
  ASSUME StoresTypeOK, NEW p \in Paths, NEW r \in Row, Tombstone(p, r)
  PROVE  NoRowAges
<1> DEFINE t == [r EXCEPT !.deleted = TRUE]
<1>1. WriteRow(p, t)
  BY DEF Tombstone
<1>2. ~Live(t)
  BY DEF Live, Row
<1> HIDE DEF t
<1>3. QED BY <1>1, <1>2, WrittenRowDoesNotAge

(* put_entry ages none: updated_at is new.                                 *)
LEMMA NewRowDoesNotAge ==
  ASSUME StoresTypeOK, NEW p \in Paths, NEW id, NEW etag, NEW checksum,
         NEW status, NEW pages,
         PutEntry(p, NewRow(id, etag, checksum, status, pages))
  PROVE  NoRowAges
<1> DEFINE r == NewRow(id, etag, checksum, status, pages)
<1>1. WriteRow(p, r)
  BY DEF PutEntry
<1>2. r.fresh
  BY DEF NewRow
<1> HIDE DEF r
<1>3. QED BY <1>1, <1>2, WrittenRowDoesNotAge

(* set_extraction ages none: it refreshes updated_at.                      *)
LEMMA ExtractionDoesNotAge ==
  ASSUME StoresTypeOK, NEW p \in Paths, NEW r \in Row, NEW status, NEW pages,
         SetExtraction(p, r, status, pages)
  PROVE  NoRowAges
<1> DEFINE t == [r EXCEPT !.status = status, !.pages = pages, !.fresh = TRUE]
<1>1. WriteRow(p, t)
  BY DEF SetExtraction
<1>2. t.fresh
  BY DEF Row
<1> HIDE DEF t
<1>3. QED BY <1>1, <1>2, WrittenRowDoesNotAge

(* No step of a request ages a row.                                        *)
LEMMA ClientAgesNoRow ==
  ASSUME IInv, NEW c \in Clients, ClientNext(c)
  PROVE  NoRowAges
<1>1. StoresTypeOK /\ ClientInv(c)
  BY ClientFacts
<1>2. CASE PutRow(c)
  BY <1>1, <1>2, NewRowDoesNotAge DEF PutRow, ClientInv
<1>3. CASE DeleteTombstone(c)
  BY <1>1, <1>3, TombstoneDoesNotAge DEF DeleteTombstone, ClientInv
<1>4. CASE UNCHANGED <<row, replica>>
  BY <1>4, UntouchedRowsDoNotAge
<1>5. QED
  BY <1>2, <1>3, <1>4
  DEF ClientNext, ClientBegin, ClientStep, ClientCrash, PutLookup, PutStore,
      PutPage, DeleteLookup, DeleteReadRaw, DeleteObject, DeleteText, storeVars

(* No step of a worker ages a row.                                         *)
LEMMA WorkerAgesNoRow ==
  ASSUME IInv, NEW w \in Workers, WorkerNext(w)
  PROVE  NoRowAges
<1>1. StoresTypeOK /\ WorkerInv(w)
  BY WorkerFacts
<1>2. CASE WorkPutRow(w)
  BY <1>1, <1>2, NewRowDoesNotAge DEF WorkPutRow, WorkerInv
<1>3. CASE WorkSetExtraction(w)
  BY <1>1, <1>3, ExtractionDoesNotAge DEF WorkSetExtraction, WorkerInv
<1>4. CASE UNCHANGED <<row, replica>>
  BY <1>4, UntouchedRowsDoNotAge
<1>5. QED
  BY <1>2, <1>3, <1>4
  DEF WorkerNext, WorkerStep, WorkerCrash, Receive, WorkLookup, WorkGet,
      WorkStat, WorkPage, WorkReadRaw, storeVars

(* GraceInv holds when no sweep is under way.                              *)
LEMMA InitGraceInv == Init => GraceInv
BY DEF Init, ReconcilerInit, NoSweep, GraceInv

(* While the sweep is not the one to step. *)
LEMMA GraceFrame ==
  ASSUME GraceInv, UNCHANGED sweep, NoRowAges \/ sweep.pc = "idle"
  PROVE  GraceInv'
BY DEF GraceInv, NoRowAges, Old

(* Going on with the rest of the sweep keeps what was live, and adds no    *)
(* orphan.                                                                 *)
LEMMA SweepRestFields ==
  ASSUME NEW s \in SweepState
  PROVE  LET t == SweepRest(s)
         IN  /\ t.pc \in {"idle", "heal"} /\ t.orphans \subseteq s.orphans
             /\ t.pc # "idle" => t.live = s.live
             /\ t.orphans \subseteq t.live \/ t.live = s.live
BY DEF SweepRest, NoSweep, SweepState

(* No step of the sweep breaks GraceInv: it tombstones only rows that are  *)
(* old, and those were live when it began.                                 *)
LEMMA SweepGraceInv ==
  ASSUME IInv, GraceInv, SweepNext
  PROVE  GraceInv'
<1>1. StoresTypeOK /\ SweepInv /\ sweep \in SweepState
  BY SweepFacts
<1>2. CASE SweepList
  <2>1. /\ sweep'.live = {p \in Paths : \E r \in Seen(p) : Live(r)}
        /\ sweep'.orphans = {} /\ sweep'.pc = "rows"
        /\ UNCHANGED <<row, replica>>
    BY <1>2 DEF SweepList, NoSweep, storeVars
  <2>2. QED BY <2>1 DEF GraceInv, Seen
<1>3. CASE SweepRows
  <2>0. PICK late \in SUBSET {p \in Paths : replica[p] # row[p]} :
          LET rows == [p \in Paths |-> IF p \in late THEN replica[p] ELSE row[p]]
          IN  sweep' = SweepRest(
                [sweep EXCEPT !.enqueue = Drifted(sweep.listed, rows),
                              !.orphans = Orphaned(sweep.listed, rows)])
    BY <1>3 DEF SweepRows
  <2> DEFINE rows == [p \in Paths |-> IF p \in late THEN replica[p] ELSE row[p]]
             s == [sweep EXCEPT !.enqueue = Drifted(sweep.listed, rows),
                                !.orphans = Orphaned(sweep.listed, rows)]
  <2>1. \A p \in Paths : rows[p] \in Seen(p)
    BY DEF Seen
  <2>2. sweep' = SweepRest(s) /\ UNCHANGED <<row, replica>> /\ sweep.pc # "idle"
    BY <1>3, <2>0 DEF SweepRows, storeVars
  <2> HIDE DEF rows
  <2>3. Orphaned(sweep.listed, rows) \subseteq sweep.live
    BY <2>1, <2>2 DEF Orphaned, GraceInv
  <2>4. /\ s \in SweepState /\ s.live = sweep.live
        /\ s.orphans = Orphaned(sweep.listed, rows)
    BY <1>1 DEF SweepState, Drifted, Orphaned
  <2> HIDE DEF s
  <2>5. QED BY <2>2, <2>3, <2>4, SweepRestFields DEF GraceInv, Seen
<1>4. ASSUME NEW p \in Paths, SweepEnqueue(p)
      PROVE  GraceInv'
  <2> DEFINE s == [sweep EXCEPT !.enqueue = @ \ {p}]
  <2>1. s \in SweepState /\ s.live = sweep.live /\ s.orphans = sweep.orphans
    BY <1>1 DEF SweepState
  <2>2. sweep' = SweepRest(s) /\ UNCHANGED <<row, replica>> /\ sweep.pc # "idle"
    BY <1>4 DEF SweepEnqueue
  <2> HIDE DEF s
  <2>3. QED BY <2>1, <2>2, SweepRestFields DEF GraceInv, Seen
<1>5. ASSUME NEW p \in Paths, SweepReadRaw(p)
      PROVE  GraceInv'
  <2> DEFINE s == [sweep EXCEPT !.orphans = @ \ {p}]
  <2>0. PICK r \in Seen(p) :
          sweep' = IF r = Nothing
                   THEN SweepRest(s)
                   ELSE [s EXCEPT !.pc = "tombstone", !.path = p, !.raw = r]
    BY <1>5 DEF SweepReadRaw
  <2>1. /\ s \in SweepState /\ s.live = sweep.live
        /\ s.orphans = sweep.orphans \ {p}
    BY <1>1 DEF SweepState
  <2>2. UNCHANGED <<row, replica>> /\ sweep.pc # "idle" /\ p \in sweep.orphans
    BY <1>5 DEF SweepReadRaw, storeVars
  <2>3. CASE r = Nothing
    <3>1. sweep' = SweepRest(s)
      BY <2>0, <2>3
    <3> HIDE DEF s
    <3>2. QED BY <2>1, <2>2, <3>1, SweepRestFields DEF GraceInv, Seen
  <2>4. CASE r # Nothing
    <3>1. sweep' = [s EXCEPT !.pc = "tombstone", !.path = p, !.raw = r]
      BY <2>0, <2>4
    <3> HIDE DEF s
    <3>2. /\ sweep'.pc = "tombstone" /\ sweep'.path = p
          /\ sweep'.live = s.live /\ sweep'.orphans = s.orphans
      BY <2>1, <3>1 DEF SweepState
    <3>3. QED BY <2>1, <2>2, <3>2 DEF GraceInv, Seen
  <2>5. QED BY <2>3, <2>4
<1>6. CASE SweepTombstone
  <2> DEFINE s == [sweep EXCEPT !.path = Nothing, !.raw = Nothing]
  <2>1. s \in SweepState /\ s.live = sweep.live /\ s.orphans = sweep.orphans
    BY <1>1 DEF SweepState
  <2>2. sweep' = SweepRest(s) /\ sweep.pc # "idle"
    BY <1>6 DEF SweepTombstone
  <2>3. NoRowAges
    BY <1>1, <1>6, TombstoneDoesNotAge DEF SweepTombstone, SweepInv
  <2> HIDE DEF s
  <2>4. QED BY <2>1, <2>2, <2>3, SweepRestFields DEF GraceInv, NoRowAges, Old
<1>7. CASE SweepCrash
  BY <1>7 DEF SweepCrash, NoSweep, GraceInv
<1>8. QED
  BY <1>2, <1>3, <1>4, <1>5, <1>6, <1>7 DEF SweepNext, SweepStep

(* GraceInv is inductive relative to IInv.                                 *)
LEMMA NextGraceInv == IInv /\ GraceInv /\ [Next]_vars => GraceInv'
<1> SUFFICES ASSUME IInv, GraceInv, [Next]_vars PROVE GraceInv'
  OBVIOUS
<1>1. ASSUME NEW c \in Clients, ClientNext(c) PROVE GraceInv'
  BY <1>1, ClientAgesNoRow, GraceFrame DEF ClientNext
<1>2. ASSUME NEW w \in Workers, WorkerNext(w) PROVE GraceInv'
  BY <1>2, WorkerAgesNoRow, GraceFrame DEF WorkerNext
<1>3. CASE SweepNext
  BY <1>3, SweepGraceInv
<1>4. ASSUME NEW p \in Paths, ExternalDelete(p) PROVE GraceInv'
  BY <1>4, UntouchedRowsDoNotAge, GraceFrame DEF ExternalDelete
<1>5. ASSUME NEW p \in Paths, NEW c \in Contents, ExternalPut(p, c)
      PROVE  GraceInv'
  BY <1>5, UntouchedRowsDoNotAge, GraceFrame DEF ExternalPut
<1>6. CASE GraceElapses
  BY <1>6, GraceFrame DEF GraceElapses
<1>7. CASE UNCHANGED vars
  BY <1>7, UntouchedRowsDoNotAge, GraceFrame DEF vars, storeVars
<1>8. ASSUME NEW p \in Paths, Replicate(p), UNCHANGED sweep PROVE GraceInv'
  BY <1>8, SweepFacts, ReplicateDoesNotAge, GraceFrame
<1>9. QED BY <1>1, <1>2, <1>3, <1>4, <1>5, <1>6, <1>7, <1>8 DEF Next

(* A step that hides a path is the sweep's write, and hides its own path.  *)
LEMMA HidingStep ==
  ASSUME IInv, GraceInv, [Next]_vars, NEW p \in Paths, SweepHides(p)
  PROVE  p \in sweep.live
<1>1. /\ sweep.pc = "tombstone" /\ sweep' # sweep /\ row' # row
  BY DEF SweepHides
<1>2. CASE SweepTombstone
  <2>1. row \in [Paths -> Row \union {Nothing}]
    BY SweepFacts DEF StoresTypeOK
  <2>2. p = sweep.path
    BY <1>2, <2>1 DEF SweepTombstone, Tombstone, WriteRow, SweepHides
  <2>3. QED BY <1>1, <2>2 DEF GraceInv
<1>3. CASE UNCHANGED row \/ UNCHANGED sweep
  BY <1>1, <1>3
<1>4. QED
  BY <1>2, <1>3
  DEF Next, vars, storeVars, ClientNext, WorkerNext, SweepNext, SweepStep,
      SweepList, SweepRows, SweepEnqueue, SweepReadRaw, SweepCrash,
      ExternalPut, ExternalDelete, GraceElapses, Replicate

(* The sweep tombstones only documents whose row was live when the sweep   *)
(* listed the originals, whatever uploads, deletions and extractions run   *)
(* meanwhile.                                                              *)
THEOREM GraceProtects == Spec => SweepHidesOnlyOldDocuments
<1>1. IInv /\ GraceInv /\ [Next]_vars
        => [\A p \in Paths : SweepHides(p) => p \in sweep.live]_vars
  BY HidingStep
<1>2. QED
  BY <1>1, InitIInv, NextIInv, InitGraceInv, NextGraceInv, PTL
  DEF Spec, SweepHidesOnlyOldDocuments

-----------------------------------------------------------------------------
(* One operation at a time.                                                *)

(* Where SettledInSync and SettledWithoutOrphans hold: one operation at a  *)
(* time, through the API, without failures, lost events and late replicas, *)
(* and a worker that reads what the API reads.                             *)
Serial ==
  /\ MaxActive = 1 /\ InlineReadable \subseteq Readable
  /\ \A initial \in InitialBudgets :
       \A kind \in {"external", "lost", "crash", "late"} : initial[kind] = 0

(* A message for the path waits.                                           *)
Queued(p) == \E m \in Message : m.path = p /\ queue[m] > 0

(* The row is that of the stored original, and the worker would extract it. *)
Uploaded(p) ==
  /\ obj[p] # Nothing /\ Live(row[p]) /\ row[p].status # "extracted"
  /\ row[p].etag = obj[p] /\ row[p].checksum = obj[p]

(* A path no operation is at.                                              *)
Good(p) == InSync(p) \/ (Uploaded(p) /\ Queued(p))
OthersGood(p) == \A q \in Paths \ {p} : Good(q)

(* The pages of content d before page k are there.                         *)
PagesTo(id, d, k) == \A n \in 1..k - 1 : text[id][n] = d
HasPages(id, d) == \A n \in 1..PageCount[d] : text[id][n] = d

(* Text belongs to a live row, or to the id at hand.                       *)
HasRow(id) == \E p \in Paths : Live(row[p]) /\ row[p].id = id
TextHasRow(except) == \A id \in EntryIds \ {except} : text[id] # NoText => HasRow(id)

ClientsIdle(but) == \A c \in Clients \ but : client[c].pc = "idle"
WorkersIdle(but) == \A w \in Workers \ but : worker[w].pc = "idle"

Quiet ==
  /\ ClientsIdle({}) /\ WorkersIdle({}) /\ sweep.pc = "idle"
  /\ (\A p \in Paths : Good(p)) /\ TextHasRow(Nothing)

Chosen(p, id) == Live(row[p]) => row[p].id = id

(* What is true while a request is at step k.pc and nothing else runs.     *)
RequestAt(k) ==
  LET p == k.path
      d == k.data IN
  /\ OthersGood(p) /\ TextHasRow(k.id)
  /\ k.pc # "object" => Chosen(p, k.id)
  /\ k.pc = "store" => Good(p) /\ k.page = 1
  /\ k.pc \in {"pages", "entry"} => obj[p] = d /\ Queued(p)
  /\ k.pc = "pages" => /\ ~AsyncMode /\ d \in InlineReadable
                       /\ k.page <= PageCount[d] /\ PagesTo(k.id, d, k.page)
  /\ k.pc = "entry" /\ ~AsyncMode /\ d \in InlineReadable => HasPages(k.id, d)
  /\ k.pc = "tombstone" => k.raw = row[p]
  /\ k.pc \in {"object", "text"} => ~Live(row[p])
  /\ k.pc = "text" => obj[p] = Nothing /\ k.id # Nothing

ClientAt(c) ==
  /\ client[c].pc # "idle" /\ ClientsIdle({c}) /\ WorkersIdle({}) /\ sweep.pc = "idle"
  /\ RequestAt(client[c])

(* What is true while an invocation is at step k.pc and nothing else runs. *)
MessageAt(k) ==
  LET p == k.path
      d == k.data IN
  /\ OthersGood(p) /\ TextHasRow(Nothing)
  /\ k.pc = "lookup" => (InSync(p) \/ Uploaded(p)) /\ ~k.existing /\ k.page = 1
  /\ k.pc = "get" => k.page = 1 /\ (k.existing \/ (obj[p] = Nothing /\ ~Live(row[p])))
  /\ k.pc \notin {"lookup", "get"} => k.existing /\ d = obj[p]
  /\ k.existing => Uploaded(p) /\ k.id = row[p].id
  /\ k.pc = "stat" => k.page = 1
  /\ k.pc = "pages" => d \in Readable /\ k.page <= PageCount[d] /\ PagesTo(k.id, d, k.page)
  /\ k.pc \in {"save", "write"} /\ d \in Readable => HasPages(k.id, d)
  /\ k.pc = "write" => /\ Live(k.raw) /\ k.raw.id = k.id
                       /\ k.raw.etag = d /\ k.raw.checksum = d

WorkerAt(w) ==
  /\ worker[w].pc # "idle" /\ ClientsIdle({}) /\ WorkersIdle({w}) /\ sweep.pc = "idle"
  /\ MessageAt(worker[w])

Sweeping ==
  /\ sweep.pc = "rows" /\ sweep.listed = obj /\ ClientsIdle({}) /\ WorkersIdle({})
  /\ (\A p \in Paths : Good(p)) /\ TextHasRow(Nothing)

NoMishaps ==
  /\ \A kind \in {"external", "lost", "crash", "late"} : budget[kind] = 0
  /\ replica = row

SerialInv ==
  /\ NoMishaps
  /\ \/ Quiet
     \/ \E c \in Clients : ClientAt(c)
     \/ \E w \in Workers : WorkerAt(w)
     \/ Sweeping

-----------------------------------------------------------------------------
(* An operation begins only when none is under way.                        *)
LEMMA BeginsAlone ==
  ASSUME MaxActive = 1, CanBegin \/ Idle
  PROVE  ClientsIdle({}) /\ WorkersIdle({}) /\ sweep.pc = "idle"
<1> DEFINE C == {c \in Clients : client[c].pc # "idle"}
           W == {w \in Workers : worker[w].pc # "idle"}
<1>1. IsFiniteSet(C) /\ IsFiniteSet(W)
  BY IngestApiAssumption, WorkerAssumption, FS_Subset
<1>2. Cardinality(C) \in Nat /\ Cardinality(W) \in Nat
  BY <1>1, FS_CardinalityType
<1>3. (Cardinality(C) = 0 <=> C = {}) /\ (Cardinality(W) = 0 <=> W = {})
  BY <1>1, FS_EmptySet
<1>4. Active = Cardinality(C) + Cardinality(W) + IF sweep.pc = "idle" THEN 0 ELSE 1
  BY DEF Active
<1> HIDE DEF C, W
<1>5. Active < 1 \/ Active = 0
  BY DEF CanBegin, Idle
<1>6. Cardinality(C) = 0 /\ Cardinality(W) = 0 /\ sweep.pc = "idle"
  BY <1>2, <1>4, <1>5
<1>7. C = {} /\ W = {}
  BY <1>3, <1>6
<1>8. QED BY <1>6, <1>7 DEF C, W, ClientsIdle, WorkersIdle

(* Sending a message keeps those that wait.                                *)
LEMMA EnqueueFacts ==
  ASSUME StoresTypeOK, NEW m \in Message
  PROVE  /\ Enqueue(m)[m] > 0
         /\ \A k \in Message : queue[k] \in Nat /\ (queue[k] > 0 => Enqueue(m)[k] > 0)
<1>1. queue \in [Message -> 0..MaxQueued] /\ MaxQueued \in Nat \ {0}
  BY QueueAssumption DEF StoresTypeOK
<1>2. Enqueue(m)[m] = IF queue[m] < MaxQueued THEN queue[m] + 1 ELSE queue[m]
  BY <1>1 DEF Enqueue
<1>3. \A k \in Message : k # m => Enqueue(m)[k] = queue[k]
  BY <1>1 DEF Enqueue
<1>4. \A k \in Message : queue[k] \in 0..MaxQueued
  BY <1>1
<1>5. queue[m] \in 0..MaxQueued /\ Enqueue(m)[m] > 0
  BY <1>1, <1>2, <1>4
<1>6. QED BY <1>1, <1>3, <1>4, <1>5

(* The event of an original, or the sweep's request, waits for its path.   *)
LEMMA NotifyFacts ==
  ASSUME StoresTypeOK, NEW p \in Paths, Notify(p)
  PROVE  /\ Queued(p)'
         /\ \A q \in Paths : Queued(q) => Queued(q)'
<1> DEFINE m == [path |-> p, receives |-> 0]
<1>1. m \in Message /\ m.path = p
  BY QueueAssumption DEF Message
<1>2. queue' = Enqueue(m)
  BY DEF Notify
<1> HIDE DEF m
<1>3. queue'[m] > 0 /\ \A k \in Message : queue[k] > 0 => queue'[k] > 0
  BY <1>1, <1>2, EnqueueFacts
<1>4. QED BY <1>1, <1>3 DEF Queued

(* A row put back with another age is the same to a reader.                *)
Alike(r, s) ==
  \/ r = s
  \/ /\ r # Nothing /\ s # Nothing
     /\ s.id = r.id /\ s.etag = r.etag /\ s.checksum = r.checksum
     /\ s.status = r.status /\ s.pages = r.pages /\ s.deleted = r.deleted

(* What is true of a path stays so while its original, its row and the     *)
(* text of the row's id do.                                                *)
LEMMA PathFrame ==
  ASSUME NEW p, obj'[p] = obj[p], Alike(row[p], row'[p]),
         Live(row[p]) => text'[row[p].id] = text[row[p].id]
  PROVE  /\ Live(row'[p]) = Live(row[p])
         /\ Live(row[p]) => row'[p].id = row[p].id
         /\ InSync(p) => InSync(p)'
         /\ Uploaded(p) => Uploaded(p)'
<1>1. Live(row'[p]) = Live(row[p])
  BY Zenon DEF Alike, Live
<1>2. Live(row[p]) => /\ row'[p].id = row[p].id /\ row'[p].etag = row[p].etag
                      /\ row'[p].checksum = row[p].checksum /\ row'[p].status = row[p].status
                      /\ row'[p].pages = row[p].pages
  BY DEF Alike, Live
<1>3. InSync(p) => InSync(p)'
  <2>1. CASE obj[p] = Nothing
    BY <1>1, <2>1 DEF InSync
  <2>2. CASE obj[p] # Nothing /\ InSync(p)
    <3>1. Live(row[p])
      BY <2>2 DEF InSync
    <3>2. QED BY <1>1, <1>2, <2>2, <3>1 DEF InSync
  <2>3. QED BY <2>1, <2>2
<1>4. Uploaded(p) => Uploaded(p)'
  BY <1>1, <1>2 DEF Uploaded
<1>5. QED BY <1>1, <1>2, <1>3, <1>4

(* A step at one path leaves the others as they were: their text is that   *)
(* of ids of their own.                                                    *)
LEMMA OthersFrame ==
  ASSUME IInv, NEW p \in Paths, OthersGood(p),
         \A q \in Paths \ {p} : obj'[q] = obj[q] /\ row'[q] = row[q],
         \A id \in EntryIds : owner[id] # p => text'[id] = text[id],
         \A q \in Paths \ {p} : Queued(q) => Queued(q)'
  PROVE  OthersGood(p)'
<1> SUFFICES ASSUME NEW q \in Paths, q # p PROVE Good(q)'
  BY DEF OthersGood
<1>1. Live(row[q]) => row[q].id \in EntryIds /\ owner[row[q].id] = q
  BY SeenFacts DEF Live, IInv, TypeOK, Seen
<1>2. Good(q)
  BY DEF OthersGood
<1>3. (InSync(q) => InSync(q)') /\ (Uploaded(q) => Uploaded(q)')
  BY <1>1, PathFrame DEF Alike
<1>4. QED BY <1>2, <1>3 DEF Good

(* Rows that stay as they were still have their text.                      *)
LEMMA TextRowFrame ==
  ASSUME NEW except, TextHasRow(except), UNCHANGED text,
         \A q \in Paths : Live(row[q]) => Live(row'[q]) /\ row'[q].id = row[q].id
  PROVE  TextHasRow(except)'
BY DEF TextHasRow, HasRow

(* A request that goes on: only what concerns it is left to show.          *)
LEMMA RequestGoesOn ==
  ASSUME IInv, NEW c \in Clients, ClientsIdle({c}), WorkersIdle({}), sweep.pc = "idle",
         NEW s \in ClientState, client' = [client EXCEPT ![c] = s], s.pc # "idle",
         UNCHANGED <<worker, sweep>>, RequestAt(s)'
  PROVE  ClientAt(c)'
<1>1. client \in [Clients -> ClientState]
  BY ClientFacts
<1>2. client'[c] = s /\ \A d \in Clients \ {c} : client'[d] = client[d]
  BY <1>1
<1>3. ClientsIdle({c})' /\ WorkersIdle({})' /\ sweep'.pc = "idle"
  BY <1>2 DEF ClientsIdle, WorkersIdle
<1>4. RequestAt(client[c])'
  BY <1>2 DEF RequestAt, OthersGood, TextHasRow, HasRow, Chosen, Good, InSync, Uploaded,
              Queued, PagesTo, HasPages
<1>5. QED BY <1>2, <1>3, <1>4 DEF ClientAt

(* A request that ends leaves nothing under way.                           *)
LEMMA RequestEnds ==
  ASSUME IInv, NEW c \in Clients, ClientsIdle({c}), WorkersIdle({}), sweep.pc = "idle",
         ClientDone(c), UNCHANGED <<worker, sweep>>,
         (\A p \in Paths : Good(p))', TextHasRow(Nothing)'
  PROVE  Quiet'
<1>1. client \in [Clients -> ClientState]
  BY ClientFacts
<1>2. client'[c].pc = "idle" /\ \A d \in Clients \ {c} : client'[d] = client[d]
  BY <1>1 DEF ClientDone, NoRequest
<1>3. ClientsIdle({})' /\ WorkersIdle({})' /\ sweep'.pc = "idle"
  BY <1>2 DEF ClientsIdle, WorkersIdle
<1>4. QED BY <1>3 DEF Quiet

(* What holds of a request, said of its state.                             *)
LEMMA RequestFacts ==
  ASSUME IInv, NEW c \in Clients, ClientAt(c)
  PROVE  /\ StoresTypeOK /\ StoresInv
         /\ client \in [Clients -> ClientState]
         /\ ClientsIdle({c}) /\ WorkersIdle({}) /\ sweep.pc = "idle"
         /\ \E k \in ClientState :
              /\ k = client[c] /\ k.pc # "idle" /\ k.path \in Paths /\ RequestAt(k)
              /\ k.pc \in {"store", "pages", "entry"} =>
                   k.data \in Contents /\ k.id \in EntryIds /\ owner[k.id] = k.path
              /\ k.pc = "text" => k.id \in EntryIds
              /\ k.id \in EntryIds => owner[k.id] = k.path
              /\ k.pc = "tombstone" => k.raw \in Row
<1>1. StoresTypeOK /\ StoresInv /\ client \in [Clients -> ClientState]
      /\ client[c] \in ClientState /\ ClientInv(c)
  BY ClientFacts
<1>2. \A i \in EntryIds : i # Nothing
  BY NothingAssumption
<1>3. client[c].pc # "idle" /\ ClientsIdle({c}) /\ WorkersIdle({}) /\ sweep.pc = "idle"
      /\ RequestAt(client[c])
  BY DEF ClientAt
<1>4. QED BY <1>1, <1>2, <1>3 DEF ClientInv, OwnedBy

(* A write of a row, when no replica is late.                              *)
LEMMA RowSet ==
  ASSUME StoresTypeOK, NoMishaps, NEW p \in Paths, NEW r, WriteRow(p, r)
  PROVE  /\ NoMishaps' /\ row'[p] = r
         /\ \A q \in Paths \ {p} : row'[q] = row[q]
<1>1. ~Spend("late")
  BY DEF NoMishaps, Spend
<1>2. row' = [row EXCEPT ![p] = r] /\ replica' = [replica EXCEPT ![p] = r] /\ UNCHANGED budget
  BY <1>1 DEF WriteRow
<1>3. QED BY <1>2 DEF NoMishaps, StoresTypeOK

(* What is spent is not a mishap.                                          *)
LEMMA SpendFacts ==
  ASSUME StoresTypeOK, NoMishaps, UNCHANGED <<row, replica>>,
         NEW kind \in {"put", "delete", "duplicate"}, Spend(kind)
  PROVE  NoMishaps'
BY DEF NoMishaps, Spend, StoresTypeOK, BudgetKinds

(* put_document stores the original: its event waits, so the row may be    *)
(* another for now.                                                        *)
LEMMA PutStoreSerial ==
  ASSUME IInv, NoMishaps, NEW c \in Clients, ClientAt(c), PutStore(c), UNCHANGED <<worker, sweep>>
  PROVE  NoMishaps' /\ ClientAt(c)'
<1>1. /\ StoresTypeOK /\ client \in [Clients -> ClientState]
      /\ ClientsIdle({c}) /\ WorkersIdle({}) /\ sweep.pc = "idle"
  BY RequestFacts
<1>2. PICK k \in ClientState :
        /\ k = client[c] /\ k.path \in Paths /\ RequestAt(k)
        /\ k.pc \in {"store", "pages", "entry"} =>
             k.data \in Contents /\ k.id \in EntryIds /\ owner[k.id] = k.path
  BY RequestFacts
<1> DEFINE p == k.path
           d == k.data
           pc == IF ~AsyncMode /\ d \in InlineReadable THEN "pages" ELSE "entry"
           s == [k EXCEPT !.pc = pc]
<1>3. k.pc = "store" /\ StoreOriginal(p, d) /\ UNCHANGED <<row, replica, text, owner>>
      /\ client' = [client EXCEPT ![c] = s] /\ Notify(p) /\ UNCHANGED budget
  <2>1. ~Spend("lost")
    BY DEF NoMishaps, Spend
  <2>2. QED BY <1>1, <1>2, <2>1 DEF PutStore, ClientGoto
<1>4. NoMishaps'
  BY <1>3 DEF NoMishaps
<1>5. obj'[p] = d /\ \A q \in Paths \ {p} : obj'[q] = obj[q]
  BY <1>1, <1>2, <1>3 DEF StoreOriginal, StoresTypeOK
<1>6. Queued(p)' /\ \A q \in Paths : Queued(q) => Queued(q)'
  BY <1>1, <1>2, <1>3, NotifyFacts
<1>7. /\ OthersGood(p) /\ TextHasRow(k.id) /\ Chosen(p, k.id) /\ k.page = 1
  BY <1>2, <1>3 DEF RequestAt
<1>8. OthersGood(p)'
  BY <1>2, <1>3, <1>5, <1>6, <1>7, OthersFrame
<1>9. TextHasRow(k.id)' /\ Chosen(p, k.id)'
  BY <1>3, <1>7, TextRowFrame DEF Chosen
<1>10. s \in ClientState /\ s.pc = pc /\ s.path = p /\ s.data = d /\ s.id = k.id /\ s.page = 1
  BY <1>2, <1>7 DEF ClientState, ClientPCs
<1>11. pc = "pages" => 1 <= PageCount[d] /\ PagesTo(k.id, d, 1)'
  <2>1. d \in Contents
    BY <1>2, <1>3
  <2>2. QED BY <2>1, PageAssumption DEF PagesTo
<1>12. RequestAt(s)'
  <2>1. pc \in {"pages", "entry"} /\ (pc = "pages" <=> ~AsyncMode /\ d \in InlineReadable)
    OBVIOUS
  <2> HIDE DEF s, pc
  <2>2. QED BY <1>5, <1>6, <1>8, <1>9, <1>10, <1>11, <2>1 DEF RequestAt
<1>13. s.pc # "idle"
  BY <1>10
<1> HIDE DEF s
<1>14. QED BY <1>1, <1>3, <1>4, <1>10, <1>12, <1>13, RequestGoesOn

(* Without late replicas a read returns the row that is there.             *)
LEMMA SeenNow ==
  ASSUME NoMishaps, NEW p
  PROVE  Seen(p) = {row[p]} /\ GetEntry(p) = {IF Live(row[p]) THEN row[p] ELSE Nothing}
BY DEF NoMishaps, Seen, GetEntry

(* While nothing is under way a request may look up the row of its path.   *)
LEMMA LookupFacts ==
  ASSUME IInv, NoMishaps, Quiet, NEW p \in Paths, NEW entry \in GetEntry(p),
         UNCHANGED <<obj, row, text, queue>>
  PROVE  /\ OthersGood(p)' /\ Good(p)' /\ \A id : TextHasRow(id)'
         /\ Live(row[p]) => entry = row[p] /\ entry # Nothing /\ entry.id \in EntryIds
<1>1. entry = IF Live(row[p]) THEN row[p] ELSE Nothing
  BY SeenNow
<1>2. (\A q \in Paths : Good(q)) /\ TextHasRow(Nothing)
  BY DEF Quiet
<1>3. OthersGood(p)' /\ Good(p)'
  BY <1>2 DEF OthersGood, Good, InSync, Uploaded, Queued
<1>4. \A i \in EntryIds : i # Nothing
  BY NothingAssumption
<1>5. \A id : TextHasRow(id)'
  BY <1>2, <1>4 DEF TextHasRow, HasRow
<1>6. Live(row[p]) => row[p] # Nothing
  BY DEF Live
<1>7. StoresTypeOK /\ StoresInv
  BY DEF IInv, TypeOK
<1>8. QED BY <1>1, <1>3, <1>5, <1>6, <1>7, GetEntryFacts

(* put_document begins: the id it goes on with is that of the live row.    *)
LEMMA PutLookupSerial ==
  ASSUME IInv, NoMishaps, Quiet, NEW c \in Clients, NEW p \in Paths, NEW d \in Contents,
         PutLookup(c, p, d), UNCHANGED <<worker, sweep>>
  PROVE  NoMishaps' /\ ClientAt(c)'
<1>1. PICK entry \in GetEntry(p), id \in EntryIds :
        /\ ChooseEntryId(p, IF entry = Nothing THEN Nothing ELSE entry.id, id)
        /\ client' = [client EXCEPT ![c] =
             [NoRequest EXCEPT !.pc = "store", !.path = p, !.data = d, !.id = id]]
  BY DEF PutLookup
<1> DEFINE s == [NoRequest EXCEPT !.pc = "store", !.path = p, !.data = d, !.id = id]
<1>2. UNCHANGED <<obj, row, replica, text, queue>> /\ Spend("put")
  BY DEF PutLookup
<1>3. StoresTypeOK /\ ClientsIdle({c}) /\ WorkersIdle({}) /\ sweep.pc = "idle"
  BY DEF IInv, TypeOK, Quiet, ClientsIdle
<1>4. NoMishaps'
  BY <1>2, <1>3, SpendFacts
<1>5. /\ OthersGood(p)' /\ Good(p)' /\ TextHasRow(id)'
      /\ Live(row[p]) => entry = row[p] /\ entry # Nothing /\ entry.id \in EntryIds
  BY <1>2, LookupFacts
<1>6. Live(row[p]) => id = row[p].id
  BY <1>1, <1>5, NothingAssumption DEF ChooseEntryId
<1>7. s \in ClientState /\ s.pc = "store" /\ s.path = p /\ s.id = id /\ s.page = 1
  BY NoRequestType DEF ClientState, ClientPCs, NoRequest
<1>8. client' = [client EXCEPT ![c] = s]
  BY <1>1
<1> HIDE DEF s
<1>9. Chosen(p, id)'
  BY <1>2, <1>6 DEF Chosen
<1>10. RequestAt(s)'
  BY <1>5, <1>7, <1>9 DEF RequestAt
<1>11. s.pc # "idle" /\ UNCHANGED <<worker, sweep>>
  BY <1>7
<1>12. QED BY <1>3, <1>4, <1>7, <1>8, <1>10, <1>11, RequestGoesOn

(* delete_document begins.                                                 *)
LEMMA DeleteLookupSerial ==
  ASSUME IInv, NoMishaps, Quiet, NEW c \in Clients, NEW p \in Paths,
         DeleteLookup(c, p), UNCHANGED <<worker, sweep>>
  PROVE  NoMishaps' /\ ClientAt(c)'
<1>1. PICK entry \in GetEntry(p) :
        client' = [client EXCEPT ![c] =
          [NoRequest EXCEPT !.pc = "readRaw", !.path = p,
             !.id = IF entry = Nothing THEN Nothing ELSE entry.id]]
  BY DEF DeleteLookup
<1> DEFINE id == IF entry = Nothing THEN Nothing ELSE entry.id
           s == [NoRequest EXCEPT !.pc = "readRaw", !.path = p, !.id = id]
<1>2. UNCHANGED <<obj, row, replica, text, queue>> /\ Spend("delete")
  BY DEF DeleteLookup
<1>3. /\ StoresTypeOK /\ StoresInv /\ ClientsIdle({c}) /\ WorkersIdle({})
      /\ sweep.pc = "idle"
  BY DEF IInv, TypeOK, Quiet, ClientsIdle
<1>4. NoMishaps'
  BY <1>2, <1>3, SpendFacts
<1>5. /\ OthersGood(p)' /\ (\A i : TextHasRow(i)')
      /\ Live(row[p]) => entry = row[p] /\ entry # Nothing
  BY <1>2, LookupFacts
<1>6. id \in EntryIds \union {Nothing}
  BY <1>3, GetEntryFacts
<1>7. s \in ClientState /\ s.pc = "readRaw" /\ s.path = p /\ s.id = id
  BY <1>6, NoRequestType DEF ClientState, ClientPCs, NoRequest
<1>8. client' = [client EXCEPT ![c] = s]
  BY <1>1
<1>9. Live(row'[p]) => row'[p].id = id
  BY <1>2, <1>5
<1> HIDE DEF s, id
<1>10. RequestAt(s)'
  BY <1>5, <1>7, <1>9 DEF RequestAt, Chosen
<1>11. s.pc # "idle" /\ UNCHANGED <<worker, sweep>>
  BY <1>7
<1>12. QED BY <1>3, <1>4, <1>7, <1>8, <1>10, <1>11, RequestGoesOn

(* A page is stored under the id of the request's path.                    *)
LEMMA PageStored ==
  ASSUME IInv, NEW p \in Paths, NEW id \in EntryIds, owner[id] = p, OthersGood(p),
         NEW n \in Pages, NEW d, StorePage(id, n, d), UNCHANGED <<obj, row, queue>>
  PROVE  /\ text'[id][n] = d /\ \A j \in Pages \ {n} : text'[id][j] = text[id][j]
         /\ \A i \in EntryIds \ {id} : text'[i] = text[i]
         /\ OthersGood(p)'
<1>1. text \in [EntryIds -> [Pages -> Contents \union {Nothing}]]
  BY DEF IInv, TypeOK, StoresTypeOK
<1>2. /\ text'[id][n] = d /\ \A j \in Pages \ {n} : text'[id][j] = text[id][j]
      /\ \A i \in EntryIds \ {id} : text'[i] = text[i]
  BY <1>1 DEF StorePage
<1>3. \A i \in EntryIds : owner[i] # p => text'[i] = text[i]
  BY <1>2
<1>4. \A q \in Paths : obj'[q] = obj[q] /\ row'[q] = row[q] /\ (Queued(q) => Queued(q)')
  BY DEF Queued
<1>5. QED BY <1>2, <1>3, <1>4, OthersFrame

(* The pages before page n, and those up to it.                            *)
LEMMA PagesBefore ==
  ASSUME NEW n \in Pages
  PROVE  /\ \A j \in 1..n - 1 : j \in Pages \ {n}
         /\ \A j \in 1..n : j = n \/ j \in 1..n - 1
         /\ 1..(n + 1) - 1 = 1..n
BY PageAssumption DEF Pages

(* The API extracts a page of the original it has stored.                  *)
LEMMA PutPageSerial ==
  ASSUME IInv, NoMishaps, NEW c \in Clients, ClientAt(c), PutPage(c), UNCHANGED <<worker, sweep>>
  PROVE  NoMishaps' /\ ClientAt(c)'
<1>1. /\ StoresTypeOK /\ client \in [Clients -> ClientState]
      /\ ClientsIdle({c}) /\ WorkersIdle({}) /\ sweep.pc = "idle"
  BY RequestFacts
<1>2. PICK k \in ClientState :
        /\ k = client[c] /\ k.path \in Paths /\ RequestAt(k)
        /\ k.pc \in {"store", "pages", "entry"} =>
             k.data \in Contents /\ k.id \in EntryIds /\ owner[k.id] = k.path
  BY RequestFacts
<1> DEFINE p == k.path
           d == k.data
           n == k.page
           more == n < PageCount[d]
           s == IF more THEN [k EXCEPT !.page = @ + 1] ELSE [k EXCEPT !.pc = "entry"]
<1>3. /\ k.pc = "pages" /\ StorePage(k.id, n, d) /\ client' = [client EXCEPT ![c] = s]
      /\ UNCHANGED <<obj, row, replica, queue, owner, budget>>
  BY <1>1, <1>2 DEF PutPage, ClientGoto
<1>4. NoMishaps'
  BY <1>3 DEF NoMishaps
<1>5. /\ d \in Contents /\ k.id \in EntryIds /\ owner[k.id] = p
      /\ n \in Pages /\ PageCount[d] \in Pages
  BY <1>2, <1>3, PageAssumption DEF ClientState, Pages
<1>6. /\ OthersGood(p) /\ TextHasRow(k.id) /\ Chosen(p, k.id) /\ obj[p] = d /\ Queued(p)
      /\ ~AsyncMode /\ d \in InlineReadable /\ n <= PageCount[d] /\ PagesTo(k.id, d, n)
  BY <1>2, <1>3 DEF RequestAt
<1>7. /\ text'[k.id][n] = d /\ \A j \in Pages \ {n} : text'[k.id][j] = text[k.id][j]
      /\ \A i \in EntryIds \ {k.id} : text'[i] = text[i]
      /\ OthersGood(p)'
  BY <1>2, <1>3, <1>5, <1>6, PageStored
<1>8. TextHasRow(k.id)'
  BY <1>3, <1>6, <1>7 DEF TextHasRow, HasRow
<1>9. Chosen(p, k.id)' /\ obj'[p] = d /\ Queued(p)'
  BY <1>3, <1>6 DEF Chosen, Queued
<1>10. \A j \in 1..n : text'[k.id][j] = d
  <2>1. \A j \in 1..n - 1 : j \in Pages \ {n} /\ text[k.id][j] = d
    BY <1>5, <1>6, PagesBefore DEF PagesTo
  <2>2. \A j \in 1..n : j = n \/ j \in 1..n - 1
    BY <1>5, PagesBefore
  <2>3. QED BY <1>7, <2>1, <2>2
<1>11. CASE more
  <2>1. /\ s \in ClientState /\ s.pc = "pages" /\ s.path = p /\ s.data = d /\ s.id = k.id
        /\ s.page = n + 1 /\ n + 1 <= PageCount[d] /\ n + 1 - 1 = n
    BY <1>2, <1>3, <1>5, <1>11, PageAssumption DEF ClientState, Pages
  <2> HIDE DEF s
  <2>2. PagesTo(k.id, d, n + 1)'
    BY <1>5, <1>10, PagesBefore DEF PagesTo
  <2>3. RequestAt(s)' /\ s.pc # "idle"
    BY <1>6, <1>7, <1>8, <1>9, <2>1, <2>2 DEF RequestAt
  <2>4. UNCHANGED <<worker, sweep>>
    OBVIOUS
  <2>5. QED BY <1>1, <1>3, <1>4, <2>1, <2>3, <2>4, RequestGoesOn
<1>12. CASE ~more
  <2>1. /\ s \in ClientState /\ s.pc = "entry" /\ s.path = p /\ s.data = d /\ s.id = k.id
        /\ n = PageCount[d]
    BY <1>2, <1>3, <1>5, <1>6, <1>12 DEF ClientState, ClientPCs, Pages
  <2> HIDE DEF s
  <2>2. HasPages(k.id, d)'
    BY <1>10, <2>1 DEF HasPages
  <2>3. RequestAt(s)' /\ s.pc # "idle"
    BY <1>6, <1>7, <1>8, <1>9, <2>1, <2>2 DEF RequestAt
  <2>4. UNCHANGED <<worker, sweep>>
    OBVIOUS
  <2>5. QED BY <1>1, <1>3, <1>4, <2>1, <2>3, <2>4, RequestGoesOn
<1>13. QED BY <1>11, <1>12

(* A live row is put at the path of an id: its text is no orphan.          *)
LEMMA RowOfId ==
  ASSUME StoresTypeOK, NEW p \in Paths, NEW id, TextHasRow(id), Chosen(p, id), UNCHANGED text,
         \A q \in Paths \ {p} : row'[q] = row[q], Live(row'[p]), row'[p].id = id
  PROVE  TextHasRow(Nothing)'
<1> SUFFICES ASSUME NEW i \in EntryIds, text[i] # NoText
             PROVE  \E q \in Paths : Live(row'[q]) /\ row'[q].id = i
  BY DEF TextHasRow, HasRow
<1>1. CASE i = id
  BY <1>1
<1>2. CASE i # id
  <2>1. PICK q \in Paths : Live(row[q]) /\ row[q].id = i
    BY <1>2 DEF TextHasRow, HasRow
  <2>2. q # p
    BY <1>2, <2>1 DEF Chosen
  <2>3. QED BY <2>1, <2>2
<1>3. QED BY <1>1, <1>2

(* put_document puts the row, and is done: the row is in step, or the      *)
(* worker will bring it there.                                             *)
LEMMA PutRowSerial ==
  ASSUME Serial, IInv, NoMishaps, NEW c \in Clients, ClientAt(c), PutRow(c),
         UNCHANGED <<worker, sweep>>
  PROVE  NoMishaps' /\ Quiet'
<1>1. /\ StoresTypeOK /\ client \in [Clients -> ClientState]
      /\ ClientsIdle({c}) /\ WorkersIdle({}) /\ sweep.pc = "idle"
  BY RequestFacts
<1>2. PICK k \in ClientState :
        /\ k = client[c] /\ k.path \in Paths /\ RequestAt(k)
        /\ k.pc \in {"store", "pages", "entry"} =>
             k.data \in Contents /\ k.id \in EntryIds /\ owner[k.id] = k.path
  BY RequestFacts
<1> DEFINE p == k.path
           d == k.data
           status == InlineStatus(d)
           pages == IF status = "extracted" THEN PageCount[d] ELSE 0
           r == NewRow(k.id, d, d, status, pages)
<1>3. /\ k.pc = "entry" /\ WriteRow(p, r) /\ ClientDone(c)
      /\ UNCHANGED <<obj, text, queue, owner>>
  BY <1>2 DEF PutRow, PutEntry
<1>4. NoMishaps' /\ row'[p] = r /\ \A q \in Paths \ {p} : row'[q] = row[q]
  BY <1>1, <1>2, <1>3, RowSet
<1>5. /\ d \in Contents /\ d # Nothing /\ k.id \in EntryIds /\ owner[k.id] = p
  BY <1>2, <1>3, NothingAssumption
<1>6. /\ OthersGood(p) /\ TextHasRow(k.id) /\ Chosen(p, k.id) /\ obj[p] = d /\ Queued(p)
      /\ ~AsyncMode /\ d \in InlineReadable => HasPages(k.id, d)
  BY <1>2, <1>3 DEF RequestAt
<1>7. /\ Live(r) /\ r.id = k.id /\ r.etag = d /\ r.checksum = d
      /\ r.status = status /\ r.pages = pages
  <2>1. r # Nothing
    <3>1. r \in Row
      BY <1>5, NewRowIsRow, PageAssumption DEF InlineStatus, Statuses
    <3>2. QED BY <3>1, NothingAssumption
  <2>2. QED BY <2>1 DEF Live, NewRow
<1>8. OthersGood(p)'
  BY <1>2, <1>3, <1>4, <1>6, OthersFrame DEF Queued
<1>9. TextHasRow(Nothing)'
  <2> HIDE DEF r
  <2>1. QED BY <1>1, <1>2, <1>3, <1>4, <1>6, <1>7, RowOfId
<1>10. Good(p)'
  <2>1. CASE status = "extracted"
    <3>1. ~AsyncMode /\ d \in InlineReadable /\ pages = PageCount[d]
      BY <2>1, IngestApiAssumption DEF InlineStatus
    <3>2. ExtractedStatus(d) = "extracted" /\ ExtractedPages(d) = PageCount[d]
      BY <3>1 DEF Serial, ExtractedStatus, ExtractedPages
    <3>3. \A n \in 1..PageCount[d] : text'[k.id][n] = d
      BY <1>3, <1>6, <3>1 DEF HasPages
    <3> HIDE DEF r, status, pages
    <3>4. InSync(p)'
      BY <1>3, <1>4, <1>5, <1>6, <1>7, <2>1, <3>1, <3>2, <3>3 DEF InSync
    <3>5. QED BY <3>4 DEF Good
  <2>2. CASE status # "extracted"
    <3> HIDE DEF r, status, pages
    <3>1. Uploaded(p)' /\ Queued(p)'
      BY <1>3, <1>4, <1>5, <1>6, <1>7, <2>2 DEF Uploaded, Queued
    <3>2. QED BY <3>1 DEF Good
  <2>3. QED BY <2>1, <2>2
<1>11. (\A q \in Paths : Good(q))'
  BY <1>8, <1>10 DEF OthersGood
<1>12. UNCHANGED <<worker, sweep>>
  OBVIOUS
<1>13. QED BY <1>1, <1>3, <1>4, <1>9, <1>11, <1>12, RequestEnds

(* delete_entry has read the row: it is the one that is there.             *)
LEMMA DeleteReadRawSerial ==
  ASSUME IInv, NoMishaps, NEW c \in Clients, ClientAt(c), DeleteReadRaw(c),
         UNCHANGED <<worker, sweep>>
  PROVE  NoMishaps' /\ ClientAt(c)'
<1>1. /\ StoresTypeOK /\ client \in [Clients -> ClientState]
      /\ ClientsIdle({c}) /\ WorkersIdle({}) /\ sweep.pc = "idle"
  BY RequestFacts
<1>2. PICK k \in ClientState : k = client[c] /\ k.path \in Paths /\ RequestAt(k)
  BY RequestFacts
<1> DEFINE p == k.path
<1>3. PICK r : r = row[p]
  OBVIOUS
<1> DEFINE pc == IF r = Nothing THEN "object" ELSE "tombstone"
           s == [k EXCEPT !.raw = r, !.pc = pc]
<1>4. k.pc = "readRaw" /\ client' = [client EXCEPT ![c] = s] /\ UNCHANGED storeVars
  <2>1. Seen(p) = {r}
    BY <1>3, SeenNow
  <2>2. QED BY <1>1, <1>2, <1>3, <2>1 DEF DeleteReadRaw
<1>5. UNCHANGED <<obj, row, replica, text, queue, budget>>
  BY <1>4 DEF storeVars
<1>6. NoMishaps'
  BY <1>5 DEF NoMishaps
<1>7. OthersGood(p) /\ TextHasRow(k.id) /\ Chosen(p, k.id)
  BY <1>2, <1>4 DEF RequestAt
<1>8. OthersGood(p)' /\ TextHasRow(k.id)' /\ Chosen(p, k.id)'
  BY <1>5, <1>7 DEF OthersGood, TextHasRow, HasRow, Chosen, Good, InSync, Uploaded, Queued
<1>9. r \in Row \union {Nothing} /\ r = row'[p]
  BY <1>1, <1>2, <1>5, <1>3 DEF StoresTypeOK
<1>10. s \in ClientState /\ s.pc = pc /\ s.path = p /\ s.id = k.id /\ s.raw = r
  BY <1>2, <1>9 DEF ClientState, ClientPCs
<1>11. pc \in {"object", "tombstone"} /\ (pc = "object" => ~Live(r))
  BY DEF Live
<1> HIDE DEF s, pc
<1>12. RequestAt(s)' /\ s.pc # "idle"
  BY <1>8, <1>9, <1>10, <1>11 DEF RequestAt
<1>13. UNCHANGED <<worker, sweep>>
  OBVIOUS
<1>14. QED BY <1>1, <1>4, <1>6, <1>10, <1>12, <1>13, RequestGoesOn

(* The row is tombstoned: only the text of its id is without a row now.    *)
LEMMA DeleteTombstoneSerial ==
  ASSUME IInv, NoMishaps, NEW c \in Clients, ClientAt(c), DeleteTombstone(c),
         UNCHANGED <<worker, sweep>>
  PROVE  NoMishaps' /\ ClientAt(c)'
<1>1. /\ StoresTypeOK /\ client \in [Clients -> ClientState]
      /\ ClientsIdle({c}) /\ WorkersIdle({}) /\ sweep.pc = "idle"
  BY RequestFacts
<1>2. PICK k \in ClientState :
        /\ k = client[c] /\ k.path \in Paths /\ RequestAt(k)
        /\ k.pc = "tombstone" => k.raw \in Row
  BY RequestFacts
<1> DEFINE p == k.path
           r == [k.raw EXCEPT !.deleted = TRUE]
           s == [k EXCEPT !.raw = Nothing, !.pc = "object"]
<1>3. /\ k.pc = "tombstone" /\ WriteRow(p, r) /\ client' = [client EXCEPT ![c] = s]
      /\ UNCHANGED <<obj, text, queue, owner>>
  BY <1>1, <1>2 DEF DeleteTombstone, Tombstone
<1>4. NoMishaps' /\ row'[p] = r /\ \A q \in Paths \ {p} : row'[q] = row[q]
  BY <1>1, <1>2, <1>3, RowSet
<1>5. ~Live(r)
  BY <1>2, <1>3 DEF Live, Row
<1>6. OthersGood(p) /\ TextHasRow(k.id) /\ Chosen(p, k.id)
  BY <1>2, <1>3 DEF RequestAt
<1>7. OthersGood(p)'
  BY <1>2, <1>3, <1>4, <1>6, OthersFrame DEF Queued
<1>8. TextHasRow(k.id)'
  <2> SUFFICES ASSUME NEW i \in EntryIds, i # k.id, text[i] # NoText
               PROVE  \E q \in Paths : Live(row'[q]) /\ row'[q].id = i
    BY <1>3 DEF TextHasRow, HasRow
  <2>1. PICK q \in Paths : Live(row[q]) /\ row[q].id = i
    BY <1>6 DEF TextHasRow, HasRow
  <2>2. q # p
    BY <1>6, <2>1 DEF Chosen
  <2>3. QED BY <1>4, <2>1, <2>2
<1>9. s \in ClientState /\ s.pc = "object" /\ s.path = p /\ s.id = k.id
  BY <1>2 DEF ClientState, ClientPCs
<1> HIDE DEF s, r
<1>10. RequestAt(s)' /\ s.pc # "idle"
  BY <1>4, <1>5, <1>7, <1>8, <1>9 DEF RequestAt
<1>11. UNCHANGED <<worker, sweep>>
  OBVIOUS
<1>12. QED BY <1>1, <1>3, <1>4, <1>9, <1>10, <1>11, RequestGoesOn

(* The original is removed, and its row is a tombstone: the path is in     *)
(* step.                                                                   *)
LEMMA DeleteObjectSerial ==
  ASSUME IInv, NoMishaps, NEW c \in Clients, ClientAt(c), DeleteObject(c),
         UNCHANGED <<worker, sweep>>
  PROVE  NoMishaps' /\ (ClientAt(c)' \/ Quiet')
<1>1. /\ StoresTypeOK /\ client \in [Clients -> ClientState]
      /\ ClientsIdle({c}) /\ WorkersIdle({}) /\ sweep.pc = "idle"
  BY RequestFacts
<1>2. PICK k \in ClientState : k = client[c] /\ k.path \in Paths /\ RequestAt(k)
  BY RequestFacts
<1> DEFINE p == k.path
           s == [k EXCEPT !.pc = "text"]
<1>3. /\ k.pc = "object" /\ DeleteOriginal(p) /\ UNCHANGED <<row, replica, text, queue, owner, budget>>
      /\ IF k.id = Nothing THEN ClientDone(c) ELSE client' = [client EXCEPT ![c] = s]
  BY <1>1, <1>2 DEF DeleteObject, ClientGoto
<1>4. NoMishaps'
  BY <1>3 DEF NoMishaps
<1>5. obj'[p] = Nothing /\ \A q \in Paths \ {p} : obj'[q] = obj[q]
  BY <1>1, <1>2, <1>3 DEF DeleteOriginal, StoresTypeOK
<1>6. OthersGood(p) /\ TextHasRow(k.id) /\ ~Live(row[p])
  BY <1>2, <1>3 DEF RequestAt
<1>7. OthersGood(p)'
  BY <1>2, <1>3, <1>5, <1>6, OthersFrame DEF Queued
<1>8. TextHasRow(k.id)' /\ ~Live(row'[p])
  BY <1>3, <1>6, TextRowFrame
<1>9. UNCHANGED <<worker, sweep>>
  OBVIOUS
<1>10. CASE k.id = Nothing
  <2>1. Good(p)'
    BY <1>5, <1>8 DEF Good, InSync
  <2>2. (\A q \in Paths : Good(q))' /\ TextHasRow(Nothing)'
    BY <1>7, <1>8, <1>10, <2>1 DEF OthersGood
  <2>3. QED BY <1>1, <1>3, <1>4, <1>9, <1>10, <2>2, RequestEnds
<1>11. CASE k.id # Nothing
  <2>1. s \in ClientState /\ s.pc = "text" /\ s.path = p /\ s.id = k.id
    BY <1>2 DEF ClientState, ClientPCs
  <2> HIDE DEF s
  <2>2. Chosen(p, k.id)'
    BY <1>8 DEF Chosen
  <2>3. RequestAt(s)' /\ s.pc # "idle"
    BY <1>5, <1>7, <1>8, <1>11, <2>1, <2>2 DEF RequestAt
  <2>4. QED BY <1>1, <1>3, <1>4, <1>9, <1>11, <2>1, <2>3, RequestGoesOn
<1>12. QED BY <1>10, <1>11

(* The text of the id goes last, and nothing of the document is left.      *)
LEMMA DeleteTextSerial ==
  ASSUME IInv, NoMishaps, NEW c \in Clients, ClientAt(c), DeleteText(c),
         UNCHANGED <<worker, sweep>>
  PROVE  NoMishaps' /\ Quiet'
<1>1. /\ StoresTypeOK /\ client \in [Clients -> ClientState]
      /\ ClientsIdle({c}) /\ WorkersIdle({}) /\ sweep.pc = "idle"
  BY RequestFacts
<1>2. PICK k \in ClientState :
        /\ k = client[c] /\ k.path \in Paths /\ RequestAt(k)
        /\ k.pc = "text" => k.id \in EntryIds
        /\ k.id \in EntryIds => owner[k.id] = k.path
  BY RequestFacts
<1> DEFINE p == k.path
<1>3. /\ k.pc = "text" /\ DeleteDerivedText(k.id) /\ ClientDone(c)
      /\ UNCHANGED <<obj, row, replica, queue, owner, budget>>
  BY <1>2 DEF DeleteText
<1>4. NoMishaps'
  BY <1>3 DEF NoMishaps
<1>5. text'[k.id] = NoText /\ \A i \in EntryIds \ {k.id} : text'[i] = text[i]
  BY <1>1, <1>2, <1>3 DEF DeleteDerivedText, StoresTypeOK
<1>6. OthersGood(p) /\ TextHasRow(k.id) /\ ~Live(row[p]) /\ obj[p] = Nothing
  BY <1>2, <1>3 DEF RequestAt
<1>7. OthersGood(p)'
  <2>1. \A i \in EntryIds : owner[i] # p => text'[i] = text[i]
    BY <1>2, <1>3, <1>5
  <2>2. QED BY <1>2, <1>3, <1>6, <2>1, OthersFrame DEF Queued
<1>8. TextHasRow(Nothing)'
  BY <1>3, <1>5, <1>6 DEF TextHasRow, HasRow
<1>9. Good(p)'
  BY <1>3, <1>6 DEF Good, InSync
<1>10. (\A q \in Paths : Good(q))'
  BY <1>7, <1>9 DEF OthersGood
<1>11. UNCHANGED <<worker, sweep>>
  OBVIOUS
<1>12. QED BY <1>1, <1>3, <1>4, <1>8, <1>10, <1>11, RequestEnds

-----------------------------------------------------------------------------
(* A process that is at a step is the one operation under way.             *)
LEMMA OneAtATime ==
  ASSUME SerialInv
  PROVE  /\ \A c \in Clients : client[c].pc # "idle" => ClientAt(c)
         /\ \A w \in Workers : worker[w].pc # "idle" => WorkerAt(w)
         /\ sweep.pc # "idle" => Sweeping
         /\ ClientsIdle({}) /\ WorkersIdle({}) /\ sweep.pc = "idle" => Quiet
<1>1. CASE Quiet
  BY <1>1 DEF Quiet, ClientsIdle, WorkersIdle
<1>2. CASE \E c \in Clients : ClientAt(c)
  BY <1>2 DEF ClientAt, ClientsIdle, WorkersIdle
<1>3. CASE \E w \in Workers : WorkerAt(w)
  BY <1>3 DEF WorkerAt, ClientsIdle, WorkersIdle
<1>4. CASE Sweeping
  BY <1>4 DEF Sweeping, ClientsIdle, WorkersIdle
<1>5. QED BY <1>1, <1>2, <1>3, <1>4 DEF SerialInv

(* The requests of the API, one after the other.                           *)
LEMMA ClientNextSerial ==
  ASSUME Serial, IInv, SerialInv, NEW c \in Clients, ClientNext(c)
  PROVE  SerialInv'
<1>1. NoMishaps /\ UNCHANGED <<worker, sweep>>
  BY DEF SerialInv, ClientNext
<1>2. CASE CanBegin /\ ClientBegin(c)
  <2>1. Quiet
    BY <1>2, BeginsAlone, OneAtATime DEF Serial
  <2>2. NoMishaps' /\ ClientAt(c)'
    BY <1>1, <1>2, <2>1, PutLookupSerial, DeleteLookupSerial DEF ClientBegin
  <2>3. QED BY <2>2 DEF SerialInv
<1>3. CASE ClientStep(c)
  <2>1. ClientAt(c)
    BY <1>3, OneAtATime
       DEF ClientStep, PutStore, PutPage, PutRow, DeleteReadRaw, DeleteTombstone,
           DeleteObject, DeleteText
  <2>2. NoMishaps' /\ (ClientAt(c)' \/ Quiet')
    BY <1>1, <1>3, <2>1, PutStoreSerial, PutPageSerial, PutRowSerial, DeleteReadRawSerial,
       DeleteTombstoneSerial, DeleteObjectSerial, DeleteTextSerial DEF ClientStep
  <2>3. QED BY <2>2 DEF SerialInv
<1>4. ~ClientCrash(c)
  BY <1>1 DEF ClientCrash, NoMishaps, Spend
<1>5. QED BY <1>2, <1>3, <1>4 DEF ClientNext

-----------------------------------------------------------------------------
(* An invocation that goes on: only what concerns it is left to show.      *)
LEMMA InvocationGoesOn ==
  ASSUME IInv, NEW w \in Workers, ClientsIdle({}), WorkersIdle({w}), sweep.pc = "idle",
         NEW s \in WorkerState, worker' = [worker EXCEPT ![w] = s], s.pc # "idle",
         UNCHANGED <<client, sweep>>, MessageAt(s)'
  PROVE  WorkerAt(w)'
<1>1. worker \in [Workers -> WorkerState]
  BY WorkerFacts
<1>2. worker'[w] = s /\ \A v \in Workers \ {w} : worker'[v] = worker[v]
  BY <1>1
<1>3. WorkersIdle({w})' /\ ClientsIdle({})' /\ sweep'.pc = "idle"
  BY <1>2 DEF ClientsIdle, WorkersIdle
<1>4. MessageAt(worker[w])'
  BY <1>2 DEF MessageAt, OthersGood, TextHasRow, HasRow, Good, InSync, Uploaded,
              Queued, PagesTo, HasPages
<1>5. QED BY <1>2, <1>3, <1>4 DEF WorkerAt

(* An invocation that ends leaves nothing under way.                       *)
LEMMA InvocationEnds ==
  ASSUME IInv, NEW w \in Workers, ClientsIdle({}), WorkersIdle({w}), sweep.pc = "idle",
         WorkerDone(w), UNCHANGED <<client, sweep>>,
         (\A p \in Paths : Good(p))', TextHasRow(Nothing)'
  PROVE  Quiet'
<1>1. worker \in [Workers -> WorkerState]
  BY WorkerFacts
<1>2. worker'[w].pc = "idle" /\ \A v \in Workers \ {w} : worker'[v] = worker[v]
  BY <1>1 DEF WorkerDone, NoMessage
<1>3. WorkersIdle({})' /\ ClientsIdle({})' /\ sweep'.pc = "idle"
  BY <1>2 DEF ClientsIdle, WorkersIdle
<1>4. QED BY <1>3 DEF Quiet

(* What holds of an invocation, said of its state.                         *)
LEMMA InvocationFacts ==
  ASSUME IInv, NEW w \in Workers, WorkerAt(w)
  PROVE  /\ StoresTypeOK /\ StoresInv
         /\ worker \in [Workers -> WorkerState]
         /\ ClientsIdle({}) /\ WorkersIdle({w}) /\ sweep.pc = "idle"
         /\ \E k \in WorkerState :
              /\ k = worker[w] /\ k.pc # "idle" /\ k.path \in Paths /\ MessageAt(k)
              /\ k.pc \in {"stat", "pages", "save", "write"} => k.data \in Contents
              /\ k.pc = "write" => k.raw \in Row
              /\ k.existing => k.id \in EntryIds /\ k.id # Nothing /\ owner[k.id] = k.path
<1>1. StoresTypeOK /\ StoresInv /\ worker \in [Workers -> WorkerState]
      /\ worker[w] \in WorkerState /\ WorkerInv(w)
  BY WorkerFacts
<1>2. worker[w].pc # "idle" /\ ClientsIdle({}) /\ WorkersIdle({w}) /\ sweep.pc = "idle"
      /\ MessageAt(worker[w])
  BY DEF WorkerAt
<1>3. PICK k \in WorkerState :
        /\ k = worker[w] /\ k.pc # "idle" /\ k.path \in Paths /\ MessageAt(k)
        /\ k.pc \in {"stat", "pages", "save", "write"} => k.data \in Contents
        /\ k.pc = "write" => k.raw \in Row
  BY <1>1, <1>2 DEF WorkerInv
<1>4. ASSUME k.existing
      PROVE  k.id \in EntryIds /\ k.id # Nothing /\ owner[k.id] = k.path
  <2>1. Live(row[k.path]) /\ k.id = row[k.path].id
    BY <1>3, <1>4 DEF MessageAt, Uploaded
  <2>2. row[k.path] \in Seen(k.path) /\ row[k.path] # Nothing
    BY <2>1 DEF Seen, Live
  <2>3. k.id \in EntryIds /\ owner[k.id] = k.path
    BY <1>1, <1>3, <2>1, <2>2, SeenFacts
  <2>4. QED BY <2>3, NothingAssumption
<1>5. QED BY <1>1, <1>2, <1>3, <1>4

(* A message is delivered: its path is in step, or has what the worker     *)
(* needs, and the messages of the other paths still wait.                  *)
LEMMA ReceiveSerial ==
  ASSUME IInv, NoMishaps, Quiet, NEW w \in Workers, NEW m \in Message, Receive(w, m),
         UNCHANGED <<client, sweep>>
  PROVE  NoMishaps' /\ WorkerAt(w)'
<1> DEFINE p == m.path
           s == [NoMessage EXCEPT !.pc = "lookup", !.path = m.path, !.receives = m.receives]
<1>1. UNCHANGED <<obj, row, replica, text>> /\ worker' = [worker EXCEPT ![w] = s]
  BY DEF Receive
<1>2. /\ StoresTypeOK /\ ClientsIdle({}) /\ WorkersIdle({w}) /\ sweep.pc = "idle"
      /\ (\A q \in Paths : Good(q)) /\ TextHasRow(Nothing)
  BY DEF IInv, TypeOK, Quiet, WorkersIdle
<1>3. p \in Paths
  BY DEF Message
<1>4. UNCHANGED budget \/ Spend("duplicate")
  BY DEF Receive
<1>5. NoMishaps'
  <2>1. CASE UNCHANGED budget
    BY <1>1, <2>1 DEF NoMishaps
  <2>2. CASE Spend("duplicate")
    BY <1>1, <1>2, <2>2, SpendFacts
  <2>3. QED BY <1>4, <2>1, <2>2
<1>6. \A n \in Message : n # m => queue'[n] = queue[n]
  BY <1>2 DEF Receive, StoresTypeOK
<1>7. \A q \in Paths \ {p} : Queued(q) => Queued(q)'
  BY <1>6 DEF Queued
<1>8. OthersGood(p)'
  BY <1>1, <1>2, <1>7 DEF OthersGood, Good, InSync, Uploaded
<1>9. TextHasRow(Nothing)' /\ (InSync(p) \/ Uploaded(p))'
  BY <1>1, <1>2, <1>3 DEF TextHasRow, HasRow, Good, InSync, Uploaded
<1>10. /\ s \in WorkerState /\ s.pc = "lookup" /\ s.path = p /\ s.existing = FALSE
       /\ s.page = 1
  BY <1>3, NoMessageType DEF WorkerState, WorkerPCs, NoMessage, Message
<1> HIDE DEF s
<1>11. MessageAt(s)' /\ s.pc # "idle"
  BY <1>8, <1>9, <1>10 DEF MessageAt
<1>12. UNCHANGED <<client, sweep>>
  OBVIOUS
<1>13. QED BY <1>1, <1>2, <1>5, <1>10, <1>11, <1>12, InvocationGoesOn

(* extract_object looks up the row: none, and there is no original, or one *)
(* that is extracted and in step, or one to work on.                       *)
LEMMA WorkLookupSerial ==
  ASSUME IInv, NoMishaps, NEW w \in Workers, WorkerAt(w), WorkLookup(w),
         UNCHANGED <<client, sweep>>
  PROVE  NoMishaps' /\ (WorkerAt(w)' \/ Quiet')
<1>1. /\ StoresTypeOK /\ worker \in [Workers -> WorkerState]
      /\ ClientsIdle({}) /\ WorkersIdle({w}) /\ sweep.pc = "idle"
  BY InvocationFacts
<1>2. PICK k \in WorkerState : k = worker[w] /\ k.path \in Paths /\ MessageAt(k)
  BY InvocationFacts
<1> DEFINE p == k.path
<1>3. PICK r : r = row[p]
  OBVIOUS
<1> DEFINE s == [k EXCEPT !.pc = "get"]
           t == [k EXCEPT !.pc = "get", !.existing = TRUE, !.id = r.id]
<1>4. k.pc = "lookup" /\ UNCHANGED <<obj, row, replica, text, queue, budget>>
  BY <1>2 DEF WorkLookup, storeVars
<1>5. \/ ~Live(r) /\ worker' = [worker EXCEPT ![w] = s]
      \/ Live(r) /\ r.status = "extracted" /\ WorkerDone(w)
      \/ Live(r) /\ r.status # "extracted" /\ worker' = [worker EXCEPT ![w] = t]
  <2>1. PICK entry \in GetEntry(p) :
          IF entry = Nothing
          THEN worker' = [worker EXCEPT ![w].pc = "get"]
          ELSE IF entry.status = "extracted"
          THEN WorkerDone(w)
          ELSE worker' = [worker EXCEPT ![w].pc = "get", ![w].existing = TRUE,
                                        ![w].id = entry.id]
    BY <1>2 DEF WorkLookup
  <2>2. entry = IF Live(r) THEN r ELSE Nothing
    BY <1>3, SeenNow
  <2>3. CASE ~Live(r)
    BY <1>1, <1>2, <2>1, <2>2, <2>3
  <2>4. CASE Live(r)
    <3>1. entry = r /\ r # Nothing
      BY <2>2, <2>4 DEF Live
    <3>2. QED BY <1>1, <1>2, <2>1, <2>4, <3>1
  <2>5. QED BY <2>3, <2>4
<1>6. NoMishaps'
  BY <1>4 DEF NoMishaps
<1>7. OthersGood(p) /\ TextHasRow(Nothing) /\ (InSync(p) \/ Uploaded(p)) /\ ~k.existing
      /\ k.page = 1
  BY <1>2, <1>4 DEF MessageAt
<1>8. OthersGood(p)' /\ TextHasRow(Nothing)'
  BY <1>4, <1>7 DEF OthersGood, TextHasRow, HasRow, Good, InSync, Uploaded, Queued
<1>9. r = row'[p] /\ UNCHANGED <<client, sweep>>
  BY <1>3, <1>4
<1>10. CASE ~Live(r) /\ worker' = [worker EXCEPT ![w] = s]
  <2>1. obj'[p] = Nothing
    BY <1>3, <1>4, <1>7, <1>10 DEF InSync, Uploaded
  <2>2. /\ s \in WorkerState /\ s.pc = "get" /\ s.path = p /\ s.existing = k.existing
        /\ s.page = 1
    BY <1>2, <1>7 DEF WorkerState, WorkerPCs
  <2> HIDE DEF s
  <2>3. MessageAt(s)' /\ s.pc # "idle"
    BY <1>7, <1>8, <1>9, <1>10, <2>1, <2>2 DEF MessageAt
  <2>4. QED BY <1>1, <1>6, <1>9, <1>10, <2>2, <2>3, InvocationGoesOn
<1>11. CASE Live(r) /\ r.status = "extracted" /\ WorkerDone(w)
  <2>1. InSync(p)
    BY <1>3, <1>7, <1>11 DEF Uploaded
  <2>2. Good(p)'
    BY <1>4, <2>1 DEF Good, InSync
  <2>3. (\A q \in Paths : Good(q))'
    BY <1>8, <2>2 DEF OthersGood
  <2>4. QED BY <1>1, <1>6, <1>8, <1>9, <1>11, <2>3, InvocationEnds
<1>12. CASE Live(r) /\ r.status # "extracted" /\ worker' = [worker EXCEPT ![w] = t]
  <2>1. Uploaded(p)
    BY <1>3, <1>7, <1>12 DEF InSync, Uploaded
  <2>2. Uploaded(p)'
    BY <1>4, <2>1 DEF Uploaded
  <2>3. r.id \in EntryIds
    BY <1>1, <1>2, <1>3, <1>12 DEF StoresTypeOK, Live, Row
  <2>4. /\ t \in WorkerState /\ t.pc = "get" /\ t.path = p /\ t.existing = TRUE
        /\ t.id = r.id /\ t.page = 1
    BY <1>2, <1>7, <2>3 DEF WorkerState, WorkerPCs
  <2> HIDE DEF t
  <2>5. MessageAt(t)' /\ t.pc # "idle"
    BY <1>8, <1>9, <2>2, <2>4 DEF MessageAt
  <2>6. QED BY <1>1, <1>6, <1>9, <1>12, <2>4, <2>5, InvocationGoesOn
<1>13. QED BY <1>5, <1>10, <1>11, <1>12

(* A message put back leaves those that wait.                              *)
LEMMA FailKeeps ==
  ASSUME StoresTypeOK, NEW w \in Workers, worker[w] \in WorkerState,
         worker[w].path \in Paths, Fail(w)
  PROVE  WorkerDone(w) /\ \A p \in Paths : Queued(p) => Queued(p)'
<1>1. PICK k \in WorkerState : k = worker[w] /\ k.path \in Paths
  OBVIOUS
<1> DEFINE m == [path |-> k.path, receives |-> k.receives + 1]
<1>2. CASE k.receives + 1 < MaxReceive
  <2>1. k.receives + 1 \in 0..MaxReceive - 1
    BY <1>1, <1>2, QueueAssumption DEF WorkerState
  <2>2. m \in Message
    BY <1>1, <2>1 DEF Message
  <2>3. queue' = Enqueue(m)
    BY <1>1, <1>2 DEF Fail
  <2> HIDE DEF m
  <2>4. \A n \in Message : queue[n] > 0 => queue'[n] > 0
    BY <2>2, <2>3, EnqueueFacts
  <2>5. QED BY <2>4 DEF Queued, Fail
<1>3. CASE ~(k.receives + 1 < MaxReceive)
  BY <1>1, <1>3 DEF Fail, Queued
<1>4. QED BY <1>2, <1>3

(* The original is read; when it is gone the path is in step.              *)
LEMMA WorkGetSerial ==
  ASSUME IInv, NoMishaps, NEW w \in Workers, WorkerAt(w), WorkGet(w),
         UNCHANGED <<client, sweep>>
  PROVE  NoMishaps' /\ (WorkerAt(w)' \/ Quiet')
<1>1. /\ StoresTypeOK /\ worker \in [Workers -> WorkerState]
      /\ ClientsIdle({}) /\ WorkersIdle({w}) /\ sweep.pc = "idle"
  BY InvocationFacts
<1>2. PICK k \in WorkerState : k = worker[w] /\ k.path \in Paths /\ MessageAt(k)
  BY InvocationFacts
<1> DEFINE p == k.path
<1>3. PICK d : d = obj[p]
  OBVIOUS
<1> DEFINE s == [k EXCEPT !.pc = "stat", !.data = d]
<1>4. k.pc = "get" /\ UNCHANGED <<obj, row, replica, text, budget>>
  BY <1>2 DEF WorkGet
<1>5. IF d = Nothing THEN Fail(w)
      ELSE worker' = [worker EXCEPT ![w] = s] /\ UNCHANGED queue
  BY <1>1, <1>2, <1>3 DEF WorkGet
<1>6. NoMishaps'
  BY <1>4 DEF NoMishaps
<1>7. /\ OthersGood(p) /\ TextHasRow(Nothing) /\ k.page = 1
      /\ k.existing \/ (d = Nothing /\ ~Live(row[p]))
      /\ k.existing => Uploaded(p) /\ k.id = row[p].id
  BY <1>2, <1>3, <1>4 DEF MessageAt
<1>8. TextHasRow(Nothing)' /\ obj'[p] = d
  BY <1>3, <1>4, <1>7 DEF TextHasRow, HasRow
<1>9. UNCHANGED <<client, sweep>>
  OBVIOUS
<1>10. CASE d = Nothing
  <2>1. WorkerDone(w) /\ \A q \in Paths : Queued(q) => Queued(q)'
    BY <1>1, <1>2, <1>5, <1>10, FailKeeps
  <2>2. ~Live(row[p])
    BY <1>3, <1>7, <1>10 DEF Uploaded
  <2>3. Good(p)'
    BY <1>4, <1>8, <1>10, <2>2 DEF Good, InSync
  <2>4. OthersGood(p)'
    BY <1>4, <1>7, <2>1 DEF OthersGood, Good, InSync, Uploaded
  <2>5. (\A q \in Paths : Good(q))'
    BY <2>3, <2>4 DEF OthersGood
  <2>6. QED BY <1>1, <1>6, <1>8, <1>9, <2>1, <2>5, InvocationEnds
<1>11. CASE d # Nothing
  <2>1. d \in Contents
    BY <1>1, <1>2, <1>3, <1>11 DEF StoresTypeOK
  <2>2. k.existing
    BY <1>7, <1>11
  <2>3. /\ s \in WorkerState /\ s.pc = "stat" /\ s.path = p /\ s.existing = k.existing
        /\ s.id = k.id /\ s.page = 1 /\ s.data = d
    BY <1>2, <1>7, <2>1 DEF WorkerState, WorkerPCs
  <2>4. worker' = [worker EXCEPT ![w] = s] /\ UNCHANGED queue
    BY <1>5, <1>11
  <2>5. OthersGood(p)' /\ Uploaded(p)' /\ k.id = row'[p].id
    BY <1>4, <1>7, <2>2, <2>4 DEF OthersGood, Good, InSync, Uploaded, Queued
  <2> HIDE DEF s
  <2>6. MessageAt(s)' /\ s.pc # "idle"
    BY <1>8, <2>2, <2>3, <2>5 DEF MessageAt
  <2>7. QED BY <1>1, <1>6, <1>9, <2>3, <2>4, <2>6, InvocationGoesOn
<1>12. QED BY <1>10, <1>11

(* stat: the worker goes on with the id of the row.                        *)
LEMMA WorkStatSerial ==
  ASSUME IInv, NoMishaps, NEW w \in Workers, WorkerAt(w), WorkStat(w),
         UNCHANGED <<client, sweep>>
  PROVE  NoMishaps' /\ WorkerAt(w)'
<1>1. /\ StoresTypeOK /\ worker \in [Workers -> WorkerState]
      /\ ClientsIdle({}) /\ WorkersIdle({w}) /\ sweep.pc = "idle"
  BY InvocationFacts
<1>2. PICK k \in WorkerState :
        /\ k = worker[w] /\ k.path \in Paths /\ MessageAt(k)
        /\ k.pc \in {"stat", "pages", "save", "write"} => k.data \in Contents
        /\ k.existing => k.id \in EntryIds /\ k.id # Nothing /\ owner[k.id] = k.path
  BY InvocationFacts
<1> DEFINE p == k.path
           d == k.data
<1>3. PICK etag : etag = obj[p]
  OBVIOUS
<1> DEFINE pc == IF d \in Readable THEN "pages" ELSE "save"
           s == [k EXCEPT !.etag = etag, !.id = k.id, !.pc = pc]
<1>4. k.pc = "stat" /\ UNCHANGED <<obj, row, replica, text, queue, budget>>
  BY <1>2 DEF WorkStat
<1>5. /\ OthersGood(p) /\ TextHasRow(Nothing) /\ k.page = 1 /\ k.existing /\ d = obj[p]
      /\ Uploaded(p) /\ k.id = row[p].id
  BY <1>2, <1>4 DEF MessageAt
<1>6. worker' = [worker EXCEPT ![w] = s]
  <2>1. PICK id \in EntryIds :
          /\ ChooseEntryId(p, k.id, id)
          /\ worker' = [worker EXCEPT ![w].etag = obj[p], ![w].id = id, ![w].pc = pc]
    BY <1>2 DEF WorkStat
  <2>2. id = k.id
    BY <1>2, <1>5, <2>1 DEF ChooseEntryId
  <2>3. QED BY <1>1, <1>2, <1>3, <2>1, <2>2
<1>7. NoMishaps'
  BY <1>4 DEF NoMishaps
<1>8. /\ OthersGood(p)' /\ TextHasRow(Nothing)' /\ Uploaded(p)' /\ k.id = row'[p].id
      /\ d = obj'[p]
  BY <1>4, <1>5 DEF OthersGood, TextHasRow, HasRow, Good, InSync, Uploaded, Queued
<1>9. d \in Contents /\ etag \in Contents \union {Nothing}
  BY <1>1, <1>2, <1>3, <1>4 DEF StoresTypeOK
<1>10. 1 <= PageCount[d] /\ PagesTo(k.id, d, 1)'
  BY <1>9, PageAssumption DEF PagesTo
<1>11. /\ s \in WorkerState /\ s.pc = pc /\ s.path = p /\ s.existing = k.existing
       /\ s.id = k.id /\ s.page = 1 /\ s.data = d
  BY <1>2, <1>5, <1>9 DEF WorkerState, WorkerPCs
<1>12. pc \in {"pages", "save"} /\ (pc = "pages" <=> d \in Readable)
  OBVIOUS
<1> HIDE DEF s, pc
<1>13. MessageAt(s)' /\ s.pc # "idle"
  BY <1>5, <1>8, <1>10, <1>11, <1>12 DEF MessageAt
<1>14. UNCHANGED <<client, sweep>>
  OBVIOUS
<1>15. QED BY <1>1, <1>6, <1>7, <1>11, <1>13, <1>14, InvocationGoesOn

(* The worker extracts a page.                                             *)
LEMMA WorkPageSerial ==
  ASSUME IInv, NoMishaps, NEW w \in Workers, WorkerAt(w), WorkPage(w),
         UNCHANGED <<client, sweep>>
  PROVE  NoMishaps' /\ WorkerAt(w)'
<1>1. /\ StoresTypeOK /\ worker \in [Workers -> WorkerState]
      /\ ClientsIdle({}) /\ WorkersIdle({w}) /\ sweep.pc = "idle"
  BY InvocationFacts
<1>2. PICK k \in WorkerState :
        /\ k = worker[w] /\ k.path \in Paths /\ MessageAt(k)
        /\ k.pc \in {"stat", "pages", "save", "write"} => k.data \in Contents
        /\ k.existing => k.id \in EntryIds /\ k.id # Nothing /\ owner[k.id] = k.path
  BY InvocationFacts
<1> DEFINE p == k.path
           d == k.data
           n == k.page
           more == n < PageCount[d]
           s == IF more THEN [k EXCEPT !.page = n + 1] ELSE [k EXCEPT !.pc = "save"]
<1>3. /\ k.pc = "pages" /\ StorePage(k.id, n, d) /\ worker' = [worker EXCEPT ![w] = s]
      /\ UNCHANGED <<obj, row, replica, queue, owner, budget>>
  BY <1>1, <1>2 DEF WorkPage
<1>4. NoMishaps'
  BY <1>3 DEF NoMishaps
<1>5. /\ OthersGood(p) /\ TextHasRow(Nothing) /\ k.existing /\ d = obj[p]
      /\ Uploaded(p) /\ k.id = row[p].id /\ d \in Readable
      /\ n <= PageCount[d] /\ PagesTo(k.id, d, n)
  BY <1>2, <1>3 DEF MessageAt
<1>6. /\ d \in Contents /\ k.id \in EntryIds /\ owner[k.id] = p
      /\ n \in Pages /\ PageCount[d] \in Pages
  BY <1>2, <1>3, <1>5, PageAssumption DEF WorkerState, Pages
<1>7. /\ text'[k.id][n] = d /\ \A j \in Pages \ {n} : text'[k.id][j] = text[k.id][j]
      /\ \A i \in EntryIds \ {k.id} : text'[i] = text[i]
      /\ OthersGood(p)'
  BY <1>2, <1>3, <1>5, <1>6, PageStored
<1>8. TextHasRow(Nothing)'
  <2>1. HasRow(k.id)
    BY <1>2, <1>5 DEF HasRow, Uploaded
  <2>2. QED BY <1>3, <1>5, <1>7, <2>1 DEF TextHasRow, HasRow
<1>9. Uploaded(p)' /\ k.id = row'[p].id /\ d = obj'[p]
  BY <1>3, <1>5 DEF Uploaded
<1>10. \A j \in 1..n : text'[k.id][j] = d
  <2>1. \A j \in 1..n - 1 : j \in Pages \ {n} /\ text[k.id][j] = d
    BY <1>5, <1>6, PagesBefore DEF PagesTo
  <2>2. \A j \in 1..n : j = n \/ j \in 1..n - 1
    BY <1>6, PagesBefore
  <2>3. QED BY <1>7, <2>1, <2>2
<1>11. UNCHANGED <<client, sweep>>
  OBVIOUS
<1>12. CASE more
  <2>1. /\ s \in WorkerState /\ s.pc = "pages" /\ s.path = p /\ s.data = d /\ s.id = k.id
        /\ s.existing = k.existing /\ s.page = n + 1 /\ n + 1 <= PageCount[d]
    BY <1>2, <1>3, <1>6, <1>12, PageAssumption DEF WorkerState, Pages
  <2> HIDE DEF s
  <2>2. PagesTo(k.id, d, n + 1)'
    BY <1>6, <1>10, PagesBefore DEF PagesTo
  <2>3. MessageAt(s)' /\ s.pc # "idle"
    BY <1>5, <1>7, <1>8, <1>9, <2>1, <2>2 DEF MessageAt
  <2>4. QED BY <1>1, <1>3, <1>4, <1>11, <2>1, <2>3, InvocationGoesOn
<1>13. CASE ~more
  <2>1. n = PageCount[d]
    BY <1>5, <1>6, <1>13, PageAssumption DEF Pages
  <2>2. s = [k EXCEPT !.pc = "save"]
    BY <1>13
  <2>3. /\ s \in WorkerState /\ s.pc = "save" /\ s.path = p /\ s.data = d /\ s.id = k.id
        /\ s.existing = k.existing
    BY <1>2, <2>2 DEF WorkerState, WorkerPCs
  <2> HIDE DEF s
  <2>4. HasPages(k.id, d)'
    BY <1>10, <2>1 DEF HasPages
  <2>5. MessageAt(s)' /\ s.pc # "idle"
    BY <1>5, <1>7, <1>8, <1>9, <2>3, <2>4 DEF MessageAt
  <2>6. QED BY <1>1, <1>3, <1>4, <1>11, <2>3, <2>5, InvocationGoesOn
<1>14. QED BY <1>12, <1>13

(* set_extraction reads the row that is there.                             *)
LEMMA WorkReadRawSerial ==
  ASSUME IInv, NoMishaps, NEW w \in Workers, WorkerAt(w), WorkReadRaw(w),
         UNCHANGED <<client, sweep>>
  PROVE  NoMishaps' /\ WorkerAt(w)'
<1>1. /\ StoresTypeOK /\ worker \in [Workers -> WorkerState]
      /\ ClientsIdle({}) /\ WorkersIdle({w}) /\ sweep.pc = "idle"
  BY InvocationFacts
<1>2. PICK k \in WorkerState : k = worker[w] /\ k.path \in Paths /\ MessageAt(k)
  BY InvocationFacts
<1> DEFINE p == k.path
           d == k.data
<1>3. PICK r : r = row[p]
  OBVIOUS
<1> DEFINE s == [k EXCEPT !.pc = "write", !.raw = r]
<1>4. k.pc = "save" /\ k.existing /\ UNCHANGED <<obj, row, replica, text, budget>>
  BY <1>2 DEF WorkReadRaw
<1>5. /\ OthersGood(p) /\ TextHasRow(Nothing) /\ d = obj[p]
      /\ Uploaded(p) /\ k.id = r.id /\ (d \in Readable => HasPages(k.id, d))
  BY <1>2, <1>3, <1>4 DEF MessageAt
<1>6. /\ r # Nothing /\ r \in Row /\ Live(r) /\ r.etag = d /\ r.checksum = d
  BY <1>1, <1>2, <1>3, <1>5 DEF Uploaded, Live, StoresTypeOK
<1>7. worker' = [worker EXCEPT ![w] = s] /\ UNCHANGED queue
  <2>1. Seen(p) = {r}
    BY <1>3, SeenNow
  <2>2. QED BY <1>1, <1>2, <1>6, <2>1 DEF WorkReadRaw
<1>8. NoMishaps'
  BY <1>4 DEF NoMishaps
<1>9. /\ OthersGood(p)' /\ TextHasRow(Nothing)' /\ Uploaded(p)' /\ k.id = row'[p].id
      /\ d = obj'[p] /\ (d \in Readable => HasPages(k.id, d)')
  BY <1>3, <1>4, <1>5, <1>7
     DEF OthersGood, TextHasRow, HasRow, Good, InSync, Uploaded, Queued, HasPages
<1>10. /\ s \in WorkerState /\ s.pc = "write" /\ s.path = p /\ s.existing = k.existing
       /\ s.id = k.id /\ s.data = d /\ s.raw = r
  BY <1>2, <1>6 DEF WorkerState, WorkerPCs
<1> HIDE DEF s
<1>11. MessageAt(s)' /\ s.pc # "idle"
  BY <1>4, <1>5, <1>6, <1>9, <1>10 DEF MessageAt
<1>12. UNCHANGED <<client, sweep>>
  OBVIOUS
<1>13. QED BY <1>1, <1>7, <1>8, <1>10, <1>11, <1>12, InvocationGoesOn

(* ... and puts it back extracted: the path is in step.                    *)
LEMMA WorkSetExtractionSerial ==
  ASSUME IInv, NoMishaps, NEW w \in Workers, WorkerAt(w), WorkSetExtraction(w),
         UNCHANGED <<client, sweep>>
  PROVE  NoMishaps' /\ Quiet'
<1>1. /\ StoresTypeOK /\ worker \in [Workers -> WorkerState]
      /\ ClientsIdle({}) /\ WorkersIdle({w}) /\ sweep.pc = "idle"
  BY InvocationFacts
<1>2. PICK k \in WorkerState :
        /\ k = worker[w] /\ k.path \in Paths /\ MessageAt(k)
        /\ k.pc \in {"stat", "pages", "save", "write"} => k.data \in Contents
        /\ k.pc = "write" => k.raw \in Row
  BY InvocationFacts
<1> DEFINE p == k.path
           d == k.data
           status == ExtractedStatus(d)
           pages == ExtractedPages(d)
           r == [k.raw EXCEPT !.status = status, !.pages = pages, !.fresh = TRUE]
<1>3. /\ k.pc = "write" /\ WriteRow(p, r) /\ WorkerDone(w)
      /\ UNCHANGED <<obj, text, queue, owner>>
  BY <1>2 DEF WorkSetExtraction, SetExtraction
<1>4. NoMishaps' /\ row'[p] = r /\ \A q \in Paths \ {p} : row'[q] = row[q]
  BY <1>1, <1>2, <1>3, RowSet
<1>5. /\ OthersGood(p) /\ TextHasRow(Nothing) /\ k.existing /\ d = obj[p]
      /\ Uploaded(p) /\ k.id = row[p].id /\ (d \in Readable => HasPages(k.id, d))
      /\ Live(k.raw) /\ k.raw.id = k.id /\ k.raw.etag = d /\ k.raw.checksum = d
  BY <1>2, <1>3 DEF MessageAt
<1>6. /\ Live(r) /\ r.id = k.id /\ r.etag = d /\ r.checksum = d
      /\ r.status = status /\ r.pages = pages
  <2>1. k.raw \in Row /\ ~k.raw.deleted
    BY <1>2, <1>3, <1>5 DEF Live
  <2>2. r \in Row
    BY <1>2, <1>3, <2>1, ExtractedTypes DEF Row
  <2>3. r # Nothing
    BY <2>2, NothingAssumption
  <2>4. ~r.deleted /\ r.id = k.id /\ r.etag = d /\ r.checksum = d
        /\ r.status = status /\ r.pages = pages
    BY <1>5, <2>1 DEF Row
  <2>5. QED BY <2>3, <2>4 DEF Live
<1>7. OthersGood(p)'
  BY <1>2, <1>3, <1>4, <1>5, OthersFrame DEF Queued
<1> HIDE DEF r
<1>8. TextHasRow(Nothing)'
  <2>1. \A q \in Paths : Live(row[q]) => Live(row'[q]) /\ row'[q].id = row[q].id
    BY <1>4, <1>5, <1>6
  <2>2. QED BY <1>3, <1>5, <2>1, TextRowFrame
<1>9. \A n \in 1..pages : text'[k.id][n] = d
  <2>1. CASE d \in Readable
    BY <1>3, <1>5, <2>1 DEF HasPages, ExtractedPages
  <2>2. CASE d \notin Readable
    BY <2>2 DEF ExtractedPages
  <2>3. QED BY <2>1, <2>2
<1> HIDE DEF status, pages
<1>10. InSync(p)'
  <2>1. obj'[p] = d /\ d # Nothing
    BY <1>3, <1>5 DEF Uploaded
  <2>2. QED BY <1>4, <1>6, <1>9, <2>1 DEF InSync, status, pages
<1>11. (\A q \in Paths : Good(q))'
  BY <1>7, <1>10 DEF OthersGood, Good
<1>12. UNCHANGED <<client, sweep>>
  OBVIOUS
<1>13. QED BY <1>1, <1>3, <1>4, <1>8, <1>11, <1>12, InvocationEnds

(* The invocations of the worker, one after the other.                     *)
LEMMA WorkerNextSerial ==
  ASSUME Serial, IInv, SerialInv, NEW w \in Workers, WorkerNext(w)
  PROVE  SerialInv'
<1>1. NoMishaps /\ UNCHANGED <<client, sweep>>
  BY DEF SerialInv, WorkerNext
<1>2. CASE CanBegin /\ \E m \in Message : Receive(w, m)
  <2>1. Quiet
    BY <1>2, BeginsAlone, OneAtATime DEF Serial
  <2>2. NoMishaps' /\ WorkerAt(w)'
    BY <1>1, <1>2, <2>1, ReceiveSerial
  <2>3. QED BY <2>2 DEF SerialInv
<1>3. CASE WorkerStep(w)
  <2>1. WorkerAt(w)
    BY <1>3, OneAtATime
       DEF WorkerStep, WorkLookup, WorkGet, WorkStat, WorkPage, WorkPutRow, WorkReadRaw,
           WorkSetExtraction
  <2>2. ~WorkPutRow(w)
    BY <2>1 DEF WorkPutRow, WorkerAt, MessageAt
  <2>3. NoMishaps' /\ (WorkerAt(w)' \/ Quiet')
    BY <1>1, <1>3, <2>1, <2>2, WorkLookupSerial, WorkGetSerial, WorkStatSerial,
       WorkPageSerial, WorkReadRawSerial, WorkSetExtractionSerial DEF WorkerStep
  <2>4. QED BY <2>3 DEF SerialInv
<1>4. ~WorkerCrash(w)
  BY <1>1 DEF WorkerCrash, NoMishaps, Spend
<1>5. QED BY <1>2, <1>3, <1>4 DEF WorkerNext

-----------------------------------------------------------------------------
(* The sweep lists the originals while nothing is under way.               *)
LEMMA SweepListSerial ==
  ASSUME NoMishaps, Quiet, SweepList, UNCHANGED <<client, worker>>
  PROVE  NoMishaps' /\ Sweeping'
<1>1. /\ UNCHANGED <<obj, row, replica, text, queue, budget>>
      /\ sweep'.pc = "rows" /\ sweep'.listed = obj
  BY DEF SweepList, storeVars, NoSweep
<1>2. NoMishaps'
  BY <1>1 DEF NoMishaps
<1>3. Sweeping'
  BY <1>1 DEF Quiet, Sweeping, ClientsIdle, WorkersIdle, TextHasRow, HasRow, Good, InSync,
              Uploaded, Queued
<1>4. QED BY <1>2, <1>3

(* Its rows tell it nothing to do: every row is that of the original.      *)
LEMMA SweepRowsSerial ==
  ASSUME IInv, NoMishaps, Sweeping, SweepRows, UNCHANGED <<client, worker>>
  PROVE  NoMishaps' /\ Quiet'
<1>1. UNCHANGED <<obj, row, replica, text, queue, budget>>
  BY DEF SweepRows, storeVars
<1>2. PICK late \in SUBSET {p \in Paths : replica[p] # row[p]} :
        LET rows == [p \in Paths |-> IF p \in late THEN replica[p] ELSE row[p]]
        IN  sweep' = SweepRest(
              [sweep EXCEPT !.enqueue = Drifted(sweep.listed, rows),
                            !.orphans = Orphaned(sweep.listed, rows)])
  BY DEF SweepRows
<1> DEFINE rows == [p \in Paths |-> IF p \in late THEN replica[p] ELSE row[p]]
<1>3. \A p \in Paths : rows[p] = row[p]
  BY DEF NoMishaps
<1> HIDE DEF rows
<1>4. sweep.listed = obj /\ \A p \in Paths : Good(p)
  BY DEF Sweeping
<1>5. Drifted(sweep.listed, rows) = {}
  BY <1>3, <1>4 DEF Drifted, Good, InSync, Uploaded
<1>6. Orphaned(sweep.listed, rows) = {}
  BY <1>3, <1>4 DEF Orphaned, Good, InSync, Uploaded
<1>7. sweep' = SweepRest([sweep EXCEPT !.enqueue = {}, !.orphans = {}])
  BY <1>2, <1>5, <1>6 DEF rows
<1>8. sweep'.pc = "idle"
  <2>1. sweep \in SweepState
    BY SweepFacts
  <2>2. QED BY <1>7, <2>1 DEF SweepRest, SweepState, NoSweep
<1>9. NoMishaps'
  BY <1>1 DEF NoMishaps
<1>10. Quiet'
  BY <1>1, <1>8 DEF Quiet, Sweeping, ClientsIdle, WorkersIdle, TextHasRow, HasRow, Good,
                    InSync, Uploaded, Queued
<1>11. QED BY <1>9, <1>10

(* A sweep between the operations changes nothing.                         *)
LEMMA SweepNextSerial ==
  ASSUME Serial, IInv, SerialInv, SweepNext
  PROVE  SerialInv'
<1>1. NoMishaps /\ UNCHANGED <<client, worker>>
  BY DEF SerialInv, SweepNext
<1>2. CASE CanBegin /\ SweepList
  <2>1. Quiet
    BY <1>2, BeginsAlone, OneAtATime DEF Serial
  <2>2. QED BY <1>1, <1>2, <2>1, SweepListSerial DEF SerialInv
<1>3. CASE SweepStep
  <2>1. Sweeping
    BY <1>3, OneAtATime DEF SweepStep, SweepRows, SweepTombstone, SweepEnqueue, SweepReadRaw
  <2>2. SweepRows
    BY <1>3, <2>1 DEF Sweeping, SweepStep, SweepTombstone, SweepEnqueue, SweepReadRaw
  <2>3. QED BY <1>1, <2>1, <2>2, SweepRowsSerial DEF SerialInv
<1>4. ~SweepCrash
  BY <1>1 DEF SweepCrash, NoMishaps, Spend
<1>5. QED BY <1>2, <1>3, <1>4 DEF SweepNext

(* The grace window of the rows passes, and they are the same to everyone  *)
(* but the sweep.                                                          *)
LEMMA GraceElapsesSerial ==
  ASSUME IInv, SerialInv, GraceElapses
  PROVE  SerialInv'
<1>1. /\ UNCHANGED <<obj, text, queue, budget, client, worker, sweep>> /\ replica' = row'
      /\ row' = [p \in Paths |-> IF row[p] = Nothing THEN Nothing
                                 ELSE [row[p] EXCEPT !.fresh = FALSE]]
      /\ sweep.pc = "idle" /\ ClientsIdle({})
  BY DEF GraceElapses, ClientsIdle
<1>2. ASSUME NEW p \in Paths PROVE Alike(row[p], row'[p])
  <2>1. row[p] \in Row \union {Nothing}
    BY SweepFacts DEF StoresTypeOK
  <2>2. CASE row[p] = Nothing
    BY <1>1, <2>2 DEF Alike
  <2>3. CASE row[p] # Nothing
    <3>1. row'[p] = [row[p] EXCEPT !.fresh = FALSE] /\ row[p] \in Row
      BY <1>1, <2>1, <2>3
    <3>2. row'[p] \in Row
      BY <3>1 DEF Row
    <3>3. row'[p] # Nothing
      BY <3>2, NothingAssumption
    <3>4. QED BY <2>3, <3>1, <3>3 DEF Alike, Row
  <2>4. QED BY <2>2, <2>3
<1>3. ASSUME NEW p \in Paths
      PROVE  /\ Live(row'[p]) = Live(row[p])
             /\ Live(row[p]) => row'[p].id = row[p].id
             /\ InSync(p) => InSync(p)'
             /\ Uploaded(p) => Uploaded(p)'
  BY <1>1, <1>2, PathFrame
<1>4. \A p \in Paths : (Good(p) => Good(p)') /\ (OthersGood(p) => OthersGood(p)')
  BY <1>1, <1>3 DEF OthersGood, Good, Queued
<1>5. TextHasRow(Nothing) => TextHasRow(Nothing)'
  BY <1>1, <1>3, TextRowFrame
<1>6. NoMishaps'
  BY <1>1 DEF SerialInv, NoMishaps
<1>7. CASE Quiet
  <2>1. Quiet'
    BY <1>1, <1>4, <1>5, <1>7 DEF Quiet, ClientsIdle, WorkersIdle
  <2>2. QED BY <1>6, <2>1 DEF SerialInv
<1>8. ASSUME NEW w \in Workers, WorkerAt(w)
      PROVE  SerialInv'
  <2>1. PICK k \in WorkerState : k = worker[w] /\ k.path \in Paths /\ MessageAt(k)
    BY <1>8, InvocationFacts
  <2> DEFINE p == k.path
  <2>2. MessageAt(k)'
    <3>1. /\ OthersGood(p)' /\ TextHasRow(Nothing)'
      BY <1>4, <1>5, <2>1 DEF MessageAt
    <3>2. /\ k.pc = "lookup" => (InSync(p) \/ Uploaded(p))'
          /\ ~Live(row[p]) => ~Live(row'[p])
          /\ k.existing => Uploaded(p)' /\ k.id = row'[p].id
      BY <1>3, <2>1 DEF MessageAt, Uploaded
    <3>3. \A n : PagesTo(k.id, k.data, n) => PagesTo(k.id, k.data, n)'
      BY <1>1 DEF PagesTo
    <3>4. HasPages(k.id, k.data) => HasPages(k.id, k.data)'
      BY <1>1 DEF HasPages
    <3>5. QED BY <1>1, <2>1, <3>1, <3>2, <3>3, <3>4 DEF MessageAt
  <2>3. MessageAt(worker[w])'
    BY <1>1, <2>1, <2>2 DEF MessageAt, OthersGood, TextHasRow, HasRow, Good, InSync,
                            Uploaded, Queued, PagesTo, HasPages
  <2>4. WorkerAt(w)'
    BY <1>1, <1>8, <2>3 DEF WorkerAt, ClientsIdle, WorkersIdle
  <2>5. QED BY <1>6, <2>4 DEF SerialInv
<1>9. ~(\E c \in Clients : ClientAt(c)) /\ ~Sweeping
  BY <1>1 DEF ClientAt, ClientsIdle, Sweeping
<1>10. QED BY <1>7, <1>8, <1>9 DEF SerialInv

(* The empty stores are in step.                                           *)
LEMMA InitSerial == Serial => (Init => SerialInv)
<1> SUFFICES ASSUME Serial, Init PROVE SerialInv
  OBVIOUS
<1>1. /\ StoresInit /\ client = [c \in Clients |-> NoRequest]
      /\ worker = [w \in Workers |-> NoMessage] /\ sweep = NoSweep
  BY DEF Init, IngestApiInit, WorkerInit, ReconcilerInit
<1>2. NoMishaps
  BY <1>1 DEF StoresInit, NoMishaps, Serial
<1>3. ClientsIdle({}) /\ WorkersIdle({}) /\ sweep.pc = "idle"
  BY <1>1 DEF ClientsIdle, WorkersIdle, NoRequest, NoMessage, NoSweep
<1>4. \A p \in Paths : Good(p)
  BY <1>1 DEF StoresInit, Good, InSync, Live
<1>5. TextHasRow(Nothing)
  BY <1>1 DEF StoresInit, TextHasRow
<1>6. QED BY <1>2, <1>3, <1>4, <1>5 DEF SerialInv, Quiet

(* A step that changes nothing preserves SerialInv.                        *)
LEMMA StutterSerial == ASSUME SerialInv, UNCHANGED vars PROVE SerialInv'
<1>1. /\ UNCHANGED <<obj, row, replica, text, queue, budget>>
      /\ UNCHANGED <<client, worker, sweep>>
  BY DEF vars, storeVars
<1>2. NoMishaps'
  BY <1>1 DEF SerialInv, NoMishaps
<1>3. Quiet => Quiet'
  BY <1>1 DEF Quiet, ClientsIdle, WorkersIdle, TextHasRow, HasRow, Good, InSync, Uploaded, Queued
<1>4. ASSUME NEW c \in Clients, ClientAt(c) PROVE ClientAt(c)'
  BY <1>1, <1>4 DEF ClientAt, ClientsIdle, WorkersIdle, RequestAt, OthersGood, TextHasRow,
                    HasRow, Chosen, Good, InSync, Uploaded, Queued, PagesTo, HasPages
<1>5. ASSUME NEW w \in Workers, WorkerAt(w) PROVE WorkerAt(w)'
  BY <1>1, <1>5 DEF WorkerAt, ClientsIdle, WorkersIdle, MessageAt, OthersGood, TextHasRow,
                    HasRow, Good, InSync, Uploaded, Queued, PagesTo, HasPages
<1>6. Sweeping => Sweeping'
  BY <1>1 DEF Sweeping, ClientsIdle, WorkersIdle, TextHasRow, HasRow, Good, InSync, Uploaded,
              Queued
<1>7. QED BY <1>2, <1>3, <1>4, <1>5, <1>6 DEF SerialInv

(* SerialInv is inductive, next to IInv.                                   *)
LEMMA NextSerial == Serial => (IInv /\ SerialInv /\ [Next]_vars => SerialInv')
<1> SUFFICES ASSUME Serial, IInv, SerialInv, [Next]_vars PROVE SerialInv'
  OBVIOUS
<1>1. NoMishaps
  BY DEF SerialInv
<1>2. \A p \in Paths : ~ExternalDelete(p) /\ \A d \in Contents : ~ExternalPut(p, d)
  BY <1>1 DEF ExternalDelete, ExternalPut, NoMishaps, Spend
<1>3. \A p \in Paths : ~Replicate(p)
  BY <1>1 DEF Replicate, NoMishaps
<1>4. CASE \E c \in Clients : ClientNext(c)
  BY <1>4, ClientNextSerial
<1>5. CASE \E w \in Workers : WorkerNext(w)
  BY <1>5, WorkerNextSerial
<1>6. CASE SweepNext
  BY <1>6, SweepNextSerial
<1>7. CASE GraceElapses
  BY <1>7, GraceElapsesSerial
<1>8. CASE UNCHANGED vars
  BY <1>8, StutterSerial
<1>9. QED BY <1>2, <1>3, <1>4, <1>5, <1>6, <1>7, <1>8 DEF Next

(* SerialInv holds in every state of a serial system.                      *)
LEMMA SerialInvariance == Serial => (Spec => []SerialInv)
<1> SUFFICES ASSUME Serial PROVE Spec => []SerialInv
  OBVIOUS
<1>1. Init => SerialInv
  BY InitSerial
<1>2. IInv /\ SerialInv /\ [Next]_vars => SerialInv'
  BY NextSerial
<1>3. QED BY <1>1, <1>2, Invariance, PTL DEF Spec

(* Nothing is under way and nothing waits: every path is in step.          *)
LEMMA SettledSerial == Serial => (SerialInv => SettledInSync /\ SettledWithoutOrphans)
<1> SUFFICES ASSUME Serial, SerialInv, Settled
             PROVE  (\A p \in Paths : InSync(p)) /\ NoOrphanText
  BY DEF SettledInSync, SettledWithoutOrphans
<1>1. Quiet
  BY BeginsAlone, OneAtATime DEF Serial, Settled
<1>2. \A p \in Paths : ~Queued(p)
  BY DEF Queued, Settled
<1>3. \A id \in EntryIds : id # Nothing
  BY NothingAssumption
<1>4. QED BY <1>1, <1>2, <1>3 DEF Quiet, Good, TextHasRow, HasRow, NoOrphanText

(* Operations that do not overlap, do not fail and go through the API      *)
(* leave catalog and text in step with the originals once the queue has    *)
(* drained: put_document, delete_document, extract_object and the sweep,   *)
(* for any number of documents, processes and messages.                    *)
THEOREM SerialInSync == Serial => (Spec => []SettledInSync)
<1> SUFFICES ASSUME Serial PROVE Spec => []SettledInSync
  OBVIOUS
<1>1. SerialInv => SettledInSync
  BY SettledSerial
<1>2. Spec => []SerialInv
  BY SerialInvariance
<1>3. QED BY <1>1, <1>2, PTL

(* They leave no derived text behind, either.                              *)
THEOREM SerialWithoutOrphans == Serial => (Spec => []SettledWithoutOrphans)
<1> SUFFICES ASSUME Serial PROVE Spec => []SettledWithoutOrphans
  OBVIOUS
<1>1. SerialInv => SettledWithoutOrphans
  BY SettledSerial
<1>2. Spec => []SerialInv
  BY SerialInvariance
<1>3. QED BY <1>1, <1>2, PTL

=============================================================================
