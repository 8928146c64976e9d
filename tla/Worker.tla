------------------------------- MODULE Worker -------------------------------
(***************************************************************************)
(* The extractor worker: one Lambda invocation per message (batch_size 1), *)
(* which reverses the object key to a path and runs                        *)
(* IngestService.extract_object.  A failed invocation returns its message  *)
(* to the queue until it has been received MaxReceive times.               *)
(***************************************************************************)
EXTENDS Stores

CONSTANTS
  Workers,          \* concurrent invocations
  Readable          \* contents the worker's extraction ladder can read

ASSUME WorkerAssumption == Readable \subseteq Contents /\ IsFiniteSet(Workers)

VARIABLE worker     \* worker[w]: the message w is handling

WorkerPCs == {"idle", "lookup", "get", "stat", "pages", "save", "write"}

WorkerState ==
  [pc: WorkerPCs, path: Paths \union {Nothing}, receives: 0..(MaxReceive - 1),
   existing: BOOLEAN, id: EntryIds \union {Nothing},
   data: Contents \union {Nothing}, etag: Contents \union {Nothing},
   page: Pages, raw: Row \union {Nothing}]

NoMessage == [pc |-> "idle", path |-> Nothing, receives |-> 0,
              existing |-> FALSE, id |-> Nothing, data |-> Nothing,
              etag |-> Nothing, page |-> 1, raw |-> Nothing]

WorkerTypeOK == worker \in [Workers -> WorkerState]

WorkerInit == worker = [w \in Workers |-> NoMessage]

WorkerDone(w) == worker' = [worker EXCEPT ![w] = NoMessage]

(* The invocation fails: the message becomes visible again, or it has been *)
(* received MaxReceive times and goes to the dead-letter queue.            *)
Fail(w) ==
  LET again == worker[w].receives + 1
  IN  /\ WorkerDone(w)
      /\ IF again < MaxReceive
         THEN queue' = Enqueue([path |-> worker[w].path, receives |-> again])
         ELSE UNCHANGED queue

ExtractedStatus(d) == IF d \in Readable THEN "extracted" ELSE "catalog_only"
ExtractedPagesOffByOne(d) == IF d \in Readable THEN PageCount[d] + 1 ELSE 0   \* mutant
ExtractedPages(d) == IF d \in Readable THEN PageCount[d] ELSE 0

-----------------------------------------------------------------------------
(* SQS delivers a message at least once: a copy may stay behind.           *)
Receive(w, m) ==
  /\ worker[w].pc = "idle"
  /\ queue[m] > 0
  /\ \/ queue' = [queue EXCEPT ![m] = @ - 1] /\ UNCHANGED budget
     \/ Spend("duplicate") /\ UNCHANGED queue
  /\ worker' = [worker EXCEPT ![w] =
       [NoMessage EXCEPT !.pc = "lookup", !.path = m.path,
                         !.receives = m.receives]]
  /\ UNCHANGED <<obj, row, replica, text, owner, stored>>

(* Mutant: a live row is left alone whatever its status.                   *)
WorkLookupSkipsLiveRows(w) ==
  /\ worker[w].pc = "lookup"
  /\ \E entry \in GetEntry(worker[w].path) :
       IF entry = Nothing
       THEN worker' = [worker EXCEPT ![w].pc = "get"]
       ELSE WorkerDone(w)
  /\ UNCHANGED storeVars

(* extract_object: a row that is already extracted is left alone.          *)
WorkLookup(w) ==
  /\ worker[w].pc = "lookup"
  /\ \E entry \in GetEntry(worker[w].path) :
       IF entry = Nothing
       THEN worker' = [worker EXCEPT ![w].pc = "get"]
       ELSE IF entry.status = "extracted"
       THEN WorkerDone(w)
       ELSE worker' = [worker EXCEPT ![w].pc = "get", ![w].existing = TRUE,
                                     ![w].id = entry.id]
  /\ UNCHANGED storeVars

(* objects.get raises NotFoundError when the original is gone.             *)
WorkGet(w) ==
  LET c == obj[worker[w].path]
  IN  /\ worker[w].pc = "get"
      /\ IF c = Nothing
         THEN Fail(w)
         ELSE /\ worker' = [worker EXCEPT ![w].pc = "stat", ![w].data = c]
              /\ UNCHANGED queue
      /\ UNCHANGED <<obj, row, replica, text, owner, stored, budget>>

(* stat is a second call: the etag may be that of other bytes, or none.    *)
WorkStat(w) ==
  /\ worker[w].pc = "stat"
  /\ \E id \in EntryIds :
       /\ ChooseEntryId(worker[w].path, worker[w].id, id)
       /\ worker' = [worker EXCEPT
            ![w].etag = obj[worker[w].path], ![w].id = id,
            ![w].pc = IF worker[w].data \in Readable THEN "pages" ELSE "save"]
  /\ UNCHANGED <<obj, row, replica, text, queue, stored, budget>>

WorkPage(w) ==
  /\ worker[w].pc = "pages"
  /\ StorePage(worker[w].id, worker[w].page, worker[w].data)
  /\ worker' = [worker EXCEPT
       ![w].page = IF @ < PageCount[worker[w].data] THEN @ + 1 ELSE @,
       ![w].pc = IF worker[w].page < PageCount[worker[w].data]
                 THEN "pages" ELSE "save"]
  /\ UNCHANGED <<obj, row, replica, queue, owner, stored, budget>>

(* No row when the invocation looked: the worker creates one.              *)
WorkPutRow(w) ==
  LET d == worker[w].data
  IN  /\ worker[w].pc = "save"
      /\ ~worker[w].existing
      /\ PutEntry(worker[w].path,
                  NewRow(worker[w].id, worker[w].etag, d,
                         ExtractedStatus(d), ExtractedPages(d)))
      /\ WorkerDone(w)
      /\ UNCHANGED <<obj, text, queue, owner, stored>>

(* A row was there: set_extraction reads it again ...                      *)
WorkReadRaw(w) ==
  /\ worker[w].pc = "save"
  /\ worker[w].existing
  /\ \E r \in Seen(worker[w].path) :
       IF r = Nothing
       THEN Fail(w)
       ELSE /\ worker' = [worker EXCEPT ![w].pc = "write", ![w].raw = r]
            /\ UNCHANGED queue
  /\ UNCHANGED <<obj, row, replica, text, owner, stored, budget>>

(* ... and puts it back with the new extraction state.                     *)
WorkSetExtraction(w) ==
  LET d == worker[w].data
  IN  /\ worker[w].pc = "write"
      /\ SetExtraction(worker[w].path, worker[w].raw,
                       ExtractedStatus(d), ExtractedPages(d))
      /\ WorkerDone(w)
      /\ UNCHANGED <<obj, text, queue, owner, stored>>

(* The invocation dies, times out, or a store call fails.                  *)
WorkerCrash(w) ==
  /\ worker[w].pc # "idle"
  /\ Spend("crash")
  /\ Fail(w)
  /\ UNCHANGED <<obj, row, replica, text, owner, stored>>

WorkerStep(w) ==
  \/ WorkLookup(w) \/ WorkGet(w) \/ WorkStat(w) \/ WorkPage(w)
  \/ WorkPutRow(w) \/ WorkReadRaw(w) \/ WorkSetExtraction(w)

=============================================================================
