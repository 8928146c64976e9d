----------------------------- MODULE IngestApi ------------------------------
(***************************************************************************)
(* IngestService.put_document and delete_document, run by the API process  *)
(* for each caller.  Each await of the code ends an action: other callers, *)
(* the worker and the reconciler run in between.                           *)
(***************************************************************************)
EXTENDS Stores

CONSTANTS
  Clients,          \* concurrent API requests
  AsyncMode,        \* extraction_mode = "async": PUT leaves the row pending
  InlineReadable    \* contents the API's own extraction ladder can read

ASSUME IngestApiAssumption ==
  AsyncMode \in BOOLEAN /\ InlineReadable \subseteq Contents /\ IsFiniteSet(Clients)

VARIABLE client     \* client[c]: the request c is serving

ClientPCs == {"idle", "store", "pages", "entry",
              "readRaw", "tombstone", "object", "text"}

ClientState ==
  [pc: ClientPCs, path: Paths \union {Nothing},
   data: Contents \union {Nothing}, id: EntryIds \union {Nothing},
   page: Pages, raw: Row \union {Nothing}]

NoRequest == [pc |-> "idle", path |-> Nothing, data |-> Nothing,
              id |-> Nothing, page |-> 1, raw |-> Nothing]

IngestApiTypeOK == client \in [Clients -> ClientState]

IngestApiInit == client = [c \in Clients |-> NoRequest]

ClientGoto(c, pc) == client' = [client EXCEPT ![c].pc = pc]
ClientDone(c) == client' = [client EXCEPT ![c] = NoRequest]

-----------------------------------------------------------------------------
(* put_document *)

(* Reuse the id of a live row, else mint one.                              *)
PutLookup(c, p, d) ==
  /\ client[c].pc = "idle"
  /\ Spend("put")
  /\ \E entry \in GetEntry(p), id \in EntryIds :
       /\ ChooseEntryId(p, IF entry = Nothing THEN Nothing ELSE entry.id, id)
       /\ client' = [client EXCEPT ![c] =
            [NoRequest EXCEPT !.pc = "store", !.path = p, !.data = d,
                              !.id = id]]
  /\ UNCHANGED <<obj, row, replica, text, queue, stored>>

PutStore(c) ==
  /\ client[c].pc = "store"
  /\ StoreOriginal(client[c].path, client[c].data)
  /\ \/ Notify(client[c].path) /\ UNCHANGED budget
     \/ Spend("lost") /\ UNCHANGED queue
  /\ ClientGoto(c, IF ~AsyncMode /\ client[c].data \in InlineReadable
                   THEN "pages" ELSE "entry")
  /\ UNCHANGED <<row, replica, text, owner>>

PutPage(c) ==
  /\ client[c].pc = "pages"
  /\ StorePage(client[c].id, client[c].page, client[c].data)
  /\ IF client[c].page < PageCount[client[c].data]
     THEN client' = [client EXCEPT ![c].page = @ + 1]
     ELSE ClientGoto(c, "entry")
  /\ UNCHANGED <<obj, row, replica, queue, owner, stored, budget>>

InlineStatus(d) ==
  CASE AsyncMode -> "pending"
    [] ~AsyncMode /\ d \in InlineReadable -> "extracted"
    [] OTHER -> "catalog_only"

PutRow(c) ==
  LET d == client[c].data
      status == InlineStatus(d)
  IN  /\ client[c].pc = "entry"
      /\ PutEntry(client[c].path,
                  NewRow(client[c].id, d, d, status,
                         IF status = "extracted" THEN PageCount[d] ELSE 0))
      /\ ClientDone(c)
      /\ UNCHANGED <<obj, text, queue, owner, stored>>

-----------------------------------------------------------------------------
(* delete_document *)

(* Mutant: the id is looked up after the tombstone, hence never found.     *)
DeleteLookupForgetsId(c, p) ==
  /\ client[c].pc = "idle"
  /\ Spend("delete")
  /\ client' = [client EXCEPT ![c] =
       [NoRequest EXCEPT !.pc = "readRaw", !.path = p]]
  /\ UNCHANGED <<obj, row, replica, text, queue, owner, stored>>

DeleteLookup(c, p) ==
  /\ client[c].pc = "idle"
  /\ Spend("delete")
  /\ \E entry \in GetEntry(p) :
       client' = [client EXCEPT ![c] =
         [NoRequest EXCEPT !.pc = "readRaw", !.path = p,
            !.id = IF entry = Nothing THEN Nothing ELSE entry.id]]
  /\ UNCHANGED <<obj, row, replica, text, queue, owner, stored>>

(* delete_entry reads the raw row, and does nothing when there is none.    *)
DeleteReadRaw(c) ==
  /\ client[c].pc = "readRaw"
  /\ \E r \in Seen(client[c].path) :
       client' = [client EXCEPT
         ![c].raw = r,
         ![c].pc = IF r = Nothing THEN "object" ELSE "tombstone"]
  /\ UNCHANGED storeVars

DeleteTombstone(c) ==
  /\ client[c].pc = "tombstone"
  /\ Tombstone(client[c].path, client[c].raw)
  /\ client' = [client EXCEPT ![c].raw = Nothing, ![c].pc = "object"]
  /\ UNCHANGED <<obj, text, queue, owner, stored>>

DeleteObject(c) ==
  /\ client[c].pc = "object"
  /\ DeleteOriginal(client[c].path)
  /\ IF client[c].id = Nothing THEN ClientDone(c) ELSE ClientGoto(c, "text")
  /\ UNCHANGED <<row, replica, text, queue, owner, stored, budget>>

DeleteText(c) ==
  /\ client[c].pc = "text"
  /\ DeleteDerivedText(client[c].id)
  /\ ClientDone(c)
  /\ UNCHANGED <<obj, row, replica, queue, owner, stored, budget>>

-----------------------------------------------------------------------------
(* The process dies, or a store call fails: what was done stays done.      *)
ClientCrash(c) ==
  /\ client[c].pc # "idle"
  /\ Spend("crash")
  /\ ClientDone(c)
  /\ UNCHANGED <<obj, row, replica, text, queue, owner, stored>>

ClientBegin(c) ==
  \E p \in Paths : DeleteLookup(c, p) \/ \E d \in Contents : PutLookup(c, p, d)

ClientStep(c) ==
  \/ PutStore(c) \/ PutPage(c) \/ PutRow(c)
  \/ DeleteReadRaw(c) \/ DeleteTombstone(c) \/ DeleteObject(c) \/ DeleteText(c)

=============================================================================
