# Verification of agentic-fs

TLA+ models of agentic-fs, the TLC configurations that check them and TLAPS
proofs about them. agentic-fs is a multi-tenant document store for agents: an
object store holds the originals and the text extracted from them, a DynamoDB
table catalogs them, a worker extracts what the API does not, a scheduled sweep
heals drift, connectors mirror sources into it, and every principal has a
scratch workspace with a quota. Callers come by REST or MCP and see only what
their token gives them a right to.

The models are of the code under `packages/` and of the two facts of
`terraform/` the protocols depend on (how the queue redelivers, what the bucket
expires). Paths below are relative to the repository; `services/`, `stores/`,
`worker.py` and `reconcile.py` are in `packages/afs-server/src/afs_server/`,
`engine.py` and `client.py` in `packages/afs-connector-sdk/src/afs_connector_sdk/`.
`PROJECT.json` maps every definition to its lines.

## 1. Inventory

| component | state | operations | talks to |
|---|---|---|---|
| ingest service (`services/ingest.py`) | none of its own | `put_document`, `delete_document`, `extract_object` | object store and catalog, one call after the other |
| extract worker (`worker.py`) | none | `handler`: one SQS message, one `extract_object` | queue, ingest service |
| reconciler (`reconcile.py`) | none | `reconcile`: list S3, list rows, enqueue, tombstone | both stores, queue |
| catalog (`stores/catalog_dynamodb.py`) | rows, scratch usage, checkpoints, control records | put/get/delete/list entries, `set_extraction`, `adjust_scratch_usage`, `put_checkpoint` | DynamoDB |
| object store (`stores/objects_s3.py`, `objects_fsspec.py`) | originals, derived pages, scratch objects | put, get, stat, list, delete, `delete_prefix` | S3; S3 emits an event per original |
| scratch workspace (`services/scratch.py`) | none | `write`, `read`, `list`, `delete` | object store, usage item |
| sync engine (`engine.py`, `client.py`) | a run's tasks and report | `sync`, full or incremental, `prune`, dry run | a connector, the HTTP API |
| connectors (`connectors/*.py`) | none | `discover`, `fetch`, `discover_changes` | a source that changes by itself |
| read path (`services/fs.py`) | none | list, stat, read, glob, grep, tree, find, outline, read_section, tables, diff | both stores |
| MCP tools and middleware (`tools/`, `mcp/`) | none | one tool per operation, wrapped by middlewares | the services |
| extraction (`extraction/`) | none | routing, ladders of rungs, `run_extraction` | third-party readers, Textract |
| authentication (`auth.py`, `models/control.py`) | tokens, principals | scopes and namespaces of a caller | catalog |
| keys (`afs_core/keys.py`) | none | layout of object keys, parsing, validation | everybody |

**What is hard.** No component holds a lock or a transaction across its calls.
Every `await` on a store lets another request, the worker, a sweep or a writer
beside the API run in between; the catalog's `set_extraction` and
`delete_entry` read a row and put it back whole in a second call; events come
late, twice, or not at all; an invocation may die between any two calls and be
retried; the quota is adjusted atomically while the storage it stands for
changes in another call; a crawler reads an item's version when it lists the
source and its bytes later; documents in several threads share rungs whose
engines load when first needed; a token, a route, a tool and a service each hold
a piece of the decision who may see what. `PROJECT.json` lists these hazards by line.

**What makes each correct.**

- *Ingest, worker, reconciler together:* a row leads to the text of its own
  document; once everything has settled, a row is what extracting the stored
  original yields, no row lives without an original, and no text without a row;
  a sweep does not hide a document that is just being uploaded; whatever was
  lost or crashed, sweeps bring rows and originals together.
- *Scratch:* the usage never passes the quota; it is what is stored, or at least
  not less.
- *Sync engine:* repeated runs make the namespace the source; a document that is
  skipped as up to date is up to date; a checkpoint covers only what was done.
- *Read path:* what stayed as it was during a call is in its answer, unless the
  answer says it is cut; only a deletion makes a call fail; every call ends.
- *Extraction:* whichever engine runs the ladder, the first rung with a good
  enough result wins, for every document alone; its pages are numbered without
  gaps and leave nothing out; nothing read without the confidence asked for is
  written; every document is decided in the end.
- *Keys, auth, tools, services together:* a call changes and tells nothing its
  token gives no right to, whatever names, paths and claims it comes with; a
  call that was refused has changed no row, and no object unless its extraction
  failed after the original was stored; a tool a caller may use works.

## 2. Modules

```
Stores <- IngestApi  \
Stores <- Worker      >- Corpus <- MCCorpus        SyncEngine   <- MCSync
Stores <- Reconciler /         <- CorpusProofs                  <- SyncProofs

Markdown <- Rungs <- Pipelines <- Extraction       ScratchQuota <- MCScratch
                     (implements FirstWins)                     <- ScratchProofs
            Extraction <- MCExtraction
                       <- ExtractionProofs         ReadPath     <- MCReadPath
                                                                <- ReadPathProofs

Keys <- Access <- Gateway <- Isolation (implements Vault) <- MCGateway
                                       <- GatewayProofs <- IsolationProofs
```

**Stores** holds the state all ingestion processes share: `obj` (originals),
`row` (catalog rows, as last written), `replica` (what a late replica of the table
still has of them), `text` (derived pages by entry id), `queue` (SQS), and the
calls on them: `StoreOriginal` + `Notify` are an S3 put and its event, `Seen` is what
a read of a row may return (the code asks for no consistent one), `GetEntry` hides
tombstones, `WriteRow` leaves the replica behind or not and `Replicate` catches it up,
`Tombstone` and `SetExtraction` are the write halves of the two
read-then-put operations, `ChooseEntryId` is `existing.entry_id if existing else
new_ulid()`. `owner` and `stored` are history: which path an id was minted for
and which bytes were ever stored at a path.

**IngestApi** is `put_document` and `delete_document`, one action per await:
look up the row, store the original, write the pages (inline mode), write the
row; look up, read the raw row, tombstone it, delete the original, delete the
text. `ClientCrash` ends a request between any two.

**Worker** is an SQS consumer running `extract_object`: receive, look up (an
extracted row is skipped), get, stat, pages, then a new row or `set_extraction`.
A missing original, a missing row or a crash returns the message to the queue
until it was received `MaxReceive` times.

**Reconciler** is one sweep of one namespace: list the originals (`SweepList`,
which also fixes the cutoff), list the rows (`SweepRows`, each as the table or
its late replica has it), enqueue what drifted, then tombstone the orphans, each
with its read and its write. `Unquoted` says which path the worker's URL-decoding
makes of a raw key the sweep enqueued.

**Corpus** composes the three, adds writers beside the API
(`ExternalPut`, `ExternalDelete`), replicas that catch up and the passing of time
(`GraceElapses`), and states the properties.

**ScratchQuota** is `write` (stat, adjust, put) and `delete` (stat, delete,
refund) of one principal, with the update expression of `adjust_scratch_usage`,
calls that die and the bucket's lifecycle rule (`terraform/modules/storage/main.tf:88-105`).

**SyncEngine** is `sync` of several crawler processes: discovery, the items
under the semaphore (`ItemStat`, `ItemFetch`, `ItemPut`, `ItemFail`), `prune`,
deletes and the checkpoint, while the source changes. The server is reduced to
the checksum and version it reports for a path. A `deployment` says which crawlers
run and how, so that one run of TLC has full and incremental crawlers.

**ReadPath** is `FsService`: `Walk` is one `list_entries` query and what the loops
of `list`, `tree`, `find`, `glob` and grep's first stage do with its page;
`GrepOpen` and `GrepPage` are the loops of its second stage; `Stat` with
`ReadPage` or `OutlinePage` scans one document. The reader's side is a record of
the call: cursor, rows collected, place in the text, what is reported. Beside it
one writer puts, extracts and deletes, an action per await. It has stores of
its own, with just what a reader sees: a row has an id, a page count and whether
it is extracted, a page how many lines match. `steady` and `kept` are history:
the paths no writer touched, and those no delete took, since the call began.

**Markdown**, **Rungs** and **Pipelines** are the pure part of extraction: what a
page becomes (text, grids, forms, figures; `textract_analyze` leaves table text out
of the body), what each of the ten builtin rungs claims, needs, opens and reads,
which of its pages are kept and under which number, the quality gate; and the
ladder that settings, presets and routes give a document. What a loop of the code
filters out of a list is `Entries` at the places that `InOrder` enumerates, a form that
proofs can expand, which the library's `SelectSeq` is not.

**Extraction** is `run_extraction` of several documents at once. Each walks its
ladder (`Skip`, `Enter`, `Load`, `Read`), under either engine: `ExtractionPipeline`
returns the first outcome, the Haystack graph sends it to a collector
(`Collect`). `loaded` is what they share. The winner's pages are then written one
by one (`PutPage`, `Finish`); a ladder without a winner ends in `Exhaust`.
**FirstWins** is what the pipeline promises: each task is decided once, by the first
rung of its ladder that does not pass it on. `Extraction` implements it, by the
mapping that forgets everything but the document and the outcome.

**Keys** has the builders, the validation and the parsing of object keys and the
keys of the table; **Access** goes from settings and a bearer token to a
`TenantContext` or none, on both surfaces. **Gateway** is a call from its arrival to
its answer: the REST dependency (`IdentifyRest`), or the middleware (`Gate`,
`ListTools`) and the tool's own resolution of its caller (`ResolveTool`); one action
per service operation with the branches of the code in their order; and the way
back, where the middleware weighs a tool's result (`Reply`). `Put` stores the
original, then the pages (`PutsText`), then the row; when the extraction raises
(`Fails`) the row stays as it was, the error is the answer, and the bucket keeps what
was put. `touched` is history: whether a call changed the bucket and the catalog.

**Vault** is what keeping tenants apart promises of writing: everything lies in an
area, and a call changes one area at a time, one it has a right to. **Isolation**
says what the areas are (the documents of a namespace, a principal's workspace, a
tenant's checkpoints, and what no key can name), which rights ADR 0013 gives a
token, and that `Gateway` implements `Vault`. For secrecy it runs a second gateway
on stores that differ from the first's in one area, and compares answers.

**CorpusProofs**, **SyncProofs**, **ScratchProofs**, **ReadPathProofs**,
**ExtractionProofs**, **GatewayProofs** and **IsolationProofs** hold the proofs, **Induction** the
lemmas about finite sets, sums and enumerations that several of them need; the `MC*`
modules hold the budgets, inputs and symmetries of the instances. Definitions marked *mutant* are not used by the
specifications: each is a plausible bug that breaks one property, and shows that
the property can fail.

## 3. Abstractions

- A *content* stands for the bytes of a document, their etag and their checksum:
  equal bytes have equal ones. A text page holds the content it was read from.
- *One namespace of one tenant.* Every operation names both, and the reconciler
  visits namespaces one after the other. A deployment has one reconciler.
- An *entry id* is a model value nobody used yet; `new_ulid` has 80 random bits.
  Ids are finite, and a step that mints one waits when none is left: the
  instances have more ids than the budgets can use up.
- *Reads of the catalog may be late.* `get_item` and `query` ask for no consistent
  read. A write may leave a replica behind (the budget `late` bounds how often), and
  until the replica catches up each read of that row returns one or the other. One
  replica per row is kept: a read never returns anything older than that. Replicas
  have caught up when the grace window elapses. Reads of S3 are consistent, as S3's
  are; ReadPath and Scratch have consistent stores.
- *Keys.* S3's events hold encoded keys (`tests/test_worker.py:28-29`), which the worker
  decodes to the path; of the raw keys the reconciler enqueues `Unquoted` says
  what the same decoding makes.
- *Time* is one bit per row, `fresh`: inside the grace window of the next sweep.
  An API request lasts at most 30 s, a worker 120 s and a sweep 300 s, the
  window is 900 s (`settings.py`) and sweeps are an hour apart. So a row stays
  fresh while a sweep is under way, and no request is older than the window.
- `batch_size` is 1 (`terraform/modules/ingestion/variables.tf:73`), so a failing
  message takes no other with it; a message is received at most `MaxReceive`
  times, then dead-lettered. The queue's visibility timeout is six times the
  worker's, so a message comes back only after a failure, or as a duplicate.
- What a `CatalogEntry` holds besides the fields in `Row` (title, size, content
  type, provenance) is written together with them and read by no protocol here.
- In ReadPath, paths are numbers in the order of their keys; a pattern is three
  sets of them (under the literal prefix, matched, past the metadata filters);
  bytes are counted in pages. A corpus to start from is any population of
  documents, extracted or not, and tombstones. Writers follow one another: what
  overlapping writers leave is the subject of Corpus. `read_section` and `diff`
  are `outline` and `read` one after the other; `tables` has the loop of `outline`.
- Authorisation and path validation precede the first step and change no state in
  Corpus, ScratchQuota and ReadPath; Gateway has them, with services that serve a
  call in one step. Neither relies on the other: what overlaps is the subject of
  the former, who may do what that of the latter.
- *Extraction.* What a reader sees on a page is given (`layer`, `lines`, `score`,
  `tables`, `forms`, `figures`); pdfium, pdfplumber, Docling, Tesseract and the
  services underneath are external. A word is one occurrence. The confidence of a
  page is one number; the gate on characters (`min_chars`, 1 by default) never
  fails, since the pages kept are not blank. Normalizers from entry points,
  and figures Docling finds, are left out. A file claimed as text opens as text
  (`errors="replace"`). A line has a word, and a table has one cell at a place.
- *Gateway.* A result tells, for each row or object, its path, content, status and
  bytes. The pages of a row are one object, under the row's path: only that row has
  its id (`TextKey`). A PUT whose content has a page too many puts the pages before it, which
  stand for all of them here; without a live row they lie under an id that no row will
  have, and nothing keeps track of them. What the API's extraction of a content comes to
  is given (`Extracts`): extracted, no extractor, a page without a key, or an error of
  an engine. Errors of the stores and of the staging file are left out; a PUT that ends at
  one is, for the stores, a PUT that dies, which Corpus has. The weight of a result is
  the number of path segments it tells, standing for bytes of JSON. Listings are
  without a prefix; `fs_diff` is one read. Tenants, namespaces and principals are words
  without `/` and `#` (`Slugs` says which of them `_SLUG_RE` matches): `list` of scratch
  puts the principal into a prefix as it is (`scratch.py:68-69`), and what a principal with a
  `/` in its name would list there is outside `NoLeak`, `Isolated` and their theorems.
  Keys of derived metadata and of the tree are left out of `ParseKey`. No quota is on record, since
  no code writes principals. `MAX_SCRATCH_LIST` (1000) is not modelled.
- In Isolation, an `ingest` caller may learn what was in the row it replaces: the
  answer of a PUT has the old entry's id and times (`ingest.py:108-124`).
- A dry run of the sync engine changes no state and is left out.

## 4. Runs

Bounds are in the configurations. A budget (one of `InitialBudgets`) counts what the
environment may do: put, delete, external write or delete, lose an event, duplicate a
delivery, crash, leave the replica behind (`late`).

| run | question | bounds |
|---|---|---|
| `CorpusSerial` | do whole operations, in any order and with any redelivery, leave row, pages and original in step? `TypeOK`, `SettledInSync`, `SettledWithoutOrphans` | 1 path; 4 PUTs, 2 DELETEs, 2 duplicate deliveries, any number of sweeps, one operation at a time; contents of two pages, of one page and unreadable; inline mode with escalation: the API reads only `b`, the worker also `a` |
| `CorpusRace` | can text reach another path? `NoForeignText` | 2 paths, 2 clients, a worker, a sweep; 2 overlapping operations at a time; 2 PUTs, 1 DELETE, a lost event, a late replica; no redelivery |
| `CorpusConverge` | does a sweep hide only old documents (`SweepHidesOnlyOldDocuments`) and does existence converge (`ExistenceConverges`)? | 1 path; a client, a worker and a sweep overlap; 1 PUT, 1 DELETE, 1 direct write or delete with or without its event; and either a crash of any of them or a replica of the catalog that is late once |
| `CorpusPendingRace` | is `pending` temporary, as ADR 0009 says? violated | 1 PUT, its event, async mode |
| `CorpusStaleText` | is the text in the end that of the stored original, as ADR 0011 says? violated | 2 PUTs, async mode |
| `CorpusRetry` | does a redelivery overwrite the derived text, as ADR 0009 says (`RedeliveryOverwrites`)? violated | 1 direct write, its event, 1 crash |
| `Scratch` | is the usage bounded whatever happens (`UsageBounded`), what is stored when nothing fails (`LedgerMatchesStorage`), and what is stored within the quota and paid for (`SettledWithinQuota`, `NeverUndercharged`)? | 3 callers on 3 files, any overlaps, sizes 0..2, quota 3, 5 calls, a crash, an expiry |
| `Sync` | do runs make the namespace the source (`SyncConverges`), is a document under the present version the present one (`VersionsLag`), and does a checkpoint cover what it claims (`CheckpointCovers`)? `TypeOK` | two full crawlers overlapping on 1 path with 3 changes of the source and on 2 paths with 2, each with a failing call, a crash and prune; one incremental crawler on 2 paths, 4 changes, 2 crashes |
| `ReadPath` | are answers complete or marked, and do calls end? `TypeOK`, `ListingComplete`, `GrepComplete`, `ReadComplete`, `OutlineTold`, `OnlyDeletionFails`, `CallsEnd` | any population of 3 paths with contents of one and of three pages; queries of 2 items, windows of 2 pages, results of 2, scans of 2 pages; a put or delete during the calls, a crash |
| `Extraction` | does the first good rung win on both engines (`FirstRungWins`), are its pages 1..n and all of them (`PagesWithoutGaps`), none shaky (`NoShakyPage`), no table text lost (`TableTextMoves`), every document decided (`DocumentsEnd`)? `TypeOK` | 7 configurations (presets, explicit ladders, routes, missing extras, both engines); 36 pairs of documents, and 54 layouts of three words on one line or two and in a table, each beside a file no rung can open; `MaxPage` 3 |
| `Gateway` | does a call change (`Isolated`) or tell (`NoLeak`) only what its token has a right to, and a refused one no row, nor an object unless its extraction failed (`RefusedLeavesRows`)? `TypeOK` | 2 calls by any two of six tokens or none, 48 requests on both surfaces, 3 deployments (dev, OIDC, OIDC with a default grant and async extraction), 2 tenants, 2 namespaces, 2 principals, 3 paths; contents that are extracted, have no extractor, have a page too many and break an engine; twin stores that differ in the documents of a namespace or in a workspace |
| `GatewayOidc` | does a tool the middleware allows know its caller, as ADR 0013 says? violated | 1 call, behind an identity provider |

*Why the bounds are enough.* The protocols treat paths independently, except
through entry ids: one path shows everything but id collisions, two show those.
A race needs two operations and the third that meets their result, hence two or
three overlapping processes. Two PUTs tell stale from current; a third content
tells readable from unreadable. `MaxReceive = 2` has a retry and a dead letter,
`MaxQueued` tells one copy of a message from several where it matters.
In Scratch, quota 3 against sizes up to 2 is reached and passed by two files, and
five calls are enough to fill it, free some of it and race for the rest. In
ReadPath a query of two items over three paths has full, short and empty pages
that are not the last; a document of three pages has a second window and more
pages than a scan reads; its two matches on one page reach the limit per file.
In Sync, three or four changes are an appearance, a change or disappearance
during a run, and one after it. In Extraction two documents are enough to race for
an engine, and the documents reach every rung; five source pages with three kept, and
three kept where four are too many, meet `MaxPage` on both sides. In Gateway the
first call changes or plants what the second meets; `scratch` is a namespace too, so that
its rows share a partition with the usage items, `HR` is a namespace and no slug, and
one path climbs (`..`).

*Symmetry* is used only in runs without liveness properties, on paths, clients
and callers, which no definition names; the one refinement checked under symmetry,
`Isolated`, is a property of steps and treats callers alike.

*Deadlock* is checked in the Corpus and Sync runs: a sweep or a run can always
start; in ReadPath a call can always begin. Scratch, Extraction and Gateway stop when their
calls are used up and say `CHECK_DEADLOCK FALSE`.

*Restrictions that matter.* `SettledInSync` and `SettledWithoutOrphans` are
claims about operations that do not overlap and do not fail: with overlaps the
code does not keep them (section 7), and `CorpusRace` and `CorpusConverge`
say what still holds then. Nor is the replica late in
`CorpusSerial`: its operations are further apart than a replica lags.
`LedgerMatchesStorage` needs calls
that did not overlap on one path, and no failure or expiry so far, and says so
(`marks` is history); `SettledWithinQuota` stands crashes and expiries, but no crash after an
overwrite that shrank an object; `NeverUndercharged` excludes such overwrites
and overlaps. `ListingComplete` and `GrepComplete` exclude calls that reached a limit the code
does not tell (section 7). `CheckpointCovers`
needs incremental runs that do not overlap and calls that do not fail; a crash
is harmless. The deployments of `Sync` have a version token of its own for each change.

## 5. Fairness

`FairSpec` of Corpus assumes that a handler that was started goes on until it
ends or crashes (weak fairness of each process's steps: coroutines and Lambda
invocations run on their own); that the queue goes on delivering what waits in
it (strong fairness per path, since the instance allows only `MaxActive`
operations at once and a delivery may be possible only now and then); that the
schedule starts sweeps again and again (weak); that the grace window passes
in one of the pauses between sweeps (strong: they are an hour apart); and that a
replica catches up (weak). Nothing
makes a client act, an event arrive that was lost, or a crash happen.

`FairSpec` of SyncEngine assumes that each crawler is scheduled again and again
and that a run goes on to its end or its crash.

`FairSpec` of ReadPath assumes that a call that was started goes on; that of
Extraction that a coroutine goes on and a thread it waits for ends.

`ExistenceConverges` and `SyncConverges` are stated without a condition on the
writers: the budgets make writers and failures stop, and the claim is about what
happens then.

## 6. Proofs

Checked by TLAPS for any number of paths, contents, processes, ids and pages,
and without bounds on what overlaps or fails (the budgets are any naturals).

| theorem | states |
|---|---|
| `TypeCorrect` | `Spec => []TypeOK` (Corpus) |
| `Provenance` | `Spec => []NoForeignText` |
| `GraceProtects` | `Spec => SweepHidesOnlyOldDocuments` |
| `SerialInSync` | `Serial` implies `Spec => []SettledInSync` |
| `SerialWithoutOrphans` | `Serial` implies `Spec => []SettledWithoutOrphans` |
| `ScratchTypeCorrect` | `Spec => []TypeOK` (ScratchQuota) |
| `ScratchUsageBounded` | `Spec => []UsageBounded` |
| `ScratchRaises` | `MaxSize <= Quota` implies `Spec => RaisesStayWithinQuota` |
| `ScratchLedgerMatches` | `Spec => []LedgerMatchesStorage` |
| `ScratchSettledWithinQuota` | `Spec => []SettledWithinQuota` |
| `ScratchNeverUndercharged` | `Spec => []NeverUndercharged` |
| `SyncTypeCorrect` | `Spec => []TypeOK` (SyncEngine) |
| `SyncVersionsLag` | `Spec => [](~deployment.contentVersions => VersionsLag)` |
| `SyncCheckpointCovers` | `Spec => [](Alone \/ ~deployment.incremental => CheckpointCovers)` |
| `ReadInvariance` | `Spec => []IInv` (ReadPath) |
| `ReadTypeCorrect` | `Spec => []TypeOK` |
| `DeletionAloneFails` | `Spec => []OnlyDeletionFails` |
| `ReadListingComplete` | `Spec => []ListingComplete` |
| `ReadGrepComplete` | `Spec => []GrepComplete` |
| `ReadReadComplete` | `Spec => []ReadComplete` |
| `ReadOutlineTold` | `Spec => []OutlineTold` |
| `TypeCorrect` | `Spec => []TypeOK` (Extraction) |
| `ConfidentPages` | `Spec => []NoShakyPage` |
| `NoPageMissing` | `Spec => []PagesWithoutGaps` |
| `TablesKeepText` | `Spec => []TableTextMoves` |
| `EnginesImplementFirstWins` | `Spec => FirstRungWins`: Extraction refines FirstWins |
| `GatewayTypeCorrect` | `Spec => []TypeOK` (Gateway) |
| `RefusalsLeaveRows` | `Spec => []RefusedLeavesRows` |
| `GatewayImplementsVault` | `Spec => Isolated`: Gateway refines Vault |
| `Secrecy` | `TwinSpec => []NoLeak` (Isolation) |

*Corpus.* `NoForeignText` is not inductive: a process may hold, from an earlier
step, an id, a row or bytes that it is about to write. `IInv` adds that
everything a process holds belongs to its path: an id is owned by one path
(`OwnedBy`), so is the id of every row in the table, in its replica or about to be put back
(`RowOwnedBy`), bytes in hand were once stored at the path, and every page
belongs to bytes stored at the path its id is owned by (`TextStored`). `owner`
only gains values and `stored` only grows, so each part survives the steps of
the other processes: the lemmas `ClientFrame`, `WorkerFrame`, `SweepFrame`,
`RowsFrame` and `TextFrame` say so once, `WriteRowFacts` and `SeenStable` that a row in
the replica is one the table had, and each action then needs only its own
part. Type correctness needs `IInv` as well: a handler's values are of the right
kind at the step where it uses them.

`GraceProtects` adds `GraceInv`: while a sweep is under way, a row that is live
and old in the table or the replica was live in one of them when it began. It rests
on `NoRowAges`: no step of a client, a worker or the sweep makes a fresh row old or revives a row without making it
fresh, and time does not pass during a sweep. One case is delicate: a delete that
read a live old row may write it back after a sweep listed the rows; it writes
it tombstoned, so it does not revive it. This theorem inherits the timing
assumption of section 3.

`SerialInSync` and `SerialWithoutOrphans` hold of systems that are `Serial`: one
operation at a time, initial budgets without crashes, lost events, direct writes and late
replicas, and a worker that reads whatever the API reads (a row the API marked extracted
is never extracted again, so it must be what the worker would have made of it). Which
operation comes next, how often a message is delivered, how old a message is when it is,
and when a sweep runs are all open. `SerialInv` says what is true at every step of the one operation
under way. Away from its path each path is `Good`: in step, or its row is of the
stored bytes but not extracted, and a message waits (`Queued`), so that an empty
queue leaves only paths in step. On its path `RequestAt` and `MessageAt` say how far the
operation is: which pages are there, whose id it writes under (`Chosen`: that of a
live row), and that the message of an original just stored still waits when its row
is written. A message may be delivered when its work was done long ago, or when the document it
announced is gone: then the worker finds an extracted row in step, or fails with no row
left behind. A sweep finds nothing to do, since every live row has the etag of its
original (`SweepRowsSerial`). `OthersFrame` carries the other paths over each step:
their text is under ids of their own, which `IInv` knows.

*ScratchQuota.* `UsageInv` is `TypeOK`, `used <= Ceiling`, and usage only after
the item exists; only `Adjust` touches the usage, and its condition bounds the
result, except for the first write, which is at most `MaxSize`. `ScratchRaises`
assumes that no write is larger than the quota, exactly what the first write of
a principal is not checked for.

The ledger is proved path by path. `LedgerInv` gives each path its `Charge`: what a call
under way on it has charged and not stored yet, or deleted and not refunded yet, or
else what is stored; the usage is the sum of the charges as long as nothing died or expired, and
at least what is stored, path by path, afterwards. A step changes one path's charge and the
usage by the same amount (`SumChange`), and without a call under way the charges
are what is stored (`IdleCharges`). `OnePerFile` and `AsFound` say what "no overlap" buys:
what a call found by its stat is what is stored when it acts. Sums are over any
finite set of files.

*SyncEngine.* A source has a change feed: `FeedInv` says that no cursor and no checkpoint
is ahead of it. `VersionInv` says of each stored document, and of each item a run is about to
put, that its version is one the source had, and that bytes under the present
version are the present ones: `_process` fetches after it stats, so bytes can
only be newer than the version they are stored with. Its theorem is about version tokens
that belong to one change; a token derived from content may return (section 7).
`CoverInv` says what a run in progress owes: everything up to its cursor is in
step, or about to be written with the right version, or about to be deleted
(`RunCovers`), and what the stored checkpoint has passed is in step at any time
(`Covered`). A crash drops the run's work and leaves the old checkpoint; a change
of the source during the run lies past its cursor. `Alone` is one
incremental crawler whose calls do not fail, the deployments that keep the claim.

*ReadPath.* `OnlyDeletionFails` speaks of the moment a page is missing; what
makes it true lies between the listing that saw the row and the read of the page.
`IInv` says what survives in between: the pages a live row names are there
(`RowsHaveText`); a put has written the pages it is past under the row's own id,
or under a new one when no row is live, and a delete removes text only after its
row (`WriterInv`); and each document a call still holds has, unless a delete
took it, the id and the pages it was listed with (`HeldInv`). `CallInv` keeps the
room that the budgets leave positive, which the types need: no scan runs past
its window and no budget is overdrawn. `HeldFrame` says once which changes of
rows and text leave `HeldInv` alone, `CallFrame` and `HeldShrinks` the same for
the steps of a call. The theorem is for one writer at a time, as the model is.

The answers are complete by `AnswerInv`. A path no writer touched since the call began has
the row and the text it had (`WriterSteady`), so what a call still has to do with it
can be said from the present state: everything behind the cursor of a walk that matches is in
the answer or held for the scan, and everything collected matches and was collected once; every page before
the page at hand was reported up to the limit per file; the pages of a window are
the ones from its start to the page at hand, and the windows follow each other.
The limits are what is delicate: a query cut at its limit inside a page of results,
`max_matches` reached in the middle of a page, caps reached exactly. `FirstFew` and
`HitsTo` count the matches up to a page, and the counting is by induction on
finite sets and on pages.

*Extraction.* Two engines compute step by step, over state other documents share,
what FirstWins decides in one step from the document alone. The walk invariant
says how far a walk is: the rungs before the present one passed the document on, a
rung at work accepts it, a rung past `load` has what it needs, and what sits in the
collector is one rung, which stops the document. The pure lemmas
about `Kept` (the pages kept are numbered in order) and the gate give
`ConfidentPages`. For `NoPageMissing`, `PagesInv` adds that the pages before the next
one to write are the kept ones and the others are not there; `InOrderFacts` shows
that a finite set of page numbers is enumerated in order, none left out, because
each number's rank in it is another. `TablesKeepText` needs no invariant but the settings': it is
about one page, whose grids hold the words of its tables (`GridFacts`, `GridsFacts`),
so that a line left out of the body is in a grid and one kept is not (`AnalyzeFacts`). Of what is shared it says only that no engine is loaded whose
extra is missing: finding one loaded by another document changes no outcome.

*Gateway.* `IInv` is `TypeOK`; that every live row lies behind a key that can be built
(`RowsBuilt`), which is why a DELETE that fails at the key of the original has
tombstoned nothing; and what links a call's context and answer to its request and
the settings (`Linked`). `RefusalsLeaveRows` is part of `Linked` for a call that is done:
on its way back a call that was refused has touched nothing or is `Excused`, as a PUT
whose content failed to be extracted, and only `Put` puts anything before it refuses (`PutStep`).
For `GatewayImplementsVault`, `MayFacts` turns the scopes and namespaces a
service checks into the rights of `MayChange`, and `ObjectAreas` and `ItemAreas` say
where the keys a service builds lie: no name, however chosen, leads to another area's.
The theorems hold for any tenants, tokens, settings, sizes and requests.

*Isolation.* `Secrecy` relates two runs. `TInv` says that the stores of the two
gateways agree outside the secret area and that every call stands at the same
point in both, with the same context and, unless its token opens the secret area, the
same answer (`Matched`). Each action then has one lemma: `LearnsAt` says that what an
authorised call reads lies in an area it may learn of, so that without that right both
read the same (`RowsAlike`, `TextsAlike`, `NotesAlike`), take the same branch and give the same
answer; what a step writes is the same in both or lies in the secret area (`ItemSet`, `DocumentSet`).
A `scratch_delete` of the secret's owner is the one step that may take different
branches (`SecretChange`). Any areas' contents are covered, while the run
compares two emptied areas with full ones.

*Induction.* The library's induction theorems take a property as an operator; here it
is given as the set of the sets, or numbers, that have it, which the provers can
instantiate. From it follow the lemmas on sums over a finite set, on the least and the
last of finitely many numbers, and on images of finite sets.

*Assumptions.* The named `ASSUME`s of the modules: counts are natural, the null
value is no path, content, id, row or document, page counts are between 1 and `MaxPage`,
a principal's files, the API's requests and the worker's invocations are finitely many (of which Corpus counts those
under way), and what Extraction reads are sequences of pages whose tables have finitely
many cells. TLC evaluates each of them in every run. Five theorems have a condition of their
own in the table, `ScratchRaises`, `SerialInSync`, `SerialWithoutOrphans`, `SyncVersionsLag` and
`SyncCheckpointCovers`; the runs that check the properties have instances that meet it. The others that hold only
without overlaps or failures have it in the property itself.

*Only model-checked:* liveness (`ExistenceConverges`, `SyncConverges`, `CallsEnd`,
`DocumentsEnd`), which is out of the prover's reach. Every invariant and every
action property of the passing runs is proved.

## 7. What the checks show

What holds is in the tables above. Four runs end in a counterexample to what the
documentation says (`findings` in `PROJECT.json` has the quotes):

1. **A PUT may stay `pending` for ever** (`CorpusPendingRace`). The event of the
   stored original can be handled before `put_document` writes the row; the
   worker creates an extracted row, the PUT overwrites it with a pending one, and
   the sweep finds the etags equal.
2. **Old text under a new checksum, for ever** (`CorpusStaleText`). A worker that
   read the first bytes marks the row of the second PUT as extracted; the second
   event is then skipped as already done.
3. **A retry mints another id** (`CorpusRetry`). Without a row, `extract_object` mints
   an id per attempt (`ingest.py:145`), and the pages of the first stay behind; its
   docstring (`ingest.py:130-131`) says that a redelivery overwrites.
4. **Behind an identity provider no tool works** (`GatewayOidc`). The middleware
   verifies the caller's token, the tool then asks `resolve_context`, which knows
   dev servers only and raises.

Further divergences met while modelling, without a run of their own:

- *Etag drift may never heal.* The sweep enqueues an original whose etag differs
  from its row's (`reconcile.py:88`), but the worker skips extracted rows
  (`ingest.py:138`), and `set_extraction` leaves the etag alone; ADR 0011:34 says
  such a row is re-extracted. `TextConverges` fails for this reason too as soon as
  its run has a direct write (the budget `external`).
- *Unregistered namespaces.* A namespace without originals is swept only if the
  catalog has a record of it, which no code besides tests writes
  (`reconcile.py:73,164-176`; ADR 0011:52-53). All runs set `Registered = TRUE`;
  with `FALSE`, `ExistenceConverges` fails.
- *A sweep enqueues raw keys, the worker decodes them* (`worker.py:46`), as it must
  for S3's events. An original whose path decoding changes (`a+b`, `50%25`) and whose
  event was missed never gets a row: `ExistenceConverges` fails with two paths when
  `Unquoted` maps one to the other. The runs are about paths decoding leaves alone.
- *A checkpoint passes over failed items* (`engine.py:75,104`), which nothing retries
  until their source changes again: `CheckpointCovers` fails when an incremental crawler
  of `Sync` has a failing call.
- *A lost event leaves a pending row* the sweep counts as in sync
  (`reconcile.py:88`); ADR 0011:57-58 says every such drift heals.
- *A fresh row can be tombstoned.* The sweep decides from its listing, and
  `delete_entry` tombstones whatever row is there by then (`reconcile.py:101`).
  `SweepHidesOnlyOldDocuments` is what does hold: the path had a live row, in
  the table or in a late replica, when the sweep began. ADR 0011:44-46 says a row written within the window is safe.
- *Revival mints an id*: a tombstone reads as absent (`ingest.py:87-88`), against
  `reconcile.py:11-13`.
- *Two deletes of one scratch path refund it twice* (`scratch.py:83-89`), and
  *overlapping writes of one path*, or one shrinking overwrite that dies before
  its put, leave more stored than charged (`scratch.py:42-50`).
- *Expired scratch objects stay charged* (`terraform/modules/storage/main.tf:99`).
- *The first write of a principal is not checked*: `attribute_not_exists(#b)`
  (`catalog_dynamodb.py:411`) lets it through whatever its size; `scratch.py:46` says
  the adjustment is conditional.
- *Overlapping incremental runs* may put older bytes last and cover them with the
  checkpoint (`engine.py:93`).
- *An etag that returns*: with content-derived versions a document that changes
  and changes back during a run keeps the bytes in between under a version that
  matches for ever (`engine.py:84`).
- *`find` and `tree` take the next cursor for the only sign of more* (`fs.py:346,401`):
  what is left of the page they stopped in is not told; `builtin.py:218` says
  "`truncated: true` means more matched than `limit`".
- *A grep that was cut need not say so*: collecting candidates stops at `max_files`
  without a flag (`fs.py:550-551`), and so does the scan when it reaches
  `max_matches` inside the last candidate.
- *grep filters by content type after `max_files`* (`fs.py:271-275`), so documents of
  other types use the budget up.
- *A document deleted during a grep fails the whole grep* (`fs.py:294`).
- *diff compares the first 20 pages of each document* (`fs.py:522-526`) and its
  `truncated` says only that the line budget was hit.
- *`fs_list` returns a `next_cursor` but takes no cursor* (`builtin.py:63-68`).
- *A missing extra raises `RuntimeError`* where the rung is not one that declines
  (`pdftables.py:36`, the OCR rungs): the document fails instead of going down the
  ladder; `docs/swap-guides/extraction.md:156-158` and `presets.py:11-13` speak of
  falling through.
- *Corrupt files raise*: only Docling reports a file it cannot parse; what pdfium, Pillow
  or a service raises is no `NormalizationError`, so nothing below is tried and the
  PUT or the message fails (`runner.py:36-37`).
- *A PUT whose extraction raises is refused after its original was stored*
  (`ingest.py:91-107`): the row, if any, tells size, checksum and pages of what was there before,
  and pages before the failing one already have the new text. The next sweep sees the etag
  drift, but the worker skips an extracted row. `RefusedLeavesRows` says that the row stays and
  makes these PUTs the only refused calls that leave objects behind.
- *Image-only pages of a mixed PDF are dropped*: the `pdf` rung wins with the pages
  that have a text layer, and no rung below sees the others.
- *A route with an empty list of rungs runs the default ladder*, and a content type
  with parameters (`text/html; charset=...`) misses its exact route.
- *A document of more than 9999 pages* fails with `InvalidKeyError` after its
  first 9999 pages were written (`runner.py:56`).
- *An engine may be loaded twice* by documents that find it missing at the same
  time; harmless for the outcome, as `EnginesImplementFirstWins` shows.
- *A ruled table without words yields a page* that counts as written; a line
  partly inside a table is in the body and in the table.
- *Principals that are no slugs*: the subject of a token may be any string; scratch
  write, read and delete then fail with `InvalidKeyError`, while `list` validates
  nothing and finds nothing.
- *Checkpoints ask for no namespace*: `ingest` opens those of all connectors of the
  tenant. `fs:search` and `admin` open nothing.
- *A result over the budget is refused after the tool did its work*: a
  `scratch_write` that answers `over_budget` has written. For rows and usage items
  `RefusedLeavesRows` makes that the only exception.
- *The test double* checks every adjustment and stops at zero
  (`afs_core/testing/memory.py:272-283`); DynamoDB checks raises only and goes
  below zero.

## 8. Not modelled, and the plan

Not modelled: the fsspec store (the contract of the S3 one, with empty etags), the
in-memory stores of the tests, control-plane records nobody writes, the CLIs and
logging (I/O without state), Terraform besides the two facts above. The readers
under the rungs and the verification of tokens are libraries.

Left, in this order:

1. ReadPath over the stores of Corpus, so that readers meet overlapping writers;
   `tables`, `read_section` and `diff` as calls of their own.
2. Several namespaces in a sweep, and stale reads in ReadPath and Scratch.
3. An abstract specification of the corpus (a path holds a document or does not)
   that Corpus implements for live rows; one of a ledger for ScratchQuota.
