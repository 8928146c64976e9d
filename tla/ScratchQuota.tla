---------------------------- MODULE ScratchQuota ----------------------------
(***************************************************************************)
(* The scratch workspace of one principal: ScratchService.write and delete *)
(* over the object store, and the usage item the catalog keeps for the     *)
(* quota.  A write looks at the object, adjusts the usage, then stores; a  *)
(* delete looks, removes, then refunds.  Only the adjustment is atomic:    *)
(* calls overlap, the process may die between two steps, and the bucket's  *)
(* lifecycle rule expires objects without telling the catalog.             *)
(***************************************************************************)
EXTENDS Integers, FiniteSets, FiniteSetsExt

CONSTANTS
  Callers,        \* concurrent calls of the principal
  Files,          \* scratch paths
  NoFile,         \* no path: the caller is in no call
  Sizes,          \* sizes in bytes a write may have
  MaxSize,        \* the largest of them
  Quota,          \* scratch_quota_bytes
  MaxCalls,       \* bound: writes and deletes
  MaxCrashes,     \* bound: calls that die half-way
  MaxExpiries     \* bound: objects the lifecycle rule expires

ASSUME SizeAssumption == MaxSize \in Nat /\ Sizes \subseteq 0..MaxSize
ASSUME FileAssumption == NoFile \notin Files /\ IsFiniteSet(Files)
ASSUME QuotaAssumption == Quota \in Nat
ASSUME BoundAssumption ==
  MaxCalls \in Nat /\ MaxCrashes \in Nat /\ MaxExpiries \in Nat

VARIABLES
  size,      \* path -> size of the stored object, or Absent
  used,      \* bytes_used of the usage item
  objects,   \* objects_used of the usage item
  tracked,   \* does the usage item exist?
  call,      \* caller -> the call it is in
  calls, crashes, expiries,  \* what happened so far, for the bounds
  marks      \* history: did calls on one path overlap, an overwrite shrink?

vars == <<size, used, objects, tracked, call, calls, crashes, expiries, marks>>

Absent == -1

CallState ==
  [pc: {"idle", "adjust", "put", "remove", "refund"},
   file: Files \union {NoFile},
   new: 0..MaxSize,                   \* len(body)
   old: 0..MaxSize \union {Absent}]   \* what stat answered

NoCall == [pc |-> "idle", file |-> NoFile, new |-> 0, old |-> Absent]

(* Objects, usage item and calls have values of the right kind; a stored   *)
(* object has a size a write may have.                                     *)
TypeOK ==
  /\ size \in [Files -> 0..MaxSize \union {Absent}]
  /\ used \in Int /\ objects \in Int /\ tracked \in BOOLEAN
  /\ call \in [Callers -> CallState]
  /\ calls \in 0..MaxCalls /\ crashes \in 0..MaxCrashes
  /\ expiries \in 0..MaxExpiries
  /\ marks \subseteq {"overlap", "shrink"}

Init ==
  /\ size = [f \in Files |-> Absent]
  /\ used = 0 /\ objects = 0 /\ tracked = FALSE
  /\ call = [c \in Callers |-> NoCall]
  /\ calls = 0 /\ crashes = 0 /\ expiries = 0 /\ marks = {}

-----------------------------------------------------------------------------
(* adjust_scratch_usage *)

Bytes(old) == IF old = Absent THEN 0 ELSE old

(* A raise is checked against the stored usage, and passes when there is   *)
(* none yet; what lowers the usage, or leaves it, is not checked.          *)
RefusedOnlyWhenFull(delta) == tracked /\ delta > 0 /\ used > Quota   \* mutant

Refused(delta) == delta > 0 /\ tracked /\ used > Quota - delta

(* ADD: whatever the result, below zero too.                               *)
Adjust(delta, count) ==
  /\ tracked' = TRUE
  /\ used' = used + delta
  /\ objects' = objects + count

-----------------------------------------------------------------------------
Begin(c, f) ==
  /\ call[c].pc = "idle"
  /\ calls < MaxCalls
  /\ calls' = calls + 1
  /\ marks' = marks \union
       IF \E d \in Callers : call[d].file = f THEN {"overlap"} ELSE {}

(* Mutant: the object is stored before the quota is asked.                 *)
WriteStatStoresFirst(c, f, n) ==
  /\ Begin(c, f)
  /\ call' = [call EXCEPT ![c] = [pc |-> "adjust", file |-> f, new |-> n,
                                  old |-> size[f]]]
  /\ size' = [size EXCEPT ![f] = n]
  /\ UNCHANGED <<used, objects, tracked, crashes, expiries>>

(* write: stat, adjust by the difference, put.                             *)
WriteStat(c, f, n) ==
  /\ Begin(c, f)
  /\ call' = [call EXCEPT ![c] = [pc |-> "adjust", file |-> f, new |-> n,
                                  old |-> size[f]]]
  /\ UNCHANGED <<size, used, objects, tracked, crashes, expiries>>

Delta(c) == call[c].new - Bytes(call[c].old)

(* Mutant: an overwrite is charged in full.                                *)
WriteAdjustInFull(c) ==
  /\ call[c].pc = "adjust"
  /\ IF Refused(call[c].new)
     THEN call' = [call EXCEPT ![c] = NoCall] /\ UNCHANGED <<used, objects, tracked>>
     ELSE /\ Adjust(call[c].new, IF call[c].old = Absent THEN 1 ELSE 0)
          /\ call' = [call EXCEPT ![c].pc = "put"]
  /\ UNCHANGED <<size, calls, crashes, expiries, marks>>

WriteAdjust(c) ==
  /\ call[c].pc = "adjust"
  /\ IF Refused(Delta(c))
     THEN call' = [call EXCEPT ![c] = NoCall] /\ UNCHANGED <<used, objects, tracked>>
     ELSE /\ Adjust(Delta(c), IF call[c].old = Absent THEN 1 ELSE 0)
          /\ call' = [call EXCEPT ![c].pc = "put"]
  /\ marks' = marks \union IF Delta(c) < 0 THEN {"shrink"} ELSE {}
  /\ UNCHANGED <<size, calls, crashes, expiries>>

(* Mutant: the difference is taken for the size.                           *)
WritePutDelta(c) ==
  /\ call[c].pc = "put"
  /\ size' = [size EXCEPT ![call[c].file] = Delta(c)]
  /\ call' = [call EXCEPT ![c] = NoCall]
  /\ UNCHANGED <<used, objects, tracked, calls, crashes, expiries, marks>>

WritePut(c) ==
  /\ call[c].pc = "put"
  /\ size' = [size EXCEPT ![call[c].file] = call[c].new]
  /\ call' = [call EXCEPT ![c] = NoCall]
  /\ UNCHANGED <<used, objects, tracked, calls, crashes, expiries, marks>>

(* delete: stat, delete the object, refund its size.  A path that is not   *)
(* there is an error and changes nothing.                                  *)
DeleteStat(c, f) ==
  /\ size[f] # Absent
  /\ Begin(c, f)
  /\ call' = [call EXCEPT ![c] = [pc |-> "remove", file |-> f, new |-> 0,
                                  old |-> size[f]]]
  /\ UNCHANGED <<size, used, objects, tracked, crashes, expiries>>

DeleteRemove(c) ==
  /\ call[c].pc = "remove"
  /\ size' = [size EXCEPT ![call[c].file] = Absent]
  /\ call' = [call EXCEPT ![c].pc = "refund"]
  /\ UNCHANGED <<used, objects, tracked, calls, crashes, expiries, marks>>

DeleteRefund(c) ==
  /\ call[c].pc = "refund"
  /\ Adjust(-Bytes(call[c].old), -1)
  /\ call' = [call EXCEPT ![c] = NoCall]
  /\ UNCHANGED <<size, calls, crashes, expiries, marks>>

(* The process dies, or the next store call fails.                         *)
Crash(c) ==
  /\ call[c].pc # "idle"
  /\ crashes < MaxCrashes
  /\ crashes' = crashes + 1
  /\ call' = [call EXCEPT ![c] = NoCall]
  /\ UNCHANGED <<size, used, objects, tracked, calls, expiries, marks>>

(* The bucket's scratch-ttl rule.                                          *)
Expire(f) ==
  /\ size[f] # Absent
  /\ expiries < MaxExpiries
  /\ expiries' = expiries + 1
  /\ size' = [size EXCEPT ![f] = Absent]
  /\ UNCHANGED <<used, objects, tracked, call, calls, crashes, marks>>

CallStep(c) ==
  \/ \E f \in Files : DeleteStat(c, f) \/ \E n \in Sizes : WriteStat(c, f, n)
  \/ WriteAdjust(c) \/ WritePut(c) \/ DeleteRemove(c) \/ DeleteRefund(c)
  \/ Crash(c)

Next == (\E c \in Callers : CallStep(c)) \/ \E f \in Files : Expire(f)

Spec == Init /\ [][Next]_vars

-----------------------------------------------------------------------------
(* Properties.                                                             *)

StoredFiles == {f \in Files : size[f] # Absent}
StoredBytes == [f \in Files |-> Bytes(size[f])]
Stored == MapThenSumSet(LAMBDA f : StoredBytes[f], Files)

Idle == \A c \in Callers : call[c].pc = "idle"

Ceiling == IF MaxSize <= Quota THEN Quota ELSE MaxSize

(* However calls overlap, crash or expire, the usage never passes the      *)
(* quota, unless a first write alone does: the update is atomic.           *)
UsageBounded == used <= Ceiling

(* A call that raises the usage leaves it within the quota.                *)
RaisesStayWithinQuota == [][used' > used => used' <= Quota]_vars

(* As long as calls on one path did not overlap and nothing failed or      *)
(* expired, the usage is what is stored whenever no call is under way,     *)
(* although the calls on other paths interleave with it.                   *)
LedgerMatchesStorage ==
  Idle /\ "overlap" \notin marks /\ crashes = 0 /\ expiries = 0
    => used = Stored /\ objects = Cardinality(StoredFiles)

(* The quota bounds what is stored, too, when every write fits in it and   *)
(* calls on one path do not overlap; crashes and expiries do not matter,   *)
(* unless an overwrite that shrinks its object dies before it is stored.   *)
SettledWithinQuota ==
  /\ MaxSize <= Quota
  /\ Idle /\ "overlap" \notin marks
  /\ "shrink" \notin marks \/ crashes = 0
  => Stored <= Quota

(* Every byte stored is paid for, whatever calls die half-way and whatever *)
(* expires: a write pays first and a delete is refunded last.  (An         *)
(* overwrite that shrinks its object lowers the usage first.)              *)
NeverUndercharged == marks = {} => Stored <= used

=============================================================================
