---------------------------- MODULE ScratchProofs ----------------------------
(***************************************************************************)
(* Theorems about ScratchQuota: types; that the atomic adjustment bounds   *)
(* the usage whatever the calls around it do; and, where calls on one path *)
(* do not overlap, what the usage has to do with the stored bytes.         *)
(***************************************************************************)
EXTENDS ScratchQuota, Induction, TLAPS

(* The strengthening: without a usage item nothing was charged yet.  What  *)
(* a write is about to charge is at most MaxSize, by TypeOK.               *)
UsageInv ==
  /\ TypeOK
  /\ ~tracked => used = 0
  /\ used <= Ceiling

(* The ceiling is a number, at least the quota.                            *)
LEMMA CeilingFacts == Ceiling \in Nat /\ Quota <= Ceiling
BY SizeAssumption, QuotaAssumption DEF Ceiling

(* What an adjustment that is not refused does to the usage.               *)
LEMMA AdjustFacts ==
  ASSUME NEW delta \in Int, NEW count \in Int, UsageInv, delta <= MaxSize,
         ~Refused(delta), Adjust(delta, count)
  PROVE  /\ used' \in Int /\ objects' \in Int /\ tracked' = TRUE
         /\ used' <= Ceiling
         /\ MaxSize <= Quota /\ used' > used => used' <= Quota
<1>1. used \in Int /\ objects \in Int /\ used <= Ceiling /\ (~tracked => used = 0)
  BY DEF UsageInv, TypeOK
<1>2. tracked' = TRUE
  BY DEF Adjust
<1>3. used' = used + delta /\ objects' = objects + count
  BY DEF Adjust
<1>4. CASE delta <= 0
  BY <1>1, <1>2, <1>3, <1>4, CeilingFacts, QuotaAssumption, SizeAssumption
<1>5. CASE delta > 0 /\ tracked
  <2>1. used + delta <= Quota
    BY <1>1, <1>5, QuotaAssumption DEF Refused
  <2>2. QED BY <1>1, <1>2, <1>3, <2>1, CeilingFacts, QuotaAssumption
<1>6. CASE delta > 0 /\ ~tracked
  <2>1. used' = delta /\ objects' \in Int
    BY <1>1, <1>3, <1>6
  <2>2. MaxSize <= Quota => Ceiling = Quota
    BY DEF Ceiling
  <2>3. MaxSize <= Ceiling
    BY SizeAssumption, QuotaAssumption DEF Ceiling
  <2>4. QED
    BY <1>2, <1>6, <2>1, <2>2, <2>3, CeilingFacts, SizeAssumption, QuotaAssumption
<1>7. delta <= 0 \/ (delta > 0 /\ tracked) \/ (delta > 0 /\ ~tracked)
  OBVIOUS
<1>8. QED BY <1>4, <1>5, <1>6, <1>7

(* What TypeOK says of a call: its adjustments are bounded by the largest  *)
(* object.                                                                 *)
LEMMA CallFacts ==
  ASSUME TypeOK, NEW c \in Callers
  PROVE  /\ call[c] \in CallState
         /\ Delta(c) \in Int /\ Delta(c) <= MaxSize
         /\ -Bytes(call[c].old) \in Int /\ -Bytes(call[c].old) <= MaxSize
<1>1. call[c] \in CallState
  BY DEF TypeOK
<1>2. call[c].new \in 0..MaxSize /\ Bytes(call[c].old) \in 0..MaxSize
  BY <1>1, SizeAssumption DEF CallState, Bytes, Absent
<1>3. QED BY <1>1, <1>2, SizeAssumption DEF Delta

(* A caller in no call is a call state.                                    *)
LEMMA NoCallType == NoCall \in CallState
BY SizeAssumption DEF NoCall, CallState

(* One step keeps the invariant, and raises the usage only within the      *)
(* quota when every object fits in it.                                     *)
Raises == MaxSize <= Quota /\ used' > used => used' <= Quota

(* A step that leaves the usage item alone keeps the bound.                *)
LEMMA UntouchedUsage ==
  ASSUME UsageInv, TypeOK', UNCHANGED <<used, tracked>>
  PROVE  UsageInv' /\ Raises
BY DEF UsageInv, Raises, Ceiling, TypeOK

(* An adjustment that was not refused keeps the bound, too.                *)
LEMMA AdjustedUsage ==
  ASSUME UsageInv, NEW delta \in Int, NEW count \in Int, delta <= MaxSize,
         ~Refused(delta), Adjust(delta, count),
         UNCHANGED <<size, calls, crashes, expiries>>,
         call' \in [Callers -> CallState], marks' \subseteq {"overlap", "shrink"}
  PROVE  UsageInv' /\ Raises
<1>1. /\ used' \in Int /\ objects' \in Int /\ tracked' = TRUE
      /\ used' <= Ceiling
      /\ MaxSize <= Quota /\ used' > used => used' <= Quota
  BY AdjustFacts
<1>2. TypeOK'
  BY <1>1 DEF UsageInv, TypeOK
<1>3. QED BY <1>1, <1>2 DEF UsageInv, Raises, Ceiling

(* No step of write, delete, a crash or the lifecycle rule breaks          *)
(* UsageInv.                                                               *)
LEMMA StepUsageInv ==
  ASSUME UsageInv, [Next]_vars
  PROVE  UsageInv' /\ Raises
<1>1. TypeOK
  BY DEF UsageInv
<1>2. ASSUME NEW c \in Callers, NEW f \in Files, NEW n \in Sizes, WriteStat(c, f, n)
      PROVE  TypeOK' /\ UNCHANGED <<used, tracked>>
  <2>1. n \in 0..MaxSize /\ size[f] \in 0..MaxSize \union {Absent}
    BY <1>1, SizeAssumption DEF TypeOK
  <2>2. [pc |-> "adjust", file |-> f, new |-> n, old |-> size[f]] \in CallState
    BY <2>1 DEF CallState
  <2>3. calls' \in 0..MaxCalls /\ marks' \subseteq {"overlap", "shrink"}
    BY <1>1, <1>2, BoundAssumption DEF TypeOK, WriteStat, Begin
  <2>4. QED BY <1>1, <1>2, <2>2, <2>3 DEF TypeOK, WriteStat
<1>3. ASSUME NEW c \in Callers, NEW f \in Files, DeleteStat(c, f)
      PROVE  TypeOK' /\ UNCHANGED <<used, tracked>>
  <2>1. 0 \in 0..MaxSize /\ size[f] \in 0..MaxSize \union {Absent}
    BY <1>1, SizeAssumption DEF TypeOK
  <2>2. [pc |-> "remove", file |-> f, new |-> 0, old |-> size[f]] \in CallState
    BY <2>1 DEF CallState
  <2>3. calls' \in 0..MaxCalls /\ marks' \subseteq {"overlap", "shrink"}
    BY <1>1, <1>3, BoundAssumption DEF TypeOK, DeleteStat, Begin
  <2>4. QED BY <1>1, <1>3, <2>2, <2>3 DEF TypeOK, DeleteStat
<1>4. ASSUME NEW c \in Callers, WriteAdjust(c)
      PROVE  UsageInv' /\ Raises
  <2>1. CASE Refused(Delta(c))
    <3>1. TypeOK' /\ UNCHANGED <<used, tracked>>
      BY <1>1, <1>4, <2>1, NoCallType DEF TypeOK, WriteAdjust
    <3>2. QED BY <3>1, UntouchedUsage
  <2>2. CASE ~Refused(Delta(c))
    <3> DEFINE count == IF call[c].old = Absent THEN 1 ELSE 0
    <3>1. Adjust(Delta(c), count) /\ call' = [call EXCEPT ![c].pc = "put"]
      BY <1>4, <2>2 DEF WriteAdjust
    <3>2. call' \in [Callers -> CallState]
      BY <1>1, <3>1 DEF TypeOK, CallState
    <3>3. /\ UNCHANGED <<size, calls, crashes, expiries>>
          /\ marks' \subseteq {"overlap", "shrink"}
      BY <1>1, <1>4 DEF WriteAdjust, TypeOK
    <3>4. Delta(c) \in Int /\ Delta(c) <= MaxSize /\ count \in Int
      BY <1>1, CallFacts
    <3> HIDE DEF count
    <3>5. QED BY <2>2, <3>1, <3>2, <3>3, <3>4, AdjustedUsage
  <2>3. QED BY <2>1, <2>2
<1>5. ASSUME NEW c \in Callers, WritePut(c)
      PROVE  TypeOK' /\ UNCHANGED <<used, tracked>>
  <2>1. call[c].new \in 0..MaxSize
    BY <1>1, CallFacts DEF CallState
  <2>2. QED BY <1>1, <1>5, <2>1, NoCallType DEF TypeOK, WritePut
<1>6. ASSUME NEW c \in Callers, DeleteRemove(c)
      PROVE  TypeOK' /\ UNCHANGED <<used, tracked>>
  <2>1. call' \in [Callers -> CallState]
    BY <1>1, <1>6 DEF TypeOK, DeleteRemove, CallState
  <2>2. QED BY <1>1, <1>6, <2>1 DEF TypeOK, DeleteRemove
<1>7. ASSUME NEW c \in Callers, DeleteRefund(c)
      PROVE  UsageInv' /\ Raises
  <2> DEFINE delta == -Bytes(call[c].old)
  <2>1. delta \in Int /\ delta <= MaxSize
    BY <1>1, CallFacts
  <2>2. /\ call' \in [Callers -> CallState]
        /\ marks' \subseteq {"overlap", "shrink"}
        /\ UNCHANGED <<size, calls, crashes, expiries>>
    BY <1>1, <1>7, NoCallType DEF TypeOK, DeleteRefund
  <2>3. Adjust(delta, -1)
    BY <1>7 DEF DeleteRefund
  <2>4. ~Refused(delta)
    BY <1>1, CallFacts, SizeAssumption DEF Refused, CallState, Bytes, Absent
  <2> HIDE DEF delta
  <2>5. QED BY <2>1, <2>2, <2>3, <2>4, AdjustedUsage
<1>8. ASSUME NEW c \in Callers, Crash(c)
      PROVE  TypeOK' /\ UNCHANGED <<used, tracked>>
  BY <1>1, <1>8, NoCallType, BoundAssumption DEF TypeOK, Crash
<1>9. ASSUME NEW f \in Files, Expire(f)
      PROVE  TypeOK' /\ UNCHANGED <<used, tracked>>
  BY <1>1, <1>9, BoundAssumption DEF TypeOK, Expire
<1>10. CASE UNCHANGED vars
  BY <1>1, <1>10, UntouchedUsage DEF TypeOK, vars
<1>11. QED
  BY <1>2, <1>3, <1>4, <1>5, <1>6, <1>7, <1>8, <1>9, <1>10, UntouchedUsage
  DEF Next, CallStep

(* UsageInv holds of an empty workspace.                                   *)
LEMMA InitUsageInv == Init => UsageInv
<1> SUFFICES ASSUME Init PROVE UsageInv
  OBVIOUS
<1>1. 0 \in 0..MaxCalls /\ 0 \in 0..MaxCrashes /\ 0 \in 0..MaxExpiries
  BY BoundAssumption
<1>2. size \in [Files -> 0..MaxSize \union {Absent}]
  BY DEF Init
<1>3. call \in [Callers -> CallState]
  BY NoCallType DEF Init
<1>4. used \in Int /\ objects \in Int
  BY DEF Init
<1>5. TypeOK
  BY <1>1, <1>2, <1>3, <1>4, Zenon DEF Init, TypeOK
<1>6. QED BY <1>5, CeilingFacts, QuotaAssumption DEF Init, UsageInv

(* UsageInv holds in every reachable state, for all values of the          *)
(* constants: bytes_used stays under the ceiling, and is zero until the    *)
(* item exists.                                                            *)
THEOREM UsageInvariance == Spec => []UsageInv
<1>1. UsageInv /\ [Next]_vars => UsageInv'
  BY StepUsageInv
<1>2. QED BY <1>1, InitUsageInv, PTL DEF Spec

(* The usage item and the calls keep their types.                          *)
THEOREM ScratchTypeCorrect == Spec => []TypeOK
<1>1. UsageInv => TypeOK
  BY DEF UsageInv
<1>2. QED BY <1>1, UsageInvariance, PTL

(* However many calls overlap on however few paths, die or race the        *)
(* lifecycle rule, bytes_used never passes the quota, except by a first    *)
(* write that alone is larger than it.                                     *)
THEOREM ScratchUsageBounded == Spec => []UsageBounded
<1>1. UsageInv => UsageBounded
  BY DEF UsageInv, UsageBounded
<1>2. QED BY <1>1, UsageInvariance, PTL

(* When no write is larger than the quota, every step that raises the      *)
(* usage leaves it within the quota.                                       *)
THEOREM ScratchRaises ==
  ASSUME MaxSize <= Quota
  PROVE  Spec => RaisesStayWithinQuota
<1>1. UsageInv /\ [Next]_vars => [used' > used => used' <= Quota]_vars
  BY StepUsageInv DEF Raises
<1>2. QED BY <1>1, UsageInvariance, PTL DEF Spec, RaisesStayWithinQuota

-----------------------------------------------------------------------------
(* The ledger.  What the usage item should say of a path is the size of    *)
(* its object, unless a call is under way there: a call past its           *)
(* adjustment is charged for what it is about to store, any other for what *)
(* it found.                                                               *)

One(old) == IF old = Absent THEN 0 ELSE 1

BytesOf(k) == IF k.pc = "put" THEN k.new ELSE Bytes(k.old)
ItemsOf(k) == IF k.pc = "put" THEN 1 ELSE One(k.old)

(* The calls are given as an argument, to speak of them after a step.      *)
HeldIn(cs, f) == \E c \in Callers : cs[c].file = f
HolderIn(cs, f) == CHOOSE c \in Callers : cs[c].file = f
ChargeAt(cs, sizes, f) ==
  IF HeldIn(cs, f) THEN BytesOf(cs[HolderIn(cs, f)]) ELSE Bytes(sizes[f])
ItemsAt(cs, sizes, f) ==
  IF HeldIn(cs, f) THEN ItemsOf(cs[HolderIn(cs, f)]) ELSE One(sizes[f])

Charge == [f \in Files |-> ChargeAt(call, size, f)]
Items == [f \in Files |-> ItemsAt(call, size, f)]
Charged == SumOf(Charge, Files)
Itemized == SumOf(Items, Files)

(* A call under way has a path, and what it removes was there.             *)
CallsInv ==
  \A c \in Callers :
    /\ call[c].pc = "idle" => call[c] = NoCall
    /\ call[c].pc # "idle" => call[c].file \in Files
    /\ call[c].pc \in {"remove", "refund"} => call[c].old # Absent

(* Calls on one path did not overlap so far; then no two are under way on  *)
(* one path, and the object is as a call found it, unless it expired.      *)
Apart == "overlap" \notin marks
OneIn(cs) ==
  \A c, d \in Callers : cs[c].file = cs[d].file /\ cs[c].file # NoFile => c = d
OnePerFile == OneIn(call)
AsFound ==
  \A c \in Callers : call[c].pc # "idle" =>
    /\ size[call[c].file] \in {call[c].old, Absent}
    /\ call[c].pc = "refund" => size[call[c].file] = Absent
    /\ call[c].pc # "refund" /\ expiries = 0 => size[call[c].file] = call[c].old

(* An overwrite that shrinks its object has lowered the usage before the   *)
(* object shrinks: should it die then, the bytes are not paid for.         *)
Sound == crashes = 0 \/ "shrink" \notin marks
Grows ==
  "shrink" \notin marks =>
    \A c \in Callers : call[c].pc = "put" => Bytes(call[c].old) <= call[c].new

LedgerInv ==
  /\ UsageInv
  /\ CallsInv
  /\ Grows
  /\ Apart => /\ OnePerFile
              /\ AsFound
              /\ Sound => Charged <= used
              /\ crashes = 0 /\ expiries = 0 => used = Charged /\ objects = Itemized

-----------------------------------------------------------------------------
(* What a path is charged.                                                 *)

(* The only call under way on a path determines its charge.                *)
LEMMA ChargeHeld ==
  ASSUME NEW cs, NEW sizes, OneIn(cs), NEW c \in Callers, NEW f \in Files, cs[c].file = f
  PROVE  ChargeAt(cs, sizes, f) = BytesOf(cs[c]) /\ ItemsAt(cs, sizes, f) = ItemsOf(cs[c])
<1>1. HeldIn(cs, f)
  BY DEF HeldIn
<1>2. HolderIn(cs, f) \in Callers /\ cs[HolderIn(cs, f)].file = f
  BY DEF HolderIn
<1>3. HolderIn(cs, f) = c
  BY <1>2, FileAssumption DEF OneIn
<1>4. QED BY <1>1, <1>3 DEF ChargeAt, ItemsAt

(* With no call there, its object does.                                    *)
LEMMA ChargeFree ==
  ASSUME NEW cs, NEW sizes, NEW f \in Files, \A c \in Callers : cs[c].file # f
  PROVE  ChargeAt(cs, sizes, f) = Bytes(sizes[f]) /\ ItemsAt(cs, sizes, f) = One(sizes[f])
BY DEF ChargeAt, ItemsAt, HeldIn

(* What happens on one path does not matter to the others.                 *)
LEMMA ChargeElsewhere ==
  ASSUME NEW cs, NEW sizes, NEW cs2, NEW sizes2, OneIn(cs), OneIn(cs2), NEW f \in Files,
         \A c \in Callers : \/ cs2[c] = cs[c]
                            \/ cs[c].file \in {f, NoFile} /\ cs2[c].file \in {f, NoFile},
         NEW g \in Files, g # f, sizes2[g] = sizes[g]
  PROVE  /\ ChargeAt(cs2, sizes2, g) = ChargeAt(cs, sizes, g)
         /\ ItemsAt(cs2, sizes2, g) = ItemsAt(cs, sizes, g)
<1>1. \A c \in Callers : cs2[c].file = g \/ cs[c].file = g => cs2[c] = cs[c]
  BY FileAssumption
<1>2. CASE \E c \in Callers : cs[c].file = g
  <2>1. PICK c \in Callers : cs[c].file = g /\ cs2[c] = cs[c]
    BY <1>1, <1>2
  <2>2. cs2[c].file = g
    BY <2>1
  <2>3. QED BY <2>1, <2>2, ChargeHeld
<1>3. CASE \A c \in Callers : cs[c].file # g
  <2>1. \A c \in Callers : cs2[c].file # g
    BY <1>1, <1>3
  <2>2. QED BY <1>3, <2>1, ChargeFree
<1>4. QED BY <1>2, <1>3

(* Charges are numbers, and none is below zero.                            *)
LEMMA ChargeTypes ==
  ASSUME NEW cs \in [Callers -> CallState],
         NEW sizes \in [Files -> 0..MaxSize \union {Absent}], NEW f \in Files
  PROVE  ChargeAt(cs, sizes, f) \in Nat /\ ItemsAt(cs, sizes, f) \in {0, 1}
<1>1. \A old \in 0..MaxSize \union {Absent} : Bytes(old) \in Nat /\ One(old) \in {0, 1}
  BY SizeAssumption DEF Bytes, One
<1>2. \A k \in CallState : BytesOf(k) \in Nat /\ ItemsOf(k) \in {0, 1}
  <2> SUFFICES ASSUME NEW k \in CallState
               PROVE  BytesOf(k) \in Nat /\ ItemsOf(k) \in {0, 1}
    OBVIOUS
  <2>1. k.new \in Nat /\ k.old \in 0..MaxSize \union {Absent}
    BY SizeAssumption DEF CallState
  <2>2. QED BY <1>1, <2>1 DEF BytesOf, ItemsOf
<1>3. HeldIn(cs, f) => HolderIn(cs, f) \in Callers
  BY DEF HeldIn, HolderIn
<1>4. QED BY <1>1, <1>2, <1>3 DEF ChargeAt, ItemsAt

(* Only calls on f move.                                                   *)
OnlyOn(f) ==
  \A c \in Callers : \/ call'[c] = call[c]
                     \/ call[c].file \in {f, NoFile} /\ call'[c].file \in {f, NoFile}

(* The sums move with the one path a step is about.                        *)
LEMMA SumsMove ==
  ASSUME TypeOK, TypeOK', OnePerFile, OnePerFile', NEW f \in Files,
         OnlyOn(f), \A g \in Files \ {f} : size'[g] = size[g]
  PROVE  /\ Charged \in Int /\ Itemized \in Int
         /\ Charged' = Charged + ChargeAt(call', size', f) - ChargeAt(call, size, f)
         /\ Itemized' = Itemized + ItemsAt(call', size', f) - ItemsAt(call, size, f)
<1> DEFINE after == [g \in Files |-> ChargeAt(call', size', g)]
           items == [g \in Files |-> ItemsAt(call', size', g)]
<1>1. Charged' = SumOf(after, Files) /\ Itemized' = SumOf(items, Files)
  BY DEF Charged, Itemized, Charge, Items
<1>2. Charge \in [Files -> Int] /\ Items \in [Files -> Int]
  BY ChargeTypes DEF Charge, Items, TypeOK
<1>3. after \in [Files -> Int] /\ items \in [Files -> Int]
  BY ChargeTypes DEF TypeOK
<1>4. \A g \in Files \ {f} : Charge[g] = after[g] /\ Items[g] = items[g]
  BY ChargeElsewhere DEF Charge, Items, OnePerFile, OnlyOn
<1>5. Charge[f] = ChargeAt(call, size, f) /\ Items[f] = ItemsAt(call, size, f)
  BY DEF Charge, Items
<1>6. after[f] = ChargeAt(call', size', f) /\ items[f] = ItemsAt(call', size', f)
  OBVIOUS
<1> HIDE DEF after, items
<1>7. /\ SumOf(after, Files) = SumOf(Charge, Files) + after[f] - Charge[f]
      /\ SumOf(items, Files) = SumOf(Items, Files) + items[f] - Items[f]
  BY <1>2, <1>3, <1>4, SumChange, FileAssumption
<1>8. Charged \in Int /\ Itemized \in Int
  BY <1>2, SumMonotone, FileAssumption DEF Charged, Itemized
<1>9. QED BY <1>1, <1>5, <1>6, <1>7, <1>8 DEF Charged, Itemized

-----------------------------------------------------------------------------
(* The steps of a call.                                                    *)

(* c is in the state k, and the other calls are as they were.              *)
Becomes(c, k) == \A d \in Callers : call'[d] = IF d = c THEN k ELSE call[d]

Looked(pc, f, n) == [pc |-> pc, file |-> f, new |-> n, old |-> size[f]]
Advanced(c, pc) == [call[c] EXCEPT !.pc = pc]

(* Which state a step leads its call to.                                   *)
LEMMA CallSteps ==
  ASSUME TypeOK, NEW c \in Callers
  PROVE  /\ \A f \in Files, n \in Sizes :
              WriteStat(c, f, n) => Becomes(c, Looked("adjust", f, n))
         /\ \A f \in Files : DeleteStat(c, f) => Becomes(c, Looked("remove", f, 0))
         /\ WriteAdjust(c) => IF Refused(Delta(c)) THEN Becomes(c, NoCall)
                              ELSE Becomes(c, Advanced(c, "put"))
         /\ DeleteRemove(c) => Becomes(c, Advanced(c, "refund"))
         /\ WritePut(c) \/ DeleteRefund(c) \/ Crash(c) => Becomes(c, NoCall)
<1>1. call \in [Callers -> CallState]
  BY DEF TypeOK
<1>2. ASSUME NEW k, call' = [call EXCEPT ![c] = k]
      PROVE  Becomes(c, k)
  BY <1>1, <1>2 DEF Becomes
<1>3. \A pc : call' = [call EXCEPT ![c].pc = pc] => Becomes(c, Advanced(c, pc))
  BY <1>1 DEF Becomes, Advanced
<1>4. \A f \in Files, n \in Sizes :
        WriteStat(c, f, n) => Becomes(c, Looked("adjust", f, n))
  BY <1>2 DEF WriteStat, Looked
<1>5. \A f \in Files : DeleteStat(c, f) => Becomes(c, Looked("remove", f, 0))
  BY <1>2 DEF DeleteStat, Looked
<1>6. WriteAdjust(c) => IF Refused(Delta(c)) THEN Becomes(c, NoCall)
                        ELSE Becomes(c, Advanced(c, "put"))
  BY <1>2, <1>3 DEF WriteAdjust
<1>7. DeleteRemove(c) => Becomes(c, Advanced(c, "refund"))
  BY <1>3 DEF DeleteRemove
<1>8. WritePut(c) \/ DeleteRefund(c) \/ Crash(c) => Becomes(c, NoCall)
  BY <1>2 DEF WritePut, DeleteRefund, Crash
<1>9. QED BY <1>4, <1>5, <1>6, <1>7, <1>8

(* The fields of these states.                                             *)
LEMMA StateFields ==
  ASSUME TypeOK, NEW c \in Callers
  PROVE  /\ call[c] \in CallState
         /\ NoCall.pc = "idle" /\ NoCall.file = NoFile
         /\ \A pc, f, n : /\ Looked(pc, f, n).pc = pc /\ Looked(pc, f, n).file = f
                          /\ Looked(pc, f, n).new = n /\ Looked(pc, f, n).old = size[f]
         /\ \A pc : /\ Advanced(c, pc).pc = pc /\ Advanced(c, pc).file = call[c].file
                    /\ Advanced(c, pc).new = call[c].new
                    /\ Advanced(c, pc).old = call[c].old
<1>1. call[c] \in CallState
  BY DEF TypeOK
<1>2. \A pc : /\ Advanced(c, pc).pc = pc /\ Advanced(c, pc).file = call[c].file
              /\ Advanced(c, pc).new = call[c].new /\ Advanced(c, pc).old = call[c].old
  BY <1>1 DEF Advanced, CallState
<1>3. QED BY <1>1, <1>2 DEF NoCall, Looked

(* A call that begins on a path where another is under way marks that.     *)
LEMMA BeginMarks ==
  ASSUME TypeOK, NEW c \in Callers, NEW f \in Files, Begin(c, f)
  PROVE  /\ call[c].pc = "idle"
         /\ marks \subseteq marks'
         /\ Apart' => \A d \in Callers : call[d].file # f
BY DEF Begin, Apart

(* CallsInv and Grows are kept: an adjustment that lowers the usage leaves *)
(* its mark.                                                               *)
LEMMA CallsKept ==
  ASSUME TypeOK, CallsInv, Grows, NEW c \in Callers, CallStep(c)
  PROVE  CallsInv' /\ Grows'
<1>1. \A d \in Callers : call[d] \in CallState
  BY DEF TypeOK
<1>2. CallsInv' <=> \A d \in Callers :
        /\ call'[d].pc = "idle" => call'[d] = NoCall
        /\ call'[d].pc # "idle" => call'[d].file \in Files
        /\ call'[d].pc \in {"remove", "refund"} => call'[d].old # Absent
  BY DEF CallsInv, NoCall, Absent
<1>3. Grows' <=> ("shrink" \notin marks' =>
        \A d \in Callers : call'[d].pc = "put" => Bytes(call'[d].old) <= call'[d].new)
  BY DEF Grows, Bytes, Absent
<1>4. ASSUME NEW f \in Files, NEW n \in Sizes, WriteStat(c, f, n)
      PROVE  CallsInv' /\ Grows'
  <2> DEFINE k == Looked("adjust", f, n)
  <2>1. Becomes(c, k)
    BY <1>4, CallSteps
  <2>2. marks \subseteq marks'
    BY <1>4, BeginMarks DEF WriteStat
  <2>3. k.pc = "adjust" /\ k.file \in Files
    BY DEF Looked
  <2> HIDE DEF k
  <2>4. QED BY <1>2, <1>3, <2>1, <2>2, <2>3 DEF Becomes, CallsInv, Grows
<1>5. ASSUME NEW f \in Files, DeleteStat(c, f)
      PROVE  CallsInv' /\ Grows'
  <2> DEFINE k == Looked("remove", f, 0)
  <2>1. Becomes(c, k) /\ size[f] # Absent
    BY <1>5, CallSteps DEF DeleteStat
  <2>2. marks \subseteq marks'
    BY <1>5, BeginMarks DEF DeleteStat
  <2>3. k.pc = "remove" /\ k.file \in Files /\ k.old # Absent
    BY <2>1 DEF Looked
  <2> HIDE DEF k
  <2>4. QED BY <1>2, <1>3, <2>1, <2>2, <2>3 DEF Becomes, CallsInv, Grows
<1>6. CASE WriteAdjust(c)
  <2>1. marks \subseteq marks' /\ (Delta(c) < 0 => "shrink" \in marks')
    BY <1>6 DEF WriteAdjust
  <2>2. CASE Refused(Delta(c))
    <3>1. Becomes(c, NoCall)
      BY <1>6, <2>2, CallSteps
    <3>2. QED BY <1>2, <1>3, <2>1, <3>1, StateFields DEF Becomes, CallsInv, Grows
  <2>3. CASE ~Refused(Delta(c))
    <3>1. Becomes(c, Advanced(c, "put")) /\ call[c].pc = "adjust"
      BY <1>6, <2>3, CallSteps DEF WriteAdjust
    <3>2. "shrink" \notin marks' => Bytes(call[c].old) <= call[c].new
      <4>1. Bytes(call[c].old) \in Int /\ call[c].new \in Int
        BY <1>1, SizeAssumption DEF CallState, Bytes, Absent
      <4>2. QED BY <2>1, <4>1 DEF Delta
    <3>3. QED BY <1>2, <1>3, <2>1, <3>1, <3>2, StateFields DEF Becomes, CallsInv, Grows
  <2>4. QED BY <2>2, <2>3
<1>7. CASE DeleteRemove(c)
  <2>1. Becomes(c, Advanced(c, "refund")) /\ call[c].pc = "remove" /\ marks' = marks
    BY <1>7, CallSteps DEF DeleteRemove
  <2>2. QED BY <1>2, <1>3, <2>1, StateFields DEF Becomes, CallsInv, Grows
<1>8. CASE WritePut(c) \/ DeleteRefund(c) \/ Crash(c)
  <2>1. Becomes(c, NoCall) /\ marks' = marks
    BY <1>8, CallSteps DEF WritePut, DeleteRefund, Crash
  <2>2. QED BY <1>2, <1>3, <2>1, StateFields DEF Becomes, CallsInv, Grows
<1>9. QED BY <1>4, <1>5, <1>6, <1>7, <1>8 DEF CallStep

(* While calls on one path do not overlap, there is one call to a path,    *)
(* and only the lifecycle rule changes the object between its steps.       *)
LEMMA ApartKept ==
  ASSUME TypeOK, CallsInv, Apart => OnePerFile /\ AsFound, NEW c \in Callers,
         CallStep(c), Apart'
  PROVE  Apart /\ OnePerFile' /\ AsFound'
<1>1. Apart /\ OnePerFile /\ AsFound /\ OneIn(call) /\ expiries' = expiries
  <2>1. marks \subseteq marks' /\ expiries' = expiries
    BY DEF CallStep, WriteStat, WriteAdjust, WritePut, DeleteStat, DeleteRemove, DeleteRefund,
       Crash, Begin
  <2>2. QED BY <2>1 DEF Apart, OnePerFile
<1>2. size \in [Files -> 0..MaxSize \union {Absent}]
  BY DEF TypeOK
<1>3. AsFound' <=> \A d \in Callers : call'[d].pc # "idle" =>
        /\ size'[call'[d].file] \in {call'[d].old, Absent}
        /\ call'[d].pc = "refund" => size'[call'[d].file] = Absent
        /\ call'[d].pc # "refund" /\ expiries' = 0 => size'[call'[d].file] = call'[d].old
  BY DEF AsFound, Absent
<1>4. OnePerFile' <=> OneIn(call')
  BY DEF OnePerFile
<1>5. ASSUME NEW pc \in {"adjust", "remove"}, NEW f \in Files, NEW n, Begin(c, f),
             Becomes(c, Looked(pc, f, n)), UNCHANGED size
      PROVE  OnePerFile' /\ AsFound'
  <2> DEFINE k == Looked(pc, f, n)
  <2>1. k.pc = pc /\ k.file = f /\ k.old = size[f]
    BY DEF Looked
  <2>2. \A d \in Callers : call[d].file # f
    BY <1>5, BeginMarks
  <2>3. Becomes(c, k)
    BY <1>5
  <2> HIDE DEF k
  <2>4. OneIn(call')
    BY <1>1, <2>1, <2>2, <2>3 DEF OneIn, Becomes
  <2>5. AsFound'
    BY <1>1, <1>3, <1>5, <2>1, <2>3 DEF AsFound, Becomes
  <2>6. QED BY <1>4, <2>4, <2>5
<1>6. ASSUME NEW k, Becomes(c, k), call[c].pc # "idle",
             k.file = call[c].file /\ k.old = call[c].old /\ k.pc # "idle",
             UNCHANGED size, k.pc # "refund", call[c].pc # "refund"
      PROVE  OnePerFile' /\ AsFound'
  <2>1. OneIn(call')
    BY <1>1, <1>6 DEF OneIn, Becomes
  <2>2. AsFound'
    BY <1>1, <1>3, <1>6 DEF AsFound, Becomes
  <2>3. QED BY <1>4, <2>1, <2>2
<1>7. ASSUME Becomes(c, NoCall), call[c].pc # "idle",
             \A f \in Files : f # call[c].file => size'[f] = size[f]
      PROVE  OnePerFile' /\ AsFound'
  <2>1. NoCall.pc = "idle" /\ NoCall.file = NoFile
    BY DEF NoCall
  <2>2. OneIn(call')
    BY <1>1, <1>7, <2>1 DEF OneIn, Becomes
  <2>3. \A d \in Callers : call[d].pc # "idle" /\ d # c =>
          call[d].file \in Files /\ call[d].file # call[c].file
    BY <1>1, <1>7, FileAssumption DEF CallsInv, OneIn
  <2>4. AsFound'
    BY <1>1, <1>3, <1>7, <2>1, <2>3 DEF AsFound, Becomes
  <2>5. QED BY <1>4, <2>2, <2>4
<1>8. ASSUME NEW f \in Files, NEW n \in Sizes, WriteStat(c, f, n)
      PROVE  OnePerFile' /\ AsFound'
  BY <1>5, <1>8, CallSteps DEF WriteStat
<1>9. ASSUME NEW f \in Files, DeleteStat(c, f)
      PROVE  OnePerFile' /\ AsFound'
  BY <1>5, <1>9, CallSteps DEF DeleteStat
<1>10. CASE WriteAdjust(c)
  <2>1. call[c].pc = "adjust" /\ UNCHANGED size
    BY <1>10 DEF WriteAdjust
  <2>2. CASE Refused(Delta(c))
    BY <1>1, <1>7, <1>10, <2>1, <2>2, CallSteps
  <2>3. CASE ~Refused(Delta(c))
    BY <1>1, <1>6, <1>10, <2>1, <2>3, CallSteps, StateFields
  <2>4. QED BY <2>2, <2>3
<1>11. CASE DeleteRemove(c)
  <2> DEFINE k == Advanced(c, "refund")
  <2>1. /\ call[c].pc = "remove" /\ Becomes(c, k)
        /\ size' = [size EXCEPT ![call[c].file] = Absent]
    BY <1>11, CallSteps DEF DeleteRemove
  <2>2. k.file = call[c].file /\ k.old = call[c].old /\ k.pc = "refund"
    BY StateFields
  <2> HIDE DEF k
  <2>3. OneIn(call')
    BY <1>1, <2>1, <2>2 DEF OneIn, Becomes
  <2>4. \A d \in Callers : call[d].pc # "idle" /\ d # c =>
          call[d].file \in Files /\ call[d].file # call[c].file
    BY <1>1, <2>1, FileAssumption DEF CallsInv, OneIn
  <2>5. call[c].file \in Files
    BY <2>1 DEF CallsInv
  <2>6. \A f \in Files : size'[f] = IF f = call[c].file THEN Absent ELSE size[f]
    BY <1>2, <2>1
  <2>7. AsFound'
    BY <1>1, <1>3, <2>1, <2>2, <2>4, <2>5, <2>6 DEF AsFound, Becomes
  <2>8. QED BY <1>1, <1>4, <2>3, <2>7
<1>12. CASE WritePut(c) \/ DeleteRefund(c) \/ Crash(c)
  <2>1. call[c].pc # "idle" /\ \A f \in Files : f # call[c].file => size'[f] = size[f]
    BY <1>2, <1>12 DEF WritePut, DeleteRefund, Crash
  <2>2. QED BY <1>1, <1>7, <1>12, <2>1, CallSteps
<1>13. QED BY <1>1, <1>8, <1>9, <1>10, <1>11, <1>12 DEF CallStep

-----------------------------------------------------------------------------
(* The balance.                                                            *)

(* A step about f raises the charge of f by no more than the usage, and by *)
(* as much as the usage where nothing dies or expires.                     *)
Settles(f) ==
  /\ OnlyOn(f)
  /\ \A g \in Files \ {f} : size'[g] = size[g]
  /\ Sound' => ChargeAt(call', size', f) - ChargeAt(call, size, f) <= used' - used
  /\ crashes' = 0 /\ expiries' = 0 =>
       /\ ChargeAt(call', size', f) - ChargeAt(call, size, f) = used' - used
       /\ ItemsAt(call', size', f) - ItemsAt(call, size, f) = objects' - objects

(* What a call is charged for, by its step.                                *)
LEMMA ChargeByStep ==
  /\ \A k : k.pc = "put" => BytesOf(k) = k.new /\ ItemsOf(k) = 1
  /\ \A k : k.pc # "put" => BytesOf(k) = Bytes(k.old) /\ ItemsOf(k) = One(k.old)
  /\ Bytes(Absent) = 0 /\ One(Absent) = 0
  /\ \A n \in 0..MaxSize : Bytes(n) = n /\ One(n) = 1 /\ n # Absent
BY SizeAssumption DEF BytesOf, ItemsOf, Bytes, One, Absent

(* Beginning: what the call found is what is stored.                       *)
LEMMA BeginSettles ==
  ASSUME TypeOK, OnePerFile, OnePerFile', Apart', NEW c \in Callers, NEW f \in Files,
         NEW n, NEW pc \in {"adjust", "remove"},
         Begin(c, f), Becomes(c, Looked(pc, f, n)), CallsInv,
         UNCHANGED <<size, used, objects>>
  PROVE  Settles(f)
<1> DEFINE k == Looked(pc, f, n)
<1>1. k.pc = pc /\ k.file = f /\ k.old = size[f] /\ k.pc # "put"
  BY DEF Looked
<1>2. Becomes(c, k) /\ call[c].file = NoFile
  BY DEF Begin, CallsInv, NoCall
<1>3. \A d \in Callers : call[d].file # f
  BY BeginMarks
<1> HIDE DEF k
<1>4. call'[c] = k
  BY <1>2 DEF Becomes
<1>5. ChargeAt(call', size', f) = Bytes(size[f]) /\ ItemsAt(call', size', f) = One(size[f])
  <2>1. OneIn(call') /\ call'[c].file = f
    BY <1>1, <1>4 DEF OnePerFile
  <2>2. ChargeAt(call', size', f) = BytesOf(k) /\ ItemsAt(call', size', f) = ItemsOf(k)
    BY <1>4, <2>1, ChargeHeld
  <2>3. QED BY <1>1, <2>2, ChargeByStep
<1>6. ChargeAt(call, size, f) = Bytes(size[f]) /\ ItemsAt(call, size, f) = One(size[f])
  BY <1>3, ChargeFree
<1>7. Bytes(size[f]) \in Int /\ One(size[f]) \in Int /\ used \in Int /\ objects \in Int
  BY SizeAssumption DEF TypeOK, Bytes, One, Absent
<1>8. OnlyOn(f)
  BY <1>1, <1>2, <1>4 DEF OnlyOn, Becomes
<1>9. QED BY <1>5, <1>6, <1>7, <1>8 DEF Settles

(* Ending: what is stored is what the path is charged then.                *)
LEMMA EndCharge ==
  ASSUME TypeOK, OnePerFile, OnePerFile', NEW c \in Callers, NEW f \in Files,
         call[c].file = f, Becomes(c, NoCall)
  PROVE  /\ ChargeAt(call, size, f) = BytesOf(call[c])
         /\ ItemsAt(call, size, f) = ItemsOf(call[c])
         /\ ChargeAt(call', size', f) = Bytes(size'[f])
         /\ ItemsAt(call', size', f) = One(size'[f])
         /\ OnlyOn(f)
<1>1. NoCall.file = NoFile
  BY DEF NoCall
<1>2. \A d \in Callers : call'[d].file # f
  BY <1>1, FileAssumption DEF Becomes, OnePerFile, OneIn
<1>3. ChargeAt(call, size, f) = BytesOf(call[c]) /\ ItemsAt(call, size, f) = ItemsOf(call[c])
  BY ChargeHeld DEF OnePerFile
<1>4. ChargeAt(call', size', f) = Bytes(size'[f]) /\ ItemsAt(call', size', f) = One(size'[f])
  BY <1>2, ChargeFree
<1>5. OnlyOn(f)
  BY <1>1 DEF OnlyOn, Becomes
<1>6. QED BY <1>3, <1>4, <1>5

(* Going on: the call is charged for its new step.                         *)
LEMMA AdvanceCharge ==
  ASSUME TypeOK, OnePerFile, OnePerFile', NEW c \in Callers, NEW f \in Files,
         call[c].file = f, NEW k, Becomes(c, k), k.file = f
  PROVE  /\ ChargeAt(call, size, f) = BytesOf(call[c])
         /\ ItemsAt(call, size, f) = ItemsOf(call[c])
         /\ ChargeAt(call', size', f) = BytesOf(k)
         /\ ItemsAt(call', size', f) = ItemsOf(k)
         /\ OnlyOn(f)
<1>1. ChargeAt(call, size, f) = BytesOf(call[c]) /\ ItemsAt(call, size, f) = ItemsOf(call[c])
  BY ChargeHeld DEF OnePerFile
<1>2. OneIn(call') /\ call'[c] = k
  BY DEF OnePerFile, Becomes
<1>3. ChargeAt(call', size', f) = BytesOf(k) /\ ItemsAt(call', size', f) = ItemsOf(k)
  BY <1>2, ChargeHeld
<1>4. OnlyOn(f)
  BY DEF OnlyOn, Becomes
<1>5. QED BY <1>1, <1>3, <1>4

(* The steps of a call settle.                                             *)
LEMMA StepSettles ==
  ASSUME TypeOK, CallsInv, Grows, OnePerFile, AsFound, OnePerFile', Apart',
         NEW c \in Callers, CallStep(c)
  PROVE  \E f \in Files : Settles(f)
<1> DEFINE f == call[c].file
           old == call[c].old
           new == call[c].new
<1>1. /\ used \in Int /\ objects \in Int /\ crashes \in Nat
      /\ call[c] \in CallState /\ size \in [Files -> 0..MaxSize \union {Absent}]
  BY BoundAssumption DEF TypeOK
<1>2. new \in 0..MaxSize /\ new \in Int /\ old \in 0..MaxSize \union {Absent}
      /\ Bytes(old) \in Nat /\ One(old) \in {0, 1}
  BY <1>1, SizeAssumption DEF CallState, Bytes, One
<1>3. call[c].pc # "idle" =>
        /\ f \in Files
        /\ size[f] \in {old, Absent}
        /\ call[c].pc = "refund" => size[f] = Absent
        /\ call[c].pc # "refund" /\ expiries = 0 => size[f] = old
        /\ call[c].pc \in {"remove", "refund"} => old # Absent
  BY DEF CallsInv, AsFound
<1>4. ASSUME NEW g \in Files, NEW n \in Sizes, WriteStat(c, g, n)
      PROVE  Settles(g)
  BY <1>4, CallSteps, BeginSettles DEF WriteStat
<1>5. ASSUME NEW g \in Files, DeleteStat(c, g)
      PROVE  Settles(g)
  BY <1>5, CallSteps, BeginSettles DEF DeleteStat
<1>6. CASE WriteAdjust(c) /\ Refused(Delta(c))
  <2>1. /\ call[c].pc = "adjust" /\ Becomes(c, NoCall)
        /\ UNCHANGED <<size, used, objects, crashes, expiries>>
    BY <1>6, CallSteps DEF WriteAdjust
  <2>2. f \in Files
    BY <1>3, <2>1
  <2>3. /\ ChargeAt(call, size, f) = Bytes(old) /\ ItemsAt(call, size, f) = One(old)
        /\ ChargeAt(call', size', f) = Bytes(size[f]) /\ ItemsAt(call', size', f) = One(size[f])
        /\ OnlyOn(f)
    BY <2>1, <2>2, EndCharge, ChargeByStep
  <2>4. Bytes(size[f]) <= Bytes(old) /\ Bytes(size[f]) \in Nat
    BY <1>2, <1>3, <2>1, ChargeByStep
  <2>5. expiries = 0 => size[f] = old
    BY <1>3, <2>1
  <2> HIDE DEF f, old, new
  <2>6. Settles(f)
    BY <1>1, <1>2, <2>1, <2>3, <2>4, <2>5 DEF Settles
  <2>7. QED BY <2>2, <2>6
<1>7. CASE WriteAdjust(c) /\ ~Refused(Delta(c))
  <2> DEFINE k == Advanced(c, "put")
  <2>1. /\ call[c].pc = "adjust" /\ Becomes(c, k) /\ UNCHANGED <<size, crashes, expiries>>
        /\ used' = used + Delta(c) /\ objects' = objects + IF old = Absent THEN 1 ELSE 0
    BY <1>7, CallSteps DEF WriteAdjust, Adjust
  <2>2. f \in Files /\ k.pc = "put" /\ k.file = f /\ k.new = new
    BY <1>3, <2>1, StateFields
  <2> HIDE DEF k
  <2>3. /\ ChargeAt(call, size, f) = Bytes(old) /\ ItemsAt(call, size, f) = One(old)
        /\ ChargeAt(call', size', f) = new /\ ItemsAt(call', size', f) = 1
        /\ OnlyOn(f)
    BY <2>1, <2>2, AdvanceCharge, ChargeByStep
  <2>4. used' = used + (new - Bytes(old)) /\ objects' = objects + (1 - One(old))
    BY <1>1, <2>1 DEF Delta, One
  <2> HIDE DEF f, old, new
  <2>5. used' - used = new - Bytes(old) /\ objects' - objects = 1 - One(old)
    BY <1>1, <1>2, <2>4
  <2>6. Settles(f)
    BY <1>2, <2>1, <2>3, <2>5 DEF Settles
  <2>7. QED BY <2>2, <2>6
<1>8. CASE WritePut(c)
  <2>1. /\ call[c].pc = "put" /\ Becomes(c, NoCall) /\ UNCHANGED <<used, objects>>
        /\ size' = [size EXCEPT ![f] = new]
    BY <1>8, CallSteps DEF WritePut
  <2>2. f \in Files /\ size'[f] = new /\ \A g \in Files \ {f} : size'[g] = size[g]
    BY <1>1, <1>3, <2>1
  <2>3. /\ ChargeAt(call, size, f) = new /\ ItemsAt(call, size, f) = 1
        /\ ChargeAt(call', size', f) = Bytes(new) /\ ItemsAt(call', size', f) = One(new)
        /\ OnlyOn(f)
    BY <2>1, <2>2, EndCharge, ChargeByStep
  <2>4. Bytes(new) = new /\ One(new) = 1
    BY <1>2, ChargeByStep
  <2> HIDE DEF f, old, new
  <2>5. Settles(f)
    BY <1>1, <1>2, <2>1, <2>2, <2>3, <2>4 DEF Settles
  <2>6. QED BY <2>2, <2>5
<1>9. CASE DeleteRemove(c)
  <2> DEFINE k == Advanced(c, "refund")
  <2>1. /\ call[c].pc = "remove" /\ Becomes(c, k) /\ UNCHANGED <<used, objects>>
        /\ size' = [size EXCEPT ![f] = Absent]
    BY <1>9, CallSteps DEF DeleteRemove
  <2>2. f \in Files /\ k.pc = "refund" /\ k.file = f /\ k.old = old
        /\ \A g \in Files \ {f} : size'[g] = size[g]
    BY <1>1, <1>3, <2>1, StateFields
  <2> HIDE DEF k
  <2>3. /\ ChargeAt(call, size, f) = Bytes(old) /\ ItemsAt(call, size, f) = One(old)
        /\ ChargeAt(call', size', f) = Bytes(old) /\ ItemsAt(call', size', f) = One(old)
        /\ OnlyOn(f)
    <3>1. BytesOf(k) = Bytes(old) /\ ItemsOf(k) = One(old)
      BY <2>2, ChargeByStep
    <3>2. BytesOf(call[c]) = Bytes(old) /\ ItemsOf(call[c]) = One(old)
      BY <2>1, ChargeByStep
    <3>3. QED BY <2>1, <2>2, <3>1, <3>2, AdvanceCharge
  <2> HIDE DEF f, old, new
  <2>4. Settles(f)
    BY <1>1, <1>2, <2>1, <2>2, <2>3 DEF Settles
  <2>5. QED BY <2>2, <2>4
<1>10. CASE DeleteRefund(c)
  <2>1. /\ call[c].pc = "refund" /\ Becomes(c, NoCall) /\ UNCHANGED size
        /\ used' = used + -Bytes(old) /\ objects' = objects + -1
    BY <1>10, CallSteps DEF DeleteRefund, Adjust
  <2>2. f \in Files /\ size'[f] = Absent /\ One(old) = 1
    BY <1>2, <1>3, <2>1, ChargeByStep
  <2>3. /\ ChargeAt(call, size, f) = Bytes(old) /\ ItemsAt(call, size, f) = 1
        /\ ChargeAt(call', size', f) = 0 /\ ItemsAt(call', size', f) = 0
        /\ OnlyOn(f)
    BY <2>1, <2>2, EndCharge, ChargeByStep
  <2> HIDE DEF f, old, new
  <2>4. used' - used = 0 - Bytes(old) /\ objects' - objects = 0 - 1
    BY <1>1, <1>2, <2>1
  <2>5. Settles(f)
    BY <1>2, <2>1, <2>3, <2>4 DEF Settles
  <2>6. QED BY <2>2, <2>5
<1>11. CASE Crash(c)
  <2>1. /\ call[c].pc # "idle" /\ Becomes(c, NoCall)
        /\ UNCHANGED <<size, used, objects, marks>> /\ crashes' = crashes + 1
    BY <1>11, CallSteps DEF Crash
  <2>2. f \in Files
    BY <1>3, <2>1
  <2>3. /\ ChargeAt(call, size, f) = BytesOf(call[c])
        /\ ChargeAt(call', size', f) = Bytes(size[f])
        /\ OnlyOn(f)
    BY <2>1, <2>2, EndCharge
  <2>4. Bytes(size[f]) <= Bytes(old) /\ Bytes(size[f]) \in Nat
    BY <1>2, <1>3, <2>1, ChargeByStep
  <2>5. crashes' # 0 /\ (Sound' => "shrink" \notin marks)
    BY <1>1, <2>1 DEF Sound
  <2>6. Sound' => Bytes(size[f]) <= BytesOf(call[c]) /\ BytesOf(call[c]) \in Nat
    <3>1. CASE call[c].pc = "put"
      <4>1. Sound' => Bytes(old) <= new
        BY <2>5, <3>1 DEF Grows
      <4>2. BytesOf(call[c]) = new /\ new \in Nat
        BY <1>2, <3>1, ChargeByStep
      <4> HIDE DEF f, old, new
      <4>3. QED BY <1>2, <2>4, <4>1, <4>2
    <3>2. CASE call[c].pc # "put"
      BY <1>2, <2>4, <3>2, ChargeByStep
    <3>3. QED BY <3>1, <3>2
  <2> HIDE DEF f, old, new
  <2>7. Settles(f)
    BY <1>1, <2>1, <2>3, <2>4, <2>5, <2>6 DEF Settles
  <2>8. QED BY <2>2, <2>7
<1>12. QED
  BY <1>4, <1>5, <1>6, <1>7, <1>8, <1>9, <1>10, <1>11 DEF CallStep

-----------------------------------------------------------------------------
(* The invariant.                                                          *)

(* What moves by no more than another number stays below it.               *)
LEMMA MovesBelow ==
  ASSUME NEW a \in Int, NEW b \in Int, NEW d \in Int, NEW e \in Int, a <= b, d <= e - b
  PROVE  a + d <= e
OBVIOUS

(* What moves by a difference arrives.                                     *)
LEMMA MovesTo ==
  ASSUME NEW a \in Int, NEW b \in Int
  PROVE  a + (b - a) = b
OBVIOUS

(* A step that settles keeps the balance.                                  *)
LEMMA BalanceKept ==
  ASSUME LedgerInv, TypeOK', OnePerFile', Apart, Apart', NEW f \in Files, Settles(f),
         marks \subseteq marks', crashes' \in {crashes, crashes + 1},
         expiries' \in {expiries, expiries + 1}
  PROVE  /\ Sound' => Charged' <= used'
         /\ crashes' = 0 /\ expiries' = 0 => used' = Charged' /\ objects' = Itemized'
<1> DEFINE dc == ChargeAt(call', size', f) - ChargeAt(call, size, f)
           di == ItemsAt(call', size', f) - ItemsAt(call, size, f)
<1>1. TypeOK /\ OnePerFile /\ OnlyOn(f) /\ \A g \in Files \ {f} : size'[g] = size[g]
  BY DEF LedgerInv, UsageInv, Settles
<1>2. /\ ChargeAt(call', size', f) \in Int /\ ChargeAt(call, size, f) \in Int
      /\ ItemsAt(call', size', f) \in Int /\ ItemsAt(call, size, f) \in Int
  BY <1>1, ChargeTypes DEF TypeOK
<1>3. /\ Charged \in Int /\ Itemized \in Int
      /\ Charged' = Charged + dc /\ Itemized' = Itemized + di
  BY <1>1, <1>2, SumsMove
<1>4. /\ used \in Int /\ used' \in Int /\ objects \in Int /\ objects' \in Int
      /\ crashes \in Nat /\ expiries \in Nat
  BY <1>1, BoundAssumption DEF TypeOK
<1>5. dc \in Int /\ di \in Int
  BY <1>2
<1>6. /\ Sound' => dc <= used' - used
      /\ crashes' = 0 /\ expiries' = 0 => dc = used' - used /\ di = objects' - objects
  BY DEF Settles
<1> HIDE DEF dc, di
<1>7. (crashes' = 0 => crashes = 0) /\ (expiries' = 0 => expiries = 0)
  BY <1>4
<1>8. Sound' => Sound
  BY <1>7 DEF Sound
<1>9. /\ Sound => Charged <= used
      /\ crashes = 0 /\ expiries = 0 => used = Charged /\ objects = Itemized
  BY DEF LedgerInv
<1>10. Sound' => Charged' <= used'
  <2> SUFFICES ASSUME Sound'
               PROVE  Charged' <= used'
    OBVIOUS
  <2>1. Charged <= used /\ dc <= used' - used
    BY <1>6, <1>8, <1>9
  <2>2. Charged + dc <= used'
    BY <1>3, <1>4, <1>5, <2>1, MovesBelow
  <2>3. QED BY <1>3, <2>2
<1>11. crashes' = 0 /\ expiries' = 0 => used' = Charged' /\ objects' = Itemized'
  <2> SUFFICES ASSUME crashes' = 0, expiries' = 0
               PROVE  used' = Charged' /\ objects' = Itemized'
    OBVIOUS
  <2>1. /\ used = Charged /\ objects = Itemized
        /\ dc = used' - used /\ di = objects' - objects
    BY <1>6, <1>7, <1>9
  <2>2. Charged' = used + (used' - used) /\ Itemized' = objects + (objects' - objects)
    BY <1>3, <2>1
  <2>3. QED BY <1>4, <2>2, MovesTo
<1>12. QED BY <1>10, <1>11

(* The steps of a call keep the invariant.                                 *)
LEMMA CallKeepsLedger ==
  ASSUME LedgerInv, UsageInv', NEW c \in Callers, CallStep(c)
  PROVE  LedgerInv'
<1>1. TypeOK /\ CallsInv /\ Grows /\ TypeOK' /\ (Apart => OnePerFile /\ AsFound)
  BY DEF LedgerInv, UsageInv
<1>2. CallsInv' /\ Grows'
  BY <1>1, CallsKept
<1>3. /\ marks \subseteq marks' /\ crashes' \in {crashes, crashes + 1}
      /\ expiries' \in {expiries, expiries + 1}
  BY DEF CallStep, WriteStat, WriteAdjust, WritePut, DeleteStat, DeleteRemove, DeleteRefund,
     Crash, Begin
<1>4. ASSUME Apart'
      PROVE  /\ OnePerFile' /\ AsFound'
             /\ Sound' => Charged' <= used'
             /\ crashes' = 0 /\ expiries' = 0 => used' = Charged' /\ objects' = Itemized'
  <2>1. Apart /\ OnePerFile /\ AsFound /\ OnePerFile' /\ AsFound'
    BY <1>1, <1>4, ApartKept
  <2>2. PICK f \in Files : Settles(f)
    BY <1>1, <1>4, <2>1, StepSettles
  <2>3. QED BY <1>1, <1>3, <1>4, <2>1, <2>2, BalanceKept
<1>5. QED BY <1>2, <1>4 DEF LedgerInv

(* The lifecycle rule keeps the invariant: it takes away what was paid for.*)
LEMMA ExpireKeepsLedger ==
  ASSUME LedgerInv, UsageInv', NEW f \in Files, Expire(f)
  PROVE  LedgerInv'
<1>1. /\ UNCHANGED <<used, objects, tracked, call, calls, crashes, marks>>
      /\ size' = [size EXCEPT ![f] = Absent] /\ expiries' = expiries + 1
  BY DEF Expire
<1>2. TypeOK /\ TypeOK' /\ expiries \in Nat /\ expiries' # 0
  <2>1. TypeOK /\ TypeOK' /\ expiries \in Nat
    BY BoundAssumption DEF LedgerInv, UsageInv, TypeOK
  <2>2. QED BY <1>1, <2>1
<1>3. \A g \in Files : size'[g] = IF g = f THEN Absent ELSE size[g]
  BY <1>1, <1>2 DEF TypeOK
<1>4. CallsInv' /\ Grows'
  BY <1>1 DEF LedgerInv, CallsInv, Grows
<1>5. ASSUME Apart'
      PROVE  /\ OnePerFile' /\ AsFound'
             /\ Sound' => Charged' <= used'
             /\ crashes' = 0 /\ expiries' = 0 => used' = Charged' /\ objects' = Itemized'
  <2>1. Apart /\ OnePerFile /\ AsFound
    BY <1>1, <1>5 DEF Apart, LedgerInv
  <2>2. OnePerFile' /\ OneIn(call) /\ OneIn(call')
    BY <1>1, <2>1 DEF OnePerFile
  <2>3. AsFound'
    BY <1>1, <1>2, <1>3, <2>1 DEF AsFound, LedgerInv, CallsInv
  <2>4. ChargeAt(call', size', f) <= ChargeAt(call, size, f)
    <3>1. CASE \E c \in Callers : call[c].file = f
      <4>1. ChargeAt(call', size', f) = ChargeAt(call, size, f)
        BY <1>1, <2>2, <3>1, ChargeHeld
      <4>2. ChargeAt(call, size, f) \in Nat
        BY <1>2, ChargeTypes DEF TypeOK
      <4>3. QED BY <4>1, <4>2
    <3>2. CASE \A c \in Callers : call[c].file # f
      <4>1. ChargeAt(call', size', f) = Bytes(size'[f])
        BY <1>1, <3>2, ChargeFree
      <4>2. ChargeAt(call', size', f) = 0
        BY <1>3, <4>1, ChargeByStep
      <4>3. ChargeAt(call, size, f) \in Nat
        BY <1>2, ChargeTypes DEF TypeOK
      <4>4. QED BY <4>2, <4>3
    <3>3. QED BY <3>1, <3>2
  <2>5. Settles(f)
    <3>1. OnlyOn(f)
      BY <1>1 DEF OnlyOn
    <3>2. ChargeAt(call', size', f) \in Nat /\ ChargeAt(call, size, f) \in Nat /\ used \in Int
      BY <1>2, ChargeTypes DEF TypeOK
    <3>3. ChargeAt(call', size', f) - ChargeAt(call, size, f) <= used' - used
      BY <1>1, <2>4, <3>2
    <3>4. QED BY <1>2, <1>3, <3>1, <3>3 DEF Settles
  <2>6. marks \subseteq marks' /\ crashes' \in {crashes, crashes + 1}
        /\ expiries' \in {expiries, expiries + 1}
    BY <1>1
  <2>7. QED BY <1>2, <1>5, <2>1, <2>2, <2>3, <2>5, <2>6, BalanceKept
<1>6. QED BY <1>4, <1>5 DEF LedgerInv

(* Nothing is stored, charged or under way at first.                       *)
LEMMA InitLedger ==
  ASSUME Init
  PROVE  LedgerInv
<1>1. UsageInv /\ TypeOK
  BY InitUsageInv DEF UsageInv
<1>2. /\ \A c \in Callers : call[c] = NoCall
      /\ \A f \in Files : size[f] = Absent
      /\ used = 0 /\ objects = 0
  BY DEF Init
<1>3. NoCall.pc = "idle" /\ NoCall.file = NoFile
  BY DEF NoCall
<1>4. CallsInv /\ Grows /\ OnePerFile /\ AsFound
  BY <1>2, <1>3 DEF CallsInv, Grows, OnePerFile, OneIn, AsFound
<1>5. \A f \in Files : ChargeAt(call, size, f) = 0 /\ ItemsAt(call, size, f) = 0
  <2> SUFFICES ASSUME NEW f \in Files
               PROVE  ChargeAt(call, size, f) = 0 /\ ItemsAt(call, size, f) = 0
    OBVIOUS
  <2>1. \A c \in Callers : call[c].file # f
    BY <1>2, <1>3, FileAssumption
  <2>2. ChargeAt(call, size, f) = Bytes(Absent) /\ ItemsAt(call, size, f) = One(Absent)
    BY <1>2, <2>1, ChargeFree
  <2>3. QED BY <2>2, ChargeByStep
<1>6. Charge \in [Files -> Int] /\ Items \in [Files -> Int]
      /\ \A f \in Files : Charge[f] = 0 /\ Items[f] = 0
  BY <1>5 DEF Charge, Items
<1>7. Charged = 0 /\ Itemized = 0
  BY <1>6, SumZero, FileAssumption DEF Charged, Itemized
<1>8. QED BY <1>1, <1>2, <1>4, <1>7 DEF LedgerInv

(* LedgerInv is an invariant.                                              *)
THEOREM LedgerInvariance == Spec => []LedgerInv
<1>1. LedgerInv /\ [Next]_vars => LedgerInv'
  <2> SUFFICES ASSUME LedgerInv, [Next]_vars
               PROVE  LedgerInv'
    OBVIOUS
  <2>1. UsageInv'
    BY StepUsageInv DEF LedgerInv
  <2>2. CASE UNCHANGED vars
    <3>1. UNCHANGED <<size, used, objects, tracked, call, calls, crashes, expiries, marks>>
      BY <2>2 DEF vars
    <3>2. CallsInv' /\ Grows' /\ (Apart' <=> Apart) /\ (OnePerFile' <=> OnePerFile)
          /\ (AsFound' <=> AsFound) /\ (Sound' <=> Sound)
      BY <3>1 DEF LedgerInv, CallsInv, Grows, Apart, OnePerFile, AsFound, Sound
    <3>3. Charged' = Charged /\ Itemized' = Itemized
      BY <3>1 DEF Charged, Itemized, Charge, Items
    <3>4. QED BY <2>1, <3>1, <3>2, <3>3 DEF LedgerInv
  <2>3. QED BY <2>1, <2>2, CallKeepsLedger, ExpireKeepsLedger DEF Next
<1>2. Init => LedgerInv
  BY InitLedger
<1>3. QED BY <1>1, <1>2, PTL DEF Spec

-----------------------------------------------------------------------------
(* The properties.                                                         *)

(* Between calls a path is charged what is stored there.                   *)
LEMMA IdleCharges ==
  ASSUME LedgerInv, Idle
  PROVE  Charged = Stored /\ Itemized = Cardinality(StoredFiles)
<1>1. TypeOK /\ \A c \in Callers : call[c] = NoCall
  BY DEF LedgerInv, UsageInv, CallsInv, Idle
<1>2. \A f \in Files, c \in Callers : call[c].file # f
  BY <1>1, FileAssumption DEF NoCall
<1>3. Charge = StoredBytes /\ Items = [f \in Files |-> One(size[f])]
  BY <1>2, ChargeFree DEF Charge, Items, StoredBytes
<1>4. Items \in [Files -> {0, 1}] /\ StoredFiles = {f \in Files : Items[f] = 1}
  BY <1>3 DEF StoredFiles, One
<1>5. Itemized = Cardinality(StoredFiles)
  BY <1>4, SumCounts, FileAssumption DEF Itemized
<1>6. Charged = Stored
  BY <1>3 DEF Charged, SumOf, Stored
<1>7. QED BY <1>5, <1>6

(* LedgerMatchesStorage: as long as calls on one path do not overlap and   *)
(* none dies or expires, bytes_used and objects_used are what is stored    *)
(* whenever no call is under way, for any number of callers and paths.     *)
THEOREM ScratchLedgerMatches == Spec => []LedgerMatchesStorage
<1>1. LedgerInv => LedgerMatchesStorage
  BY IdleCharges DEF LedgerInv, LedgerMatchesStorage, Apart
<1>2. QED BY <1>1, LedgerInvariance, PTL

(* SettledWithinQuota: the quota bounds the stored bytes, too, however     *)
(* many objects expire and, unless an overwrite shrinks, calls die.        *)
THEOREM ScratchSettledWithinQuota == Spec => []SettledWithinQuota
<1>1. LedgerInv => SettledWithinQuota
  <2> SUFFICES ASSUME LedgerInv, MaxSize <= Quota, Idle, Apart, Sound
               PROVE  Stored <= Quota
    BY DEF SettledWithinQuota, Apart, Sound
  <2>1. Charged <= used /\ Charged = Stored
    BY IdleCharges DEF LedgerInv
  <2>2. used <= Quota /\ used \in Int
    BY DEF LedgerInv, UsageInv, TypeOK, Ceiling
  <2>3. Charged \in Int
    BY ChargeTypes, SumMonotone, FileAssumption
    DEF Charged, Charge, LedgerInv, UsageInv, TypeOK
  <2>4. QED BY <2>1, <2>2, <2>3, QuotaAssumption
<1>2. QED BY <1>1, LedgerInvariance, PTL

(* NeverUndercharged: every byte stored is paid for at any time, between   *)
(* the steps of calls, too, since a write pays first and a delete is       *)
(* refunded last.                                                          *)
THEOREM ScratchNeverUndercharged == Spec => []NeverUndercharged
<1>1. LedgerInv => NeverUndercharged
  <2> SUFFICES ASSUME LedgerInv, marks = {}
               PROVE  Stored <= used
    BY DEF NeverUndercharged
  <2>1. TypeOK /\ Apart /\ Sound /\ OnePerFile /\ AsFound
    BY DEF LedgerInv, UsageInv, Apart, Sound
  <2>2. Charge \in [Files -> Int] /\ StoredBytes \in [Files -> Int]
    BY <2>1, ChargeTypes, SizeAssumption DEF Charge, StoredBytes, TypeOK, Bytes
  <2>3. \A f \in Files : StoredBytes[f] <= Charge[f]
    <3> SUFFICES ASSUME NEW f \in Files
                 PROVE  StoredBytes[f] <= Charge[f]
      OBVIOUS
    <3>1. CASE \A c \in Callers : call[c].file # f
      BY <2>2, <3>1, ChargeFree DEF StoredBytes, Charge
    <3>2. CASE \E c \in Callers : call[c].file = f
      <4>1. PICK c \in Callers : call[c].file = f
        BY <3>2
      <4>2. call[c].pc # "idle" /\ size[f] \in {call[c].old, Absent}
        BY <2>1, <4>1, FileAssumption DEF AsFound, LedgerInv, CallsInv, NoCall
      <4>3. call[c].new \in 0..MaxSize /\ call[c].old \in 0..MaxSize \union {Absent}
        BY <2>1 DEF TypeOK, CallState
      <4>4. Bytes(size[f]) <= Bytes(call[c].old) /\ Bytes(size[f]) \in Nat
            /\ Bytes(call[c].old) \in Nat /\ call[c].new \in Nat
        BY <4>2, <4>3, SizeAssumption DEF Bytes, Absent
      <4>5. call[c].pc = "put" => Bytes(call[c].old) <= call[c].new
        BY DEF LedgerInv, Grows
      <4>6. ChargeAt(call, size, f) = BytesOf(call[c])
        BY <2>1, <4>1, ChargeHeld DEF OnePerFile
      <4>7. Bytes(size[f]) <= BytesOf(call[c])
        BY <4>4, <4>5 DEF BytesOf
      <4>8. QED BY <4>6, <4>7 DEF StoredBytes, Charge
    <3>3. QED BY <3>1, <3>2
  <2>4. SumOf(StoredBytes, Files) <= Charged /\ SumOf(StoredBytes, Files) \in Int
        /\ Charged \in Int
    BY <2>2, <2>3, SumMonotone, FileAssumption DEF Charged
  <2>5. SumOf(StoredBytes, Files) = Stored
    BY DEF SumOf, Stored
  <2>6. Charged <= used /\ used \in Int
    BY <2>1 DEF LedgerInv, TypeOK
  <2>7. QED BY <2>4, <2>5, <2>6
<1>2. QED BY <1>1, LedgerInvariance, PTL
=============================================================================
