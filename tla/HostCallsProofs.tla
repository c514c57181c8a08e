-------------------------- MODULE HostCallsProofs --------------------------
(***************************************************************************)
(* What host functions may rely on, for every value of the constants: a    *)
(* range inside one host array stays inside one, and a copy whose source   *)
(* is such a range uses good pointers only.  The argument is about the     *)
(* bounds of the segments alone.                                           *)
(***************************************************************************)
EXTENDS HostCalls, GuestMemoryProofs, SequenceTheorems, Induction

(* The bounds of k leave room for all that those of m hold.                *)
Wider(m, k) ==
  /\ m.lowCap <= k.lowCap
  /\ m.argSize <= k.argSize
  /\ (k.upBegin <= m.upBegin /\ m.upEnd <= k.upEnd) \/ m.upEnd <= k.lowCap

SameBounds(m, k) ==
  /\ k.lowCap = m.lowCap /\ k.argSize = m.argSize
  /\ k.upBegin = m.upBegin /\ k.upEnd = m.upEnd

LEMMA BoundsNat ==
  ASSUME NEW m, Fit(m)
  PROVE  /\ m.lowCap \in Nat /\ m.argSize \in Nat
         /\ m.upBegin \in Nat /\ m.upEnd \in Nat
BY DEF Fit, Memory

LEMMA SameBoundsWider ==
  ASSUME NEW m, Fit(m), NEW k, SameBounds(m, k)
  PROVE  Wider(m, k)
BY BoundsNat DEF SameBounds, Wider

LEMMA WiderTransitive ==
  ASSUME NEW m, Fit(m), NEW k, Fit(k), NEW j, Fit(j),
         Wider(m, k), Wider(k, j)
  PROVE  Wider(m, j)
<1>1. /\ m.lowCap \in Nat /\ m.argSize \in Nat
      /\ m.upBegin \in Nat /\ m.upEnd \in Nat
      /\ k.lowCap \in Nat /\ k.argSize \in Nat
      /\ k.upBegin \in Nat /\ k.upEnd \in Nat
      /\ j.lowCap \in Nat /\ j.argSize \in Nat
      /\ j.upBegin \in Nat /\ j.upEnd \in Nat
  BY BoundsNat
<1> QED
  BY <1>1 DEF Wider

LEMMA WiderResident ==
  ASSUME NEW m, Fit(m), NEW k, Fit(k), Wider(m, k),
         NEW a \in Nat, NEW n \in Nat, Resident(m, a, n)
  PROVE  Resident(k, a, n)
<1>1. /\ m.lowCap \in Nat /\ m.argSize \in Nat
      /\ m.upBegin \in Nat /\ m.upEnd \in Nat
      /\ k.lowCap \in Nat /\ k.argSize \in Nat
      /\ k.upBegin \in Nat /\ k.upEnd \in Nat
  BY BoundsNat
<1> QED
  BY <1>1, Constants DEF Wider, Resident

LEMMA FaultWider ==
  ASSUME NEW m, Fit(m), NEW f \in Faults
  PROVE  Wider(m, Fault(m, f))
<1>1. SameBounds(m, Fault(m, f))
  BY DEF Fault, SameBounds, Fit, Memory
<1> QED
  BY <1>1, SameBoundsWider

LEMMA GrowLowerWider ==
  ASSUME NEW m, Fit(m), NEW need \in Nat
  PROVE  /\ Wider(m, GrowLower(m, need))
         /\ GrowLower(m, need).fault \in {m.fault, "alloc"}
         /\ GrowLower(m, need).fault = "alloc" \/ GrowLower(m, need).lowCap >= need
<1> DEFINE cap == GrownCap(m.lowCap, need)
           low == [x \in Addr |-> IF InLower(m, x) THEN m.low[x] ELSE 0]
           g == GrowLower(m, need)
<1>1. /\ cap \in Nat /\ cap >= m.lowCap /\ cap >= need
      /\ m.lowCap \in Nat /\ m.argSize \in Nat
      /\ m.upBegin \in Nat /\ m.upEnd \in Nat
  BY GrownCapFacts, BoundsNat DEF Fit
<1>2. CASE need <= m.lowCap
  <2>1. g = m
    BY <1>2 DEF GrowLower
  <2> QED
    BY <2>1, <1>2, <1>1, SameBoundsWider DEF SameBounds
<1>3. CASE need > m.lowCap /\ cap > MaxAlloc
  <2>1. g = Fault(m, "alloc")
    BY <1>1, <1>3 DEF GrowLower
  <2>2. g.fault = "alloc"
    BY <2>1 DEF Fault, Fit, Memory
  <2>3. Wider(m, g)
    BY <2>1, FaultWider DEF Faults
  <2> HIDE DEF g
  <2> QED
    BY <2>2, <2>3 DEF g
<1>4. CASE need > m.lowCap /\ cap <= MaxAlloc
  <2>1. g = [m EXCEPT !.lowCap = cap, !.low = low]
    BY <1>1, <1>4, Constants DEF GrowLower
  <2> HIDE DEF g, cap, low
  <2>2. /\ g.lowCap = cap /\ g.argSize = m.argSize /\ g.fault = m.fault
        /\ g.upBegin = m.upBegin /\ g.upEnd = m.upEnd
    BY <2>1 DEF Fit, Memory
  <2> QED
    BY <2>2, <1>1 DEF Wider, g
<1> QED
  BY <1>1, <1>2, <1>3, <1>4, Constants

LEMMA MergeWider ==
  ASSUME NEW m, Fit(m), Alive(m), m.upEnd # 0
  PROVE  Wider(m, Merge(m))
<1> DEFINE g == GrowLower(m, m.upEnd)
           k == Merge(m)
<1>1. /\ m.lowCap \in Nat /\ m.argSize \in Nat
      /\ m.upBegin \in Nat /\ m.upEnd \in Nat
  BY BoundsNat
<1>0. CASE m.lowCap > m.upBegin
  <2>1. k = Fault(m, "merge")
    BY <1>0 DEF Merge
  <2> QED
    BY <2>1, FaultWider DEF Faults
<1>2. /\ Wider(m, g) /\ g.fault \in {m.fault, "alloc"}
      /\ g.fault = "alloc" \/ g.lowCap >= m.upEnd
  BY <1>1, GrowLowerWider
<1>3. CASE ~(m.lowCap > m.upBegin) /\ ~Alive(g)
  <2>1. k = g
    BY <1>1, <1>3 DEF Merge
  <2> QED
    BY <2>1, <1>2
<1>4. CASE ~(m.lowCap > m.upBegin) /\ Alive(g)
  <2> DEFINE low == [x \in Addr |-> IF InUpper(m, x) THEN m.up[x]
                                    ELSE g.low[x]]
  <2>1. k = [g EXCEPT !.low = low, !.upBegin = 0, !.upEnd = 0, !.upInc = 0,
                      !.up = Zero]
    BY <1>1, <1>4 DEF Merge
  <2>2. Keeps(m, k) /\ g \in Memory
    <3>1. Keeps(m, k)
      BY MergeKeeps
    <3>2. g \in Memory
      <4>1. g = m \/ g = Fault(m, "alloc")
              \/ g = [m EXCEPT !.lowCap = GrownCap(m.lowCap, m.upEnd),
                               !.low = [x \in Addr |->
                                          IF InLower(m, x) THEN m.low[x]
                                          ELSE 0]]
        BY DEF GrowLower
      <4>2. [x \in Addr |-> IF InLower(m, x) THEN m.low[x] ELSE 0]
              \in [Addr -> Byte]
        BY Constants DEF Fit, Memory
      <4>3. GrownCap(m.lowCap, m.upEnd) \in Nat
        BY <1>1, GrownCapFacts DEF Fit
      <4> HIDE DEF g
      <4> QED
        BY <4>1, <4>2, <4>3 DEF Fit, Memory, Fault, Faults
    <3> QED
      BY <3>1, <3>2
  <2> HIDE DEF g, k, low
  <2>3. k.lowCap = g.lowCap /\ k.argSize = g.argSize
    BY <2>1, <2>2 DEF Memory
  <2>4. g.lowCap >= m.upEnd
    BY <1>2, <1>4 DEF Alive
  <2>5. g.lowCap \in Nat
    BY <2>2 DEF Memory
  <2> QED
    BY <2>3, <2>4, <2>5, <1>1, <1>2 DEF Wider, k
<1> QED
  BY <1>0, <1>3, <1>4

LEMMA GrowUpperWider ==
  ASSUME NEW m, Fit(m), NEW a \in Nat, NEW n \in Nat, NEW max \in Nat,
         m.lowCap <= a, a + n <= max
  PROVE  Wider(m, GrowUpper(m, a, n, m.lowCap, max))
<1> DEFINE first == Max2(a, m.lowCap)
           last == Min2(a + n, max)
           inc == IF m.upInc = 0 THEN FirstInc ELSE m.upInc
           begin == RoundDown(first, inc)
           end == RoundUp(last, inc)
           clipped == begin < m.lowCap \/ end > max
           newBegin == IF m.upEnd = 0 THEN Max2(begin, m.lowCap)
                       ELSE Min2(Max2(begin, m.lowCap), m.upBegin)
           newEnd == IF m.upEnd = 0 THEN Min2(end, max)
                     ELSE Max2(Min2(end, max), m.upEnd)
           newInc == IF ~clipped /\ inc < MaxInc THEN 2 * inc ELSE inc
           up == [x \in Addr |-> IF InUpper(m, x) THEN m.up[x] ELSE 0]
           k == GrowUpper(m, a, n, m.lowCap, max)
<1>1. /\ m.lowCap \in Nat /\ m.argSize \in Nat
      /\ m.upBegin \in Nat /\ m.upEnd \in Nat /\ m.upInc \in Nat
      /\ first \in Nat /\ last \in Nat
  BY DEF Fit, Memory, Max2, Min2
<1>2. begin \in Nat /\ end \in Nat
  <2>1. inc \in Nat \ {0}
    BY <1>1, Constants
  <2> HIDE DEF inc, first, last
  <2> QED
    BY <2>1, <1>1, Rounding
<1>3. /\ newBegin \in Nat /\ newEnd \in Nat
      /\ m.upEnd # 0 => newBegin <= m.upBegin /\ m.upEnd <= newEnd
  <2> HIDE DEF begin, end
  <2> QED
    BY <1>1, <1>2 DEF Max2, Min2
<1>4. \/ k = m
      \/ k = Fault(m, "empty")
      \/ k = Fault(m, "alloc")
      \/ k = [m EXCEPT !.upBegin = newBegin, !.upEnd = newEnd,
                       !.upInc = newInc, !.up = up]
  BY DEF GrowUpper
<1>5. CASE k = [m EXCEPT !.upBegin = newBegin, !.upEnd = newEnd,
                         !.upInc = newInc, !.up = up]
  <2> HIDE DEF newBegin, newEnd, newInc, up, k
  <2>1. /\ k.lowCap = m.lowCap /\ k.argSize = m.argSize
        /\ k.upBegin = newBegin /\ k.upEnd = newEnd
    BY <1>5 DEF Fit, Memory
  <2> QED
    BY <2>1, <1>1, <1>3 DEF Wider, k
<1> HIDE DEF k
<1>6. k = m \/ k = Fault(m, "empty") \/ k = Fault(m, "alloc") => Wider(m, k)
  BY FaultWider, SameBoundsWider DEF Faults, SameBounds
<1> QED
  BY <1>4, <1>5, <1>6 DEF k

LEMMA GrowArgsWider ==
  ASSUME NEW m, Fit(m), NEW need \in Nat
  PROVE  Wider(m, GrowArgs(m, need))
<1> DEFINE args == [x \in Addr |-> IF InArgs(m, x) THEN m.args[x] ELSE 0]
           k == GrowArgs(m, need)
<1>1. CASE need <= m.argSize
  BY <1>1, SameBoundsWider DEF GrowArgs, SameBounds
<1>2. CASE ~(need <= m.argSize)
  <2>1. k = [m EXCEPT !.argSize = need, !.args = args]
    BY <1>2 DEF GrowArgs
  <2> HIDE DEF k, args
  <2>2. /\ k.lowCap = m.lowCap /\ k.argSize = need
        /\ k.upBegin = m.upBegin /\ k.upEnd = m.upEnd
    BY <2>1 DEF Fit, Memory
  <2> QED
    BY <2>2, <1>2, BoundsNat DEF Wider, k
<1> QED
  BY <1>1, <1>2

LEMMA ExpandLowerWider ==
  ASSUME NEW m, Fit(m), Alive(m), NEW a \in Nat, NEW n \in Nat
  PROVE  Wider(m, ExpandLower(m, a, n).mem)
<1> DEFINE end == a + n
           meets == m.upEnd # 0 /\ (end >= m.upBegin
                                      \/ 2 * m.lowCap >= m.upBegin)
           base == IF ~meets THEN m
                   ELSE IF end <= m.upEnd THEN Merge(m)
                   ELSE Fault(m, "boundary")
           t == ExpandLower(m, a, n)
<1>1. Wider(m, base) /\ Fit(base)
  <2>1. CASE base = m
    BY <2>1, SameBoundsWider DEF SameBounds
  <2>2. CASE base = Fault(m, "boundary")
    <3> HIDE DEF base
    <3> QED
      BY <2>2, FaultWider, FaultKeeps DEF Faults, Keeps
  <2>3. CASE m.upEnd # 0 /\ base = Merge(m)
    <3> HIDE DEF base
    <3> QED
      BY <2>3, MergeWider, MergeKeeps DEF Keeps
  <2> QED
    BY <2>1, <2>2, <2>3
<1>2. t.mem = IF Alive(base) THEN GrowLower(base, end) ELSE base
  BY DEF ExpandLower, Resolved
<1>3. Fit(t.mem)
  BY ExpandLowerSound DEF Sound, Keeps
<1> HIDE DEF base, t
<1>4. CASE Alive(base)
  <2>1. Wider(base, t.mem)
    BY <1>1, <1>2, <1>4, GrowLowerWider
  <2> QED
    BY <2>1, <1>1, <1>3, WiderTransitive DEF t
<1>5. CASE ~Alive(base)
  BY <1>1, <1>2, <1>5 DEF t
<1> QED
  BY <1>4, <1>5

LEMMA OutsideWider ==
  ASSUME NEW m, Fit(m), Alive(m), NEW a \in Nat, NEW n \in Nat,
         m.lowCap <= a
  PROVE  Wider(m, Outside(m, a, n).mem)
<1> DEFINE e == [m EXCEPT !.exception = TRUE]
           k == Outside(m, a, n).mem
<1>1. /\ e \in Memory /\ e.lowCap = m.lowCap /\ e.argSize = m.argSize
      /\ e.upBegin = m.upBegin /\ e.upEnd = m.upEnd
  BY DEF Fit, Memory
<1>2. \/ a + n <= ArgsBase /\ k = GrowUpper(e, a, n, e.lowCap, ArgsBase)
      \/ a >= ArgsBase /\ k = GrowArgs(e, a + n - ArgsBase)
      \/ k = Fault(e, "null")
  BY <1>1 DEF Outside, Resolved
<1> HIDE DEF e, k
<1>3. Fit(e) /\ Wider(m, e)
  BY <1>1, SameBoundsWider DEF Fit, SameBounds
<1>4. Wider(e, k)
  <2>1. a >= ArgsBase => a + n - ArgsBase \in Nat
    BY Constants
  <2> QED
    BY <1>1, <1>2, <1>3, <2>1, Constants, GrowUpperWider, GrowArgsWider,
       FaultWider DEF Faults
<1>5. Fit(k)
  BY OutsideSound DEF Sound, Keeps, k
<1> QED
  BY <1>3, <1>4, <1>5, WiderTransitive DEF k

(* Translating an address leaves room for all that there was room for.     *)
LEMMA TranslateWider ==
  ASSUME NEW m, Fit(m), Alive(m), NEW a \in Nat, NEW n \in Nat,
         NEW size \in Nat
  PROVE  Wider(m, Translate(m, a, n, size).mem)
<1> DEFINE t == Translate(m, a, n, size)
           b == IF MergeFirst(m, a) THEN Merge(m) ELSE m
<1>1. t.mem = m \/ t = Expand(b, a, n, size)
  BY DEF Translate, Resolved
<1>2. Wider(m, m)
  BY SameBoundsWider DEF SameBounds
<1>3. Wider(m, b) /\ Fit(b)
  <2>1. CASE MergeFirst(m, a)
    BY <2>1, MergeWider, MergeKeeps DEF MergeFirst, Keeps
  <2>2. CASE ~MergeFirst(m, a)
    BY <2>2, <1>2
  <2> QED
    BY <2>1, <2>2
<1>4. Fit(t.mem)
  BY TranslateSound DEF Sound, Keeps
<1> HIDE DEF t, b
<1>5. CASE t = Expand(b, a, n, size)
  <2>0. b.lowCap \in Nat
    BY <1>3, BoundsNat
  <2>1. CASE ~Alive(b)
    BY <1>3, <1>5, <2>1 DEF Expand, Resolved, t
  <2>2. CASE Alive(b) /\ (a + n <= Cut \/ a <= 2 * b.lowCap)
    <3>1. t = ExpandLower(b, a, n)
      BY <1>5, <2>2 DEF Expand
    <3>2. Wider(b, t.mem)
      BY <3>1, <2>2, <1>3, ExpandLowerWider
    <3> QED
      BY <3>2, <1>3, <1>4, WiderTransitive DEF t
  <2>3. CASE /\ Alive(b) /\ ~(a + n <= Cut \/ a <= 2 * b.lowCap)
             /\ a + n <= size
    <3>1. t.mem = GrowUpper(b, a, n, b.lowCap, size)
      BY <1>5, <2>3 DEF Expand, Resolved
    <3>2. b.lowCap <= a
      BY <2>0, <2>3
    <3>3. Wider(b, t.mem)
      BY <3>1, <3>2, <2>3, <1>3, GrowUpperWider
    <3> QED
      BY <3>3, <1>3, <1>4, WiderTransitive DEF t
  <2>4. CASE /\ Alive(b) /\ ~(a + n <= Cut \/ a <= 2 * b.lowCap)
             /\ ~(a + n <= size)
    <3>1. t = Outside(b, a, n)
      BY <1>5, <2>4 DEF Expand
    <3>2. b.lowCap <= a
      BY <2>0, <2>4
    <3>3. Wider(b, Outside(b, a, n).mem)
      BY <3>2, <2>4, <1>3, OutsideWider
    <3> QED
      BY <3>1, <3>3, <1>3, <1>4, WiderTransitive DEF t
  <2> QED
    BY <2>1, <2>2, <2>3, <2>4
<1> QED
  BY <1>1, <1>2, <1>5 DEF t

(* Storing bytes changes no bounds.                                        *)
LEMMA WrittenSameBounds ==
  ASSUME NEW m, Fit(m), NEW seg, NEW c
  PROVE  SameBounds(m, Written(m, seg, c))
BY DEF Written, SameBounds, Fit, Memory

(* A range inside one host array stays inside one, whatever is loaded,     *)
(* stored, resized and cleared, and wherever the first data segment goes.  *)
THEOREM StaysResident == Spec => ResidentStaysResident
<1> DEFINE Stays == \A r \in Accesses :
                      Resident(mem, r[1], r[2]) => Resident(mem', r[1], r[2])
<1>1. ASSUME IInv, IInv', Wider(mem, mem')
      PROVE  Stays
  BY <1>1, WiderResident, ConstantsAssumption DEF IInv
<1>2. ASSUME IInv, Running, NEW r \in Accesses
      PROVE  /\ Fit(Translate(mem, r[1], r[2], MemSize).mem)
             /\ Wider(mem, Translate(mem, r[1], r[2], MemSize).mem)
  <2>1. r[1] \in Nat /\ r[2] \in Nat
    BY ConstantsAssumption
  <2> QED
    BY <1>2, <2>1, TranslateWider, TranslateSound
    DEF IInv, Running, Sound, Keeps
<1>3. ASSUME IInv, IInv', NEW f, mem' = Fault(mem, f)
      PROVE  Wider(mem, mem')
  <2>1. SameBounds(mem, mem')
    BY <1>3 DEF SameBounds, Fault, IInv, Fit, Memory
  <2> QED
    BY <1>3, <2>1, SameBoundsWider DEF IInv
<1>4. ASSUME IInv, IInv', NEW r \in Accesses, Load(r[1], r[2])
      PROVE  Wider(mem, mem')
  <2> DEFINE t == Translate(mem, r[1], r[2], MemSize)
  <2>1. mem' = t.mem \/ mem' = Fault(mem, t.mem.fault)
    BY <1>4 DEF Load, Abort
  <2>2. Running
    BY <1>4 DEF Load
  <2>3. Wider(mem, t.mem)
    BY <1>2, <1>4, <2>2
  <2> HIDE DEF t
  <2> QED
    BY <1>3, <1>4, <2>1, <2>3
<1>5. ASSUME IInv, IInv', NEW r \in Accesses, NEW c, Store(r[1], r[2], c)
      PROVE  Wider(mem, mem')
  <2> DEFINE t == Translate(mem, r[1], r[2], MemSize)
  <2>1. mem' = Written(t.mem, t.seg, c) \/ mem' = Fault(mem, t.mem.fault)
    BY <1>5 DEF Store, Abort
  <2>2. Running
    BY <1>5 DEF Store
  <2>3. Wider(mem, t.mem) /\ Fit(t.mem)
    BY <1>2, <1>5, <2>2
  <2> HIDE DEF t
  <2>4. CASE mem' = Written(t.mem, t.seg, c)
    <3>1. Wider(t.mem, mem')
      BY <2>3, <2>4, WrittenSameBounds, SameBoundsWider
    <3> QED
      BY <3>1, <2>3, <1>5, WiderTransitive DEF IInv
  <2> QED
    BY <1>3, <1>5, <2>1, <2>4
<1>6. ASSUME IInv, IInv', NEW n \in ArgSizes, NEW c, SetArguments(n, c)
      PROVE  Wider(mem, mem')
  <2>1. n \in Nat
    BY ConstantsAssumption
  <2>2. Wider(mem, GrowArgs(mem, n)) /\ Fit(GrowArgs(mem, n))
    BY <1>6, <2>1, GrowArgsWider, GrowArgsKeeps DEF IInv, Keeps
  <2>3. Wider(GrowArgs(mem, n), mem')
    BY <1>6, <2>2, WrittenSameBounds, SameBoundsWider DEF SetArguments
  <2> QED
    BY <1>6, <2>2, <2>3, WiderTransitive DEF IInv
<1>7. ASSUME IInv, NEW p \in PageCounts, ResizeHeap(p)
      PROVE  Wider(mem, mem')
  BY <1>7, SameBoundsWider DEF ResizeHeap, SameBounds, IInv
<1>8. ASSUME IInv, ClearException
      PROVE  Wider(mem, mem')
  <2>1. SameBounds(mem, mem')
    BY <1>8 DEF SameBounds, ClearException, IInv, Fit, Memory
  <2> QED
    BY <1>8, <2>1, SameBoundsWider DEF IInv
<1>9. ASSUME IInv, [Next]_vars
      PROVE  Stays \/ UNCHANGED vars
  <2>1. IInv'
    BY <1>9, NextIInv
  <2> HIDE DEF Stays
  <2> QED
    BY <2>1, <1>9, <1>1, <1>4, <1>5, <1>6, <1>7, <1>8 DEF Next
<1>10. IInv /\ [Next]_vars => [Stays]_vars
  BY <1>9
<1> HIDE DEF Stays
<1>11. Spec => [][Stays]_vars
  BY <1>10, Inductive, PTL DEF Spec
<1> QED
  BY <1>11 DEF ResidentStaysResident, Stays

-----------------------------------------------------------------------------
(* The strings of the command line. *)

LEMMA ArgvFacts ==
  Len(Argv) \in Nat /\ \A i \in 1..Len(Argv) : Argv[i].len \in Nat /\ Argv[i].letter \in Byte
<1>1. Argv \in Seq([len : Nat, letter : Byte])
  BY HostAssumption
<1>2. ASSUME NEW i \in 1..Len(Argv)
      PROVE Argv[i] \in [len : Nat, letter : Byte]
  BY <1>1, ElementOfSeq
<1>3. ASSUME NEW r \in [len : Nat, letter : Byte]
      PROVE r.len \in Nat /\ r.letter \in Byte
  OBVIOUS
<1> QED
  BY <1>1, <1>2, <1>3, LenProperties

LEMMA SizesFacts ==
  /\ Sizes \in [0..Len(Argv) -> Nat]
  /\ Sizes[0] = 0
  /\ \A i \in 1..Len(Argv) : Sizes[i] = Sizes[i - 1] + Argv[i].len + 1
<1> DEFINE n == Len(Argv)
           F == [i \in 1..n |-> [x \in Nat |-> x + Argv[i].len + 1]]
           Eq(g) == g = [i \in 0..n |-> IF i = 0 THEN 0
                                        ELSE g[i - 1] + Argv[i].len + 1]
<1>1. n \in Nat /\ \A i \in 1..n : Argv[i].len \in Nat
  BY ArgvFacts
<1>2. Steps(F, n, Nat) /\ \A i \in 1..n : \A x \in Nat : F[i][x] = x + Argv[i].len + 1
  BY <1>1 DEF Steps
<1>3. PICK g : Runs(g, 0, F, n, Nat)
  <2> HIDE DEF F, n
  <2> QED
    BY <1>1, <1>2, Recursion
<1>4. Eq(g)
  <2> HIDE DEF F
  <2>1. ASSUME NEW i \in 0..n
        PROVE  g[i] = IF i = 0 THEN 0 ELSE g[i - 1] + Argv[i].len + 1
    <3>1. CASE i = 0
      BY <3>1, <1>3 DEF Runs
    <3>2. CASE i # 0
      <4>1. i \in 1..n /\ i - 1 \in 0..n
        BY <3>2, <1>1
      <4>2. g[i] = F[i][g[i - 1]] /\ g[i - 1] \in Nat
        BY <4>1, <1>3 DEF Runs
      <4> QED
        BY <3>2, <4>1, <4>2, <1>2
    <3> QED
      BY <3>1, <3>2
  <2>2. g = [i \in 0..n |-> g[i]]
    BY <1>3 DEF Runs
  <2> QED
    BY <2>1, <2>2
<1>5. Eq(Sizes)
  <2>1. Sizes = CHOOSE h : Eq(h)
    BY DEF Sizes
  <2> QED
    BY <1>4, <2>1
<1>6. \A i \in 0..n : Sizes[i] \in Nat
  <2>1. Sizes[0] \in Nat /\ \A i \in 1..n : Sizes[i-1] \in Nat => Sizes[i] \in Nat
    <3>1. Sizes[0] = 0
      BY <1>1, <1>5
    <3>2. ASSUME NEW i \in 1..n, Sizes[i-1] \in Nat PROVE Sizes[i] \in Nat
      <4>1. Sizes[i] = Sizes[i-1] + Argv[i].len + 1 BY <1>1, <1>5
      <4> QED BY <4>1, <1>1, <3>2
    <3> QED BY <3>1, <3>2
  <2> HIDE DEF n
  <2> QED BY <2>1, <1>1, LoopKeeps
<1>7. Sizes = [i \in 0..n |-> Sizes[i]] BY <1>5
<1>8. ASSUME NEW i \in 1..n
      PROVE  Sizes[i] = Sizes[i - 1] + Argv[i].len + 1
  <2>1. i \in 0..n /\ i # 0
    BY <1>1
  <2> HIDE DEF n
  <2> QED
    BY <2>1, <1>5
<1>9. Sizes[0] = 0
  BY <1>5, <1>1
<1> QED
  BY <1>6, <1>7, <1>8, <1>9

LEMMA StringsSizeNat == StringsSize \in Nat
<1>1. Len(Argv) \in 0..Len(Argv)
  BY ArgvFacts
<1> QED
  BY <1>1, SizesFacts DEF StringsSize

-----------------------------------------------------------------------------
(* Calls under way. *)

Places == Segments \union {"none"}

Pointers == [seg : Places, id : {Identity(m, s) : m \in Memory, s \in Places}]

Contents == UNION {[S -> Byte] : S \in SUBSET Addr}

CallRecords ==
  [mem : Memory, fate : Fates, kept : [Slots -> Pointers], count : Nat,
   sent : Seq(Contents), failed : BOOLEAN]

(* A well-formed memory in which no address is in two arrays.              *)
Good(m) == Fit(m) /\ ~Overrun(m)

(* As long as a call is fine its memory is such a memory. *)
Calls == {c \in CallRecords : c.fate = "fine" => Good(c.mem) /\ Alive(c.mem)}

Fits == MemSize \in Nat

(* Pointer k can be used for n bytes from a. *)
Points(c, k, a, n) ==
  /\ c.kept[k].seg \in Segments
  /\ Fresh(c.mem, c.kept[k])
  /\ Holds(c.mem, c.kept[k].seg, a, n)

Unharmed(c) == c.fate \in {"fine", "abort", "overrun"}

LEMMA SlotFacts ==
  /\ 1 \in Slots /\ 2 \in Slots /\ 3 \in Slots
  /\ Slots \subseteq Nat
BY DEF Slots

LEMMA CallFacts ==
  ASSUME NEW c \in Calls
  PROVE  /\ c.mem \in Memory /\ c.fate \in Fates
         /\ \A k \in Slots : c.kept[k].seg \in Places
         /\ c.count \in Nat /\ c.sent \in Seq(Contents)
         /\ c.failed \in BOOLEAN
         /\ c.fate = "fine" => Good(c.mem) /\ Alive(c.mem)
BY DEF Calls, CallRecords, Pointers

(* An untaken pointer reads and writes like one into the arguments. *)
LEMMA ReadPlace ==
  ASSUME NEW m, Good(m), NEW seg \in Places, NEW a \in Nat, NEW n \in Nat,
         Holds(m, seg, a, n), NEW x \in Span(a, n)
  PROVE  /\ ArrayOf(m, seg)[x] = View(m)[x]
         /\ View(m)[x] \in Byte
<1>0. Fit(m) /\ ~Overrun(m)
  BY DEF Good
<1>1. CASE seg \in Segments
  BY <1>1, <1>0, ReadIsView
<1>2. CASE seg = "none"
  <2>1. /\ ArrayOf(m, seg) = ArrayOf(m, "arguments")
        /\ Holds(m, "arguments", a, n)
    BY <1>2 DEF ArrayOf, Holds
  <2> QED
    BY <2>1, <1>0, ReadIsView DEF Segments
<1> QED
  BY <1>1, <1>2 DEF Places

LEMMA WrittenPlace ==
  ASSUME NEW m, Good(m), NEW seg \in Places, NEW a \in Nat, NEW n \in Nat,
         Holds(m, seg, a, n), NEW c \in [Span(a, n) -> Byte]
  PROVE  /\ Good(Written(m, seg, c))
         /\ Written(m, seg, c).fault = m.fault
         /\ View(Written(m, seg, c)) = Overwrite(View(m), c)
<1>0. Fit(m) /\ ~Overrun(m)
  BY DEF Good
<1>1. CASE seg \in Segments
  BY <1>1, <1>0, WrittenIsStored DEF Good
<1>2. CASE seg = "none"
  <2>1. /\ Written(m, seg, c) = Written(m, "arguments", c)
        /\ Holds(m, "arguments", a, n)
    BY <1>2 DEF Written, Holds
  <2> QED
    BY <2>1, <1>0, WrittenIsStored DEF Segments, Good
<1> QED
  BY <1>1, <1>2 DEF Places

(* Whatever a pointer points to, what it finds at a tracked address is a   *)
(* byte.                                                                   *)
LEMMA CellIsByte ==
  ASSUME NEW c \in Calls, NEW k \in Slots, NEW x \in Addr
  PROVE  Cell(c, k, x) \in Byte
BY CallFacts DEF Cell, ArrayOf, Memory

LEMMA BeginCall ==
  ASSUME NEW m, Good(m), Alive(m)
  PROVE  /\ Begin(m) \in Calls /\ Begin(m).mem = m /\ Begin(m).fate = "fine"
         /\ Begin(m).count = 0 /\ Begin(m).sent = <<>>
         /\ Begin(m).failed = FALSE
<1>1. m \in Memory
  BY DEF Good, Fit
<1>2. Pointer(m, "none") \in Pointers
  BY <1>1 DEF Pointer, Pointers, Places
<1>3. [k \in Slots |-> Pointer(m, "none")] \in [Slots -> Pointers]
  BY <1>2
<1>4. <<>> \in Seq(Contents)
  OBVIOUS
<1> QED
  BY <1>1, <1>3, <1>4 DEF Begin, Calls, CallRecords, Fates

LEMMA EndedCall ==
  ASSUME NEW c \in Calls, NEW how \in Fates, how # "fine"
  PROVE  Ended(c, how) \in Calls /\ Ended(c, how).fate = how
BY DEF Ended, Calls, CallRecords

(* A resident range is translated without changing anything, and a part of *)
(* it leads to the array that holds all of it.                             *)
LEMMA ResidentTranslate ==
  ASSUME NEW m, Good(m), Alive(m), NEW a \in Nat, NEW n \in Nat,
         NEW size \in Nat, Resident(m, a, n)
  PROVE  Translate(m, a, n, size).mem = m
BY DEF Translate, Resident, Resolved

LEMMA PartTranslate ==
  ASSUME NEW m, Good(m), Alive(m), NEW a \in Nat, NEW n \in Nat,
         NEW part \in Nat, 0 < part, part <= n, NEW size \in Nat,
         Resident(m, a, n)
  PROVE  LET t == Translate(m, a, part, size) IN
         /\ t.mem = m /\ t.seg \in Segments
         /\ Holds(m, t.seg, a, n)
<1>1. /\ m.lowCap \in Nat /\ m.argSize \in Nat
      /\ m.upBegin \in Nat /\ m.upEnd \in Nat
      /\ m.upEnd # 0 => m.lowCap <= m.upBegin
      /\ m.lowCap <= ArgsBase /\ m.upEnd <= ArgsBase
  <2>1. Fit(m)
    BY DEF Good
  <2> QED
    BY <2>1, BoundsNat, Constants DEF Good, Overrun
<1>2. ASSUME NEW t, t = Translate(m, a, part, size)
      PROVE  \/ a + n <= m.lowCap /\ t = Resolved(m, "lower")
             \/ a >= m.upBegin /\ a + n <= m.upEnd /\ t = Resolved(m, "upper")
             \/ /\ a >= ArgsBase /\ a + n <= ArgsBase + m.argSize
                /\ t = Resolved(m, "arguments")
  <2>1. CASE a + n <= m.lowCap
    <3>1. a + part <= m.lowCap
      BY <2>1, <1>1
    <3> QED
      BY <2>1, <3>1, <1>2 DEF Translate
  <2>2. CASE a >= m.upBegin /\ a + n <= m.upEnd
    <3>1. ~(a + part <= m.lowCap) /\ a + part <= m.upEnd
      BY <2>2, <1>1
    <3> QED
      BY <2>2, <3>1, <1>2 DEF Translate
  <2>3. CASE a >= ArgsBase /\ a + n <= ArgsBase + m.argSize
    <3>1. /\ ~(a + part <= m.lowCap) /\ ~(a + part <= m.upEnd)
          /\ a + part <= ArgsBase + m.argSize
      BY <2>3, <1>1, Constants
    <3> QED
      BY <2>3, <3>1, <1>2 DEF Translate
  <2> QED
    BY <2>1, <2>2, <2>3 DEF Resident
<1> QED
  BY <1>2 DEF Resolved, Segments, Holds

(* What taking pointer k does: the content stays, room is only gained, and *)
(* the pointer is good, for as much around the range as was resident; the  *)
(* other pointers are kept.                                                *)
Taken(c, d, k, a, n) ==
  /\ c.fate # "fine" => d = c
  /\ c.fate = "fine" => Unharmed(d)
  /\ d.fate = "fine" =>
       /\ c.fate = "fine"
       /\ View(d.mem) = View(c.mem) /\ Wider(c.mem, d.mem)
       /\ Resident(c.mem, a, n) => d.mem = c.mem
       /\ Points(d, k, a, n)
       /\ \A all \in Nat : 0 < n /\ n <= all /\ Resident(c.mem, a, all)
                             => d.mem = c.mem /\ Points(d, k, a, all)
       /\ \A j \in Slots \ {k} : d.kept[j] = c.kept[j]
       /\ d.count = c.count /\ d.sent = c.sent /\ d.failed = c.failed

LEMMA TakeDoes ==
  ASSUME NEW c \in Calls, NEW k \in Slots, NEW a \in Nat, NEW n \in Nat,
         Fits
  PROVE  Take(c, k, a, n) \in Calls /\ Taken(c, Take(c, k, a, n), k, a, n)
<1> DEFINE t == Translate(c.mem, a, n, MemSize)
           d == Take(c, k, a, n)
<1>1. CASE c.fate # "fine"
  <2>1. d = c
    BY <1>1 DEF Take
  <2> QED
    BY <2>1, <1>1 DEF Taken
<1>2. CASE c.fate = "fine"
  <2>0. Good(c.mem) /\ Alive(c.mem) /\ Fit(c.mem)
    BY <1>2, CallFacts DEF Good
  <2>1. /\ Sound(c.mem, t, a, n) /\ Wider(c.mem, t.mem)
        /\ Resident(c.mem, a, n) => t.mem = c.mem
    BY <2>0, TranslateSound, TranslateWider, ResidentTranslate DEF Fits
  <2> HIDE DEF t
  <2>2. CASE t.seg = "none"
    <3>1. d = Ended(c, "abort")
      BY <1>2, <2>2 DEF Take, Kept, t
    <3>2. d \in Calls /\ d.fate = "abort"
      BY <3>1, EndedCall DEF Fates
    <3> HIDE DEF d
    <3> QED
      BY <3>2, <1>2 DEF Taken, Unharmed, d
  <2>2a. CASE t.seg # "none" /\ Overrun(t.mem)
    <3>1. d = Ended(c, "overrun")
      BY <1>2, <2>2a DEF Take, Kept, t
    <3>2. d \in Calls /\ d.fate = "overrun"
      BY <3>1, EndedCall DEF Fates
    <3> HIDE DEF d
    <3> QED
      BY <3>2, <1>2 DEF Taken, Unharmed, d
  <2>3. CASE t.seg # "none" /\ ~Overrun(t.mem)
    <3> DEFINE p == Pointer(t.mem, t.seg)
    <3>1. d = [c EXCEPT !.mem = t.mem, !.kept[k] = p]
      BY <1>2, <2>3 DEF Take, Kept, t
    <3>2. Good(t.mem) /\ Alive(t.mem) /\ t.mem \in Memory /\ t.seg \in Segments
      BY <2>1, <2>3 DEF Sound, Keeps, Good, Fit
    <3>3. p \in Pointers /\ p.seg = t.seg /\ Fresh(t.mem, p)
      BY <3>2 DEF Pointer, Pointers, Places, Fresh
    <3> HIDE DEF d, p
    <3>4. /\ d \in CallRecords /\ d.fate = "fine" /\ d.mem = t.mem
          /\ d.kept[k] = p
          /\ \A j \in Slots \ {k} : d.kept[j] = c.kept[j]
          /\ d.count = c.count /\ d.sent = c.sent /\ d.failed = c.failed
      BY <3>1, <3>2, <3>3, <1>2 DEF Calls, CallRecords
    <3>5. d \in Calls
      BY <3>4, <3>2 DEF Calls
    <3>6. Points(d, k, a, n)
      BY <3>2, <3>3, <3>4, <2>1, <2>3 DEF Points, Sound
    <3>7. View(d.mem) = View(c.mem)
      BY <3>4, <2>1, <2>3 DEF Sound, Keeps
    <3>8. ASSUME NEW all \in Nat, 0 < n, n <= all, Resident(c.mem, a, all)
          PROVE  d.mem = c.mem /\ Points(d, k, a, all)
      <4>1. t.mem = c.mem /\ Holds(c.mem, t.seg, a, all)
        BY <2>0, <3>8, PartTranslate DEF Fits, t
      <4> QED
        BY <4>1, <3>2, <3>3, <3>4 DEF Points
    <3> QED
      BY <3>4, <3>5, <3>6, <3>7, <3>8, <1>2, <2>1 DEF Taken, Unharmed, d
  <2> QED
    BY <2>2, <2>2a, <2>3
<1> QED
  BY <1>1, <1>2

(* Using a good pointer changes nothing, using any other ends the call.    *)
Used(c, d, k, a, n) ==
  /\ c.fate # "fine" => d = c
  /\ c.fate = "fine" /\ Points(c, k, a, n) => d = c
  /\ d.fate = "fine" =>
       /\ d = c
       /\ Holds(c.mem, c.kept[k].seg, a, n)

LEMMA UseDoes ==
  ASSUME NEW c \in Calls, NEW k \in Slots, NEW a, NEW n
  PROVE  Use(c, k, a, n) \in Calls /\ Used(c, Use(c, k, a, n), k, a, n)
<1>1. Ended(c, "stale") \in Calls /\ Ended(c, "stale").fate = "stale"
  BY EndedCall DEF Fates
<1>2. Ended(c, "outside") \in Calls /\ Ended(c, "outside").fate = "outside"
  BY EndedCall DEF Fates
<1> QED
  BY <1>1, <1>2 DEF Use, Used, Points

(* What is found through a pointer that was used is the content.           *)
LEMMA CellIsView ==
  ASSUME NEW c \in Calls, NEW k \in Slots, NEW a \in Nat, NEW n \in Nat,
         c.fate = "fine", Holds(c.mem, c.kept[k].seg, a, n),
         NEW x \in Span(a, n)
  PROVE  Cell(c, k, x) = View(c.mem)[x]
<1>1. Good(c.mem) /\ c.kept[k].seg \in Places
  BY CallFacts
<1> QED
  BY <1>1, ReadPlace DEF Cell

(* Bytes stored through a good pointer are in the content; the arrays stay *)
(* where they are.                                                         *)
Stored(c, d, k, a, n, b) ==
  /\ c.fate # "fine" => d = c
  /\ c.fate = "fine" /\ Points(c, k, a, n) => d.fate = "fine"
  /\ d.fate = "fine" =>
       /\ c.fate = "fine"
       /\ View(d.mem) = Overwrite(View(c.mem), b)
       /\ SameBounds(c.mem, d.mem)
       /\ d.kept = c.kept
       /\ d.count = c.count /\ d.sent = c.sent /\ d.failed = c.failed

LEMMA PutDoes ==
  ASSUME NEW c \in Calls, NEW k \in Slots, NEW a \in Nat, NEW n \in Nat,
         NEW b, c.fate = "fine" => b \in [Span(a, n) -> Byte]
  PROVE  /\ Put(c, k, a, n, b) \in Calls
         /\ Stored(c, Put(c, k, a, n, b), k, a, n, b)
<1> DEFINE u == Use(c, k, a, n)
           d == Put(c, k, a, n, b)
<1>1. u \in Calls /\ Used(c, u, k, a, n)
  BY UseDoes
<1>2. CASE u.fate # "fine"
  <2>1. d = u
    BY <1>2 DEF Put
  <2> HIDE DEF u
  <2> QED
    BY <2>1, <1>1, <1>2 DEF Used, Stored
<1>3. CASE u.fate = "fine"
  <2> DEFINE w == Written(c.mem, c.kept[k].seg, b)
  <2>1. u = c /\ c.fate = "fine" /\ Holds(c.mem, c.kept[k].seg, a, n)
    BY <1>1, <1>3 DEF Used
  <2>2. d = [c EXCEPT !.mem = w]
    BY <2>1 DEF Put
  <2>3. /\ Good(w) /\ w.fault = c.mem.fault
        /\ View(w) = Overwrite(View(c.mem), b)
        /\ SameBounds(c.mem, w)
    BY <2>1, CallFacts, WrittenPlace, WrittenSameBounds DEF Good
  <2> HIDE DEF w, d, u
  <2>4. /\ d \in CallRecords /\ d.mem = w /\ d.fate = c.fate
        /\ d.kept = c.kept /\ d.count = c.count /\ d.sent = c.sent
        /\ d.failed = c.failed
    BY <2>2, <2>3 DEF Calls, CallRecords, Good, Fit
  <2>5. d \in Calls
    BY <2>3, <2>4, CallFacts DEF Calls, Alive
  <2> QED
    BY <2>1, <2>3, <2>4, <2>5 DEF Stored, d
<1> QED
  BY <1>2, <1>3

(* Pointers stay good, and ranges resident, as long as the bounds stay.    *)
LEMMA SameBoundsKeep ==
  ASSUME NEW c, NEW d, SameBounds(c.mem, d.mem), NEW k, NEW a, NEW n
  PROVE  /\ Resident(c.mem, a, n) => Resident(d.mem, a, n)
         /\ d.kept[k] = c.kept[k] /\ Points(c, k, a, n) => Points(d, k, a, n)
BY DEF SameBounds, Resident, Points, Fresh, Identity, Holds, Segments

LEMMA SameBoundsTransitive ==
  ASSUME NEW m, NEW k, NEW j, SameBounds(m, k), SameBounds(k, j)
  PROVE  SameBounds(m, j)
BY DEF SameBounds

(* Two pointers taken for a call: the first is good if the second range    *)
(* was resident.                                                           *)
PairTaken(m, c, a1, n1, a2, n2) ==
  /\ Unharmed(c)
  /\ c.fate = "fine" =>
       /\ View(c.mem) = View(m) /\ Wider(m, c.mem)
       /\ Points(c, 2, a2, n2)
       /\ Resident(m, a2, n2) => Points(c, 1, a1, n1)
       /\ \A all \in Nat :
            0 < n1 /\ n1 <= all /\ Resident(m, a1, all) /\ Resident(m, a2, n2)
              => Points(c, 1, a1, all)
       /\ c.count = 0 /\ c.sent = <<>> /\ c.failed = FALSE

LEMMA TakePair ==
  ASSUME NEW m, Good(m), Alive(m), Fits, NEW a1 \in Nat, NEW n1 \in Nat,
         NEW a2 \in Nat, NEW n2 \in Nat
  PROVE  LET c == Take(Take(Begin(m), 1, a1, n1), 2, a2, n2) IN
         c \in Calls /\ PairTaken(m, c, a1, n1, a2, n2)
<1> DEFINE c0 == Begin(m)
           c1 == Take(c0, 1, a1, n1)
           c2 == Take(c1, 2, a2, n2)
<1>1. /\ c0 \in Calls /\ c0.mem = m /\ c0.fate = "fine"
      /\ c0.count = 0 /\ c0.sent = <<>> /\ c0.failed = FALSE
  BY BeginCall
<1> HIDE DEF c0
<1>2. c1 \in Calls /\ Taken(c0, c1, 1, a1, n1)
  BY <1>1, SlotFacts, TakeDoes
<1> HIDE DEF c1
<1>3. c2 \in Calls /\ Taken(c1, c2, 2, a2, n2)
  BY <1>2, SlotFacts, TakeDoes
<1> HIDE DEF c2
<1>4. Unharmed(c2)
  BY <1>1, <1>2, <1>3 DEF Taken, Unharmed
<1>5. ASSUME c2.fate = "fine"
      PROVE  /\ View(c2.mem) = View(m) /\ Points(c2, 2, a2, n2)
             /\ c2.count = 0 /\ c2.sent = <<>> /\ c2.failed = FALSE
  BY <1>1, <1>2, <1>3, <1>5 DEF Taken
<1>6. ASSUME c2.fate = "fine"
      PROVE  Wider(m, c2.mem)
  <2>1. Good(c1.mem) /\ Good(c2.mem) /\ Wider(m, c1.mem) /\ Wider(c1.mem, c2.mem)
    BY <1>1, <1>2, <1>3, <1>6, CallFacts DEF Taken
  <2> QED
    BY <2>1, WiderTransitive DEF Good
<1>7. ASSUME c2.fate = "fine", Resident(m, a2, n2), NEW n,
             Points(c1, 1, a1, n)
      PROVE  Points(c2, 1, a1, n)
  <2>1. Good(c1.mem) /\ Wider(m, c1.mem)
    BY <1>1, <1>2, <1>3, <1>7, CallFacts DEF Taken
  <2>2. Resident(c1.mem, a2, n2)
    BY <2>1, <1>7, WiderResident DEF Good
  <2>3. c2.mem = c1.mem /\ c2.kept[1] = c1.kept[1]
    BY <2>2, <1>3, <1>7 DEF Taken, Slots
  <2> QED
    BY <2>3, <1>7 DEF Points
<1>8. ASSUME c2.fate = "fine", Resident(m, a2, n2)
      PROVE  Points(c2, 1, a1, n1)
  BY <1>1, <1>2, <1>3, <1>7, <1>8 DEF Taken
<1>9. ASSUME c2.fate = "fine", NEW all \in Nat, 0 < n1, n1 <= all,
             Resident(m, a1, all), Resident(m, a2, n2)
      PROVE  Points(c2, 1, a1, all)
  BY <1>1, <1>2, <1>3, <1>7, <1>9 DEF Taken
<1>10. PairTaken(m, c2, a1, n1, a2, n2)
  BY <1>4, <1>5, <1>6, <1>8, <1>9 DEF PairTaken
<1> QED
  BY <1>3, <1>10 DEF c0, c1, c2

(* memcpy_big copies, and uses good pointers when its source is resident.  *)
LEMMA MemcpyDoes ==
  ASSUME NEW m, Good(m), Alive(m), Fits,
         NEW dest \in Nat, NEW src \in Nat, NEW num \in Nat,
         \A x \in Span(dest, num) : (x - dest) + src \in Addr
  PROVE  LET c == MemcpyBig(m, dest, src, num) IN
         /\ c \in Calls
         /\ c.fate = "fine" =>
              /\ View(c.mem) = Overwrite(View(m),
                     [x \in Span(dest, num) |-> View(m)[(x - dest) + src]])
              /\ c.sent = <<>>
         /\ Resident(m, src, num) => Unharmed(c)
<1> DEFINE c2 == Take(Take(Begin(m), 1, dest, num), 2, src, num)
           c3 == Use(c2, 2, src, num)
           b == [x \in Span(dest, num) |-> Cell(c3, 2, (x - dest) + src)]
           c4 == Put(c3, 1, dest, num, b)
<1>1. c2 \in Calls /\ PairTaken(m, c2, dest, num, src, num)
  BY TakePair
<1> HIDE DEF c2
<1>2. c3 \in Calls /\ Used(c2, c3, 2, src, num)
  BY <1>1, SlotFacts, UseDoes
<1> HIDE DEF c3
<1>3. c3 = c2
  BY <1>1, <1>2 DEF Used, PairTaken
<1>4. b \in [Span(dest, num) -> Byte]
  BY <1>2, SlotFacts, CellIsByte
<1> HIDE DEF b
<1>5. c4 \in Calls /\ Stored(c3, c4, 1, dest, num, b)
  BY <1>2, <1>4, SlotFacts, PutDoes
<1> HIDE DEF c4
<1>6. ASSUME c4.fate = "fine"
      PROVE  b = [x \in Span(dest, num) |-> View(m)[(x - dest) + src]]
  <2>1. c3.fate = "fine" /\ Holds(c3.mem, c3.kept[2].seg, src, num)
        /\ View(c3.mem) = View(m)
    BY <1>1, <1>3, <1>5, <1>6 DEF Stored, PairTaken, Points
  <2>2. ASSUME NEW x \in Span(dest, num)
        PROVE  Cell(c3, 2, (x - dest) + src) = View(m)[(x - dest) + src]
    <3>1. (x - dest) + src \in Span(src, num)
      BY Constants DEF Span
    <3> QED
      BY <2>1, <3>1, <1>2, SlotFacts, CellIsView
  <2> QED
    BY <2>2 DEF b
<1>7. c4.fate = "fine" =>
        /\ View(c4.mem) = Overwrite(View(m),
               [x \in Span(dest, num) |-> View(m)[(x - dest) + src]])
        /\ c4.sent = <<>>
  BY <1>1, <1>3, <1>5, <1>6 DEF Stored, PairTaken
<1>8. Resident(m, src, num) => Unharmed(c4)
  BY <1>1, <1>3, <1>5 DEF Stored, PairTaken, Unharmed
<1>9. c4 = MemcpyBig(m, dest, src, num)
  BY DEF MemcpyBig, c2, c3, c4, b
<1> QED
  BY <1>5, <1>7, <1>8, <1>9

(* Every word the host stores is one byte of the model.                    *)
WordsAreBytes == \A v \in Nat : Coded(v) \in Byte

LEMMA WordTyped ==
  ASSUME WordsAreBytes, NEW a \in Nat, NEW v \in Nat
  PROVE  Word(a, v) \in [Span(a, 4) -> Byte]
BY DEF WordsAreBytes, Word, PtrSize

(* args_sizes_get stores two words through two pointers.                   *)
LEMMA SizesDoes ==
  ASSUME NEW m, Good(m), Alive(m), Fits, WordsAreBytes,
         NEW a1 \in Nat, NEW a2 \in Nat
  PROVE  LET c == ArgsSizesGet(m, a1, a2) IN
         /\ c \in Calls
         /\ c.fate = "fine" =>
              /\ View(c.mem)
                   = Overwrite(Overwrite(View(m), Word(a1, Len(Argv))),
                               Word(a2, StringsSize))
              /\ c.sent = <<>>
         /\ Resident(m, a2, 4) => Unharmed(c)
<1> DEFINE c2 == Take(Take(Begin(m), 1, a1, 4), 2, a2, 4)
           w1 == Word(a1, Len(Argv))
           w2 == Word(a2, StringsSize)
           c3 == Put(c2, 1, a1, 4, w1)
           c4 == Put(c3, 2, a2, 4, w2)
<1>1. c2 \in Calls /\ PairTaken(m, c2, a1, 4, a2, 4)
  BY TakePair
<1>2. w1 \in [Span(a1, 4) -> Byte] /\ w2 \in [Span(a2, 4) -> Byte]
  BY WordTyped, ArgvFacts, StringsSizeNat
<1> HIDE DEF c2, w1, w2
<1>3. c3 \in Calls /\ Stored(c2, c3, 1, a1, 4, w1)
  BY <1>1, <1>2, SlotFacts, PutDoes
<1> HIDE DEF c3
<1>4. c4 \in Calls /\ Stored(c3, c4, 2, a2, 4, w2)
  BY <1>2, <1>3, SlotFacts, PutDoes
<1> HIDE DEF c4
<1>5. c4.fate = "fine" =>
        /\ View(c4.mem) = Overwrite(Overwrite(View(m), w1), w2)
        /\ c4.sent = <<>>
  BY <1>1, <1>3, <1>4 DEF Stored, PairTaken
<1>6. ASSUME Resident(m, a2, 4)
      PROVE  Unharmed(c4)
  <2>1. CASE c2.fate # "fine"
    BY <2>1, <1>1, <1>3, <1>4 DEF Stored, PairTaken, Unharmed
  <2>2. CASE c2.fate = "fine"
    <3>1. c3.fate = "fine" /\ Points(c2, 2, a2, 4)
      BY <2>2, <1>1, <1>3, <1>6 DEF Stored, PairTaken
    <3>2. Points(c3, 2, a2, 4)
      BY <3>1, <1>3, SameBoundsKeep DEF Stored
    <3> QED
      BY <3>1, <3>2, <1>4 DEF Stored, Unharmed
  <2> QED
    BY <2>1, <2>2
<1>7. c4 = ArgsSizesGet(m, a1, a2)
  BY DEF ArgsSizesGet, c2, c3, c4, w1, w2
<1> QED
  BY <1>4, <1>5, <1>6, <1>7 DEF w1, w2

-----------------------------------------------------------------------------
(* The calls about a vector of buffers. *)

EntryAt(iovs, i) == iovs + EntrySize * i

Tracked(iovs, len) == \A i \in 0..(len - 1) : EntryAt(iovs, i) \in Addr

LEMMA BuffersTyped ==
  ASSUME NEW b \in Byte
  PROVE  /\ Buffers[b] \in Nat \X Nat
         /\ Buffers[b][1] \in Nat /\ Buffers[b][2] \in Nat
BY HostAssumption

(* Entry i is read, its buffer e translated, the entry read again.         *)
Turned(c, d, at, e) ==
  /\ c.fate # "fine" => d = c
  /\ d.fate = "fine" =>
       /\ c.fate = "fine"
       /\ e = Buffers[View(c.mem)[at]]
       /\ View(d.mem) = View(c.mem)
       /\ Points(d, 3, e[1], e[2])
       /\ d.kept[1] = c.kept[1] /\ d.kept[2] = c.kept[2]
       /\ d.count = c.count /\ d.sent = c.sent /\ d.failed = c.failed
  /\ c.fate = "fine" /\ Points(c, 1, at, EntrySize) /\ BuffersResident(c.mem)
       => Unharmed(d) /\ (d.fate = "fine" => d.mem = c.mem)

LEMMA BufferDoes ==
  ASSUME NEW c \in Calls, Fits, NEW iovs \in Nat, NEW i \in Nat,
         EntryAt(iovs, i) \in Addr
  PROVE  LET at == EntryAt(iovs, i)
             e  == Buffers[Cell(c, 1, at)]
         IN /\ BufferTaken(c, iovs, i) \in Calls
            /\ e[1] \in Nat /\ e[2] \in Nat
            /\ Turned(c, BufferTaken(c, iovs, i), at, e)
<1> DEFINE at == EntryAt(iovs, i)
           e == Buffers[Cell(c, 1, at)]
           r == Use(c, 1, at, EntrySize)
           f == Buffers[Cell(r, 1, at)]
           t == Take(r, 3, f[1], f[2])
           d == Use(t, 1, at, EntrySize)
<1>0. /\ at \in Addr /\ at \in Nat /\ EntrySize \in Nat
      /\ at \in Span(at, EntrySize)
  <2>1. at \in Addr /\ at \in Nat /\ EntrySize = 8
    BY Constants DEF EntrySize
  <2> HIDE DEF at
  <2> QED
    BY <2>1 DEF Span
<1> HIDE DEF at
<1>1. r \in Calls /\ Used(c, r, 1, at, EntrySize)
  BY SlotFacts, UseDoes
<1> HIDE DEF r
<1>2. /\ e[1] \in Nat /\ e[2] \in Nat /\ f[1] \in Nat /\ f[2] \in Nat
      /\ Cell(c, 1, at) \in Byte
  BY <1>0, <1>1, SlotFacts, CellIsByte, BuffersTyped
<1>3. r.fate = "fine" => f = e /\ e = Buffers[View(c.mem)[at]]
  <2>1. r.fate = "fine" => r = c /\ Holds(c.mem, c.kept[1].seg, at, EntrySize)
    BY <1>1 DEF Used
  <2> QED
    BY <2>1, <1>0, SlotFacts, CellIsView
<1>3a. c.fate = "fine" /\ BuffersResident(c.mem) => Resident(c.mem, e[1], e[2])
  BY <1>2 DEF BuffersResident
<1> HIDE DEF e, f
<1>4. t \in Calls /\ Taken(r, t, 3, f[1], f[2])
  BY <1>1, <1>2, SlotFacts, TakeDoes
<1> HIDE DEF t
<1>5. d \in Calls /\ Used(t, d, 1, at, EntrySize)
  BY <1>4, SlotFacts, UseDoes
<1> HIDE DEF d
<1>6. c.fate # "fine" => d = c
  BY <1>1, <1>4, <1>5 DEF Used, Taken
<1>7. 1 \in Slots \ {3} /\ 2 \in Slots \ {3}
  BY DEF Slots
<1>8. ASSUME d.fate = "fine"
      PROVE  /\ c.fate = "fine"
             /\ e = Buffers[View(c.mem)[at]]
             /\ View(d.mem) = View(c.mem)
             /\ Points(d, 3, e[1], e[2])
             /\ d.kept[1] = c.kept[1] /\ d.kept[2] = c.kept[2]
             /\ d.count = c.count /\ d.sent = c.sent /\ d.failed = c.failed
  <2>1. d = t /\ t.fate = "fine"
    BY <1>5, <1>8 DEF Used
  <2>2. r.fate = "fine" /\ r = c /\ f = e
    BY <2>1, <1>1, <1>3, <1>4 DEF Used, Taken
  <2> QED
    BY <2>1, <2>2, <1>3, <1>4, <1>7 DEF Taken
<1>9. ASSUME c.fate = "fine", Points(c, 1, at, EntrySize),
             BuffersResident(c.mem)
      PROVE  Unharmed(d) /\ (d.fate = "fine" => d.mem = c.mem)
  <2>1. r = c /\ r.fate = "fine" /\ f = e
    BY <1>1, <1>3, <1>9 DEF Used
  <2>2. CASE t.fate # "fine"
    BY <2>1, <2>2, <1>4, <1>5 DEF Taken, Used, Unharmed
  <2>3. CASE t.fate = "fine"
    <3>1. t.mem = c.mem /\ t.kept[1] = c.kept[1]
      BY <2>1, <2>3, <1>3a, <1>4, <1>7, <1>9 DEF Taken
    <3>2. Points(t, 1, at, EntrySize)
      BY <3>1, <1>9 DEF Points
    <3>3. d = t
      BY <3>2, <2>3, <1>5 DEF Used
    <3> QED
      BY <3>1, <3>3, <2>3 DEF Unharmed
  <2> QED
    BY <2>2, <2>3
<1>10. Turned(c, d, at, e)
  BY <1>6, <1>8, <1>9 DEF Turned
<1>11. d = BufferTaken(c, iovs, i)
  BY DEF BufferTaken, d, t, f, r, at, EntryAt
<1> QED
  BY <1>2, <1>5, <1>10, <1>11 DEF e, at

(* What one turn of fd_write has done: buffer e is sent and counted.       *)
BufferSent(c, d, at) ==
  LET e == Buffers[View(c.mem)[at]] IN
  /\ c.fate # "fine" => d = c
  /\ d.fate = "fine" =>
       /\ c.fate = "fine"
       /\ View(d.mem) = View(c.mem)
       /\ d.kept[1] = c.kept[1] /\ d.kept[2] = c.kept[2]
       /\ d.count = c.count + e[2]
       /\ d.sent = Append(c.sent, [x \in Span(e[1], e[2]) |-> View(c.mem)[x]])
       /\ d.failed = c.failed
  /\ c.fate = "fine" /\ Points(c, 1, at, EntrySize) /\ BuffersResident(c.mem)
       => Unharmed(d) /\ (d.fate = "fine" => d.mem = c.mem)

LEMMA SentDoes ==
  ASSUME NEW c \in Calls, Fits, NEW iovs \in Nat, NEW i \in Nat,
         EntryAt(iovs, i) \in Addr
  PROVE  /\ Sent(c, iovs, i) \in Calls
         /\ BufferSent(c, Sent(c, iovs, i), EntryAt(iovs, i))
<1> DEFINE at == EntryAt(iovs, i)
           e == Buffers[Cell(c, 1, at)]
           b == BufferTaken(c, iovs, i)
           u == Use(b, 3, e[1], e[2])
           s == [x \in Span(e[1], e[2]) |-> Cell(u, 3, x)]
           d == Sent(c, iovs, i)
<1>1. /\ b \in Calls /\ e[1] \in Nat /\ e[2] \in Nat
      /\ Turned(c, b, at, e)
  BY BufferDoes
<1>2. d = IF u.fate # "fine" THEN u
          ELSE [u EXCEPT !.count = u.count + e[2], !.sent = Append(u.sent, s)]
  BY DEF Sent, EntryAt
<1> HIDE DEF b, at, e
<1>3. u \in Calls /\ Used(b, u, 3, e[1], e[2])
  BY <1>1, SlotFacts, UseDoes
<1> HIDE DEF u, d
<1>4. u = b
  BY <1>1, <1>3 DEF Used, Turned
<1>5. s \in Contents
  <2>1. s \in [Span(e[1], e[2]) -> Byte]
    BY <1>3, SlotFacts, CellIsByte DEF Span
  <2>2. Span(e[1], e[2]) \in SUBSET Addr
    BY DEF Span
  <2> HIDE DEF s
  <2> QED
    BY <2>1, <2>2 DEF Contents
<1>6. CASE u.fate # "fine"
  <2>1. d = b /\ b.fate # "fine"
    BY <1>2, <1>4, <1>6
  <2> QED
    BY <2>1, <1>1 DEF Turned, BufferSent, d, at
<1>7. CASE u.fate = "fine"
  <2>1. b.fate = "fine" /\ c.fate = "fine" /\ e = Buffers[View(c.mem)[at]]
        /\ Points(b, 3, e[1], e[2]) /\ View(b.mem) = View(c.mem)
    BY <1>1, <1>4, <1>7 DEF Turned
  <2>2. ASSUME NEW x \in Span(e[1], e[2])
        PROVE  Cell(u, 3, x) = View(c.mem)[x]
    BY <2>1, <1>1, <1>4, SlotFacts, CellIsView DEF Points
  <2>3. s = [x \in Span(e[1], e[2]) |-> View(c.mem)[x]]
    BY <2>2
  <2> HIDE DEF s
  <2>4. /\ d \in CallRecords /\ d.fate = "fine" /\ d.mem = b.mem
        /\ d.kept = b.kept /\ d.count = b.count + e[2]
        /\ d.sent = Append(b.sent, s) /\ d.failed = b.failed
    <3>1. b.count + e[2] \in Nat /\ Append(b.sent, s) \in Seq(Contents)
      BY <1>1, <1>5, CallFacts, AppendProperties
    <3>2. d = [b EXCEPT !.count = b.count + e[2], !.sent = Append(b.sent, s)]
      BY <1>2, <1>4, <1>7
    <3> QED
      BY <3>1, <3>2, <2>1, <1>1 DEF Calls, CallRecords
  <2>5. d \in Calls
    BY <2>1, <2>4, <1>1, CallFacts DEF Calls
  <2>6. BufferSent(c, d, at)
    BY <2>1, <2>3, <2>4, <1>1 DEF Turned, BufferSent, Unharmed
  <2> QED
    BY <2>5, <2>6 DEF d, at
<1> QED
  BY <1>6, <1>7

(* The loop of fd_write: the call after each of its turns. *)
WriteTurns(start, iovs, len) ==
  CHOOSE g : g = [i \in 0..len |->
                    IF i = 0 THEN start ELSE Sent(g[i - 1], iovs, i - 1)]

LEMMA WriteTurnsRun ==
  ASSUME NEW start \in Calls, Fits, NEW iovs \in Nat, NEW len \in Nat,
         Tracked(iovs, len)
  PROVE  LET g == WriteTurns(start, iovs, len) IN
         /\ g[0] = start
         /\ \A i \in 1..len : g[i] = Sent(g[i - 1], iovs, i - 1)
         /\ \A i \in 0..len : g[i] \in Calls
<1> DEFINE F == [i \in 1..len |-> [c \in Calls |-> Sent(c, iovs, i - 1)]]
           Eq(g) == g = [i \in 0..len |->
                           IF i = 0 THEN start ELSE Sent(g[i - 1], iovs, i - 1)]
           w == WriteTurns(start, iovs, len)
<1>1. ASSUME NEW i \in 1..len, NEW c \in Calls
      PROVE  Sent(c, iovs, i - 1) \in Calls
  <2>1. i - 1 \in 0..(len - 1) /\ i - 1 \in Nat
    OBVIOUS
  <2> QED
    BY <2>1, SentDoes DEF Tracked
<1>2. /\ Steps(F, len, Calls)
      /\ \A i \in 1..len : \A c \in Calls : F[i][c] = Sent(c, iovs, i - 1)
  BY <1>1 DEF Steps
<1>3. PICK g : Runs(g, start, F, len, Calls)
  <2> HIDE DEF F
  <2> QED
    BY <1>2, Recursion
<1>4. Eq(g)
  <2> HIDE DEF F
  <2>1. ASSUME NEW i \in 0..len
        PROVE  g[i] = IF i = 0 THEN start ELSE Sent(g[i - 1], iovs, i - 1)
    <3>1. CASE i = 0
      BY <3>1, <1>3 DEF Runs
    <3>2. CASE i # 0
      <4>1. i \in 1..len /\ i - 1 \in 0..len
        BY <3>2
      <4>2. g[i] = F[i][g[i - 1]] /\ g[i - 1] \in Calls
        BY <4>1, <1>3 DEF Runs
      <4> QED
        BY <3>2, <4>1, <4>2, <1>2
    <3> QED
      BY <3>1, <3>2
  <2>2. g = [i \in 0..len |-> g[i]]
    BY <1>3 DEF Runs
  <2> QED
    BY <2>1, <2>2
<1>5. Eq(w)
  <2>1. w = CHOOSE h : Eq(h)
    BY DEF WriteTurns
  <2> QED
    BY <1>4, <2>1
<1> HIDE DEF w
<1>6. w[0] = start
  BY <1>5
<1>7. ASSUME NEW i \in 1..len
      PROVE  w[i] = Sent(w[i - 1], iovs, i - 1)
  <2>1. i \in 0..len /\ i # 0
    OBVIOUS
  <2> QED
    BY <2>1, <1>5
<1>8. \A i \in 0..len : w[i] \in Calls
  <2>1. \A i \in 1..len : w[i - 1] \in Calls => w[i] \in Calls
    BY <1>1, <1>7
  <2> QED
    BY <2>1, <1>6, LoopKeeps
<1> QED
  BY <1>6, <1>7, <1>8 DEF w

(* The bytes in the first i buffers of a vector, and their contents.       *)
Total(b, iovs, len) ==
  CHOOSE g : g = [i \in 0..len |->
                    IF i = 0 THEN 0
                    ELSE g[i - 1] + Buffers[b[EntryAt(iovs, i - 1)]][2]]

LEMMA TotalRuns ==
  ASSUME NEW b \in [Addr -> Byte], NEW iovs \in Nat, NEW len \in Nat,
         Tracked(iovs, len)
  PROVE  LET g == Total(b, iovs, len) IN
         /\ g[0] = 0
         /\ \A i \in 1..len :
              g[i] = g[i - 1] + Buffers[b[EntryAt(iovs, i - 1)]][2]
         /\ \A i \in 0..len : g[i] \in Nat
<1> DEFINE n(i) == Buffers[b[EntryAt(iovs, i - 1)]][2]
           F == [i \in 1..len |-> [x \in Nat |-> x + n(i)]]
           Eq(g) == g = [i \in 0..len |-> IF i = 0 THEN 0 ELSE g[i - 1] + n(i)]
           w == Total(b, iovs, len)
<1>1. ASSUME NEW i \in 1..len
      PROVE  n(i) \in Nat
  <2>1. i - 1 \in 0..(len - 1)
    OBVIOUS
  <2>2. b[EntryAt(iovs, i - 1)] \in Byte
    BY <2>1 DEF Tracked
  <2> QED
    BY <2>2, BuffersTyped
<1>3. w = CHOOSE h : Eq(h)
  BY DEF Total
<1> HIDE DEF n
<1>4. /\ Steps(F, len, Nat)
      /\ \A i \in 1..len : \A x \in Nat : F[i][x] = x + n(i)
  BY <1>1 DEF Steps
<1>5. PICK g : Runs(g, 0, F, len, Nat)
  <2> HIDE DEF F
  <2> QED
    BY <1>4, Recursion
<1>6. Eq(g)
  <2> HIDE DEF F
  <2>1. ASSUME NEW i \in 0..len
        PROVE  g[i] = IF i = 0 THEN 0 ELSE g[i - 1] + n(i)
    <3>1. CASE i = 0
      BY <3>1, <1>5 DEF Runs
    <3>2. CASE i # 0
      <4>1. i \in 1..len /\ i - 1 \in 0..len
        BY <3>2
      <4>2. g[i] = F[i][g[i - 1]] /\ g[i - 1] \in Nat
        BY <4>1, <1>5 DEF Runs
      <4> QED
        BY <3>2, <4>1, <4>2, <1>4
    <3> QED
      BY <3>1, <3>2
  <2>2. g = [i \in 0..len |-> g[i]]
    BY <1>5 DEF Runs
  <2> QED
    BY <2>1, <2>2
<1>7. Eq(w)
  BY <1>3, <1>6
<1> HIDE DEF w
<1>8. w[0] = 0
  BY <1>7
<1>9. ASSUME NEW i \in 1..len
      PROVE  w[i] = w[i - 1] + n(i)
  <2>1. i \in 0..len /\ i # 0
    OBVIOUS
  <2> QED
    BY <2>1, <1>7
<1>10. \A i \in 0..len : w[i] \in Nat
  <2> DEFINE V == Nat
  <2>1. w[0] \in V /\ \A i \in 1..len : w[i - 1] \in V => w[i] \in V
    BY <1>1, <1>8, <1>9
  <2> HIDE DEF V
  <2>2. \A i \in 0..len : w[i] \in V
    BY <2>1, LoopKeeps
  <2> QED
    BY <2>2 DEF V
<1> QED
  BY <1>8, <1>9, <1>10 DEF w, n

LEMMA PointsPart ==
  ASSUME NEW c \in Calls, NEW k \in Slots, NEW a \in Nat, NEW n \in Nat,
         NEW part \in Nat, NEW size \in Nat,
         Points(c, k, a, n), a <= part, part + size <= a + n
  PROVE  Points(c, k, part, size)
<1>1. /\ c.mem.lowCap \in Nat /\ c.mem.argSize \in Nat
      /\ c.mem.upBegin \in Nat /\ c.mem.upEnd \in Nat
  BY CallFacts DEF Memory
<1> QED
  BY <1>1, Constants DEF Points, Holds, Segments

LEMMA AppendedFunction ==
  ASSUME NEW n \in Nat, NEW h
  PROVE  Append([j \in 1..n |-> h[j]], h[n + 1]) = [j \in 1..(n + 1) |-> h[j]]
<1> DEFINE s == [j \in 1..n |-> h[j]]
           V == {h[j] : j \in 1..(n + 1)}
<1>1. s \in Seq(V) /\ Len(s) = n /\ h[n + 1] \in V
  <2>1. s \in [1..n -> V]
    OBVIOUS
  <2>2. s \in Seq(V)
    BY <2>1, SeqDef
  <2> QED
    BY <2>1, <2>2, LenProperties
<1>2. \A j \in 1..n : s[j] = h[j]
  OBVIOUS
<1> HIDE DEF s, V
<1>3. /\ Append(s, h[n + 1]) \in Seq(V)
      /\ Len(Append(s, h[n + 1])) = n + 1
      /\ \A j \in 1..n : Append(s, h[n + 1])[j] = s[j]
      /\ Append(s, h[n + 1])[n + 1] = h[n + 1]
  BY <1>1, AppendProperties
<1> DEFINE t == Append(s, h[n + 1])
<1>4. t = [j \in 1..(n + 1) |-> t[j]]
  BY <1>3, LenProperties
<1> HIDE DEF t
<1>5. \A j \in 1..(n + 1) : t[j] = h[j]
  BY <1>2, <1>3 DEF t
<1>6. t = [j \in 1..(n + 1) |-> h[j]]
  BY <1>4, <1>5
<1> QED
  BY <1>6 DEF t, s

(* Two kept pointers and the bounds of the memory, as a loop leaves them.  *)
Steady(c, d) ==
  /\ Unharmed(d)
  /\ d.fate = "fine" => /\ SameBounds(c.mem, d.mem)
                        /\ d.kept[1] = c.kept[1] /\ d.kept[2] = c.kept[2]

VectorResident(m, iovs, len, count) ==
  /\ Resident(m, iovs, EntrySize * len)
  /\ Resident(m, count, 4)
  /\ BuffersResident(m)

(* A vector that is resident is read through a good pointer, turn for turn,*)
(* as long as the pointers and the bounds stay.                            *)
LEMMA SteadyVector ==
  ASSUME NEW m, Good(m), NEW iovs \in Nat, NEW len \in Nat, NEW count \in Nat,
         NEW start \in Calls, PairTaken(m, start, iovs, 4, count, 4),
         VectorResident(m, iovs, len, count), start.fate = "fine",
         NEW c \in Calls, c.fate = "fine", Steady(start, c)
  PROVE  /\ BuffersResident(c.mem)
         /\ \A i \in 0..(len - 1) :
              Points(c, 1, EntryAt(iovs, i), EntrySize)
         /\ Points(c, 2, count, 4)
<1>1. BuffersResident(c.mem)
  <2> SUFFICES ASSUME NEW b \in Byte
               PROVE  Resident(c.mem, Buffers[b][1], Buffers[b][2])
    BY DEF BuffersResident
  <2>1. Buffers[b][1] \in Nat /\ Buffers[b][2] \in Nat
    BY BuffersTyped
  <2>2. Resident(m, Buffers[b][1], Buffers[b][2])
    BY DEF VectorResident, BuffersResident
  <2>3. Resident(start.mem, Buffers[b][1], Buffers[b][2])
    BY <2>1, <2>2, WiderResident, CallFacts DEF PairTaken, Good
  <2> QED
    BY <2>3, SameBoundsKeep DEF Steady
<1>2. ASSUME NEW i \in 0..(len - 1)
      PROVE  Points(c, 1, EntryAt(iovs, i), EntrySize)
  <2> DEFINE all == EntrySize * len
             at == EntryAt(iovs, i)
  <2>1. /\ all \in Nat /\ 4 <= all /\ at \in Nat /\ iovs <= at
        /\ at + EntrySize <= iovs + all /\ EntrySize \in Nat
    BY DEF EntrySize, EntryAt
  <2>2. Resident(m, iovs, all) /\ Resident(m, count, 4)
    BY DEF VectorResident
  <2> HIDE DEF all, at
  <2>3. Points(start, 1, iovs, all)
    BY <2>1, <2>2 DEF PairTaken
  <2>4. Points(start, 1, at, EntrySize)
    BY <2>1, <2>3, SlotFacts, PointsPart
  <2>5. Points(c, 1, at, EntrySize)
    BY <2>4, SameBoundsKeep DEF Steady
  <2> QED
    BY <2>5 DEF at
<1>3. Points(c, 2, count, 4)
  BY SameBoundsKeep DEF Steady, PairTaken
<1> QED
  BY <1>1, <1>2, <1>3

(* fd_write sends the buffers and stores how many bytes they had, and uses *)
(* good pointers when the vector, its buffers and the count are resident.  *)
SentBuffers(b, iovs, len) ==
  [i \in 1..len |->
     LET e == Buffers[b[EntryAt(iovs, i - 1)]]
     IN [x \in Span(e[1], e[2]) |-> b[x]]]

LEMMA FdWriteDoes ==
  ASSUME NEW m, Good(m), Alive(m), Fits, WordsAreBytes, NEW fd,
         NEW iovs \in Nat, NEW len \in Nat, NEW nwritten \in Nat,
         Tracked(iovs, len)
  PROVE  LET c == FdWrite(m, fd, iovs, len, nwritten)
             b == View(m)
         IN /\ c \in Calls
            /\ c.fate = "fine" =>
                 /\ View(c.mem) = Overwrite(b,
                                    Word(nwritten, Total(b, iovs, len)[len]))
                 /\ c.sent = SentBuffers(b, iovs, len)
            /\ VectorResident(m, iovs, len, nwritten) => Unharmed(c)
<1> DEFINE b == View(m)
           start == VectorTaken(m, iovs, nwritten)
           w == WriteTurns(start, iovs, len)
           total == Total(b, iovs, len)
           done == w[len]
           word == Word(nwritten, done.count)
           p == Put(done, 2, nwritten, 4, word)
           c == FdWrite(m, fd, iovs, len, nwritten)
           h == SentBuffers(b, iovs, len)
<1>1. start \in Calls /\ PairTaken(m, start, iovs, 4, nwritten, 4)
  BY TakePair DEF VectorTaken
<1>2. c = IF start.fate = "fine" /\ fd \notin 1..2 THEN Ended(start, "abort")
          ELSE p
  BY DEF FdWrite, WriteTurns
<1> HIDE DEF start, c
<1>3. /\ w[0] = start
      /\ \A i \in 1..len : w[i] = Sent(w[i - 1], iovs, i - 1)
      /\ \A i \in 0..len : w[i] \in Calls
  BY <1>1, WriteTurnsRun
<1> HIDE DEF w
<1>4. b \in [Addr -> Byte]
  <2>1. ASSUME NEW x \in Addr
        PROVE  View(m)[x] \in Byte
    BY Constants DEF View, Good, Fit, Memory
  <2>2. View(m) = [x \in Addr |-> View(m)[x]]
    BY DEF View
  <2> QED
    BY <2>1, <2>2
<1> HIDE DEF b
<1>5. /\ total[0] = 0
      /\ \A i \in 1..len :
           total[i] = total[i - 1] + Buffers[b[EntryAt(iovs, i - 1)]][2]
      /\ \A i \in 0..len : total[i] \in Nat
  BY <1>4, TotalRuns
<1> HIDE DEF total
<1>6. ASSUME NEW i \in 1..len
      PROVE  /\ w[i - 1] \in Calls /\ w[i] \in Calls
             /\ EntryAt(iovs, i - 1) \in Addr
             /\ BufferSent(w[i - 1], w[i], EntryAt(iovs, i - 1))
  <2>1. i - 1 \in 0..len /\ i \in 0..len /\ i - 1 \in 0..(len - 1) /\ i - 1 \in Nat
    OBVIOUS
  <2> QED
    BY <2>1, <1>3, SentDoes DEF Tracked
<1>7. ASSUME NEW i \in 1..len
      PROVE  h[i] = LET e == Buffers[b[EntryAt(iovs, i - 1)]]
                    IN [x \in Span(e[1], e[2]) |-> b[x]]
  BY DEF SentBuffers
<1> HIDE DEF h
<1> DEFINE Good1 == {i \in 0..len :
             w[i].fate = "fine" =>
               /\ start.fate = "fine"
               /\ View(w[i].mem) = b
               /\ w[i].count = total[i]
               /\ w[i].sent = [j \in 1..i |-> h[j]]}
<1>8. 0 \in Good1
  <2>1. start.fate = "fine" => /\ View(start.mem) = b
                               /\ start.count = 0 /\ start.sent = <<>>
    BY <1>1 DEF PairTaken, b
  <2>2. [j \in 1..0 |-> h[j]] = <<>>
    OBVIOUS
  <2> QED
    BY <2>1, <2>2, <1>3, <1>5
<1>9. ASSUME NEW i \in 0..(len - 1), i \in Good1
      PROVE  i + 1 \in Good1
  <2>1. i + 1 \in 1..len /\ i + 1 \in 0..len /\ (i + 1) - 1 = i /\ i \in Nat
    OBVIOUS
  <2> SUFFICES ASSUME w[i + 1].fate = "fine"
               PROVE  /\ start.fate = "fine"
                      /\ View(w[i + 1].mem) = b
                      /\ w[i + 1].count = total[i + 1]
                      /\ w[i + 1].sent = [j \in 1..(i + 1) |-> h[j]]
    BY <2>1
  <2> DEFINE e == Buffers[b[EntryAt(iovs, i)]]
  <2>2. BufferSent(w[i], w[i + 1], EntryAt(iovs, i))
    BY <2>1, <1>6
  <2>3. w[i].fate = "fine"
    BY <2>2 DEF BufferSent
  <2>4. /\ start.fate = "fine" /\ View(w[i].mem) = b
        /\ w[i].count = total[i]
        /\ w[i].sent = [j \in 1..i |-> h[j]]
    BY <2>3, <1>9
  <2>5. /\ View(w[i + 1].mem) = b
        /\ w[i + 1].count = total[i] + e[2]
        /\ w[i + 1].sent = Append(w[i].sent, [x \in Span(e[1], e[2]) |-> b[x]])
    BY <2>2, <2>4 DEF BufferSent
  <2>6. total[i + 1] = total[i] + e[2]
    BY <2>1, <1>5
  <2>7. h[i + 1] = [x \in Span(e[1], e[2]) |-> b[x]]
    BY <2>1, <1>7
  <2> HIDE DEF e
  <2>8. w[i + 1].sent = [j \in 1..(i + 1) |-> h[j]]
    BY <2>1, <2>4, <2>5, <2>7, AppendedFunction
  <2> QED
    BY <2>4, <2>5, <2>6, <2>8
<1>10. len \in Good1
  <2> HIDE DEF Good1
  <2>1. 0..len \subseteq Good1
    BY <1>8, <1>9, UpTo
  <2> QED
    BY <2>1
<1>11. done \in Calls
  BY <1>3
<1>12. word \in [Span(nwritten, 4) -> Byte]
  BY <1>11, CallFacts, WordTyped
<1> HIDE DEF word
<1>13. p \in Calls /\ Stored(done, p, 2, nwritten, 4, word)
  BY <1>11, <1>12, SlotFacts, PutDoes
<1> HIDE DEF p, done
<1>14. c \in Calls
  <2>1. Ended(start, "abort") \in Calls
    BY <1>1, EndedCall DEF Fates
  <2> QED
    BY <2>1, <1>2, <1>13
<1>15. ASSUME c.fate = "fine"
       PROVE  /\ View(c.mem) = Overwrite(b, Word(nwritten, total[len]))
              /\ c.sent = h
  <2>1. c = p
    BY <1>1, <1>2, <1>15, EndedCall DEF Fates
  <2>2. done.fate = "fine" /\ done = w[len]
    BY <2>1, <1>13, <1>15 DEF Stored, done
  <2>3. /\ View(done.mem) = b /\ done.count = total[len]
        /\ done.sent = [j \in 1..len |-> h[j]]
    BY <2>2, <1>10
  <2>4. h = [j \in 1..len |-> h[j]]
    BY DEF h, SentBuffers
  <2> QED
    BY <2>1, <2>3, <2>4, <1>13, <1>15 DEF Stored, word
<1>16. ASSUME VectorResident(m, iovs, len, nwritten)
       PROVE  Unharmed(c)
  <2>1. CASE start.fate = "fine" /\ fd \notin 1..2
    BY <2>1, <1>1, <1>2, EndedCall DEF Fates, Unharmed
  <2>2. CASE ~(start.fate = "fine" /\ fd \notin 1..2)
    <3> DEFINE Good2 == {i \in 0..len : Steady(start, w[i])
                            /\ (w[i].fate = "fine" => start.fate = "fine")}
    <3>1. 0 \in Good2
      BY <1>1, <1>3 DEF Steady, PairTaken, SameBounds
    <3>2. ASSUME NEW i \in 0..(len - 1), i \in Good2
          PROVE  i + 1 \in Good2
      <4>1. i + 1 \in 1..len /\ i + 1 \in 0..len /\ (i + 1) - 1 = i /\ i \in Nat
        OBVIOUS
      <4>2. BufferSent(w[i], w[i + 1], EntryAt(iovs, i)) /\ w[i] \in Calls
        BY <4>1, <1>6
      <4>3. CASE w[i].fate # "fine"
        BY <4>1, <4>2, <4>3, <3>2 DEF BufferSent
      <4>4. CASE w[i].fate = "fine"
        <5>1. start.fate = "fine" /\ Steady(start, w[i])
          BY <4>4, <3>2
        <5>2. /\ BuffersResident(w[i].mem)
              /\ Points(w[i], 1, EntryAt(iovs, i), EntrySize)
          BY <5>1, <4>2, <4>4, <1>1, <1>16, SteadyVector
        <5>3. /\ Unharmed(w[i + 1])
              /\ w[i + 1].fate = "fine" => w[i + 1].mem = w[i].mem
          BY <5>2, <4>2, <4>4 DEF BufferSent
        <5>4. Steady(start, w[i + 1])
          BY <5>1, <5>3, <4>2, <4>4 DEF Steady, BufferSent
        <5> QED
          BY <4>1, <5>1, <5>4
      <4> QED
        BY <4>3, <4>4
    <3> HIDE DEF Good2
    <3>3. len \in Good2
      <4>1. 0..len \subseteq Good2
        BY <3>1, <3>2, UpTo
      <4> QED
        BY <4>1
    <3>4. Steady(start, done) /\ (done.fate = "fine" => start.fate = "fine")
      BY <3>3 DEF Good2, done
    <3>5. CASE done.fate # "fine"
      BY <2>2, <3>4, <3>5, <1>2, <1>13 DEF Stored, Steady
    <3>6. CASE done.fate = "fine"
      <4>1. Points(done, 2, nwritten, 4)
        BY <3>4, <3>6, <1>1, <1>11, <1>16, SteadyVector DEF done
      <4> QED
        BY <4>1, <2>2, <3>6, <1>2, <1>13 DEF Stored, Unharmed
    <3> QED
      BY <3>5, <3>6
  <2> QED
    BY <2>1, <2>2
<1> QED
  BY <1>14, <1>15, <1>16 DEF c, b, total, h

(* What one turn of fd_read has done: a share of buffer e is filled and    *)
(* counted, or the call has failed.                                        *)
Share(e, share) == IF share = "all" THEN e[2] ELSE e[2] \div 2

BufferFilled(c, d, at, share, letter) ==
  LET e == Buffers[View(c.mem)[at]]
      n == Share(e, share)
  IN
  /\ c.fate # "fine" => d.fate = c.fate
  /\ d.fate = "fine" =>
       /\ c.fate = "fine"
       /\ d.kept[1] = c.kept[1] /\ d.kept[2] = c.kept[2]
       /\ d.sent = c.sent
       /\ share = "fail" => d.failed /\ View(d.mem) = View(c.mem)
       /\ share # "fail" =>
            /\ d.failed = c.failed
            /\ d.count = c.count + n
            /\ View(d.mem)
                 = Overwrite(View(c.mem), [x \in Span(e[1], n) |-> letter])
  /\ c.fate = "fine" /\ Points(c, 1, at, EntrySize) /\ BuffersResident(c.mem)
       => Unharmed(d) /\ (d.fate = "fine" => SameBounds(c.mem, d.mem))

LEMMA ShareFacts ==
  ASSUME NEW b \in Byte, NEW share
  PROVE  /\ Share(Buffers[b], share) \in Nat
         /\ Share(Buffers[b], share) <= Buffers[b][2]
<1>1. Buffers[b][2] \in Nat
  BY BuffersTyped
<1> QED
  BY <1>1 DEF Share

LEMMA FilledDoes ==
  ASSUME NEW c \in Calls, Fits, NEW iovs \in Nat, NEW i \in Nat,
         EntryAt(iovs, i) \in Addr, NEW share, NEW letter \in Byte
  PROVE  /\ Filled(c, iovs, i, share, letter) \in Calls
         /\ BufferFilled(c, Filled(c, iovs, i, share, letter),
                         EntryAt(iovs, i), share, letter)
<1> DEFINE at == EntryAt(iovs, i)
           e == Buffers[Cell(c, 1, at)]
           n == Share(e, share)
           b == BufferTaken(c, iovs, i)
           f == [x \in Span(e[1], n) |-> letter]
           p == Put(b, 3, e[1], n, f)
           d == Filled(c, iovs, i, share, letter)
<1>1. /\ b \in Calls /\ e[1] \in Nat /\ e[2] \in Nat
      /\ Turned(c, b, at, e)
  BY BufferDoes
<1>2. d = IF b.fate # "fine" THEN b
          ELSE IF share = "fail" THEN [b EXCEPT !.failed = TRUE]
          ELSE [p EXCEPT !.count = p.count + n]
  BY DEF Filled, EntryAt, Share
<1>3. n \in Nat /\ n <= e[2]
  BY SlotFacts, CellIsByte, ShareFacts
<1>4. b.fate = "fine" => e = Buffers[View(c.mem)[at]]
  BY <1>1 DEF Turned
<1>4a. f \in [Span(e[1], n) -> Byte]
  OBVIOUS
<1> DEFINE full == [x \in Span(e[1], Share(e, share)) |-> letter]
<1>4b. f = full
  OBVIOUS
<1> HIDE DEF b, at, e, n, f
<1>5. p \in Calls /\ Stored(b, p, 3, e[1], n, f)
  BY <1>1, <1>3, <1>4a, SlotFacts, PutDoes
<1> HIDE DEF d, p
<1>6. CASE b.fate # "fine"
  <2>1. d = b
    BY <1>2, <1>6
  <2> QED
    BY <2>1, <1>1, <1>6 DEF Turned, BufferFilled, d, at
<1>7. CASE b.fate = "fine" /\ share = "fail"
  <2>1. d = [b EXCEPT !.failed = TRUE]
    BY <1>2, <1>7
  <2>2. /\ d \in Calls /\ d.fate = "fine" /\ d.mem = b.mem /\ d.kept = b.kept
        /\ d.sent = b.sent /\ d.failed = TRUE
    BY <2>1, <1>1, <1>7 DEF Calls, CallRecords
  <2>3. SameBounds(c.mem, c.mem)
    BY DEF SameBounds
  <2>4. BufferFilled(c, d, at, share, letter)
    BY <2>2, <2>3, <1>1, <1>7 DEF Turned, BufferFilled, Unharmed
  <2> QED
    BY <2>2, <2>4 DEF d, at
<1>8. CASE b.fate = "fine" /\ share # "fail"
  <2>1. d = [p EXCEPT !.count = p.count + n]
    BY <1>2, <1>8
  <2>2. /\ d \in Calls /\ d.fate = p.fate /\ d.mem = p.mem /\ d.kept = p.kept
        /\ d.sent = p.sent /\ d.failed = p.failed /\ d.count = p.count + n
    <3>1. p.count + n \in Nat
      BY <1>3, <1>5, CallFacts
    <3> QED
      BY <2>1, <3>1, <1>5 DEF Calls, CallRecords
  <2>3. Points(b, 3, e[1], n)
    <3>1. Points(b, 3, e[1], e[2])
      BY <1>1, <1>8 DEF Turned
    <3> QED
      BY <3>1, <1>1, <1>3, SlotFacts, PointsPart
  <2>4. p.fate = "fine"
    BY <2>3, <1>5, <1>8 DEF Stored
  <2>5. /\ c.fate = "fine" /\ View(p.mem) = Overwrite(View(c.mem), full)
        /\ SameBounds(b.mem, p.mem) /\ p.kept = b.kept /\ p.count = c.count
        /\ p.sent = c.sent /\ p.failed = c.failed
        /\ b.kept[1] = c.kept[1] /\ b.kept[2] = c.kept[2]
    BY <2>4, <1>1, <1>4b, <1>5, <1>8 DEF Stored, Turned
  <2>6. c.fate = "fine" /\ Points(c, 1, at, EntrySize) /\ BuffersResident(c.mem)
          => b.mem = c.mem
    BY <1>1, <1>8 DEF Turned
  <2>7. e = Buffers[View(c.mem)[at]] /\ n = Share(e, share)
    BY <1>4, <1>8 DEF n
  <2> HIDE DEF full
  <2>8. BufferFilled(c, d, at, share, letter)
    BY <2>2, <2>4, <2>5, <2>6, <2>7, <1>8 DEF BufferFilled, Unharmed, full
  <2> QED
    BY <2>2, <2>8 DEF d, at
<1> QED
  BY <1>6, <1>7, <1>8

(* The loop of fd_read: a failure ends it. *)
ReadTurns(start, iovs, len, filled, letter) ==
  CHOOSE g : g = [i \in 0..len |->
                    IF i = 0 THEN start
                    ELSE IF g[i - 1].failed THEN g[i - 1]
                    ELSE Filled(g[i - 1], iovs, i - 1, filled[i], letter)]

LEMMA ReadTurnsRun ==
  ASSUME NEW start \in Calls, Fits, NEW iovs \in Nat, NEW len \in Nat,
         Tracked(iovs, len), NEW filled, NEW letter \in Byte
  PROVE  LET g == ReadTurns(start, iovs, len, filled, letter) IN
         /\ g[0] = start
         /\ \A i \in 1..len :
              g[i] = IF g[i - 1].failed THEN g[i - 1]
                     ELSE Filled(g[i - 1], iovs, i - 1, filled[i], letter)
         /\ \A i \in 0..len : g[i] \in Calls
<1> DEFINE Turn(c, i) == IF c.failed THEN c
                         ELSE Filled(c, iovs, i - 1, filled[i], letter)
           F == [i \in 1..len |-> [c \in Calls |-> Turn(c, i)]]
           Eq(g) == g = [i \in 0..len |->
                           IF i = 0 THEN start ELSE Turn(g[i - 1], i)]
           w == ReadTurns(start, iovs, len, filled, letter)
<1>1. ASSUME NEW i \in 1..len, NEW c \in Calls
      PROVE  Turn(c, i) \in Calls
  <2>1. i - 1 \in 0..(len - 1) /\ i - 1 \in Nat
    OBVIOUS
  <2> QED
    BY <2>1, FilledDoes DEF Tracked
<1>5a. w = CHOOSE h : Eq(h)
  BY DEF ReadTurns
<1> HIDE DEF Turn
<1>2. /\ Steps(F, len, Calls)
      /\ \A i \in 1..len : \A c \in Calls : F[i][c] = Turn(c, i)
  BY <1>1 DEF Steps
<1>3. PICK g : Runs(g, start, F, len, Calls)
  <2> HIDE DEF F
  <2> QED
    BY <1>2, Recursion
<1>4. Eq(g)
  <2> HIDE DEF F
  <2>1. ASSUME NEW i \in 0..len
        PROVE  g[i] = IF i = 0 THEN start ELSE Turn(g[i - 1], i)
    <3>1. CASE i = 0
      BY <3>1, <1>3 DEF Runs
    <3>2. CASE i # 0
      <4>1. i \in 1..len /\ i - 1 \in 0..len
        BY <3>2
      <4>2. g[i] = F[i][g[i - 1]] /\ g[i - 1] \in Calls
        BY <4>1, <1>3 DEF Runs
      <4> QED
        BY <3>2, <4>1, <4>2, <1>2
    <3> QED
      BY <3>1, <3>2
  <2>2. g = [i \in 0..len |-> g[i]]
    BY <1>3 DEF Runs
  <2> QED
    BY <2>1, <2>2
<1>5. Eq(w)
  BY <1>4, <1>5a
<1> HIDE DEF w
<1>6. w[0] = start
  BY <1>5
<1>7. ASSUME NEW i \in 1..len
      PROVE  w[i] = Turn(w[i - 1], i)
  <2>1. i \in 0..len /\ i # 0
    OBVIOUS
  <2> QED
    BY <2>1, <1>5
<1>8. \A i \in 0..len : w[i] \in Calls
  <2>1. \A i \in 1..len : w[i - 1] \in Calls => w[i] \in Calls
    BY <1>1, <1>7
  <2> QED
    BY <2>1, <1>6, LoopKeeps
<1> QED
  BY <1>6, <1>7, <1>8 DEF w, Turn
(* The content and the count after the first i buffers have been filled.   *)
Arrays == [b : [Addr -> Byte], n : Nat]

AfterFill(a, iovs, i, share, letter) ==
  LET e == Buffers[a.b[EntryAt(iovs, i)]]
      n == Share(e, share)
  IN [b |-> Overwrite(a.b, [x \in Span(e[1], n) |-> letter]), n |-> a.n + n]

AfterFills(b0, iovs, len, filled, letter) ==
  CHOOSE g : g = [i \in 0..len |->
                    IF i = 0 THEN [b |-> b0, n |-> 0]
                    ELSE AfterFill(g[i - 1], iovs, i - 1, filled[i], letter)]

LEMMA OverwriteTyped ==
  ASSUME NEW b \in [Addr -> Byte], NEW S, NEW c \in [S -> Byte]
  PROVE  Overwrite(b, c) \in [Addr -> Byte]
BY DEF Overwrite

LEMMA AfterFillsRun ==
  ASSUME NEW b0 \in [Addr -> Byte], NEW iovs \in Nat, NEW len \in Nat,
         Tracked(iovs, len), NEW filled, NEW letter \in Byte
  PROVE  LET g == AfterFills(b0, iovs, len, filled, letter) IN
         /\ g[0] = [b |-> b0, n |-> 0]
         /\ \A i \in 1..len :
              g[i] = AfterFill(g[i - 1], iovs, i - 1, filled[i], letter)
         /\ \A i \in 0..len : g[i] \in Arrays
<1> DEFINE Turn(a, i) == AfterFill(a, iovs, i - 1, filled[i], letter)
           F == [i \in 1..len |-> [a \in Arrays |-> Turn(a, i)]]
           start == [b |-> b0, n |-> 0]
           Eq(g) == g = [i \in 0..len |->
                           IF i = 0 THEN start ELSE Turn(g[i - 1], i)]
           w == AfterFills(b0, iovs, len, filled, letter)
<1>0. start \in Arrays
  BY DEF Arrays
<1>1. ASSUME NEW i \in 1..len, NEW a \in Arrays
      PROVE  Turn(a, i) \in Arrays
  <2> DEFINE e == Buffers[a.b[EntryAt(iovs, i - 1)]]
             n == Share(e, filled[i])
             c == [x \in Span(e[1], n) |-> letter]
  <2>1. i - 1 \in 0..(len - 1) /\ a.b \in [Addr -> Byte] /\ a.n \in Nat
    BY DEF Arrays
  <2>2. a.b[EntryAt(iovs, i - 1)] \in Byte
    BY <2>1 DEF Tracked
  <2>3. n \in Nat
    BY <2>2, ShareFacts
  <2>4. c \in [Span(e[1], n) -> Byte]
    OBVIOUS
  <2>5. Turn(a, i) = [b |-> Overwrite(a.b, c), n |-> a.n + n]
    BY DEF AfterFill
  <2> HIDE DEF n, c, e
  <2>6. Overwrite(a.b, c) \in [Addr -> Byte]
    BY <2>1, <2>4, OverwriteTyped
  <2> QED
    BY <2>1, <2>3, <2>5, <2>6 DEF Arrays
<1>5a. w = CHOOSE h : Eq(h)
  BY DEF AfterFills
<1> HIDE DEF Turn, start
<1>2. /\ Steps(F, len, Arrays)
      /\ \A i \in 1..len : \A c \in Arrays : F[i][c] = Turn(c, i)
  BY <1>1 DEF Steps
<1>3. PICK g : Runs(g, start, F, len, Arrays)
  <2> HIDE DEF F
  <2> QED
    BY <1>0, <1>2, Recursion
<1>4. Eq(g)
  <2> HIDE DEF F
  <2>1. ASSUME NEW i \in 0..len
        PROVE  g[i] = IF i = 0 THEN start ELSE Turn(g[i - 1], i)
    <3>1. CASE i = 0
      BY <3>1, <1>3 DEF Runs
    <3>2. CASE i # 0
      <4>1. i \in 1..len /\ i - 1 \in 0..len
        BY <3>2
      <4>2. g[i] = F[i][g[i - 1]] /\ g[i - 1] \in Arrays
        BY <4>1, <1>3 DEF Runs
      <4> QED
        BY <3>2, <4>1, <4>2, <1>2
    <3> QED
      BY <3>1, <3>2
  <2>2. g = [i \in 0..len |-> g[i]]
    BY <1>3 DEF Runs
  <2> QED
    BY <2>1, <2>2
<1>5. Eq(w)
  BY <1>4, <1>5a
<1> HIDE DEF w
<1>6. w[0] = start
  BY <1>5
<1>7. ASSUME NEW i \in 1..len
      PROVE  w[i] = Turn(w[i - 1], i)
  <2>1. i \in 0..len /\ i # 0
    OBVIOUS
  <2> QED
    BY <2>1, <1>5
<1>8. \A i \in 0..len : w[i] \in Arrays
  <2>1. \A i \in 1..len : w[i - 1] \in Arrays => w[i] \in Arrays
    BY <1>1, <1>7
  <2> QED
    BY <2>1, <1>0, <1>6, LoopKeeps
<1> QED
  BY <1>6, <1>7, <1>8 DEF w, Turn, start

LEMMA ViewTyped ==
  ASSUME NEW m, Good(m)
  PROVE  View(m) \in [Addr -> Byte]
<1>1. ASSUME NEW x \in Addr
      PROVE  View(m)[x] \in Byte
  BY Constants DEF View, Good, Fit, Memory
<1>2. View(m) = [x \in Addr |-> View(m)[x]]
  BY DEF View
<1> QED
  BY <1>1, <1>2

(* fd_read fills the buffers in order until a read fails.  It then stores   *)
(* nothing, and otherwise how many bytes were read; it uses good pointers  *)
(* when the vector, its buffers and the count are resident.                *)
ReadsUpTo(filled, i) == \A j \in 1..i : filled[j] # "fail"

VectorFilled(c, r, len, nread, filled) ==
  /\ c.sent = <<>>
  /\ \/ \E i \in 1..len :
          /\ c.failed
          /\ filled[i] = "fail"
          /\ ReadsUpTo(filled, i - 1)
          /\ View(c.mem) = r[i - 1].b
     \/ /\ ~c.failed
        /\ ReadsUpTo(filled, len)
        /\ View(c.mem) = Overwrite(r[len].b, Word(nread, r[len].n))

LEMMA FdReadDoes ==
  ASSUME NEW m, Good(m), Alive(m), Fits, WordsAreBytes,
         NEW iovs \in Nat, NEW len \in Nat, NEW nread \in Nat,
         Tracked(iovs, len), NEW filled, NEW letter \in Byte
  PROVE  LET c == FdRead(m, iovs, len, nread, filled, letter)
             r == AfterFills(View(m), iovs, len, filled, letter)
         IN /\ c \in Calls
            /\ c.fate = "fine" => VectorFilled(c, r, len, nread, filled)
            /\ VectorResident(m, iovs, len, nread) => Unharmed(c)
<1> DEFINE b == View(m)
           start == VectorTaken(m, iovs, nread)
           w == ReadTurns(start, iovs, len, filled, letter)
           r == AfterFills(b, iovs, len, filled, letter)
           done == w[len]
           word == Word(nread, done.count)
           p == Put(done, 2, nread, 4, word)
           c == FdRead(m, iovs, len, nread, filled, letter)
<1>1. start \in Calls /\ PairTaken(m, start, iovs, 4, nread, 4)
  BY TakePair DEF VectorTaken
<1>2. c = IF done.failed THEN done ELSE p
  BY DEF FdRead, ReadTurns
<1> HIDE DEF start, c
<1>3. /\ w[0] = start
      /\ \A i \in 1..len :
           w[i] = IF w[i - 1].failed THEN w[i - 1]
                  ELSE Filled(w[i - 1], iovs, i - 1, filled[i], letter)
      /\ \A i \in 0..len : w[i] \in Calls
  BY <1>1, ReadTurnsRun
<1> HIDE DEF w
<1>4. b \in [Addr -> Byte]
  BY ViewTyped
<1> HIDE DEF b
<1>5. /\ r[0] = [b |-> b, n |-> 0]
      /\ \A i \in 1..len :
           r[i] = AfterFill(r[i - 1], iovs, i - 1, filled[i], letter)
      /\ \A i \in 0..len : r[i] \in Arrays
  BY <1>4, AfterFillsRun
<1> HIDE DEF r
<1>6. ASSUME NEW i \in 0..(len - 1)
      PROVE  /\ i + 1 \in 1..len /\ i \in 0..len /\ i + 1 \in 0..len
             /\ i \in Nat /\ (i + 1) - 1 = i
             /\ w[i] \in Calls /\ w[i + 1] \in Calls
             /\ EntryAt(iovs, i) \in Addr
             /\ w[i].failed => w[i + 1] = w[i]
             /\ ~w[i].failed => BufferFilled(w[i], w[i + 1], EntryAt(iovs, i),
                                             filled[i + 1], letter)
             /\ r[i + 1] = AfterFill(r[i], iovs, i, filled[i + 1], letter)
  <2>1. /\ i + 1 \in 1..len /\ i \in 0..len /\ i + 1 \in 0..len
        /\ i \in Nat /\ (i + 1) - 1 = i
    OBVIOUS
  <2>2. w[i + 1] = IF w[i].failed THEN w[i]
                   ELSE Filled(w[i], iovs, i, filled[i + 1], letter)
    BY <2>1, <1>3
  <2>3. w[i] \in Calls /\ w[i + 1] \in Calls /\ EntryAt(iovs, i) \in Addr
    BY <2>1, <1>3 DEF Tracked
  <2>4. r[i + 1] = AfterFill(r[i], iovs, i, filled[i + 1], letter)
    BY <2>1, <1>5
  <2> QED
    BY <2>1, <2>2, <2>3, <2>4, FilledDoes
<1> DEFINE Going(i) == /\ ~w[i].failed
                       /\ ReadsUpTo(filled, i)
                       /\ View(w[i].mem) = r[i].b
                       /\ w[i].count = r[i].n
           Given(i) == /\ w[i].failed
                       /\ \E j \in 1..i : /\ filled[j] = "fail"
                                          /\ ReadsUpTo(filled, j - 1)
                                          /\ View(w[i].mem) = r[j - 1].b
           Good1 == {i \in 0..len :
             w[i].fate = "fine" =>
               /\ w[i].sent = <<>>
               /\ Going(i) \/ Given(i)}
<1>8. 0 \in Good1
  <2>1. start.fate = "fine" =>
          /\ View(start.mem) = b
          /\ start.count = 0 /\ start.sent = <<>> /\ start.failed = FALSE
    BY <1>1 DEF PairTaken, b
  <2>2. ReadsUpTo(filled, 0)
    BY DEF ReadsUpTo
  <2> QED
    BY <2>1, <2>2, <1>3, <1>5
<1>9. ASSUME NEW i \in 0..(len - 1), i \in Good1
      PROVE  i + 1 \in Good1
  <2> DEFINE at == EntryAt(iovs, i)
             share == filled[i + 1]
  <2>1. /\ i + 1 \in 1..len /\ i \in 0..len /\ i + 1 \in 0..len
        /\ i \in Nat /\ (i + 1) - 1 = i
        /\ r[i + 1] = AfterFill(r[i], iovs, i, share, letter)
        /\ r[i] \in Arrays
    BY <1>5, <1>6
  <2> SUFFICES ASSUME w[i + 1].fate = "fine"
               PROVE  w[i + 1].sent = <<>> /\ (Going(i + 1) \/ Given(i + 1))
    BY <2>1
  <2>2. CASE w[i].failed
    <3>1. w[i + 1] = w[i]
      BY <2>2, <1>6
    <3>2. w[i].sent = <<>> /\ Given(i)
      BY <3>1, <2>2, <1>9
    <3>3. PICK j \in 1..i : /\ filled[j] = "fail"
                            /\ ReadsUpTo(filled, j - 1)
                            /\ View(w[i].mem) = r[j - 1].b
      BY <3>2
    <3>4. j \in 1..(i + 1)
      BY <2>1
    <3>5. Given(i + 1)
      BY <3>1, <3>3, <3>4, <2>2
    <3> QED
      BY <3>1, <3>2, <3>5
  <2>3. CASE ~w[i].failed
    <3>1. BufferFilled(w[i], w[i + 1], at, share, letter)
      BY <2>3, <1>6
    <3>2. w[i].fate = "fine"
      BY <3>1 DEF BufferFilled
    <3>3. /\ w[i].sent = <<>> /\ ReadsUpTo(filled, i)
          /\ View(w[i].mem) = r[i].b /\ w[i].count = r[i].n
      BY <3>2, <2>3, <1>9
    <3>4. w[i + 1].sent = <<>>
      BY <3>1, <3>3 DEF BufferFilled
    <3>5. CASE share = "fail"
      <4>1. w[i + 1].failed /\ View(w[i + 1].mem) = r[(i + 1) - 1].b
        BY <3>1, <3>3, <3>5, <2>1 DEF BufferFilled
      <4>2. ReadsUpTo(filled, (i + 1) - 1) /\ i + 1 \in 1..(i + 1)
        BY <3>3, <2>1
      <4>3. Given(i + 1)
        BY <4>1, <4>2, <3>5
      <4> QED
        BY <4>3, <3>4
    <3>6. CASE share # "fail"
      <4> DEFINE e == Buffers[r[i].b[at]]
                 n == Share(e, share)
      <4>1. /\ w[i + 1].failed = w[i].failed
            /\ w[i + 1].count = r[i].n + n
            /\ View(w[i + 1].mem)
                 = Overwrite(r[i].b, [x \in Span(e[1], n) |-> letter])
        BY <3>1, <3>3, <3>6 DEF BufferFilled
      <4>2. /\ r[i + 1].n = r[i].n + n
            /\ r[i + 1].b = Overwrite(r[i].b, [x \in Span(e[1], n) |-> letter])
        BY <2>1 DEF AfterFill
      <4>3. ReadsUpTo(filled, i + 1)
        BY <3>3, <3>6, <2>1 DEF ReadsUpTo
      <4> HIDE DEF e, n
      <4>4. Going(i + 1)
        BY <4>1, <4>2, <4>3, <2>3
      <4> QED
        BY <4>4, <3>4
    <3> QED
      BY <3>5, <3>6
  <2> QED
    BY <2>2, <2>3
<1>10. len \in Good1
  <2> HIDE DEF Good1
  <2>1. 0..len \subseteq Good1
    BY <1>8, <1>9, UpTo
  <2> QED
    BY <2>1
<1>11. done \in Calls
  BY <1>3
<1>12. word \in [Span(nread, 4) -> Byte]
  BY <1>11, CallFacts, WordTyped
<1> HIDE DEF word
<1>13. p \in Calls /\ Stored(done, p, 2, nread, 4, word)
  BY <1>11, <1>12, SlotFacts, PutDoes
<1> HIDE DEF p, done
<1>14. c \in Calls
  BY <1>2, <1>11, <1>13
<1>15. ASSUME c.fate = "fine"
       PROVE  VectorFilled(c, r, len, nread, filled)
  <2>1. CASE done.failed
    <3>1. c = done /\ done = w[len]
      BY <2>1, <1>2 DEF done
    <3>2. done.sent = <<>> /\ Given(len)
      BY <3>1, <2>1, <1>10, <1>15
    <3> QED
      BY <3>1, <3>2 DEF VectorFilled
  <2>2. CASE ~done.failed
    <3>1. c = p
      BY <2>2, <1>2
    <3>2. /\ done.fate = "fine" /\ done = w[len]
          /\ View(p.mem) = Overwrite(View(done.mem), word)
          /\ p.sent = done.sent /\ p.failed = done.failed
      BY <3>1, <1>13, <1>15 DEF Stored, done
    <3>3. done.sent = <<>> /\ Going(len)
      BY <3>2, <2>2, <1>10
    <3> QED
      BY <3>1, <3>2, <3>3 DEF word, VectorFilled
  <2> QED
    BY <2>1, <2>2
<1>16. ASSUME VectorResident(m, iovs, len, nread)
       PROVE  Unharmed(c)
  <2> DEFINE Good2 == {i \in 0..len : Steady(start, w[i])
                          /\ (w[i].fate = "fine" => start.fate = "fine")}
  <2>1. 0 \in Good2
    BY <1>1, <1>3 DEF Steady, PairTaken, SameBounds
  <2>2. ASSUME NEW i \in 0..(len - 1), i \in Good2
        PROVE  i + 1 \in Good2
    <3>1. i + 1 \in 0..len /\ i \in 0..len /\ w[i] \in Calls
      BY <1>6
    <3>2. CASE w[i].failed
      BY <3>1, <3>2, <1>6, <2>2
    <3>3. CASE ~w[i].failed
      <4>1. BufferFilled(w[i], w[i + 1], EntryAt(iovs, i), filled[i + 1], letter)
        BY <3>3, <1>6
      <4>2. CASE w[i].fate # "fine"
        <5>1. w[i + 1].fate = w[i].fate
          BY <4>1, <4>2 DEF BufferFilled
        <5> QED
          BY <5>1, <4>2, <3>1, <2>2 DEF Steady, Unharmed
      <4>3. CASE w[i].fate = "fine"
        <5>1. start.fate = "fine" /\ Steady(start, w[i])
          BY <4>3, <2>2
        <5>2. /\ BuffersResident(w[i].mem)
              /\ Points(w[i], 1, EntryAt(iovs, i), EntrySize)
          BY <5>1, <3>1, <4>3, <1>1, <1>16, SteadyVector
        <5>3. /\ Unharmed(w[i + 1])
              /\ w[i + 1].fate = "fine" =>
                   /\ SameBounds(w[i].mem, w[i + 1].mem)
                   /\ w[i + 1].kept[1] = w[i].kept[1]
                   /\ w[i + 1].kept[2] = w[i].kept[2]
          BY <5>2, <4>1, <4>3 DEF BufferFilled
        <5>4. Steady(start, w[i + 1])
          BY <5>1, <5>3, <4>3, SameBoundsTransitive DEF Steady
        <5> QED
          BY <3>1, <5>1, <5>4
      <4> QED
        BY <4>2, <4>3
    <3> QED
      BY <3>2, <3>3
  <2> HIDE DEF Good2
  <2>3. len \in Good2
    <3>1. 0..len \subseteq Good2
      BY <2>1, <2>2, UpTo
    <3> QED
      BY <3>1
  <2>4. Steady(start, done) /\ (done.fate = "fine" => start.fate = "fine")
    BY <2>3 DEF Good2, done
  <2>5. CASE done.failed \/ done.fate # "fine"
    BY <2>4, <2>5, <1>2, <1>13 DEF Stored, Steady
  <2>6. CASE ~done.failed /\ done.fate = "fine"
    <3>1. Points(done, 2, nread, 4)
      BY <2>4, <2>6, <1>1, <1>11, <1>16, SteadyVector DEF done
    <3> QED
      BY <3>1, <2>6, <1>2, <1>13 DEF Stored, Unharmed
  <2> QED
    BY <2>5, <2>6
<1> QED
  BY <1>14, <1>15, <1>16 DEF c, b, r
-----------------------------------------------------------------------------
(* The command line in guest memory: pointers and strings. *)

PointerSpan(argv, j) == Span(argv + PtrSize * (j - 1), PtrSize)
StringSpan(buf, j) == Span(StringAt(buf, j - 1), Argv[j].len)

AreasApart(argv, buf) ==
  \/ argv + PtrSize * Len(Argv) <= buf
  \/ buf + StringsSize <= argv

LEMMA EndsBefore ==
  ASSUME NEW a \in Nat, NEW l \in Nat, NEW b \in Nat, NEW x \in Nat,
         a + l < b, b <= x
  PROVE  ~(x < a + l)
OBVIOUS

LEMMA LiesInside ==
  ASSUME NEW p \in Nat, NEW a \in Nat, NEW l \in Nat, NEW b \in Nat,
         NEW s \in Nat, NEW x \in Nat,
         p <= a, a + l < b, b <= p + s, a <= x, x < a + l
  PROVE  p <= x /\ x < p + s
OBVIOUS

LEMMA SumLess ==
  ASSUME NEW p \in Nat, NEW a \in Nat, NEW l \in Nat, NEW b \in Nat,
         a + l < b
  PROVE  (p + a) + l < p + b
OBVIOUS

LEMMA SizesGrow ==
  \A j \in 0..Len(Argv) : \A i \in 0..j : Sizes[i] <= Sizes[j]
<1> DEFINE n == Len(Argv)
           S == {j \in 0..n : \A i \in 0..j : Sizes[i] <= Sizes[j]}
<1>1. n \in Nat
  BY ArgvFacts
<1> HIDE DEF n
<1>2. \A i \in 0..n : Sizes[i] \in Nat
  BY SizesFacts DEF n
<1>3. 0 \in S
  BY <1>1, <1>2
<1>4. ASSUME NEW j \in 0..(n - 1), j \in S
      PROVE  j + 1 \in S
  <2>1. j + 1 \in 1..n /\ j + 1 \in 0..n /\ (j + 1) - 1 = j /\ j \in 0..n
    BY <1>1
  <2>2. Sizes[j + 1] = Sizes[j] + Argv[j + 1].len + 1 /\ Argv[j + 1].len \in Nat
    BY <2>1, SizesFacts, ArgvFacts DEF n
  <2>3. Sizes[j] <= Sizes[j + 1] /\ Sizes[j] \in Nat /\ Sizes[j + 1] \in Nat
    BY <2>1, <2>2, <1>2
  <2>4. ASSUME NEW i \in 0..(j + 1)
        PROVE  Sizes[i] <= Sizes[j + 1]
    <3>1. CASE i = j + 1
      BY <3>1, <2>3
    <3>2. CASE i # j + 1
      <4>1. i \in 0..j /\ i \in 0..n
        BY <3>2, <2>1, <1>1
      <4>2. Sizes[i] <= Sizes[j] /\ Sizes[i] \in Nat
        BY <4>1, <1>2, <1>4
      <4> QED
        BY <4>2, <2>3
    <3> QED
      BY <3>1, <3>2
  <2> QED
    BY <2>1, <2>4
<1> HIDE DEF S
<1>5. 0..n \subseteq S
  BY <1>1, <1>3, <1>4, UpTo
<1> QED
  BY <1>5 DEF S, n

(* String j lies where the strings before it end, and inside the area. *)
LEMMA StringPlaces ==
  ASSUME NEW j \in 1..Len(Argv), NEW buf \in Nat
  PROVE  /\ j \in Nat /\ j - 1 \in Nat /\ Argv[j].len \in Nat
         /\ StringAt(buf, j - 1) \in Nat /\ buf <= StringAt(buf, j - 1)
         /\ StringAt(buf, j - 1) + Argv[j].len < StringAt(buf, j)
         /\ StringAt(buf, j) <= buf + StringsSize
         /\ \A i \in 1..(j - 1) :
              StringAt(buf, i - 1) + Argv[i].len < StringAt(buf, j - 1)
<1> DEFINE n == Len(Argv)
<1>1. n \in Nat /\ \A i \in 1..n : Argv[i].len \in Nat
  BY ArgvFacts
<1>2. j \in 0..n /\ j - 1 \in 0..n /\ n \in 0..n /\ j \in 0..n
  BY <1>1
<1>3. /\ \A i \in 0..n : Sizes[i] \in Nat
      /\ \A i \in 1..n : Sizes[i] = Sizes[i - 1] + Argv[i].len + 1
  BY SizesFacts
<1>4. Sizes[j] <= Sizes[n]
  BY <1>2, SizesGrow
<1>5. ASSUME NEW i \in 1..(j - 1)
      PROVE  StringAt(buf, i - 1) + Argv[i].len < StringAt(buf, j - 1)
  <2>1. i \in 0..(j - 1) /\ i \in 1..n /\ i - 1 \in 0..n /\ i \in 0..n
    BY <1>1, <1>2
  <2>2. Sizes[i] <= Sizes[j - 1]
    BY <2>1, <1>2, SizesGrow
  <2>3. Sizes[i] = Sizes[i - 1] + Argv[i].len + 1
    BY <2>1, <1>3
  <2>4. /\ Sizes[i] \in Nat /\ Sizes[i - 1] \in Nat /\ Sizes[j - 1] \in Nat
        /\ Argv[i].len \in Nat
    BY <2>1, <1>1, <1>2, <1>3
  <2>5. Sizes[i - 1] + Argv[i].len < Sizes[j - 1]
    BY <2>2, <2>3, <2>4
  <2>6. (buf + Sizes[i - 1]) + Argv[i].len < buf + Sizes[j - 1]
    BY <2>4, <2>5, SumLess
  <2> HIDE DEF n
  <2> QED
    BY <2>6 DEF StringAt
<1>6. Sizes[j] = Sizes[j - 1] + Argv[j].len + 1
  BY <1>3
<1>7. StringsSize = Sizes[n]
  BY DEF StringsSize
<1>8. /\ Sizes[j] \in Nat /\ Sizes[j - 1] \in Nat /\ Sizes[n] \in Nat
      /\ Argv[j].len \in Nat /\ j \in Nat /\ j - 1 \in Nat
  BY <1>1, <1>2, <1>3
<1>9. /\ StringAt(buf, j - 1) = buf + Sizes[j - 1]
      /\ StringAt(buf, j) = buf + Sizes[j]
  BY DEF StringAt
<1>10. /\ StringAt(buf, j - 1) \in Nat /\ buf <= StringAt(buf, j - 1)
       /\ StringAt(buf, j - 1) + Argv[j].len < StringAt(buf, j)
       /\ StringAt(buf, j) <= buf + StringsSize
  <2> DEFINE a == Sizes[j - 1]
             b == Sizes[j]
             c == Sizes[n]
             l == Argv[j].len
  <2>1. /\ a \in Nat /\ b \in Nat /\ c \in Nat /\ l \in Nat
        /\ b <= c /\ b = a + l + 1
    BY <1>4, <1>6, <1>8
  <2> HIDE DEF a, b, c, l, n
  <2>2. /\ buf + a \in Nat /\ buf <= buf + a
        /\ buf + a + l < buf + b /\ buf + b <= buf + c
    BY <2>1
  <2> QED
    BY <2>2, <1>7, <1>9 DEF a, b, c, l
<1> QED
  BY <1>5, <1>8, <1>10

(* Pointers and strings overlap nowhere. *)
LEMMA ArgsDisjoint ==
  ASSUME NEW argv \in Nat, NEW buf \in Nat, AreasApart(argv, buf),
         NEW i \in 1..Len(Argv), NEW j \in 1..Len(Argv)
  PROVE  /\ \A x \in PointerSpan(argv, i) : x \notin StringSpan(buf, j)
         /\ \A x \in PointerSpan(argv, i) : x \in PointerSpan(argv, j) => i = j
         /\ \A x \in StringSpan(buf, i) : x \in StringSpan(buf, j) => i = j
<1>1. Addr \subseteq Nat /\ Len(Argv) \in Nat /\ StringsSize \in Nat
  BY Constants, ArgvFacts, StringsSizeNat
<1>2. ASSUME NEW x \in PointerSpan(argv, i)
      PROVE  /\ x \in Nat
             /\ argv + 4 * (i - 1) <= x /\ x < argv + 4 * (i - 1) + 4
  BY <1>1 DEF PointerSpan, Span, PtrSize
<1>3. ASSUME NEW x \in PointerSpan(argv, i), x \in StringSpan(buf, j)
      PROVE  FALSE
  <2>1. argv <= x /\ x < argv + PtrSize * Len(Argv)
    BY <1>1, <1>2 DEF PtrSize
  <2>2. /\ StringAt(buf, j - 1) <= x
        /\ x < StringAt(buf, j - 1) + Argv[j].len
    BY <1>3 DEF StringSpan, Span
  <2>3. /\ StringAt(buf, j - 1) \in Nat /\ buf <= StringAt(buf, j - 1)
        /\ StringAt(buf, j - 1) + Argv[j].len < StringAt(buf, j)
        /\ StringAt(buf, j) <= buf + StringsSize
        /\ Argv[j].len \in Nat
    BY StringPlaces
  <2>4. StringAt(buf, j) \in Nat
    <3>1. j \in 0..Len(Argv)
      BY <1>1
    <3> QED
      BY <3>1, SizesFacts DEF StringAt
  <2>5. buf <= x /\ x < buf + StringsSize
    <3>1. x \in Nat /\ StringsSize \in Nat
      BY <1>1, <1>2, <1>3
    <3> QED
      BY <2>2, <2>3, <2>4, <3>1, LiesInside
  <2> DEFINE s == StringsSize
             n == Len(Argv)
  <2>6. /\ x \in Nat /\ s \in Nat /\ n \in Nat
        /\ argv <= x /\ x < argv + 4 * n /\ buf <= x /\ x < buf + s
        /\ argv + 4 * n <= buf \/ buf + s <= argv
    BY <2>1, <2>5, <1>1, <1>2, <1>3 DEF AreasApart, PtrSize
  <2> HIDE DEF s, n
  <2> QED
    BY <2>6
<1>4. ASSUME NEW x \in PointerSpan(argv, i), x \in PointerSpan(argv, j)
      PROVE  i = j
  BY <1>1, <1>2, <1>4 DEF PointerSpan, Span, PtrSize
<1>5. ASSUME NEW k \in 1..Len(Argv), NEW l \in 1..Len(Argv), k < l,
             NEW x \in StringSpan(buf, k), x \in StringSpan(buf, l)
      PROVE  FALSE
  <2>1. k \in 1..(l - 1)
    BY <1>1, <1>5
  <2>2. /\ StringAt(buf, k - 1) + Argv[k].len < StringAt(buf, l - 1)
        /\ StringAt(buf, k - 1) \in Nat /\ Argv[k].len \in Nat
        /\ StringAt(buf, l - 1) \in Nat
    BY <2>1, StringPlaces
  <2>3. /\ x \in Nat /\ x < StringAt(buf, k - 1) + Argv[k].len
        /\ StringAt(buf, l - 1) <= x
    BY <1>1, <1>5 DEF StringSpan, Span
  <2> QED
    BY <2>2, <2>3, EndsBefore
<1>6. ASSUME NEW x \in StringSpan(buf, i), x \in StringSpan(buf, j)
      PROVE  i = j
  <2>1. i \in Nat /\ j \in Nat
    OBVIOUS
  <2> QED
    BY <2>1, <1>5, <1>6
<1> QED
  BY <1>3, <1>4, <1>6

(* What has become of the content b when i pointers and strings have been  *)
(* copied.                                                                 *)
Copied(b, d, argv, buf, i) ==
  /\ d \in [Addr -> Byte]
  /\ \A j \in 1..i :
       /\ \A x \in PointerSpan(argv, j) : d[x] = Coded(StringAt(buf, j - 1))
       /\ \A x \in StringSpan(buf, j) : d[x] = Argv[j].letter
  /\ \A x \in Addr :
       (\A j \in 1..i : x \notin PointerSpan(argv, j) /\ x \notin StringSpan(buf, j))
         => d[x] = b[x]

LEMMA CopiedOneMore ==
  ASSUME NEW argv \in Nat, NEW buf \in Nat, AreasApart(argv, buf),
         WordsAreBytes, NEW b, NEW d, NEW i \in 0..(Len(Argv) - 1),
         Copied(b, d, argv, buf, i)
  PROVE  Copied(b, Overwrite(Overwrite(d, Word(argv + PtrSize * i,
                                               StringAt(buf, i))),
                             [x \in StringSpan(buf, i + 1) |->
                                Argv[i + 1].letter]),
                argv, buf, i + 1)
<1> DEFINE n == Len(Argv)
           w == Word(argv + PtrSize * i, StringAt(buf, i))
           s == [x \in StringSpan(buf, i + 1) |-> Argv[i + 1].letter]
           d1 == Overwrite(d, w)
           d2 == Overwrite(d1, s)
<1>1. /\ n \in Nat /\ i \in Nat /\ i + 1 \in 1..n /\ (i + 1) - 1 = i
      /\ StringAt(buf, i) \in Nat /\ Argv[i + 1].letter \in Byte
  <2>1. n \in Nat /\ i + 1 \in 1..n /\ i \in Nat /\ (i + 1) - 1 = i
    BY ArgvFacts
  <2>2. StringAt(buf, (i + 1) - 1) \in Nat
    BY <2>1, StringPlaces
  <2>3. Argv[i + 1].letter \in Byte
    BY <2>1, ArgvFacts
  <2> QED
    BY <2>1, <2>2, <2>3
<1>2. w = [x \in PointerSpan(argv, i + 1) |-> Coded(StringAt(buf, i))]
  BY <1>1 DEF Word, PointerSpan
<1>3. /\ w \in [PointerSpan(argv, i + 1) -> Byte]
      /\ s \in [StringSpan(buf, i + 1) -> Byte]
  BY <1>1, <1>2 DEF WordsAreBytes
<1>4. d \in [Addr -> Byte]
  BY DEF Copied
<1>5. d1 \in [Addr -> Byte] /\ d2 \in [Addr -> Byte]
  <2> HIDE DEF w, s
  <2> QED
    BY <1>3, <1>4, OverwriteTyped
<1>6. ASSUME NEW x \in Addr
      PROVE  d2[x] = IF x \in StringSpan(buf, i + 1) THEN Argv[i + 1].letter
                     ELSE IF x \in PointerSpan(argv, i + 1)
                       THEN Coded(StringAt(buf, i))
                     ELSE d[x]
  BY <1>2 DEF Overwrite
<1> HIDE DEF d2, d1, w, s
<1>7. ASSUME NEW j \in 1..n
      PROVE  PointerSpan(argv, j) \subseteq Addr /\ StringSpan(buf, j) \subseteq Addr
  BY DEF PointerSpan, StringSpan, Span
<1>8. ASSUME NEW j \in 1..(i + 1), NEW x \in PointerSpan(argv, j)
      PROVE  d2[x] = Coded(StringAt(buf, j - 1))
  <2>1. j \in 1..n /\ x \in Addr
    BY <1>1, <1>7
  <2>2. x \notin StringSpan(buf, i + 1)
    BY <2>1, <1>1, ArgsDisjoint
  <2>3. CASE j = i + 1
    BY <2>1, <2>2, <2>3, <1>1, <1>6
  <2>4. CASE j # i + 1
    <3>1. j \in 1..i /\ x \notin PointerSpan(argv, i + 1)
      BY <2>1, <2>4, <1>1, ArgsDisjoint
    <3> QED
      BY <3>1, <2>1, <2>2, <1>6 DEF Copied
  <2> QED
    BY <2>3, <2>4
<1>9. ASSUME NEW j \in 1..(i + 1), NEW x \in StringSpan(buf, j)
      PROVE  d2[x] = Argv[j].letter
  <2>1. j \in 1..n /\ x \in Addr
    BY <1>1, <1>7
  <2>3. CASE j = i + 1
    BY <2>1, <2>3, <1>6
  <2>4. CASE j # i + 1
    <3>1. /\ j \in 1..i /\ x \notin PointerSpan(argv, i + 1)
          /\ x \notin StringSpan(buf, i + 1)
      BY <2>1, <2>4, <1>1, ArgsDisjoint
    <3> QED
      BY <3>1, <2>1, <1>6 DEF Copied
  <2> QED
    BY <2>3, <2>4
<1>10. ASSUME NEW x \in Addr,
              \A j \in 1..(i + 1) :
                x \notin PointerSpan(argv, j) /\ x \notin StringSpan(buf, j)
       PROVE  d2[x] = b[x]
  <2>1. i + 1 \in 1..(i + 1) /\ \A j \in 1..i : j \in 1..(i + 1)
    BY <1>1
  <2>2. d2[x] = d[x]
    BY <2>1, <1>6, <1>10
  <2>3. d[x] = b[x]
    BY <2>1, <1>10 DEF Copied
  <2> QED
    BY <2>2, <2>3
<1>11. Copied(b, d2, argv, buf, i + 1)
  BY <1>5, <1>8, <1>9, <1>10 DEF Copied
<1> QED
  BY <1>11 DEF d2, d1, w, s
LEMMA ResidentPart ==
  ASSUME NEW m, Good(m), NEW a \in Nat, NEW n \in Nat, Resident(m, a, n),
         NEW part \in Nat, NEW size \in Nat, a <= part, part + size <= a + n
  PROVE  Resident(m, part, size)
BY BoundsNat, Constants DEF Resident, Good

(* What one turn of args_get has done. *)
ArgDone(c, d, argv, buf, i) ==
  LET at == argv + PtrSize * i
      s  == StringAt(buf, i)
      n  == Argv[i + 1].len
  IN
  /\ c.fate # "fine" => d = c
  /\ d.fate = "fine" =>
       /\ c.fate = "fine"
       /\ View(d.mem)
            = Overwrite(Overwrite(View(c.mem), Word(at, s)),
                        [x \in StringSpan(buf, i + 1) |-> Argv[i + 1].letter])
       /\ d.kept[1] = c.kept[1]
       /\ d.sent = c.sent
  /\ c.fate = "fine" /\ Points(c, 1, at, PtrSize) /\ Resident(c.mem, s, n)
       => Unharmed(d) /\ (d.fate = "fine" => SameBounds(c.mem, d.mem))

LEMMA ArgCopiedDoes ==
  ASSUME NEW c \in Calls, Fits, WordsAreBytes, NEW argv \in Nat, NEW buf \in Nat,
         NEW i \in 0..(Len(Argv) - 1)
  PROVE  /\ ArgCopied(c, argv, buf, i) \in Calls
         /\ ArgDone(c, ArgCopied(c, argv, buf, i), argv, buf, i)
<1> DEFINE at == argv + PtrSize * i
           s  == StringAt(buf, i)
           n  == Argv[i + 1].len
           w  == Word(at, s)
           t  == [x \in Span(s, n) |-> Argv[i + 1].letter]
           c1 == Put(c, 1, at, PtrSize, w)
           c2 == Take(c1, 3, s, n)
           d  == Put(c2, 3, s, n, t)
<1>1. /\ i \in Nat /\ i + 1 \in 1..Len(Argv) /\ (i + 1) - 1 = i
      /\ PtrSize = 4
  BY ArgvFacts DEF PtrSize
<1>2. at \in Nat /\ n \in Nat /\ Argv[i + 1].letter \in Byte
  BY <1>1, ArgvFacts
<1>3. s \in Nat
  <2>1. StringAt(buf, (i + 1) - 1) \in Nat
    BY <1>1, StringPlaces
  <2> QED
    BY <2>1, <1>1
<1>4. t \in [Span(s, n) -> Byte]
  BY <1>2
<1>5. t = [x \in StringSpan(buf, i + 1) |-> Argv[i + 1].letter]
  BY <1>1 DEF StringSpan
<1>6. d = ArgCopied(c, argv, buf, i)
  BY DEF ArgCopied
<1> HIDE DEF at, s, n, t
<1>7. w \in [Span(at, PtrSize) -> Byte]
  BY <1>1, <1>2, <1>3, WordTyped
<1> HIDE DEF w
<1>8. c1 \in Calls /\ Stored(c, c1, 1, at, PtrSize, w)
  BY <1>1, <1>2, <1>7, SlotFacts, PutDoes
<1> HIDE DEF c1
<1>9. c2 \in Calls /\ Taken(c1, c2, 3, s, n)
  BY <1>2, <1>3, <1>8, SlotFacts, TakeDoes
<1> HIDE DEF c2
<1>10. d \in Calls /\ Stored(c2, d, 3, s, n, t)
  BY <1>2, <1>3, <1>4, <1>9, SlotFacts, PutDoes
<1> HIDE DEF d
<1>11. c.fate # "fine" => d = c
  BY <1>8, <1>9, <1>10 DEF Stored, Taken
<1>12. 1 \in Slots \ {3}
  BY DEF Slots
<1>13. ASSUME d.fate = "fine"
       PROVE  /\ c.fate = "fine"
              /\ View(d.mem) = Overwrite(Overwrite(View(c.mem), w), t)
              /\ d.kept[1] = c.kept[1]
              /\ d.sent = c.sent
  BY <1>8, <1>9, <1>10, <1>12, <1>13 DEF Stored, Taken
<1>14. ASSUME c.fate = "fine", Points(c, 1, at, PtrSize),
              Resident(c.mem, s, n)
       PROVE  Unharmed(d) /\ (d.fate = "fine" => SameBounds(c.mem, d.mem))
  <2>1. c1.fate = "fine" /\ SameBounds(c.mem, c1.mem)
    BY <1>8, <1>14 DEF Stored
  <2>2. Resident(c1.mem, s, n)
    BY <2>1, <1>14, SameBoundsKeep
  <2>3. CASE c2.fate # "fine"
    BY <2>1, <2>3, <1>9, <1>10 DEF Stored, Taken, Unharmed
  <2>4. CASE c2.fate = "fine"
    <3>1. c2.mem = c1.mem /\ Points(c2, 3, s, n)
      BY <2>2, <2>4, <1>9 DEF Taken
    <3>2. d.fate = "fine" /\ SameBounds(c2.mem, d.mem)
      BY <3>1, <2>4, <1>10 DEF Stored
    <3> QED
      BY <3>1, <3>2, <2>1, SameBoundsTransitive DEF Unharmed
  <2> QED
    BY <2>3, <2>4
<1>15. ArgDone(c, d, argv, buf, i)
  BY <1>5, <1>11, <1>13, <1>14 DEF ArgDone, at, s, n, w
<1> QED
  BY <1>6, <1>10, <1>15

ArgTurns(start, argv, buf) ==
  CHOOSE g : g = [i \in 0..Len(Argv) |->
                    IF i = 0 THEN start ELSE ArgCopied(g[i - 1], argv, buf, i - 1)]

LEMMA ArgTurnsRun ==
  ASSUME NEW start \in Calls, Fits, WordsAreBytes, NEW argv \in Nat,
         NEW buf \in Nat
  PROVE  LET g == ArgTurns(start, argv, buf) IN
         /\ g[0] = start
         /\ \A i \in 1..Len(Argv) : g[i] = ArgCopied(g[i - 1], argv, buf, i - 1)
         /\ \A i \in 0..Len(Argv) : g[i] \in Calls
<1> DEFINE len == Len(Argv)
           F == [i \in 1..len |-> [c \in Calls |-> ArgCopied(c, argv, buf, i - 1)]]
           Eq(g) == g = [i \in 0..len |->
                           IF i = 0 THEN start
                           ELSE ArgCopied(g[i - 1], argv, buf, i - 1)]
           w == ArgTurns(start, argv, buf)
<1>0. len \in Nat
  BY ArgvFacts
<1>1. ASSUME NEW i \in 1..len, NEW c \in Calls
      PROVE  ArgCopied(c, argv, buf, i - 1) \in Calls
  <2>1. i - 1 \in 0..(len - 1)
    BY <1>0
  <2> QED
    BY <2>1, ArgCopiedDoes
<1>5a. w = CHOOSE h : Eq(h)
  BY DEF ArgTurns
<1> HIDE DEF len
<1>2. /\ Steps(F, len, Calls)
      /\ \A i \in 1..len : \A c \in Calls : F[i][c] = ArgCopied(c, argv, buf, i - 1)
  BY <1>1 DEF Steps
<1>3. PICK g : Runs(g, start, F, len, Calls)
  <2> HIDE DEF F
  <2> QED
    BY <1>0, <1>2, Recursion
<1>4. Eq(g)
  <2> HIDE DEF F
  <2>1. ASSUME NEW i \in 0..len
        PROVE  g[i] = IF i = 0 THEN start ELSE ArgCopied(g[i - 1], argv, buf, i - 1)
    <3>1. CASE i = 0
      BY <3>1, <1>3 DEF Runs
    <3>2. CASE i # 0
      <4>1. i \in 1..len /\ i - 1 \in 0..len
        BY <3>2, <1>0
      <4>2. g[i] = F[i][g[i - 1]] /\ g[i - 1] \in Calls
        BY <4>1, <1>3 DEF Runs
      <4> QED
        BY <3>2, <4>1, <4>2, <1>2
    <3> QED
      BY <3>1, <3>2
  <2>2. g = [i \in 0..len |-> g[i]]
    BY <1>3 DEF Runs
  <2> QED
    BY <2>1, <2>2
<1>5. Eq(w)
  BY <1>4, <1>5a
<1> HIDE DEF w
<1>6. w[0] = start
  BY <1>0, <1>5
<1>7. ASSUME NEW i \in 1..len
      PROVE  w[i] = ArgCopied(w[i - 1], argv, buf, i - 1)
  <2>1. i \in 0..len /\ i # 0
    BY <1>0
  <2> QED
    BY <2>1, <1>5
<1>8. \A i \in 0..len : w[i] \in Calls
  <2>1. \A i \in 1..len : w[i - 1] \in Calls => w[i] \in Calls
    BY <1>1, <1>7
  <2> QED
    BY <2>1, <1>0, <1>6, LoopKeeps
<1> QED
  BY <1>6, <1>7, <1>8 DEF w, len

(* args_get writes all pointers and strings, and uses good pointers when   *)
(* the area of the strings is resident.                                    *)
LEMMA ArgsGetDoes ==
  ASSUME NEW m, Good(m), Alive(m), Fits, WordsAreBytes,
         NEW argv \in Nat, NEW buf \in Nat, AreasApart(argv, buf)
  PROVE  LET c == ArgsGet(m, argv, buf) IN
         /\ c \in Calls
         /\ c.fate = "fine" =>
              /\ Copied(View(m), View(c.mem), argv, buf, Len(Argv))
              /\ c.sent = <<>>
         /\ Resident(m, buf, StringsSize) => Unharmed(c)
<1> DEFINE len == Len(Argv)
           size == PtrSize * len
           c0 == Begin(m)
           start == Take(c0, 1, argv, size)
           w == ArgTurns(start, argv, buf)
           b == View(m)
           c == ArgsGet(m, argv, buf)
<1>0. len \in Nat /\ size \in Nat /\ PtrSize = 4 /\ size = 4 * len
  BY ArgvFacts DEF PtrSize
<1>1. c = w[len]
  BY DEF ArgsGet, ArgTurns
<1>2. /\ c0 \in Calls /\ c0.mem = m /\ c0.fate = "fine"
      /\ c0.sent = <<>>
  BY BeginCall
<1> HIDE DEF c0, c, size
<1>3. start \in Calls /\ Taken(c0, start, 1, argv, size)
  BY <1>0, <1>2, SlotFacts, TakeDoes
<1> HIDE DEF start
<1>4. /\ w[0] = start
      /\ \A i \in 1..len : w[i] = ArgCopied(w[i - 1], argv, buf, i - 1)
      /\ \A i \in 0..len : w[i] \in Calls
  BY <1>3, ArgTurnsRun
<1>5. b \in [Addr -> Byte]
  BY ViewTyped
<1> HIDE DEF w, b, len
<1>6. ASSUME NEW i \in 0..(len - 1)
      PROVE  /\ i + 1 \in 1..len /\ i \in 0..len /\ i + 1 \in 0..len
             /\ i \in Nat /\ (i + 1) - 1 = i
             /\ w[i] \in Calls /\ w[i + 1] \in Calls
             /\ ArgDone(w[i], w[i + 1], argv, buf, i)
  <2>1. /\ i + 1 \in 1..len /\ i \in 0..len /\ i + 1 \in 0..len
        /\ i \in Nat /\ (i + 1) - 1 = i
    BY <1>0
  <2>2. w[i + 1] = ArgCopied(w[i], argv, buf, i)
    BY <2>1, <1>4
  <2>3. w[i] \in Calls /\ w[i + 1] \in Calls
    BY <2>1, <1>4
  <2>4. ArgDone(w[i], w[i + 1], argv, buf, i)
    BY <2>2, <2>3, ArgCopiedDoes DEF len
  <2> QED
    BY <2>1, <2>3, <2>4
<1> DEFINE Good1 == {i \in 0..len :
             w[i].fate = "fine" => /\ w[i].sent = <<>>
                                   /\ Copied(b, View(w[i].mem), argv, buf, i)}
<1>7. 0 \in Good1
  <2>1. start.fate = "fine" => View(start.mem) = b /\ start.sent = <<>>
    BY <1>2, <1>3 DEF Taken, b
  <2>2. Copied(b, b, argv, buf, 0)
    BY <1>5 DEF Copied
  <2> QED
    BY <2>1, <2>2, <1>0, <1>4
<1>8. ASSUME NEW i \in 0..(len - 1), i \in Good1
      PROVE  i + 1 \in Good1
  <2> SUFFICES ASSUME w[i + 1].fate = "fine"
               PROVE  /\ w[i + 1].sent = <<>>
                      /\ Copied(b, View(w[i + 1].mem), argv, buf, i + 1)
    BY <1>6
  <2>1. ArgDone(w[i], w[i + 1], argv, buf, i)
    BY <1>6
  <2>2. /\ w[i].fate = "fine" /\ w[i].sent = <<>>
        /\ Copied(b, View(w[i].mem), argv, buf, i)
    BY <2>1, <1>8 DEF ArgDone
  <2>3. w[i + 1].sent = <<>>
    BY <2>1, <2>2 DEF ArgDone
  <2>4. View(w[i + 1].mem)
          = Overwrite(Overwrite(View(w[i].mem),
                                Word(argv + PtrSize * i, StringAt(buf, i))),
                      [x \in StringSpan(buf, i + 1) |-> Argv[i + 1].letter])
    BY <2>1 DEF ArgDone
  <2>5. i \in 0..(Len(Argv) - 1)
    BY DEF len
  <2>6. Copied(b, View(w[i + 1].mem), argv, buf, i + 1)
    BY <2>2, <2>4, <2>5, CopiedOneMore
  <2> QED
    BY <2>3, <2>6
<1>9. len \in Good1
  <2> HIDE DEF Good1
  <2>1. 0..len \subseteq Good1
    BY <1>0, <1>7, <1>8, UpTo
  <2> QED
    BY <2>1, <1>0
<1>10. ASSUME Resident(m, buf, StringsSize)
       PROVE  Unharmed(c)
  <2> DEFINE Steadily(i) ==
               /\ Unharmed(w[i])
               /\ w[i].fate = "fine" => /\ start.fate = "fine"
                                        /\ SameBounds(start.mem, w[i].mem)
                                        /\ w[i].kept[1] = start.kept[1]
             Good2 == {i \in 0..len : Steadily(i)}
  <2>1. 0 \in Good2
    BY <1>0, <1>2, <1>3, <1>4 DEF Taken, SameBounds
  <2>2. ASSUME NEW i \in 0..(len - 1), i \in Good2
        PROVE  i + 1 \in Good2
    <3>1. i + 1 \in 0..len /\ w[i] \in Calls /\ ArgDone(w[i], w[i + 1], argv, buf, i)
      BY <1>6
    <3>2. CASE w[i].fate # "fine"
      BY <3>1, <3>2, <2>2 DEF ArgDone
    <3>3. CASE w[i].fate = "fine"
      <4> DEFINE at == argv + PtrSize * i
                 s == StringAt(buf, i)
                 n == Argv[i + 1].len
      <4>1. /\ start.fate = "fine" /\ SameBounds(start.mem, w[i].mem)
            /\ w[i].kept[1] = start.kept[1]
        BY <3>3, <2>2
      <4>2. Points(start, 1, argv, size)
        BY <4>1, <1>3 DEF Taken
      <4>3. at \in Nat /\ argv <= at /\ at + PtrSize <= argv + size
        BY <1>0, <1>6
      <4>4. /\ s \in Nat /\ n \in Nat /\ buf <= s
            /\ s + n <= buf + StringsSize
        <5>1. i + 1 \in 1..Len(Argv) /\ (i + 1) - 1 = i
          BY <1>6 DEF len
        <5>2. /\ s \in Nat /\ n \in Nat /\ buf <= s
              /\ s + n < StringAt(buf, i + 1)
              /\ StringAt(buf, i + 1) <= buf + StringsSize
          BY <5>1, StringPlaces
        <5>3. StringAt(buf, i + 1) \in Nat
          <6>1. i + 1 \in 0..Len(Argv)
            BY <1>6 DEF len
          <6> QED
            BY <6>1, SizesFacts DEF StringAt
        <5> HIDE DEF s, n
        <5> QED
          BY <5>2, <5>3, StringsSizeNat
      <4>5. Good(start.mem) /\ Wider(m, start.mem)
        BY <4>1, <1>2, <1>3, CallFacts DEF Taken
      <4>6. Resident(start.mem, buf, StringsSize)
        BY <4>5, <1>10, StringsSizeNat, WiderResident DEF Good
      <4> HIDE DEF at, s, n
      <4>7. Resident(start.mem, s, n)
        BY <4>4, <4>5, <4>6, StringsSizeNat, ResidentPart
      <4>8. Points(start, 1, at, PtrSize)
        BY <4>2, <4>3, <1>0, <1>3, SlotFacts, PointsPart
      <4>9. Resident(w[i].mem, s, n) /\ Points(w[i], 1, at, PtrSize)
        BY <4>1, <4>7, <4>8, SameBoundsKeep
      <4>10. /\ Unharmed(w[i + 1])
             /\ w[i + 1].fate = "fine" =>
                  /\ SameBounds(w[i].mem, w[i + 1].mem)
                  /\ w[i + 1].kept[1] = w[i].kept[1]
        BY <4>9, <3>1, <3>3 DEF ArgDone, at, s, n
      <4> QED
        BY <4>1, <4>10, <3>1, SameBoundsTransitive
    <3> QED
      BY <3>2, <3>3
  <2> HIDE DEF Good2
  <2>3. 0..len \subseteq Good2
    BY <2>1, <2>2, <1>0, UpTo
  <2> QED
    BY <2>3, <1>0, <1>1 DEF Good2
<1>11. c \in Calls
  BY <1>0, <1>1, <1>4
<1>12. c.fate = "fine" => Copied(b, View(c.mem), argv, buf, len) /\ c.sent = <<>>
  BY <1>1, <1>9
<1> QED
  BY <1>10, <1>11, <1>12 DEF c, b, len
-----------------------------------------------------------------------------
(* System calls: areas are translated one after the other, then used.      *)

(* The bytes the first k areas write. *)
WrittenBy(areas, k) ==
  UNION {Span(areas[j].at, areas[j].used) : j \in {i \in 1..k : areas[i].writes}}

Lettered(b, S, letter) == [x \in Addr |-> IF x \in S THEN letter ELSE b[x]]

AreasGiven(areas) == areas \in Seq(Areas) /\ DOMAIN areas \subseteq Slots

LEMMA AreaFacts ==
  ASSUME NEW areas, AreasGiven(areas)
  PROVE  /\ Len(areas) \in Nat
         /\ \A k \in 1..Len(areas) :
              /\ k \in Slots
              /\ areas[k].at \in Nat /\ areas[k].asked \in Nat
              /\ areas[k].used \in Nat /\ areas[k].writes \in BOOLEAN
<1>1. areas \in Seq(Areas) /\ Len(areas) \in Nat
      /\ DOMAIN areas = 1..Len(areas) /\ DOMAIN areas \subseteq Slots
  BY LenProperties DEF AreasGiven
<1>2. ASSUME NEW k \in 1..Len(areas)
      PROVE  areas[k] \in Areas
  BY <1>1, ElementOfSeq
<1>3. ASSUME NEW a \in Areas
      PROVE  /\ a.at \in Nat /\ a.asked \in Nat /\ a.used \in Nat
             /\ a.writes \in BOOLEAN
  BY DEF Areas
<1> QED
  BY <1>1, <1>2, <1>3

AreasTaken(c, areas) ==
  CHOOSE g : g = [k \in 0..Len(areas) |->
                    IF k = 0 THEN c
                    ELSE Take(g[k - 1], k, areas[k].at, areas[k].asked)]

LEMMA AreasTakenRun ==
  ASSUME NEW c \in Calls, Fits, NEW areas, AreasGiven(areas)
  PROVE  LET g == AreasTaken(c, areas)
             d == g[Len(areas)]
         IN /\ d \in Calls
            /\ d.fate = "fine" => /\ c.fate = "fine"
                                  /\ View(d.mem) = View(c.mem)
                                  /\ d.sent = c.sent /\ d.failed = c.failed
<1> DEFINE n == Len(areas)
           Turn(d, k) == Take(d, k, areas[k].at, areas[k].asked)
           F == [i \in 1..n |-> [d \in Calls |-> Turn(d, i)]]
           Eq(g) == g = [i \in 0..n |-> IF i = 0 THEN c ELSE Turn(g[i - 1], i)]
           w == AreasTaken(c, areas)
<1>0. n \in Nat
  BY AreaFacts
<1>1. ASSUME NEW i \in 1..n, NEW d \in Calls
      PROVE  /\ Turn(d, i) \in Calls
             /\ Taken(d, Turn(d, i), i, areas[i].at, areas[i].asked)
  BY AreaFacts, TakeDoes
<1>5a. w = CHOOSE h : Eq(h)
  BY DEF AreasTaken
<1> HIDE DEF n, Turn
<1>2. /\ Steps(F, n, Calls)
      /\ \A i \in 1..n : \A d \in Calls : F[i][d] = Turn(d, i)
  BY <1>1 DEF Steps
<1>3. PICK g : Runs(g, c, F, n, Calls)
  <2> HIDE DEF F
  <2> QED
    BY <1>0, <1>2, Recursion
<1>4. Eq(g)
  <2> HIDE DEF F
  <2>1. ASSUME NEW i \in 0..n
        PROVE  g[i] = IF i = 0 THEN c ELSE Turn(g[i - 1], i)
    <3>1. CASE i = 0
      BY <3>1, <1>3 DEF Runs
    <3>2. CASE i # 0
      <4>1. i \in 1..n /\ i - 1 \in 0..n
        BY <3>2, <1>0
      <4>2. g[i] = F[i][g[i - 1]] /\ g[i - 1] \in Calls
        BY <4>1, <1>3 DEF Runs
      <4> QED
        BY <3>2, <4>1, <4>2, <1>2
    <3> QED
      BY <3>1, <3>2
  <2>2. g = [i \in 0..n |-> g[i]]
    BY <1>3 DEF Runs
  <2> QED
    BY <2>1, <2>2
<1>5. Eq(w)
  BY <1>4, <1>5a
<1> HIDE DEF w
<1>6. w[0] = c
  BY <1>0, <1>5
<1>7. ASSUME NEW i \in 1..n
      PROVE  w[i] = Turn(w[i - 1], i)
  <2>1. i \in 0..n /\ i # 0
    BY <1>0
  <2> QED
    BY <2>1, <1>5
<1> DEFINE Same == {d \in Calls :
             d.fate = "fine" => /\ c.fate = "fine"
                                /\ View(d.mem) = View(c.mem)
                                /\ d.sent = c.sent /\ d.failed = c.failed}
<1>8. ASSUME NEW i \in 1..n, w[i - 1] \in Same
      PROVE  w[i] \in Same
  <2>1. /\ w[i] \in Calls
        /\ Taken(w[i - 1], w[i], i, areas[i].at, areas[i].asked)
    BY <1>1, <1>7, <1>8
  <2> QED
    BY <2>1, <1>8 DEF Taken
<1> HIDE DEF Same
<1>9. w[0] \in Same
  BY <1>6 DEF Same
<1>10. \A i \in 0..n : w[i] \in Same
  BY <1>0, <1>8, <1>9, LoopKeeps
<1> QED
  BY <1>0, <1>10 DEF Same, n, w

AreasUsed(c, areas, letter) ==
  CHOOSE g : g = [k \in 0..Len(areas) |->
                    IF k = 0 THEN c
                    ELSE IF areas[k].writes
                      THEN Put(g[k - 1], k, areas[k].at, areas[k].used,
                               [x \in Span(areas[k].at, areas[k].used) |-> letter])
                    ELSE Use(g[k - 1], k, areas[k].at, areas[k].used)]

(* The mark of a call that has used some areas. *)
Marked(c, d, S, letter) ==
  /\ d \in Calls
  /\ d.fate = "fine" => /\ c.fate = "fine"
                        /\ View(d.mem) = Lettered(View(c.mem), S, letter)
                        /\ d.sent = c.sent /\ d.failed = c.failed

LEMMA WrittenByOneMore ==
  ASSUME NEW areas, NEW k \in Nat
  PROVE  /\ WrittenBy(areas, 0) = {}
         /\ WrittenBy(areas, k) \in SUBSET Addr
         /\ WrittenBy(areas, k + 1)
              = IF areas[k + 1].writes
                THEN WrittenBy(areas, k)
                       \union Span(areas[k + 1].at, areas[k + 1].used)
                ELSE WrittenBy(areas, k)
<1>1. 1..(k + 1) = (1..k) \union {k + 1} /\ 1..0 = {}
  OBVIOUS
<1>2. WrittenBy(areas, 0) = {}
  BY <1>1 DEF WrittenBy
<1>3. WrittenBy(areas, k) \in SUBSET Addr
  BY DEF WrittenBy, Span
<1>4. CASE areas[k + 1].writes
  <2>1. {i \in 1..(k + 1) : areas[i].writes}
          = {i \in 1..k : areas[i].writes} \union {k + 1}
    BY <1>1, <1>4
  <2> QED
    BY <2>1, <1>2, <1>3, <1>4 DEF WrittenBy
<1>5. CASE ~areas[k + 1].writes
  <2>1. {i \in 1..(k + 1) : areas[i].writes} = {i \in 1..k : areas[i].writes}
    BY <1>1, <1>5
  <2> QED
    BY <2>1, <1>2, <1>3, <1>5 DEF WrittenBy
<1> QED
  BY <1>4, <1>5

LEMMA AreasUsedRun ==
  ASSUME NEW c \in Calls, Fits, NEW areas, AreasGiven(areas),
         NEW letter \in Byte
  PROVE  Marked(c, AreasUsed(c, areas, letter)[Len(areas)],
                WrittenBy(areas, Len(areas)), letter)
<1> DEFINE n == Len(areas)
           f(i) == [x \in Span(areas[i].at, areas[i].used) |-> letter]
           Turn(d, k) == IF areas[k].writes
                         THEN Put(d, k, areas[k].at, areas[k].used, f(k))
                         ELSE Use(d, k, areas[k].at, areas[k].used)
           F == [i \in 1..n |-> [d \in Calls |-> Turn(d, i)]]
           Eq(g) == g = [i \in 0..n |-> IF i = 0 THEN c ELSE Turn(g[i - 1], i)]
           w == AreasUsed(c, areas, letter)
           S(i) == Span(areas[i].at, areas[i].used)
<1>0. n \in Nat
  BY AreaFacts
<1>1. ASSUME NEW i \in 1..n, NEW d \in Calls
      PROVE  /\ Turn(d, i) \in Calls
             /\ areas[i].writes =>
                  Stored(d, Turn(d, i), i, areas[i].at, areas[i].used, f(i))
             /\ ~areas[i].writes =>
                  Used(d, Turn(d, i), i, areas[i].at, areas[i].used)
  <2>1. i \in Slots /\ areas[i].at \in Nat /\ areas[i].used \in Nat
    BY AreaFacts
  <2>2. f(i) \in [Span(areas[i].at, areas[i].used) -> Byte]
    OBVIOUS
  <2> HIDE DEF f
  <2>3. CASE areas[i].writes
    BY <2>1, <2>2, <2>3, PutDoes
  <2>4. CASE ~areas[i].writes
    BY <2>1, <2>4, UseDoes
  <2> QED
    BY <2>3, <2>4
<1>5a. w = CHOOSE h : Eq(h)
  BY DEF AreasUsed
<1> HIDE DEF n, Turn
<1>2. /\ Steps(F, n, Calls)
      /\ \A i \in 1..n : \A d \in Calls : F[i][d] = Turn(d, i)
  BY <1>1 DEF Steps
<1>3. PICK g : Runs(g, c, F, n, Calls)
  <2> HIDE DEF F
  <2> QED
    BY <1>0, <1>2, Recursion
<1>4. Eq(g)
  <2> HIDE DEF F
  <2>1. ASSUME NEW i \in 0..n
        PROVE  g[i] = IF i = 0 THEN c ELSE Turn(g[i - 1], i)
    <3>1. CASE i = 0
      BY <3>1, <1>3 DEF Runs
    <3>2. CASE i # 0
      <4>1. i \in 1..n /\ i - 1 \in 0..n
        BY <3>2, <1>0
      <4>2. g[i] = F[i][g[i - 1]] /\ g[i - 1] \in Calls
        BY <4>1, <1>3 DEF Runs
      <4> QED
        BY <3>2, <4>1, <4>2, <1>2
    <3> QED
      BY <3>1, <3>2
  <2>2. g = [i \in 0..n |-> g[i]]
    BY <1>3 DEF Runs
  <2> QED
    BY <2>1, <2>2
<1>5. Eq(w)
  BY <1>4, <1>5a
<1> HIDE DEF w
<1>6. w[0] = c
  BY <1>0, <1>5
<1>7. ASSUME NEW i \in 0..(n - 1)
      PROVE  i + 1 \in 1..n /\ i + 1 \in 0..n /\ i \in Nat
             /\ w[i + 1] = Turn(w[i], i + 1)
  <2>1. i + 1 \in 0..n /\ i + 1 # 0 /\ i + 1 \in 1..n /\ (i + 1) - 1 = i /\ i \in Nat
    BY <1>0
  <2>2. w[i + 1] = Turn(w[(i + 1) - 1], i + 1)
    BY <2>1, <1>5
  <2> QED
    BY <2>1, <2>2
<1> DEFINE Good1 == {i \in 0..n : Marked(c, w[i], WrittenBy(areas, i), letter)}
<1>8. 0 \in Good1
  <2>1. WrittenBy(areas, 0) = {}
    BY WrittenByOneMore
  <2>2. c.fate = "fine" => View(c.mem) = Lettered(View(c.mem), {}, letter)
    BY CallFacts, ViewTyped DEF Lettered
  <2> QED
    BY <2>1, <2>2, <1>0, <1>6 DEF Marked
<1>9. ASSUME NEW i \in 0..(n - 1), i \in Good1
      PROVE  i + 1 \in Good1
  <2> DEFINE W == WrittenBy(areas, i)
             k == i + 1
             v == View(c.mem)
  <2>1. Marked(c, w[i], W, letter)
    BY <1>9
  <2>2. /\ k \in 1..n /\ k \in 0..n /\ W \in SUBSET Addr
        /\ WrittenBy(areas, k) = IF areas[k].writes THEN W \union S(k) ELSE W
        /\ S(k) \in SUBSET Addr
    BY <1>7, WrittenByOneMore DEF Span
  <2>3. /\ w[i] \in Calls /\ w[k] \in Calls
        /\ areas[k].writes =>
             Stored(w[i], w[k], k, areas[k].at, areas[k].used, f(k))
        /\ ~areas[k].writes =>
             Used(w[i], w[k], k, areas[k].at, areas[k].used)
    BY <2>1, <1>1, <1>7 DEF Marked
  <2>4. f(k) = [x \in S(k) |-> letter]
    OBVIOUS
  <2> HIDE DEF f, S, W, k, v
  <2>5. CASE areas[k].writes
    <3> SUFFICES ASSUME w[k].fate = "fine"
                 PROVE  /\ c.fate = "fine"
                        /\ View(w[k].mem) = Lettered(v, W \union S(k), letter)
                        /\ w[k].sent = c.sent /\ w[k].failed = c.failed
      BY <2>2, <2>3, <2>5 DEF Marked, v, k
    <3>1. /\ w[i].fate = "fine"
          /\ View(w[k].mem) = Overwrite(View(w[i].mem), f(k))
          /\ w[k].sent = w[i].sent /\ w[k].failed = w[i].failed
      BY <2>3, <2>5 DEF Stored
    <3>2. /\ c.fate = "fine" /\ View(w[i].mem) = Lettered(v, W, letter)
          /\ w[i].sent = c.sent /\ w[i].failed = c.failed
      BY <2>1, <3>1 DEF Marked, v
    <3>3. Overwrite(Lettered(v, W, letter), [x \in S(k) |-> letter])
            = Lettered(v, W \union S(k), letter)
      BY DEF Lettered, Overwrite
    <3> QED
      BY <3>1, <3>2, <3>3, <2>4
  <2>6. CASE ~areas[k].writes
    <3>1. w[k].fate = "fine" => w[k] = w[i]
      BY <2>3, <2>6 DEF Used
    <3> QED
      BY <3>1, <2>1, <2>2, <2>3, <2>6 DEF Marked, k
  <2> QED
    BY <2>5, <2>6
<1>10. n \in Good1
  <2> HIDE DEF Good1
  <2>1. 0..n \subseteq Good1
    BY <1>0, <1>8, <1>9, UpTo
  <2> QED
    BY <2>1, <1>0
<1> QED
  BY <1>10 DEF w, n

LEMMA StageDoes ==
  ASSUME NEW c \in Calls, Fits, NEW areas, AreasGiven(areas),
         NEW letter \in Byte
  PROVE  Marked(c, Stage(c, areas, letter), WrittenBy(areas, Len(areas)), letter)
<1> DEFINE t == AreasTaken(c, areas)[Len(areas)]
           u == AreasUsed(t, areas, letter)[Len(areas)]
<1>1. Stage(c, areas, letter) = u
  BY DEF Stage, AreasTaken, AreasUsed
<1>2. /\ t \in Calls
      /\ t.fate = "fine" => /\ c.fate = "fine"
                            /\ View(t.mem) = View(c.mem)
                            /\ t.sent = c.sent /\ t.failed = c.failed
  BY AreasTakenRun
<1> HIDE DEF t
<1>3. Marked(t, u, WrittenBy(areas, Len(areas)), letter)
  BY <1>2, AreasUsedRun
<1> HIDE DEF u
<1> QED
  BY <1>1, <1>2, <1>3 DEF Marked

(* All areas a call and its error report write end up with the letter.     *)
AllWritten(call) ==
  WrittenBy(call.areas, Len(call.areas))
    \union WrittenBy(call.report, Len(call.report))

LEMMA SystemDoes ==
  ASSUME NEW m, Good(m), Alive(m), Fits, NEW call,
         AreasGiven(call.areas), AreasGiven(call.report), NEW letter \in Byte
  PROVE  LET c == System(m, call, letter) IN
         /\ c \in Calls
         /\ c.fate = "fine" =>
              /\ View(c.mem) = Lettered(View(m), AllWritten(call), letter)
              /\ c.sent = <<>>
<1> DEFINE W == WrittenBy(call.areas, Len(call.areas))
           R == WrittenBy(call.report, Len(call.report))
           c0 == Begin(m)
           c1 == Stage(c0, call.areas, letter)
           c2 == Stage(c1, call.report, letter)
<1>1. /\ c0 \in Calls /\ c0.mem = m /\ c0.sent = <<>>
  BY BeginCall
<1> HIDE DEF c0
<1>2. Marked(c0, c1, W, letter)
  BY <1>1, StageDoes
<1> HIDE DEF c1
<1>3. Marked(c1, c2, R, letter)
  BY <1>2, StageDoes DEF Marked
<1> HIDE DEF c2
<1>4. W \in SUBSET Addr /\ R \in SUBSET Addr
  BY DEF WrittenBy, Span
<1> HIDE DEF W, R
<1>5. c2.fate = "fine" =>
        /\ View(c2.mem) = Lettered(View(m), W \union R, letter)
        /\ c2.sent = <<>>
  <2>1. Lettered(Lettered(View(m), W, letter), R, letter)
          = Lettered(View(m), W \union R, letter)
    BY DEF Lettered
  <2> QED
    BY <2>1, <1>1, <1>2, <1>3 DEF Marked
<1>6. c2 \in Calls
  BY <1>3 DEF Marked
<1> QED
  BY <1>5, <1>6 DEF System, AllWritten, W, R, c2, c1, c0
=============================================================================
