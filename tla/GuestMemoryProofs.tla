------------------------- MODULE GuestMemoryProofs -------------------------
(***************************************************************************)
(* Theorems about GuestMemory for every value of its constants.  The       *)
(* operators on a memory are dealt with first, one lemma each; a step of   *)
(* the specification is then one of them applied to "mem".                 *)
(***************************************************************************)
EXTENDS GuestMemory, Induction, TLAPS

(* A well-formed memory: typed, and upper memory not empty.                *)
Fit(m) ==
  /\ m \in Memory
  /\ m.upEnd # 0 => m.upBegin < m.upEnd

(* What every growth leaves: a well-formed memory in which everything      *)
(* backed before is still backed, and which has the same content unless an *)
(* address may now be in two arrays; that is never undone.                 *)
Keeps(m, k) ==
  /\ Fit(k)
  /\ Overrun(m) => Overrun(k)
  /\ ~Overrun(k) => View(k) = View(m)
  /\ \A x \in Addr : Backed(m, x) => Backed(k, x)

(* Rounding to a multiple of the granularity, down and up. *)
LEMMA Rounding ==
  ASSUME NEW i \in Nat, NEW u \in Nat \ {0}
  PROVE  /\ RoundDown(i, u) \in Nat /\ RoundDown(i, u) <= i
         /\ RoundUp(i, u) \in Nat /\ i <= RoundUp(i, u)
<1>1. ASSUME NEW j \in Nat
      PROVE  /\ (j \div u) * u \in Nat /\ (j \div u) * u <= j
             /\ j < (j \div u) * u + u
  OBVIOUS
<1>2. i + u - 1 \in Nat
  OBVIOUS
<1> QED
  BY <1>1, <1>2 DEF RoundDown, RoundUp

(* The first capacity of a linear storage: the doubling ends.              *)
LEMMA FirstCapFacts ==
  ASSUME NEW need \in Nat \ {0}
  PROVE  /\ FirstCap(need) \in Nat
         /\ FirstCap(need) >= need
         /\ FirstCap(need) = InitCap \/ FirstCap(need) < 2 * need
<1> DEFINE F == [i \in 1..need |-> [x \in Nat \ {0} |-> 2 * x]]
           Eq(g) == g = [k \in 0..need |-> IF k = 0 THEN InitCap
                                           ELSE 2 * g[k - 1]]
           d == CHOOSE g : Eq(g)
           T == {k \in 0..need : d[k] >= need}
<1>1. InitCap \in Nat \ {0}
  BY ConstantsAssumption
<1>2. PICK g : Runs(g, InitCap, F, need, Nat \ {0})
  <2>1. Steps(F, need, Nat \ {0})
    BY DEF Steps
  <2> HIDE DEF F
  <2> QED
    BY <2>1, <1>1, Recursion
<1>3. Eq(g)
  <2>1. ASSUME NEW k \in 0..need
        PROVE  g[k] = IF k = 0 THEN InitCap ELSE 2 * g[k - 1]
    <3>1. CASE k = 0
      BY <3>1, <1>2 DEF Runs
    <3>2. CASE k # 0
      <4>1. k \in 1..need /\ k - 1 \in 0..need
        BY <3>2
      <4>2. g[k] = F[k][g[k - 1]] /\ g[k - 1] \in Nat \ {0}
        BY <4>1, <1>2 DEF Runs
      <4> QED
        BY <3>2, <4>1, <4>2
    <3> QED
      BY <3>1, <3>2
  <2>2. g = [k \in 0..need |-> g[k]]
    BY <1>2 DEF Runs
  <2> QED
    BY <2>1, <2>2
<1>4. Eq(d)
  <2> HIDE DEF Eq
  <2> QED
    BY <1>3
<1> HIDE DEF d
<1>5. /\ d[0] = InitCap
      /\ \A k \in 1..need : d[k] = 2 * d[k - 1]
  BY <1>4
<1>6. \A k \in 0..need : d[k] \in Nat /\ d[k] > k
  <2> DEFINE S == {k \in 0..need : d[k] \in Nat /\ d[k] > k}
  <2>1. 0 \in S
    BY <1>1, <1>5
  <2>2. ASSUME NEW k \in 0..(need - 1), k \in S
        PROVE  k + 1 \in S
    <3>1. k + 1 \in 1..need /\ d[k + 1] = 2 * d[k]
      BY <1>5
    <3> QED
      BY <3>1, <2>2
  <2> HIDE DEF S
  <2>3. 0..need \subseteq S
    BY <2>1, <2>2, UpTo
  <2> QED
    BY <2>3 DEF S
<1>7. PICK k \in T : \A j \in T : k <= j
  <2>1. need \in T
    BY <1>6
  <2>2. T \in SUBSET Nat
    OBVIOUS
  <2> HIDE DEF T
  <2> QED
    BY <2>1, <2>2, LeastNumber
<1>8. IsFirstCap(d[k], need)
  <2>1. k \in 0..need /\ d[k] >= need
    BY <1>7
  <2>2. CASE k = 0
    BY <2>1, <2>2, <1>5 DEF IsFirstCap
  <2>3. CASE k # 0
    <3>1. k \in 1..need /\ k - 1 \in 0..need /\ ~(k <= k - 1)
      BY <2>1, <2>3
    <3>2. ~(d[k - 1] >= need)
      BY <3>1, <1>7
    <3>3. d[k] = 2 * d[k - 1] /\ d[k - 1] \in Nat
      BY <3>1, <1>5, <1>6
    <3> QED
      BY <2>1, <3>2, <3>3 DEF IsFirstCap
  <2> QED
    BY <2>2, <2>3
<1> DEFINE i == CHOOSE j \in 0..need : IsFirstCap(d[j], need)
<1>9. i \in 0..need /\ IsFirstCap(d[i], need)
  BY <1>7, <1>8
<1>10. FirstCap(need) = d[i]
  BY DEF FirstCap, d
<1> QED
  BY <1>6, <1>9, <1>10 DEF IsFirstCap

(* A linear storage grows enough; one that is not empty at least doubles.  *)
LEMMA GrownCapFacts ==
  ASSUME NEW cap \in Nat, NEW need \in Nat
  PROVE  /\ GrownCap(cap, need) \in Nat
         /\ GrownCap(cap, need) >= cap
         /\ GrownCap(cap, need) >= need
         /\ cap > 0 => \/ GrownCap(cap, need) <= need
                       \/ GrownCap(cap, need) <= 2 * cap
         /\ cap = 0 => \/ GrownCap(cap, need) <= InitCap
                       \/ GrownCap(cap, need) <= 2 * need
<1>1. InitCap \in Nat
  BY ConstantsAssumption
<1>2. CASE cap > 0 \/ need <= cap
  BY <1>1, <1>2 DEF GrownCap, Max2
<1>3. CASE cap = 0 /\ need > 0
  <2>1. GrownCap(cap, need) = FirstCap(need)
    BY <1>3 DEF GrownCap
  <2> QED
    BY <1>1, <1>3, <2>1, FirstCapFacts
<1> QED
  BY <1>2, <1>3

(* Losing the process changes nothing else. *)
LEMMA FaultKeeps ==
  ASSUME NEW m, Fit(m), NEW f \in Faults
  PROVE  Keeps(m, Fault(m, f))
BY DEF Fit, Keeps, Memory, Fault, Overrun, View, Backed, InLower, InUpper,
       InArgs

(* The constants the arithmetic below is about. *)
LEMMA Constants ==
  /\ ArgsBase \in Nat /\ MaxAlloc \in Nat /\ InitCap \in Nat
  /\ FirstInc \in Nat \ {0} /\ MaxInc \in Nat /\ Cut \in Nat
  /\ PageSize \in Nat \ {0}
  /\ Addr \subseteq Nat /\ 0 \in Byte
  /\ Zero \in [Addr -> Byte]
BY ConstantsAssumption DEF Zero

(* Lower memory grows, and the bytes needed are there.  It stays below     *)
(* upper memory if the capacity it grows to does.                          *)
LEMMA GrowLowerKeeps ==
  ASSUME NEW m, Fit(m), Alive(m), NEW need \in Nat
  PROVE  /\ Keeps(m, GrowLower(m, need))
         /\ GrowLower(m, need).fault \in {"none", "alloc"}
         /\ Alive(GrowLower(m, need)) => GrowLower(m, need).lowCap >= need
         /\ /\ Based(m)
            /\ m.upEnd # 0 => GrownCap(m.lowCap, need) <= m.upBegin
            => Based(GrowLower(m, need))
<1> DEFINE cap == GrownCap(m.lowCap, need)
           low == [x \in Addr |-> IF InLower(m, x) THEN m.low[x] ELSE 0]
           g == GrowLower(m, need)
<1>1. /\ cap \in Nat /\ cap >= m.lowCap /\ cap >= need
      /\ m.lowCap \in Nat /\ m.upBegin \in Nat /\ m.upEnd \in Nat
  BY GrownCapFacts DEF Fit, Memory
<1>2. CASE need <= m.lowCap
  BY <1>2 DEF GrowLower, Keeps, Alive
<1>3. CASE need > m.lowCap /\ cap > MaxAlloc
  <2>1. g = Fault(m, "alloc")
    BY <1>1, <1>3 DEF GrowLower
  <2>2. Keeps(m, g)
    BY <2>1, FaultKeeps DEF Faults
  <2>3. g.fault = "alloc" /\ (Based(m) => Based(g))
    BY <2>1 DEF Fault, Fit, Memory, Based, Apart
  <2> QED
    BY <2>2, <2>3 DEF Alive
<1>4. CASE need > m.lowCap /\ cap <= MaxAlloc
  <2>1. g = [m EXCEPT !.lowCap = cap, !.low = low]
    BY <1>1, <1>4, Constants DEF GrowLower
  <2>2. low \in [Addr -> Byte]
    BY Constants DEF Fit, Memory
  <2>3. /\ g \in Memory /\ g.lowCap = cap /\ g.upBegin = m.upBegin
        /\ g.upEnd = m.upEnd /\ g.up = m.up /\ g.args = m.args
        /\ g.argSize = m.argSize /\ g.fault = m.fault /\ g.low = low
    <3> HIDE DEF g, cap, low
    <3> QED
      BY <2>1, <2>2, <1>1 DEF Fit, Memory
  <2>4. Fit(g) /\ (Overrun(m) => Overrun(g))
    BY <2>3, <1>1, Constants DEF Fit, Overrun
  <2>5. ASSUME ~Overrun(g)
        PROVE  View(g) = View(m)
    <3> HIDE DEF g
    <3>1. ASSUME NEW x \in Addr, m.lowCap <= x, x < cap
          PROVE  ~InUpper(m, x) /\ ~InArgs(m, x)
      <4> HIDE DEF cap
      <4> QED
        BY <3>1, <2>3, <2>5, <1>1, Constants DEF InUpper, InArgs, Overrun
    <3>2. ASSUME NEW x \in Addr
          PROVE  View(g)[x] = View(m)[x]
      <4> HIDE DEF cap
      <4> QED
        BY <3>1, <2>3, <1>1, Constants DEF View, InLower, InUpper, InArgs
    <3> QED
      BY <3>2 DEF View
  <2>6. \A x \in Addr : Backed(m, x) => Backed(g, x)
    BY <2>3, <1>1, Constants DEF Backed, InLower, InUpper, InArgs, Fit,
       Memory
  <2>7. Based(m) /\ (m.upEnd # 0 => cap <= m.upBegin) => Based(g)
    <3> HIDE DEF g, cap
    <3> QED
      BY <2>3, <1>1 DEF Based, Apart
  <2> QED
    BY <2>3, <2>4, <2>5, <2>6, <2>7, <1>1 DEF Keeps, Alive
<1> QED
  BY <1>1, <1>2, <1>3, <1>4, Constants

(* Merging: upper memory is released, its content is now lower memory's.   *)
LEMMA MergeKeeps ==
  ASSUME NEW m, Fit(m), Alive(m), m.upEnd # 0
  PROVE  /\ Keeps(m, Merge(m))
         /\ Merge(m).fault \in {"none", "alloc", "merge"}
         /\ Alive(Merge(m)) => Merge(m).upEnd = 0
         /\ Based(m) => Based(Merge(m)) /\ Merge(m).fault # "merge"
<1> DEFINE cap == GrownCap(m.lowCap, m.upEnd)
           g == GrowLower(m, m.upEnd)
           low == [x \in Addr |-> IF InUpper(m, x) THEN m.up[x] ELSE g.low[x]]
           k == Merge(m)
<1>1. /\ cap \in Nat /\ cap >= m.lowCap /\ cap >= m.upEnd
      /\ m.lowCap \in Nat /\ m.upBegin \in Nat /\ m.upEnd \in Nat
      /\ m.upBegin < m.upEnd
  BY GrownCapFacts DEF Fit, Memory
<1>0. CASE m.lowCap > m.upBegin
  <2>1. k = Fault(m, "merge")
    BY <1>0 DEF Merge
  <2>2. k.fault = "merge"
    BY <2>1 DEF Fault, Fit, Memory
  <2> HIDE DEF k
  <2>3. Keeps(m, k)
    BY <2>1, FaultKeeps DEF Faults
  <2>4. ~Based(m)
    BY <1>0, <1>1 DEF Based, Apart
  <2> QED
    BY <2>2, <2>3, <2>4 DEF Alive, k
<1>2. CASE ~(m.lowCap > m.upBegin) /\ cap > MaxAlloc
  <2>1. g = Fault(m, "alloc")
    BY <1>1, <1>2 DEF GrowLower
  <2>2. g.fault = "alloc"
    BY <2>1 DEF Fault, Fit, Memory
  <2>3. k = Fault(m, "alloc")
    BY <1>2, <2>1, <2>2 DEF Merge, Alive
  <2>4. Keeps(m, k)
    BY <2>3, FaultKeeps DEF Faults
  <2>5. k.fault = "alloc" /\ (Based(m) => Based(k))
    BY <2>3 DEF Fault, Fit, Memory, Based, Apart
  <2> QED
    BY <2>4, <2>5 DEF Alive
<1>3. CASE ~(m.lowCap > m.upBegin) /\ cap <= MaxAlloc
  <2>1. g = [m EXCEPT !.lowCap = cap,
                      !.low = [x \in Addr |-> IF InLower(m, x) THEN m.low[x]
                                              ELSE 0]]
    BY <1>1, <1>3, Constants DEF GrowLower
  <2>2. /\ g \in Memory /\ g.lowCap = cap /\ g.argSize = m.argSize
        /\ g.args = m.args /\ g.fault = m.fault
        /\ g.low = [x \in Addr |-> IF InLower(m, x) THEN m.low[x] ELSE 0]
    <3>1. [x \in Addr |-> IF InLower(m, x) THEN m.low[x] ELSE 0]
            \in [Addr -> Byte]
      BY Constants DEF Fit, Memory
    <3> HIDE DEF g, cap
    <3> QED
      BY <2>1, <3>1, <1>1 DEF Fit, Memory
  <2>3. k = [g EXCEPT !.low = low, !.upBegin = 0, !.upEnd = 0, !.upInc = 0,
                      !.up = Zero]
    BY <1>3, <2>2 DEF Merge, Alive
  <2>4. low \in [Addr -> Byte]
    <3> HIDE DEF g
    <3> QED
      BY <2>2 DEF Fit, Memory
  <2>5. /\ k \in Memory /\ k.lowCap = cap /\ k.low = low /\ k.upEnd = 0
        /\ k.upBegin = 0 /\ k.argSize = m.argSize /\ k.args = m.args
        /\ k.fault = m.fault
    <3> HIDE DEF g, cap, low, k
    <3> QED
      BY <2>2, <2>3, <2>4, Constants DEF Memory
  <2> HIDE DEF g, cap, k
  <2>6. Fit(k) /\ (Overrun(m) => Overrun(k))
    BY <2>5, <1>1, <1>3, Constants DEF Fit, Overrun
  <2>7. ASSUME NEW x \in Addr
        PROVE  ~InUpper(k, x)
    <3>1. x \in Nat
      BY Constants
    <3> QED
      BY <3>1, <2>5 DEF InUpper
  <2>8. ASSUME ~Overrun(k), NEW x \in Addr, x < cap
        PROVE  ~InArgs(m, x)
    BY <2>8, <2>5, <1>1, Constants DEF InArgs, Overrun
  <2>9. ASSUME NEW x \in Addr, InUpper(m, x)
        PROVE  InLower(k, x) /\ ~InLower(m, x)
    BY <2>9, <2>5, <1>1, <1>3, Constants DEF InUpper, InLower
  <2>10. ASSUME ~Overrun(k), NEW x \in Addr
         PROVE  View(k)[x] = View(m)[x]
    <3>1. CASE InUpper(m, x)
      BY <3>1, <2>5, <2>9 DEF View
    <3>2. CASE ~InUpper(m, x) /\ x < cap
      BY <3>2, <2>2, <2>5, <2>8, <2>10 DEF View, InLower
    <3>3. CASE ~InUpper(m, x) /\ ~(x < cap)
      <4>1. ~InLower(m, x) /\ ~InLower(k, x)
        BY <3>3, <2>5, <1>1, Constants DEF InLower
      <4> QED
        BY <3>3, <4>1, <2>5, <2>7 DEF View, InArgs
    <3> QED
      BY <3>1, <3>2, <3>3
  <2>11. ~Overrun(k) => View(k) = View(m)
    BY <2>10 DEF View
  <2>12. \A x \in Addr : Backed(m, x) => Backed(k, x)
    BY <2>5, <2>9, <1>1, Constants DEF Backed, InLower, InArgs
  <2>13. Based(m) => Based(k)
    BY <2>5, <1>1 DEF Based, Apart
  <2> QED
    BY <2>5, <2>6, <2>11, <2>12, <2>13 DEF Keeps, Alive, k
<1> QED
  BY <1>0, <1>1, <1>2, <1>3, Constants

(* Upper memory grows inside [min, max): nothing is lost and the range     *)
(* asked for is there; only an empty range can make its assertion fail.    *)
LEMMA GrowUpperKeeps ==
  ASSUME NEW m, Fit(m), Alive(m), NEW a \in Nat, NEW n \in Nat,
         NEW max \in Nat, m.lowCap <= a, a + n <= max
  PROVE  LET k == GrowUpper(m, a, n, m.lowCap, max) IN
         /\ Keeps(m, k)
         /\ k.fault \in {"none", "alloc", "empty"}
         /\ n > 0 => k.fault # "empty"
         /\ Alive(k) => k.upBegin <= a /\ a + n <= k.upEnd /\ k.upEnd # 0
         /\ Based(m) => Based(k)
<1> DEFINE first == Max2(a, m.lowCap)
           last == Min2(a + n, max)
           inc == IF m.upInc = 0 THEN FirstInc ELSE m.upInc
           begin == RoundDown(first, inc)
           end == RoundUp(last, inc)
           clipped == begin < m.lowCap \/ end > max
           newBegin == IF m.upEnd = 0 THEN Max2(begin, m.lowCap)
                       ELSE Min2(Max2(begin, m.lowCap), m.upBegin)
           newEnd == IF m.upEnd = 0 THEN Min2(end, max)
                     ELSE Max2(Min2(end, max), m.upEnd)
           newInc == IF ~clipped /\ inc < MaxInc THEN 2 * inc ELSE inc
           up == [x \in Addr |-> IF InUpper(m, x) THEN m.up[x] ELSE 0]
           k == GrowUpper(m, a, n, m.lowCap, max)
<1>1. /\ m.lowCap \in Nat /\ m.upBegin \in Nat /\ m.upEnd \in Nat
      /\ m.upInc \in Nat
      /\ m.upEnd # 0 => m.upBegin < m.upEnd
      /\ first = a /\ last = a + n
  BY DEF Fit, Memory, Max2, Min2
<1>2. /\ inc \in Nat \ {0}
      /\ begin \in Nat /\ begin <= a
      /\ end \in Nat /\ a + n <= end
  <2>1. inc \in Nat \ {0}
    BY <1>1, Constants
  <2>2. a + n \in Nat
    OBVIOUS
  <2> HIDE DEF inc, first, last
  <2> QED
    BY <2>1, <2>2, <1>1, Rounding
<1>3. CASE n = 0
  <2>1. k = Fault(m, "empty")
    BY <1>1, <1>3 DEF GrowUpper
  <2>2. Keeps(m, k)
    BY <2>1, FaultKeeps DEF Faults
  <2>3. k.fault = "empty" /\ (Based(m) => Based(k))
    BY <2>1 DEF Fault, Fit, Memory, Based, Apart
  <2> HIDE DEF k
  <2> QED
    BY <1>3, <2>2, <2>3 DEF Alive, k
<1>4. CASE n > 0 /\ a >= m.upBegin /\ a + n < m.upEnd
  <2>1. k = m
    BY <1>1, <1>4 DEF GrowUpper
  <2> QED
    BY <2>1, <1>1, <1>4 DEF Keeps, Alive
<1>5. CASE n > 0 /\ ~(a >= m.upBegin /\ a + n < m.upEnd)
  <2>1. /\ newBegin \in Nat /\ newEnd \in Nat /\ newInc \in Nat
        /\ newBegin <= a /\ a + n <= newEnd
        /\ m.upEnd # 0 => newBegin <= m.upBegin /\ m.upEnd <= newEnd
        /\ Based(m) => m.lowCap <= newBegin
    <3> HIDE DEF inc, begin, end, clipped
    <3>1. newInc \in Nat
      BY <1>2
    <3> HIDE DEF newInc
    <3> QED
      BY <1>1, <1>2, <3>1, Constants DEF Max2, Min2, Based, Apart
  <2>2. CASE newEnd - newBegin > MaxAlloc
    <3>1. k = Fault(m, "alloc")
      BY <1>1, <1>5, <2>2 DEF GrowUpper
    <3>2. Keeps(m, k)
      BY <3>1, FaultKeeps DEF Faults
    <3>3. k.fault = "alloc" /\ (Based(m) => Based(k))
      BY <3>1 DEF Fault, Fit, Memory, Based, Apart
    <3> HIDE DEF k
    <3> QED
      BY <3>2, <3>3 DEF Alive, k
  <2>3. CASE ~(newEnd - newBegin > MaxAlloc)
    <3>1. k = [m EXCEPT !.upBegin = newBegin, !.upEnd = newEnd,
                        !.upInc = newInc, !.up = up]
      <4>1. ~(first >= last) /\ ~(first >= m.upBegin /\ last < m.upEnd)
        BY <1>1, <1>5
      <4> QED
        BY <4>1, <2>3 DEF GrowUpper
    <3>2. up \in [Addr -> Byte]
      BY Constants DEF Fit, Memory
    <3> HIDE DEF newBegin, newEnd, newInc, k, up
    <3>3. /\ k \in Memory /\ k.lowCap = m.lowCap /\ k.low = m.low
          /\ k.upBegin = newBegin /\ k.upEnd = newEnd /\ k.up = up
          /\ k.argSize = m.argSize /\ k.args = m.args /\ k.fault = m.fault
      BY <3>1, <3>2, <2>1 DEF Fit, Memory
    <3>4. Fit(k) /\ (Overrun(m) => Overrun(k))
      BY <3>3, <2>1, <1>1, <1>5, Constants DEF Fit, Overrun
    <3>5. ASSUME NEW x \in Addr, InUpper(m, x)
          PROVE  InUpper(k, x)
      BY <3>5, <3>3, <2>1, <1>1, Constants DEF InUpper
    <3>6. ASSUME ~Overrun(k), NEW x \in Addr, InUpper(k, x)
          PROVE  ~InArgs(m, x)
      BY <3>6, <3>3, <2>1, Constants
      DEF InUpper, InArgs, Overrun, Fit, Memory
    <3>7. ~Overrun(k) => \A x \in Addr : View(k)[x] = View(m)[x]
      BY <3>3, <3>5, <3>6 DEF View, InLower, InArgs, up
    <3>8. ~Overrun(k) => View(k) = View(m)
      BY <3>7 DEF View
    <3>9. \A x \in Addr : Backed(m, x) => Backed(k, x)
      BY <3>3, <3>5 DEF Backed, InLower, InArgs
    <3>10. Based(m) => Based(k)
      BY <3>3, <3>4, <2>1 DEF Based, Apart, Fit
    <3> QED
      BY <3>3, <3>4, <3>8, <3>9, <3>10, <2>1, <1>5 DEF Keeps, Alive, k
  <2> QED
    BY <2>1, <2>2, <2>3
<1> QED
  BY <1>1, <1>3, <1>4, <1>5

(* The arguments area grows. *)
LEMMA GrowArgsKeeps ==
  ASSUME NEW m, Fit(m), NEW need \in Nat
  PROVE  LET k == GrowArgs(m, need) IN
         /\ Keeps(m, k)
         /\ k.fault = m.fault
         /\ k.argSize >= need
         /\ Based(m) => Based(k)
<1> DEFINE args == [x \in Addr |-> IF InArgs(m, x) THEN m.args[x] ELSE 0]
           k == GrowArgs(m, need)
<1>1. CASE need <= m.argSize
  BY <1>1 DEF GrowArgs, Keeps
<1>2. CASE ~(need <= m.argSize)
  <2>1. k = [m EXCEPT !.argSize = need, !.args = args]
    BY <1>2 DEF GrowArgs
  <2>2. args \in [Addr -> Byte]
    BY Constants DEF Fit, Memory
  <2> HIDE DEF k, args
  <2>3. /\ k \in Memory /\ k.lowCap = m.lowCap /\ k.low = m.low
        /\ k.upBegin = m.upBegin /\ k.upEnd = m.upEnd /\ k.up = m.up
        /\ k.argSize = need /\ k.args = args /\ k.fault = m.fault
    BY <2>1, <2>2 DEF Fit, Memory
  <2>4. Fit(k) /\ (Overrun(m) => Overrun(k))
    BY <2>3 DEF Fit, Overrun
  <2>5. m.argSize \in Nat /\ need > m.argSize
    BY <1>2 DEF Fit, Memory
  <2>6. ASSUME NEW x \in Addr, InArgs(m, x)
        PROVE  InArgs(k, x)
    BY <2>6, <2>3, <2>5, Constants DEF InArgs
  <2>7. \A x \in Addr : View(k)[x] = View(m)[x]
    BY <2>3, <2>6 DEF View, InLower, InUpper, args
  <2>8. View(k) = View(m)
    BY <2>7 DEF View
  <2>9. \A x \in Addr : Backed(m, x) => Backed(k, x)
    BY <2>3, <2>6 DEF Backed, InLower, InUpper
  <2>10. Based(m) => Based(k)
    BY <2>3 DEF Based, Apart
  <2> QED
    BY <2>3, <2>4, <2>5, <2>8, <2>9, <2>10 DEF Keeps, k
<1> QED
  BY <1>1, <1>2

LEMMA KeepsTransitive ==
  ASSUME NEW m, NEW k, NEW j, Keeps(m, k), Keeps(k, j)
  PROVE  Keeps(m, j)
BY DEF Keeps

Segments == {"lower", "upper", "arguments"}

(* What a translation t of [a, a+n) owes its caller. *)
Sound(m, t, a, n) ==
  /\ Keeps(m, t.mem)
  /\ n > 0 => t.mem.fault # "empty"
  /\ Based(m) => Based(t.mem) /\ t.mem.fault # "merge"
  /\ t.seg = "none" <=> ~Alive(t.mem)
  /\ t.seg # "none" => t.seg \in Segments /\ Holds(t.mem, t.seg, a, n)

LEMMA ExpandLowerSound ==
  ASSUME NEW m, Fit(m), Alive(m), NEW a \in Nat, NEW n \in Nat
  PROVE  Sound(m, ExpandLower(m, a, n), a, n)
<1> DEFINE end == a + n
           meets == m.upEnd # 0 /\ (end >= m.upBegin
                                      \/ 2 * m.lowCap >= m.upBegin)
           base == IF ~meets THEN m
                   ELSE IF end <= m.upEnd THEN Merge(m)
                   ELSE Fault(m, "boundary")
           g == GrowLower(base, end)
           t == ExpandLower(m, a, n)
<1>1. /\ end \in Nat /\ m.lowCap \in Nat
      /\ m.upBegin \in Nat /\ m.upEnd \in Nat
  BY DEF Fit, Memory
<1>2. t = Resolved(IF Alive(base) THEN g ELSE base, "lower")
  BY DEF ExpandLower
<1>3. /\ Keeps(m, base) /\ base.fault # "empty"
      /\ Based(m) => Based(base) /\ base.fault # "merge"
      /\ Based(m) /\ Alive(base) /\ base.upEnd # 0
           => GrownCap(base.lowCap, end) <= base.upBegin
  <2>1. CASE ~meets
    <3>1. base = m
      BY <2>1
    <3>2. /\ GrownCap(m.lowCap, end) \in Nat
          /\ m.lowCap > 0 => \/ GrownCap(m.lowCap, end) <= end
                            \/ GrownCap(m.lowCap, end) <= 2 * m.lowCap
      <4> HIDE DEF end
      <4> QED
        BY <1>1, GrownCapFacts
    <3>3. m.upEnd # 0 => end < m.upBegin /\ 2 * m.lowCap < m.upBegin
      BY <2>1, <1>1
    <3>4. Based(m) /\ m.upEnd # 0 => GrownCap(m.lowCap, end) <= m.upBegin
      <4> HIDE DEF end
      <4> QED
        BY <3>2, <3>3, <1>1 DEF Based
    <3> HIDE DEF base
    <3> QED
      BY <3>1, <3>4 DEF Keeps, Alive
  <2>2. CASE meets /\ end <= m.upEnd
    <3>1. base = Merge(m)
      BY <2>2
    <3> HIDE DEF base
    <3> QED
      BY <3>1, <2>2, MergeKeeps
  <2>3. CASE meets /\ ~(end <= m.upEnd)
    <3>1. base = Fault(m, "boundary")
      BY <2>3
    <3>2. base.fault = "boundary" /\ (Based(m) => Based(base))
      BY <3>1 DEF Fault, Fit, Memory, Based, Apart
    <3> HIDE DEF base
    <3> QED
      BY <3>1, <3>2, FaultKeeps DEF Faults, Alive
  <2> QED
    BY <2>1, <2>2, <2>3
<1> HIDE DEF base, end
<1>4. CASE Alive(base)
  <2>1. /\ Keeps(base, g) /\ g.fault \in {"none", "alloc"}
        /\ Alive(g) => g.lowCap >= end
        /\ Based(m) => Based(g)
    BY <1>1, <1>3, <1>4, GrowLowerKeeps DEF Keeps
  <2>2. Keeps(m, g)
    BY <1>3, <2>1, KeepsTransitive
  <2>3. t = Resolved(g, "lower")
    BY <1>2, <1>4
  <2> HIDE DEF g, t
  <2>4. g.lowCap \in Nat
    BY <2>2 DEF Keeps, Fit, Memory
  <2> QED
    BY <2>1, <2>2, <2>3, <2>4, <1>1
    DEF Sound, Resolved, Alive, Segments, Holds, end, t
<1>5. CASE ~Alive(base)
  <2>1. t = Resolved(base, "lower")
    BY <1>2, <1>5
  <2> HIDE DEF t
  <2> QED
    BY <2>1, <1>3, <1>5 DEF Sound, Resolved, t
<1> QED
  BY <1>4, <1>5

LEMMA GrowUpperSound ==
  ASSUME NEW m, Fit(m), Alive(m), NEW a \in Nat, NEW n \in Nat,
         NEW max \in Nat, m.lowCap <= a, a + n <= max
  PROVE  Sound(m, Resolved(GrowUpper(m, a, n, m.lowCap, max), "upper"), a, n)
<1> DEFINE k == GrowUpper(m, a, n, m.lowCap, max)
<1>1. /\ Keeps(m, k) /\ k.fault \in {"none", "alloc", "empty"}
      /\ n > 0 => k.fault # "empty"
      /\ Alive(k) => k.upBegin <= a /\ a + n <= k.upEnd
      /\ Based(m) => Based(k)
  BY GrowUpperKeeps
<1> HIDE DEF k
<1>2. Sound(m, Resolved(k, "upper"), a, n)
  BY <1>1 DEF Sound, Resolved, Alive, Segments, Holds
<1> QED
  BY <1>2 DEF k

LEMMA OutsideSound ==
  ASSUME NEW m, Fit(m), Alive(m), NEW a \in Nat, NEW n \in Nat,
         m.lowCap <= a
  PROVE  Sound(m, Outside(m, a, n), a, n)
<1> DEFINE e == [m EXCEPT !.exception = TRUE]
<1>1. /\ e \in Memory /\ e.lowCap = m.lowCap /\ e.low = m.low
      /\ e.upBegin = m.upBegin /\ e.upEnd = m.upEnd /\ e.up = m.up
      /\ e.argSize = m.argSize /\ e.args = m.args /\ e.fault = m.fault
  BY DEF Fit, Memory
<1> HIDE DEF e
<1>2. Keeps(m, e) /\ Alive(e) /\ (Based(m) => Based(e))
  BY <1>1 DEF Keeps, Fit, Overrun, View, Backed, InLower, InUpper, InArgs,
     Alive, Based, Apart
<1>3. ASSUME NEW t, Sound(e, t, a, n)
      PROVE  Sound(m, t, a, n)
  BY <1>2, <1>3, KeepsTransitive DEF Sound
<1>4. CASE a + n <= ArgsBase
  <2>1. Outside(m, a, n)
          = Resolved(GrowUpper(e, a, n, e.lowCap, ArgsBase), "upper")
    BY <1>1, <1>4 DEF Outside, e
  <2>2. Sound(e, Outside(m, a, n), a, n)
    BY <2>1, <1>1, <1>2, <1>4, Constants, GrowUpperSound DEF Keeps
  <2> QED
    BY <2>2, <1>3
<1>5. CASE ~(a + n <= ArgsBase) /\ a >= ArgsBase
  <2> DEFINE need == a + n - ArgsBase
             k == GrowArgs(e, need)
  <2>1. Outside(m, a, n) = Resolved(k, "arguments")
    BY <1>5 DEF Outside, e
  <2>2. need \in Nat
    BY <1>5, Constants
  <2>3. Keeps(e, k) /\ k.fault = e.fault /\ k.argSize >= need
       /\ (Based(e) => Based(k))
    BY <2>2, <1>2, GrowArgsKeeps DEF Keeps
  <2>4. k.argSize \in Nat
    BY <2>3 DEF Keeps, Fit, Memory
  <2> HIDE DEF k
  <2>5. Sound(e, Resolved(k, "arguments"), a, n)
    BY <2>3, <2>4, <1>2, <1>5, Constants
    DEF Sound, Resolved, Alive, Segments, Holds
  <2> QED
    BY <2>1, <2>5, <1>3
<1>6. CASE ~(a + n <= ArgsBase) /\ ~(a >= ArgsBase)
  <2>1. Outside(m, a, n) = Resolved(Fault(e, "null"), "none")
    BY <1>6 DEF Outside, e
  <2>2. Keeps(e, Fault(e, "null"))
    BY <1>2, FaultKeeps DEF Keeps, Faults
  <2>3. /\ Fault(e, "null").fault = "null"
        /\ Based(e) => Based(Fault(e, "null"))
    BY <1>1 DEF Fault, Memory, Based, Apart
  <2>4. Sound(e, Resolved(Fault(e, "null"), "none"), a, n)
    BY <2>2, <2>3 DEF Sound, Resolved, Alive
  <2> QED
    BY <2>1, <2>4, <1>3
<1> QED
  BY <1>4, <1>5, <1>6

(* The whole of translate_addr_grow_if_needed. *)
LEMMA TranslateSound ==
  ASSUME NEW m, Fit(m), Alive(m), NEW a \in Nat, NEW n \in Nat,
         NEW size \in Nat
  PROVE  Sound(m, Translate(m, a, n, size), a, n)
<1> DEFINE t == Translate(m, a, n, size)
           b == IF MergeFirst(m, a) THEN Merge(m) ELSE m
<1>0. Keeps(m, m)
  BY DEF Keeps
<1>1. CASE a + n <= m.lowCap
  <2>1. t = Resolved(m, "lower")
    BY <1>1 DEF Translate
  <2> QED
    BY <2>1, <1>0, <1>1 DEF Sound, Resolved, Alive, Segments, Holds
<1>2. CASE ~(a + n <= m.lowCap) /\ a >= m.upBegin /\ a + n <= m.upEnd
  <2>1. t = Resolved(m, "upper")
    BY <1>2 DEF Translate
  <2>2. m.upBegin \in Nat
    BY DEF Fit, Memory
  <2> QED
    BY <2>1, <2>2, <1>0, <1>2 DEF Sound, Resolved, Alive, Segments, Holds
<1>3. CASE /\ ~(a + n <= m.lowCap) /\ ~(a >= m.upBegin /\ a + n <= m.upEnd)
           /\ a >= ArgsBase /\ a + n <= ArgsBase + m.argSize
  <2>1. t = Resolved(m, "arguments")
    BY <1>3 DEF Translate
  <2> QED
    BY <2>1, <1>0, <1>3, Constants
    DEF Sound, Resolved, Alive, Segments, Holds
<1>4. CASE /\ ~(a + n <= m.lowCap) /\ ~(a >= m.upBegin /\ a + n <= m.upEnd)
           /\ ~(a >= ArgsBase /\ a + n <= ArgsBase + m.argSize)
  <2>1. t = Expand(b, a, n, size)
    BY <1>4 DEF Translate
  <2>2. /\ Keeps(m, b) /\ b.fault \in {"none", "alloc", "merge"}
        /\ Based(m) => Based(b) /\ b.fault # "merge"
    <3>1. CASE MergeFirst(m, a)
      BY <3>1, MergeKeeps DEF MergeFirst
    <3>2. CASE ~MergeFirst(m, a)
      BY <3>2, <1>0 DEF Alive
    <3> QED
      BY <3>1, <3>2
  <2> HIDE DEF b, t
  <2>3. CASE ~Alive(b)
    <3>1. t = Resolved(b, "none")
      BY <2>1, <2>3 DEF Expand
    <3> QED
      BY <3>1, <2>2, <2>3 DEF Sound, Resolved, t
  <2>4. CASE Alive(b)
    <3>1. Fit(b) /\ b.lowCap \in Nat
      BY <2>2 DEF Keeps, Fit, Memory
    <3>2. Sound(b, t, a, n)
      <4>1. CASE a + n <= Cut \/ a <= 2 * b.lowCap
        BY <4>1, <3>1, <2>1, <2>4, ExpandLowerSound DEF Expand
      <4>2. CASE /\ ~(a + n <= Cut \/ a <= 2 * b.lowCap)
                 /\ a + n <= size
        <5>1. t = Resolved(GrowUpper(b, a, n, b.lowCap, size), "upper")
          BY <4>2, <2>1, <2>4 DEF Expand
        <5> QED
          BY <5>1, <4>2, <3>1, <2>4, GrowUpperSound
      <4>3. CASE /\ ~(a + n <= Cut \/ a <= 2 * b.lowCap)
                 /\ ~(a + n <= size)
        <5>1. t = Outside(b, a, n)
          BY <4>3, <2>1, <2>4 DEF Expand
        <5> QED
          BY <5>1, <4>3, <3>1, <2>4, OutsideSound
      <4> QED
        BY <4>1, <4>2, <4>3
    <3> QED
      BY <3>2, <2>2, KeepsTransitive DEF Sound, t
  <2> QED
    BY <2>3, <2>4
<1> QED
  BY <1>1, <1>2, <1>3, <1>4

(* Reading a range that a segment holds reads the content of the memory,   *)
(* as long as no address is in two arrays.                                 *)
LEMMA ReadIsView ==
  ASSUME NEW m, Fit(m), NEW seg \in Segments, NEW a \in Nat, NEW n \in Nat,
         Holds(m, seg, a, n), NEW x \in Span(a, n)
  PROVE  /\ ~Overrun(m) => ArrayOf(m, seg)[x] = View(m)[x]
         /\ ArrayOf(m, seg)[x] \in Byte
<1>1. /\ x \in Addr /\ x \in Nat /\ a <= x /\ x < a + n
      /\ m.lowCap \in Nat /\ m.upBegin \in Nat /\ m.upEnd \in Nat
      /\ m.argSize \in Nat
      /\ m.low[x] \in Byte /\ m.up[x] \in Byte /\ m.args[x] \in Byte
  BY Constants DEF Span, Fit, Memory
<1>2. CASE seg = "lower"
  BY <1>1, <1>2 DEF Holds, ArrayOf, View, InLower
<1>3. CASE seg = "upper"
  BY <1>1, <1>3 DEF Holds, ArrayOf, View, InLower, InUpper, Overrun
<1>4. CASE seg = "arguments"
  BY <1>1, <1>4, Constants
  DEF Holds, ArrayOf, View, InLower, InUpper, InArgs, Overrun
<1> QED
  BY <1>2, <1>3, <1>4 DEF Segments

(* Writing into a range that a segment holds moves no array; it changes    *)
(* the content there and nothing else, as long as no address is in two.    *)
LEMMA WrittenIsStored ==
  ASSUME NEW m, Fit(m), NEW seg \in Segments, NEW a \in Nat, NEW n \in Nat,
         Holds(m, seg, a, n), NEW c \in [Span(a, n) -> Byte]
  PROVE  /\ Fit(Written(m, seg, c))
         /\ Written(m, seg, c).fault = m.fault
         /\ Overrun(Written(m, seg, c)) <=> Overrun(m)
         /\ Based(Written(m, seg, c)) <=> Based(m)
         /\ ~Overrun(m) => View(Written(m, seg, c)) = Overwrite(View(m), c)
         /\ \A x \in Addr : Backed(m, x) => Backed(Written(m, seg, c), x)
<1> DEFINE k == Written(m, seg, c)
           new(array) == Overwrite(array, c)
<1>1. ASSUME NEW array \in [Addr -> Byte]
      PROVE  new(array) \in [Addr -> Byte]
  BY DEF Overwrite, Span
<1>2. /\ k.lowCap = m.lowCap /\ k.upBegin = m.upBegin /\ k.upEnd = m.upEnd
      /\ k.argSize = m.argSize /\ k.fault = m.fault /\ k \in Memory
      /\ k.low = IF seg = "lower" THEN new(m.low) ELSE m.low
      /\ k.up = IF seg = "upper" THEN new(m.up) ELSE m.up
      /\ k.args = IF seg = "arguments" THEN new(m.args) ELSE m.args
  <2>1. /\ new(m.low) \in [Addr -> Byte] /\ new(m.up) \in [Addr -> Byte]
        /\ new(m.args) \in [Addr -> Byte]
    BY <1>1 DEF Fit, Memory
  <2>2. CASE seg = "lower"
    <3>1. k = [m EXCEPT !.low = new(m.low)]
      BY <2>2 DEF Written, Fit, Memory
    <3> HIDE DEF k, new
    <3> QED
      BY <3>1, <2>1, <2>2 DEF Fit, Memory
  <2>3. CASE seg = "upper"
    <3>1. k = [m EXCEPT !.up = new(m.up)]
      BY <2>3 DEF Written, Fit, Memory
    <3> HIDE DEF k, new
    <3> QED
      BY <3>1, <2>1, <2>3 DEF Fit, Memory
  <2>4. CASE seg = "arguments"
    <3>1. k = [m EXCEPT !.args = new(m.args)]
      BY <2>4 DEF Written, Fit, Memory
    <3> HIDE DEF k, new
    <3> QED
      BY <3>1, <2>1, <2>4 DEF Fit, Memory
  <2> QED
    BY <2>2, <2>3, <2>4 DEF Segments
<1> HIDE DEF k
<1>3. ASSUME ~Overrun(m), NEW x \in Addr
      PROVE  View(k)[x] = Overwrite(View(m), c)[x]
  <2>1. CASE x \in Span(a, n)
    <3>1. x \in DOMAIN c /\ a <= x /\ x < a + n /\ x \in Nat
      BY <2>1, Constants DEF Span
    <3>2. /\ m.lowCap \in Nat /\ m.upBegin \in Nat /\ m.upEnd \in Nat
          /\ m.argSize \in Nat
      BY DEF Fit, Memory
    <3>3. View(k)[x] = c[x]
      <4>1. CASE seg = "lower"
        BY <4>1, <3>1, <3>2, <1>2
        DEF Holds, View, InLower, Overwrite
      <4>2. CASE seg = "upper"
        BY <4>2, <3>1, <3>2, <1>2, <1>3
        DEF Holds, View, InLower, InUpper, Overwrite, Overrun
      <4>3. CASE seg = "arguments"
        BY <4>3, <3>1, <3>2, <1>2, <1>3, Constants
        DEF Holds, View, InLower, InUpper, InArgs, Overwrite, Overrun
      <4> QED
        BY <4>1, <4>2, <4>3 DEF Segments
    <3> QED
      BY <3>1, <3>3 DEF Overwrite
  <2>2. CASE x \notin Span(a, n)
    <3>1. x \notin DOMAIN c
      BY <2>2
    <3>2. /\ k.low[x] = m.low[x] /\ k.up[x] = m.up[x]
          /\ k.args[x] = m.args[x]
      BY <3>1, <1>2 DEF Overwrite
    <3> QED
      BY <3>1, <3>2, <1>2
      DEF View, Overwrite, InLower, InUpper, InArgs
  <2> QED
    BY <2>1, <2>2
<1>4. ~Overrun(m) => View(k) = Overwrite(View(m), c)
  BY <1>3 DEF View, Overwrite
<1>5. Fit(k)
  BY <1>2 DEF Fit
<1>6. (Overrun(k) <=> Overrun(m)) /\ (Based(k) <=> Based(m))
  BY <1>2 DEF Overrun, Based, Apart
<1> QED
  BY <1>2, <1>4, <1>5, <1>6
  DEF Backed, InLower, InUpper, InArgs, k

-----------------------------------------------------------------------------
(* Neither an access nor the first data segment is an empty range.         *)
NothingEmpty ==
  /\ \A r \in Accesses : r[2] > 0
  /\ \A s \in FirstSegments : s[2] > 0 \/ s[1] = 0

(* The inductive invariant: a well-formed memory, the type of the rest,    *)
(* and the assertion that only an empty range can make fail.               *)
IInv ==
  /\ Fit(mem)
  /\ pages \in Nat
  /\ MemSize \in Nat
  /\ \E S \in SUBSET Addr : ret \in [S -> Byte]
  /\ NothingEmpty => mem.fault # "empty"

(* No array yet: nothing is backed and every byte is 0.                    *)
LEMMA NoMemoryFit ==
  /\ Fit(NoMemory) /\ Alive(NoMemory) /\ ~Overrun(NoMemory)
  /\ View(NoMemory) = [x \in Addr |-> 0]
<1>1. NoMemory \in Memory
  BY Constants DEF NoMemory, Memory, Faults
<1>2. ASSUME NEW x \in Addr
      PROVE  View(NoMemory)[x] = 0
  <2>1. x \in Nat /\ ArgsBase \in Nat
    BY Constants
  <2> QED
    BY <2>1 DEF View, NoMemory, InLower, InUpper, InArgs
<1>3. View(NoMemory) = [x \in Addr |-> 0]
  BY <1>2 DEF View
<1> QED
  BY <1>1, <1>3, Constants DEF Fit, NoMemory, Alive, Overrun

(* The memory the program starts with, after its first data segment.       *)
LEMMA InitMemory ==
  ASSUME Init
  PROVE  /\ pages = InitPages /\ pages \in Nat /\ MemSize \in Nat
         /\ ret = [x \in {} |-> 0]
         /\ \E s \in FirstSegments :
              /\ s[1] \in Nat /\ s[2] \in Nat
              /\ mem = Translate(NoMemory, s[1], s[2], MemSize).mem
              /\ Sound(NoMemory, Translate(NoMemory, s[1], s[2], MemSize),
                       s[1], s[2])
<1>1. InitPages \in Nat /\ PageSize \in Nat
  BY ConstantsAssumption
<1>2. pages = InitPages /\ MemSize = InitPages * PageSize
  BY DEF Init, MemSize
<1>3. MemSize \in Nat
  BY <1>1, <1>2
<1>4. PICK s \in FirstSegments :
        mem = Translate(NoMemory, s[1], s[2], MemSize).mem
  BY <1>2 DEF Init
<1>5. s[1] \in Nat /\ s[2] \in Nat
  BY ConstantsAssumption
<1>6. Sound(NoMemory, Translate(NoMemory, s[1], s[2], MemSize), s[1], s[2])
  BY <1>3, <1>5, NoMemoryFit, TranslateSound
<1> QED
  BY <1>1, <1>2, <1>3, <1>4, <1>5, <1>6 DEF Init

LEMMA InitIInv ==
  ASSUME Init
  PROVE  IInv
<1>1. PICK s \in FirstSegments :
        /\ s[1] \in Nat /\ s[2] \in Nat
        /\ mem = Translate(NoMemory, s[1], s[2], MemSize).mem
        /\ Sound(NoMemory, Translate(NoMemory, s[1], s[2], MemSize),
                 s[1], s[2])
  BY InitMemory
<1>2. /\ Fit(mem) /\ pages \in Nat /\ MemSize \in Nat
      /\ s[2] > 0 => mem.fault # "empty"
  BY <1>1, InitMemory DEF Sound, Keeps
<1>3. s[2] = 0 /\ s[1] = 0 => mem.fault # "empty"
  <2>1. CASE s[2] = 0 /\ s[1] = 0
    <3>1. mem = NoMemory
      BY <2>1, <1>1 DEF Translate, Resolved, NoMemory
    <3> QED
      BY <3>1, NoMemoryFit DEF Alive
  <2> QED
    BY <2>1
<1>4. NothingEmpty => mem.fault # "empty"
  BY <1>1, <1>2, <1>3 DEF NothingEmpty
<1>5. ret \in [{} -> Byte]
  BY InitMemory
<1> QED
  BY <1>2, <1>4, <1>5 DEF IInv

(* What a translation in a state of the invariant gives. *)
LEMMA StepTranslate ==
  ASSUME IInv, Running, NEW r \in Accesses
  PROVE  /\ Sound(mem, Translate(mem, r[1], r[2], MemSize), r[1], r[2])
         /\ r[1] \in Nat /\ r[2] \in Nat
<1>1. r[1] \in Nat /\ r[2] \in Nat
  BY ConstantsAssumption
<1> QED
  BY <1>1, TranslateSound DEF IInv, Running

(* An aborted access leaves the memory as it was.                          *)
LEMMA AbortStep ==
  ASSUME IInv, Running, NEW r \in Accesses,
         ~Alive(Translate(mem, r[1], r[2], MemSize).mem),
         Abort(Translate(mem, r[1], r[2], MemSize).mem.fault)
  PROVE  /\ IInv' /\ Keeps(mem, mem') /\ ~Running' /\ ret' = ret
         /\ Based(mem) => Based(mem') /\ mem'.fault # "merge"
<1> DEFINE t == Translate(mem, r[1], r[2], MemSize)
<1>1. Sound(mem, t, r[1], r[2])
  BY StepTranslate
<1> HIDE DEF t
<1>2. t.mem.fault \in Faults
  BY <1>1 DEF Sound, Keeps, Fit, Memory
<1>3. Keeps(mem, mem') /\ mem'.fault = t.mem.fault
  BY <1>2, FaultKeeps DEF Abort, IInv, Fit, Memory, Fault, t
<1>4. /\ Based(mem) => Based(mem') /\ mem'.fault # "merge"
      /\ NothingEmpty => mem'.fault # "empty"
  <2>1. Based(mem) => Based(mem')
    BY DEF Abort, IInv, Fit, Memory, Fault, Based, Apart
  <2> QED
    BY <2>1, <1>1, <1>3 DEF Sound, NothingEmpty
<1>5. UNCHANGED <<pages, ret>>
  BY DEF Abort
<1> QED
  BY <1>3, <1>4, <1>5 DEF IInv, MemSize, Keeps, Running, Alive, t

(* A load that is served delivers the content of the memory.               *)
LEMMA LoadStep ==
  ASSUME IInv, NEW r \in Accesses, Load(r[1], r[2])
  PROVE  /\ IInv' /\ Keeps(mem, mem')
         /\ Based(mem) => Based(mem') /\ mem'.fault # "merge"
         /\ \/ ~Running' /\ ret' = ret
            \/ Overrun(mem')
            \/ Running' /\ ret' = [x \in Span(r[1], r[2]) |-> View(mem)[x]]
<1> DEFINE t == Translate(mem, r[1], r[2], MemSize)
<1>1. Running /\ Sound(mem, t, r[1], r[2]) /\ r[1] \in Nat /\ r[2] \in Nat
  BY StepTranslate DEF Load
<1>2. CASE t.seg = "none"
  <2>1. ~Alive(t.mem) /\ Abort(t.mem.fault)
    BY <1>1, <1>2 DEF Load, Sound
  <2> QED
    BY <2>1, <1>1, AbortStep
<1>3. CASE t.seg # "none"
  <2>1. /\ mem' = t.mem /\ pages' = pages
        /\ ret' = [x \in Span(r[1], r[2]) |-> ArrayOf(t.mem, t.seg)[x]]
    BY <1>3 DEF Load
  <2> HIDE DEF t
  <2>2. /\ Keeps(mem, mem') /\ Alive(mem') /\ t.seg \in Segments
        /\ Holds(mem', t.seg, r[1], r[2])
        /\ Based(mem) => Based(mem') /\ mem'.fault # "merge"
    BY <2>1, <1>1, <1>3 DEF Sound
  <2>3. ASSUME NEW x \in Span(r[1], r[2])
        PROVE  /\ ~Overrun(mem') => ArrayOf(t.mem, t.seg)[x] = View(mem)[x]
               /\ ArrayOf(t.mem, t.seg)[x] \in Byte
    <3>1. Fit(t.mem) /\ Holds(t.mem, t.seg, r[1], r[2])
      BY <2>1, <2>2 DEF Keeps
    <3>2. ~Overrun(mem') => View(t.mem) = View(mem)
      BY <2>1, <2>2 DEF Keeps
    <3> QED
      BY <3>1, <3>2, <2>1, <2>2, <1>1, ReadIsView
  <2>4. ~Overrun(mem') => ret' = [x \in Span(r[1], r[2]) |-> View(mem)[x]]
    BY <2>1, <2>3
  <2>5. ret' \in [Span(r[1], r[2]) -> Byte] /\ Span(r[1], r[2]) \subseteq Addr
    BY <2>1, <2>3 DEF Span
  <2>6. \E S \in SUBSET Addr : ret' \in [S -> Byte]
    BY <2>5
  <2> QED
    BY <2>1, <2>2, <2>4, <2>6 DEF IInv, Keeps, MemSize, Running, Alive
<1> QED
  BY <1>2, <1>3

(* A store that is served changes the bytes written and no other.          *)
LEMMA StoreStep ==
  ASSUME IInv, NEW r \in Accesses, NEW c \in [Span(r[1], r[2]) -> Byte],
         Store(r[1], r[2], c)
  PROVE  /\ IInv' /\ ret' = ret
         /\ \A x \in Addr : Backed(mem, x) => Backed(mem', x)
         /\ Based(mem) => Based(mem') /\ mem'.fault # "merge"
         /\ Overrun(mem) => Overrun(mem')
         /\ \/ ~Running'
            \/ Overrun(mem')
            \/ Running' /\ View(mem') = Overwrite(View(mem), c)
<1> DEFINE t == Translate(mem, r[1], r[2], MemSize)
<1>1. Running /\ Sound(mem, t, r[1], r[2]) /\ r[1] \in Nat /\ r[2] \in Nat
  BY StepTranslate DEF Store
<1>2. CASE t.seg = "none"
  <2>1. ~Alive(t.mem) /\ Abort(t.mem.fault)
    BY <1>1, <1>2 DEF Store, Sound
  <2> QED
    BY <2>1, <1>1, AbortStep DEF Keeps
<1>3. CASE t.seg # "none"
  <2>1. mem' = Written(t.mem, t.seg, c) /\ pages' = pages /\ ret' = ret
    BY <1>3 DEF Store
  <2> HIDE DEF t
  <2>2. /\ Keeps(mem, t.mem) /\ Alive(t.mem) /\ t.seg \in Segments
        /\ Holds(t.mem, t.seg, r[1], r[2]) /\ Fit(t.mem)
        /\ Based(mem) => Based(t.mem)
    BY <1>1, <1>3 DEF Sound, Keeps
  <2>3. /\ Fit(mem') /\ mem'.fault = t.mem.fault
        /\ Overrun(mem') <=> Overrun(t.mem)
        /\ Based(mem') <=> Based(t.mem)
        /\ ~Overrun(t.mem) => View(mem') = Overwrite(View(t.mem), c)
        /\ \A x \in Addr : Backed(t.mem, x) => Backed(mem', x)
    BY <2>1, <2>2, <1>1, WrittenIsStored
  <2> QED
    BY <2>1, <2>2, <2>3 DEF IInv, Keeps, MemSize, Running, Alive
<1> QED
  BY <1>2, <1>3

LEMMA SetArgumentsStep ==
  ASSUME IInv, NEW n \in ArgSizes, NEW c \in [Span(ArgsBase, n) -> Byte],
         SetArguments(n, c)
  PROVE  /\ IInv' /\ ret' = ret /\ Running /\ Running'
         /\ \A x \in Addr : Backed(mem, x) => Backed(mem', x)
         /\ Based(mem) => Based(mem')
         /\ Overrun(mem) => Overrun(mem')
         /\ ~Overrun(mem') => View(mem') = Overwrite(View(mem), c)
<1> DEFINE k == GrowArgs(mem, n)
<1>1. /\ n \in Nat /\ Running /\ ret' = ret /\ pages' = pages
      /\ mem' = Written(k, "arguments", c)
  BY ConstantsAssumption DEF SetArguments
<1>2. /\ Keeps(mem, k) /\ k.fault = mem.fault /\ k.argSize >= n
      /\ Based(mem) => Based(k)
  BY <1>1, GrowArgsKeeps DEF IInv
<1> HIDE DEF k
<1>3. Holds(k, "arguments", ArgsBase, n)
  BY <1>1, <1>2, Constants DEF Holds, Keeps, Fit, Memory
<1>4. /\ Fit(mem') /\ mem'.fault = k.fault
      /\ Overrun(mem') <=> Overrun(k)
      /\ Based(mem') <=> Based(k)
      /\ ~Overrun(k) => View(mem') = Overwrite(View(k), c)
      /\ \A x \in Addr : Backed(k, x) => Backed(mem', x)
  BY <1>1, <1>2, <1>3, Constants, WrittenIsStored DEF Keeps, Segments
<1> QED
  BY <1>1, <1>2, <1>4 DEF IInv, Keeps, MemSize, Running, Alive

LEMMA ResizeHeapStep ==
  ASSUME IInv, NEW p \in PageCounts, ResizeHeap(p)
  PROVE  IInv' /\ UNCHANGED <<mem, ret>>
<1>1. p \in Nat /\ UNCHANGED <<mem, ret>>
  BY ConstantsAssumption DEF ResizeHeap
<1>2. pages' \in Nat
  <2>1. ArgsBase \div PageSize \in Nat
    BY Constants
  <2> QED
    BY <2>1, <1>1 DEF ResizeHeap
<1>3. pages' * PageSize \in Nat
  <2>1. ASSUME NEW i \in Nat, NEW j \in Nat
        PROVE  i * j \in Nat
    OBVIOUS
  <2>2. PageSize \in Nat
    BY Constants
  <2> QED
    BY <1>2, <2>1, <2>2
<1> QED
  BY <1>1, <1>2, <1>3 DEF IInv, MemSize

LEMMA ClearExceptionStep ==
  ASSUME IInv, ClearException
  PROVE  /\ IInv' /\ Keeps(mem, mem') /\ ret' = ret /\ Running /\ Running'
         /\ Based(mem) => Based(mem')
<1>1. /\ mem' = [mem EXCEPT !.exception = FALSE] /\ Running
      /\ UNCHANGED <<pages, ret>>
  BY DEF ClearException
<1>2. /\ mem' \in Memory /\ mem'.lowCap = mem.lowCap /\ mem'.low = mem.low
      /\ mem'.upBegin = mem.upBegin /\ mem'.upEnd = mem.upEnd
      /\ mem'.up = mem.up /\ mem'.argSize = mem.argSize
      /\ mem'.args = mem.args /\ mem'.fault = mem.fault
  BY <1>1 DEF IInv, Fit, Memory
<1>3. Keeps(mem, mem')
  BY <1>2 DEF IInv, Keeps, Fit, Overrun, View, Backed, InLower, InUpper,
     InArgs
<1>4. Based(mem) => Based(mem')
  BY <1>2 DEF Based, Apart
<1> QED
  BY <1>1, <1>2, <1>3, <1>4 DEF IInv, Keeps, MemSize, Running, Alive

(* One step of the specification, whichever it is. *)
LEMMA NextIInv ==
  ASSUME IInv, [Next]_vars
  PROVE  IInv'
<1>1. ASSUME NEW r \in Accesses, Load(r[1], r[2])
      PROVE  IInv'
  BY <1>1, LoadStep
<1>2. ASSUME NEW r \in Accesses, NEW c \in [Span(r[1], r[2]) -> Byte],
             Store(r[1], r[2], c)
      PROVE  IInv'
  BY <1>2, StoreStep
<1>3. ASSUME NEW p \in PageCounts, ResizeHeap(p)
      PROVE  IInv'
  BY <1>3, ResizeHeapStep
<1>4. ASSUME NEW n \in ArgSizes, NEW c \in [Span(ArgsBase, n) -> Byte],
             SetArguments(n, c)
      PROVE  IInv'
  BY <1>4, SetArgumentsStep
<1>5. CASE ClearException
  BY <1>5, ClearExceptionStep
<1>6. CASE UNCHANGED vars
  BY <1>6 DEF vars, IInv, MemSize
<1> QED
  BY <1>1, <1>2, <1>3, <1>4, <1>5, <1>6 DEF Next

LEMMA Inductive == Spec => []IInv
<1>1. Init => IInv
  BY InitIInv
<1>2. IInv /\ [Next]_vars => IInv'
  BY NextIInv
<1> QED
  BY <1>1, <1>2, PTL DEF Spec

(* Type correctness of dwac_memory, wherever the first data segment goes.  *)
THEOREM TypeCorrect == Spec => []TypeOK
<1>1. IInv => TypeOK
  BY DEF IInv, Fit, TypeOK
<1> QED
  BY <1>1, Inductive, PTL

(* If neither the program nor its first data segment ever asks for an      *)
(* empty range, the assertion of dwac_virtual_storage_grow_buffer_if_needed*)
(* never fails.                                                            *)
THEOREM UpperNeverEmpty ==
  ASSUME \A r \in Accesses : r[2] > 0,
         \A s \in FirstSegments : s[2] > 0 \/ s[1] = 0
  PROVE  Spec => []NonEmptyAssertionHolds
<1>1. IInv => NonEmptyAssertionHolds
  BY DEF IInv, NothingEmpty, NonEmptyAssertionHolds
<1> QED
  BY <1>1, Inductive, PTL

(* Every pointer translate_addr_grow_if_needed returns leaves the whole    *)
(* accessed range inside one host array, whatever has overlapped before.   *)
THEOREM PointersInside == Spec => []TranslationInside
<1>1. IInv => TranslationInside
  BY StepTranslate DEF TranslationInside, Sound
<1> QED
  BY <1>1, Inductive, PTL

(* No step makes a backed address unbacked.                                *)
THEOREM NothingUnbacked == Spec => BackedStaysBacked
<1> DEFINE Stays == \A x \in Addr : Backed(mem, x) => Backed(mem', x)
<1>1. ASSUME IInv, [Next]_vars
      PROVE  Stays \/ UNCHANGED vars
  <2>1. ASSUME NEW r \in Accesses, Load(r[1], r[2])
        PROVE  Stays
    BY <1>1, <2>1, LoadStep DEF Keeps
  <2>2. ASSUME NEW r \in Accesses, NEW c \in [Span(r[1], r[2]) -> Byte],
               Store(r[1], r[2], c)
        PROVE  Stays
    BY <1>1, <2>2, StoreStep
  <2>3. ASSUME NEW p \in PageCounts, ResizeHeap(p)
        PROVE  Stays
    BY <2>3 DEF ResizeHeap
  <2>4. ASSUME NEW n \in ArgSizes, NEW c \in [Span(ArgsBase, n) -> Byte],
               SetArguments(n, c)
        PROVE  Stays
    BY <1>1, <2>4, SetArgumentsStep
  <2>5. CASE ClearException
    BY <1>1, <2>5, ClearExceptionStep DEF Keeps
  <2> HIDE DEF Stays
  <2> QED
    BY <1>1, <2>1, <2>2, <2>3, <2>4, <2>5 DEF Next
<1>2. IInv /\ [Next]_vars => [Stays]_vars
  BY <1>1
<1> HIDE DEF Stays
<1>3. Spec => [][Stays]_vars
  BY <1>2, Inductive, PTL DEF Spec
<1> QED
  BY <1>3 DEF BackedStaysBacked, Stays

-----------------------------------------------------------------------------
(* Lower memory below upper memory *)

LEMMA NextApart ==
  ASSUME IInv, [Next]_vars
  PROVE  /\ Based(mem) => Based(mem')
         /\ Based(mem) /\ mem.fault # "merge" => mem'.fault # "merge"
<1>1. ASSUME NEW r \in Accesses, Load(r[1], r[2])
      PROVE  Based(mem) => Based(mem') /\ mem'.fault # "merge"
  BY <1>1, LoadStep
<1>2. ASSUME NEW r \in Accesses, NEW c \in [Span(r[1], r[2]) -> Byte],
             Store(r[1], r[2], c)
      PROVE  Based(mem) => Based(mem') /\ mem'.fault # "merge"
  BY <1>2, StoreStep
<1>3. ASSUME NEW p \in PageCounts, ResizeHeap(p)
      PROVE  mem' = mem
  BY <1>3 DEF ResizeHeap
<1>4. ASSUME NEW n \in ArgSizes, NEW c \in [Span(ArgsBase, n) -> Byte],
             SetArguments(n, c)
      PROVE  (Based(mem) => Based(mem')) /\ mem'.fault # "merge"
  BY <1>4, SetArgumentsStep DEF Running, Alive
<1>5. CASE ClearException
  <2>1. (Based(mem) => Based(mem')) /\ mem'.fault # "merge"
    BY <1>5, ClearExceptionStep DEF Running, Alive
  <2> QED
    BY <2>1
<1>6. CASE UNCHANGED vars
  BY <1>6 DEF vars
<1> QED
  BY <1>1, <1>2, <1>3, <1>4, <1>5, <1>6 DEF Next

(* Whatever the program, and wherever its first data segment goes: once    *)
(* there is lower memory below upper memory, the two never overlap again.  *)
THEOREM OnceApart == Spec => StaysApart
<1>1. IInv /\ [Next]_vars => [Based(mem) => Based(mem')]_vars
  BY NextApart
<1>2. Spec => [][Based(mem) => Based(mem')]_vars
  BY <1>1, Inductive, PTL DEF Spec
<1> QED
  BY <1>2 DEF StaysApart

(* The layout emscripten gives a program: a first data segment that is     *)
(* not empty and ends below 0xF000.  It is a premise about the program;    *)
(* nothing in the runtime enforces it.                                     *)
FirstSegmentLow ==
  \A s \in FirstSegments : 0 < s[2] /\ s[1] + s[2] <= Cut

(* Such a segment makes the first array of lower memory before there is    *)
(* any upper memory, unless the host refuses it.                           *)
LEMMA InitLow ==
  ASSUME FirstSegmentLow, Init
  PROVE  \E end \in Nat \ {0} : mem = GrowLower(NoMemory, end)
<1>1. PICK s \in FirstSegments :
        /\ s[1] \in Nat /\ s[2] \in Nat
        /\ mem = Translate(NoMemory, s[1], s[2], MemSize).mem
  BY InitMemory
<1> DEFINE end == s[1] + s[2]
<1>2. end \in Nat /\ end > 0 /\ end <= Cut /\ end > s[1]
  BY <1>1 DEF FirstSegmentLow
<1>3. /\ NoMemory.lowCap = 0 /\ NoMemory.upBegin = 0
      /\ NoMemory.upEnd = 0 /\ NoMemory.argSize = 0
  BY DEF NoMemory
<1>4. ~MergeFirst(NoMemory, s[1])
  BY <1>3 DEF MergeFirst
<1>5. ~(s[1] >= ArgsBase /\ end <= ArgsBase + 0)
  BY <1>1, <1>2, Constants
<1>6. Translate(NoMemory, s[1], s[2], MemSize)
        = Expand(NoMemory, s[1], s[2], MemSize)
  BY <1>2, <1>3, <1>4, <1>5 DEF Translate
<1>7. Expand(NoMemory, s[1], s[2], MemSize)
        = ExpandLower(NoMemory, s[1], s[2])
  BY <1>2, NoMemoryFit DEF Expand
<1>8. ExpandLower(NoMemory, s[1], s[2]).mem = GrowLower(NoMemory, end)
  BY <1>3, NoMemoryFit DEF ExpandLower, Resolved
<1> QED
  BY <1>1, <1>2, <1>6, <1>7, <1>8

LEMMA InitApart ==
  ASSUME FirstSegmentLow, Init
  PROVE  /\ Running => Based(mem)
         /\ Separated
         /\ mem.fault # "merge"
<1>1. PICK end \in Nat \ {0} : mem = GrowLower(NoMemory, end)
  BY InitLow
<1>2. /\ Fit(mem) /\ mem.fault \in {"none", "alloc"}
      /\ Alive(mem) => mem.lowCap >= end
  <2>1. /\ Fit(GrowLower(NoMemory, end))
        /\ GrowLower(NoMemory, end).fault \in {"none", "alloc"}
        /\ Alive(GrowLower(NoMemory, end))
             => GrowLower(NoMemory, end).lowCap >= end
    BY <1>1, NoMemoryFit, GrowLowerKeeps DEF Keeps
  <2> QED
    BY <2>1, <1>1
<1>3. mem.upEnd = 0
  <2>1. NoMemory.upEnd = 0 /\ NoMemory \in Memory
    BY NoMemoryFit DEF NoMemory, Fit
  <2>2. GrowLower(NoMemory, end).upEnd = 0
    BY <2>1 DEF GrowLower, Fault, Memory
  <2> QED
    BY <2>2, <1>1
<1> QED
  BY <1>1, <1>2, <1>3 DEF Running, Based, Apart, Separated, Fit, Memory

(* What holds for such a program from then on.                             *)
ApartInv ==
  /\ IInv
  /\ Running => Based(mem)
  /\ Separated
  /\ MergeAssertionHolds

LEMMA InitApartInv ==
  ASSUME FirstSegmentLow, Init
  PROVE  ApartInv
BY InitIInv, InitApart DEF ApartInv, MergeAssertionHolds

LEMMA NextApartInv ==
  ASSUME ApartInv, [Next]_vars
  PROVE  ApartInv'
<1>1. IInv /\ IInv'
  BY NextIInv DEF ApartInv
<1>2. CASE Running
  BY <1>1, <1>2, NextApart
  DEF ApartInv, Based, Separated, MergeAssertionHolds
<1>3. CASE ~Running
  <2>1. UNCHANGED vars
    BY <1>3
    DEF Next, Load, Store, ResizeHeap, SetArguments, ClearException
  <2> QED
    BY <1>1, <2>1
    DEF ApartInv, vars, Running, Separated, MergeAssertionHolds
<1> QED
  BY <1>2, <1>3

LEMMA InductiveApart ==
  ASSUME FirstSegmentLow
  PROVE  Spec => []ApartInv
<1>1. Init => ApartInv
  BY InitApartInv
<1>2. ApartInv /\ [Next]_vars => ApartInv'
  BY NextApartInv
<1> QED
  BY <1>1, <1>2, PTL DEF Spec

(* For a program with the layout of emscripten lower and upper memory      *)
(* never overlap, whatever it loads, stores and resizes, in range or not.  *)
THEOREM SegmentsApart ==
  ASSUME FirstSegmentLow
  PROVE  Spec => []Separated
<1>1. ApartInv => Separated
  BY DEF ApartInv
<1> QED
  BY <1>1, InductiveApart, PTL

(* For such a program the assertion of merge_memories never fails.         *)
THEOREM MergeNeverAborts ==
  ASSUME FirstSegmentLow
  PROVE  Spec => []MergeAssertionHolds
<1>1. ApartInv => MergeAssertionHolds
  BY DEF ApartInv
<1> QED
  BY <1>1, InductiveApart, PTL

-----------------------------------------------------------------------------
(* The refinement *)

LEMMA InitFlat ==
  ASSUME Init
  PROVE  Flat!Init
<1>1. ~Overrun(mem) => View(mem) = [x \in Addr |-> 0]
  BY InitMemory, NoMemoryFit DEF Sound, Keeps
<1> QED
  BY <1>1, InitMemory DEF Flat!Init, Running, Alive

LEMMA NextFlat ==
  ASSUME IInv, [Next]_vars
  PROVE  [Flat!Next]_(Flat!vars)
<1>0. ASSUME ~Running' \/ Overrun(mem')
      PROVE  Flat!Next
  BY <1>0 DEF Flat!Next, Flat!Lost
<1>1. ASSUME NEW r \in Accesses, Load(r[1], r[2]), ~Overrun(mem')
      PROVE  Flat!Next
  <2>1. Running /\ ~Overrun(mem)
    BY <1>1, LoadStep DEF Load, Keeps
  <2>2. View(mem') = View(mem)
    BY <1>1, LoadStep DEF Keeps
  <2>3. CASE ~Running'
    BY <1>0, <2>3
  <2>4. CASE Running' /\ ret' = [x \in Span(r[1], r[2]) |-> View(mem)[x]]
    <3>1. Flat!Load(r[1], r[2])
      BY <1>1, <2>1, <2>2, <2>4 DEF Flat!Load, Flat!Span, Span
    <3> QED
      BY <3>1 DEF Flat!Next
  <2> QED
    BY <1>1, <2>3, <2>4, LoadStep
<1>2. ASSUME NEW r \in Accesses, NEW c \in [Span(r[1], r[2]) -> Byte],
             Store(r[1], r[2], c), ~Overrun(mem')
      PROVE  Flat!Next
  <2>1. Running /\ ~Overrun(mem)
    BY <1>2, StoreStep DEF Store
  <2>2. ret' = ret
    BY <1>2, StoreStep
  <2>3. CASE ~Running'
    BY <1>0, <2>3
  <2>4. CASE Running' /\ View(mem') = Overwrite(View(mem), c)
    <3>1. Flat!Store(r[1], r[2], c)
      BY <1>2, <2>1, <2>2, <2>4 DEF Flat!Store, Overwrite
    <3>2. c \in [Flat!Span(r[1], r[2]) -> Byte]
      BY DEF Flat!Span, Span
    <3> QED
      BY <3>1, <3>2 DEF Flat!Next
  <2> QED
    BY <1>2, <2>3, <2>4, StoreStep
<1>3. ASSUME NEW p \in PageCounts, ResizeHeap(p)
      PROVE  UNCHANGED Flat!vars
  BY <1>3 DEF ResizeHeap, Flat!vars, Running
<1>4. ASSUME NEW n \in ArgSizes, NEW c \in [Span(ArgsBase, n) -> Byte],
             SetArguments(n, c), ~Overrun(mem')
      PROVE  Flat!Next
  <2>1. Flat!SetArguments(n, c)
    BY <1>4, SetArgumentsStep DEF Flat!SetArguments, Flat!Store, Overwrite
  <2>2. c \in [Flat!Span(ArgsBase, n) -> Byte]
    BY DEF Flat!Span, Span
  <2> QED
    BY <2>1, <2>2 DEF Flat!Next
<1>5. CASE ClearException /\ ~Overrun(mem')
  BY <1>5, ClearExceptionStep DEF Flat!vars, Keeps
<1>6. CASE UNCHANGED vars
  BY <1>6 DEF vars, Flat!vars, Running
<1> QED
  BY <1>0, <1>1, <1>2, <1>3, <1>4, <1>5, <1>6 DEF Next

(* The lazily grown, merged and split host arrays behave as one flat array *)
(* of bytes until the process is gone or an address may be in two arrays.  *)
THEOREM RefinesFlat == Spec => ImplementsFlat
<1>1. Init => Flat!Init
  BY InitFlat
<1>2. IInv /\ [Next]_vars => [Flat!Next]_(Flat!vars)
  BY NextFlat
<1>3. Spec => Flat!Spec
  BY <1>1, <1>2, Inductive, PTL DEF Spec, Flat!Spec
<1> QED
  BY <1>3 DEF ImplementsFlat

-----------------------------------------------------------------------------
(* How much the host holds for a guest that stays inside its memory.       *)

(* Upper memory ends inside the memory; lower memory is the first array or *)
(* at most twice the memory.                                               *)
Slim(m, size) ==
  /\ m.lowCap <= InitCap \/ m.lowCap <= 2 * size
  /\ m.upEnd <= size

LEMMA GrowLowerSlim ==
  ASSUME NEW m, Fit(m), NEW need \in Nat, NEW size \in Nat,
         Slim(m, size), need <= size
  PROVE  Slim(GrowLower(m, need), size)
<1> DEFINE cap == GrownCap(m.lowCap, need)
           low == [x \in Addr |-> IF InLower(m, x) THEN m.low[x] ELSE 0]
           g == GrowLower(m, need)
<1>1. /\ m.lowCap \in Nat /\ m.upEnd \in Nat
      /\ cap \in Nat
      /\ \/ cap <= need \/ cap <= 2 * need \/ cap <= 2 * m.lowCap
         \/ cap <= InitCap
  <2>1. m.lowCap \in Nat /\ m.upEnd \in Nat
    BY DEF Fit, Memory
  <2>2. m.lowCap > 0 \/ m.lowCap = 0
    BY <2>1
  <2> QED
    BY <2>1, <2>2, GrownCapFacts
<1> HIDE DEF cap, low
<1>2. \/ g = m \/ g = Fault(m, "alloc")
      \/ need > m.lowCap /\ g = [m EXCEPT !.lowCap = cap, !.low = low]
  BY <1>1 DEF GrowLower, cap, low
<1> HIDE DEF g
<1>3. CASE g = m \/ g = Fault(m, "alloc")
  BY <1>3 DEF Slim, Fault, Fit, Memory, g
<1>4. CASE need > m.lowCap /\ g = [m EXCEPT !.lowCap = cap, !.low = low]
  <2>1. g.lowCap = cap /\ g.upEnd = m.upEnd
    BY <1>4 DEF Fit, Memory
  <2> QED
    BY <2>1, <1>1, <1>4, ConstantsAssumption DEF Slim, g
<1> QED
  BY <1>2, <1>3, <1>4

LEMMA MergeSlim ==
  ASSUME NEW m, Fit(m), NEW size \in Nat, Slim(m, size)
  PROVE  Slim(Merge(m), size)
<1> DEFINE g == GrowLower(m, m.upEnd)
           low == [x \in Addr |-> IF InUpper(m, x) THEN m.up[x] ELSE g.low[x]]
           k == Merge(m)
<1>1. m.upEnd \in Nat /\ m.upEnd <= size
  BY DEF Fit, Memory, Slim
<1>2. Slim(g, size)
  BY <1>1, GrowLowerSlim
<1>3. \/ k = Fault(m, "merge") \/ k = g
      \/ k = [g EXCEPT !.low = low, !.upBegin = 0, !.upEnd = 0, !.upInc = 0,
                       !.up = Zero]
  BY DEF Merge
<1>4. g \in Memory
  <2> DEFINE cap == GrownCap(m.lowCap, m.upEnd)
             old == [x \in Addr |-> IF InLower(m, x) THEN m.low[x] ELSE 0]
  <2>1. m.lowCap \in Nat /\ cap \in Nat
    BY GrownCapFacts DEF Fit, Memory
  <2>2. old \in [Addr -> Byte]
    BY Constants DEF Fit, Memory
  <2>3. \/ g = m \/ g = Fault(m, "alloc")
        \/ g = [m EXCEPT !.lowCap = cap, !.low = old]
    BY DEF GrowLower
  <2> HIDE DEF g, cap, old
  <2> QED
    BY <2>1, <2>2, <2>3 DEF Fault, Fit, Memory, Faults
<1> HIDE DEF g, low, k
<1>5. k.lowCap \in {g.lowCap, m.lowCap} /\ k.upEnd \in {g.upEnd, m.upEnd, 0}
  BY <1>3, <1>4 DEF Fault, Fit, Memory
<1>6. Slim(k, size)
  BY <1>1, <1>2, <1>5 DEF Slim
<1> QED
  BY <1>6 DEF k

LEMMA GrowUpperSlim ==
  ASSUME NEW m, Fit(m), NEW a \in Nat, NEW n \in Nat, NEW min \in Nat,
         NEW size \in Nat, Slim(m, size)
  PROVE  Slim(GrowUpper(m, a, n, min, size), size)
<1> DEFINE last == Min2(a + n, size)
           inc == IF m.upInc = 0 THEN FirstInc ELSE m.upInc
           end == RoundUp(last, inc)
           newEnd == IF m.upEnd = 0 THEN Min2(end, size)
                     ELSE Max2(Min2(end, size), m.upEnd)
           k == GrowUpper(m, a, n, min, size)
<1>1. /\ m.upEnd \in Nat /\ m.upEnd <= size
      /\ last \in Nat /\ inc \in Nat \ {0}
  BY Constants DEF Fit, Memory, Slim, Min2
<1>2. end \in Nat
  <2> HIDE DEF last, inc
  <2> QED
    BY <1>1, Rounding
<1>3. newEnd <= size
  <2> HIDE DEF end
  <2> QED
    BY <1>1, <1>2 DEF Min2, Max2
<1>4. k.lowCap = m.lowCap /\ k.upEnd \in {m.upEnd, newEnd}
  <2> DEFINE first == Max2(a, min)
             begin == RoundDown(first, inc)
             clipped == begin < min \/ end > size
             newBegin == IF m.upEnd = 0 THEN Max2(begin, min)
                         ELSE Min2(Max2(begin, min), m.upBegin)
             newInc == IF ~clipped /\ inc < MaxInc THEN 2 * inc ELSE inc
             up == [x \in Addr |-> IF InUpper(m, x) THEN m.up[x] ELSE 0]
  <2>1. \/ k = Fault(m, "empty") \/ k = Fault(m, "alloc") \/ k = m
        \/ k = [m EXCEPT !.upBegin = newBegin, !.upEnd = newEnd,
                         !.upInc = newInc, !.up = up]
    BY DEF GrowUpper
  <2> HIDE DEF k, newBegin, newEnd, newInc, up
  <2> QED
    BY <2>1 DEF Fault, Fit, Memory
<1> HIDE DEF k, newEnd
<1>5. Slim(k, size)
  BY <1>1, <1>3, <1>4 DEF Slim
<1> QED
  BY <1>5 DEF k

(* Serving an access inside the memory keeps lower memory below twice the  *)
(* memory and upper memory inside it.                                      *)
LEMMA TranslateSlim ==
  ASSUME NEW m, Fit(m), Alive(m), NEW a \in Nat, NEW n \in Nat,
         NEW size \in Nat, a + n <= size, Slim(m, size)
  PROVE  Slim(Translate(m, a, n, size).mem, size)
<1> DEFINE t == Translate(m, a, n, size)
           b == IF MergeFirst(m, a) THEN Merge(m) ELSE m
<1>1. Fit(b) /\ Slim(b, size)
  <2>1. CASE MergeFirst(m, a)
    BY <2>1, MergeKeeps, MergeSlim DEF MergeFirst, Keeps
  <2>2. CASE ~MergeFirst(m, a)
    BY <2>2
  <2> QED
    BY <2>1, <2>2
<1>2. ASSUME Alive(b)
      PROVE  Slim(ExpandLower(b, a, n).mem, size)
  <2> HIDE DEF b
  <2> DEFINE meets == b.upEnd # 0 /\ (a + n >= b.upBegin
                                         \/ 2 * b.lowCap >= b.upBegin)
             base == IF ~meets THEN b
                     ELSE IF a + n <= b.upEnd THEN Merge(b)
                     ELSE Fault(b, "boundary")
  <2>1. Fit(base) /\ Slim(base, size)
    <3>1. CASE ~meets
      BY <3>1, <1>1
    <3>2. CASE meets /\ a + n <= b.upEnd
      BY <3>2, <1>1, <1>2, MergeKeeps, MergeSlim DEF Keeps
    <3>3. CASE meets /\ ~(a + n <= b.upEnd)
      <4>1. base = Fault(b, "boundary")
        BY <3>3
      <4> HIDE DEF base
      <4>2. Fit(base)
        BY <4>1, <1>1, FaultKeeps DEF Keeps, Faults
      <4>3. base.lowCap = b.lowCap /\ base.upEnd = b.upEnd
        BY <4>1, <1>1 DEF Fault, Fit, Memory
      <4> QED
        BY <4>2, <4>3, <1>1 DEF Slim
    <3> QED
      BY <3>1, <3>2, <3>3
  <2>2. ExpandLower(b, a, n).mem
          = IF Alive(base) THEN GrowLower(base, a + n) ELSE base
    BY DEF ExpandLower, Resolved
  <2> HIDE DEF base
  <2>3. Slim(GrowLower(base, a + n), size)
    BY <2>1, GrowLowerSlim
  <2> QED
    BY <2>1, <2>2, <2>3
<1>3. \/ t.mem = m
      \/ t.mem = b
      \/ Alive(b) /\ t.mem = ExpandLower(b, a, n).mem
      \/ Alive(b) /\ t.mem = GrowUpper(b, a, n, b.lowCap, size)
  BY DEF Translate, Expand, Resolved
<1>4. Slim(GrowUpper(b, a, n, b.lowCap, size), size)
  <2>1. b.lowCap \in Nat
    BY <1>1 DEF Fit, Memory
  <2> HIDE DEF b
  <2> QED
    BY <2>1, <1>1, GrowUpperSlim
<1> QED
  BY <1>1, <1>2, <1>3, <1>4

(* A guest that stays inside its memory, and never gives any of it back.   *)
(* (A memory made smaller does not shrink the host arrays: then there is   *)
(* no such bound.)                                                         *)
Within(r) == r[1] + r[2] <= MemSize

Modest ==
  \/ \E r \in Accesses : Within(r) /\ Load(r[1], r[2])
  \/ \E r \in Accesses : \E c \in [Span(r[1], r[2]) -> Byte] :
       Within(r) /\ Store(r[1], r[2], c)
  \/ \E p \in PageCounts : pages <= pages' /\ ResizeHeap(p)
  \/ \E n \in ArgSizes : \E c \in [Span(ArgsBase, n) -> Byte] :
       SetArguments(n, c)
  \/ ClearException

LEMMA ModestSlim ==
  ASSUME IInv, Slim(mem, MemSize), [Modest]_vars
  PROVE  Slim(mem', MemSize')
<1>0. MemSize \in Nat /\ Fit(mem)
  BY DEF IInv
<1>1. ASSUME NEW r \in Accesses, Within(r), Running
      PROVE  Slim(Translate(mem, r[1], r[2], MemSize).mem, MemSize)
  BY <1>0, <1>1, TranslateSlim, StepTranslate DEF Within, Running
<1>2. ASSUME Running, NEW f, Abort(f)
      PROVE  Slim(mem', MemSize')
  BY <1>0, <1>2 DEF Abort, Fault, Fit, Memory, Slim, MemSize
<1>3. ASSUME NEW r \in Accesses, Within(r), Load(r[1], r[2])
      PROVE  Slim(mem', MemSize')
  BY <1>1, <1>2, <1>3 DEF Load, MemSize
<1>4. ASSUME NEW r \in Accesses, NEW c \in [Span(r[1], r[2]) -> Byte],
             Within(r), Store(r[1], r[2], c)
      PROVE  Slim(mem', MemSize')
  <2> DEFINE t == Translate(mem, r[1], r[2], MemSize)
  <2>1. Running /\ Slim(t.mem, MemSize) /\ Sound(mem, t, r[1], r[2])
    BY <1>1, <1>4, StepTranslate DEF Store
  <2>2. CASE t.seg = "none"
    BY <2>1, <2>2, <1>2, <1>4 DEF Store
  <2>3. CASE t.seg # "none"
    <3>1. mem' = Written(t.mem, t.seg, c) /\ pages' = pages
      BY <2>3, <1>4 DEF Store
    <3> HIDE DEF t
    <3>2. mem'.lowCap = t.mem.lowCap /\ mem'.upEnd = t.mem.upEnd
      BY <3>1, <2>1 DEF Written, Sound, Keeps, Fit, Memory
    <3> QED
      BY <3>1, <3>2, <2>1 DEF Slim, MemSize
  <2> QED
    BY <2>2, <2>3
<1>5. ASSUME NEW p \in PageCounts, pages <= pages', ResizeHeap(p)
      PROVE  Slim(mem', MemSize')
  <2>1. mem' = mem /\ MemSize' \in Nat /\ pages \in Nat /\ pages' \in Nat
    BY <1>5, ResizeHeapStep DEF IInv
  <2>2. MemSize <= MemSize'
    <3>1. ASSUME NEW i \in Nat, NEW j \in Nat, NEW u \in Nat, i <= j
          PROVE  i * u <= j * u
      BY <3>1
    <3> QED
      BY <1>5, <2>1, <3>1, Constants DEF MemSize
  <2>3. mem.lowCap \in Nat /\ mem.upEnd \in Nat
    BY <1>0 DEF Fit, Memory
  <2> QED
    BY <1>0, <2>1, <2>2, <2>3, ConstantsAssumption DEF Slim
<1>6. ASSUME NEW n \in ArgSizes, NEW c \in [Span(ArgsBase, n) -> Byte],
             SetArguments(n, c)
      PROVE  Slim(mem', MemSize')
  <2>1. /\ mem' = Written(GrowArgs(mem, n), "arguments", c)
        /\ pages' = pages
    BY <1>6 DEF SetArguments
  <2>2. mem'.lowCap = mem.lowCap /\ mem'.upEnd = mem.upEnd
    BY <2>1, <1>0 DEF Written, GrowArgs, Fit, Memory
  <2> QED
    BY <2>1, <2>2 DEF Slim, MemSize
<1>7. CASE ClearException
  BY <1>0, <1>7 DEF ClearException, Fit, Memory, Slim, MemSize
<1>8. CASE UNCHANGED vars
  BY <1>8 DEF vars, Slim, MemSize
<1> QED
  BY <1>3, <1>4, <1>5, <1>6, <1>7, <1>8 DEF Modest

(* The first data segment lies inside the memory: parsing checks it.      *)
FirstSegmentInside ==
  \A s \in FirstSegments : s[1] + s[2] <= InitPages * PageSize

LEMMA InitSlim ==
  ASSUME Init, FirstSegmentInside
  PROVE  Slim(mem, MemSize)
<1>1. NoMemory.lowCap = 0 /\ NoMemory.upEnd = 0
  BY DEF NoMemory
<1>2. InitPages * PageSize = MemSize
  BY InitMemory DEF MemSize
<1>3. Slim(NoMemory, MemSize)
  BY <1>1, InitMemory, Constants DEF Slim
<1>4. PICK s \in FirstSegments :
        /\ s[1] \in Nat /\ s[2] \in Nat
        /\ mem = Translate(NoMemory, s[1], s[2], MemSize).mem
  BY InitMemory
<1>5. s[1] + s[2] <= MemSize
  BY <1>2 DEF FirstSegmentInside
<1> QED
  BY <1>3, <1>4, <1>5, InitMemory, NoMemoryFit, TranslateSlim

(* For a program with the layout of emscripten whose first data segment    *)
(* lies inside its memory, and as long as the guest only makes accesses    *)
(* inside its memory and never gives memory back, lower and upper memory   *)
(* together never take more of the host than twice the guest's memory, or  *)
(* the first small array.                                                  *)
THEOREM FootprintStaysBounded ==
  ASSUME FirstSegmentLow, FirstSegmentInside
  PROVE  Init /\ [][Modest]_vars => []FootprintBounded
<1>1. Init => ApartInv /\ Slim(mem, MemSize)
  BY InitApartInv, InitSlim
<1>2. [Modest]_vars => [Next]_vars
  BY DEF Modest, Next
<1>3. ApartInv /\ Slim(mem, MemSize) /\ [Modest]_vars
        => ApartInv' /\ Slim(mem, MemSize)'
  BY <1>2, NextApartInv, ModestSlim DEF ApartInv
<1>4. ApartInv /\ Slim(mem, MemSize) => FootprintBounded
  <2> SUFFICES ASSUME ApartInv, Slim(mem, MemSize) PROVE FootprintBounded
    OBVIOUS
  <2>1. /\ mem.lowCap \in Nat /\ mem.upBegin \in Nat /\ mem.upEnd \in Nat
        /\ mem.upEnd # 0 => mem.lowCap <= mem.upBegin
        /\ MemSize \in Nat /\ InitCap \in Nat
    BY ConstantsAssumption DEF ApartInv, IInv, Fit, Memory, Separated, Apart
  <2> QED
    BY <2>1 DEF Slim, FootprintBounded, Max2
<1> QED
  BY <1>1, <1>3, <1>4, PTL

=============================================================================
