--------------------------- MODULE HashListProofs ---------------------------
(***************************************************************************)
(* Lemmas about HashList: what put and find do to the names a list holds,  *)
(* for every key, every hash and any growth.  The invariant of open        *)
(* addressing is Reached: between where a key belongs and where it is      *)
(* there is no free entry and no other entry with that key.                *)
(***************************************************************************)
EXTENDS HashList, SequenceTheorems, FiniteSetTheorems, Induction

Words == Seq(Nat)
Entry == [key : Words, ptr : Words]
Used(a) == {i \in DOMAIN a : a[i].ptr # Null}
Content(a) == {a[i] : i \in Used(a)}

Reached(a, n, p) ==
  \E i \in 0..n - 1 :
    /\ Position(n, a[p].key, i) = p
    /\ \A j \in 0..i - 1 :
         LET q == Position(n, a[p].key, j)
         IN q \in Used(a) /\ a[q].key # a[p].key

Sound(a, n) ==
  /\ a \in [0..n - 1 -> Entry]
  /\ \A p \in 0..n - 1 : a[p].ptr = Null => a[p] = Free
  /\ \A p \in Used(a) : Len(a[p].key) <= MaxKeySize /\ Reached(a, n, p)

AllLists ==
  UNION {[array : [0..n - 1 -> Entry], capacity : {n}, size : Nat] : n \in Nat}

(* A list as put leaves it. *)
Lists ==
  {l \in AllLists :
     /\ Sound(l.array, l.capacity)
     /\ \E m \in Nat : m > 0 /\ l.capacity = 2 * m
     /\ l.size = Cardinality(Used(l.array))
     /\ 2 * l.size <= l.capacity}

-----------------------------------------------------------------------------
(* Probing *)

LEMMA HashNat ==
  ASSUME NEW key \in Words
  PROVE  Hash(key) \in Nat
<1> DEFINE n == Len(key)
           Turn(i, x) == (key[i] * 7793 + 7727 * x + 6679) % 65536
           Eq(h) == h = [i \in 0..n |-> IF i = 0 THEN 0
                                        ELSE Turn(i, h[i - 1])]
           F == [i \in 1..n |-> [x \in Nat |-> Turn(i, x)]]
           w == CHOOSE h : Eq(h)
<1>0. n \in Nat /\ \A i \in 1..n : key[i] \in Nat
  BY DEF Words
<1>1. \A i \in 1..n, x \in Nat : Turn(i, x) \in Nat
  <2>1. ASSUME NEW i \in 1..n, NEW x \in Nat
        PROVE  Turn(i, x) \in Nat
    <3>1. key[i] * 7793 + 7727 * x + 6679 \in Nat
      BY <1>0
    <3> QED
      BY <3>1
  <2> QED
    BY <2>1
<1>2. Hash(key) = w[n]
  BY DEF Hash
<1> HIDE DEF n, Turn
<1>3. Steps(F, n, Nat)
  BY <1>1 DEF Steps
<1>4. PICK g : Runs(g, 0, F, n, Nat)
  <2> HIDE DEF F
  <2> QED
    BY <1>0, <1>3, Recursion
<1>5. Eq(g)
  <2>1. g \in [0..n -> Nat] /\ g[0] = 0
    BY <1>4 DEF Runs
  <2>2. ASSUME NEW i \in 0..n, i # 0
        PROVE  g[i] = Turn(i, g[i - 1])
    <3>1. i \in 1..n /\ i - 1 \in 0..n
      BY <1>0, <2>2
    <3>2. g[i - 1] \in Nat
      BY <2>1, <3>1
    <3>3. g[i] = F[i][g[i - 1]]
      <4> HIDE DEF F
      <4> QED
        BY <1>4, <3>1 DEF Runs
    <3> QED
      BY <3>1, <3>2, <3>3
  <2> QED
    BY <2>1, <2>2
<1>6. Eq(w)
  BY <1>5
<1> HIDE DEF w
<1>7. w[0] = 0
  BY <1>0, <1>6
<1>8. ASSUME NEW i \in 1..n, w[i - 1] \in Nat
      PROVE  w[i] \in Nat
  <2>1. i \in 0..n /\ i # 0
    BY <1>0
  <2>2. w[i] = Turn(i, w[i - 1])
    BY <1>6, <2>1
  <2> QED
    BY <1>1, <1>8, <2>2
<1>9. \A i \in 0..n : w[i] \in Nat
  <2>1. w[0] \in Nat
    BY <1>7
  <2> QED
    BY <1>0, <1>8, <2>1, LoopKeeps
<1> QED
  BY <1>0, <1>2, <1>9

LEMMA PositionIn ==
  ASSUME NEW n \in Nat, n > 0, NEW key \in Words, NEW i \in Nat
  PROVE  Position(n, key, i) \in 0..n - 1
<1>1. Hash(key) + i \in Int
  BY HashNat
<1>2. \E q, r \in Int : 0 <= r /\ r < n /\ (Hash(key) + i) % n = r
  BY <1>1, Remainder
<1> QED
  BY <1>2 DEF Position

(* Every entry is probed. *)
LEMMA PositionOnto ==
  ASSUME NEW n \in Nat, n > 0, NEW key \in Words, NEW p \in 0..n - 1
  PROVE  \E i \in 0..n - 1 : Position(n, key, i) = p
<1> DEFINE h == Hash(key)
<1>1. h \in Int
  BY HashNat
<1> HIDE DEF h
<1>0. p - h \in Int
  BY <1>1
<1>2. PICK q \in Int, i \in Int : p - h = n * q + i /\ 0 <= i /\ i < n
  BY <1>0, DivInt
<1>3. -q \in Int /\ n * (-q) = -(n * q) /\ n * q \in Int
  OBVIOUS
<1>4. h + i = n * (-q) + p
  BY <1>1, <1>2, <1>3
<1>5. (n * (-q) + p) % n = p
  BY <1>3, DivMod
<1>6. Position(n, key, i) = p
  BY <1>4, <1>5 DEF Position, h
<1> QED
  BY <1>2, <1>6

(* What Probe returns is the first that will do. *)
First(n, key, good, i) ==
  /\ Position(n, key, i) \in good
  /\ \A j \in 0..i - 1 : Position(n, key, j) \notin good

LEMMA ProbeIs ==
  ASSUME NEW n \in Nat, NEW key, NEW good, NEW i \in 0..n - 1,
         First(n, key, good, i)
  PROVE  Probe(n, key, good) = Position(n, key, i)
<1> DEFINE f == CHOOSE k \in 0..n - 1 : First(n, key, good, k)
<1>1. f \in 0..n - 1 /\ First(n, key, good, f)
  OBVIOUS
<1>2. Probe(n, key, good) = Position(n, key, f)
  BY DEF Probe, First
<1> HIDE DEF f
<1>3. ~(f < i) /\ ~(i < f)
  BY <1>1 DEF First
<1>4. f = i
  BY <1>1, <1>3
<1> QED
  BY <1>2, <1>4

LEMMA ProbeFinds ==
  ASSUME NEW n \in Nat, n > 0, NEW key \in Words, NEW good,
         \E p \in 0..n - 1 : p \in good
  PROVE  \E i \in 0..n - 1 : /\ First(n, key, good, i)
                             /\ Probe(n, key, good) = Position(n, key, i)
<1> DEFINE T == {i \in 0..n - 1 : Position(n, key, i) \in good}
<1>0. PICK p \in 0..n - 1 : p \in good
  OBVIOUS
<1>1. T # {} /\ T \in SUBSET Nat
  <2>1. PICK i \in 0..n - 1 : Position(n, key, i) = p
    BY PositionOnto
  <2> QED
    BY <1>0, <2>1
<1>2. PICK i \in T : \A k \in T : i <= k
  BY <1>1, LeastNumber
<1>3. i \in 0..n - 1 /\ First(n, key, good, i)
  BY <1>2 DEF First
<1> QED
  BY <1>3, ProbeIs

-----------------------------------------------------------------------------
(* Entries *)

LEMMA SoundFacts ==
  ASSUME NEW n \in Nat, NEW a, Sound(a, n)
  PROVE  /\ DOMAIN a = 0..n - 1 /\ Used(a) \subseteq 0..n - 1
         /\ \A p \in 0..n - 1 : /\ a[p].key \in Words /\ a[p].ptr \in Words
                                /\ a[p] \in Entry
                                /\ p \in Used(a) <=> p \notin Empty(a)
                                /\ a[p] = [key |-> a[p].key, ptr |-> a[p].ptr]
         /\ Empty(a) \subseteq 0..n - 1
         /\ IsFiniteSet(Used(a)) /\ Cardinality(Used(a)) \in Nat
<1>1. /\ DOMAIN a = 0..n - 1 /\ Used(a) \subseteq 0..n - 1
      /\ Empty(a) \subseteq 0..n - 1
  BY DEF Sound, Used, Empty
<1>2. IsFiniteSet(0..n - 1)
  BY FS_Interval
<1>3. IsFiniteSet(Used(a)) /\ Cardinality(Used(a)) \in Nat
  BY <1>1, <1>2, FS_Subset, FS_CardinalityType
<1>4. \A p \in 0..n - 1 : /\ a[p].key \in Words /\ a[p].ptr \in Words
                          /\ a[p] \in Entry
                          /\ p \in Used(a) <=> p \notin Empty(a)
                          /\ a[p] = [key |-> a[p].key, ptr |-> a[p].ptr]
  BY DEF Sound, Used, Empty, Entry
<1> QED
  BY <1>1, <1>3, <1>4

LEMMA Indices ==
  ASSUME NEW n \in Nat
  PROVE  IsFiniteSet(0..n - 1) /\ Cardinality(0..n - 1) = n
BY FS_Interval

LEMMA HasEmpty ==
  ASSUME NEW n \in Nat, NEW a, Sound(a, n), Cardinality(Used(a)) < n
  PROVE  \E p \in 0..n - 1 : p \in Empty(a)
<1>1. SUFFICES ASSUME \A p \in 0..n - 1 : p \notin Empty(a) PROVE FALSE
  OBVIOUS
<1>2. Used(a) = 0..n - 1
  BY <1>1, SoundFacts
<1>3. Cardinality(0..n - 1) = n
  BY FS_Interval
<1> QED
  BY <1>2, <1>3

(* A name that is in the list is found where it is. *)
LEMMA FindUsed ==
  ASSUME NEW n \in Nat, NEW a, Sound(a, n), NEW p \in Used(a)
  PROVE  FindEntry(a, n, a[p].key) = p
<1> DEFINE key == a[p].key
           good == Empty(a) \cup Matching(a, key)
<1>1. PICK i \in 0..n - 1 :
        /\ Position(n, key, i) = p
        /\ \A j \in 0..i - 1 :
             Position(n, key, j) \in Used(a) /\ a[Position(n, key, j)].key # key
  BY DEF Sound, Reached
<1>2. Stored(key) = key
  BY DEF Sound, Stored
<1>3. p \in good
  BY <1>2, SoundFacts DEF Matching
<1>4. \A q \in Used(a) : a[q].key # key => q \notin good
  BY <1>2, SoundFacts DEF Matching
<1>5. First(n, key, good, i)
  <2> HIDE DEF good, key
  <2> QED
    BY <1>1, <1>3, <1>4 DEF First
<1>6. Probe(n, key, good) = p
  <2> HIDE DEF good, key
  <2> QED
    BY <1>1, <1>5, ProbeIs
<1> QED
  BY <1>6 DEF FindEntry

(* Where a name that is not in the list would be entered. *)
New(a, n, key, p) ==
  \E i \in 0..n - 1 :
    /\ Position(n, key, i) = p /\ p \in Empty(a)
    /\ \A j \in 0..i - 1 : Position(n, key, j) \in Used(a)

Absent(a, key) == \A q \in Used(a) : a[q].key # key

LEMMA FindAbsent ==
  ASSUME NEW n \in Nat, n > 0, NEW a, Sound(a, n),
         NEW key \in Words, Len(key) <= MaxKeySize, Absent(a, key),
         Cardinality(Used(a)) < n
  PROVE  /\ New(a, n, key, FindEntry(a, n, key))
         /\ New(a, n, key, FindEmpty(a, n, key))
<1>1. Stored(key) = key
  BY DEF Stored
<1>2. ASSUME NEW good, Empty(a) \subseteq good,
             \A q \in Used(a) : q \notin good
      PROVE  New(a, n, key, Probe(n, key, good))
  <2>1. PICK p \in 0..n - 1 : p \in good
    BY <1>2, HasEmpty
  <2>2. PICK i \in 0..n - 1 : /\ First(n, key, good, i)
                              /\ Probe(n, key, good) = Position(n, key, i)
    BY <2>1, ProbeFinds
  <2>3. \A j \in 0..i : Position(n, key, j) \in 0..n - 1
    BY PositionIn
  <2>0. \A q \in 0..n - 1 : q \in Used(a) <=> q \notin Empty(a)
    BY SoundFacts
  <2>4. Position(n, key, i) \in Empty(a)
    <3>1. Position(n, key, i) \in good /\ Position(n, key, i) \in 0..n - 1
      BY <2>2, <2>3 DEF First
    <3> QED
      BY <1>2, <2>0, <3>1
  <2>5. ASSUME NEW j \in 0..i - 1
        PROVE  Position(n, key, j) \in Used(a)
    <3>1. Position(n, key, j) \notin good /\ Position(n, key, j) \in 0..n - 1
      BY <2>2, <2>3 DEF First
    <3> QED
      BY <1>2, <2>0, <3>1
  <2> QED
    BY <2>2, <2>4, <2>5 DEF New
<1>3. New(a, n, key, Probe(n, key, Empty(a)))
  BY <1>2, SoundFacts
<1>4. \A q \in Used(a) : q \notin Empty(a) \cup Matching(a, key)
  BY <1>1, SoundFacts DEF Matching, Absent
<1>5. New(a, n, key, Probe(n, key, Empty(a) \cup Matching(a, key)))
  BY <1>2, <1>4
<1> QED
  BY <1>3, <1>5 DEF FindEntry, FindEmpty

(* Entering a new name there keeps the list sound. *)
EnterAt(a, p, key, ptr) == [a EXCEPT ![p] = [key |-> key, ptr |-> ptr]]

LEMMA EnterNew ==
  ASSUME NEW n \in Nat, NEW a, Sound(a, n),
         NEW key \in Words, Len(key) <= MaxKeySize, Absent(a, key),
         NEW ptr \in Words, ptr # Null,
         NEW p, New(a, n, key, p)
  PROVE  /\ Sound(EnterAt(a, p, key, ptr), n)
         /\ Content(EnterAt(a, p, key, ptr))
              = Content(a) \cup {[key |-> key, ptr |-> ptr]}
         /\ Cardinality(Used(EnterAt(a, p, key, ptr)))
              = Cardinality(Used(a)) + 1
<1> DEFINE e == [key |-> key, ptr |-> ptr]
           b == EnterAt(a, p, key, ptr)
<1>1. e \in Entry /\ e.key = key /\ e.ptr = ptr
  BY DEF Entry
<1>2. PICK i \in 0..n - 1 :
        /\ Position(n, key, i) = p /\ p \in Empty(a)
        /\ \A j \in 0..i - 1 : Position(n, key, j) \in Used(a)
  BY DEF New
<1>3. p \in 0..n - 1 /\ p \notin Used(a)
  BY <1>2, SoundFacts
<1>4. b \in [0..n - 1 -> Entry] /\ b[p] = e
      /\ \A q \in 0..n - 1 : q # p => b[q] = a[q]
  BY <1>1, <1>3 DEF Sound, EnterAt
<1> HIDE DEF b, e
<1>5. Used(b) = Used(a) \cup {p}
  <2>1. DOMAIN a = 0..n - 1 /\ DOMAIN b = 0..n - 1
    BY <1>4 DEF Sound
  <2>2. b[p].ptr # Null
    BY <1>1, <1>4
  <2> QED
    BY <1>3, <1>4, <2>1, <2>2 DEF Used
<1>6. \A q \in Used(a) : q # p /\ b[q] = a[q] /\ q \in Used(b)
  BY <1>3, <1>4, <1>5, SoundFacts
<1>7. \A q \in 0..n - 1 : b[q].ptr = Null => b[q] = Free
  BY <1>1, <1>4 DEF Sound
<1>8. ASSUME NEW q \in Used(b)
      PROVE  Len(b[q].key) <= MaxKeySize /\ Reached(b, n, q)
  <2>1. CASE q = p
    <3>1. \A j \in 0..i - 1 : LET k == Position(n, key, j)
                              IN k \in Used(b) /\ b[k].key # key
      BY <1>2, <1>6 DEF Absent
    <3>2. b[q].key = key
      BY <1>1, <1>4, <2>1
    <3> QED
      BY <1>2, <2>1, <3>1, <3>2 DEF Reached
  <2>2. CASE q # p
    <3>1. q \in Used(a) /\ b[q] = a[q]
      BY <1>5, <1>6, <2>2
    <3>2. Len(a[q].key) <= MaxKeySize /\ Reached(a, n, q)
      BY <3>1 DEF Sound
    <3>3. PICK k \in 0..n - 1 :
            /\ Position(n, a[q].key, k) = q
            /\ \A j \in 0..k - 1 :
                 LET r == Position(n, a[q].key, j)
                 IN r \in Used(a) /\ a[r].key # a[q].key
      BY <3>2 DEF Reached
    <3>4. \A j \in 0..k - 1 :
            LET r == Position(n, b[q].key, j)
            IN r \in Used(b) /\ b[r].key # b[q].key
      BY <1>6, <3>1, <3>3
    <3> QED
      BY <3>1, <3>2, <3>3, <3>4 DEF Reached
  <2> QED
    BY <2>1, <2>2
<1>9. Sound(b, n)
  BY <1>4, <1>7, <1>8 DEF Sound
<1>10. Content(b) = Content(a) \cup {e}
  BY <1>4, <1>5, <1>6 DEF Content
<1>11. Cardinality(Used(b)) = Cardinality(Used(a)) + 1
  BY <1>3, <1>5, SoundFacts, FS_AddElement
<1> QED
  BY <1>9, <1>10, <1>11 DEF b, e

-----------------------------------------------------------------------------
(* Lists *)

Same(l) == [array |-> l.array, capacity |-> l.capacity, size |-> l.size]

LEMMA ListFacts ==
  ASSUME NEW l \in Lists
  PROVE  /\ l.capacity \in Nat /\ l.capacity > 1 /\ l.size \in Nat
         /\ Sound(l.array, l.capacity) /\ l = Same(l)
         /\ l.size = Cardinality(Used(l.array)) /\ l.size < l.capacity
         /\ 2 * l.size <= l.capacity
         /\ \E m \in Nat : m > 0 /\ l.capacity = 2 * m
<1>1. PICK n \in Nat : l \in [array : [0..n - 1 -> Entry], capacity : {n},
                              size : Nat]
  BY DEF Lists, AllLists
<1>2. /\ l.capacity \in Nat /\ l.size \in Nat /\ l = Same(l)
  BY <1>1 DEF Same
<1>3. PICK m \in Nat : m > 0 /\ l.capacity = 2 * m
  BY DEF Lists
<1>4. 2 * l.size <= l.capacity
  BY DEF Lists
<1>5. l.capacity > 1 /\ l.size < l.capacity
  BY <1>2, <1>3, <1>4
<1> QED
  BY <1>2, <1>3, <1>4, <1>5 DEF Lists

LEMMA ListIs ==
  ASSUME NEW a, NEW m \in Nat, m > 0, Sound(a, 2 * m), NEW s,
         s = Cardinality(Used(a)), 2 * s <= 2 * m
  PROVE  [array |-> a, capacity |-> 2 * m, size |-> s] \in Lists
<1>1. 2 * m \in Nat /\ s \in Nat
  BY SoundFacts
<1> DEFINE l == [array |-> a, capacity |-> 2 * m, size |-> s]
<1>2. l \in [array : [0..2 * m - 1 -> Entry], capacity : {2 * m}, size : Nat]
  BY <1>1 DEF Sound
<1>3. l \in AllLists
  BY <1>1, <1>2 DEF AllLists
<1> QED
  BY <1>3 DEF Lists

(* What is found of a list is what was put into it. *)
LEMMA FindIs ==
  ASSUME NEW l \in Lists, NEW key \in Words, Len(key) <= MaxKeySize
  PROVE  \/ Absent(l.array, key) /\ Find(l, key) = Null
         \/ \E e \in Content(l.array) : e.key = key /\ Find(l, key) = e.ptr
<1> DEFINE a == l.array
           n == l.capacity
<1>1. n \in Nat /\ n > 0 /\ Sound(a, n) /\ Cardinality(Used(a)) < n
  BY ListFacts
<1>2. Find(l, key) = a[FindEntry(a, n, key)].ptr
  BY DEF Find
<1> HIDE DEF a, n
<1>3. CASE Absent(a, key)
  <2>1. New(a, n, key, FindEntry(a, n, key))
    BY <1>1, <1>3, FindAbsent
  <2>2. FindEntry(a, n, key) \in Empty(a)
    BY <2>1 DEF New
  <2> QED
    BY <1>2, <1>3, <2>2 DEF Empty, a
<1>4. CASE ~Absent(a, key)
  <2>1. PICK p \in Used(a) : a[p].key = key
    BY <1>4 DEF Absent
  <2>2. FindEntry(a, n, key) = p
    BY <1>1, <2>1, FindUsed
  <2>3. a[p] \in Content(a)
    BY DEF Content
  <2> QED
    BY <1>2, <2>1, <2>2, <2>3 DEF a
<1> QED
  BY <1>3, <1>4

(* No name is there twice. *)
LEMMA OneOfAName ==
  ASSUME NEW n \in Nat, NEW a, Sound(a, n),
         NEW e \in Content(a), NEW f \in Content(a), e.key = f.key
  PROVE  e = f
<1>1. PICK p \in Used(a) : e = a[p]
  BY DEF Content
<1>2. PICK q \in Used(a) : f = a[q]
  BY DEF Content
<1>3. FindEntry(a, n, e.key) = p /\ FindEntry(a, n, e.key) = q
  BY <1>1, <1>2, FindUsed
<1> QED
  BY <1>1, <1>2, <1>3

(* A list that has all the entries of another finds what that one finds.   *)
LEMMA MoreKeeps ==
  ASSUME NEW l \in Lists, NEW m \in Lists,
         Content(l.array) \subseteq Content(m.array),
         NEW key \in Words, Len(key) <= MaxKeySize, Find(l, key) # Null
  PROVE  Find(m, key) = Find(l, key)
<1>1. PICK e \in Content(l.array) : e.key = key /\ Find(l, key) = e.ptr
  BY FindIs
<1>2. e \in Content(m.array)
  BY <1>1
<1>3. ~Absent(m.array, key)
  BY <1>1, <1>2 DEF Content, Absent
<1>4. PICK f \in Content(m.array) : f.key = key /\ Find(m, key) = f.ptr
  BY <1>3, FindIs
<1>5. e = f
  BY <1>1, <1>2, <1>4, ListFacts, OneOfAName
<1> QED
  BY <1>1, <1>4, <1>5

-----------------------------------------------------------------------------
(* Growth *)

LEMMA FreeSound ==
  ASSUME NEW n \in Nat
  PROVE  /\ Sound(FreeArray(n), n) /\ FreeArray(n) \in [0..n - 1 -> Entry]
         /\ Used(FreeArray(n)) = {} /\ Content(FreeArray(n)) = {}
         /\ Cardinality(Used(FreeArray(n))) = 0
<1>1. Free \in Entry /\ Free.ptr = Null
  BY DEF Free, Null, Entry, Words
<1>2. \A p \in 0..n - 1 : FreeArray(n)[p] = Free
  BY DEF FreeArray
<1>3. DOMAIN FreeArray(n) = 0..n - 1 /\ FreeArray(n) \in [0..n - 1 -> Entry]
  BY <1>1 DEF FreeArray
<1>4. Used(FreeArray(n)) = {}
  BY <1>1, <1>2, <1>3 DEF Used
<1>5. Content(FreeArray(n)) = {}
  BY <1>4 DEF Content
<1> QED
  BY <1>2, <1>3, <1>4, <1>5, FS_EmptySet DEF Sound

LEMMA EnterType ==
  ASSUME NEW n \in Nat, NEW a \in [0..n - 1 -> Entry], NEW e \in Entry
  PROVE  Enter(a, n, e) \in [0..n - 1 -> Entry]
<1>1. Stored(e.key) \in Words
  <2>1. e.key \in Seq(Nat)
    BY DEF Entry, Words
  <2>2. ASSUME Len(e.key) > MaxKeySize
        PROVE  SubSeq(e.key, 1, MaxKeySize) \in Seq(Nat)
    BY <2>1, <2>2, HashListAssumption, SubSeqProperties
  <2> QED
    BY <2>1, <2>2, HashListAssumption DEF Stored, Words
<1>2. [key |-> Stored(e.key), ptr |-> e.ptr] \in Entry
  BY <1>1 DEF Entry
<1> DEFINE p == FindEmpty(a, n, e.key)
           f == [key |-> Stored(e.key), ptr |-> e.ptr]
<1>3. [a EXCEPT ![p] = f] \in [0..n - 1 -> Entry]
  <2> HIDE DEF p, f
  <2> QED
    BY <1>2 DEF f
<1> QED
  BY <1>3 DEF Enter

(* The entries of the first k places of a *)
Before(a, k) == {p \in Used(a) : p < k}

(* b, an array of n, has entered what stands in a before k. *)
Entered(b, n, a, k) ==
  /\ Sound(b, n)
  /\ Content(b) = {a[p] : p \in Before(a, k)}
  /\ Cardinality(Used(b)) = Cardinality(Before(a, k))

LEMMA EnterNext ==
  ASSUME NEW c \in Nat, NEW a, Sound(a, c), NEW n \in Nat, c < n,
         NEW k \in 0..c - 1, NEW b, Entered(b, n, a, k)
  PROVE  Entered(Enter(b, n, a[k]), n, a, k + 1)
<1>0. /\ DOMAIN a = 0..c - 1 /\ Used(a) \subseteq 0..c - 1 /\ k \in 0..c - 1
      /\ a[k].key \in Words /\ a[k].ptr \in Words
      /\ a[k] = [key |-> a[k].key, ptr |-> a[k].ptr]
      /\ IsFiniteSet(Used(a)) /\ Cardinality(Used(a)) \in Nat
  BY SoundFacts
<1>1. CASE a[k].ptr = Null
  <2>1. k \notin Used(a)
    BY <1>1 DEF Used
  <2>2. Before(a, k + 1) = Before(a, k)
    BY <1>0, <2>1 DEF Before
  <2>3. Enter(b, n, a[k]) = b
    BY <1>1 DEF Enter
  <2> QED
    BY <2>2, <2>3 DEF Entered
<1>2. CASE a[k].ptr # Null
  <2> DEFINE key == a[k].key
             ptr == a[k].ptr
             p == FindEmpty(b, n, key)
             e == [key |-> key, ptr |-> ptr]
             d == EnterAt(b, p, key, ptr)
  <2>1. k \in Used(a)
    BY <1>0, <1>2 DEF Used
  <2>2. Before(a, k + 1) = Before(a, k) \cup {k} /\ k \notin Before(a, k)
    BY <1>0, <2>1 DEF Before
  <2>3. Len(key) <= MaxKeySize /\ Stored(key) = key
    BY <2>1 DEF Sound, Stored
  <2>4. Enter(b, n, a[k]) = d
    BY <1>2, <2>3 DEF Enter, EnterAt
  <2>5. ASSUME NEW q \in Used(b), b[q].key = key
        PROVE  FALSE
    <3>1. b[q] \in Content(b)
      BY DEF Content
    <3>2. PICK r \in Before(a, k) : b[q] = a[r]
      BY <3>1 DEF Entered
    <3>3. r \in Used(a) /\ a[r].key = a[k].key /\ r # k
      BY <1>0, <2>2, <2>5, <3>2 DEF Before
    <3>4. FindEntry(a, c, a[k].key) = r /\ FindEntry(a, c, a[k].key) = k
      BY <2>1, <3>3, FindUsed
    <3> QED
      BY <3>3, <3>4
  <2>6. Absent(b, key)
    BY <2>5 DEF Absent
  <2>7. /\ IsFiniteSet(Before(a, k)) /\ Cardinality(Before(a, k)) \in Nat
        /\ Cardinality(Before(a, k)) <= Cardinality(Used(a))
    <3>1. Before(a, k) \subseteq Used(a)
      BY DEF Before
    <3> QED
      BY <1>0, <3>1, FS_Subset, FS_CardinalityType
  <2>8. Cardinality(Used(a)) <= c
    <3>1. IsFiniteSet(0..c - 1) /\ Cardinality(0..c - 1) = c
      BY Indices
    <3> QED
      BY <1>0, <3>1, FS_Subset
  <2>9. Sound(b, n) /\ Cardinality(Used(b)) < n
    BY <1>0, <2>7, <2>8 DEF Entered
  <2>10. New(b, n, key, p)
    <3> HIDE DEF key
    <3>1. n > 0 /\ key \in Words
      BY <1>0 DEF key
    <3> QED
      BY <2>3, <2>6, <2>9, <3>1, FindAbsent
  <2>11. /\ Sound(d, n) /\ Content(d) = Content(b) \cup {e}
         /\ Cardinality(Used(d)) = Cardinality(Used(b)) + 1
    <3>1. key \in Words /\ ptr \in Words /\ ptr # Null
      BY <1>0, <1>2
    <3>2. Len(key) <= MaxKeySize
      BY <2>3
    <3> HIDE DEF key, ptr, p
    <3> QED
      BY <2>6, <2>9, <2>10, <3>1, <3>2, EnterNew
  <2>12. Content(d) = {a[q] : q \in Before(a, k + 1)}
    <3>1. e = a[k]
      BY <1>0
    <3> HIDE DEF e, d
    <3> QED
      BY <2>2, <2>11, <3>1 DEF Entered
  <2>13. Cardinality(Before(a, k + 1)) = Cardinality(Before(a, k)) + 1
    BY <2>2, <2>7, FS_AddElement
  <2> HIDE DEF d
  <2> QED
    BY <2>4, <2>11, <2>12, <2>13 DEF Entered
<1> QED
  BY <1>1, <1>2

(* Growing loses no entry and leaves half of the array free. *)
LEMMA ExpandedDoes ==
  ASSUME NEW l \in Lists
  PROVE  /\ Expanded(l) \in Lists
         /\ Content(Expanded(l).array) = Content(l.array)
         /\ 2 * (Expanded(l).size + 1) <= Expanded(l).capacity
<1>0. /\ l.capacity \in Nat /\ l.capacity > 1 /\ l.size \in Nat
      /\ Sound(l.array, l.capacity)
      /\ l.size = Cardinality(Used(l.array)) /\ 2 * l.size <= l.capacity
      /\ \E m \in Nat : m > 0 /\ l.capacity = 2 * m
  BY ListFacts
<1>1. CASE l.size * 2 < l.capacity
  <2>1. Expanded(l) = l
    BY <1>1 DEF Expanded
  <2>2. PICK m \in Nat : l.capacity = 2 * m
    BY <1>0
  <2>3. 2 * (l.size + 1) <= l.capacity
    BY <1>0, <1>1, <2>2
  <2> QED
    BY <2>1, <2>3
<1>2. CASE ~(l.size * 2 < l.capacity)
  <2> DEFINE c == l.capacity
             n == 2 * c
             V == [0..n - 1 -> Entry]
             Eq(h) == h = [i \in 0..c |->
                        IF i = 0 THEN FreeArray(n)
                        ELSE Enter(h[i - 1], n, l.array[i - 1])]
             F == [i \in 1..c |->
                     [x \in V |-> Enter(x, n, l.array[i - 1])]]
             w == CHOOSE h : Eq(h)
  <2>0. Expanded(l) = [array |-> w[c], capacity |-> n, size |-> l.size]
    BY <1>2 DEF Expanded
  <2>1. c \in Nat /\ n \in Nat /\ c < n /\ Sound(l.array, c)
    BY <1>0
  <2> HIDE DEF c, n
  <2>2. ASSUME NEW i \in 1..c
        PROVE  l.array[i - 1] \in Entry /\ i - 1 \in 0..c - 1
    <3>1. i - 1 \in 0..c - 1
      BY <2>1
    <3> QED
      BY <2>1, <3>1, SoundFacts
  <2>3. Steps(F, c, V)
    BY <2>1, <2>2, EnterType DEF Steps
  <2>4. FreeArray(n) \in V
    BY <2>1, FreeSound
  <2>5. PICK g : Runs(g, FreeArray(n), F, c, V)
    <3> HIDE DEF F, V
    <3> QED
      BY <2>1, <2>3, <2>4, Recursion
  <2>6. Eq(g)
    <3>1. g \in [0..c -> V] /\ g[0] = FreeArray(n)
      BY <2>5 DEF Runs
    <3>2. ASSUME NEW i \in 0..c, i # 0
          PROVE  g[i] = Enter(g[i - 1], n, l.array[i - 1])
      <4>1. i \in 1..c /\ i - 1 \in 0..c
        BY <2>1, <3>2
      <4>2. g[i - 1] \in V
        BY <3>1, <4>1
      <4>3. g[i] = F[i][g[i - 1]]
        <5> HIDE DEF F, V
        <5> QED
          BY <2>5, <4>1 DEF Runs
      <4> HIDE DEF V
      <4> QED
        BY <4>1, <4>2, <4>3
    <3> HIDE DEF V
    <3> QED
      BY <3>1, <3>2
  <2>7. Eq(w)
    BY <2>6
  <2> HIDE DEF w
  <2>8. w[0] = FreeArray(n)
    BY <2>1, <2>7
  <2>9. ASSUME NEW i \in 0..c - 1
        PROVE  w[i + 1] = Enter(w[i], n, l.array[i])
    <3>1. i + 1 \in 0..c /\ i + 1 # 0 /\ (i + 1) - 1 = i
      BY <2>1
    <3> QED
      BY <2>7, <3>1
  <2> DEFINE S == {i \in 0..c : Entered(w[i], n, l.array, i)}
  <2>10. 0 \in S
    <3>1. Before(l.array, 0) = {}
      BY <2>1, SoundFacts DEF Before
    <3>2. {l.array[p] : p \in Before(l.array, 0)} = {}
      BY <3>1
    <3>3. Entered(FreeArray(n), n, l.array, 0)
      BY <2>1, <3>1, <3>2, FreeSound, FS_EmptySet DEF Entered
    <3> QED
      BY <2>1, <2>8, <3>3
  <2>11. ASSUME NEW i \in 0..c - 1, i \in S
         PROVE  i + 1 \in S
    <3>1. Entered(w[i + 1], n, l.array, i + 1)
      BY <2>1, <2>9, <2>11, EnterNext
    <3> QED
      BY <2>1, <3>1
  <2>12. c \in S
    <3> HIDE DEF S
    <3> QED
      BY <2>1, <2>10, <2>11, UpTo
  <2>13. Before(l.array, c) = Used(l.array)
    BY <2>1, SoundFacts DEF Before
  <2>14. /\ Sound(w[c], n) /\ Content(w[c]) = Content(l.array)
         /\ Cardinality(Used(w[c])) = l.size
    BY <1>0, <2>12, <2>13 DEF Entered, Content
  <2>15. 2 * (l.size + 1) <= n /\ 2 * l.size <= n
    BY <1>0, <1>2 DEF c, n
  <2>16. [array |-> w[c], capacity |-> n, size |-> l.size] \in Lists
    BY <1>0, <2>1, <2>14, <2>15, ListIs DEF c, n
  <2> QED
    BY <2>0, <2>14, <2>15, <2>16
<1> QED
  BY <1>1, <1>2

-----------------------------------------------------------------------------
(* put *)

LEMMA EmptyListIs ==
  EmptyList \in Lists /\ Content(EmptyList.array) = {}
<1>1. PICK m \in 1..InitSize : InitSize = 2 * m
  BY HashListAssumption
<1>2. m \in Nat /\ m > 0 /\ 2 * m \in Nat
  <2>1. m \in Int /\ 1 <= m
    BY <1>1
  <2> QED
    BY <2>1
<1>3. [array |-> FreeArray(2 * m), capacity |-> 2 * m, size |-> 0] \in Lists
  BY <1>2, FreeSound, ListIs
<1>4. Content(FreeArray(InitSize)) = {}
  BY <1>1, <1>2, FreeSound
<1> QED
  BY <1>1, <1>3, <1>4 DEF EmptyList

(* A name is entered when it is new; nothing else changes. *)
LEMMA PutDoes ==
  ASSUME NEW l \in Lists, NEW key \in Words, Len(key) <= MaxKeySize,
         NEW ptr \in Words, ptr # Null
  PROVE  LET after == Put(l, key, ptr)
         IN /\ after \in Lists
            /\ IF Find(l, key) # Null
               THEN Content(after.array) = Content(l.array)
               ELSE Content(after.array) = Content(l.array)
                                    \cup {[key |-> key, ptr |-> ptr]}
<1> DEFINE x == Expanded(l)
           a == x.array
           n == x.capacity
           i == FindEntry(a, n, key)
           e == [key |-> key, ptr |-> ptr]
<1>0. x \in Lists /\ Content(a) = Content(l.array) /\ 2 * (x.size + 1) <= n
  BY ExpandedDoes
<1>1. /\ n \in Nat /\ n > 1 /\ Sound(a, n) /\ x = Same(x)
      /\ x.size \in Nat /\ x.size = Cardinality(Used(a)) /\ x.size < n
      /\ \E m \in Nat : m > 0 /\ n = 2 * m
  <2> HIDE DEF x
  <2> QED
    BY <1>0, ListFacts
<1>2. Stored(key) = key
  BY DEF Stored
<1>3. Put(l, key, ptr) =
        IF a[i].ptr # Null THEN x
        ELSE [x EXCEPT !.array[i] = e, !.size = @ + 1]
  BY <1>2 DEF Put
<1>4. Find(l, key) = Find(x, key)
  <2>1. CASE Absent(l.array, key)
    <3>1. Absent(a, key)
      <4>1. \A f \in Content(l.array) : f.key # key
        BY <2>1 DEF Absent, Content
      <4>2. \A f \in Content(a) : f.key # key
        <5> HIDE DEF a
        <5> QED
          BY <1>0, <4>1
      <4> HIDE DEF a
      <4> QED
        BY <4>2 DEF Absent, Content
    <3>2. Find(l, key) = Null
      BY <2>1, FindIs DEF Absent, Content
    <3>3. Find(x, key) = Null
      <4> HIDE DEF x
      <4> QED
        BY <1>0, <3>1, FindIs DEF Absent, Content
    <3> QED
      BY <3>2, <3>3
  <2>2. CASE ~Absent(l.array, key)
    <3>1. PICK f \in Content(l.array) : f.key = key /\ Find(l, key) = f.ptr
      BY <2>2, FindIs
    <3>2. Find(l, key) # Null
      BY <3>1 DEF Content, Used
    <3> HIDE DEF x
    <3> QED
      BY <1>0, <3>2, MoreKeeps
  <2> QED
    BY <2>1, <2>2
<1>5. Find(x, key) = a[i].ptr
  BY DEF Find
<1> HIDE DEF x
<1>6. CASE a[i].ptr # Null
  BY <1>0, <1>3, <1>4, <1>5, <1>6
<1>7. CASE a[i].ptr = Null
  <2>1. Absent(a, key)
    <3>1. ASSUME NEW q \in Used(a), a[q].key = key
          PROVE  FALSE
      <4>1. i = q
        BY <1>1, <3>1, FindUsed
      <4> QED
        BY <1>7, <4>1 DEF Used
    <3> QED
      BY <3>1 DEF Absent
  <2>2. New(a, n, key, i)
    <3>1. n \in Nat /\ n > 0 /\ Cardinality(Used(a)) < n
      BY <1>1
    <3> HIDE DEF a, n
    <3> QED
      BY <1>1, <2>1, <3>1, FindAbsent
  <2> DEFINE b == EnterAt(a, i, key, ptr)
  <2>3. /\ Sound(b, n) /\ Content(b) = Content(a) \cup {e}
        /\ Cardinality(Used(b)) = x.size + 1
    <3> HIDE DEF a, n, i
    <3> QED
      BY <1>1, <2>1, <2>2, EnterNew
  <2>4. [x EXCEPT !.array[i] = e, !.size = @ + 1]
          = [array |-> b, capacity |-> n, size |-> x.size + 1]
    <3> DEFINE s == x.size
    <3>1. x = [array |-> a, capacity |-> n, size |-> s]
      BY <1>1 DEF Same
    <3>2. a \in [0..n - 1 -> Entry]
      BY <1>1 DEF Sound
    <3> HIDE DEF i, e, a, n, s
    <3> DEFINE y == [array |-> [a EXCEPT ![i] = e], capacity |-> n, size |-> s]
    <3>3. [x EXCEPT !.array[i] = e] = y
      BY <3>1
    <3>4. [x EXCEPT !.array[i] = e, !.size = @ + 1]
            = [[x EXCEPT !.array[i] = e] EXCEPT !.size = @ + 1]
      OBVIOUS
    <3>5. [y EXCEPT !.size = @ + 1]
            = [array |-> [a EXCEPT ![i] = e], capacity |-> n, size |-> s + 1]
      OBVIOUS
    <3> QED
      BY <3>3, <3>4, <3>5 DEF EnterAt, e, s
  <2>5. [array |-> b, capacity |-> n, size |-> x.size + 1] \in Lists
    <3> HIDE DEF b, a, n
    <3>1. PICK m \in Nat : m > 0 /\ n = 2 * m
      BY <1>1
    <3>2. Sound(b, 2 * m) /\ 2 * (x.size + 1) <= 2 * m
      BY <1>0, <2>3, <3>1
    <3>3. [array |-> b, capacity |-> 2 * m, size |-> x.size + 1] \in Lists
      BY <2>3, <3>1, <3>2, ListIs
    <3> QED
      BY <3>1, <3>3
  <2>6. Put(l, key, ptr) = [array |-> b, capacity |-> n, size |-> x.size + 1]
    BY <1>3, <1>7, <2>4
  <2>7. Find(l, key) = Null
    BY <1>4, <1>5, <1>7
  <2> HIDE DEF b, n, e
  <2> QED
    BY <1>0, <2>3, <2>5, <2>6, <2>7 DEF e
<1> QED
  BY <1>6, <1>7

(* A list is a map: after put the name is found, with the pointer it had   *)
(* or else with the new one, and every other name is found as before.      *)
LEMMA PutFinds ==
  ASSUME NEW l \in Lists, NEW key \in Words, Len(key) <= MaxKeySize,
         NEW ptr \in Words, ptr # Null
  PROVE  /\ Find(Put(l, key, ptr), key)
              = (IF Find(l, key) # Null THEN Find(l, key) ELSE ptr)
         /\ \A k \in Words : Len(k) <= MaxKeySize /\ k # key =>
              Find(Put(l, key, ptr), k) = Find(l, k)
<1> DEFINE m == Put(l, key, ptr)
           e == [key |-> key, ptr |-> ptr]
<1>1. /\ m \in Lists
      /\ IF Find(l, key) # Null THEN Content(m.array) = Content(l.array)
         ELSE Content(m.array) = Content(l.array) \cup {e}
  BY PutDoes
<1> HIDE DEF m
<1>2. Content(l.array) \subseteq Content(m.array)
  BY <1>1
<1>3. ASSUME NEW k \in Words, Len(k) <= MaxKeySize, Find(l, k) # Null
      PROVE  Find(m, k) = Find(l, k)
  BY <1>1, <1>2, <1>3, MoreKeeps
<1>4. ASSUME NEW k \in Words, Len(k) <= MaxKeySize, Find(l, k) = Null
      PROVE  Find(m, k) = (IF k = key THEN ptr ELSE Null)
  <2>1. Absent(l.array, k)
    <3>1. \A f \in Content(l.array) : f.ptr # Null
      BY DEF Content, Used
    <3> QED
      BY <1>4, <3>1, FindIs
  <2>2. \A f \in Content(l.array) : f.key # k
    BY <2>1 DEF Absent, Content
  <2>3. Absent(m.array, k) <=> \A f \in Content(m.array) : f.key # k
    BY DEF Absent, Content
  <2>4. CASE k = key
    <3>1. Content(m.array) = Content(l.array) \cup {e} /\ e.key = key
      BY <1>1, <1>4, <2>4
    <3>2. ~Absent(m.array, k)
      BY <2>3, <2>4, <3>1
    <3>3. PICK f \in Content(m.array) : f.key = k /\ Find(m, k) = f.ptr
      BY <1>1, <1>4, <3>2, FindIs
    <3>4. f = e
      BY <2>2, <3>1, <3>3
    <3> QED
      BY <2>4, <3>3, <3>4
  <2>5. CASE k # key
    <3>1. \A f \in Content(m.array) : f.key # k
      BY <1>1, <2>2, <2>5
    <3>2. ~ \E f \in Content(m.array) : f.key = k /\ Find(m, k) = f.ptr
      BY <3>1
    <3> QED
      BY <1>1, <1>4, <2>5, <3>2, FindIs
  <2> QED
    BY <2>4, <2>5
<1> QED
  BY <1>3, <1>4 DEF m

=============================================================================
