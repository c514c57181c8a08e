---------------------------- MODULE LoaderProofs ----------------------------
(***************************************************************************)
(* Theorems about Loader, for every set of files, whatever they contain,   *)
(* every list of host functions whose names fit, and every size of the     *)
(* hash lists at the start.                                                *)
(***************************************************************************)
EXTENDS Loader, HashListProofs

Signatures == [params : Nat, results : Nat]
Functions ==
  [kind : {"imported", "internal"}, type : Nat, func_idx : Nat,
   func_ptr : Words, nof_local : Nat, body : Words]

(* What the parsers may return; "abort" stands for a failed assertion. *)
Results ==
  {"OK", "abort", "TO_MANY_PARAMETERS", "TO_MANY_RESULT_VALUES",
   "UNKNOWN_TYPE_OF_IMPORT", "EXPORT_NAME_TO_LONG",
   "IMPORT_FIELD_NOT_FOUND", "EXPORT_TYPE_NOT_IMPL_YET",
   "ONLY_ONE_TABLE_IS_SUPPORTED", "TO_MANY_ENTRIES",
   "TOO_MANY_LOCAL_VARIABLES", "VECTORS_NOT_SUPPORTED",
   "MISSING_OPCODE_END", "GLOBAL_IDX_OUT_OF_RANGE",
   "MISSING_RETURN_VALUES", "ONLY_ONE_MEMORY_IS_SUPPORTED",
   "MEMORY_OUT_OF_RANGE", "ONLY_ONE_SECTION_ALLOWED",
   "TO_MANY_FUNCTION_TYPES", "TO_MANY_IMPORTS", "TO_MANY_FUNCTIONS",
   "NOT_SUPPORTED_TABLE_TYPE", "TO_MANY_TABLE_ELEMENTS",
   "TO_MANY_EXPORTS", "TO_MANY_ELEMENTS", "OUT_OF_RANGE_IN_CODE_SECTION",
   "UNKNOWN_SECTION", "MISALLIGNED_SECTION", "TO_MUCH_MEMORY_REQUESTED",
   "TO_MANY_GLOBALS", "TO_MANY_DATA_SEGMENTS", "IMPORTED_FUNC_AS_START",
   "NOT_WEBASM_OR_SUPPORTED_VERSION"}

Programs ==
  [types : Seq(Signatures), functions : Seq(Functions), array : Nat,
   imported : Nat, total : Nat, table : Seq(Nat), start : Int,
   result : Results, exported : Lists, available : Lists]

(* Imports come first; there is no function before the array. *)
Ordered(c) ==
  /\ c.imported <= Len(c.functions)
  /\ \A i \in 1..Len(c.functions) :
       c.functions[i].kind = (IF i <= c.imported THEN "imported" ELSE "internal")
  /\ c.array = 0 => c.functions = <<>>

Images == UNION {[S -> Nat] : S \in SUBSET Nat}
Datas ==
  [pages : Nat, maximum : Int, globals : Seq(Nat), memory : Images,
   lower : BOOLEAN, call : Int, result : Results]

Stages == {"register", "program", "data", "loaded", "abort"}
ResultsFit ==
  /\ result \in Seq(Results)
  /\ stage \in {"register", "program"} => Len(result) = 0
  /\ stage \in {"data", "abort"} => Len(result) <= 1
  /\ stage = "loaded" => Len(result) <= 2

IInv ==
  /\ stage \in Stages /\ next \in Nat /\ next > 0 /\ Decoded(file)
  /\ prog \in Programs /\ Ordered(prog) /\ data \in Datas
  /\ ResultsFit

-----------------------------------------------------------------------------
(* The loop over the elements of a section *)

Loop(g, V, c, s) ==
  /\ g \in [0..Len(s.vec) -> V]
  /\ g[0] = c
  /\ \A i \in 1..Len(s.vec) :
       g[i] = IF g[i - 1].result = "OK" THEN Item(s, g[i - 1], i) ELSE g[i - 1]
  /\ Items(c, s) = g[Len(s.vec)]

LEMMA ItemsLoop ==
  ASSUME NEW V, NEW s, Len(s.vec) \in Nat, NEW c \in V,
         \A i \in 1..Len(s.vec) : \A x \in V :
           x.result = "OK" => Item(s, x, i) \in V
  PROVE  \E g : Loop(g, V, c, s)
<1> DEFINE n == Len(s.vec)
           Turn(x, i) == IF x.result = "OK" THEN Item(s, x, i) ELSE x
           Eq(h) == h = [i \in 0..n |-> IF i = 0 THEN c
                           ELSE IF h[i - 1].result = "OK"
                             THEN Item(s, h[i - 1], i) ELSE h[i - 1]]
           F == [i \in 1..n |-> [x \in V |-> Turn(x, i)]]
           w == CHOOSE h : Eq(h)
<1>1. Items(c, s) = w[n]
  BY DEF Items
<1>2. n \in Nat /\ \A i \in 1..n : \A x \in V : Turn(x, i) \in V
  OBVIOUS
<1>3. \A h : Eq(h) <=> h = [i \in 0..n |-> IF i = 0 THEN c
                                          ELSE Turn(h[i - 1], i)]
  OBVIOUS
<1> HIDE DEF n, Turn, Eq
<1>4. Steps(F, n, V)
  BY <1>2 DEF Steps
<1>5. PICK g : Runs(g, c, F, n, V)
  <2> HIDE DEF F
  <2> QED
    BY <1>2, <1>4, Recursion
<1>6. Eq(g)
  <2>1. g \in [0..n -> V] /\ g[0] = c
    BY <1>5 DEF Runs
  <2>2. ASSUME NEW i \in 0..n, i # 0
        PROVE  g[i] = Turn(g[i - 1], i)
    <3>1. i \in 1..n /\ i - 1 \in 0..n
      BY <1>2, <2>2
    <3>2. g[i - 1] \in V
      BY <2>1, <3>1
    <3>3. g[i] = F[i][g[i - 1]]
      <4> HIDE DEF F
      <4> QED
        BY <1>5, <3>1 DEF Runs
    <3> QED
      BY <3>1, <3>2, <3>3
  <2>3. g = [i \in 0..n |-> IF i = 0 THEN c ELSE Turn(g[i - 1], i)]
    BY <2>1, <2>2
  <2> QED
    BY <1>3, <2>3
<1>7. Eq(w)
  BY <1>6
<1> HIDE DEF w
<1>8. w = [i \in 0..n |-> IF i = 0 THEN c ELSE Turn(w[i - 1], i)]
  BY <1>3, <1>7
<1>9. w[0] = c
  BY <1>2, <1>8
<1>10. ASSUME NEW i \in 1..n
       PROVE  w[i] = Turn(w[i - 1], i)
  <2>1. i \in 0..n /\ i # 0
    BY <1>2
  <2> QED
    BY <1>8, <2>1
<1>11. \A i \in 1..n : w[i - 1] \in V => w[i] \in V
  BY <1>2, <1>10
<1>12. \A i \in 0..n : w[i] \in V
  <2>1. w[0] \in V
    BY <1>9
  <2> QED
    BY <1>2, <1>11, <2>1, LoopKeeps
<1>13. w \in [0..n -> V]
  <2>1. DOMAIN w = 0..n /\ w = [i \in DOMAIN w |-> w[i]]
    BY <1>8
  <2> QED
    BY <1>12, <2>1
<1> QED
  BY <1>1, <1>9, <1>10, <1>13 DEF Loop, n, Turn

LEMMA ItemsIn ==
  ASSUME NEW V, NEW s, Len(s.vec) \in Nat, NEW c \in V,
         \A i \in 1..Len(s.vec) : \A x \in V :
           x.result = "OK" => Item(s, x, i) \in V
  PROVE  Items(c, s) \in V
<1>1. PICK g : Loop(g, V, c, s)
  BY ItemsLoop
<1>2. Len(s.vec) \in 0..Len(s.vec)
  OBVIOUS
<1> QED
  BY <1>1, <1>2 DEF Loop

(* What is true after i elements, for every i: W[i] are the records for    *)
(* which it is, none of them refused.                                      *)
LEMMA ItemsReach ==
  ASSUME NEW V, NEW s, Len(s.vec) \in Nat, NEW c \in V,
         \A i \in 1..Len(s.vec) : \A x \in V :
           x.result = "OK" => Item(s, x, i) \in V,
         NEW W, c \in W[0],
         \A i \in 1..Len(s.vec) : \A x \in W[i - 1] :
           x.result = "OK" /\ Item(s, x, i) \in W[i]
  PROVE  Items(c, s) \in W[Len(s.vec)]
<1> DEFINE n == Len(s.vec)
<1>1. PICK g : Loop(g, V, c, s)
  BY ItemsLoop
<1> DEFINE S == {i \in 0..n : g[i] \in W[i]}
<1>2. 0 \in S
  BY <1>1 DEF Loop
<1>3. ASSUME NEW i \in 0..(n - 1), i \in S
      PROVE  i + 1 \in S
  <2>1. i + 1 \in 1..n /\ (i + 1) - 1 = i /\ i + 1 \in 0..n
    OBVIOUS
  <2>2. g[i] \in W[i]
    BY <1>3
  <2>3. g[i].result = "OK" /\ Item(s, g[i], i + 1) \in W[i + 1]
    BY <2>1, <2>2
  <2>4. g[i + 1] = Item(s, g[i], i + 1)
    BY <1>1, <2>1, <2>3 DEF Loop
  <2> QED
    BY <2>1, <2>3, <2>4
<1>4. 0..n \subseteq S
  <2> HIDE DEF S, n
  <2>1. n \in Nat
    BY DEF n
  <2> QED
    BY <1>2, <1>3, <2>1, UpTo
<1>5. n \in 0..n
  OBVIOUS
<1>6. g[n] \in W[n]
  BY <1>4, <1>5
<1> QED
  BY <1>1, <1>6 DEF Loop

-----------------------------------------------------------------------------
(* Types *)

SectionFits(s) ==
  /\ s.id \in Nat /\ s.fits \in BOOLEAN /\ s.vec \in Seq(Elements(s.id))
  /\ s.id = Id.start => s.vec # <<>>

LEMMA LoaderFacts ==
  /\ MaxName = MaxKeySize /\ MaxKeySize \in Nat
  /\ MaxNof \in Nat /\ PageSize \in Nat /\ MaxPages \in Nat
  /\ Null \in Words
BY LoaderAssumption, HashListAssumption DEF Null, Words

LEMMA ElementKinds ==
  /\ Elements(Id.type) = Signatures
  /\ Elements(Id.import) = [module : Seq(Nat), field : Seq(Nat),
                            kind : STRING, type : Nat]
  /\ Elements(Id.function) = Nat /\ Elements(Id.start) = Nat
  /\ Elements(Id.table) = [type : STRING, size : Nat]
  /\ Elements(Id.memory) = [pages : Nat, max : Int]
  /\ Elements(Id.global) = Exprs
  /\ Elements(Id.export) = [name : Seq(Nat), kind : STRING, index : Nat]
  /\ Elements(Id.element) = [table : Nat, offset : Exprs, entries : Seq(Nat)]
  /\ Elements(Id.code) = [locals : Seq([count : Nat, type : STRING]),
                          body : Seq(Nat), ended : BOOLEAN]
  /\ Elements(Id.data) = [memory : Nat, offset : Exprs, bytes : Seq(Nat)]
<1>1. /\ Id.type = 1 /\ Id.import = 2 /\ Id.function = 3 /\ Id.table = 4
      /\ Id.memory = 5 /\ Id.global = 6 /\ Id.export = 7 /\ Id.start = 8
      /\ Id.element = 9 /\ Id.code = 10 /\ Id.data = 11
  BY DEF Id
<1>2. Elements(3) = Nat /\ Elements(8) = Nat
  BY <1>1 DEF Elements
<1>3. Elements(1) = Signatures
  BY <1>1, 1 # 2, 1 # 4, 1 # 5, 1 # 6, 1 # 7, 1 # 9, 1 # 10, 1 # 11, Zenon
     DEF Elements, Signatures
<1>4. Elements(2) = [module : Seq(Nat), field : Seq(Nat), kind : STRING,
                      type : Nat]
  BY <1>1, 2 # 1, 2 # 4, 2 # 5, 2 # 6, 2 # 7, 2 # 9, 2 # 10, 2 # 11, Zenon
     DEF Elements
<1>5. Elements(4) = [type : STRING, size : Nat]
  BY <1>1, 4 # 1, 4 # 2, 4 # 5, 4 # 6, 4 # 7, 4 # 9, 4 # 10, 4 # 11, Zenon
     DEF Elements
<1>6. Elements(5) = [pages : Nat, max : Int]
  BY <1>1, 5 # 1, 5 # 2, 5 # 4, 5 # 6, 5 # 7, 5 # 9, 5 # 10, 5 # 11, Zenon
     DEF Elements
<1>7. Elements(6) = Exprs
  BY <1>1, 6 # 1, 6 # 2, 6 # 4, 6 # 5, 6 # 7, 6 # 9, 6 # 10, 6 # 11, Zenon
     DEF Elements
<1>8. Elements(7) = [name : Seq(Nat), kind : STRING, index : Nat]
  BY <1>1, 7 # 1, 7 # 2, 7 # 4, 7 # 5, 7 # 6, 7 # 9, 7 # 10, 7 # 11, Zenon
     DEF Elements
<1>9. Elements(9) = [table : Nat, offset : Exprs, entries : Seq(Nat)]
  BY <1>1, 9 # 1, 9 # 2, 9 # 4, 9 # 5, 9 # 6, 9 # 7, 9 # 10, 9 # 11, Zenon
     DEF Elements
<1>10. Elements(10) = [locals : Seq([count : Nat, type : STRING]),
                       body : Seq(Nat), ended : BOOLEAN]
  BY <1>1, 10 # 1, 10 # 2, 10 # 4, 10 # 5, 10 # 6, 10 # 7, 10 # 9,
     10 # 11, Zenon
     DEF Elements
<1>11. Elements(11) = [memory : Nat, offset : Exprs, bytes : Seq(Nat)]
  BY <1>1, 11 # 1, 11 # 2, 11 # 4, 11 # 5, 11 # 6, 11 # 7, 11 # 9,
     11 # 10, Zenon
     DEF Elements
<1> QED
  BY <1>1, <1>2, <1>3, <1>4, <1>5, <1>6, <1>7, <1>8, <1>9, <1>10, <1>11,
     Zenon

LEMMA SectionOf ==
  ASSUME Decoded(file), NEW k \in 1..Len(file.sections)
  PROVE  SectionFits(file.sections[k])
BY DEF Decoded, SectionFits

LEMMA SumNat ==
  ASSUME NEW counts, Len(counts) \in Nat,
         \A i \in 1..Len(counts) : counts[i] \in Nat
  PROVE  Sum(counts) \in Nat
<1> DEFINE n == Len(counts)
           Eq(h) == h = [i \in 0..n |->
                           IF i = 0 THEN 0 ELSE h[i - 1] + counts[i]]
           F == [i \in 1..n |-> [x \in Nat |-> x + counts[i]]]
           w == CHOOSE h : Eq(h)
<1>1. Sum(counts) = w[n]
  BY DEF Sum
<1>2. n \in Nat /\ \A i \in 1..n : counts[i] \in Nat
  OBVIOUS
<1> HIDE DEF n
<1>3. Steps(F, n, Nat)
  BY <1>2 DEF Steps
<1>4. PICK g : Runs(g, 0, F, n, Nat)
  <2> HIDE DEF F
  <2> QED
    BY <1>2, <1>3, Recursion
<1>5. Eq(g)
  <2>1. g \in [0..n -> Nat] /\ g[0] = 0
    BY <1>4 DEF Runs
  <2>2. ASSUME NEW i \in 0..n, i # 0
        PROVE  g[i] = g[i - 1] + counts[i]
    <3>1. i \in 1..n /\ i - 1 \in 0..n
      BY <1>2, <2>2
    <3>2. g[i - 1] \in Nat
      BY <2>1, <3>1
    <3>3. g[i] = F[i][g[i - 1]]
      <4> HIDE DEF F
      <4> QED
        BY <1>4, <3>1 DEF Runs
    <3> QED
      BY <3>1, <3>2, <3>3
  <2> QED
    BY <2>1, <2>2
<1>6. Eq(w)
  BY <1>5
<1> HIDE DEF w
<1>7. w[0] = 0
  BY <1>2, <1>6
<1>8. ASSUME NEW i \in 1..n, w[i - 1] \in Nat
      PROVE  w[i] \in Nat
  <2>1. i \in 0..n /\ i # 0
    BY <1>2
  <2>2. w[i] = w[i - 1] + counts[i]
    BY <1>6, <2>1
  <2> QED
    BY <1>2, <1>8, <2>2
<1>9. \A i \in 0..n : w[i] \in Nat
  <2>1. w[0] \in Nat
    BY <1>7
  <2> QED
    BY <1>2, <1>8, <2>1, LoopKeeps
<1> QED
  BY <1>1, <1>2, <1>9

-----------------------------------------------------------------------------
(* Elements of the program.  What a parser makes of c is in Grown(c): well *)
(* formed, with the host functions of c and all it exports.                *)

Grown(c) ==
  {x \in Programs : /\ Ordered(x) /\ x.available = c.available
                    /\ Content(c.exported.array)
                         \subseteq Content(x.exported.array)}

LEMMA GrownLike ==
  ASSUME NEW c, NEW x \in Grown(c), NEW y \in Programs,
         y.functions = x.functions, y.imported = x.imported,
         y.array = x.array, y.available = x.available,
         Content(x.exported.array) \subseteq Content(y.exported.array)
  PROVE  y \in Grown(c)
BY DEF Grown, Ordered

LEMMA GrownRefused ==
  ASSUME NEW c, NEW x \in Grown(c), NEW r \in Results
  PROVE  Refused(x, r) \in Grown(c)
<1>1. Refused(x, r) \in Programs
  BY DEF Grown, Programs, Refused
<1> QED
  BY <1>1, GrownLike DEF Grown, Programs, Refused

LEMMA TypeIn ==
  ASSUME NEW c, NEW x \in Grown(c), NEW t \in Signatures
  PROVE  Type(x, t) \in Grown(c)
<1> DEFINE y == [x EXCEPT !.types = Append(@, t)]
<1>1. x \in Programs
  BY DEF Grown
<1>2. Append(x.types, t) \in Seq(Signatures)
  BY <1>1 DEF Programs
<1>3. y \in Programs
  BY <1>1, <1>2 DEF Programs
<1>4. y \in Grown(c)
  BY <1>1, <1>3, GrownLike DEF Programs
<1>5. /\ Refused(x, "TO_MANY_PARAMETERS") \in Grown(c)
      /\ Refused(x, "TO_MANY_RESULT_VALUES") \in Grown(c)
  BY GrownRefused DEF Results
<1> QED
  BY <1>4, <1>5 DEF Type

LEMMA ExportIn ==
  ASSUME NEW c, NEW x \in Grown(c), NEW e \in Elements(Id.export)
  PROVE  Export(x, e) \in Grown(c)
<1>1. x \in Programs /\ x.exported \in Lists /\ x.array \in Nat
  BY DEF Grown, Programs
<1>2. e.name \in Words /\ e.index \in Nat
  BY ElementKinds DEF Words
<1>3. CASE Len(e.name) <= MaxName
  <2> DEFINE ptr == <<x.array, e.index>>
             l == Put(x.exported, e.name, ptr)
             y == [x EXCEPT !.exported = l]
  <2>1. ptr \in Words /\ ptr # Null
    BY <1>1, <1>2 DEF Words, Null
  <2>2. l \in Lists /\ Content(x.exported.array) \subseteq Content(l.array)
    <3> HIDE DEF ptr
    <3>1. Len(e.name) <= MaxKeySize
      BY <1>3, LoaderFacts
    <3> DEFINE Q(after) ==
                 /\ after \in Lists
                 /\ IF Find(x.exported, e.name) # Null
                    THEN Content(after.array) = Content(x.exported.array)
                    ELSE Content(after.array) =
                           Content(x.exported.array)
                             \cup {[key |-> e.name, ptr |-> ptr]}
    <3>2. Q(l)
      BY <1>1, <1>2, <2>1, <3>1, PutDoes
    <3> HIDE DEF l
    <3> QED
      BY <3>2
  <2> HIDE DEF l
  <2>3. y \in Programs
    BY <1>1, <2>2 DEF Programs
  <2>4. y \in Grown(c)
    BY <1>1, <2>2, <2>3, GrownLike DEF Programs
  <2>5. \/ Export(x, e) \in {x, y} \/ Export(x, e) = Refused(x, "abort")
        \/ Export(x, e) = Refused(x, "EXPORT_TYPE_NOT_IMPL_YET")
    <3>1. ~(Len(e.name) > MaxName)
      BY <1>2, <1>3, LoaderFacts DEF Words
    <3> QED
      BY <3>1 DEF Export, l
  <2>6. /\ Refused(x, "abort") \in Grown(c)
        /\ Refused(x, "EXPORT_TYPE_NOT_IMPL_YET") \in Grown(c)
    BY GrownRefused DEF Results
  <2> QED
    BY <2>4, <2>5, <2>6
<1>4. CASE ~(Len(e.name) <= MaxName)
  <2>1. Len(e.name) > MaxName
    BY <1>2, <1>4, LoaderFacts DEF Words
  <2>2. Refused(x, "EXPORT_NAME_TO_LONG") \in Grown(c)
    BY GrownRefused DEF Results
  <2> QED
    BY <2>1, <2>2 DEF Export
<1> QED
  BY <1>3, <1>4

LEMMA SetFromIn ==
  ASSUME NEW s \in Seq(Nat), NEW at \in Nat, NEW entries \in Seq(Nat)
  PROVE  SetFrom(s, at, entries) \in Seq(Nat)
<1> DEFINE n == at + Len(entries)
           m == IF Len(s) > n THEN Len(s) ELSE n
           t == [k \in 1..m |-> IF k \in at + 1..n THEN entries[k - at]
                                ELSE IF k <= Len(s) THEN s[k] ELSE 0]
<1>1. m \in Nat
  OBVIOUS
<1>2. ASSUME NEW k \in 1..m
      PROVE  t[k] \in Nat
  <2>1. CASE k \in at + 1..n
    <3>1. k - at \in 1..Len(entries)
      BY <2>1
    <3> QED
      BY <2>1, <3>1
  <2>2. CASE k \notin at + 1..n
    BY <2>2
  <2> QED
    BY <2>1, <2>2
<1>3. t \in [1..m -> Nat]
  <2> HIDE DEF m
  <2>1. DOMAIN t = 1..m /\ t = [k \in 1..m |-> t[k]]
    OBVIOUS
  <2> HIDE DEF t
  <2> QED
    BY <1>2, <2>1
<1>4. t \in Seq(Nat)
  <2> HIDE DEF t, m
  <2> QED
    BY <1>1, <1>3, SeqDef
<1> QED
  BY <1>4 DEF SetFrom

LEMMA ElementIn ==
  ASSUME NEW c, NEW x \in Grown(c), NEW e \in Elements(Id.element)
  PROVE  Element(x, e) \in Grown(c)
<1> DEFINE t == SetFrom(x.table, e.offset.arg, e.entries)
           y == [x EXCEPT !.table = t]
<1>1. x \in Programs /\ x.table \in Seq(Nat)
  BY DEF Grown, Programs
<1>2. e.offset.arg \in Nat /\ e.entries \in Seq(Nat)
  BY ElementKinds DEF Exprs
<1>3. t \in Seq(Nat)
  BY <1>1, <1>2, SetFromIn
<1>4. Element(x, e) \in {y, Refused(x, "ONLY_ONE_TABLE_IS_SUPPORTED"),
                         Refused(x, "abort"), Refused(x, "TO_MANY_ENTRIES")}
  BY DEF Element
<1> HIDE DEF t
<1>5. y \in Programs
  BY <1>1, <1>3 DEF Programs
<1>6. y \in Grown(c)
  BY <1>1, <1>5, GrownLike DEF Programs
<1>7. /\ Refused(x, "ONLY_ONE_TABLE_IS_SUPPORTED") \in Grown(c)
      /\ Refused(x, "abort") \in Grown(c)
      /\ Refused(x, "TO_MANY_ENTRIES") \in Grown(c)
  BY GrownRefused DEF Results
<1> QED
  BY <1>4, <1>6, <1>7

(* Another body of a function, or more room for its locals, is none to     *)
(* the order of the functions.                                             *)
LEMMA GrownAlike ==
  ASSUME NEW c, NEW x \in Grown(c), NEW y \in Programs,
         Len(y.functions) = Len(x.functions),
         \A i \in 1..Len(x.functions) :
           y.functions[i].kind = x.functions[i].kind,
         y.imported = x.imported, y.array = x.array,
         y.available = x.available, y.exported = x.exported
  PROVE  y \in Grown(c)
<1>1. x \in Programs /\ Ordered(x)
  BY DEF Grown
<1>2. x.functions \in Seq(Functions) /\ y.functions \in Seq(Functions)
  BY <1>1 DEF Programs
<1>3. x.functions = <<>> => y.functions = <<>>
  BY <1>2
<1> QED
  BY <1>1, <1>3 DEF Grown, Ordered

Written(g, fs, n, v, b) ==
  g \in {[fs EXCEPT ![n].nof_local = v], [fs EXCEPT ![n].body = b]}

Alike(g, fs) ==
  /\ g \in Seq(Functions) /\ Len(g) = Len(fs)
  /\ \A i \in 1..Len(fs) : g[i].kind = fs[i].kind

LEMMA FieldIn ==
  ASSUME NEW fs \in Seq(Functions), NEW n, NEW v \in Nat, NEW b \in Words,
         NEW g, Written(g, fs, n, v, b)
  PROVE  Alike(g, fs)
<1>1. CASE n \in 1..Len(fs)
  <2> DEFINE f == [fs[n] EXCEPT !.nof_local = v]
             h == [fs[n] EXCEPT !.body = b]
  <2>1. fs[n] \in Functions
    BY <1>1
  <2>2. /\ f \in Functions /\ f.kind = fs[n].kind
        /\ h \in Functions /\ h.kind = fs[n].kind
    BY <2>1 DEF Functions
  <2>3. g = [fs EXCEPT ![n] = f] \/ g = [fs EXCEPT ![n] = h]
    BY DEF Written
  <2> HIDE DEF f, h
  <2>4. PICK e \in Functions : e.kind = fs[n].kind /\ g = [fs EXCEPT ![n] = e]
    BY <2>2, <2>3
  <2> HIDE DEF Functions
  <2> QED
    BY <1>1, <2>4 DEF Alike
<1>2. CASE n \notin 1..Len(fs)
  <2>1. [fs EXCEPT ![n].nof_local = v] = fs /\ [fs EXCEPT ![n].body = b] = fs
    BY <1>2
  <2> QED
    BY <2>1 DEF Written, Alike
<1> QED
  BY <1>1, <1>2

LEMMA CodeIn ==
  ASSUME NEW c, NEW x \in Grown(c), NEW e \in Elements(Id.code), NEW i
  PROVE  Code(x, e, i) \in Grown(c)
<1> DEFINE n == x.imported + i
           v == Sum([j \in DOMAIN e.locals |-> e.locals[j].count]) + Slack
           y == [x EXCEPT !.functions[n].nof_local = v]
           z == [y EXCEPT !.functions[n].body = e.body]
           d == [x EXCEPT !.functions[n].nof_local = v,
                          !.functions[n].body = e.body]
<1>1. x \in Programs
  BY DEF Grown
<1>2. e.locals \in Seq([count : Nat, type : STRING]) /\ e.body \in Words
  BY ElementKinds DEF Words
<1>3. v \in Nat
  <2> DEFINE counts == [j \in DOMAIN e.locals |-> e.locals[j].count]
  <2>1. Len(counts) \in Nat /\ \A j \in 1..Len(counts) : counts[j] \in Nat
    <3>1. DOMAIN e.locals = 1..Len(e.locals) /\ Len(e.locals) \in Nat
          /\ \A j \in 1..Len(e.locals) : e.locals[j].count \in Nat
      <4> DEFINE L == e.locals
                 D == [count : Nat, type : STRING]
      <4>1. L \in Seq(D) /\ \A r \in D : r.count \in Nat
        BY <1>2
      <4> HIDE DEF L, D
      <4>2. DOMAIN L = 1..Len(L) /\ Len(L) \in Nat
            /\ \A j \in 1..Len(L) : L[j] \in D
        BY <4>1
      <4> QED
        BY <4>1, <4>2 DEF L
    <3>2. counts = [j \in 1..Len(e.locals) |-> e.locals[j].count]
      BY <3>1
    <3>3. Len(counts) = Len(e.locals)
      BY <3>1, <3>2
    <3> QED
      BY <3>1, <3>2, <3>3
  <2> HIDE DEF counts
  <2>2. Sum(counts) \in Nat
    BY <2>1, SumNat
  <2> QED
    BY <2>2 DEF counts, Slack
<1> HIDE DEF v, n
<1>4. y \in Grown(c)
  <2> DEFINE g == [x.functions EXCEPT ![n].nof_local = v]
  <2>1. /\ g \in Seq(Functions) /\ Len(g) = Len(x.functions)
        /\ \A k \in 1..Len(x.functions) : g[k].kind = x.functions[k].kind
    <3> DEFINE fs == x.functions
               b == e.body
    <3>1. fs \in Seq(Functions) /\ b \in Words
      BY <1>2, <1>1 DEF Programs
    <3>2. Written(g, fs, n, v, b)
      BY DEF Written
    <3> HIDE DEF g, fs, b
    <3>3. Alike(g, fs)
      BY <1>3, <3>1, <3>2, FieldIn
    <3> QED
      BY <3>3 DEF Alike, fs
  <2> HIDE DEF g
  <2>2. y = [x EXCEPT !.functions = g]
    BY DEF g
  <2> HIDE DEF y
  <2>3. y \in Programs
    BY <1>1, <2>1, <2>2 DEF Programs
  <2>4. /\ y.functions = g /\ y.imported = x.imported /\ y.array = x.array
        /\ y.available = x.available /\ y.exported = x.exported
    BY <1>1, <2>2 DEF Programs
  <2> QED
    BY <2>1, <2>3, <2>4, GrownAlike
<1>5. z \in Grown(c)
  <2> DEFINE g == [y.functions EXCEPT ![n].body = e.body]
  <2>0. y \in Programs
    BY <1>4 DEF Grown
  <2> HIDE DEF y
  <2>1. /\ g \in Seq(Functions) /\ Len(g) = Len(y.functions)
        /\ \A k \in 1..Len(y.functions) : g[k].kind = y.functions[k].kind
    <3> DEFINE fs == y.functions
               b == e.body
    <3>1. fs \in Seq(Functions) /\ b \in Words
      BY <1>2, <2>0 DEF Programs
    <3>2. Written(g, fs, n, v, b)
      BY DEF Written
    <3> HIDE DEF g, fs, b
    <3>3. Alike(g, fs)
      BY <1>3, <3>1, <3>2, FieldIn
    <3> QED
      BY <3>3 DEF Alike, fs
  <2> HIDE DEF g
  <2>2. z = [y EXCEPT !.functions = g]
    BY DEF g
  <2> HIDE DEF z
  <2>3. z \in Programs
    BY <2>0, <2>1, <2>2 DEF Programs
  <2>4. /\ z.functions = g /\ z.imported = y.imported /\ z.array = y.array
        /\ z.available = y.available /\ z.exported = y.exported
    BY <2>0, <2>2 DEF Programs
  <2> QED
    BY <1>4, <2>1, <2>3, <2>4, GrownAlike
<1>6. d = z
  BY <1>1 DEF Programs
<1>7. /\ Refused(x, "TOO_MANY_LOCAL_VARIABLES") \in Grown(c)
      /\ Refused(x, "VECTORS_NOT_SUPPORTED") \in Grown(c)
  BY GrownRefused DEF Results
<1>8. Refused(d, "MISSING_OPCODE_END") \in Grown(c)
  BY <1>5, <1>6, GrownRefused DEF Results
<1>9. Code(x, e, i) \in {Refused(x, "TOO_MANY_LOCAL_VARIABLES"),
                         Refused(x, "VECTORS_NOT_SUPPORTED"), d,
                         Refused(d, "MISSING_OPCODE_END")}
  BY DEF Code, v, n
<1> HIDE DEF d, y, z
<1> QED
  BY <1>5, <1>6, <1>7, <1>8, <1>9

LEMMA FoundIsWord ==
  ASSUME NEW l \in Lists, NEW key \in Words, Len(key) <= MaxKeySize
  PROVE  Find(l, key) \in Words
<1>1. \A e \in Content(l.array) : e.ptr \in Words
  BY ListFacts DEF Sound, Content, Used, Entry
<1> QED
  BY <1>1, FindIs, LoaderFacts

(* The array of functions while the imports are parsed. *)
Importing(c) ==
  {x \in Grown(c) : Len(x.functions) = x.imported /\ x.array > 0}

LEMMA JoinedWords ==
  ASSUME NEW m \in Words, NEW n \in Words
  PROVE  m \o n \in Words /\ Len(m \o n) = Len(m) + Len(n)
BY ConcatProperties DEF Words

LEMMA NameIs ==
  ASSUME NEW m \in Words, NEW n \in Words
  PROVE  /\ ImportName(m, n) \in Words
         /\ Len(ImportName(m, n)) = Len(m) + 1 + Len(n)
<1> DEFINE dot == <<Slash>>
           start == m \o dot
<1>1. dot \in Words /\ Len(dot) = 1
  BY DEF Slash, Words
<1> HIDE DEF dot
<1>2. start \in Words /\ Len(start) = Len(m) + Len(dot)
  BY <1>1, JoinedWords
<1> HIDE DEF start
<1>3. start \o n \in Words /\ Len(start \o n) = Len(start) + Len(n)
  BY <1>2, JoinedWords
<1>4. ImportName(m, n) = start \o n
  BY DEF ImportName, start, dot
<1>5. Len(start \o n) = Len(m) + 1 + Len(n)
  BY <1>1, <1>2, <1>3
<1> QED
  BY <1>3, <1>4, <1>5

LEMMA ImportIn ==
  ASSUME NEW c, NEW x \in Importing(c), NEW i \in Elements(Id.import)
  PROVE  Import(x, i) \in Importing(c)
<1> DEFINE name == ImportName(i.module, i.field)
           ptr == Find(x.available, name)
           f == [Function("imported", i.type, 0) EXCEPT !.func_ptr = ptr]
           y == [x EXCEPT !.functions = Append(@, f), !.imported = @ + 1]
<1>1. x \in Programs /\ x \in Grown(c) /\ Ordered(x)
  BY DEF Importing, Grown
<1>2. i.module \in Words /\ i.field \in Words /\ i.type \in Nat
  BY ElementKinds DEF Words
<1>3. \A r \in Results : Refused(x, r) \in Importing(c)
  <2>1. ASSUME NEW r \in Results
        PROVE  Refused(x, r) \in Importing(c)
    <3>1. Refused(x, r) \in Grown(c)
      BY <1>1, GrownRefused
    <3>2. /\ Refused(x, r).functions = x.functions
          /\ Refused(x, r).imported = x.imported
          /\ Refused(x, r).array = x.array
      BY <1>1 DEF Refused, Programs
    <3> QED
      BY <3>1, <3>2 DEF Importing
  <2> QED
    BY <2>1
<1>4. /\ Refused(x, "UNKNOWN_TYPE_OF_IMPORT") \in Importing(c)
      /\ Refused(x, "EXPORT_NAME_TO_LONG") \in Importing(c)
      /\ Refused(x, "abort") \in Importing(c)
      /\ Refused(x, "IMPORT_FIELD_NOT_FOUND") \in Importing(c)
  BY <1>3 DEF Results
<1>5. CASE Len(i.module) + 1 + Len(i.field) > MaxKeySize
  BY <1>4, <1>5 DEF Import
<1>6. CASE ~(Len(i.module) + 1 + Len(i.field) > MaxKeySize)
  <2>1. name \in Words /\ Len(name) <= MaxKeySize
    <3>1. Len(i.module) \in Nat /\ Len(i.field) \in Nat
      BY <1>2 DEF Words
    <3>2. name \in Words /\ Len(name) = Len(i.module) + 1 + Len(i.field)
      BY <1>2, NameIs
    <3> HIDE DEF name
    <3>3. Len(name) <= MaxKeySize
      <4> DEFINE a == Len(i.module)
                 b == Len(i.field)
      <4>1. ~(a + 1 + b > MaxKeySize) /\ a \in Nat /\ b \in Nat
        BY <1>6, <3>1
      <4>2. Len(name) = a + 1 + b
        BY <3>2
      <4> HIDE DEF a, b
      <4> QED
        BY <4>1, <4>2, LoaderFacts
    <3> QED
      BY <3>2, <3>3
  <2> HIDE DEF name
  <2>2. ptr \in Words
    BY <1>1, <2>1, FoundIsWord DEF Programs
  <2> HIDE DEF ptr
  <2>3. f \in Functions /\ f.kind = "imported"
    <3> DEFINE g == Function("imported", i.type, 0)
    <3>1. g \in Functions /\ g.kind = "imported"
      BY <1>2, LoaderFacts DEF Function, Functions
    <3> HIDE DEF g
    <3>2. [g EXCEPT !.func_ptr = ptr] \in Functions
          /\ [g EXCEPT !.func_ptr = ptr].kind = g.kind
      BY <2>2, <3>1 DEF Functions
    <3> QED
      BY <3>1, <3>2 DEF g
  <2> HIDE DEF f
  <2> DEFINE fs == Append(x.functions, f)
             u == [x EXCEPT !.functions = fs]
             w == [u EXCEPT !.imported = @ + 1]
  <2>4. /\ x.functions \in Seq(Functions) /\ x.imported \in Nat
        /\ x.array \in Nat /\ Len(x.functions) = x.imported /\ x.array > 0
    BY <1>1 DEF Programs, Importing
  <2>5. fs \in Seq(Functions) /\ Len(fs) = x.imported + 1
        /\ fs[x.imported + 1] = f
        /\ \A k \in 1..x.imported : fs[k] = x.functions[k]
    BY <2>3, <2>4
  <2> HIDE DEF fs
  <2>6. u \in Programs
    BY <1>1, <2>5 DEF Programs
  <2>7. u.imported = x.imported /\ u.functions = fs /\ u.array = x.array
        /\ u.available = x.available /\ u.exported = x.exported
    BY <1>1 DEF Programs
  <2> HIDE DEF u
  <2>8. w \in Programs
    <3> DEFINE a == u.imported + 1
    <3>1. a \in Nat
      BY <2>4, <2>7
    <3> HIDE DEF a
    <3>2. [u EXCEPT !.imported = a] \in Programs
      BY <2>6, <3>1 DEF Programs
    <3> QED
      BY <3>2 DEF a
  <2>9. w.imported = x.imported + 1 /\ w.functions = fs /\ w.array = x.array
        /\ w.available = x.available /\ w.exported = x.exported
    BY <2>6, <2>7 DEF Programs
  <2> HIDE DEF w
  <2>10. \A k \in 1..x.imported : x.functions[k].kind = "imported"
    BY <1>1, <2>4 DEF Ordered
  <2>11. \A k \in 1..x.imported + 1 : fs[k].kind = "imported"
    BY <2>3, <2>4, <2>5, <2>10
  <2>12. Ordered(w)
    BY <2>4, <2>5, <2>9, <2>11 DEF Ordered
  <2>13. w \in Importing(c)
    BY <1>1, <2>4, <2>5, <2>8, <2>9, <2>12 DEF Importing, Grown
  <2>14. y = w
    BY <1>1 DEF w, u, fs, Programs
  <2>15. Import(x, i) \in {Refused(x, "UNKNOWN_TYPE_OF_IMPORT"),
                           Refused(x, "abort"),
                           Refused(x, "IMPORT_FIELD_NOT_FOUND"), y}
    BY <1>6 DEF Import, ptr, name, f
  <2> HIDE DEF y
  <2> QED
    BY <1>4, <2>13, <2>14, <2>15
<1> QED
  BY <1>5, <1>6

-----------------------------------------------------------------------------
(* The sections of the program *)

LEMMA IdIs ==
  /\ Id.custom = 0 /\ Id.type = 1 /\ Id.import = 2 /\ Id.function = 3
  /\ Id.table = 4 /\ Id.memory = 5 /\ Id.global = 6 /\ Id.export = 7
  /\ Id.start = 8 /\ Id.element = 9 /\ Id.code = 10 /\ Id.data = 11
  /\ Id.datacount = 12
BY DEF Id

LEMMA ItemIs ==
  ASSUME NEW s, NEW c, NEW i
  PROVE  /\ s.id = Id.type => Item(s, c, i) = Type(c, s.vec[i])
         /\ s.id = Id.import => Item(s, c, i) = Import(c, s.vec[i])
         /\ s.id = Id.export => Item(s, c, i) = Export(c, s.vec[i])
         /\ s.id = Id.element => Item(s, c, i) = Element(c, s.vec[i])
         /\ s.id = Id.code => Item(s, c, i) = Code(c, s.vec[i], i)
         /\ s.id = Id.global => Item(s, c, i) = GlobalEntry(c, s.vec[i])
         /\ s.id = Id.data => Item(s, c, i) = Segment(c, s.vec[i])
<1>1. s.id = Id.type => Item(s, c, i) = Type(c, s.vec[i])
  BY IdIs DEF Item
<1>2. s.id = Id.import => Item(s, c, i) = Import(c, s.vec[i])
  BY IdIs DEF Item
<1>3. s.id = Id.export => Item(s, c, i) = Export(c, s.vec[i])
  BY IdIs DEF Item
<1>4. s.id = Id.element => Item(s, c, i) = Element(c, s.vec[i])
  BY IdIs DEF Item
<1>5. s.id = Id.code => Item(s, c, i) = Code(c, s.vec[i], i)
  BY IdIs DEF Item
<1>6. s.id = Id.global => Item(s, c, i) = GlobalEntry(c, s.vec[i])
  BY IdIs DEF Item
<1>7. s.id = Id.data => Item(s, c, i) = Segment(c, s.vec[i])
  BY IdIs DEF Item
<1> QED
  BY <1>1, <1>2, <1>3, <1>4, <1>5, <1>6, <1>7

LEMMA VectorIn ==
  ASSUME NEW s, SectionFits(s)
  PROVE  Len(s.vec) \in Nat /\ \A i \in 1..Len(s.vec) : s.vec[i] \in Elements(s.id)
<1> DEFINE v == s.vec
           E == Elements(s.id)
<1>1. v \in Seq(E)
  BY DEF SectionFits
<1> HIDE DEF v, E
<1>2. Len(v) \in Nat /\ \A i \in 1..Len(v) : v[i] \in E
  BY <1>1
<1> QED
  BY <1>2 DEF v, E

LEMMA ItemsGrown ==
  ASSUME NEW c \in Programs, Ordered(c), NEW s, SectionFits(s),
         s.id \in {Id.type, Id.export, Id.element, Id.code}
  PROVE  Items(c, s) \in Grown(c)
<1>1. c \in Grown(c)
  BY DEF Grown
<1>2. ASSUME NEW i \in 1..Len(s.vec), NEW x \in Grown(c)
      PROVE  Item(s, x, i) \in Grown(c)
  <2>1. s.vec[i] \in Elements(s.id)
    BY VectorIn
  <2>2. CASE s.id = Id.type
    BY <2>1, <2>2, ItemIs, TypeIn, ElementKinds
  <2>3. CASE s.id = Id.export
    BY <2>1, <2>3, ItemIs, ExportIn
  <2>4. CASE s.id = Id.element
    BY <2>1, <2>4, ItemIs, ElementIn
  <2>5. CASE s.id = Id.code
    BY <2>1, <2>5, ItemIs, CodeIn
  <2> QED
    BY <2>2, <2>3, <2>4, <2>5
<1> QED
  BY <1>1, <1>2, VectorIn, ItemsIn

LEMMA ImportSectionIn ==
  ASSUME NEW c \in Programs, Ordered(c), NEW s, SectionFits(s),
         s.id = Id.import
  PROVE  ImportSection(c, s) \in Grown(c)
<1> DEFINE d == [c EXCEPT !.array = @ + 1]
           all == Items(d, s)
           y == [all EXCEPT !.total = all.imported]
<1>1. /\ Refused(c, "ONLY_ONE_SECTION_ALLOWED") \in Grown(c)
      /\ Refused(c, "TO_MANY_IMPORTS") \in Grown(c)
  <2>1. c \in Grown(c)
    BY DEF Grown
  <2> QED
    BY <2>1, GrownRefused DEF Results
<1>2. CASE c.array > 0 \/ c.imported > 0
  BY <1>1, <1>2 DEF ImportSection
<1>3. CASE ~(c.array > 0 \/ c.imported > 0)
  <2>1. c.array = 0 /\ c.imported = 0 /\ c.functions = <<>>
    BY <1>3 DEF Programs, Ordered
  <2>2. d \in Programs
    <3> DEFINE a == c.array + 1
    <3>1. a \in Nat
      BY <2>1
    <3> HIDE DEF a
    <3>2. [c EXCEPT !.array = a] \in Programs
      BY <3>1 DEF Programs
    <3> QED
      BY <3>2 DEF a
  <2>3. /\ d.array = 1 /\ d.imported = 0 /\ d.functions = <<>>
        /\ d.available = c.available /\ d.exported = c.exported
    BY <2>1 DEF Programs
  <2> HIDE DEF d
  <2>4. Ordered(d)
    BY <2>3 DEF Ordered
  <2>5. d \in Importing(c)
    BY <2>2, <2>3, <2>4 DEF Importing, Grown
  <2>6. ASSUME NEW i \in 1..Len(s.vec), NEW x \in Importing(c)
        PROVE  Item(s, x, i) \in Importing(c)
    BY VectorIn, ItemIs, ImportIn
  <2>7. all \in Importing(c)
    BY <2>5, <2>6, VectorIn, ItemsIn
  <2>8. ImportSection(c, s) \in {Refused(c, "TO_MANY_IMPORTS"), all, y}
    BY <1>3 DEF ImportSection, d
  <2> HIDE DEF all
  <2>9. all \in Grown(c) /\ all \in Programs
    BY <2>7 DEF Importing, Grown
  <2>10. y \in Programs
    BY <2>9 DEF Programs
  <2>11. y \in Grown(c)
    BY <2>9, <2>10, GrownLike DEF Programs
  <2> QED
    BY <1>1, <2>8, <2>9, <2>11
<1> QED
  BY <1>2, <1>3

LEMMA FunctionSectionIn ==
  ASSUME NEW c \in Programs, Ordered(c), NEW s, SectionFits(s),
         s.id = Id.function
  PROVE  FunctionSection(c, s) \in Grown(c)
<1> DEFINE m == Len(s.vec)
           n == c.total + m
           fs == c.functions
           k == Len(fs)
           added == [i \in 1..m |-> Function("internal", s.vec[i], k + i - 1)]
           both == fs \o added
           u == [c EXCEPT !.total = n]
           v == [u EXCEPT !.array = @ + 1]
           w == [v EXCEPT !.functions = both]
<1>1. c \in Grown(c)
  BY DEF Grown
<1>2. m \in Nat /\ \A i \in 1..m : s.vec[i] \in Nat
  BY VectorIn, ElementKinds
<1>3. fs \in Seq(Functions) /\ k \in Nat /\ c.imported \in Nat
      /\ c.array \in Nat /\ c.total \in Nat /\ c.imported <= k
  BY DEF Programs, Ordered
<1> HIDE DEF m, fs, k
<1>4. added \in Seq(Functions) /\ Len(added) = m
      /\ \A i \in 1..m : added[i].kind = "internal"
  <2>1. ASSUME NEW i \in 1..m
        PROVE  /\ Function("internal", s.vec[i], k + i - 1) \in Functions
               /\ Function("internal", s.vec[i], k + i - 1).kind = "internal"
    <3>1. k + i - 1 \in Nat /\ s.vec[i] \in Nat
      BY <1>2, <1>3
    <3> QED
      BY <3>1, LoaderFacts DEF Function, Functions
  <2>2. added \in [1..m -> Functions]
    BY <2>1
  <2>3. \A i \in 1..m : added[i].kind = "internal"
    BY <2>1
  <2> HIDE DEF added
  <2>4. added \in Seq(Functions) /\ Len(added) = m
    BY <1>2, <2>2
  <2> QED
    BY <2>3, <2>4
<1> HIDE DEF added
<1>5. /\ both \in Seq(Functions) /\ Len(both) = k + m
      /\ \A i \in 1..k + m :
           both[i] = IF i <= k THEN fs[i] ELSE added[i - k]
  BY <1>3, <1>4, ConcatProperties DEF k
<1> HIDE DEF both
<1>6. n \in Nat
  BY <1>2, <1>3
<1> HIDE DEF n
<1>7. u \in Programs /\ u \in Grown(c)
  <2>1. u \in Programs
    BY <1>6 DEF Programs
  <2> QED
    BY <1>1, <2>1, GrownLike DEF Programs
<1>8. w \in Grown(c)
  <2>0. c.imported \in Nat /\ c.array \in Nat
    BY <1>3
  <2>1. v \in Programs
    <3> DEFINE a == u.array + 1
    <3>1. u \in Programs /\ a \in Nat
      BY <1>7 DEF Programs
    <3>2. v = [u EXCEPT !.array = a]
      OBVIOUS
    <3> HIDE DEF u, a, v
    <3> QED
      BY <3>1, <3>2 DEF Programs
  <2>2. w \in Programs
    BY <1>5, <2>1 DEF Programs
  <2>3. /\ w.functions = both /\ w.imported = c.imported
        /\ w.array = c.array + 1 /\ w.available = c.available
        /\ w.exported = c.exported
    BY DEF Programs
  <2> HIDE DEF w
  <2>4. \A i \in 1..k :
          fs[i].kind = (IF i <= c.imported THEN "imported" ELSE "internal")
    BY DEF Ordered, k, fs
  <2>5. ASSUME NEW i \in 1..k + m
        PROVE  both[i].kind = (IF i <= c.imported THEN "imported"
                               ELSE "internal")
    <3>1. CASE i <= k
      <4>1. i \in 1..k /\ both[i] = fs[i]
        BY <1>2, <1>3, <1>5, <3>1
      <4> QED
        BY <2>4, <4>1
    <3>2. CASE ~(i <= k)
      <4>1. i - k \in 1..m /\ both[i] = added[i - k] /\ ~(i <= c.imported)
        BY <1>2, <1>3, <1>5, <3>2
      <4> QED
        BY <1>4, <4>1
    <3> QED
      BY <3>1, <3>2
  <2>6. w.imported <= Len(w.functions) /\ w.array # 0
    BY <1>2, <1>3, <1>5, <2>3
  <2>7. Ordered(w)
    BY <1>5, <2>3, <2>5, <2>6 DEF Ordered
  <2> QED
    BY <2>2, <2>3, <2>7 DEF Grown
<1>9. /\ Refused(c, "ONLY_ONE_SECTION_ALLOWED") \in Grown(c)
      /\ Refused(c, "abort") \in Grown(c)
      /\ Refused(u, "TO_MANY_FUNCTIONS") \in Grown(c)
  BY <1>1, <1>7, GrownRefused DEF Results
<1>10. [c EXCEPT !.total = n, !.array = @ + 1, !.functions = @ \o added] = w
  BY DEF Programs, both, fs
<1> HIDE DEF u, w
<1>11. FunctionSection(c, s) \in
         {Refused(c, "ONLY_ONE_SECTION_ALLOWED"), Refused(c, "abort"),
          Refused(u, "TO_MANY_FUNCTIONS"), w}
  BY <1>10 DEF FunctionSection, u, n, m, added, k, fs
<1> QED
  BY <1>8, <1>9, <1>11

LEMMA OtherSectionsIn ==
  ASSUME NEW c \in Programs, Ordered(c), NEW s, SectionFits(s)
  PROVE  /\ s.id = Id.type => TypeSection(c, s) \in Grown(c)
         /\ s.id = Id.table => TableSection(c, s) \in Grown(c)
         /\ s.id = Id.export => ExportSection(c, s) \in Grown(c)
         /\ s.id = Id.start => StartSection(c, s) \in Grown(c)
         /\ s.id = Id.element => ElementSection(c, s) \in Grown(c)
         /\ s.id = Id.code => CodeSection(c, s) \in Grown(c)
<1>1. c \in Grown(c)
  BY DEF Grown
<1>2. /\ Refused(c, "ONLY_ONE_SECTION_ALLOWED") \in Grown(c)
      /\ Refused(c, "TO_MANY_FUNCTION_TYPES") \in Grown(c)
      /\ Refused(c, "ONLY_ONE_TABLE_IS_SUPPORTED") \in Grown(c)
      /\ Refused(c, "NOT_SUPPORTED_TABLE_TYPE") \in Grown(c)
      /\ Refused(c, "TO_MANY_TABLE_ELEMENTS") \in Grown(c)
      /\ Refused(c, "TO_MANY_EXPORTS") \in Grown(c)
      /\ Refused(c, "TO_MANY_ELEMENTS") \in Grown(c)
      /\ Refused(c, "OUT_OF_RANGE_IN_CODE_SECTION") \in Grown(c)
  <2>1. \A r \in Results : Refused(c, r) \in Grown(c)
    BY <1>1, GrownRefused
  <2> QED
    BY <2>1 DEF Results
<1>3. s.id \in {Id.type, Id.export, Id.element, Id.code} =>
        Items(c, s) \in Grown(c)
  BY ItemsGrown
<1>4. ASSUME s.id = Id.type
      PROVE  TypeSection(c, s) \in Grown(c)
  BY <1>2, <1>3, <1>4 DEF TypeSection
<1>5. TableSection(c, s) \in Grown(c)
  BY <1>1, <1>2 DEF TableSection
<1>6. ASSUME s.id = Id.export
      PROVE  ExportSection(c, s) \in Grown(c)
  BY <1>2, <1>3, <1>6 DEF ExportSection
<1>7. ASSUME s.id = Id.start
      PROVE  StartSection(c, s) \in Grown(c)
  <2>1. s.vec[1] \in Nat
    <3>1. s.vec \in Seq(Nat) /\ s.vec # <<>>
      BY <1>7, ElementKinds DEF SectionFits
    <3> QED
      BY <3>1
  <2> DEFINE t == s.vec[1]
             y == [c EXCEPT !.start = t]
  <2>2. y \in Programs
    <3>1. t \in Int
      BY <2>1
    <3> HIDE DEF t
    <3> QED
      BY <3>1 DEF Programs
  <2>3. y \in Grown(c)
    BY <1>1, <2>2, GrownLike DEF Programs
  <2> QED
    BY <2>3 DEF StartSection
<1>8. ASSUME s.id = Id.element
      PROVE  ElementSection(c, s) \in Grown(c)
  <2> DEFINE all == Items(c, s)
  <2>1. all \in Grown(c)
    BY <1>3, <1>8
  <2>2. Refused(all, "abort") \in Grown(c)
    BY <2>1, GrownRefused DEF Results
  <2>3. ElementSection(c, s) \in {Refused(c, "TO_MANY_ELEMENTS"), all,
                                  Refused(all, "abort")}
    BY DEF ElementSection
  <2> HIDE DEF all
  <2> QED
    BY <1>2, <2>1, <2>2, <2>3
<1>9. ASSUME s.id = Id.code
      PROVE  CodeSection(c, s) \in Grown(c)
  BY <1>2, <1>3, <1>9 DEF CodeSection
<1> QED
  BY <1>4, <1>5, <1>6, <1>7, <1>8, <1>9

LEMMA ProgSectionIn ==
  ASSUME NEW c \in Programs, Ordered(c), NEW s, SectionFits(s)
  PROVE  ProgSection(c, s) \in Grown(c)
<1> DEFINE parsed ==
             CASE s.id = Id.type     -> TypeSection(c, s)
               [] s.id = Id.import   -> ImportSection(c, s)
               [] s.id = Id.function -> FunctionSection(c, s)
               [] s.id = Id.table    -> TableSection(c, s)
               [] s.id = Id.export   -> ExportSection(c, s)
               [] s.id = Id.start    -> StartSection(c, s)
               [] s.id = Id.element  -> ElementSection(c, s)
               [] s.id = Id.code     -> CodeSection(c, s)
               [] s.id \in {Id.custom, Id.memory, Id.global, Id.data, Id.datacount}
                    -> c
               [] OTHER                 -> Refused(c, "UNKNOWN_SECTION")
<1>1. /\ c \in Grown(c) /\ Refused(c, "UNKNOWN_SECTION") \in Grown(c)
  <2>1. c \in Grown(c)
    BY DEF Grown
  <2> QED
    BY <2>1, GrownRefused DEF Results
<1>2. parsed \in Grown(c)
  BY <1>1, OtherSectionsIn, ImportSectionIn, FunctionSectionIn, IdIs
<1> HIDE DEF parsed
<1>3. Refused(parsed, "MISALLIGNED_SECTION") \in Grown(c)
  BY <1>2, GrownRefused DEF Results
<1>4. ProgSection(c, s) \in {parsed, Refused(parsed, "MISALLIGNED_SECTION")}
  BY DEF ProgSection, parsed
<1> QED
  BY <1>2, <1>3, <1>4

-----------------------------------------------------------------------------
(* The sections of the data *)

LEMMA DataRefused ==
  ASSUME NEW x \in Datas, NEW r \in Results
  PROVE  Refused(x, r) \in Datas
BY DEF Datas, Refused

LEMMA InitExprIn ==
  ASSUME NEW x \in Datas, NEW e \in Exprs
  PROVE  /\ InitExprResult(x, e) \in Results
         /\ InitExprResult(x, e) = "OK" => Value(x.globals, e) \in Nat
<1>1. e.op \in {"const", "get", "none"} /\ e.arg \in Nat
  BY DEF Exprs
<1>2. x.globals \in Seq(Nat)
  BY DEF Datas
<1>3. CASE e.op = "const"
  BY <1>1, <1>3 DEF InitExprResult, Results, Value
<1>4. CASE e.op = "get"
  <2>1. InitExprResult(x, e) =
          IF e.arg < Len(x.globals) THEN "OK" ELSE "GLOBAL_IDX_OUT_OF_RANGE"
    BY <1>4 DEF InitExprResult
  <2>2. e.arg < Len(x.globals) => x.globals[e.arg + 1] \in Nat
    BY <1>1, <1>2
  <2>3. Value(x.globals, e) = x.globals[e.arg + 1]
    BY <1>4 DEF Value
  <2> QED
    BY <2>1, <2>2, <2>3 DEF Results
<1>5. CASE e.op = "none"
  BY <1>5 DEF InitExprResult, Results
<1> QED
  BY <1>1, <1>3, <1>4, <1>5

LEMMA GlobalEntryIn ==
  ASSUME NEW x \in Datas, NEW e \in Exprs
  PROVE  GlobalEntry(x, e) \in Datas
<1> DEFINE r == InitExprResult(x, e)
           v == Value(x.globals, e)
           g == Append(x.globals, v)
<1>1. CASE r # "OK"
  <2>1. r \in Results
    BY InitExprIn
  <2> QED
    BY <1>1, <2>1, DataRefused DEF GlobalEntry
<1>2. CASE r = "OK"
  <2>1. v \in Nat /\ x.globals \in Seq(Nat)
    BY <1>2, InitExprIn DEF Datas
  <2> HIDE DEF v
  <2>2. g \in Seq(Nat)
    BY <2>1
  <2>3. GlobalEntry(x, e) = [x EXCEPT !.globals = g]
    BY <1>2 DEF GlobalEntry, v
  <2> HIDE DEF g
  <2> QED
    BY <2>2, <2>3 DEF Datas
<1> QED
  BY <1>1, <1>2

LEMMA SegmentIn ==
  ASSUME NEW x \in Datas, NEW s \in Elements(Id.data)
  PROVE  Segment(x, s) \in Datas
<1> DEFINE offset == Value(x.globals, s.offset)
           n == Len(s.bytes)
           bytes == offset..offset + n - 1
           image == [a \in DOMAIN x.memory \cup bytes |->
                       IF a \in bytes THEN s.bytes[a - offset + 1]
                       ELSE x.memory[a]]
           some == x.lower \/ offset + n \in 1..AddressSpace - 1
           u == [x EXCEPT !.lower = some]
           w == [u EXCEPT !.memory = image]
<1>1. s.offset \in Exprs /\ s.bytes \in Seq(Nat)
  BY ElementKinds
<1>2. /\ Refused(x, "ONLY_ONE_MEMORY_IS_SUPPORTED") \in Datas
      /\ Refused(x, "MEMORY_OUT_OF_RANGE") \in Datas
  BY DataRefused DEF Results
<1>3. CASE InitExprResult(x, s.offset) # "OK"
  BY <1>2, <1>3 DEF Segment
<1>4. CASE InitExprResult(x, s.offset) = "OK"
  <2>1. offset \in Nat /\ n \in Nat /\ \A i \in 1..n : s.bytes[i] \in Nat
    BY <1>1, <1>4, InitExprIn
  <2>2. PICK S \in SUBSET Nat : x.memory \in [S -> Nat]
    BY DEF Datas, Images
  <2>3. Segment(x, s) \in {Refused(x, "ONLY_ONE_MEMORY_IS_SUPPORTED"),
                           Refused(x, "MEMORY_OUT_OF_RANGE"),
                           [x EXCEPT !.lower = some, !.memory = image]}
    BY <1>4 DEF Segment
  <2> HIDE DEF offset, n
  <2>4. image \in [S \cup bytes -> Nat] /\ S \cup bytes \in SUBSET Nat
    <3>1. \A a \in bytes : a \in Nat /\ s.bytes[a - offset + 1] \in Nat
      BY <2>1
    <3> HIDE DEF bytes
    <3> QED
      BY <2>2, <3>1
  <2>5. image \in Images
    <3> HIDE DEF image
    <3> QED
      BY <2>4 DEF Images
  <2>6. some \in BOOLEAN
    BY DEF Datas
  <2> HIDE DEF image, some
  <2>7. u \in Datas
    BY <2>6 DEF Datas
  <2> HIDE DEF u
  <2>8. w \in Datas
    BY <2>5, <2>7 DEF Datas
  <2>9. [x EXCEPT !.lower = some, !.memory = image] = w
    BY DEF u, Datas
  <2> HIDE DEF w
  <2> QED
    BY <1>2, <2>3, <2>8, <2>9
<1> QED
  BY <1>3, <1>4

LEMMA DataSectionsIn ==
  ASSUME NEW c \in Datas, NEW s, SectionFits(s)
  PROVE  /\ s.id = Id.memory => MemorySection(c, s) \in Datas
         /\ s.id = Id.global => GlobalSection(c, s) \in Datas
         /\ s.id = Id.data => DataSection(c, s) \in Datas
<1>1. /\ Refused(c, "ONLY_ONE_MEMORY_IS_SUPPORTED") \in Datas
      /\ Refused(c, "abort") \in Datas
      /\ Refused(c, "TO_MANY_GLOBALS") \in Datas
      /\ Refused(c, "TO_MANY_DATA_SEGMENTS") \in Datas
  <2>1. \A r \in Results : Refused(c, r) \in Datas
    BY DataRefused
  <2> QED
    BY <2>1 DEF Results
<1>2. ASSUME s.id \in {Id.global, Id.data}
      PROVE  Items(c, s) \in Datas
  <2>1. ASSUME NEW i \in 1..Len(s.vec), NEW x \in Datas
        PROVE  Item(s, x, i) \in Datas
    <3>1. s.vec[i] \in Elements(s.id)
      BY VectorIn
    <3>2. CASE s.id = Id.global
      BY <3>1, <3>2, ItemIs, GlobalEntryIn, ElementKinds
    <3>3. CASE s.id = Id.data
      BY <3>1, <3>3, ItemIs, SegmentIn
    <3> QED
      BY <1>2, <3>2, <3>3
  <2> QED
    BY <2>1, VectorIn, ItemsIn
<1>3. ASSUME s.id = Id.memory
      PROVE  MemorySection(c, s) \in Datas
  <2> DEFINE m == s.vec[1]
             p == m.pages
             q == m.max
             u == [c EXCEPT !.pages = p]
             d == [u EXCEPT !.maximum = MaxPages]
             w == [d EXCEPT !.maximum = q]
  <2>1. CASE Len(s.vec) # 1
    BY <1>1, <2>1 DEF MemorySection
  <2>2. CASE Len(s.vec) = 1
    <3>1. p \in Nat /\ q \in Int
      <4>1. m \in Elements(Id.memory)
        BY <1>3, <2>2, VectorIn
      <4> HIDE DEF m
      <4> QED
        BY <4>1, ElementKinds
    <3>2. MemorySection(c, s) \in
            {Refused(c, "ONLY_ONE_MEMORY_IS_SUPPORTED"),
             [c EXCEPT !.pages = p, !.maximum = MaxPages],
             Refused([c EXCEPT !.pages = p, !.maximum = MaxPages],
                     "TO_MUCH_MEMORY_REQUESTED"),
             [[c EXCEPT !.pages = p, !.maximum = MaxPages]
                EXCEPT !.maximum = q]}
      BY DEF MemorySection
    <3> HIDE DEF p, q
    <3>3. u \in Datas
      BY <3>1 DEF Datas
    <3>4. [c EXCEPT !.pages = p, !.maximum = MaxPages] = d
      BY DEF Datas
    <3> HIDE DEF u
    <3>5. d \in Datas
      <4>1. MaxPages \in Int
        BY LoaderFacts
      <4> QED
        BY <3>3, <4>1 DEF Datas
    <3> HIDE DEF d
    <3>6. w \in Datas
      BY <3>1, <3>5 DEF Datas
    <3>7. Refused(d, "TO_MUCH_MEMORY_REQUESTED") \in Datas
      BY <3>5, DataRefused DEF Results
    <3> QED
      BY <1>1, <3>2, <3>4, <3>5, <3>6, <3>7
  <2> QED
    BY <2>1, <2>2
<1>4. ASSUME s.id = Id.global
      PROVE  GlobalSection(c, s) \in Datas
  BY <1>1, <1>2, <1>4 DEF GlobalSection
<1>5. ASSUME s.id = Id.data
      PROVE  DataSection(c, s) \in Datas
  BY <1>1, <1>2, <1>5 DEF DataSection
<1> QED
  BY <1>3, <1>4, <1>5

LEMMA DataPassSectionIn ==
  ASSUME NEW c \in Datas, NEW s, SectionFits(s)
  PROVE  DataPassSection(c, s) \in Datas
<1> DEFINE parsed ==
             CASE s.id = Id.memory -> MemorySection(c, s)
               [] s.id = Id.global -> GlobalSection(c, s)
               [] s.id = Id.data   -> DataSection(c, s)
               [] s.id \in 0..12 \ {Id.memory, Id.global, Id.data} -> c
               [] OTHER               -> Refused(c, "UNKNOWN_SECTION")
<1>1. Refused(c, "UNKNOWN_SECTION") \in Datas
  BY DataRefused DEF Results
<1>2. parsed \in Datas
  BY <1>1, DataSectionsIn, IdIs
<1> HIDE DEF parsed
<1>3. Refused(parsed, "MISALLIGNED_SECTION") \in Datas
  BY <1>2, DataRefused DEF Results
<1>4. DataPassSection(c, s) \in {parsed, Refused(parsed, "MISALLIGNED_SECTION")}
  BY DEF DataPassSection, parsed
<1> QED
  BY <1>2, <1>3, <1>4

-----------------------------------------------------------------------------
(* The two passes *)

LEMMA RegisteredName ==
  ASSUME NEW k \in 1..Len(Available)
  PROVE  /\ ImportName(Available[k][1], Available[k][2]) \in Words
         /\ Len(ImportName(Available[k][1], Available[k][2])) <= MaxKeySize
BY LoaderAssumption DEF Words

LEMMA StepsGrow ==
  ASSUME IInv, [Next]_vars
  PROVE  /\ prog' \in Programs /\ Ordered(prog')
         /\ Content(prog.available.array) \subseteq Content(prog'.available.array)
         /\ Content(prog.exported.array) \subseteq Content(prog'.exported.array)
<1>1. prog \in Programs /\ Ordered(prog)
  BY DEF IInv
<1>2. ASSUME Register
      PROVE  /\ prog' \in Programs /\ Ordered(prog')
             /\ Content(prog.available.array)
                  \subseteq Content(prog'.available.array)
             /\ prog'.exported = prog.exported
  <2> DEFINE k == next
             name == ImportName(Available[k][1], Available[k][2])
             ptr == <<k>>
             l == prog.available
             m == Put(l, name, ptr)
  <2>1. k \in 1..Len(Available) /\ k \in Nat
    <3>1. Len(Available) \in Nat
      BY LoaderAssumption
    <3> QED
      BY <1>2, <3>1 DEF Register, IInv
  <2>2. prog' = [prog EXCEPT !.available = m]
    BY <1>2 DEF Register
  <2>3. name \in Words /\ Len(name) <= MaxKeySize
    BY <2>1, RegisteredName
  <2>4. ptr \in Words /\ ptr # Null
    BY <2>1 DEF Words, Null
  <2> HIDE DEF name, ptr
  <2>5. l \in Lists
    BY <1>1 DEF Programs
  <2> DEFINE Q(after) ==
               /\ after \in Lists
               /\ IF Find(l, name) # Null
                  THEN Content(after.array) = Content(l.array)
                  ELSE Content(after.array) =
                         Content(l.array) \cup {[key |-> name, ptr |-> ptr]}
  <2>6. Q(m)
    <3> HIDE DEF l
    <3> QED
      BY <2>3, <2>4, <2>5, PutDoes
  <2> HIDE DEF m
  <2>7. m \in Lists /\ Content(l.array) \subseteq Content(m.array)
    BY <2>6
  <2>8. /\ prog' \in Programs /\ prog'.available = m
        /\ prog'.exported = prog.exported
    BY <1>1, <2>2, <2>7 DEF Programs
  <2>9. /\ prog'.functions = prog.functions /\ prog'.imported = prog.imported
        /\ prog'.array = prog.array
    BY <1>1, <2>2 DEF Programs
  <2>10. Ordered(prog')
    BY <1>1, <2>9 DEF Ordered
  <2> QED
    BY <2>7, <2>8, <2>10
<1>3. ASSUME ParseProgSection
      PROVE  prog' \in Grown(prog)
  <2> DEFINE s == file.sections[next]
  <2>1. SectionFits(s)
    <3>1. next \in 1..Len(file.sections) /\ Decoded(file)
      BY <1>3 DEF ParseProgSection, IInv, Decoded
    <3> QED
      BY <3>1, SectionOf
  <2>2. prog' = ProgSection(prog, s)
    BY <1>3 DEF ParseProgSection
  <2> HIDE DEF s
  <2> QED
    BY <1>1, <2>1, <2>2, ProgSectionIn
<1>4. CASE UNCHANGED prog
  <2>1. prog' = prog
    BY <1>4
  <2> QED
    BY <1>1, <2>1
<1>5. Register \/ ParseProgSection \/ UNCHANGED prog
  BY DEF Next, vars, OpenFile, ProgramParsed, ParseDataSection, DataParsed
<1>6. CASE Register
  BY <1>2, <1>6
<1>7. CASE ParseProgSection
  BY <1>3, <1>7 DEF Grown
<1> QED
  BY <1>4, <1>5, <1>6, <1>7

LEMMA StepsKeepData ==
  ASSUME IInv, [Next]_vars
  PROVE  data' \in Datas
<1>1. data \in Datas
  BY DEF IInv
<1>2. CASE ParseDataSection
  <2> DEFINE s == file.sections[next]
  <2>1. SectionFits(s)
    <3>1. next \in 1..Len(file.sections) /\ Decoded(file)
      BY <1>2 DEF ParseDataSection, IInv, Decoded
    <3> QED
      BY <3>1, SectionOf
  <2>2. data' = DataPassSection(data, s)
    BY <1>2 DEF ParseDataSection
  <2> HIDE DEF s
  <2> QED
    BY <1>1, <2>1, <2>2, DataPassSectionIn
<1>3. CASE DataParsed
  <2> DEFINE k == prog.start
             y == [data EXCEPT !.call = k]
  <2>1. k \in Int
    BY DEF IInv, Programs
  <2>2. y \in Datas
    <3> HIDE DEF k
    <3> QED
      BY <1>1, <2>1 DEF Datas
  <2>3. Refused(data, "IMPORTED_FUNC_AS_START") \in Datas
    BY <1>1, DataRefused DEF Results
  <2>4. StartSetUp(data) \in {data, Refused(data, "IMPORTED_FUNC_AS_START"), y}
    BY DEF StartSetUp
  <2>5. data' = StartSetUp(data)
    BY <1>3 DEF DataParsed
  <2> HIDE DEF y
  <2> QED
    BY <1>1, <2>2, <2>3, <2>4, <2>5
<1>4. CASE UNCHANGED data
  BY <1>1, <1>4
<1>5. ParseDataSection \/ DataParsed \/ UNCHANGED data
  BY DEF Next, vars, Register, OpenFile, ParseProgSection, ProgramParsed
<1> QED
  BY <1>2, <1>3, <1>4, <1>5

LEMMA Appended ==
  ASSUME NEW rs \in Seq(Results), NEW r \in Results
  PROVE  Append(rs, r) \in Seq(Results) /\ Len(Append(rs, r)) = Len(rs) + 1
<1> DEFINE R == Results
<1>1. rs \in Seq(R) /\ r \in R
  OBVIOUS
<1> HIDE DEF R
<1>2. Append(rs, r) \in Seq(R) /\ Len(Append(rs, r)) = Len(rs) + 1
  BY <1>1, AppendProperties
<1> QED
  BY <1>2 DEF R

Control ==
  stage \in Stages /\ next \in Nat /\ next > 0 /\ Decoded(file) /\ ResultsFit

LEMMA GoesOn ==
  ASSUME Control, NEW c, c.result \in Results, UNCHANGED file,
         \/ stage = "program" /\ Goes(c, "data")
         \/ stage = "data" /\ Goes(c, "loaded")
  PROVE  Control'
<1>1. /\ next \in Nat /\ next > 0 /\ Decoded(file)
      /\ result \in Seq(Results) /\ Len(result) \in Nat
      /\ stage = "program" => Len(result) = 0
      /\ stage = "data" => Len(result) <= 1
  BY DEF Control, ResultsFit
<1>2. Decoded(file')
  <2>1. file' = file
    OBVIOUS
  <2> QED
    BY <1>1, <2>1
<1>3. CASE c.result = "OK"
  <2>1. next' = next + 1 /\ stage' = stage /\ result' = result
    BY <1>3 DEF Goes
  <2> QED
    BY <1>1, <1>2, <2>1 DEF Control, ResultsFit, Stages
<1>4. CASE c.result = "abort"
  <2>1. next' = next /\ stage' = "abort" /\ result' = result
    BY <1>4 DEF Goes
  <2> QED
    BY <1>1, <1>2, <2>1 DEF Control, ResultsFit, Stages
<1>5. CASE c.result \notin {"OK", "abort"}
  <2>1. /\ next' = 1 /\ result' = Append(result, c.result)
        /\ stage' = IF stage = "program" THEN "data" ELSE "loaded"
    BY <1>5 DEF Goes
  <2>2. result' \in Seq(Results) /\ Len(result') = Len(result) + 1
    BY <1>1, <2>1, Appended
  <2> QED
    BY <1>1, <1>2, <2>1, <2>2 DEF Control, ResultsFit, Stages
<1> QED
  BY <1>3, <1>4, <1>5

LEMMA ControlKept ==
  ASSUME IInv, [Next]_vars, prog' \in Programs, data' \in Datas
  PROVE  Control'
<1>1. Control
  BY DEF IInv, Control
<1>2. CASE Register \/ UNCHANGED vars
  <2>1. /\ stage' = stage /\ result' = result /\ file' = file
        /\ next' \in {next, next + 1}
    BY <1>2 DEF Register, vars
  <2>2. Decoded(file')
    BY <1>1, <2>1 DEF Control
  <2> QED
    BY <1>1, <2>1, <2>2 DEF Control, ResultsFit
<1>3. CASE OpenFile
  <2>1. stage = "register" /\ file' \in Files /\ next' = 1
    BY <1>3 DEF OpenFile
  <2>2. Decoded(file')
    BY <2>1, LoaderAssumption
  <2>3. result \in Seq(Results) /\ Len(result) = 0
    BY <1>1, <2>1 DEF Control, ResultsFit
  <2>4. CASE file'.magic
    <3>1. stage' = "program" /\ result' = result
      BY <1>3, <2>4 DEF OpenFile
    <3> QED
      BY <2>1, <2>2, <2>3, <3>1 DEF Control, ResultsFit, Stages
  <2>5. CASE ~file'.magic
    <3> DEFINE r == "NOT_WEBASM_OR_SUPPORTED_VERSION"
    <3>1. stage' = "data" /\ result' = <<r>>
      BY <1>3, <2>5 DEF OpenFile
    <3>2. r \in Results
      BY DEF Results
    <3>3. result' \in Seq(Results) /\ Len(result') = 1
      <4> HIDE DEF r
      <4> QED
        BY <3>1, <3>2
    <3> QED
      BY <2>1, <2>2, <3>1, <3>3 DEF Control, ResultsFit, Stages
  <2> QED
    BY <2>4, <2>5
<1>4. CASE ParseProgSection
  <2>1. prog'.result \in Results
    BY DEF Programs
  <2>2. stage = "program" /\ Goes(prog', "data") /\ file' = file
    BY <1>4 DEF ParseProgSection
  <2> QED
    BY <1>1, <2>1, <2>2, GoesOn
<1>5. CASE ParseDataSection
  <2>1. data'.result \in Results
    BY DEF Datas
  <2>2. stage = "data" /\ Goes(data', "loaded") /\ file' = file
    BY <1>5 DEF ParseDataSection
  <2> QED
    BY <1>1, <2>1, <2>2, GoesOn
<1>6. ASSUME NEW r \in Results, next' = 1, file' = file,
             result' = Append(result, r),
             \/ stage = "program" /\ stage' = "data"
             \/ stage = "data" /\ stage' = "loaded"
      PROVE  Control'
  <2>1. /\ result \in Seq(Results) /\ Len(result) \in Nat
        /\ stage = "program" => Len(result) = 0
        /\ stage = "data" => Len(result) <= 1
    BY <1>1 DEF Control, ResultsFit
  <2>2. result' \in Seq(Results) /\ Len(result') = Len(result) + 1
    BY <1>6, <2>1, Appended
  <2>3. Decoded(file')
    BY <1>1, <1>6 DEF Control
  <2> QED
    BY <1>6, <2>1, <2>2, <2>3 DEF Control, ResultsFit, Stages
<1>7. CASE ProgramParsed
  <2>1. "OK" \in Results
    BY DEF Results
  <2>2. /\ next' = 1 /\ file' = file /\ result' = Append(result, "OK")
        /\ stage = "program" /\ stage' = "data"
    BY <1>7 DEF ProgramParsed
  <2> QED
    BY <1>6, <2>1, <2>2
<1>8. CASE DataParsed
  <2>1. data'.result \in Results
    BY DEF Datas
  <2>2. /\ next' = 1 /\ file' = file /\ result' = Append(result, data'.result)
        /\ stage = "data" /\ stage' = "loaded"
    BY <1>8 DEF DataParsed
  <2> QED
    BY <1>6, <2>1, <2>2
<1> QED
  BY <1>2, <1>3, <1>4, <1>5, <1>7, <1>8 DEF Next

LEMMA InitIInv ==
  ASSUME Init
  PROVE  IInv
<1>1. NoProg \in Programs
  <2>1. <<>> \in Seq(Signatures) /\ <<>> \in Seq(Functions) /\ <<>> \in Seq(Nat)
    OBVIOUS
  <2>2. EmptyList \in Lists /\ NoStart \in Int /\ "OK" \in Results
    BY EmptyListIs DEF NoStart, Results
  <2> QED
    BY <2>1, <2>2 DEF NoProg, Programs
<1>2. Ordered(NoProg)
  BY DEF Ordered, NoProg
<1>3. NoData \in Datas
  <2>1. <<>> \in [{} -> Nat] /\ {} \in SUBSET Nat
    OBVIOUS
  <2>2. <<>> \in Images
    BY <2>1 DEF Images
  <2>3. NoStart \in Int /\ "OK" \in Results /\ <<>> \in Seq(Nat)
    BY DEF NoStart, Results
  <2> QED
    BY <2>2, <2>3 DEF NoData, Datas
<1>4. Decoded(NoFile)
  BY DEF Decoded, NoFile
<1>5. ResultsFit
  <2>1. result = <<>> /\ stage = "register"
    BY DEF Init
  <2> QED
    BY <2>1 DEF ResultsFit
<1> QED
  BY <1>1, <1>2, <1>3, <1>4, <1>5 DEF Init, IInv, Stages

LEMMA StepIInv ==
  ASSUME IInv, [Next]_vars
  PROVE  IInv'
<1>1. prog' \in Programs /\ Ordered(prog')
  BY StepsGrow
<1>2. data' \in Datas
  BY StepsKeepData
<1>3. Control'
  BY <1>1, <1>2, ControlKept
<1> QED
  BY <1>1, <1>2, <1>3 DEF IInv, Control

LEMMA AlwaysIInv == Spec => []IInv
BY InitIInv, StepIInv, PTL DEF Spec

LEMMA ListIsOK ==
  ASSUME NEW l \in Lists
  PROVE  ListOK(l)
<1>1. /\ l.array \in [0..l.capacity - 1 -> Entry]
      /\ l.size = Cardinality(Used(l.array)) /\ 2 * l.size <= l.capacity
  BY ListFacts DEF Sound
<1> QED
  BY <1>1 DEF ListOK, Used

LEMMA IInvTypeOK ==
  ASSUME IInv
  PROVE  TypeOK
<1>1. ListOK(prog.available) /\ ListOK(prog.exported)
  BY ListIsOK DEF IInv, Programs
<1>2. /\ prog.imported <= Len(prog.functions)
      /\ \A i \in DOMAIN prog.functions :
           prog.functions[i].kind =
             (IF i <= prog.imported THEN "imported" ELSE "internal")
  <2>1. prog.functions \in Seq(Functions) /\ Ordered(prog)
    BY DEF IInv, Programs
  <2>2. DOMAIN prog.functions = 1..Len(prog.functions)
    BY <2>1
  <2> QED
    BY <2>1, <2>2 DEF Ordered
<1>3. data.pages \in Nat /\ DOMAIN data.memory \subseteq Nat
  <2>1. data.pages \in Nat /\ data.memory \in Images
    BY DEF IInv, Datas
  <2>2. PICK S \in SUBSET Nat : data.memory \in [S -> Nat]
    BY <2>1 DEF Images
  <2> QED
    BY <2>1, <2>2
<1>4. stage \in {"register", "program", "data", "loaded", "abort"}
      /\ Len(result) <= 2
  BY DEF IInv, ResultsFit, Stages
<1> QED
  BY <1>1, <1>2, <1>3, <1>4 DEF TypeOK

(* The types of the state: whatever a file holds and whatever is refused   *)
(* of it, imports stand before the other functions, and both hash lists    *)
(* are at most half full, so that every search in them ends.  Code:        *)
(* dwac_parse_prog_sections, dwac_parse_data_sections and                  *)
(* dwac_hash_list_put.                                                     *)
THEOREM TypeCorrect == Spec => []TypeOK
BY AlwaysIInv, IInvTypeOK, PTL

LEMMA GrownKeeps ==
  ASSUME NEW l \in Lists, NEW m \in Lists,
         Content(l.array) \subseteq Content(m.array)
  PROVE  Keeps(l, m)
<1> SUFFICES ASSUME NEW n \in Names(l)
             PROVE  Find(l, n) = Find(m, n)
  BY DEF Keeps
<1>1. PICK i \in DOMAIN l.array : n = l.array[i].key /\ n # <<>>
  BY DEF Names
<1>2. l.array \in [0..l.capacity - 1 -> Entry] /\ Sound(l.array, l.capacity)
  BY ListFacts DEF Sound
<1>3. i \in 0..l.capacity - 1 /\ l.array[i] \in Entry
  BY <1>1, <1>2
<1>4. l.array[i].ptr # Null
  <2>1. l.array[i].ptr = Null => l.array[i] = Free
    BY <1>2, <1>3 DEF Sound
  <2>2. Free.key = <<>>
    BY DEF Free
  <2> QED
    BY <1>1, <2>1, <2>2
<1>5. i \in Used(l.array)
  BY <1>1, <1>4 DEF Used
<1>6. n \in Words /\ Len(n) <= MaxKeySize
  BY <1>1, <1>2, <1>3, <1>5 DEF Sound, Entry
<1>7. ~Absent(l.array, n)
  BY <1>1, <1>5 DEF Absent
<1>8. Find(l, n) # Null
  <2>1. PICK e \in Content(l.array) : Find(l, n) = e.ptr
    BY <1>6, <1>7, FindIs
  <2> QED
    BY <2>1 DEF Content, Used
<1> QED
  BY <1>6, <1>8, MoreKeeps

(* A name that has once been found in a hash list is found with the same   *)
(* pointer for good, for any file and any names, however often the list is *)
(* doubled and every entry entered anew.  Code: dwac_hash_list_put.        *)
THEOREM NamesStay == Spec => NamesKept
<1>1. ASSUME IInv, [Next]_vars
      PROVE  [/\ Keeps(prog.available, prog'.available)
              /\ Keeps(prog.exported, prog'.exported)]_vars
  <2>1. prog.available \in Lists /\ prog.exported \in Lists
    BY <1>1 DEF IInv, Programs
  <2>2. prog'.available \in Lists /\ prog'.exported \in Lists
    BY <1>1, StepsGrow DEF Programs
  <2> QED
    BY <1>1, <2>1, <2>2, StepsGrow, GrownKeeps
<1> QED
  BY <1>1, AlwaysIInv, PTL DEF Spec, NamesKept

-----------------------------------------------------------------------------
(* Valid files.  Seen(f, k, id): one of the first k sections has this      *)
(* number.  What there is of a kind is what its only section holds.        *)

Seen(f, k, id) == \E j \in 1..k : f.sections[j].id = id

LEMMA NameOfId ==
  /\ Id["type"] = 1 /\ Id["import"] = 2 /\ Id["function"] = 3
  /\ Id["table"] = 4 /\ Id["memory"] = 5 /\ Id["global"] = 6
  /\ Id["export"] = 7 /\ Id["start"] = 8 /\ Id["element"] = 9
  /\ Id["code"] = 10 /\ Id["data"] = 11
BY DEF Id

LEMMA JoinedSteps ==
  ASSUME NEW f, Decoded(f), NEW name
  PROVE  /\ Joined(f, name)[0] = <<>>
         /\ \A k \in 1..Len(f.sections) :
              Joined(f, name)[k] =
                IF f.sections[k].id = Id[name]
                THEN Joined(f, name)[k - 1] \o f.sections[k].vec
                ELSE Joined(f, name)[k - 1]
<1> DEFINE n == Len(f.sections)
           E == Elements(Id[name])
           V == Seq(E)
           Turn(x, k) == IF f.sections[k].id = Id[name]
                         THEN x \o f.sections[k].vec ELSE x
           Eq(h) == h = [k \in 0..n |->
                           IF k = 0 THEN <<>>
                           ELSE IF f.sections[k].id = Id[name]
                                THEN h[k - 1] \o f.sections[k].vec
                                ELSE h[k - 1]]
           F == [k \in 1..n |-> [x \in V |-> Turn(x, k)]]
           w == CHOOSE h : Eq(h)
<1>1. Joined(f, name) = w
  BY DEF Joined
<1>2. n \in Nat /\ <<>> \in V /\ \A k \in 1..n : \A x \in V : Turn(x, k) \in V
  <2>1. ASSUME NEW k \in 1..n, NEW x \in V
        PROVE  Turn(x, k) \in V
    <3> DEFINE t == f.sections[k].vec
    <3>1. CASE f.sections[k].id = Id[name]
      <4>1. t \in V
        BY <3>1 DEF Decoded
      <4> HIDE DEF t, E
      <4>2. x \o t \in V
        BY <4>1, ConcatProperties
      <4> QED
        BY <3>1, <4>2 DEF t
    <3>2. CASE f.sections[k].id # Id[name]
      BY <3>2
    <3> QED
      BY <3>1, <3>2
  <2> QED
    BY <2>1 DEF Decoded
<1>3. \A h : Eq(h) <=> h = [k \in 0..n |-> IF k = 0 THEN <<>>
                                          ELSE Turn(h[k - 1], k)]
  OBVIOUS
<1> HIDE DEF n, V, Turn, Eq
<1>4. Steps(F, n, V)
  BY <1>2 DEF Steps
<1>5. PICK g : Runs(g, <<>>, F, n, V)
  <2> HIDE DEF F
  <2> QED
    BY <1>2, <1>4, Recursion
<1>6. Eq(g)
  <2>1. g \in [0..n -> V] /\ g[0] = <<>>
    BY <1>5 DEF Runs
  <2>2. ASSUME NEW k \in 0..n, k # 0
        PROVE  g[k] = Turn(g[k - 1], k)
    <3>1. k \in 1..n /\ k - 1 \in 0..n
      BY <1>2, <2>2
    <3>2. g[k - 1] \in V
      BY <2>1, <3>1
    <3>3. g[k] = F[k][g[k - 1]]
      <4> HIDE DEF F
      <4> QED
        BY <1>5, <3>1 DEF Runs
    <3> QED
      BY <3>1, <3>2, <3>3
  <2>3. g = [k \in 0..n |-> IF k = 0 THEN <<>> ELSE Turn(g[k - 1], k)]
    BY <2>1, <2>2
  <2> QED
    BY <1>3, <2>3
<1>7. Eq(w)
  BY <1>6
<1> HIDE DEF w
<1>8. w = [k \in 0..n |-> IF k = 0 THEN <<>> ELSE Turn(w[k - 1], k)]
  BY <1>3, <1>7
<1>9. w[0] = <<>>
  BY <1>2, <1>8
<1>10. ASSUME NEW k \in 1..n
       PROVE  w[k] = Turn(w[k - 1], k)
  <2>1. k \in 0..n /\ k # 0
    BY <1>2
  <2> QED
    BY <1>8, <2>1
<1> QED
  BY <1>1, <1>9, <1>10 DEF n, Turn

(* Where no section of the kind has been seen there is nothing of it. *)
LEMMA NothingSeen ==
  ASSUME NEW f, Decoded(f), NEW name, NEW k \in 0..Len(f.sections),
         ~Seen(f, k, Id[name])
  PROVE  Joined(f, name)[k] = <<>>
<1> DEFINE J == Joined(f, name)
           S == {i \in 0..k : J[i] = <<>>}
<1>0. k \in Nat /\ k <= Len(f.sections) /\ Len(f.sections) \in Nat
  BY DEF Decoded
<1>1. J[0] = <<>> /\ \A i \in 1..Len(f.sections) :
                       f.sections[i].id # Id[name] => J[i] = J[i - 1]
  BY JoinedSteps
<1> HIDE DEF J
<1>2. 0 \in S
  BY <1>0, <1>1
<1>3. ASSUME NEW i \in 0..(k - 1), i \in S
      PROVE  i + 1 \in S
  <2>1. i + 1 \in 1..k /\ i + 1 \in 1..Len(f.sections) /\ (i + 1) - 1 = i
    BY <1>0
  <2>2. f.sections[i + 1].id # Id[name]
    BY <2>1 DEF Seen
  <2>3. J[i + 1] = J[(i + 1) - 1]
    BY <1>1, <2>1, <2>2
  <2> QED
    BY <1>0, <1>3, <2>1, <2>3
<1>4. 0..k \subseteq S
  <2> HIDE DEF S
  <2> QED
    BY <1>0, <1>2, <1>3, UpTo
<1> QED
  BY <1>0, <1>4 DEF J

LEMMA PlaceIs ==
  /\ Place(1) = 1 /\ Place(2) = 2 /\ Place(3) = 3 /\ Place(4) = 4
  /\ Place(5) = 5 /\ Place(6) = 6 /\ Place(7) = 7 /\ Place(8) = 8
  /\ Place(9) = 9 /\ Place(10) = 11 /\ Place(11) = 12 /\ Place(12) = 10
BY IdIs DEF Place

LEMMA WellFormedFacts ==
  ASSUME NEW f, Decoded(f), Valid(f), NEW i \in 1..Len(f.sections)
  PROVE  /\ f.sections[i].fits /\ f.sections[i].id \in 0..12
         /\ f.sections[i].id # 0 => Len(f.sections[i].vec) <= MaxNof
         /\ f.sections[i].id \in {3, 4, 5} => f.sections[i].vec # <<>>
<1>1. WellFormed(f)
  BY DEF Valid
<1>2. f.sections[i].id # 0 =>
        f.sections[i].id \in 1..12 /\ Len(f.sections[i].vec) <= MaxNof
  BY <1>1, IdIs DEF WellFormed
<1>3. f.sections[i].id \in {3, 4, 5} => f.sections[i].vec # <<>>
  BY <1>1, IdIs DEF WellFormed
<1>4. f.sections[i].fits
  BY <1>1 DEF WellFormed
<1> QED
  BY <1>2, <1>3, <1>4

LEMMA InOrder ==
  ASSUME NEW f, Decoded(f), Valid(f), NEW i \in 1..Len(f.sections),
         NEW j \in 1..Len(f.sections), f.sections[i].id # 0,
         f.sections[j].id # 0, i < j
  PROVE  Place(f.sections[i].id) < Place(f.sections[j].id)
<1>1. WellFormed(f)
  BY DEF Valid
<1> QED
  BY <1>1, IdIs DEF WellFormed

LEMMA PlaceInt ==
  ASSUME NEW id \in 1..12
  PROVE  Place(id) \in 1..12
<1>1. id \in {1, 2, 3, 4, 5, 6, 7, 8, 9, 10, 11, 12}
  OBVIOUS
<1> QED
  BY <1>1, PlaceIs

LEMMA SectionId ==
  ASSUME NEW f, Decoded(f), Valid(f), NEW i \in 1..Len(f.sections),
         f.sections[i].id # 0
  PROVE  f.sections[i].id \in 1..12 /\ Place(f.sections[i].id) \in 1..12
<1> DEFINE id == f.sections[i].id
<1>1. id \in 0..12 /\ id # 0
  BY WellFormedFacts
<1> HIDE DEF id
<1>2. id \in 1..12
  BY <1>1
<1>3. Place(id) \in 1..12
  BY <1>2, PlaceInt
<1> QED
  BY <1>2, <1>3 DEF id

(* What stands behind a section, or is of its kind, has not been seen. *)
LEMMA NotYetSeen ==
  ASSUME NEW f, Decoded(f), Valid(f), NEW i \in 1..Len(f.sections),
         NEW id \in 1..12, f.sections[i].id # 0,
         Place(id) >= Place(f.sections[i].id)
  PROVE  ~Seen(f, i - 1, id)
<1>1. SUFFICES ASSUME NEW j \in 1..(i - 1), f.sections[j].id = id
               PROVE  FALSE
  BY DEF Seen
<1>2. j \in 1..Len(f.sections) /\ j < i
  BY DEF Decoded
<1>3. Place(f.sections[i].id) \in Int /\ Place(id) \in Int
  <2>1. Place(f.sections[i].id) \in 1..12
    BY SectionId
  <2>2. Place(id) \in 1..12
    BY PlaceInt
  <2> QED
    BY <2>1, <2>2
<1>4. Place(id) < Place(f.sections[i].id)
  <2>1. f.sections[j].id # 0
    BY <1>1
  <2>2. Place(f.sections[j].id) < Place(f.sections[i].id)
    BY <1>2, <2>1, InOrder
  <2> QED
    BY <1>1, <2>2
<1> DEFINE p == Place(id)
           q == Place(f.sections[i].id)
<1>5. p \in Int /\ q \in Int /\ p < q /\ p >= q
  BY <1>3, <1>4
<1> HIDE DEF p, q
<1> QED
  BY <1>5

(* What stands before a section has been seen, or there is nothing of it.  *)
LEMMA AlreadySeen ==
  ASSUME NEW f, Decoded(f), Valid(f), NEW i \in 1..Len(f.sections),
         NEW name, Id[name] \in 1..12, f.sections[i].id # 0,
         Place(Id[name]) < Place(f.sections[i].id),
         ~Seen(f, i - 1, Id[name])
  PROVE  Vec(f, name) = <<>>
<1> DEFINE n == Len(f.sections)
<1>1. n \in Nat /\ n \in 0..n
  BY DEF Decoded
<1>2. ~Seen(f, n, Id[name])
  <2>1. SUFFICES ASSUME NEW j \in 1..n, f.sections[j].id = Id[name]
                 PROVE  FALSE
    BY DEF Seen
  <2>2. i <= j
    <3>1. ~(j \in 1..(i - 1))
      BY <2>1 DEF Seen
    <3> QED
      BY <1>1, <3>1
  <2> DEFINE p == Place(f.sections[i].id)
             q == Place(f.sections[j].id)
  <2>3. f.sections[j].id # 0
    BY <2>1
  <2>4. p \in Int /\ q \in Int /\ q < p
    BY <2>1, <2>3, SectionId
  <2>5. i # j
    <3> HIDE DEF p, q
    <3>1. p # q
      BY <2>4
    <3> QED
      BY <3>1 DEF p, q
  <2>6. p < q
    <3>1. i < j
      BY <1>1, <2>2, <2>5
    <3> QED
      BY <2>3, <3>1, InOrder
  <2> HIDE DEF p, q
  <2> QED
    BY <2>4, <2>6
<1> QED
  BY <1>1, <1>2, NothingSeen DEF Vec

LEMMA NothingAtAll ==
  ASSUME NEW f, Decoded(f), NEW name, ~Seen(f, Len(f.sections), Id[name])
  PROVE  Vec(f, name) = <<>>
<1>1. Len(f.sections) \in 0..Len(f.sections)
  BY DEF Decoded
<1> QED
  BY <1>1, NothingSeen DEF Vec

LEMMA OneSection ==
  ASSUME NEW f, Decoded(f), Valid(f), NEW i \in 1..Len(f.sections),
         NEW name, Id[name] \in 1..12, f.sections[i].id = Id[name]
  PROVE  Vec(f, name) = f.sections[i].vec
<1> DEFINE n == Len(f.sections)
           J == Joined(f, name)
           v == f.sections[i].vec
           S == {k \in 0..(n - i) : J[i + k] = v}
<1>0. n \in Nat /\ i \in 1..n
  BY DEF Decoded
<1>1. /\ J[i] = J[i - 1] \o v
      /\ \A k \in 1..n : f.sections[k].id # Id[name] => J[k] = J[k - 1]
  <2>1. \A k \in 1..n : J[k] = IF f.sections[k].id = Id[name]
                               THEN J[k - 1] \o f.sections[k].vec
                               ELSE J[k - 1]
    BY JoinedSteps
  <2> HIDE DEF J
  <2> QED
    BY <1>0, <2>1
<1>2. J[i - 1] = <<>>
  <2>1. ~Seen(f, i - 1, Id[name])
    <3>1. f.sections[i].id # 0
      OBVIOUS
    <3>2. Place(Id[name]) >= Place(f.sections[i].id)
      <4>1. Place(f.sections[i].id) \in 1..12
        BY <3>1, SectionId
      <4> QED
        BY <4>1
    <3> QED
      BY <3>1, <3>2, NotYetSeen
  <2>2. i - 1 \in 0..n
    BY <1>0
  <2> QED
    BY <2>1, <2>2, NothingSeen
<1>3. <<>> \o v = v
  <2>1. v \in Seq(Elements(f.sections[i].id))
    BY DEF Decoded
  <2> HIDE DEF v
  <2> QED
    BY <2>1, ConcatEmptySeq
<1>4. \A k \in 1..n : k > i => f.sections[k].id # Id[name]
  <2>1. SUFFICES ASSUME NEW k \in 1..n, k > i, f.sections[k].id = Id[name]
                 PROVE  FALSE
    OBVIOUS
  <2> DEFINE p == Place(f.sections[i].id)
             q == Place(f.sections[k].id)
  <2>2. f.sections[i].id # 0 /\ f.sections[k].id # 0 /\ i < k
    <3>0. \A id \in 1..12 : id # 0
      OBVIOUS
    <3>1. f.sections[i].id # 0
      BY <3>0, Zenon
    <3>2. f.sections[k].id # 0
      BY <2>1, <3>0, Zenon
    <3>3. i < k
      BY <1>0, <2>1
    <3> QED
      BY <3>1, <3>2, <3>3
  <2>3. p < q
    BY <2>2, InOrder
  <2>4. p = q /\ p \in Int
    BY <2>1, <2>2, SectionId
  <2> HIDE DEF p, q
  <2> QED
    BY <2>3, <2>4
<1> HIDE DEF J, v, n
<1>5. 0 \in S
  BY <1>0, <1>1, <1>2, <1>3
<1>6. ASSUME NEW k \in 0..((n - i) - 1), k \in S
      PROVE  k + 1 \in S
  <2>1. i + (k + 1) \in 1..n /\ i + (k + 1) > i /\ (i + (k + 1)) - 1 = i + k
        /\ k + 1 \in 0..(n - i)
    BY <1>0
  <2>2. J[i + (k + 1)] = J[(i + (k + 1)) - 1]
    BY <1>1, <1>4, <2>1
  <2> QED
    BY <1>6, <2>1, <2>2
<1>7. n - i \in Nat
  BY <1>0
<1>8. 0..(n - i) \subseteq S
  <2> HIDE DEF S
  <2> QED
    BY <1>5, <1>6, <1>7, UpTo
<1>9. J[n] = v
  <2>1. n - i \in 0..(n - i) /\ i + (n - i) = n
    BY <1>0, <1>7
  <2> QED
    BY <1>8, <2>1
<1> QED
  BY <1>9 DEF Vec, J, n, v

LEMMA VecIn ==
  ASSUME NEW f, Decoded(f), Valid(f), NEW name, Id[name] \in 1..12
  PROVE  Vec(f, name) \in Seq(Elements(Id[name]))
<1>1. CASE Seen(f, Len(f.sections), Id[name])
  <2>1. PICK i \in 1..Len(f.sections) : f.sections[i].id = Id[name]
    BY <1>1 DEF Seen
  <2>2. Vec(f, name) = f.sections[i].vec
    BY <2>1, OneSection
  <2> QED
    BY <2>1, <2>2 DEF Decoded
<1>2. CASE ~Seen(f, Len(f.sections), Id[name])
  <2> DEFINE E == Elements(Id[name])
  <2>1. <<>> \in Seq(E)
    OBVIOUS
  <2> QED
    BY <1>2, <2>1, NothingAtAll
<1> QED
  BY <1>1, <1>2

LEMMA NofIs ==
  ASSUME NEW f, Decoded(f), Valid(f)
  PROVE  /\ NofImports(f) \in Nat /\ Len(Vec(f, "function")) \in Nat
         /\ Nof(f) = NofImports(f) + Len(Vec(f, "function"))
<1> DEFINE u == Vec(f, "import")
           v == Vec(f, "function")
           t == [i \in 1..Len(u) |-> u[i].type]
<1>1. u \in Seq(Elements(Id.import)) /\ v \in Seq(Nat)
  <2>1. Id["import"] = Id.import /\ Id.import \in 1..12
    BY NameOfId, IdIs
  <2>2. Id["function"] = Id.function /\ Id.function \in 1..12
    BY NameOfId, IdIs
  <2> HIDE DEF u, v
  <2>3. u \in Seq(Elements(Id.import))
    BY <2>1, VecIn DEF u
  <2>4. v \in Seq(Elements(Id.function))
    BY <2>2, VecIn DEF v
  <2> QED
    BY <2>3, <2>4, ElementKinds
<1>2. Nof(f) = Len(t \o v) /\ NofImports(f) = Len(u)
  BY DEF Nof, FuncTypes, NofImports
<1> HIDE DEF u, v
<1>3. Len(u) \in Nat /\ Len(v) \in Nat
  BY <1>1
<1>4. t \in Seq(Nat) /\ Len(t) = Len(u)
  <2>1. ASSUME NEW i \in 1..Len(u)
        PROVE  u[i].type \in Nat
    <3>1. u[i] \in Elements(Id.import)
      BY <1>1
    <3> QED
      BY <3>1, ElementKinds
  <2>2. t \in [1..Len(u) -> Nat]
    BY <2>1
  <2> HIDE DEF t
  <2> QED
    BY <1>3, <2>2
<1> HIDE DEF t
<1>5. Len(t \o v) = Len(t) + Len(v)
  BY <1>1, <1>4, ConcatProperties
<1> QED
  BY <1>2, <1>3, <1>4, <1>5 DEF v

(* The section number k of a valid file, by its kind *)
Stands(f, k, id) ==
  Decoded(f) /\ Valid(f) /\ k \in 1..Len(f.sections) /\ f.sections[k].id = id

LEMMA VecOf ==
  ASSUME NEW f, NEW k, NEW name, Stands(f, k, Id[name]), Id[name] \in 1..12
  PROVE  /\ Vec(f, name) = f.sections[k].vec
         /\ DOMAIN f.sections[k].vec = 1..Len(f.sections[k].vec)
         /\ Len(f.sections[k].vec) \in Nat
         /\ Len(f.sections[k].vec) <= MaxNof
         /\ SectionFits(f.sections[k])
<1>1. f.sections[k].vec \in Seq(Elements(f.sections[k].id))
  BY DEF Stands, Decoded
<1>2. SectionFits(f.sections[k])
  BY DEF Stands, Decoded, SectionFits
<1>3. Vec(f, name) = f.sections[k].vec
  BY OneSection DEF Stands
<1>4. Len(f.sections[k].vec) <= MaxNof
  <2>1. /\ Decoded(f) /\ Valid(f) /\ k \in 1..Len(f.sections)
        /\ f.sections[k].id = Id[name]
    BY DEF Stands
  <2>2. f.sections[k].id # 0
    BY <2>1
  <2> QED
    BY <2>1, <2>2, WellFormedFacts
<1> DEFINE E == Elements(f.sections[k].id)
           v == f.sections[k].vec
<1>5. DOMAIN v = 1..Len(v) /\ Len(v) \in Nat
  <2>1. v \in Seq(E)
    BY <1>1
  <2> HIDE DEF v, E
  <2> QED
    BY <2>1
<1> QED
  BY <1>2, <1>3, <1>4, <1>5

LEMMA ValidTypes ==
  ASSUME NEW f, NEW k, Stands(f, k, 1), NEW i \in 1..Len(f.sections[k].vec)
  PROVE  f.sections[k].vec[i].params <= 32 /\ f.sections[k].vec[i].results <= 8
<1> DEFINE v == f.sections[k].vec
<1>0. Vec(f, "type") = v /\ DOMAIN v = 1..Len(v)
  <2>1. Stands(f, k, Id["type"]) /\ Id["type"] \in 1..12
    BY NameOfId
  <2> QED
    BY <2>1, VecOf
<1>1. Vec(f, "type") = v /\ i \in DOMAIN v
  BY <1>0
<1>2. ValidFunctions(f)
  BY DEF Stands, Valid
<1>3. \A j \in DOMAIN Vec(f, "type") :
        Vec(f, "type")[j].params <= 32 /\ Vec(f, "type")[j].results <= 8
  BY <1>2 DEF ValidFunctions
<1> QED
  BY <1>1, <1>3

Provided(m) ==
  /\ m.kind = "func"
  /\ Len(m.module) + 1 + Len(m.field) <= MaxName
  /\ \E j \in 1..Len(Available) : Available[j] = <<m.module, m.field>>

LEMMA ValidImports ==
  ASSUME NEW f, NEW k, Stands(f, k, 2), NEW i \in 1..Len(f.sections[k].vec)
  PROVE  /\ Provided(f.sections[k].vec[i])
         /\ f.sections[k].vec[i].type \in 0..Len(Vec(f, "type")) - 1
<1> DEFINE v == f.sections[k].vec
<1>0. Vec(f, "import") = v /\ DOMAIN v = 1..Len(v)
  <2>1. Stands(f, k, Id["import"]) /\ Id["import"] \in 1..12
    BY NameOfId
  <2> QED
    BY <2>1, VecOf
<1>1. Vec(f, "import") = v /\ i \in DOMAIN v
  BY <1>0
<1>2. ValidFunctions(f)
  BY DEF Stands, Valid
<1>3. \A j \in DOMAIN Vec(f, "import") :
        LET m == Vec(f, "import")[j] IN
        /\ m.kind = "func" /\ m.type \in 0..Len(Vec(f, "type")) - 1
        /\ Len(m.module) + 1 + Len(m.field) <= MaxName
        /\ <<m.module, m.field>> \in ToSet(Available)
  BY <1>2 DEF ValidFunctions
<1>4. /\ v[i].kind = "func" /\ v[i].type \in 0..Len(Vec(f, "type")) - 1
      /\ Len(v[i].module) + 1 + Len(v[i].field) <= MaxName
      /\ <<v[i].module, v[i].field>> \in ToSet(Available)
  BY <1>1, <1>3
<1>5. \E j \in 1..Len(Available) : Available[j] = <<v[i].module, v[i].field>>
  <2>1. \E j \in DOMAIN Available : Available[j] = <<v[i].module, v[i].field>>
    BY <1>4 DEF ToSet
  <2>2. DOMAIN Available = 1..Len(Available)
    BY LoaderAssumption
  <2> QED
    BY <2>1, <2>2
<1> QED
  BY <1>4, <1>5 DEF Provided

LEMMA ValidExported ==
  ASSUME NEW f, NEW k, Stands(f, k, 7), NEW i \in 1..Len(f.sections[k].vec)
  PROVE  LET e == f.sections[k].vec[i] IN
         /\ Len(e.name) <= MaxName
         /\ e.kind \in {"func", "table", "memory", "global"}
         /\ e.kind = "func" => e.index < Nof(f)
<1> DEFINE v == f.sections[k].vec
<1>0. Vec(f, "export") = v /\ DOMAIN v = 1..Len(v)
  <2>1. Stands(f, k, Id["export"]) /\ Id["export"] \in 1..12
    BY NameOfId
  <2> QED
    BY <2>1, VecOf
<1>1. Vec(f, "export") = v /\ i \in DOMAIN v
  BY <1>0
<1>2. ValidExports(f)
  BY DEF Stands, Valid
<1>3. \A j \in DOMAIN Vec(f, "export") :
        LET e == Vec(f, "export")[j] IN
        /\ Len(e.name) <= MaxName
        /\ e.kind \in {"func", "table", "memory", "global"}
        /\ e.kind = "func" => e.index \in 0..Nof(f) - 1
  BY <1>2 DEF ValidExports
<1>4. Nof(f) \in Nat
  BY NofIs DEF Stands
<1> HIDE DEF v
<1>5. /\ Len(v[i].name) <= MaxName
      /\ v[i].kind \in {"func", "table", "memory", "global"}
      /\ v[i].kind = "func" => v[i].index < Nof(f)
  BY <1>1, <1>3, <1>4
<1> QED
  BY <1>5 DEF v

LEMMA ValidElements ==
  ASSUME NEW f, NEW k, Stands(f, k, 9), NEW i \in 1..Len(f.sections[k].vec)
  PROVE  LET e == f.sections[k].vec[i] IN
         e.table = 0 /\ Len(e.entries) <= MaxNof
<1> DEFINE v == f.sections[k].vec
<1>0. Vec(f, "element") = v /\ DOMAIN v = 1..Len(v)
  <2>1. Stands(f, k, Id["element"]) /\ Id["element"] \in 1..12
    BY NameOfId
  <2> QED
    BY <2>1, VecOf
<1>1. Vec(f, "element") = v /\ i \in DOMAIN v
  BY <1>0
<1>2. ValidContents(f)
  BY DEF Stands, Valid
<1>3. \A j \in DOMAIN Vec(f, "element") :
        LET e == Vec(f, "element")[j] IN e.table = 0 /\ Len(e.entries) <= MaxNof
  BY <1>2 DEF ValidContents
<1> QED
  BY <1>1, <1>3

LEMMA ConstOffsets ==
  ASSUME NEW f, NEW k, Stands(f, k, 9), NEW i \in 1..Len(f.sections[k].vec)
  PROVE  f.sections[k].vec[i].offset.op = "const"
<1> DEFINE v == f.sections[k].vec
<1>1. Stands(f, k, Id["element"]) /\ Id["element"] \in 1..12
  BY NameOfId
<1>2. Vec(f, "element") = v /\ DOMAIN v = 1..Len(v)
  BY <1>1, VecOf
<1>3. Vec(f, "element") = v /\ i \in DOMAIN v
  BY <1>2
<1>4. ValidContents(f)
  BY DEF Stands, Valid
<1>5. \A j \in DOMAIN Vec(f, "element") :
        Vec(f, "element")[j].offset.op = "const"
  BY <1>4 DEF ValidContents
<1> HIDE DEF v
<1>6. v[i].offset.op = "const"
  BY <1>3, <1>5
<1> QED
  BY <1>6 DEF v

LEMMA ValidCode ==
  ASSUME NEW f, NEW k, Stands(f, k, 10)
  PROVE  /\ Len(f.sections[k].vec) = Len(Vec(f, "function"))
         /\ \A i \in 1..Len(f.sections[k].vec) :
              LET e == f.sections[k].vec[i] IN
              /\ e.ended /\ Len(e.locals) <= MaxNof
              /\ \A j \in DOMAIN e.locals : e.locals[j].type # "v128"
<1> DEFINE v == f.sections[k].vec
<1>1. Vec(f, "code") = v /\ DOMAIN v = 1..Len(v)
  BY VecOf, NameOfId
<1>2. ValidFunctions(f)
  BY DEF Stands, Valid
<1>3. Len(Vec(f, "code")) = Len(Vec(f, "function"))
  BY <1>2 DEF ValidFunctions
<1>4. \A i \in DOMAIN Vec(f, "code") :
        LET e == Vec(f, "code")[i] IN
        /\ e.ended /\ Len(e.locals) <= MaxNof
        /\ \A j \in DOMAIN e.locals : e.locals[j].type # "v128"
  BY <1>2 DEF ValidFunctions
<1> QED
  BY <1>1, <1>3, <1>4

LEMMA ValidTable ==
  ASSUME NEW f, NEW k, Stands(f, k, 4)
  PROVE  /\ Len(f.sections[k].vec) = 1
         /\ f.sections[k].vec[1].type = "func"
         /\ f.sections[k].vec[1].size <= MaxNof
<1> DEFINE v == f.sections[k].vec
<1>1. Vec(f, "table") = v /\ DOMAIN v = 1..Len(v) /\ Len(v) \in Nat
  BY VecOf, NameOfId
<1>2. ValidContents(f)
  BY DEF Stands, Valid
<1>3. Len(Vec(f, "table")) <= 1
  BY <1>2 DEF ValidContents
<1>4. \A i \in DOMAIN Vec(f, "table") :
        Vec(f, "table")[i].type = "func" /\ Vec(f, "table")[i].size <= MaxNof
  BY <1>2 DEF ValidContents
<1>5. v # <<>> /\ v \in Seq(Elements(4))
  BY WellFormedFacts DEF Stands, Decoded
<1>6. Len(v) # 0
  <2> DEFINE E == Elements(4)
  <2> HIDE DEF v, E
  <2>1. v \in Seq(E) /\ v # <<>>
    BY <1>5 DEF E
  <2> QED
    BY <2>1
<1>7. Len(v) = 1
  <2> HIDE DEF v
  <2> QED
    BY <1>1, <1>3, <1>6
<1> QED
  BY <1>1, <1>4, <1>7

LEMMA ValidStart ==
  ASSUME NEW f, NEW k, Stands(f, k, 8)
  PROVE  f.sections[k].vec[1] >= NofImports(f)
<1> DEFINE v == f.sections[k].vec
<1>1. Vec(f, "start") = v /\ DOMAIN v = 1..Len(v) /\ Len(v) \in Nat
  BY VecOf, NameOfId
<1>2. ValidFunctions(f)
  BY DEF Stands, Valid
<1>3. \A i \in DOMAIN Vec(f, "start") :
        Vec(f, "start")[i] \in NofImports(f)..Nof(f) - 1
  BY <1>2 DEF ValidFunctions
<1>4. v # <<>> /\ v \in Seq(Elements(8))
  BY IdIs DEF Stands, Decoded
<1>5. 1 \in DOMAIN v
  <2> DEFINE E == Elements(8)
  <2> HIDE DEF v, E
  <2>1. v \in Seq(E) /\ v # <<>>
    BY <1>4 DEF E
  <2> QED
    BY <2>1
<1>6. v[1] \in NofImports(f)..Nof(f) - 1
  BY <1>1, <1>3, <1>5
<1>7. NofImports(f) \in Nat /\ Nof(f) \in Nat
  BY NofIs DEF Stands
<1> HIDE DEF v
<1>8. v[1] >= NofImports(f)
  BY <1>6, <1>7
<1> QED
  BY <1>8 DEF v

-----------------------------------------------------------------------------
(* The sections of a valid file, one after the other.  Steady(c, id): what *)
(* a section of the kind id leaves as it is when it is not refused.        *)

Steady(c, id) ==
  {x \in Grown(c) :
     /\ x.result = "OK"
     /\ x.array = c.array /\ x.imported = c.imported /\ x.total = c.total
     /\ Len(x.functions) = Len(c.functions) /\ x.start = c.start
     /\ id # 1 => x.types = c.types
     /\ id # 7 => x.exported = c.exported
     /\ id # 9 => x.table = c.table
     /\ id # 10 => x.functions = c.functions}

(* What an export does to the list of names, and a body to the functions. *)
Exported(x, e) ==
  IF e.kind = "func" THEN Put(x.exported, e.name, <<x.array, e.index>>)
  ELSE x.exported
Room(e) == Sum([j \in DOMAIN e.locals |-> e.locals[j].count]) + Slack
Coded(fs, n, e) ==
  [fs EXCEPT ![n].nof_local = Room(e), ![n].body = e.body]

LEMMA TypeSteady ==
  ASSUME NEW c, NEW x \in Steady(c, 1), NEW t \in Signatures,
         t.params <= 32, t.results <= 8
  PROVE  Type(x, t) \in Steady(c, 1) /\ Type(x, t).types = Append(x.types, t)
<1>1. x \in Grown(c) /\ x \in Programs
  BY DEF Steady, Grown
<1>2. Type(x, t) \in Grown(c)
  BY <1>1, TypeIn
<1> DEFINE a == Append(x.types, t)
           y == [x EXCEPT !.types = a]
<1>3. Type(x, t) = y
  <2>1. ~(t.params > 32) /\ ~(t.results > 8)
    BY DEF Signatures
  <2> QED
    BY <2>1 DEF Type
<1> HIDE DEF a
<1>4. /\ y.result = x.result /\ y.array = x.array /\ y.imported = x.imported
      /\ y.total = x.total /\ y.functions = x.functions
      /\ y.start = x.start /\ y.table = x.table /\ y.exported = x.exported
      /\ y.types = a
  BY <1>1 DEF Programs
<1> HIDE DEF y
<1> QED
  BY <1>2, <1>3, <1>4 DEF Steady, a

LEMMA ExportSteady ==
  ASSUME NEW c, NEW x \in Steady(c, 7), NEW e \in Elements(Id.export),
         Len(e.name) <= MaxName,
         e.kind \in {"func", "table", "memory", "global"},
         e.kind = "func" => e.index < Len(c.functions)
  PROVE  /\ Export(x, e) \in Steady(c, 7)
         /\ Export(x, e).exported = Exported(x, e)
<1>1. x \in Grown(c) /\ x \in Programs /\ Len(x.functions) = Len(c.functions)
  BY DEF Steady, Grown
<1>2. Export(x, e) \in Grown(c)
  BY <1>1, ExportIn
<1> DEFINE a == Put(x.exported, e.name, <<x.array, e.index>>)
           y == [x EXCEPT !.exported = a]
<1>3. Export(x, e) = IF e.kind = "func" THEN y ELSE x
  <2>1. ~(Len(e.name) > MaxName)
    <3>1. Len(e.name) \in Nat
      BY ElementKinds
    <3> DEFINE n == Len(e.name)
    <3>2. n \in Nat /\ n <= MaxName
      BY <3>1
    <3> HIDE DEF n
    <3>3. ~(n > MaxName)
      BY <3>2, LoaderFacts
    <3> QED
      BY <3>3 DEF n
  <2> QED
    BY <1>1, <2>1 DEF Export
<1> HIDE DEF a
<1>4. /\ y.result = x.result /\ y.array = x.array /\ y.imported = x.imported
      /\ y.total = x.total /\ y.functions = x.functions
      /\ y.start = x.start /\ y.table = x.table /\ y.types = x.types
      /\ y.exported = a
  BY <1>1 DEF Programs
<1> HIDE DEF y
<1> QED
  BY <1>2, <1>3, <1>4 DEF Steady, Exported, a

LEMMA ElementSteady ==
  ASSUME NEW c, NEW x \in Steady(c, 9), NEW e \in Elements(Id.element),
         e.table = 0, e.offset.op = "const", Len(e.entries) <= MaxNof
  PROVE  /\ Element(x, e) \in Steady(c, 9)
         /\ Element(x, e).table = SetFrom(x.table, e.offset.arg, e.entries)
<1>1. x \in Grown(c) /\ x \in Programs
  BY DEF Steady, Grown
<1>2. Element(x, e) \in Grown(c)
  BY <1>1, ElementIn
<1> DEFINE a == SetFrom(x.table, e.offset.arg, e.entries)
           y == [x EXCEPT !.table = a]
<1>3. Element(x, e) = y
  <2>1. ~(Len(e.entries) > MaxNof)
    <3>1. Len(e.entries) \in Nat
      BY ElementKinds
    <3> DEFINE n == Len(e.entries)
    <3>2. n \in Nat /\ n <= MaxNof
      BY <3>1
    <3> HIDE DEF n
    <3>3. ~(n > MaxNof)
      BY <3>2, LoaderFacts
    <3> QED
      BY <3>3 DEF n
  <2> QED
    BY <2>1 DEF Element
<1> HIDE DEF a
<1>4. /\ y.result = x.result /\ y.array = x.array /\ y.imported = x.imported
      /\ y.total = x.total /\ y.functions = x.functions
      /\ y.start = x.start /\ y.types = x.types /\ y.exported = x.exported
      /\ y.table = a
  BY <1>1 DEF Programs
<1> HIDE DEF y
<1> QED
  BY <1>2, <1>3, <1>4 DEF Steady, a

LEMMA CodeSteady ==
  ASSUME NEW c, NEW x \in Steady(c, 10), NEW e \in Elements(Id.code), NEW i,
         e.ended, Len(e.locals) <= MaxNof,
         \A j \in DOMAIN e.locals : e.locals[j].type # "v128"
  PROVE  /\ Code(x, e, i) \in Steady(c, 10)
         /\ Code(x, e, i).functions = Coded(x.functions, x.imported + i, e)
<1>1. x \in Grown(c) /\ x \in Programs
  BY DEF Steady, Grown
<1>2. Code(x, e, i) \in Grown(c)
  BY <1>1, CodeIn
<1> DEFINE n == x.imported + i
           v == Room(e)
           y == [x EXCEPT !.functions[n].nof_local = v]
           z == [x EXCEPT !.functions[n].nof_local = v,
                          !.functions[n].body = e.body]
<1>3. Code(x, e, i) = z
  <2>1. ~(Len(e.locals) > MaxNof)
    <3>1. Len(e.locals) \in Nat
      BY ElementKinds
    <3> DEFINE k == Len(e.locals)
    <3>2. k \in Nat /\ k <= MaxNof
      BY <3>1
    <3> HIDE DEF k
    <3>3. ~(k > MaxNof)
      BY <3>2, LoaderFacts
    <3> QED
      BY <3>3 DEF k
  <2> QED
    BY <2>1 DEF Code, Room
<1> HIDE DEF n, v
<1>7. Coded(x.functions, n, e)
        = [[x.functions EXCEPT ![n].nof_local = v] EXCEPT ![n].body = e.body]
  BY DEF Coded, v
<1> DEFINE fs == x.functions
           g == [fs EXCEPT ![n].nof_local = v]
           h == [g EXCEPT ![n].body = e.body]
<1>4. z = [x EXCEPT !.functions = h]
  BY <1>1 DEF Programs
<1>5. Len(h) = Len(fs)
  <2>1. fs \in Seq(Functions)
    BY <1>1 DEF Programs
  <2> HIDE DEF fs
  <2>2. DOMAIN g = 1..Len(fs) /\ DOMAIN h = DOMAIN g /\ Len(fs) \in Nat
    BY <2>1
  <2> HIDE DEF g, h
  <2> QED
    BY <2>2
<1> HIDE DEF z, h
<1>6. /\ z.result = x.result /\ z.array = x.array /\ z.imported = x.imported
      /\ z.total = x.total /\ z.functions = h
      /\ z.start = x.start /\ z.types = x.types /\ z.table = x.table
      /\ z.exported = x.exported
  BY <1>1, <1>4 DEF Programs
<1> QED
  BY <1>2, <1>3, <1>5, <1>6, <1>7 DEF Steady, h, g, n

HostFound(c) ==
  \A i \in 1..Len(Available) :
    Find(c.available, ImportName(Available[i][1], Available[i][2])) # Null

(* The program after the first k sections of a valid file *)
Ready(f, k, c) ==
  /\ c \in Programs /\ Ordered(c)
  /\ c.result = "OK" /\ HostFound(c)
  /\ c.types = IF Seen(f, k, 1) THEN Vec(f, "type") ELSE <<>>
  /\ ~Seen(f, k, 9) => c.table = <<>>
  /\ ~Seen(f, k, 2) /\ ~Seen(f, k, 3) => c.array = 0
  /\ c.imported = IF Seen(f, k, 2) THEN NofImports(f) ELSE 0
  /\ c.total = IF Seen(f, k, 3) THEN Nof(f) ELSE c.imported
  /\ Len(c.functions) = c.total
  /\ c.start = NoStart \/ c.start >= NofImports(f)

LEMMA StartsSteady ==
  ASSUME NEW f, NEW k, NEW c, Ready(f, k, c), NEW id
  PROVE  c \in Steady(c, id)
BY DEF Ready, Steady, Grown

LEMMA SeenStep ==
  ASSUME NEW f, NEW k \in Nat, k > 0, NEW id
  PROVE  Seen(f, k, id) <=> Seen(f, k - 1, id) \/ f.sections[k].id = id
<1>1. \A j : j \in 1..k <=> j \in 1..k - 1 \/ j = k
  OBVIOUS
<1> QED
  BY <1>1 DEF Seen

(* The two ways to write that a place is behind the first or the second.   *)
LEMMA Behind == \A p \in 1..12 : (p > 1 => 1 < p) /\ (p > 2 => 2 < p)
  OBVIOUS

(* Sections that stand behind the types, behind the imports, and behind    *)
(* the functions, find all of them.                                        *)
LEMMA TypesThere ==
  ASSUME NEW f, Decoded(f), Valid(f), NEW k \in 1..Len(f.sections),
         NEW c, Ready(f, k - 1, c), f.sections[k].id # 0,
         Place(f.sections[k].id) > 1
  PROVE  c.types = Vec(f, "type")
<1>1. CASE Seen(f, k - 1, 1)
  BY <1>1 DEF Ready
<1>2. CASE ~Seen(f, k - 1, 1)
  <2>1. Id["type"] = 1 /\ Place(1) = 1
    BY NameOfId, PlaceIs
  <2>2. Place(Id["type"]) < Place(f.sections[k].id)
    <3>1. Place(f.sections[k].id) \in 1..12
      BY SectionId, Zenon
    <3>2. 1 < Place(f.sections[k].id)
      BY <3>1, Behind, Zenon
    <3> QED
      BY <2>1, <3>2, Zenon
  <2>3. Vec(f, "type") = <<>>
    BY <1>2, <2>1, <2>2, AlreadySeen
  <2> QED
    BY <1>2, <2>3 DEF Ready
<1> QED
  BY <1>1, <1>2

LEMMA ImportsThere ==
  ASSUME NEW f, Decoded(f), Valid(f), NEW k \in 1..Len(f.sections),
         NEW c, Ready(f, k - 1, c), f.sections[k].id # 0,
         Place(f.sections[k].id) > 2
  PROVE  c.imported = NofImports(f)
<1>1. CASE Seen(f, k - 1, 2)
  BY <1>1 DEF Ready
<1>2. CASE ~Seen(f, k - 1, 2)
  <2>1. Id["import"] = 2 /\ Place(2) = 2
    BY NameOfId, PlaceIs
  <2>2. Place(Id["import"]) < Place(f.sections[k].id)
    <3>1. Place(f.sections[k].id) \in 1..12
      BY SectionId, Zenon
    <3>2. 2 < Place(f.sections[k].id)
      BY <3>1, Behind, Zenon
    <3> QED
      BY <2>1, <3>2, Zenon
  <2>3. Vec(f, "import") = <<>>
    BY <1>2, <2>1, <2>2, AlreadySeen
  <2>4. NofImports(f) = 0
    BY <2>3 DEF NofImports
  <2> QED
    BY <1>2, <2>4 DEF Ready
<1> QED
  BY <1>1, <1>2

LEMMA FunctionsThere ==
  ASSUME NEW f, Decoded(f), Valid(f), NEW k \in 1..Len(f.sections),
         NEW c, Ready(f, k - 1, c), f.sections[k].id # 0,
         Place(f.sections[k].id) > 3
  PROVE  c.total = Nof(f) /\ Len(c.functions) = Nof(f)
<1>0. Place(f.sections[k].id) \in Int
  BY SectionId
<1>1. CASE Seen(f, k - 1, 3)
  BY <1>1 DEF Ready
<1>2. CASE ~Seen(f, k - 1, 3)
  <2> DEFINE p == Place(f.sections[k].id)
  <2>0. p > 2 /\ 3 < p
    <3>1. p \in Int /\ p > 3
      BY <1>0
    <3> HIDE DEF p
    <3> QED
      BY <3>1
  <2>1. Id["function"] = 3 /\ Place(3) = 3
    BY NameOfId, PlaceIs
  <2>2. Place(Id["function"]) < Place(f.sections[k].id)
    BY <2>0, <2>1
  <2>3. Vec(f, "function") = <<>>
    BY <1>2, <2>1, <2>2, AlreadySeen
  <2>4. Nof(f) = NofImports(f)
    BY <2>3, NofIs
  <2>5. c.imported = NofImports(f)
    BY <2>0, ImportsThere
  <2> QED
    BY <1>2, <2>4, <2>5 DEF Ready
<1> QED
  BY <1>1, <1>2

(* What element i of a section, e, makes of x. *)
Turned(c, id, i, e, x, y) ==
  /\ y \in Steady(c, id)
  /\ id = 1 => y.types = Append(x.types, e)
  /\ id = 7 => y.exported = Exported(x, e)
  /\ id = 9 => y.table = SetFrom(x.table, e.offset.arg, e.entries)
  /\ id = 10 => y.functions = Coded(x.functions, x.imported + i, e)

LEMMA ItemSteady ==
  ASSUME NEW f, NEW k, NEW id \in {1, 7, 9, 10}, Stands(f, k, id),
         NEW c, Ready(f, k - 1, c),
         NEW i \in 1..Len(f.sections[k].vec), NEW x \in Steady(c, id)
  PROVE  Turned(c, id, i, f.sections[k].vec[i], x, Item(f.sections[k], x, i))
<1> DEFINE s == f.sections[k]
           v == s.vec
<1> SUFFICES Turned(c, id, i, v[i], x, Item(s, x, i))
  OBVIOUS
<1>5. /\ Decoded(f) /\ Valid(f) /\ k \in 1..Len(f.sections) /\ s.id = id
      /\ SectionFits(s)
  BY DEF Stands, Decoded, SectionFits
<1>0. v[i] \in Elements(id)
  BY <1>5, VectorIn
<1>1. CASE id = 1
  <2>1. v[i].params <= 32 /\ v[i].results <= 8
    BY <1>1, ValidTypes
  <2>2. v[i] \in Signatures
    BY <1>0, <1>1, ElementKinds, IdIs
  <2>3. Item(s, x, i) = Type(x, v[i])
    <3>1. s.id = Id.type
      BY <1>5, <1>1, IdIs
    <3> QED
      BY <3>1, ItemIs
  <2> HIDE DEF v, s
  <2> QED
    BY <1>1, <2>1, <2>2, <2>3, TypeSteady DEF Turned
<1>2. CASE id = 7
  <2>1. /\ Len(v[i].name) <= MaxName
        /\ v[i].kind \in {"func", "table", "memory", "global"}
        /\ v[i].kind = "func" => v[i].index < Nof(f)
    BY <1>2, ValidExported
  <2>2. v[i] \in Elements(Id.export)
    BY <1>0, <1>2, IdIs
  <2>3. Item(s, x, i) = Export(x, v[i])
    <3>1. s.id = Id.export
      BY <1>5, <1>2, IdIs
    <3> QED
      BY <3>1, ItemIs
  <2>4. Len(c.functions) = Nof(f)
    <3>1. Place(7) > 3
      BY PlaceIs
    <3> QED
      BY <1>5, <1>2, <3>1, FunctionsThere
  <2> HIDE DEF v, s
  <2> QED
    BY <1>2, <2>1, <2>2, <2>3, <2>4, ExportSteady DEF Turned
<1>3. CASE id = 9
  <2>1. v[i].table = 0 /\ Len(v[i].entries) <= MaxNof
    BY <1>3, ValidElements
  <2>4. v[i].offset.op = "const"
    BY <1>3, ConstOffsets
  <2>2. v[i] \in Elements(Id.element)
    BY <1>0, <1>3, IdIs
  <2>3. Item(s, x, i) = Element(x, v[i])
    <3>1. s.id = Id.element
      BY <1>5, <1>3, IdIs
    <3> QED
      BY <3>1, ItemIs
  <2> HIDE DEF v, s
  <2> QED
    BY <1>3, <2>1, <2>2, <2>3, <2>4, ElementSteady DEF Turned
<1>4. CASE id = 10
  <2>1. /\ v[i].ended /\ Len(v[i].locals) <= MaxNof
        /\ \A j \in DOMAIN v[i].locals : v[i].locals[j].type # "v128"
    BY <1>4, ValidCode
  <2>2. v[i] \in Elements(Id.code)
    BY <1>0, <1>4, IdIs
  <2>3. Item(s, x, i) = Code(x, v[i], i)
    <3>1. s.id = Id.code
      BY <1>5, <1>4, IdIs
    <3> QED
      BY <3>1, ItemIs
  <2> HIDE DEF v, s
  <2> QED
    BY <1>4, <2>1, <2>2, <2>3, CodeSteady DEF Turned
<1> QED
  BY <1>1, <1>2, <1>3, <1>4

LEMMA ItemsSteady ==
  ASSUME NEW f, NEW k, NEW id \in {1, 7, 9, 10}, Stands(f, k, id),
         NEW c, Ready(f, k - 1, c)
  PROVE  Items(c, f.sections[k]) \in Steady(c, id)
<1> DEFINE s == f.sections[k]
           V == Steady(c, id)
<1>1. SectionFits(s)
  BY DEF Stands, Decoded, SectionFits
<1>2. Len(s.vec) \in Nat
  BY <1>1, VectorIn
<1>3. \A i \in 1..Len(s.vec) : \A x \in V : Item(s, x, i) \in V
  BY ItemSteady DEF Turned
<1>4. c \in V
  BY StartsSteady
<1> HIDE DEF V, s
<1> QED
  BY <1>2, <1>3, <1>4, ItemsIn DEF s, V

LEMMA ProgSectionFits ==
  ASSUME NEW f, NEW k, NEW id, Stands(f, k, id), NEW c
  PROVE  LET s == f.sections[k] IN
         /\ id = 1 => ProgSection(c, s) = TypeSection(c, s)
         /\ id = 2 => ProgSection(c, s) = ImportSection(c, s)
         /\ id = 3 => ProgSection(c, s) = FunctionSection(c, s)
         /\ id = 4 => ProgSection(c, s) = TableSection(c, s)
         /\ id = 7 => ProgSection(c, s) = ExportSection(c, s)
         /\ id = 8 => ProgSection(c, s) = StartSection(c, s)
         /\ id = 9 => ProgSection(c, s) = ElementSection(c, s)
         /\ id = 10 => ProgSection(c, s) = CodeSection(c, s)
         /\ id \in {0, 5, 6, 11, 12} => ProgSection(c, s) = c
<1> DEFINE s == f.sections[k]
           parsed ==
             CASE s.id = Id.type     -> TypeSection(c, s)
               [] s.id = Id.import   -> ImportSection(c, s)
               [] s.id = Id.function -> FunctionSection(c, s)
               [] s.id = Id.table    -> TableSection(c, s)
               [] s.id = Id.export   -> ExportSection(c, s)
               [] s.id = Id.start    -> StartSection(c, s)
               [] s.id = Id.element  -> ElementSection(c, s)
               [] s.id = Id.code     -> CodeSection(c, s)
               [] s.id \in {Id.custom, Id.memory, Id.global, Id.data, Id.datacount}
                    -> c
               [] OTHER                 -> Refused(c, "UNKNOWN_SECTION")
<1>1. s.fits /\ s.id = id
  BY WellFormedFacts DEF Stands
<1>2. ProgSection(c, s) = parsed
  BY <1>1 DEF ProgSection
<1> HIDE DEF s
<1>3. /\ id = 1 => parsed = TypeSection(c, s)
      /\ id = 2 => parsed = ImportSection(c, s)
      /\ id = 3 => parsed = FunctionSection(c, s)
      /\ id = 4 => parsed = TableSection(c, s)
      /\ id = 7 => parsed = ExportSection(c, s)
      /\ id = 8 => parsed = StartSection(c, s)
      /\ id = 9 => parsed = ElementSection(c, s)
      /\ id = 10 => parsed = CodeSection(c, s)
      /\ id \in {0, 5, 6, 11, 12} => parsed = c
  <2>1. ASSUME id = 1
        PROVE  parsed = TypeSection(c, s)
    <3>1. s.id = 1
      BY <1>1, <2>1
    <3> QED
      BY <3>1, IdIs
  <2>2. ASSUME id = 2
        PROVE  parsed = ImportSection(c, s)
    <3>1. s.id = 2
      BY <1>1, <2>2
    <3> QED
      BY <3>1, IdIs
  <2>3. ASSUME id = 3
        PROVE  parsed = FunctionSection(c, s)
    <3>1. s.id = 3
      BY <1>1, <2>3
    <3> QED
      BY <3>1, IdIs
  <2>4. ASSUME id = 4
        PROVE  parsed = TableSection(c, s)
    <3>1. s.id = 4
      BY <1>1, <2>4
    <3> QED
      BY <3>1, IdIs
  <2>5. ASSUME id = 7
        PROVE  parsed = ExportSection(c, s)
    <3>1. s.id = 7
      BY <1>1, <2>5
    <3> QED
      BY <3>1, IdIs
  <2>6. ASSUME id = 8
        PROVE  parsed = StartSection(c, s)
    <3>1. s.id = 8
      BY <1>1, <2>6
    <3> QED
      BY <3>1, IdIs
  <2>7. ASSUME id = 9
        PROVE  parsed = ElementSection(c, s)
    <3>1. s.id = 9
      BY <1>1, <2>7
    <3> QED
      BY <3>1, IdIs
  <2>8. ASSUME id = 10
        PROVE  parsed = CodeSection(c, s)
    <3>1. s.id = 10
      BY <1>1, <2>8
    <3> QED
      BY <3>1, IdIs
  <2>9. ASSUME id \in {0, 5, 6, 11, 12}
        PROVE  parsed = c
    <3>1. /\ s.id # Id.type /\ s.id # Id.import /\ s.id # Id.function
          /\ s.id # Id.table /\ s.id # Id.export /\ s.id # Id.start
          /\ s.id # Id.element /\ s.id # Id.code
          /\ s.id \in {Id.custom, Id.memory, Id.global, Id.data,
                      Id.datacount}
      BY <1>1, <2>9, IdIs
    <3> QED
      BY <3>1
  <2> QED
    BY <2>1, <2>2, <2>3, <2>4, <2>5, <2>6, <2>7, <2>8, <2>9
<1> HIDE DEF parsed
<1> QED
  BY <1>2, <1>3 DEF s

LEMMA VectorFits ==
  ASSUME NEW f, NEW k, NEW id \in 1..12, Stands(f, k, id)
  PROVE  ~(Len(f.sections[k].vec) > MaxNof)
<1>1. SectionFits(f.sections[k])
  BY DEF Stands, Decoded, SectionFits
<1>2. Len(f.sections[k].vec) \in Nat
  BY <1>1, VectorIn
<1>3. Len(f.sections[k].vec) <= MaxNof
  BY WellFormedFacts DEF Stands
<1> DEFINE n == Len(f.sections[k].vec)
<1>4. n \in Nat /\ n <= MaxNof
  BY <1>2, <1>3
<1> HIDE DEF n
<1>5. ~(n > MaxNof)
  BY <1>4, LoaderFacts
<1> QED
  BY <1>5 DEF n

(* A section is its elements, or nothing to the program. *)
LEMMA SectionsAre ==
  ASSUME NEW f, NEW k, NEW id \in {0, 1, 4, 5, 6, 7, 9, 10, 11, 12},
         Stands(f, k, id), NEW c, Ready(f, k - 1, c)
  PROVE  ProgSection(c, f.sections[k]) =
           (IF id \in {1, 7, 9, 10} THEN Items(c, f.sections[k]) ELSE c)
<1> DEFINE s == f.sections[k]
<1>0. /\ Decoded(f) /\ Valid(f) /\ k \in 1..Len(f.sections) /\ s.id = id
  BY DEF Stands
<1>1. id # 0 => id \in 1..12 /\ ~(Len(s.vec) > MaxNof)
  <2>1. id # 0 => id \in 1..12
    OBVIOUS
  <2> QED
    BY <2>1, VectorFits
<1>3. CASE id = 1
  <2>1. ~Seen(f, k - 1, 1)
    <3>1. Place(1) >= Place(1)
      BY PlaceIs
    <3> QED
      BY <1>0, <1>3, <3>1, NotYetSeen
  <2>2. TypeSection(c, s) = Items(c, s)
    BY <1>1, <1>3, <2>1 DEF TypeSection, Ready
  <2> QED
    BY <1>3, <2>2, ProgSectionFits
<1>4. CASE id = 4
  <2>1. ~Seen(f, k - 1, 9)
    <3>1. Place(9) >= Place(4)
      BY PlaceIs
    <3> QED
      BY <1>0, <1>4, <3>1, NotYetSeen
  <2>2. /\ Len(s.vec) = 1 /\ s.vec[1].type = "func"
        /\ s.vec[1].size <= MaxNof
    BY <1>4, ValidTable
  <2>3. ~(s.vec[1].size > MaxNof)
    <3>1. s.vec[1].size \in Nat
      <4>1. s.vec[1] \in Elements(4)
        <5>1. SectionFits(s)
          BY <1>0 DEF Decoded, SectionFits
        <5> QED
          BY <1>0, <1>4, <2>2, <5>1, VectorIn
      <4>2. Elements(4) = [type : STRING, size : Nat]
        BY ElementKinds, IdIs
      <4> DEFINE e == s.vec[1]
      <4>3. e \in [type : STRING, size : Nat]
        BY <4>1, <4>2
      <4> HIDE DEF e
      <4>4. e.size \in Nat
        BY <4>3
      <4> QED
        BY <4>4 DEF e
    <3> DEFINE n == s.vec[1].size
    <3>2. n \in Nat /\ n <= MaxNof
      BY <2>2, <3>1
    <3> HIDE DEF n
    <3>3. ~(n > MaxNof)
      BY <3>2, LoaderFacts
    <3> QED
      BY <3>3 DEF n
  <2>4. TableSection(c, s) = c
    BY <2>1, <2>2, <2>3 DEF TableSection, Ready
  <2> QED
    BY <1>0, <1>4, <2>4, ProgSectionFits
<1>5. CASE id = 7
  <2>1. ExportSection(c, s) = Items(c, s)
    BY <1>1, <1>5 DEF ExportSection
  <2> QED
    BY <1>5, <2>1, ProgSectionFits
<1>6. CASE id = 9
  <2>1. s.fits
    BY <1>0, WellFormedFacts
  <2>2. ElementSection(c, s) = Items(c, s)
    BY <1>1, <1>6, <2>1 DEF ElementSection
  <2> QED
    BY <1>6, <2>2, ProgSectionFits
<1>7. CASE id = 10
  <2>1. Place(10) > 2 /\ Place(10) > 3
    BY PlaceIs
  <2>2. c.imported = NofImports(f)
    BY <1>0, <1>7, <2>1, ImportsThere
  <2>3. c.total = Nof(f)
    BY <1>0, <1>7, <2>1, FunctionsThere
  <2>4. /\ NofImports(f) \in Nat /\ Len(Vec(f, "function")) \in Nat
        /\ Nof(f) = NofImports(f) + Len(Vec(f, "function"))
    BY <1>0, NofIs
  <2>5. Len(s.vec) = Len(Vec(f, "function"))
    BY <1>7, ValidCode
  <2> DEFINE m == Len(Vec(f, "function"))
             l == Len(s.vec)
  <2>6. l = m /\ m \in Nat /\ c.imported \in Nat /\ c.total = c.imported + m
    BY <2>2, <2>3, <2>4, <2>5
  <2> HIDE DEF m, l
  <2>7. ~(l + c.imported > c.total)
    BY <2>6
  <2>8. CodeSection(c, s) = Items(c, s)
    BY <2>7 DEF CodeSection, l
  <2> QED
    BY <1>7, <2>8, ProgSectionFits
<1>8. CASE id \in {0, 5, 6, 11, 12}
  BY <1>0, <1>8, ProgSectionFits
<1> QED
  BY <1>3, <1>4, <1>5, <1>6, <1>7, <1>8

LEMMA SectionsSteady ==
  ASSUME NEW f, NEW k, NEW id \in {0, 1, 4, 5, 6, 7, 9, 10, 11, 12},
         Stands(f, k, id), NEW c, Ready(f, k - 1, c)
  PROVE  ProgSection(c, f.sections[k]) \in Steady(c, id)
BY SectionsAre, ItemsSteady, StartsSteady

(* What a function of the program is to an import, and to a definition. *)
ImportedAs(list, g, m) ==
  /\ g.type = m.type /\ g.func_idx = 0
  /\ g.func_ptr = Find(list, ImportName(m.module, m.field))
DefinedAs(g, type, idx) == g.type = type /\ g.func_idx = idx

(* The program after the first i of the imports v *)
AfterImports(c, v, i) ==
  {x \in Importing(c) :
     /\ x.result = "OK" /\ x.imported = i /\ x.total = c.total
     /\ x.start = c.start /\ x.types = c.types /\ x.table = c.table
     /\ x.exported = c.exported
     /\ \A j \in 1..i : ImportedAs(c.available, x.functions[j], v[j])}

LEMMA ImportNext ==
  ASSUME NEW c, HostFound(c), NEW v, NEW k \in Nat,
         NEW x \in AfterImports(c, v, k),
         v[k + 1] \in Elements(Id.import), Provided(v[k + 1]),
         ~(v[k + 1].type >= Len(c.types))
  PROVE  Import(x, v[k + 1]) \in AfterImports(c, v, k + 1)
<1> DEFINE i == v[k + 1]
<1>0. i \in Elements(Id.import) /\ Provided(i) /\ ~(i.type >= Len(c.types))
  OBVIOUS
<1> HIDE DEF i
<1> DEFINE ptr == Find(x.available, ImportName(i.module, i.field))
           g == [Function("imported", i.type, 0) EXCEPT !.func_ptr = ptr]
           a == Append(x.functions, g)
           u == [x EXCEPT !.functions = a]
           y == [u EXCEPT !.imported = @ + 1]
<1>1. /\ x \in Importing(c) /\ x \in Programs /\ x.available = c.available
      /\ x.types = c.types
  BY DEF AfterImports, Importing, Grown
<1>2. Import(x, i) \in Importing(c)
  BY <1>0, <1>1, ImportIn
<1>3. ptr # Null
  <2>1. PICK j \in 1..Len(Available) : Available[j] = <<i.module, i.field>>
    BY <1>0 DEF Provided
  <2>2. Available[j][1] = i.module /\ Available[j][2] = i.field
    BY <2>1
  <2> QED
    BY <1>1, <2>2 DEF HostFound
<1>4. ~(Len(i.module) + 1 + Len(i.field) > MaxKeySize)
  <2>1. Len(i.module) \in Nat /\ Len(i.field) \in Nat
    BY <1>0, ElementKinds
  <2> DEFINE m == Len(i.module)
             n == Len(i.field)
  <2>2. m \in Nat /\ n \in Nat /\ m + 1 + n <= MaxName
    BY <1>0, <2>1 DEF Provided
  <2> HIDE DEF m, n
  <2>3. ~(m + 1 + n > MaxKeySize)
    BY <2>2, LoaderFacts
  <2> QED
    BY <2>3 DEF m, n
<1>5. Import(x, i) = [x EXCEPT !.functions = a, !.imported = @ + 1]
  BY <1>0, <1>1, <1>3, <1>4 DEF Import, Provided
<1>8. ImportedAs(c.available, g, i)
  <2> DEFINE h == Function("imported", i.type, 0)
  <2>1. h.type = i.type /\ h.func_idx = 0 /\ "func_ptr" \in DOMAIN h
        /\ h = [kind |-> "imported", type |-> i.type, func_idx |-> 0,
                func_ptr |-> Null, nof_local |-> 0, body |-> Null]
    BY DEF Function
  <2> HIDE DEF h, ptr
  <2>2. LET z == [h EXCEPT !.func_ptr = ptr]
        IN z.type = i.type /\ z.func_idx = 0 /\ z.func_ptr = ptr
    BY <2>1
  <2> QED
    BY <1>1, <2>2 DEF ImportedAs, h, ptr
<1>9. \A j \in 1..k + 1 : ImportedAs(c.available, a[j], v[j])
  <2> DEFINE fs == x.functions
  <2>1. fs \in Seq(Functions) /\ Len(fs) = k
        /\ \A j \in 1..k : ImportedAs(c.available, fs[j], v[j])
    BY <1>1 DEF AfterImports, Importing, Programs
  <2>2. a = Append(fs, g)
    OBVIOUS
  <2> HIDE DEF fs, g, a
  <2>3. a[k + 1] = g /\ \A j \in 1..k : a[j] = fs[j]
    BY <2>1, <2>2
  <2>4. ASSUME NEW j \in 1..k + 1
        PROVE  ImportedAs(c.available, a[j], v[j])
    <3>1. CASE j = k + 1
      BY <1>8, <2>3, <3>1 DEF i
    <3>2. CASE j \in 1..k
      BY <2>1, <2>3, <3>2
    <3> QED
      BY <3>1, <3>2
  <2> QED
    BY <2>4
<1> HIDE DEF a
<1>6. [x EXCEPT !.functions = a, !.imported = @ + 1] = y
  BY <1>1 DEF Programs
<1>7. /\ y.result = x.result /\ y.imported = x.imported + 1
      /\ y.total = x.total /\ y.start = x.start /\ y.types = x.types
      /\ y.table = x.table /\ y.exported = x.exported /\ y.functions = a
  BY <1>1 DEF Programs
<1> HIDE DEF y
<1> QED
  BY <1>2, <1>5, <1>6, <1>7, <1>9 DEF AfterImports, i

LEMMA ImportsReady ==
  ASSUME NEW f, NEW k, Stands(f, k, 2), NEW c, Ready(f, k - 1, c)
  PROVE  LET y == ProgSection(c, f.sections[k]) IN
         /\ y \in Grown(c) /\ y.result = "OK"
         /\ y.imported = NofImports(f) /\ y.total = NofImports(f)
         /\ Len(y.functions) = NofImports(f)
         /\ y.start = c.start /\ y.types = c.types /\ y.table = c.table
         /\ y.exported = c.exported
         /\ \A i \in 1..NofImports(f) :
              ImportedAs(c.available, y.functions[i], f.sections[k].vec[i])
<1> DEFINE s == f.sections[k]
           v == s.vec
           n == Len(v)
           d == [c EXCEPT !.array = @ + 1]
           all == Items(d, s)
           V == Importing(c)
<1>0. /\ Decoded(f) /\ Valid(f) /\ k \in 1..Len(f.sections) /\ s.id = 2
      /\ SectionFits(s) /\ s.id = Id.import
  BY IdIs DEF Stands, Decoded, SectionFits
<1>1. n \in Nat /\ \A i \in 1..n : v[i] \in Elements(Id.import)
  BY <1>0, VectorIn
<1>2. ~(n > MaxNof)
  BY <1>0, VectorFits
<1>3. NofImports(f) = n
  <2>1. Stands(f, k, Id["import"]) /\ Id["import"] \in 1..12
    BY NameOfId
  <2>2. Vec(f, "import") = v
    BY <2>1, VecOf
  <2> QED
    BY <2>2 DEF NofImports
<1>4. c.array = 0 /\ c.imported = 0 /\ c.total = 0 /\ c.functions = <<>>
  <2>1. Place(2) >= Place(2) /\ Place(3) >= Place(2)
    BY PlaceIs
  <2>2. ~Seen(f, k - 1, 2) /\ ~Seen(f, k - 1, 3)
    BY <1>0, <2>1, NotYetSeen
  <2>3. c.array = 0 /\ c.imported = 0 /\ c.total = 0
    BY <2>2 DEF Ready
  <2> QED
    BY <2>3 DEF Ready, Ordered
<1>5. c \in Programs /\ Ordered(c) /\ c.result = "OK" /\ HostFound(c)
  BY DEF Ready
<1>6. ASSUME NEW m \in 1..n
       PROVE  Provided(v[m]) /\ ~(v[m].type >= Len(c.types))
  <2>1. Provided(v[m]) /\ v[m].type \in 0..Len(Vec(f, "type")) - 1
    BY ValidImports
  <2>2. c.types = Vec(f, "type")
    <3>1. Place(2) > 1
      BY PlaceIs
    <3> QED
      BY <1>0, <3>1, TypesThere
  <2>3. Len(c.types) \in Nat
    BY <1>5 DEF Programs
  <2> DEFINE l == Len(c.types)
             t == v[m].type
  <2>4. t \in 0..l - 1 /\ l \in Nat
    BY <2>1, <2>2, <2>3
  <2> HIDE DEF l, t
  <2>5. ~(t >= l)
    BY <2>4
  <2> QED
    BY <2>1, <2>5 DEF l, t
<1>7. d \in AfterImports(c, v, 0)
  <2>1. d \in Programs
    <3> DEFINE a == c.array + 1
    <3>1. a \in Nat
      BY <1>4
    <3> HIDE DEF a
    <3>2. [c EXCEPT !.array = a] \in Programs
      BY <1>5, <3>1 DEF Programs
    <3> QED
      BY <3>2 DEF a
  <2>2. /\ d.array = 1 /\ d.imported = 0 /\ d.functions = <<>>
        /\ d.available = c.available /\ d.exported = c.exported
        /\ d.result = "OK" /\ d.total = c.total /\ d.start = c.start
        /\ d.types = c.types /\ d.table = c.table
    BY <1>4, <1>5 DEF Programs
  <2> HIDE DEF d
  <2>3. Ordered(d)
    BY <2>2 DEF Ordered
  <2> QED
    BY <2>1, <2>2, <2>3 DEF AfterImports, Importing, Grown
<1>8. ImportSection(c, s) = IF all.result # "OK" THEN all
                            ELSE [all EXCEPT !.total = all.imported]
  BY <1>2, <1>4 DEF ImportSection
<1> HIDE DEF d
<1>9. ASSUME NEW i \in 1..n, NEW x \in V
      PROVE  Item(s, x, i) = Import(x, v[i]) /\ Item(s, x, i) \in V
  BY <1>0, <1>1, ItemIs, ImportIn
<1>10. PICK g : Loop(g, V, d, s)
  <2>1. d \in V
    BY <1>7 DEF AfterImports
  <2> HIDE DEF V, s
  <2> QED
    BY <1>1, <1>9, <2>1, ItemsLoop DEF n, v
<1> DEFINE S == {i \in 0..n : g[i] \in AfterImports(c, v, i)}
<1>11. 0 \in S
  BY <1>1, <1>7, <1>10 DEF Loop
<1>12. ASSUME NEW i \in 0..(n - 1), i \in S
       PROVE  i + 1 \in S
  <2>1. i + 1 \in 1..n /\ (i + 1) - 1 = i /\ i + 1 \in 0..n /\ i \in Nat
    BY <1>1
  <2>2. g[i] \in AfterImports(c, v, i) /\ g[i].result = "OK" /\ g[i] \in V
    BY <1>12 DEF AfterImports
  <2>3. g[i + 1] = Item(s, g[i], i + 1)
    BY <1>10, <2>1, <2>2 DEF Loop
  <2>4. g[i + 1] = Import(g[i], v[i + 1])
    BY <1>9, <2>1, <2>2, <2>3
  <2>5. Provided(v[i + 1]) /\ ~(v[i + 1].type >= Len(c.types))
    BY <1>6, <2>1
  <2>6. v[i + 1] \in Elements(Id.import)
    BY <1>1, <2>1
  <2> HIDE DEF v
  <2>7. g[i + 1] \in AfterImports(c, v, i + 1)
    BY <1>5, <2>1, <2>2, <2>4, <2>5, <2>6, ImportNext
  <2> QED
    BY <2>1, <2>7
<1>13. 0..n \subseteq S
  <2> HIDE DEF S, n
  <2> QED
    BY <1>1, <1>11, <1>12, UpTo
<1>14. all \in AfterImports(c, v, n)
  <2>1. n \in 0..n
    BY <1>1
  <2>2. all = g[n]
    BY <1>10 DEF Loop
  <2> QED
    BY <1>13, <2>1, <2>2
<1> DEFINE a == all.imported
           y == [all EXCEPT !.total = a]
<1>15. ProgSection(c, s) = y
  <2>1. all.result = "OK"
    BY <1>14 DEF AfterImports
  <2> QED
    BY <1>8, <2>1, ProgSectionFits
<1> HIDE DEF all
<1>16. all \in Programs /\ all.imported = n /\ Len(all.functions) = n
  BY <1>14 DEF AfterImports, Importing, Grown
<1>17. y \in Grown(c)
  <2>1. ImportSection(c, s) \in Grown(c)
    BY <1>0, <1>5, ImportSectionIn
  <2> QED
    BY <1>15, <2>1, ProgSectionFits
<1>18. /\ y.result = all.result /\ y.imported = all.imported /\ y.total = a
       /\ y.functions = all.functions /\ y.start = all.start
       /\ y.types = all.types /\ y.table = all.table
       /\ y.exported = all.exported
  BY <1>16 DEF Programs
<1>19. \A i \in 1..n : ImportedAs(c.available, all.functions[i], v[i])
  BY <1>14 DEF AfterImports
<1> HIDE DEF y, s
<1> QED
  BY <1>3, <1>14, <1>15, <1>16, <1>17, <1>18, <1>19 DEF AfterImports, s

LEMMA FunctionsReady ==
  ASSUME NEW f, NEW k, Stands(f, k, 3), NEW c, Ready(f, k - 1, c)
  PROVE  LET y == ProgSection(c, f.sections[k]) IN
         /\ y \in Grown(c) /\ y.result = "OK"
         /\ y.imported = c.imported /\ y.total = Nof(f)
         /\ Len(y.functions) = Nof(f)
         /\ y.start = c.start /\ y.types = c.types /\ y.table = c.table
         /\ y.exported = c.exported
         /\ \A i \in 1..c.imported : y.functions[i] = c.functions[i]
         /\ \A i \in 1..Len(f.sections[k].vec) :
              DefinedAs(y.functions[c.imported + i], f.sections[k].vec[i],
                        c.imported + i - 1)
<1> DEFINE s == f.sections[k]
           v == s.vec
           m == Len(v)
           total == c.total + m
           l == Len(c.functions)
           added == [i \in 1..m |-> Function("internal", v[i], l + i - 1)]
           both == c.functions \o added
           w == [c EXCEPT !.total = total, !.array = @ + 1,
                          !.functions = both]
<1>0. /\ Decoded(f) /\ Valid(f) /\ k \in 1..Len(f.sections) /\ s.id = 3
      /\ SectionFits(s) /\ s.id = Id.function
      /\ c \in Programs /\ Ordered(c)
  BY IdIs DEF Stands, Decoded, SectionFits, Ready
<1>1. m \in Nat /\ \A i \in 1..m : v[i] \in Nat
  BY <1>0, VectorIn, ElementKinds
<1>2. v # <<>>
  BY <1>0, WellFormedFacts
<1>3. Len(Vec(f, "function")) = m
  <2>1. Stands(f, k, Id["function"]) /\ Id["function"] \in 1..12
    BY NameOfId
  <2>2. Vec(f, "function") = v
    BY <2>1, VecOf
  <2> QED
    BY <2>2
<1>4. c.total = c.imported /\ c.imported = NofImports(f)
  <2>1. Place(3) >= Place(3) /\ Place(3) > 2
    BY PlaceIs
  <2>2. ~Seen(f, k - 1, 3)
    BY <1>0, <2>1, NotYetSeen
  <2>3. c.imported = NofImports(f)
    BY <1>0, <2>1, ImportsThere
  <2> QED
    BY <2>2, <2>3 DEF Ready
<1>5. total = Nof(f) /\ total \in Nat
  <2>1. /\ NofImports(f) \in Nat
        /\ Nof(f) = NofImports(f) + Len(Vec(f, "function"))
    BY <1>0, NofIs
  <2>2. Nof(f) = c.total + m
    BY <1>3, <1>4, <2>1
  <2> HIDE DEF m
  <2> QED
    BY <1>1, <1>4, <2>1, <2>2
<1>6. ~(total > MaxNof)
  <2>1. Nof(f) <= MaxNof
    BY <1>0 DEF Valid, ValidFunctions
  <2> HIDE DEF total
  <2> QED
    BY <1>5, <2>1, LoaderFacts
<1>7. FunctionSection(c, s) = w
  BY <1>2, <1>4, <1>6 DEF FunctionSection
<1>8. /\ Len(both) = total
      /\ \A i \in 1..c.imported : both[i] = c.functions[i]
      /\ \A i \in 1..m :
           DefinedAs(both[c.imported + i], v[i], c.imported + i - 1)
  <2>1. l = c.total /\ c.functions \in Seq(Functions)
    BY <1>0 DEF Ready, Programs
  <2>2. added \in Seq(Functions) /\ Len(added) = m
    <3> HIDE DEF m
    <3>1. ASSUME NEW i \in 1..m
          PROVE  Function("internal", v[i], l + i - 1) \in Functions
      <4>1. l + i - 1 \in Nat /\ v[i] \in Nat
        <5>1. l \in Nat
          BY <2>1
        <5> HIDE DEF l, v
        <5> QED
          BY <1>1, <5>1
      <4> HIDE DEF l, v
      <4> QED
        BY <4>1, LoaderFacts DEF Function, Functions
    <3>2. added \in [1..m -> Functions]
      BY <3>1
    <3> HIDE DEF added
    <3> QED
      BY <1>1, <3>2
  <2>4. l = c.imported
    BY <1>4, <2>1
  <2>5. ASSUME NEW i \in 1..m
        PROVE  DefinedAs(added[i], v[i], c.imported + i - 1)
    BY <2>4 DEF DefinedAs, Function
  <2> HIDE DEF added, m
  <2>3. /\ Len(both) = l + m /\ \A i \in 1..l : both[i] = c.functions[i]
        /\ \A i \in 1..m : both[l + i] = added[i]
    <3> DEFINE fs == c.functions
    <3>1. fs \in Seq(Functions) /\ l = Len(fs) /\ both = fs \o added
      BY <2>1
    <3>2. l \in Nat
      BY <3>1
    <3> HIDE DEF fs, l, both
    <3>3. /\ Len(both) = l + m
          /\ \A i \in 1..l + m :
               both[i] = IF i <= l THEN fs[i] ELSE added[i - l]
      BY <2>2, <3>1, ConcatProperties
    <3>4. \A i \in 1..l : i \in 1..l + m /\ i <= l
      BY <1>1, <3>2
    <3>5. \A i \in 1..m : l + i \in 1..l + m /\ ~(l + i <= l) /\ (l + i) - l = i
      BY <1>1, <3>2
    <3>6. \A i \in 1..l : both[i] = fs[i]
      BY <3>3, <3>4
    <3>7. \A i \in 1..m : both[l + i] = added[i]
      BY <3>3, <3>5
    <3> QED
      BY <3>3, <3>6, <3>7 DEF fs
  <2> QED
    BY <2>1, <2>3, <2>4, <2>5
<1>9. w \in Grown(c)
  BY <1>0, <1>7, FunctionSectionIn
<1> HIDE DEF both, total
<1>10. /\ w.result = c.result /\ w.imported = c.imported /\ w.total = total
       /\ w.functions = both /\ w.start = c.start
       /\ w.types = c.types /\ w.table = c.table
       /\ w.exported = c.exported
  BY <1>0 DEF Programs
<1>11. ProgSection(c, s) = w
  BY <1>7, ProgSectionFits
<1> HIDE DEF w, s
<1> QED
  BY <1>5, <1>8, <1>9, <1>10, <1>11 DEF Ready, s

LEMMA StartReady ==
  ASSUME NEW f, NEW k, Stands(f, k, 8), NEW c, Ready(f, k - 1, c)
  PROVE  LET y == ProgSection(c, f.sections[k]) IN
         /\ y \in Grown(c) /\ y.result = "OK"
         /\ y.array = c.array /\ y.imported = c.imported
         /\ y.total = c.total /\ y.functions = c.functions
         /\ y.start >= NofImports(f) /\ y.types = c.types
         /\ y.table = c.table /\ y.exported = c.exported
         /\ y.start = f.sections[k].vec[1]
<1> DEFINE s == f.sections[k]
           a == s.vec[1]
           y == [c EXCEPT !.start = a]
<1>1. /\ c \in Programs /\ Ordered(c) /\ SectionFits(s) /\ s.id = Id.start
  BY IdIs DEF Ready, Stands, Decoded, SectionFits
<1>2. StartSection(c, s) \in Grown(c)
  BY <1>1, OtherSectionsIn
<1>3. ProgSection(c, s) = StartSection(c, s) /\ StartSection(c, s) = y
  BY ProgSectionFits DEF StartSection
<1>4. a >= NofImports(f)
  BY ValidStart
<1> HIDE DEF a
<1>5. /\ y.result = c.result /\ y.array = c.array /\ y.imported = c.imported
      /\ y.total = c.total /\ y.functions = c.functions /\ y.start = a
      /\ y.types = c.types /\ y.table = c.table /\ y.exported = c.exported
  BY <1>1 DEF Programs
<1> HIDE DEF y
<1> QED
  BY <1>2, <1>3, <1>4, <1>5 DEF Ready, a

(* The elements of a section one after the other: W[i] are the programs    *)
(* that hold what the first i make of it.                                  *)
LEMMA ItemsUpTo ==
  ASSUME NEW f, NEW k, NEW id \in {1, 7, 9, 10}, Stands(f, k, id),
         NEW c, Ready(f, k - 1, c), NEW W, c \in W[0],
         \A i \in 0..Len(f.sections[k].vec) : W[i] \subseteq Steady(c, id),
         \A i \in 1..Len(f.sections[k].vec) : \A x \in W[i - 1] :
           \A y \in Steady(c, id) :
             Turned(c, id, i, f.sections[k].vec[i], x, y) => y \in W[i]
  PROVE  Items(c, f.sections[k]) \in W[Len(f.sections[k].vec)]
<1> DEFINE s == f.sections[k]
           v == s.vec
           V == Steady(c, id)
<1>1. SectionFits(s)
  BY DEF Stands, Decoded, SectionFits
<1>2. Len(v) \in Nat
  BY <1>1, VectorIn
<1>3. ASSUME NEW i \in 1..Len(v), NEW x \in V
      PROVE  Turned(c, id, i, v[i], x, Item(s, x, i)) /\ Item(s, x, i) \in V
  BY ItemSteady DEF Turned
<1>4. \A x \in V : x.result = "OK"
  BY DEF Steady
<1>5. c \in V
  BY StartsSteady
<1>6. \A i \in 0..Len(v) : W[i] \subseteq V
  OBVIOUS
<1>7. \A i \in 1..Len(v) : \A x \in W[i - 1] : \A y \in V :
        Turned(c, id, i, v[i], x, y) => y \in W[i]
  OBVIOUS
<1> HIDE DEF V, v, s
<1>8. ASSUME NEW i \in 1..Len(v), NEW x \in W[i - 1]
      PROVE  x.result = "OK" /\ Item(s, x, i) \in W[i]
  <2>1. i - 1 \in 0..Len(v)
    BY <1>2
  <2>2. x \in V
    BY <1>6, <2>1
  <2> QED
    BY <1>3, <1>4, <1>7, <2>2
<1>9. Items(c, s) \in W[Len(s.vec)]
  BY <1>2, <1>3, <1>5, <1>8, ItemsReach DEF v
<1> QED
  BY <1>9 DEF s, v

LEMMA TypesWritten ==
  ASSUME NEW f, NEW k, Stands(f, k, 1), NEW c, Ready(f, k - 1, c),
         c.types = <<>>
  PROVE  Items(c, f.sections[k]).types = f.sections[k].vec
<1> DEFINE v == f.sections[k].vec
           n == Len(v)
           V == Steady(c, 1)
           U(i) == {x \in V : Len(x.types) = i
                              /\ \A j \in 1..i : x.types[j] = v[j]}
           W == [i \in 0..n |-> U(i)]
<1>1. v \in Seq(Signatures) /\ n \in Nat
  <2>1. SectionFits(f.sections[k]) /\ f.sections[k].id = Id.type
    BY IdIs DEF Stands, Decoded, SectionFits
  <2> QED
    BY <2>1, ElementKinds DEF SectionFits
<1>2. c \in W[0]
  <2>1. c \in V
    BY StartsSteady
  <2>2. c \in U(0)
    BY <2>1
  <2> QED
    BY <1>1, <2>2
<1>3. ASSUME NEW i \in 1..n, NEW x \in W[i - 1], NEW y \in V,
             Turned(c, 1, i, v[i], x, y)
      PROVE  y \in W[i]
  <2>1. i - 1 \in 0..n /\ i \in 0..n
    BY <1>1
  <2>2. x \in U(i - 1)
    BY <2>1
  <2>3. x.types \in Seq(Signatures)
    BY <2>2 DEF Steady, Grown, Programs
  <2>4. y.types = Append(x.types, v[i])
    BY <1>3 DEF Turned
  <2>5. v[i] \in Signatures
    BY <1>1
  <2> DEFINE a == x.types
             b == y.types
  <2>6. Len(a) = i - 1 /\ \A j \in 1..i - 1 : a[j] = v[j]
    BY <2>2
  <2>7. a \in Seq(Signatures) /\ b = Append(a, v[i])
    BY <2>3, <2>4
  <2> HIDE DEF a, b, v, n
  <2>8. Len(b) = i /\ \A j \in 1..i : b[j] = v[j]
    BY <1>1, <2>5, <2>6, <2>7
  <2>9. y \in U(i)
    BY <2>8 DEF b
  <2> QED
    BY <2>1, <2>9
<1>4. \A i \in 0..n : W[i] \subseteq V
  OBVIOUS
<1>5. Items(c, f.sections[k]) \in W[n]
  <2> HIDE DEF W, V
  <2> QED
    BY <1>2, <1>3, <1>4, ItemsUpTo DEF V
<1> DEFINE t == Items(c, f.sections[k]).types
<1>6. t \in Seq(Signatures) /\ Len(t) = n /\ \A j \in 1..n : t[j] = v[j]
  <2>1. Items(c, f.sections[k]) \in U(n)
    BY <1>1, <1>5
  <2> QED
    BY <2>1 DEF Steady, Grown, Programs
<1> HIDE DEF t, v
<1>7. t = v
  BY <1>1, <1>6
<1> QED
  BY <1>7 DEF t, v

(* No section of the program of a valid file is refused. *)
LEMMA ReadyStep ==
  ASSUME NEW f, Decoded(f), Valid(f), NEW k \in 1..Len(f.sections),
         NEW c, Ready(f, k - 1, c)
  PROVE  Ready(f, k, ProgSection(c, f.sections[k]))
<1> DEFINE id == f.sections[k].id
           y == ProgSection(c, f.sections[k])
<1>0. Stands(f, k, id) /\ id \in 0..12 /\ k \in Nat /\ k > 0
  <2>1. id \in 0..12
    BY WellFormedFacts
  <2>2. Len(f.sections) \in Nat
    BY DEF Decoded
  <2> QED
    BY <2>1, <2>2 DEF Stands
<1>1. \A i : Seen(f, k, i) <=> Seen(f, k - 1, i) \/ id = i
  BY <1>0, SeenStep
<1> HIDE DEF id, y
<1>2. /\ c.result = "OK" /\ HostFound(c)
      /\ c.types = IF Seen(f, k - 1, 1) THEN Vec(f, "type") ELSE <<>>
      /\ ~Seen(f, k - 1, 9) => c.table = <<>>
      /\ ~Seen(f, k - 1, 2) /\ ~Seen(f, k - 1, 3) => c.array = 0
      /\ c.imported = IF Seen(f, k - 1, 2) THEN NofImports(f) ELSE 0
      /\ c.total = IF Seen(f, k - 1, 3) THEN Nof(f) ELSE c.imported
      /\ Len(c.functions) = c.total
      /\ c.start = NoStart \/ c.start >= NofImports(f)
  BY DEF Ready
<1>3. ASSUME y \in Grown(c)
      PROVE  y \in Programs /\ Ordered(y) /\ HostFound(y)
  <2>1. y.available = c.available
    BY <1>3 DEF Grown
  <2> QED
    BY <1>2, <1>3, <2>1 DEF Grown, HostFound
<1>9. CASE id = 1
  <2>1. Stands(f, k, 1) /\ Stands(f, k, Id["type"]) /\ Id["type"] \in 1..12
    BY <1>0, <1>9, NameOfId
  <2>2. ~Seen(f, k - 1, 1)
    <3>1. f.sections[k].id = 1 /\ Place(1) >= Place(1)
      BY <1>9, PlaceIs DEF id
    <3> QED
      BY <3>1, NotYetSeen
  <2>3. y = Items(c, f.sections[k]) /\ y \in Steady(c, 1)
    BY <2>1, SectionsAre, SectionsSteady DEF y
  <2>4. y.types = Vec(f, "type")
    <3>1. c.types = <<>>
      BY <1>2, <2>2
    <3>2. Items(c, f.sections[k]).types = f.sections[k].vec
      BY <2>1, <3>1, TypesWritten
    <3>3. Vec(f, "type") = f.sections[k].vec
      BY <2>1, VecOf
    <3> QED
      BY <2>3, <3>2, <3>3
  <2>5. /\ y \in Grown(c) /\ y.result = "OK"
        /\ y.array = c.array /\ y.imported = c.imported
        /\ y.total = c.total /\ Len(y.functions) = Len(c.functions)
        /\ y.start = c.start /\ y.table = c.table
    BY <2>3 DEF Steady
  <2>6. /\ Seen(f, k, 2) <=> Seen(f, k - 1, 2)
        /\ Seen(f, k, 3) <=> Seen(f, k - 1, 3)
        /\ Seen(f, k, 1)
        /\ ~Seen(f, k, 9) => ~Seen(f, k - 1, 9)
    BY <1>1, <1>9
  <2> QED
    BY <1>2, <1>3, <2>4, <2>5, <2>6 DEF Ready, y
<1>4. CASE id \in {0, 4, 5, 6, 7, 9, 10, 11, 12}
  <2>1. y \in Steady(c, id)
    BY <1>0, <1>4, SectionsSteady DEF y
  <2>2. /\ y \in Grown(c) /\ y.result = "OK"
        /\ y.array = c.array /\ y.imported = c.imported
        /\ y.total = c.total /\ Len(y.functions) = Len(c.functions)
        /\ y.start = c.start
        /\ y.types = c.types
        /\ id # 9 => y.table = c.table
    BY <1>4, <2>1 DEF Steady
  <2>3. /\ Seen(f, k, 2) <=> Seen(f, k - 1, 2)
        /\ Seen(f, k, 3) <=> Seen(f, k - 1, 3)
        /\ Seen(f, k, 1) <=> Seen(f, k - 1, 1)
        /\ ~Seen(f, k, 9) => ~Seen(f, k - 1, 9) /\ id # 9
    BY <1>1, <1>4
  <2> QED
    BY <1>2, <1>3, <2>2, <2>3 DEF Ready, y
<1>5. CASE id = 2
  <2>1. /\ y \in Grown(c) /\ y.result = "OK"
        /\ y.imported = NofImports(f) /\ y.total = NofImports(f)
        /\ Len(y.functions) = NofImports(f)
        /\ y.start = c.start /\ y.types = c.types /\ y.table = c.table
    BY <1>0, <1>5, ImportsReady DEF y
  <2>2. ~Seen(f, k - 1, 3)
    <3>1. f.sections[k].id = 2 /\ Place(3) >= Place(2)
      BY <1>5, PlaceIs DEF id
    <3> QED
      BY <3>1, NotYetSeen
  <2>3. Seen(f, k, 2) /\ ~Seen(f, k, 3)
        /\ (Seen(f, k, 1) <=> Seen(f, k - 1, 1))
        /\ (~Seen(f, k, 9) => ~Seen(f, k - 1, 9))
    BY <1>1, <1>5, <2>2
  <2> QED
    BY <1>2, <1>3, <2>1, <2>3 DEF Ready, y
<1>6. CASE id = 3
  <2>1. /\ y \in Grown(c) /\ y.result = "OK"
        /\ y.imported = c.imported /\ y.total = Nof(f)
        /\ Len(y.functions) = Nof(f)
        /\ y.start = c.start /\ y.types = c.types /\ y.table = c.table
    BY <1>0, <1>6, FunctionsReady DEF y
  <2>2. Seen(f, k, 3) /\ (Seen(f, k, 2) <=> Seen(f, k - 1, 2))
        /\ (Seen(f, k, 1) <=> Seen(f, k - 1, 1))
        /\ (~Seen(f, k, 9) => ~Seen(f, k - 1, 9))
    BY <1>1, <1>6
  <2> QED
    BY <1>2, <1>3, <2>1, <2>2 DEF Ready, y
<1>7. CASE id = 8
  <2>1. /\ y \in Grown(c) /\ y.result = "OK"
        /\ y.array = c.array /\ y.imported = c.imported
        /\ y.total = c.total /\ y.functions = c.functions
        /\ y.start >= NofImports(f) /\ y.types = c.types
        /\ y.table = c.table
    BY <1>0, <1>7, StartReady DEF y
  <2>2. /\ Seen(f, k, 2) <=> Seen(f, k - 1, 2)
        /\ Seen(f, k, 3) <=> Seen(f, k - 1, 3)
        /\ Seen(f, k, 1) <=> Seen(f, k - 1, 1)
        /\ ~Seen(f, k, 9) => ~Seen(f, k - 1, 9)
    BY <1>1, <1>7
  <2> QED
    BY <1>2, <1>3, <2>1, <2>2 DEF Ready, y
<1>8. \/ id \in {0, 4, 5, 6, 7, 9, 10, 11, 12}
      \/ id = 1 \/ id = 2 \/ id = 3 \/ id = 8
  BY <1>0
<1> QED
  BY <1>4, <1>5, <1>6, <1>7, <1>8, <1>9

-----------------------------------------------------------------------------
(* The data of a valid file *)

LEMMA SumOfNone ==
  ASSUME NEW counts, Len(counts) = 0
  PROVE  Sum(counts) = 0
<1> DEFINE n == Len(counts)
           Eq(h) == h = [i \in 0..n |->
                           IF i = 0 THEN 0 ELSE h[i - 1] + counts[i]]
           g == [i \in 0..0 |-> 0]
           w == CHOOSE h : Eq(h)
<1>1. Sum(counts) = w[n]
  BY DEF Sum
<1>2. Eq(g)
  OBVIOUS
<1>3. Eq(w)
  BY <1>2
<1> HIDE DEF w
<1>4. w[0] = 0
  BY <1>3
<1> QED
  BY <1>1, <1>4

LEMMA SumOfOne ==
  ASSUME NEW counts, Len(counts) = 1, counts[1] \in Nat
  PROVE  Sum(counts) = counts[1]
<1> DEFINE n == Len(counts)
           Eq(h) == h = [i \in 0..n |->
                           IF i = 0 THEN 0 ELSE h[i - 1] + counts[i]]
           g == [i \in 0..1 |-> IF i = 0 THEN 0 ELSE counts[1]]
           w == CHOOSE h : Eq(h)
<1>1. Sum(counts) = w[n]
  BY DEF Sum
<1>2. Eq(g)
  <2>1. ASSUME NEW i \in 0..n, i # 0
        PROVE  i = 1 /\ g[i - 1] + counts[i] = counts[1]
    BY <2>1
  <2> QED
    BY <2>1
<1>3. Eq(w)
  BY <1>2
<1> HIDE DEF w
<1>4. w[0] = 0 /\ w[1] = w[0] + counts[1]
  BY <1>3
<1> QED
  BY <1>1, <1>4

LEMMA ValidMemory ==
  ASSUME NEW f, NEW k, Stands(f, k, 5)
  PROVE  LET m == f.sections[k].vec[1] IN
         /\ Len(f.sections[k].vec) = 1
         /\ m.pages \in Nat /\ m.max \in Int /\ m.max <= MaxPages
         /\ MemorySize(f) = PageSize * m.pages
<1> DEFINE v == f.sections[k].vec
           E == Elements(5)
<1>0. Stands(f, k, Id["memory"]) /\ Id["memory"] \in 1..12
  BY NameOfId
<1>1. Vec(f, "memory") = v /\ DOMAIN v = 1..Len(v) /\ Len(v) \in Nat
  BY <1>0, VecOf
<1>2. ValidContents(f)
  BY DEF Stands, Valid
<1>3. Len(Vec(f, "memory")) <= 1
  BY <1>2 DEF ValidContents
<1>4. \A i \in DOMAIN Vec(f, "memory") : Vec(f, "memory")[i].max <= MaxPages
  BY <1>2 DEF ValidContents
<1>5. v # <<>> /\ v \in Seq(E)
  BY WellFormedFacts DEF Stands, Decoded
<1>6. Len(v) # 0 /\ \A i \in 1..Len(v) : v[i] \in E
  <2> HIDE DEF v, E
  <2> QED
    BY <1>5
<1>7. Len(v) = 1
  <2> HIDE DEF v
  <2> QED
    BY <1>1, <1>3, <1>6
<1> DEFINE m == v[1]
<1>8. m \in [pages : Nat, max : Int] /\ m.max <= MaxPages
  <2>1. E = [pages : Nat, max : Int]
    BY ElementKinds, IdIs
  <2>2. 1 \in DOMAIN v /\ 1 \in 1..Len(v)
    BY <1>1, <1>7
  <2>3. m \in E
    BY <1>6, <2>2
  <2>4. m.max <= MaxPages
    BY <1>1, <1>4, <2>2
  <2> QED
    BY <2>1, <2>3, <2>4
<1> DEFINE counts == [i \in DOMAIN v |-> v[i].pages]
<1>9. Len(counts) = 1 /\ counts[1] = m.pages
  BY <1>1, <1>7
<1>10. MemorySize(f) = PageSize * Sum(counts)
  BY <1>1 DEF MemorySize
<1> HIDE DEF counts, m
<1>11. m.pages \in Nat /\ m.max \in Int
  BY <1>8
<1>12. Sum(counts) = m.pages
  BY <1>9, <1>11, SumOfOne
<1> QED
  BY <1>7, <1>8, <1>10, <1>11, <1>12 DEF m

(* Expressions that can be evaluated one after the other *)
Defined(es) ==
  /\ es \in Seq(Exprs)
  /\ \A i \in 1..Len(es) :
       es[i].op # "none" /\ (es[i].op = "get" => es[i].arg \in 0..i - 2)

LEMMA ValueNat ==
  ASSUME NEW g \in Seq(Nat), NEW e \in Exprs, e.op # "none",
         e.op = "get" => e.arg \in 0..Len(g) - 1
  PROVE  Value(g, e) \in Nat
<1>1. e.arg \in Nat /\ e.op \in {"const", "get", "none"}
  BY DEF Exprs
<1>2. CASE e.op = "const"
  BY <1>1, <1>2 DEF Value
<1>3. CASE e.op # "const"
  <2>1. e.arg + 1 \in 1..Len(g)
    BY <1>1, <1>3
  <2>2. g[e.arg + 1] \in Nat
    BY <2>1
  <2> QED
    BY <1>3, <2>2 DEF Value
<1> QED
  BY <1>2, <1>3

LEMMA ValuesSteps ==
  ASSUME NEW es, Defined(es)
  PROVE  /\ Values(es)[0] = <<>>
         /\ \A i \in 1..Len(es) :
              Values(es)[i] =
                Append(Values(es)[i - 1], Value(Values(es)[i - 1], es[i]))
         /\ \A i \in 0..Len(es) :
              Values(es)[i] \in Seq(Nat) /\ Len(Values(es)[i]) = i
<1> DEFINE n == Len(es)
           More(x, i) == Append(x, Value(x, es[i]))
           Turn(x, i) == IF Len(x) = i - 1 THEN More(x, i) ELSE x
           Eq(h) == h = [i \in 0..n |->
                           IF i = 0 THEN <<>>
                           ELSE Append(h[i - 1], Value(h[i - 1], es[i]))]
           F == [i \in 1..n |-> [x \in Seq(Nat) |-> Turn(x, i)]]
           w == CHOOSE h : Eq(h)
<1>1. Values(es) = w
  BY DEF Values
<1>2. n \in Nat /\ <<>> \in Seq(Nat)
  BY DEF Defined
<1>3. ASSUME NEW i \in 1..n, NEW x \in Seq(Nat), Len(x) = i - 1
      PROVE  More(x, i) \in Seq(Nat) /\ Len(More(x, i)) = i
  <2> DEFINE e == es[i]
             a == Value(x, e)
  <2>1. e \in Exprs /\ e.op # "none" /\ (e.op = "get" => e.arg \in 0..i - 2)
    BY DEF Defined
  <2> HIDE DEF e
  <2>2. e.op = "get" => e.arg \in 0..Len(x) - 1
    BY <1>2, <1>3, <2>1
  <2>3. a \in Nat
    BY <2>1, <2>2, ValueNat
  <2> HIDE DEF a
  <2>4. Append(x, a) \in Seq(Nat) /\ Len(Append(x, a)) = i
    BY <1>2, <1>3, <2>3
  <2> QED
    BY <2>4 DEF a, e
<1>4. \A h : Eq(h) <=> h = [i \in 0..n |-> IF i = 0 THEN <<>>
                                          ELSE More(h[i - 1], i)]
  OBVIOUS
<1> HIDE DEF n, More, Eq
<1>5. Steps(F, n, Seq(Nat))
  <2>1. \A i \in 1..n : \A x \in Seq(Nat) : Turn(x, i) \in Seq(Nat)
    BY <1>3
  <2> HIDE DEF Turn
  <2> QED
    BY <2>1 DEF Steps
<1>6. PICK g : Runs(g, <<>>, F, n, Seq(Nat))
  <2> HIDE DEF F
  <2> QED
    BY <1>2, <1>5, Recursion
<1>7. g \in [0..n -> Seq(Nat)] /\ g[0] = <<>>
  BY <1>6 DEF Runs
<1>8. ASSUME NEW i \in 1..n
      PROVE  g[i] = Turn(g[i - 1], i)
  <2>1. i - 1 \in 0..n
    BY <1>2
  <2>2. g[i - 1] \in Seq(Nat)
    BY <1>7, <2>1
  <2>3. g[i] = F[i][g[i - 1]]
    <3> HIDE DEF F
    <3> QED
      BY <1>6 DEF Runs
  <2> HIDE DEF Turn
  <2> QED
    BY <2>2, <2>3 DEF F
<1> DEFINE S == {i \in 0..n : Len(g[i]) = i}
<1>9. 0 \in S
  BY <1>2, <1>7
<1>10. ASSUME NEW i \in 0..(n - 1), i \in S
       PROVE  i + 1 \in S /\ g[i + 1] = More(g[i], i + 1)
  <2>1. i + 1 \in 1..n /\ (i + 1) - 1 = i /\ i \in 0..n /\ i + 1 \in 0..n
    BY <1>2
  <2>2. g[i] \in Seq(Nat) /\ Len(g[i]) = (i + 1) - 1
    BY <1>7, <1>10, <2>1
  <2>3. g[i + 1] = More(g[i], i + 1)
    BY <1>8, <2>1, <2>2
  <2>4. Len(g[i + 1]) = i + 1
    BY <1>3, <2>1, <2>2, <2>3
  <2> QED
    BY <2>1, <2>3, <2>4
<1>11. 0..n \subseteq S
  <2> HIDE DEF S
  <2> QED
    BY <1>2, <1>9, <1>10, UpTo
<1>12. \A i \in 1..n : g[i] = More(g[i - 1], i)
  <2>1. ASSUME NEW i \in 1..n
        PROVE  g[i] = More(g[i - 1], i)
    <3>1. i - 1 \in 0..(n - 1) /\ i - 1 \in 0..n /\ (i - 1) + 1 = i
      BY <1>2
    <3>2. i - 1 \in S
      BY <1>11, <3>1
    <3>3. g[(i - 1) + 1] = More(g[i - 1], (i - 1) + 1)
      BY <1>10, <3>1, <3>2
    <3> QED
      BY <3>1, <3>3
  <2> QED
    BY <2>1
<1>13. Eq(g)
  <2>1. ASSUME NEW i \in 0..n
        PROVE  g[i] = IF i = 0 THEN <<>> ELSE More(g[i - 1], i)
    <3>1. i = 0 \/ i \in 1..n
      BY <1>2
    <3> QED
      BY <1>7, <1>12, <3>1
  <2>2. g = [i \in 0..n |-> IF i = 0 THEN <<>> ELSE More(g[i - 1], i)]
    BY <1>7, <2>1
  <2> QED
    BY <1>4, <2>2
<1>14. Eq(w)
  BY <1>13
<1> HIDE DEF w
<1>15. w = [i \in 0..n |-> IF i = 0 THEN <<>> ELSE More(w[i - 1], i)]
  BY <1>4, <1>14
<1>16. w[0] = <<>>
  BY <1>2, <1>15
<1>17. ASSUME NEW i \in 1..n
       PROVE  w[i] = More(w[i - 1], i)
  <2>1. i \in 0..n /\ i # 0
    BY <1>2
  <2> QED
    BY <1>15, <2>1
<1> DEFINE T == {i \in 0..n : w[i] \in Seq(Nat) /\ Len(w[i]) = i}
<1>18. 0 \in T
  <2>1. w[0] \in Seq(Nat) /\ Len(w[0]) = 0
    BY <1>16
  <2> QED
    BY <1>2, <2>1
<1>19. ASSUME NEW i \in 0..(n - 1), i \in T
       PROVE  i + 1 \in T
  <2>1. i + 1 \in 1..n /\ (i + 1) - 1 = i /\ i + 1 \in 0..n
    BY <1>2
  <2>2. w[i] \in Seq(Nat) /\ Len(w[i]) = (i + 1) - 1
    BY <1>19, <2>1
  <2>3. w[i + 1] = More(w[i], i + 1)
    BY <1>17, <2>1
  <2>4. w[i + 1] \in Seq(Nat) /\ Len(w[i + 1]) = i + 1
    BY <1>3, <2>1, <2>2, <2>3
  <2> QED
    BY <2>1, <2>4
<1>20. 0..n \subseteq T
  <2> HIDE DEF T
  <2> QED
    BY <1>2, <1>18, <1>19, UpTo
<1> QED
  BY <1>1, <1>16, <1>17, <1>20 DEF n, More

LEMMA ValidGlobals ==
  ASSUME NEW f, Decoded(f), Valid(f)
  PROVE  Defined(Vec(f, "global"))
<1> DEFINE es == Vec(f, "global")
<1>1. es \in Seq(Exprs)
  <2>1. Id["global"] \in 1..12 /\ Elements(Id["global"]) = Exprs
    BY NameOfId, ElementKinds, IdIs
  <2>2. es \in Seq(Elements(Id["global"]))
    BY <2>1, VecIn
  <2> QED
    BY <2>1, <2>2
<1>2. ValidContents(f)
  BY DEF Valid
<1>3. \A i \in DOMAIN es :
        es[i].op # "none" /\ (es[i].op = "get" => es[i].arg \in 0..i - 2)
  BY <1>2 DEF ValidContents
<1> HIDE DEF es
<1>4. DOMAIN es = 1..Len(es)
  BY <1>1
<1>5. Defined(es)
  BY <1>1, <1>3, <1>4 DEF Defined
<1> QED
  BY <1>5 DEF es

LEMMA GlobalsIn ==
  ASSUME NEW f, Decoded(f), Valid(f)
  PROVE  /\ Globals(f) \in Seq(Nat)
         /\ Vec(f, "global") = <<>> => Globals(f) = <<>>
<1> DEFINE es == Vec(f, "global")
<1>1. Defined(es) /\ Globals(f) = Values(es)[Len(es)]
  BY ValidGlobals DEF Globals
<1> HIDE DEF es
<1>2. Len(es) \in 0..Len(es)
  BY <1>1 DEF Defined
<1>3. Values(es)[Len(es)] \in Seq(Nat)
  BY <1>1, <1>2, ValuesSteps
<1>4. es = <<>> => Values(es)[Len(es)] = <<>>
  <2>1. es = <<>> => Len(es) = 0
    OBVIOUS
  <2> QED
    BY <1>1, <2>1, ValuesSteps
<1> QED
  BY <1>1, <1>3, <1>4 DEF es

LEMMA NoMemory ==
  ASSUME NEW f, Vec(f, "memory") = <<>>
  PROVE  MemorySize(f) = 0
<1> DEFINE v == Vec(f, "memory")
           counts == [i \in DOMAIN v |-> v[i].pages]
<1>1. MemorySize(f) = PageSize * Sum(counts)
  BY DEF MemorySize
<1>2. Len(counts) = 0
  <2>1. counts = <<>>
    OBVIOUS
  <2> QED
    BY <2>1
<1> HIDE DEF counts
<1>3. Sum(counts) = 0
  BY <1>2, SumOfNone
<1> QED
  BY <1>1, <1>3, LoaderFacts

(* The data after the first k sections of a valid file *)
DataReady(f, k, c) ==
  /\ c \in Datas /\ c.result = "OK"
  /\ ~Seen(f, k, 11) => c.lower = FALSE
  /\ c.globals = IF Seen(f, k, 6) THEN Globals(f) ELSE <<>>
  /\ c.pages * PageSize = IF Seen(f, k, 5) THEN MemorySize(f) ELSE 0

(* The data when the globals so far are gs *)
AfterGlobals(c, gs) ==
  {x \in Datas : /\ x.result = "OK" /\ x.globals = gs
                 /\ x.lower = c.lower /\ x.pages = c.pages
                 /\ x.memory = c.memory /\ x.call = c.call}

LEMMA GlobalNext ==
  ASSUME NEW c, NEW gs \in Seq(Nat), NEW x \in AfterGlobals(c, gs),
         NEW e \in Exprs, e.op # "none",
         e.op = "get" => e.arg \in 0..Len(gs) - 1
  PROVE  GlobalEntry(x, e) \in AfterGlobals(c, Append(gs, Value(gs, e)))
<1> DEFINE a == Append(gs, Value(gs, e))
           y == [x EXCEPT !.globals = a]
<1>1. x \in Datas /\ x.globals = gs
  BY DEF AfterGlobals
<1>2. InitExprResult(x, e) = "OK"
  <2>1. e.op \in {"const", "get", "none"} /\ e.arg \in Nat
    BY DEF Exprs
  <2>2. CASE e.op = "const"
    BY <2>2 DEF InitExprResult
  <2>3. CASE e.op = "get"
    <3>1. e.arg < Len(x.globals)
      BY <1>1, <2>1, <2>3
    <3> QED
      BY <2>3, <3>1 DEF InitExprResult
  <2> QED
    BY <2>1, <2>2, <2>3
<1>3. GlobalEntry(x, e) = y
  BY <1>1, <1>2 DEF GlobalEntry
<1>4. GlobalEntry(x, e) \in Datas
  BY <1>1, GlobalEntryIn
<1> HIDE DEF a
<1>5. /\ y.result = x.result /\ y.globals = a /\ y.lower = x.lower
      /\ y.pages = x.pages /\ y.memory = x.memory /\ y.call = x.call
  BY <1>1 DEF Datas
<1> HIDE DEF y
<1>6. GlobalEntry(x, e) \in AfterGlobals(c, a)
  BY <1>3, <1>4, <1>5 DEF AfterGlobals
<1> QED
  BY <1>6 DEF a

LEMMA DataPassFits ==
  ASSUME NEW f, NEW k, NEW id, Stands(f, k, id), NEW c
  PROVE  LET s == f.sections[k] IN
         /\ id = 5 => DataPassSection(c, s) = MemorySection(c, s)
         /\ id = 6 => DataPassSection(c, s) = GlobalSection(c, s)
         /\ id = 11 => DataPassSection(c, s) = DataSection(c, s)
<1> DEFINE s == f.sections[k]
           parsed ==
             CASE s.id = Id.memory -> MemorySection(c, s)
               [] s.id = Id.global -> GlobalSection(c, s)
               [] s.id = Id.data   -> DataSection(c, s)
               [] s.id \in 0..12 \ {Id.memory, Id.global, Id.data} -> c
               [] OTHER               -> Refused(c, "UNKNOWN_SECTION")
<1>1. s.fits /\ s.id = id
  BY WellFormedFacts DEF Stands
<1>2. DataPassSection(c, s) = parsed
  BY <1>1 DEF DataPassSection
<1> HIDE DEF s
<1>3. id = 5 => parsed = MemorySection(c, s)
  BY <1>1, IdIs
<1>4. id = 6 => parsed = GlobalSection(c, s)
  BY <1>1, IdIs
<1>5. id = 11 => parsed = DataSection(c, s)
  BY <1>1, IdIs
<1> HIDE DEF parsed
<1> QED
  BY <1>2, <1>3, <1>4, <1>5 DEF s

LEMMA DataPassSkips ==
  ASSUME NEW f, NEW k, NEW id \in {0, 1, 2, 3, 4, 7, 8, 9, 10, 12},
         Stands(f, k, id), NEW c, DataReady(f, k - 1, c)
  PROVE  DataPassSection(c, f.sections[k]) = c
<1> DEFINE s == f.sections[k]
<1>1. s.fits /\ s.id = id
  BY WellFormedFacts DEF Stands
<1> HIDE DEF s
<1>2. /\ s.id # Id.memory /\ s.id # Id.global /\ s.id # Id.data
      /\ s.id \in 0..12 \ {Id.memory, Id.global, Id.data}
  BY <1>1, IdIs
<1>3. DataPassSection(c, s) = c
  BY <1>1, <1>2 DEF DataPassSection
<1> QED
  BY <1>3 DEF s

LEMMA MemoryReady ==
  ASSUME NEW f, NEW k, Stands(f, k, 5), NEW c, DataReady(f, k - 1, c)
  PROVE  LET y == DataPassSection(c, f.sections[k]) IN
         /\ y \in Datas /\ y.result = "OK" /\ y.lower = c.lower
         /\ y.globals = c.globals /\ y.pages * PageSize = MemorySize(f)
         /\ y.memory = c.memory /\ y.call = c.call
<1> DEFINE s == f.sections[k]
           m == s.vec[1]
           y == DataPassSection(c, s)
<1>1. /\ Decoded(f) /\ Valid(f) /\ k \in 1..Len(f.sections) /\ s.id = 5
      /\ SectionFits(s) /\ c \in Datas
  BY DEF Stands, Decoded, SectionFits, DataReady
<1>2. c.lower = FALSE
  <2>1. Place(11) >= Place(5)
    BY PlaceIs
  <2>2. ~Seen(f, k - 1, 11)
    BY <1>1, <2>1, NotYetSeen
  <2> QED
    BY <2>2 DEF DataReady
<1>3. /\ Len(s.vec) = 1 /\ m.pages \in Nat /\ m.max \in Int
      /\ m.max <= MaxPages /\ MemorySize(f) = PageSize * m.pages
  BY ValidMemory
<1>4. y \in Datas
  BY <1>1, DataPassSectionIn
<1> DEFINE p == m.pages
           q == m.max
           u == [c EXCEPT !.pages = p, !.maximum = MaxPages]
           w == [u EXCEPT !.maximum = q]
<1>5. y \in {u, w}
  <2>1. ~(q > MaxPages)
    <3>1. q \in Int /\ q <= MaxPages
      BY <1>3
    <3> HIDE DEF q
    <3> QED
      BY <3>1, LoaderFacts
  <2>2. MemorySection(c, s) \in {u, w}
    BY <1>2, <1>3, <2>1 DEF MemorySection
  <2> QED
    BY <2>2, DataPassFits
<1>6. MemorySize(f) = PageSize * p /\ p \in Nat
  BY <1>3
<1> HIDE DEF y, p, q
<1>7. /\ u.result = c.result /\ u.lower = c.lower /\ u.globals = c.globals
      /\ u.pages = p /\ u.memory = c.memory /\ u.call = c.call
      /\ w.result = c.result /\ w.lower = c.lower /\ w.globals = c.globals
      /\ w.pages = p /\ w.memory = c.memory /\ w.call = c.call
  BY <1>1 DEF Datas
<1> HIDE DEF u, w
<1>8. p * PageSize = PageSize * p
  BY <1>6, LoaderFacts
<1> QED
  BY <1>4, <1>5, <1>6, <1>7, <1>8 DEF y, DataReady

LEMMA GlobalsReady ==
  ASSUME NEW f, NEW k, Stands(f, k, 6), NEW c, DataReady(f, k - 1, c)
  PROVE  DataPassSection(c, f.sections[k]) \in AfterGlobals(c, Globals(f))
<1> DEFINE s == f.sections[k]
           es == s.vec
           n == Len(es)
           vs == Values(es)
<1>1. /\ Decoded(f) /\ Valid(f) /\ k \in 1..Len(f.sections) /\ s.id = 6
      /\ SectionFits(s) /\ s.id = Id.global /\ c \in Datas
  BY IdIs DEF Stands, Decoded, SectionFits, DataReady
<1>2. Vec(f, "global") = es
  <2>1. Stands(f, k, Id["global"]) /\ Id["global"] \in 1..12
    BY NameOfId
  <2> QED
    BY <2>1, VecOf
<1>3. Defined(es) /\ Globals(f) = vs[n]
  BY <1>1, <1>2, ValidGlobals DEF Globals
<1>4. c.globals = <<>>
  <2>1. Place(6) >= Place(6)
    BY PlaceIs
  <2>2. ~Seen(f, k - 1, 6)
    BY <1>1, <2>1, NotYetSeen
  <2> QED
    BY <2>2 DEF DataReady
<1>5. ~(n > MaxNof)
  BY <1>1, VectorFits
<1>6. DataPassSection(c, s) = Items(c, s)
  <2>1. GlobalSection(c, s) = Items(c, s)
    BY <1>4, <1>5 DEF GlobalSection
  <2> QED
    BY <2>1, DataPassFits
<1>7. ASSUME NEW i \in 1..n, NEW x \in Datas
      PROVE  Item(s, x, i) = GlobalEntry(x, es[i]) /\ Item(s, x, i) \in Datas
  <2>1. es[i] \in Exprs
    BY <1>3 DEF Defined
  <2>2. Item(s, x, i) = GlobalEntry(x, es[i])
    BY <1>1, ItemIs
  <2> QED
    BY <2>1, <2>2, GlobalEntryIn
<1>8. n \in Nat
  BY <1>3 DEF Defined
<1>9. PICK g : Loop(g, Datas, c, s)
  <2> HIDE DEF s
  <2> QED
    BY <1>1, <1>7, <1>8, ItemsLoop DEF n, es
<1>10. /\ g[0] = c /\ Items(c, s) = g[n]
       /\ \A i \in 1..n : g[i - 1].result = "OK" =>
            g[i] = Item(s, g[i - 1], i)
  BY <1>9 DEF Loop
<1>11. /\ vs[0] = <<>>
       /\ \A i \in 1..n : vs[i] = Append(vs[i - 1], Value(vs[i - 1], es[i]))
       /\ \A i \in 0..n : vs[i] \in Seq(Nat) /\ Len(vs[i]) = i
  <2> HIDE DEF es
  <2> QED
    BY <1>3, ValuesSteps
<1> HIDE DEF vs, n
<1> DEFINE S == {i \in 0..n : g[i] \in AfterGlobals(c, vs[i])}
<1>12. 0 \in S
  BY <1>1, <1>4, <1>8, <1>10, <1>11 DEF AfterGlobals, DataReady
<1>13. ASSUME NEW i \in 0..(n - 1), i \in S
       PROVE  i + 1 \in S
  <2> DEFINE e == es[i + 1]
             x == g[i]
  <2>1. i + 1 \in 1..n /\ (i + 1) - 1 = i /\ i \in 0..n /\ i + 1 \in 0..n
    BY <1>8
  <2>2. x \in AfterGlobals(c, vs[i]) /\ x.result = "OK" /\ x \in Datas
    BY <1>13 DEF AfterGlobals
  <2>3. g[i + 1] = GlobalEntry(x, e)
    BY <1>7, <1>10, <2>1, <2>2
  <2>4. /\ e \in Exprs /\ e.op # "none"
        /\ e.op = "get" => e.arg \in 0..(i + 1) - 2
    BY <1>3, <2>1 DEF Defined, n
  <2>5. vs[i] \in Seq(Nat) /\ Len(vs[i]) = i
    BY <1>11, <2>1
  <2>6. vs[i + 1] = Append(vs[i], Value(vs[i], e))
    BY <1>11, <2>1
  <2> HIDE DEF x, e
  <2>7. e.op = "get" => e.arg \in 0..Len(vs[i]) - 1
    BY <1>8, <2>4, <2>5
  <2>8. GlobalEntry(x, e)
          \in AfterGlobals(c, Append(vs[i], Value(vs[i], e)))
    BY <2>2, <2>4, <2>5, <2>7, GlobalNext
  <2> QED
    BY <2>1, <2>3, <2>6, <2>8
<1>14. 0..n \subseteq S
  <2> HIDE DEF S
  <2> QED
    BY <1>8, <1>12, <1>13, UpTo
<1>15. n \in S
  <2>1. n \in 0..n
    BY <1>8
  <2> QED
    BY <1>14, <2>1
<1> QED
  BY <1>3, <1>6, <1>10, <1>15

(* What a data segment leaves as it is *)
DataSteady(c) ==
  {x \in Datas : /\ x.result = "OK" /\ x.globals = c.globals
                 /\ x.pages = c.pages /\ x.call = c.call}

(* Memory with bytes laid over it *)
Laid(memory, at, bytes) ==
  [a \in DOMAIN memory \cup at..at + Len(bytes) - 1 |->
     IF a \in at..at + Len(bytes) - 1 THEN bytes[a - at + 1] ELSE memory[a]]

LEMMA ModBelow ==
  ASSUME NEW x \in Nat, NEW n \in Nat \ {0}
  PROVE  x % n \in Nat /\ x % n <= x
OBVIOUS

LEMMA SegmentSteady ==
  ASSUME NEW c, NEW x \in DataSteady(c), NEW s \in Elements(Id.data),
         s.memory = 0, s.offset.op # "none",
         s.offset.op = "get" => s.offset.arg \in 0..Len(c.globals) - 1,
         Value(c.globals, s.offset) + Len(s.bytes) <= c.pages * PageSize
  PROVE  /\ Segment(x, s) \in DataSteady(c)
         /\ Segment(x, s).memory
              = Laid(x.memory, Value(c.globals, s.offset), s.bytes)
<1> DEFINE offset == Value(x.globals, s.offset)
           n == Len(s.bytes)
           room == x.pages * PageSize
           bytes == offset..offset + n - 1
           image == [a \in DOMAIN x.memory \cup bytes |->
                       IF a \in bytes THEN s.bytes[a - offset + 1]
                       ELSE x.memory[a]]
           some == x.lower \/ offset + n \in 1..AddressSpace - 1
           y == [x EXCEPT !.lower = some, !.memory = image]
<1>1. /\ x \in Datas /\ x.globals = c.globals /\ x.pages = c.pages
      /\ x.globals \in Seq(Nat) /\ x.pages \in Nat
  BY DEF DataSteady, Datas
<1>2. s.offset \in Exprs /\ n \in Nat
  BY ElementKinds
<1>3. InitExprResult(x, s.offset) = "OK"
  <2> DEFINE e == s.offset
  <2>1. e.op \in {"const", "get", "none"} /\ e.arg \in Nat /\ e.op # "none"
        /\ (e.op = "get" => e.arg \in 0..Len(x.globals) - 1)
    BY <1>1, <1>2 DEF Exprs
  <2> HIDE DEF e
  <2>2. CASE e.op = "const"
    BY <2>2 DEF InitExprResult, e
  <2>3. CASE e.op = "get"
    <3>1. e.arg < Len(x.globals)
      BY <1>1, <2>1, <2>3
    <3> QED
      BY <2>3, <3>1 DEF InitExprResult, e
  <2> QED
    BY <2>1, <2>2, <2>3
<1>4. ~((offset + n) % AddressSpace > room)
  <2>1. offset \in Nat
    BY <1>1, <1>2, ValueNat
  <2>2. offset + n <= room
    BY <1>1
  <2>3. room \in Nat
    BY <1>1, LoaderFacts
  <2> DEFINE end == offset + n
  <2>4. end \in Nat /\ end <= room /\ room \in Nat
    BY <1>2, <2>1, <2>2, <2>3
  <2> HIDE DEF end, room
  <2>5. end % AddressSpace <= end /\ end % AddressSpace \in Nat
    BY <2>4, ModBelow, LoaderAssumption
  <2>6. ~(end % AddressSpace > room)
    BY <2>4, <2>5
  <2> QED
    BY <2>6 DEF end
<1>5. Segment(x, s) = y
  BY <1>3, <1>4 DEF Segment
<1>6. Segment(x, s) \in Datas
  BY <1>1, SegmentIn
<1>7. image = Laid(x.memory, Value(c.globals, s.offset), s.bytes)
  BY <1>1 DEF Laid
<1> HIDE DEF some, image
<1>8. /\ y.result = x.result /\ y.globals = x.globals /\ y.pages = x.pages
      /\ y.call = x.call /\ y.memory = image
  BY <1>1 DEF Datas
<1> HIDE DEF y
<1> QED
  BY <1>1, <1>5, <1>6, <1>7, <1>8 DEF DataSteady

LEMMA ValidSegments ==
  ASSUME NEW f, NEW k, Stands(f, k, 11)
  PROVE  \A i \in 1..Len(f.sections[k].vec) :
           LET s == f.sections[k].vec[i] IN
           /\ s.memory = 0 /\ s.offset.op # "none"
           /\ s.offset.op = "get" => s.offset.arg \in 0..Len(Globals(f)) - 1
           /\ Value(Globals(f), s.offset) + Len(s.bytes) <= MemorySize(f)
<1> DEFINE v == f.sections[k].vec
<1>0. Stands(f, k, Id["data"]) /\ Id["data"] \in 1..12
  BY NameOfId
<1>1. Vec(f, "data") = v /\ DOMAIN v = 1..Len(v)
  BY <1>0, VecOf
<1>2. ValidContents(f)
  BY DEF Stands, Valid
<1>3. \A i \in DOMAIN Vec(f, "data") :
        LET s == Vec(f, "data")[i] IN
        /\ s.memory = 0 /\ s.offset.op # "none"
        /\ s.offset.op = "get" => s.offset.arg \in 0..Len(Globals(f)) - 1
        /\ Value(Globals(f), s.offset) + Len(s.bytes) <= MemorySize(f)
  BY <1>2 DEF ValidContents
<1> QED
  BY <1>1, <1>3

LEMMA SegmentItem ==
  ASSUME NEW f, NEW k, Stands(f, k, 11), NEW c, DataReady(f, k - 1, c),
         NEW i \in 1..Len(f.sections[k].vec), NEW x \in DataSteady(c)
  PROVE  LET e == f.sections[k].vec[i]
             y == Item(f.sections[k], x, i)
         IN /\ y \in DataSteady(c)
            /\ y.memory = Laid(x.memory, Value(Globals(f), e.offset), e.bytes)
<1> DEFINE s == f.sections[k]
           v == s.vec
           n == Len(v)
<1>1. /\ Decoded(f) /\ Valid(f) /\ k \in 1..Len(f.sections) /\ s.id = 11
      /\ SectionFits(s) /\ s.id = Id.data
  BY IdIs DEF Stands, Decoded, SectionFits
<1>2. \A j \in 1..n : v[j] \in Elements(Id.data)
  BY <1>1, VectorIn
<1>5. Place(6) < Place(f.sections[k].id) /\ Place(5) < Place(f.sections[k].id)
  BY <1>1, PlaceIs
<1>6. c.globals = Globals(f)
  <2>1. CASE Seen(f, k - 1, 6)
    BY <2>1 DEF DataReady
  <2>2. CASE ~Seen(f, k - 1, 6)
    <3>1. Id["global"] = 6
      BY NameOfId
    <3>2. Vec(f, "global") = <<>>
      BY <1>1, <1>5, <2>2, <3>1, AlreadySeen
    <3> QED
      BY <1>1, <2>2, <3>2, GlobalsIn DEF DataReady
  <2> QED
    BY <2>1, <2>2
<1>7. c.pages * PageSize = MemorySize(f)
  <2>1. CASE Seen(f, k - 1, 5)
    BY <2>1 DEF DataReady
  <2>2. CASE ~Seen(f, k - 1, 5)
    <3>1. Id["memory"] = 5
      BY NameOfId
    <3>2. Vec(f, "memory") = <<>>
      BY <1>1, <1>5, <2>2, <3>1, AlreadySeen
    <3> QED
      BY <2>2, <3>2, NoMemory DEF DataReady
  <2> QED
    BY <2>1, <2>2
<1>8. \A j \in 1..n :
        /\ v[j].memory = 0 /\ v[j].offset.op # "none"
        /\ v[j].offset.op = "get" =>
             v[j].offset.arg \in 0..Len(c.globals) - 1
        /\ Value(c.globals, v[j].offset) + Len(v[j].bytes)
             <= c.pages * PageSize
  BY <1>6, <1>7, ValidSegments
<1>9. Item(s, x, i) = Segment(x, v[i])
  BY <1>1, ItemIs
<1> DEFINE e == v[i]
           y == Item(s, x, i)
<1>10. /\ e \in Elements(Id.data) /\ e.memory = 0 /\ e.offset.op # "none"
       /\ e.offset.op = "get" => e.offset.arg \in 0..Len(c.globals) - 1
       /\ Value(c.globals, e.offset) + Len(e.bytes) <= c.pages * PageSize
       /\ y = Segment(x, e)
  BY <1>2, <1>8, <1>9
<1> HIDE DEF e, y
<1>11. y \in DataSteady(c)
       /\ y.memory = Laid(x.memory, Value(c.globals, e.offset), e.bytes)
  BY <1>10, SegmentSteady
<1> QED
  BY <1>6, <1>11 DEF e, y

LEMMA SegmentsAre ==
  ASSUME NEW f, NEW k, Stands(f, k, 11), NEW c
  PROVE  DataPassSection(c, f.sections[k]) = Items(c, f.sections[k])
<1> DEFINE s == f.sections[k]
           n == Len(s.vec)
<1>1. ~(n > MaxNof)
  BY VectorFits
<1>2. DataSection(c, s) = Items(c, s)
  BY <1>1 DEF DataSection
<1> QED
  BY <1>2, DataPassFits

LEMMA SegmentsReady ==
  ASSUME NEW f, NEW k, Stands(f, k, 11), NEW c, DataReady(f, k - 1, c)
  PROVE  DataPassSection(c, f.sections[k]) \in DataSteady(c)
<1> DEFINE s == f.sections[k]
           n == Len(s.vec)
           V == DataSteady(c)
<1>1. SectionFits(s) /\ c \in V
  BY DEF Stands, Decoded, SectionFits, DataReady, DataSteady
<1>2. n \in Nat
  BY <1>1, VectorIn
<1>3. ASSUME NEW i \in 1..n, NEW x \in V
      PROVE  Item(s, x, i) \in V
  BY SegmentItem
<1>4. Items(c, s) \in V
  <2> HIDE DEF V, s
  <2> QED
    BY <1>1, <1>2, <1>3, ItemsIn DEF n
<1> QED
  BY <1>4, SegmentsAre

(* No section of the data of a valid file is refused. *)
LEMMA DataReadyStep ==
  ASSUME NEW f, Decoded(f), Valid(f), NEW k \in 1..Len(f.sections),
         NEW c, DataReady(f, k - 1, c)
  PROVE  DataReady(f, k, DataPassSection(c, f.sections[k]))
<1> DEFINE id == f.sections[k].id
           y == DataPassSection(c, f.sections[k])
<1>0. Stands(f, k, id) /\ id \in 0..12 /\ k \in Nat /\ k > 0
  <2>1. id \in 0..12
    BY WellFormedFacts
  <2>2. Len(f.sections) \in Nat
    BY DEF Decoded
  <2> QED
    BY <2>1, <2>2 DEF Stands
<1>1. \A i : Seen(f, k, i) <=> Seen(f, k - 1, i) \/ id = i
  BY <1>0, SeenStep
<1> HIDE DEF id, y
<1>2. /\ c \in Datas /\ c.result = "OK"
      /\ ~Seen(f, k - 1, 11) => c.lower = FALSE
      /\ c.globals = IF Seen(f, k - 1, 6) THEN Globals(f) ELSE <<>>
      /\ c.pages * PageSize = IF Seen(f, k - 1, 5) THEN MemorySize(f) ELSE 0
  BY DEF DataReady
<1>3. CASE id \in {0, 1, 2, 3, 4, 7, 8, 9, 10, 12}
  <2>1. y = c
    <3>1. DataPassSection(c, f.sections[k]) = c
      BY <1>0, <1>3, DataPassSkips
    <3> QED
      BY <1>0, <1>3, <3>1 DEF y
  <2>2. /\ Seen(f, k, 5) <=> Seen(f, k - 1, 5)
        /\ Seen(f, k, 6) <=> Seen(f, k - 1, 6)
        /\ Seen(f, k, 11) <=> Seen(f, k - 1, 11)
    BY <1>1, <1>3
  <2> QED
    BY <1>2, <2>1, <2>2 DEF DataReady, y
<1>4. CASE id = 5
  <2>1. /\ y \in Datas /\ y.result = "OK" /\ y.lower = c.lower
        /\ y.globals = c.globals /\ y.pages * PageSize = MemorySize(f)
    BY <1>0, <1>4, MemoryReady DEF y
  <2>2. /\ Seen(f, k, 5)
        /\ Seen(f, k, 6) <=> Seen(f, k - 1, 6)
        /\ Seen(f, k, 11) <=> Seen(f, k - 1, 11)
    BY <1>1, <1>4
  <2> QED
    BY <1>2, <2>1, <2>2 DEF DataReady, y
<1>5. CASE id = 6
  <2>1. y \in AfterGlobals(c, Globals(f))
    BY <1>0, <1>5, GlobalsReady DEF y
  <2>2. /\ Seen(f, k, 6)
        /\ Seen(f, k, 5) <=> Seen(f, k - 1, 5)
        /\ Seen(f, k, 11) <=> Seen(f, k - 1, 11)
    BY <1>1, <1>5
  <2> QED
    BY <1>2, <2>1, <2>2 DEF DataReady, AfterGlobals, y
<1>6. CASE id = 11
  <2>1. y \in DataSteady(c)
    BY <1>0, <1>6, SegmentsReady DEF y
  <2>2. /\ Seen(f, k, 11)
        /\ Seen(f, k, 5) <=> Seen(f, k - 1, 5)
        /\ Seen(f, k, 6) <=> Seen(f, k - 1, 6)
    BY <1>1, <1>6
  <2> QED
    BY <1>2, <2>1, <2>2 DEF DataReady, DataSteady, y
<1> QED
  BY <1>0, <1>3, <1>4, <1>5, <1>6

-----------------------------------------------------------------------------
(* Valid files are loaded *)

FoundSoFar(c, n) ==
  \A i \in 1..Len(Available) :
    i < n => Find(c.available, ImportName(Available[i][1], Available[i][2]))
               # Null

(* The program before there is a file *)
Registering ==
  /\ file = NoFile /\ result = <<>> /\ data = NoData
  /\ prog.types = <<>> /\ prog.functions = <<>> /\ prog.array = 0
  /\ prog.imported = 0 /\ prog.total = 0 /\ prog.table = <<>>
  /\ prog.start = NoStart /\ prog.result = "OK"
  /\ FoundSoFar(prog, next)

AllOK == \A i \in DOMAIN result : result[i] = "OK"

Loading ==
  /\ stage # "abort" /\ AllOK
  /\ stage = "program" => /\ next <= Len(file.sections) + 1
                          /\ Ready(file, next - 1, prog) /\ data = NoData
  /\ stage = "data" => /\ next <= Len(file.sections) + 1
                       /\ DataReady(file, next - 1, data)
                       /\ prog.start = NoStart \/ prog.start >= prog.imported

LoadInv ==
  /\ stage = "register" => Registering
  /\ Valid(file) => stage # "register" /\ Loading

LEMMA NoFileInvalid == ~Valid(NoFile)
BY DEF Valid, WellFormed, NoFile

LEMMA InitLoad ==
  ASSUME Init
  PROVE  LoadInv
<1>1. Registering
  <2>1. next = 1 /\ prog = NoProg
    BY DEF Init
  <2>2. FoundSoFar(prog, next)
    BY <2>1 DEF FoundSoFar
  <2> QED
    BY <2>1, <2>2 DEF Init, Registering, NoProg
<1>2. ~Valid(file)
  BY NoFileInvalid DEF Init
<1> QED
  BY <1>1, <1>2 DEF LoadInv

LEMMA RegisterLoad ==
  ASSUME IInv, LoadInv, Register
  PROVE  LoadInv'
<1>1. stage = "register" /\ Registering
  BY DEF Register, LoadInv
<1> DEFINE l == prog.available
           name(i) == ImportName(Available[i][1], Available[i][2])
           key == name(next)
           ptr == <<next>>
           m == Put(l, key, ptr)
<1>2. next \in 1..Len(Available) /\ Len(Available) \in Nat
  <2>1. Len(Available) \in Nat
    BY LoaderAssumption
  <2> QED
    BY <2>1 DEF Register, IInv
<1>3. prog' = [prog EXCEPT !.available = m]
  BY DEF Register
<1>4. l \in Lists /\ prog \in Programs
  BY DEF IInv, Programs
<1>5. \A i \in 1..Len(Available) : name(i) \in Words /\ Len(name(i)) <= MaxKeySize
  BY RegisteredName
<1>6. ptr \in Words /\ ptr # Null
  BY <1>2 DEF Words, Null
<1>7. \A i \in 1..Len(Available) : i < next => Find(l, name(i)) # Null
  BY <1>1 DEF Registering, FoundSoFar
<1> HIDE DEF name, ptr, l
<1>8. /\ Find(m, key) = (IF Find(l, key) # Null THEN Find(l, key) ELSE ptr)
      /\ \A k \in Words : Len(k) <= MaxKeySize /\ k # key =>
           Find(m, k) = Find(l, k)
  <2>1. key \in Words /\ Len(key) <= MaxKeySize
    BY <1>2, <1>5
  <2> HIDE DEF key
  <2> QED
    BY <1>4, <1>6, <2>1, PutFinds
<1>9. \A i \in 1..Len(Available) : i < next + 1 => Find(m, name(i)) # Null
  <2>1. SUFFICES ASSUME NEW i \in 1..Len(Available), i < next + 1
                 PROVE  Find(m, name(i)) # Null
    OBVIOUS
  <2>2. CASE name(i) = key
    <3> HIDE DEF m
    <3> QED
      BY <1>6, <1>8, <2>2
  <2>3. CASE name(i) # key
    <3>1. i < next
      BY <1>2, <2>1, <2>3
    <3> HIDE DEF m
    <3> QED
      BY <1>5, <1>7, <1>8, <2>3, <3>1
  <2> QED
    BY <2>2, <2>3
<1> HIDE DEF m
<1>10. /\ prog'.available = m /\ prog'.types = prog.types
       /\ prog'.functions = prog.functions /\ prog'.array = prog.array
       /\ prog'.imported = prog.imported /\ prog'.total = prog.total
       /\ prog'.table = prog.table /\ prog'.start = prog.start
       /\ prog'.result = prog.result
  BY <1>3, <1>4 DEF Programs
<1>11. /\ file' = file /\ stage' = stage /\ result' = result /\ data' = data
       /\ next' = next + 1
  BY DEF Register
<1>12. FoundSoFar(prog', next')
  BY <1>9, <1>10, <1>11 DEF FoundSoFar, name
<1>13. Registering'
  BY <1>1, <1>10, <1>11, <1>12 DEF Registering
<1>14. ~Valid(file')
  <2>1. file' = NoFile
    BY <1>1, <1>11 DEF Registering
  <2> QED
    BY <2>1, NoFileInvalid
<1> QED
  BY <1>13, <1>14 DEF LoadInv

LEMMA OpenLoad ==
  ASSUME IInv, LoadInv, OpenFile
  PROVE  LoadInv'
<1>1. stage = "register" /\ Registering
  BY DEF OpenFile, LoadInv
<1>2. /\ prog' = prog /\ data' = data /\ next' = 1
      /\ stage' \in {"program", "data"}
      /\ file'.magic => stage' = "program" /\ result' = result
  BY DEF OpenFile
<1>3. ASSUME Valid(file')
      PROVE  Loading'
  <2>1. file'.magic
    BY <1>3 DEF Valid, WellFormed
  <2>2. stage' = "program" /\ result' = <<>> /\ data' = NoData
    BY <1>1, <1>2, <2>1 DEF Registering
  <2>3. HostFound(prog)
    <3>1. next \in Nat /\ next > Len(Available) /\ Len(Available) \in Nat
      BY LoaderAssumption DEF IInv, OpenFile
    <3>2. \A i \in 1..Len(Available) : i < next
      BY <3>1
    <3> QED
      BY <1>1, <3>2 DEF Registering, FoundSoFar, HostFound
  <2>4. \A f, i : ~Seen(f, 0, i)
    BY DEF Seen
  <2>5. Ready(file', 0, prog)
    <3>1. prog \in Programs /\ Ordered(prog)
      BY DEF IInv
    <3> QED
      BY <1>1, <2>3, <2>4, <3>1 DEF Registering, Ready
  <2>6. next' <= Len(file'.sections) + 1 /\ next' - 1 = 0
    <3>1. Len(file'.sections) \in Nat
      BY LoaderAssumption DEF OpenFile, Decoded
    <3> QED
      BY <1>2, <3>1
  <2>7. AllOK'
    BY <2>2 DEF AllOK
  <2> QED
    BY <1>2, <2>2, <2>5, <2>6, <2>7 DEF Loading
<1> QED
  BY <1>2, <1>3 DEF LoadInv

LEMMA OneMore ==
  ASSUME result \in Seq(Results), AllOK, result' = Append(result, "OK")
  PROVE  AllOK'
<1> DEFINE r == result
           R == Results
<1>1. "OK" \in R
  BY DEF Results
<1> HIDE DEF R
<1>2. r \in Seq(R) /\ \A i \in DOMAIN r : r[i] = "OK"
  BY DEF AllOK, R
<1> HIDE DEF r
<1>3. \A i \in DOMAIN Append(r, "OK") : Append(r, "OK")[i] = "OK"
  <2>1. Len(r) \in Nat /\ DOMAIN r = 1..Len(r)
    BY <1>2
  <2>2. /\ DOMAIN Append(r, "OK") = 1..Len(r) + 1
        /\ Append(r, "OK")[Len(r) + 1] = "OK"
        /\ \A i \in 1..Len(r) : Append(r, "OK")[i] = r[i]
    BY <1>1, <1>2
  <2> QED
    BY <1>2, <2>1, <2>2
<1> QED
  BY <1>3 DEF AllOK, r

LEMMA NextSection ==
  ASSUME IInv, next <= Len(file.sections)
  PROVE  /\ next \in 1..Len(file.sections) /\ Decoded(file)
         /\ next + 1 <= Len(file.sections) + 1 /\ (next + 1) - 1 = next
<1>1. next \in Nat /\ next > 0 /\ Decoded(file)
  BY DEF IInv
<1>2. Len(file.sections) \in Nat
  BY <1>1 DEF Decoded
<1> QED
  BY <1>1, <1>2

LEMMA ProgLoad ==
  ASSUME IInv, LoadInv, ParseProgSection
  PROVE  LoadInv'
<1>0. stage = "program" /\ file' = file /\ data' = data
  BY DEF ParseProgSection
<1>1. ASSUME Valid(file')
      PROVE  Loading' /\ stage' # "register"
  <2>0. Valid(file)
    BY <1>0, <1>1
  <2>1. Loading
    BY <2>0 DEF LoadInv
  <2>2. /\ next \in 1..Len(file.sections) /\ Decoded(file)
        /\ next + 1 <= Len(file.sections) + 1 /\ (next + 1) - 1 = next
    BY NextSection DEF ParseProgSection
  <2>3. Ready(file, next - 1, prog) /\ data = NoData /\ AllOK
    BY <1>0, <2>1 DEF Loading
  <2>4. Ready(file, next, prog')
    <3>1. prog' = ProgSection(prog, file.sections[next])
      BY DEF ParseProgSection
    <3>2. Ready(file, next, ProgSection(prog, file.sections[next]))
      BY <2>0, <2>2, <2>3, ReadyStep
    <3> QED
      BY <3>1, <3>2
  <2>5. next' = next + 1 /\ stage' = stage /\ result' = result
    <3>1. prog'.result = "OK"
      BY <2>4 DEF Ready
    <3> QED
      BY <3>1 DEF ParseProgSection, Goes
  <2>6. AllOK' /\ next' - 1 = next /\ next' <= Len(file'.sections) + 1
    BY <1>0, <2>2, <2>3, <2>5 DEF AllOK
  <2> QED
    BY <1>0, <2>3, <2>4, <2>5, <2>6 DEF Loading
<1>2. stage' # "register"
  BY <1>0 DEF ParseProgSection, Goes
<1> QED
  BY <1>1, <1>2 DEF LoadInv

LEMMA ParsedLoad ==
  ASSUME IInv, LoadInv, ProgramParsed
  PROVE  LoadInv'
<1>0. /\ stage = "program" /\ file' = file /\ data' = data /\ prog' = prog
      /\ stage' = "data" /\ next' = 1 /\ result' = Append(result, "OK")
  BY DEF ProgramParsed
<1>1. ASSUME Valid(file')
      PROVE  Loading'
  <2>0. Valid(file) /\ Decoded(file)
    BY <1>0, <1>1 DEF IInv
  <2>1. Ready(file, next - 1, prog) /\ data = NoData /\ AllOK
    BY <1>0, <2>0 DEF LoadInv, Loading
  <2>2. AllOK'
    BY <1>0, <2>1, OneMore DEF IInv, ResultsFit
  <2>3. prog.start = NoStart \/ prog.start >= prog.imported
    <3>1. prog.start \in Int /\ NofImports(file) \in Nat
      BY <2>0, NofIs DEF IInv, Programs
    <3>2. prog.imported = NofImports(file) \/ prog.imported = 0
      BY <2>1 DEF Ready
    <3>3. prog.start = NoStart \/ prog.start >= NofImports(file)
      BY <2>1 DEF Ready
    <3> QED
      BY <3>1, <3>2, <3>3
  <2>4. DataReady(file, 0, data)
    <3>1. data \in Datas
      BY DEF IInv
    <3>2. \A i : ~Seen(file, 0, i)
      BY DEF Seen
    <3>3. /\ data.result = "OK" /\ data.lower = FALSE /\ data.globals = <<>>
          /\ data.pages * PageSize = 0
      BY <2>1, LoaderFacts DEF NoData
    <3> QED
      BY <3>1, <3>2, <3>3 DEF DataReady
  <2>5. next' <= Len(file.sections) + 1 /\ next' - 1 = 0
    BY <1>0, <2>0 DEF Decoded
  <2> QED
    BY <1>0, <2>2, <2>3, <2>4, <2>5 DEF Loading
<1> QED
  BY <1>0, <1>1 DEF LoadInv

LEMMA DataLoad ==
  ASSUME IInv, LoadInv, ParseDataSection
  PROVE  LoadInv'
<1>0. stage = "data" /\ file' = file /\ prog' = prog
  BY DEF ParseDataSection
<1>1. ASSUME Valid(file')
      PROVE  Loading'
  <2>0. Valid(file)
    BY <1>0, <1>1
  <2>1. Loading
    BY <2>0 DEF LoadInv
  <2>2. /\ next \in 1..Len(file.sections) /\ Decoded(file)
        /\ next + 1 <= Len(file.sections) + 1 /\ (next + 1) - 1 = next
    BY NextSection DEF ParseDataSection
  <2>3. /\ DataReady(file, next - 1, data) /\ AllOK
        /\ prog.start = NoStart \/ prog.start >= prog.imported
    BY <1>0, <2>1 DEF Loading
  <2>4. DataReady(file, next, data')
    <3>1. data' = DataPassSection(data, file.sections[next])
      BY DEF ParseDataSection
    <3>2. DataReady(file, next, DataPassSection(data, file.sections[next]))
      BY <2>0, <2>2, <2>3, DataReadyStep
    <3> QED
      BY <3>1, <3>2
  <2>5. next' = next + 1 /\ stage' = stage /\ result' = result
    <3>1. data'.result = "OK"
      BY <2>4 DEF DataReady
    <3> QED
      BY <3>1 DEF ParseDataSection, Goes
  <2>6. AllOK' /\ next' - 1 = next /\ next' <= Len(file'.sections) + 1
    BY <1>0, <2>2, <2>3, <2>5 DEF AllOK
  <2> QED
    BY <1>0, <2>3, <2>4, <2>5, <2>6 DEF Loading
<1>2. stage' # "register"
  BY <1>0 DEF ParseDataSection, Goes
<1> QED
  BY <1>1, <1>2 DEF LoadInv

LEMMA StartLoad ==
  ASSUME IInv, LoadInv, DataParsed
  PROVE  LoadInv'
<1>0. /\ stage = "data" /\ file' = file /\ prog' = prog
      /\ stage' = "loaded" /\ data' = StartSetUp(data)
      /\ result' = Append(result, data'.result)
  BY DEF DataParsed
<1>1. ASSUME Valid(file')
      PROVE  Loading'
  <2>0. Valid(file)
    BY <1>0, <1>1
  <2>1. /\ DataReady(file, next - 1, data) /\ AllOK
        /\ prog.start = NoStart \/ prog.start >= prog.imported
    BY <1>0, <2>0 DEF LoadInv, Loading
  <2>2. data'.result = "OK"
    <3> DEFINE y == [data EXCEPT !.call = prog.start]
    <3>1. prog.start = NoStart \/ ~(prog.start < prog.imported)
      <4>1. prog.start \in Int /\ prog.imported \in Int
        BY DEF IInv, Programs
      <4> QED
        BY <2>1, <4>1
    <3>2. StartSetUp(data) \in {data, y}
      BY <3>1 DEF StartSetUp
    <3>3. data \in Datas /\ data.result = "OK"
      BY <2>1 DEF DataReady
    <3>4. y.result = "OK"
      BY <3>3 DEF Datas
    <3> HIDE DEF y
    <3> QED
      BY <1>0, <3>2, <3>3, <3>4
  <2>3. AllOK'
    BY <1>0, <2>1, <2>2, OneMore DEF IInv, ResultsFit
  <2> QED
    BY <1>0, <2>3 DEF Loading
<1> QED
  BY <1>0, <1>1 DEF LoadInv

LEMMA StutterLoad ==
  ASSUME LoadInv, UNCHANGED vars
  PROVE  LoadInv'
<1>1. /\ file' = file /\ stage' = stage /\ next' = next
      /\ result' = result /\ prog' = prog /\ data' = data
  BY DEF vars
<1> QED
  BY <1>1 DEF LoadInv, Registering, Loading, AllOK

LEMMA AlwaysLoad == Spec => []LoadInv
<1>1. ASSUME IInv, LoadInv, [Next]_vars
      PROVE  LoadInv'
  BY <1>1, RegisterLoad, OpenLoad, ProgLoad, ParsedLoad, DataLoad, StartLoad,
     StutterLoad DEF Next
<1> QED
  BY <1>1, InitLoad, AlwaysIInv, PTL DEF Spec

(* Whatever a valid module within the limits holds, and in whatever places *)
(* its custom sections stand: when the host provides what it imports, no   *)
(* check of either pass refuses it and no assertion fails.  Code:          *)
(* dwac_parse_prog_sections, dwac_parse_data_sections, run_init_expr and   *)
(* what they call.                                                         *)
THEOREM ValidLoad == Spec => []ValidModulesLoad
<1>1. LoadInv => ValidModulesLoad
  BY DEF LoadInv, Loading, AllOK, ValidModulesLoad
<1> QED
  BY <1>1, AlwaysLoad, PTL
-----------------------------------------------------------------------------
(* What the sections of a valid file write *)

ExportedAs(list, array, e) ==
  e.kind = "func" => Find(list, e.name) = <<array, e.index>>

LEMMA ValidNames ==
  ASSUME NEW f, NEW k, Stands(f, k, 7), NEW i \in 1..Len(f.sections[k].vec),
         NEW j \in 1..Len(f.sections[k].vec),
         f.sections[k].vec[i].name = f.sections[k].vec[j].name
  PROVE  i = j
<1>1. Stands(f, k, Id["export"]) /\ Id["export"] \in 1..12
  BY NameOfId
<1>2. /\ Vec(f, "export") = f.sections[k].vec
      /\ DOMAIN f.sections[k].vec = 1..Len(f.sections[k].vec)
  BY <1>1, VecOf
<1>3. ValidExports(f)
  BY DEF Stands, Valid
<1>4. \A a, b \in DOMAIN Vec(f, "export") :
        Vec(f, "export")[a].name = Vec(f, "export")[b].name => a = b
  BY <1>3 DEF ValidExports
<1> QED
  BY <1>2, <1>4

(* The lists of names that hold the first i of the exports v *)
Named(v, i, array) ==
  {l \in Lists :
     /\ \A key \in Words :
          Len(key) <= MaxKeySize /\ Find(l, key) # Null =>
            \E j \in 1..i : key = v[j].name
     /\ \A j \in 1..i : ExportedAs(l, array, v[j])}

LEMMA NamedNext ==
  ASSUME NEW v, NEW array \in Nat, NEW i \in Nat, i > 0,
         \A j \in 1..i : v[j] \in Elements(Id.export)
                         /\ Len(v[j].name) <= MaxName,
         \A j \in 1..i - 1 : v[j].name # v[i].name,
         NEW l \in Named(v, i - 1, array)
  PROVE  (IF v[i].kind = "func" THEN Put(l, v[i].name, <<array, v[i].index>>)
          ELSE l) \in Named(v, i, array)
<1> DEFINE name == v[i].name
           ptr == <<array, v[i].index>>
           m == Put(l, name, ptr)
<1>1. \A j \in 1..i : v[j].name \in Words /\ Len(v[j].name) <= MaxKeySize
                      /\ v[j].index \in Nat
  <2>1. ASSUME NEW j \in 1..i
        PROVE  v[j].name \in Words /\ v[j].index \in Nat
    BY ElementKinds DEF Words
  <2>2. \A j \in 1..i : Len(v[j].name) <= MaxKeySize
    BY LoaderFacts
  <2> QED
    BY <2>1, <2>2
<1>2. i \in 1..i /\ i - 1 \in Nat /\ \A j \in 1..i : j = i \/ j \in 1..i - 1
  OBVIOUS
<1>3. /\ l \in Lists
      /\ \A key \in Words :
           Len(key) <= MaxKeySize /\ Find(l, key) # Null =>
             \E j \in 1..i - 1 : key = v[j].name
      /\ \A j \in 1..i - 1 : ExportedAs(l, array, v[j])
  BY DEF Named
<1>4. name \in Words /\ Len(name) <= MaxKeySize
  BY <1>1, <1>2
<1>5. 1..i - 1 \subseteq 1..i
  OBVIOUS
<1>6. CASE v[i].kind = "func"
  <2>1. ptr \in Words /\ ptr # Null
    <3>1. v[i].index \in Nat
      BY <1>1, <1>2
    <3>2. ptr \in Words
      BY <3>1 DEF Words
    <3>3. ptr # <<>>
      OBVIOUS
    <3> QED
      BY <3>2, <3>3 DEF Null
  <2>2. Find(l, name) = Null
    BY <1>3, <1>4
  <2> HIDE DEF ptr, name
  <2>3. /\ m \in Lists /\ Find(m, name) = ptr
        /\ \A key \in Words : Len(key) <= MaxKeySize /\ key # name =>
             Find(m, key) = Find(l, key)
    BY <1>3, <1>4, <2>1, <2>2, PutDoes, PutFinds
  <2> HIDE DEF m
  <2>4. ASSUME NEW key \in Words, Len(key) <= MaxKeySize, Find(m, key) # Null
        PROVE  \E j \in 1..i : key = v[j].name
    <3>1. CASE key = name
      BY <1>2, <3>1 DEF name
    <3>2. CASE key # name
      <4>1. PICK j \in 1..i - 1 : key = v[j].name
        BY <1>3, <2>3, <2>4, <3>2
      <4> QED
        BY <1>5, <4>1
    <3> QED
      BY <3>1, <3>2
  <2>5. ASSUME NEW j \in 1..i
        PROVE  ExportedAs(m, array, v[j])
    <3>1. CASE j = i
      BY <2>3, <3>1 DEF ExportedAs, name, ptr
    <3>2. CASE j # i
      <4>1. j \in 1..i - 1 /\ v[j].name # name
        BY <1>2, <3>2 DEF name
      <4>2. Find(m, v[j].name) = Find(l, v[j].name)
        BY <1>1, <2>3, <4>1
      <4> QED
        BY <1>3, <4>1, <4>2 DEF ExportedAs
    <3> QED
      BY <3>1, <3>2
  <2>6. m \in Named(v, i, array)
    BY <2>3, <2>4, <2>5 DEF Named
  <2> QED
    BY <1>6, <2>6 DEF m, name, ptr
<1>7. CASE v[i].kind # "func"
  <2>1. ASSUME NEW key \in Words, Len(key) <= MaxKeySize, Find(l, key) # Null
        PROVE  \E j \in 1..i : key = v[j].name
    <3>1. PICK j \in 1..i - 1 : key = v[j].name
      BY <1>3, <2>1
    <3> QED
      BY <1>5, <3>1
  <2>2. \A j \in 1..i : ExportedAs(l, array, v[j])
    BY <1>2, <1>3, <1>7 DEF ExportedAs
  <2>3. l \in Named(v, i, array)
    BY <1>3, <2>1, <2>2 DEF Named
  <2> QED
    BY <1>7, <2>3
<1> QED
  BY <1>6, <1>7

LEMMA ExportsWritten ==
  ASSUME NEW f, NEW k, Stands(f, k, 7), NEW c, Ready(f, k - 1, c),
         Content(c.exported.array) = {}
  PROVE  \A j \in 1..Len(f.sections[k].vec) :
           ExportedAs(Items(c, f.sections[k]).exported, c.array,
                      f.sections[k].vec[j])
<1> DEFINE v == f.sections[k].vec
           n == Len(v)
           V == Steady(c, 7)
           a == c.array
           U(i) == {x \in V : x.exported \in Named(v, i, a)}
           W == [i \in 0..n |-> U(i)]
<1>0. /\ c \in Programs /\ a \in Nat
      /\ SectionFits(f.sections[k]) /\ f.sections[k].id = Id.export
  BY IdIs DEF Ready, Programs, Stands, Decoded, SectionFits
<1>1. n \in Nat /\ \A i \in 1..n : /\ v[i] \in Elements(Id.export)
                                   /\ Len(v[i].name) <= MaxName
  BY <1>0, VectorIn, ValidExported
<1>2. \A i, j \in 1..n : v[i].name = v[j].name => i = j
  BY ValidNames
<1>3. c \in W[0]
  <2>1. c \in V
    BY StartsSteady
  <2> DEFINE l == c.exported
  <2>2. l \in Lists /\ Content(l.array) = {}
    BY <1>0 DEF Programs
  <2> HIDE DEF l, v
  <2>3. \A key \in Words : Len(key) <= MaxKeySize => Find(l, key) = Null
    BY <2>2, FindIs
  <2>4. l \in Named(v, 0, a)
    BY <2>2, <2>3 DEF Named
  <2> QED
    BY <1>1, <2>1, <2>4 DEF l
<1>4. ASSUME NEW i \in 1..n, NEW x \in W[i - 1], NEW y \in V,
             Turned(c, 7, i, v[i], x, y)
      PROVE  y \in W[i]
  <2>1. i - 1 \in 0..n /\ i \in 0..n /\ i \in Nat /\ i > 0
    BY <1>1
  <2>2. x \in V /\ x.exported \in Named(v, i - 1, a)
    BY <2>1
  <2>3. x.array = a
    BY <2>2 DEF Steady
  <2>4. y.exported = IF v[i].kind = "func"
                     THEN Put(x.exported, v[i].name, <<a, v[i].index>>)
                     ELSE x.exported
    BY <1>4, <2>3 DEF Turned, Exported
  <2>5. \A j \in 1..i : j \in 1..n
    BY <1>1
  <2>6. \A j \in 1..i - 1 : j \in 1..n /\ j # i
    BY <1>1
  <2> DEFINE l == x.exported
             m == y.exported
  <2> HIDE DEF v, a, n, l, m
  <2>7. m \in Named(v, i, a)
    <3>1. \A j \in 1..i : v[j] \in Elements(Id.export)
                          /\ Len(v[j].name) <= MaxName
      BY <1>1, <2>5
    <3>2. \A j \in 1..i - 1 : v[j].name # v[i].name
      BY <1>2, <2>6
    <3>3. l \in Named(v, i - 1, a)
      BY <2>2 DEF l
    <3>4. m = IF v[i].kind = "func" THEN Put(l, v[i].name, <<a, v[i].index>>)
              ELSE l
      BY <2>4 DEF l, m
    <3>5. a \in Nat /\ i \in Nat /\ i > 0
      BY <1>0, <2>1
    <3> QED
      BY <3>1, <3>2, <3>3, <3>4, <3>5, NamedNext
  <2> QED
    BY <2>1, <2>7 DEF m
<1>5. \A i \in 0..n : W[i] \subseteq V
  OBVIOUS
<1>6. Items(c, f.sections[k]) \in W[n]
  <2> HIDE DEF W, V
  <2> QED
    BY <1>3, <1>4, <1>5, ItemsUpTo DEF V
<1>7. Items(c, f.sections[k]) \in U(n)
  BY <1>1, <1>6
<1> QED
  BY <1>7 DEF Named

(* What a segment <<offset, items>> makes of n places that held x. *)
Placed(x, n, segment) ==
  [a \in 0..n - 1 |->
     IF a - segment[1] \in 0..Len(segment[2]) - 1
     THEN segment[2][a - segment[1] + 1]
     ELSE x[a]]

(* Overwritten, unfolded: as a recursion over the segments. *)
LEMMA OverwrittenSteps ==
  ASSUME NEW none \in Int, NEW n, NEW segments,
         Len(segments) \in Nat,
         \A k \in 1..Len(segments) :
           segments[k][1] \in Nat /\ segments[k][2] \in Seq(Int)
  PROVE  LET image == Overwritten(segments, none, n) IN
         /\ image[0] = [a \in 0..n - 1 |-> none]
         /\ \A k \in 1..Len(segments) :
              image[k] = Placed(image[k - 1], n, segments[k])
<1> DEFINE m == Len(segments)
           V == [0..n - 1 -> Int]
           v0 == [a \in 0..n - 1 |-> none]
           Turn(x, k) ==
             [a \in 0..n - 1 |->
                IF a - segments[k][1] \in 0..Len(segments[k][2]) - 1
                THEN segments[k][2][a - segments[k][1] + 1]
                ELSE x[a]]
           Eq(h) == h = [k \in 0..m |->
                  IF k = 0 THEN [a \in 0..n - 1 |-> none]
                  ELSE LET at == segments[k][1]
                           items == segments[k][2]
                       IN [a \in 0..n - 1 |->
                             IF a - at \in 0..Len(items) - 1
                             THEN items[a - at + 1]
                             ELSE h[k - 1][a]]]
           F == [k \in 1..m |-> [x \in V |-> Turn(x, k)]]
           w == CHOOSE h : Eq(h)
<1>1. Overwritten(segments, none, n) = w
  BY DEF Overwritten
<1>2. m \in Nat /\ v0 \in V /\ \A k \in 1..m : \A x \in V : Turn(x, k) \in V
  <2>1. ASSUME NEW k \in 1..m, NEW x \in V
        PROVE  Turn(x, k) \in V
    <3> DEFINE at == segments[k][1]
               items == segments[k][2]
    <3>1. at \in Nat /\ items \in Seq(Int)
      OBVIOUS
    <3> HIDE DEF at, items
    <3>2. ASSUME NEW a \in 0..n - 1
          PROVE  (IF a - at \in 0..Len(items) - 1 THEN items[a - at + 1]
                  ELSE x[a]) \in Int
      <4>1. x[a] \in Int
        OBVIOUS
      <4>2. ASSUME a - at \in 0..Len(items) - 1
            PROVE  items[a - at + 1] \in Int
        <5>1. a - at + 1 \in 1..Len(items)
          <6> DEFINE l == Len(items)
          <6>1. l \in Nat /\ a \in Int
            BY <3>1
          <6> HIDE DEF l
          <6> QED
            BY <3>1, <4>2, <6>1 DEF l
        <5> QED
          BY <3>1, <5>1
      <4> QED
        BY <4>1, <4>2
    <3>3. [a \in 0..n - 1 |-> IF a - at \in 0..Len(items) - 1
                              THEN items[a - at + 1] ELSE x[a]] \in V
      BY <3>2
    <3> QED
      BY <3>3 DEF at, items
  <2> QED
    BY <2>1
<1>3. \A h : Eq(h) <=> h = [k \in 0..m |-> IF k = 0 THEN v0
                                          ELSE Turn(h[k - 1], k)]
  OBVIOUS
<1> HIDE DEF m, V, v0, Turn, Eq
<1>4. Steps(F, m, V)
  BY <1>2 DEF Steps
<1>5. PICK g : Runs(g, v0, F, m, V)
  <2> HIDE DEF F
  <2> QED
    BY <1>2, <1>4, Recursion
<1>6. Eq(g)
  <2>1. g \in [0..m -> V] /\ g[0] = v0
    BY <1>5 DEF Runs
  <2>2. ASSUME NEW k \in 0..m, k # 0
        PROVE  g[k] = Turn(g[k - 1], k)
    <3>1. k \in 1..m /\ k - 1 \in 0..m
      BY <1>2, <2>2
    <3>2. g[k - 1] \in V
      BY <2>1, <3>1
    <3>3. g[k] = F[k][g[k - 1]]
      <4> HIDE DEF F
      <4> QED
        BY <1>5, <3>1 DEF Runs
    <3> QED
      BY <3>1, <3>2, <3>3
  <2>3. g = [k \in 0..m |-> IF k = 0 THEN v0 ELSE Turn(g[k - 1], k)]
    BY <2>1, <2>2
  <2> QED
    BY <1>3, <2>3
<1>7. Eq(w)
  BY <1>6
<1> HIDE DEF w
<1>8. w = [k \in 0..m |-> IF k = 0 THEN v0 ELSE Turn(w[k - 1], k)]
  BY <1>3, <1>7
<1>9. w[0] = v0
  BY <1>2, <1>8
<1>10. ASSUME NEW k \in 1..m
       PROVE  w[k] = Turn(w[k - 1], k)
  <2>1. k \in 0..m /\ k # 0
    BY <1>2
  <2> QED
    BY <1>8, <2>1
<1> QED
  BY <1>1, <1>9, <1>10 DEF m, v0, Turn, Placed

(* Where entry j of a table is after a run of entries has been set. *)
LEMMA SetFromIs ==
  ASSUME NEW s \in Seq(Nat), NEW at \in Nat, NEW entries \in Seq(Nat),
         NEW j \in Nat
  PROVE  LET t == SetFrom(s, at, entries) IN
         /\ j - at \in 0..Len(entries) - 1 =>
              j < Len(t) /\ t[j + 1] = entries[j - at + 1]
         /\ ~(j - at \in 0..Len(entries) - 1) /\ j < Len(s) =>
              j < Len(t) /\ t[j + 1] = s[j + 1]
<1> DEFINE e == Len(entries)
           l == Len(s)
           n == at + e
           size == IF l > n THEN l ELSE n
           t == [k \in 1..size |->
                   IF k \in at + 1..n THEN entries[k - at]
                   ELSE IF k <= l THEN s[k] ELSE 0]
<1>1. e \in Nat /\ l \in Nat
  OBVIOUS
<1>2. CASE entries = <<>>
  <2>1. SetFrom(s, at, entries) = s /\ e = 0
    BY <1>2 DEF SetFrom
  <2> HIDE DEF e, l
  <2>2. ~(j - at \in 0..e - 1)
    BY <2>1
  <2> QED
    BY <2>1, <2>2 DEF e, l
<1>3. CASE entries # <<>>
  <2>1. SetFrom(s, at, entries) = t
    BY <1>3 DEF SetFrom
  <2> HIDE DEF e, l
  <2>2. size \in Nat /\ n <= size /\ l <= size
    BY <1>1
  <2>3. Len(t) = size
    <3>1. t \in [1..size -> Nat]
      <4>1. ASSUME NEW k \in 1..size
            PROVE  (IF k \in at + 1..n THEN entries[k - at]
                    ELSE IF k <= l THEN s[k] ELSE 0) \in Nat
        <5>1. CASE k \in at + 1..n
          <6>1. k - at \in 1..e
            BY <1>1, <5>1
          <6> QED
            BY <5>1, <6>1 DEF e
        <5>2. CASE k \notin at + 1..n /\ k <= l
          <6>1. k \in 1..l
            BY <1>1, <2>2, <5>2
          <6> QED
            BY <5>2, <6>1 DEF l
        <5> QED
          BY <5>1, <5>2
      <4> QED
        BY <4>1
    <3> HIDE DEF t, size
    <3> QED
      BY <2>2, <3>1
  <2> HIDE DEF size
  <2>4. ASSUME j - at \in 0..e - 1
        PROVE  j < size /\ t[j + 1] = entries[j - at + 1]
    <3>1. j + 1 \in 1..size /\ j + 1 \in at + 1..n /\ j < size
          /\ (j + 1) - at = j - at + 1
      BY <1>1, <2>2, <2>4
    <3> QED
      BY <3>1
  <2>5. ASSUME ~(j - at \in 0..e - 1), j < l
        PROVE  j < size /\ t[j + 1] = s[j + 1]
    <3>1. j + 1 \in 1..size /\ ~(j + 1 \in at + 1..n) /\ j < size
          /\ j + 1 <= l
      BY <1>1, <2>2, <2>5
    <3> QED
      BY <3>1
  <2> HIDE DEF t
  <2> QED
    BY <2>1, <2>3, <2>4, <2>5 DEF e, l
<1> QED
  BY <1>2, <1>3

(* The table of the program has what T has at the places that hold a       *)
(* function.                                                               *)
Holds(table, T) ==
  \A j \in DOMAIN T :
    T[j] # NoFunction => j < Len(table) /\ table[j + 1] = T[j]

LEMMA HoldsNext ==
  ASSUME NEW n, NEW T, DOMAIN T = 0..n - 1,
         NEW s \in Seq(Nat), Holds(s, T),
         NEW at \in Nat, NEW entries \in Seq(Nat)
  PROVE  Holds(SetFrom(s, at, entries), Placed(T, n, <<at, entries>>))
<1> DEFINE U == [a \in 0..n - 1 |->
                   IF a - at \in 0..Len(entries) - 1 THEN entries[a - at + 1]
                   ELSE T[a]]
           t == SetFrom(s, at, entries)
<1>1. ASSUME NEW j \in 0..n - 1, U[j] # NoFunction
      PROVE  j < Len(t) /\ t[j + 1] = U[j]
  <2>1. j \in Nat
    OBVIOUS
  <2>2. CASE j - at \in 0..Len(entries) - 1
    BY <2>1, <2>2, SetFromIs
  <2>3. CASE ~(j - at \in 0..Len(entries) - 1)
    <3>1. U[j] = T[j]
      BY <2>3
    <3>2. j < Len(s) /\ s[j + 1] = T[j]
      BY <1>1, <3>1 DEF Holds
    <3>3. j < Len(t) /\ t[j + 1] = s[j + 1]
      BY <2>1, <2>3, <3>2, SetFromIs
    <3> QED
      BY <3>1, <3>2, <3>3
  <2> QED
    BY <2>2, <2>3
<1>2. DOMAIN U = 0..n - 1
  OBVIOUS
<1> HIDE DEF U, t
<1>3. Holds(t, U)
  BY <1>1, <1>2 DEF Holds
<1>4. Placed(T, n, <<at, entries>>) = U
  BY DEF U, Placed
<1> QED
  BY <1>3, <1>4 DEF t

LEMMA EntriesAre ==
  ASSUME NEW f, NEW k, Stands(f, k, 9)
  PROVE  LET v == f.sections[k].vec IN
         /\ Len(Entries(f)) = Len(v) /\ Len(v) \in Nat
         /\ \A i \in 1..Len(v) :
              /\ v[i] \in Elements(Id.element)
              /\ Entries(f)[i] = <<v[i].offset.arg, v[i].entries>>
              /\ v[i].offset.arg \in Nat /\ v[i].entries \in Seq(Nat)
<1> DEFINE v == f.sections[k].vec
           n == Len(v)
           E == [i \in 1..n |-> <<v[i].offset.arg, v[i].entries>>]
<1>1. Stands(f, k, Id["element"]) /\ Id["element"] \in 1..12
  BY NameOfId
<1>2. Vec(f, "element") = v /\ DOMAIN v = 1..n /\ n \in Nat
  BY <1>1, VecOf
<1>3. SectionFits(f.sections[k]) /\ f.sections[k].id = Id.element
  BY IdIs DEF Stands, Decoded, SectionFits
<1>4. \A i \in 1..n : v[i] \in Elements(Id.element)
  BY <1>3, VectorIn
<1>5. \A i \in 1..n : v[i].offset.op = "const"
  BY ConstOffsets
<1> HIDE DEF v, n
<1>6. \A i \in 1..n : v[i].offset.arg \in Nat /\ v[i].entries \in Seq(Nat)
  BY <1>4, ElementKinds DEF Exprs
<1>7. Entries(f) = E
  <2>1. Entries(f) = [i \in 1..n |->
                        <<Value(Globals(f), v[i].offset), v[i].entries>>]
    BY <1>2 DEF Entries
  <2>2. \A i \in 1..n : Value(Globals(f), v[i].offset) = v[i].offset.arg
    BY <1>5 DEF Value
  <2> QED
    BY <2>1, <2>2
<1>8. Len(E) = n
  <2>1. E \in [1..n -> Nat \X Seq(Nat)]
    BY <1>6
  <2> HIDE DEF E
  <2> QED
    BY <1>2, <2>1
<1>9. \A i \in 1..n : E[i] = <<v[i].offset.arg, v[i].entries>>
  OBVIOUS
<1> HIDE DEF E
<1> QED
  BY <1>2, <1>4, <1>6, <1>7, <1>8, <1>9 DEF v, n

LEMMA TableWritten ==
  ASSUME NEW f, NEW k, Stands(f, k, 9), NEW c, Ready(f, k - 1, c),
         c.table = <<>>
  PROVE  Holds(Items(c, f.sections[k]).table, Table(f))
<1> DEFINE v == f.sections[k].vec
           n == Len(v)
           N == TableSize(f)
           T == Overwritten(Entries(f), NoFunction, N)
           V == Steady(c, 9)
           U(i) == {x \in V : Holds(x.table, T[i])}
           W == [i \in 0..n |-> U(i)]
<1>1. /\ n \in Nat /\ Len(Entries(f)) = n
      /\ \A i \in 1..n : /\ Entries(f)[i] = <<v[i].offset.arg, v[i].entries>>
                         /\ v[i].offset.arg \in Nat /\ v[i].entries \in Seq(Nat)
  BY EntriesAre
<1>2. /\ T[0] = [a \in 0..N - 1 |-> NoFunction]
      /\ \A i \in 1..n :
           T[i] = Placed(T[i - 1], N, <<v[i].offset.arg, v[i].entries>>)
  <2> DEFINE E == Entries(f)
  <2>1. NoFunction \in Int
    BY DEF NoFunction
  <2> HIDE DEF v, n, N
  <2>2. \A i \in 1..Len(E) : E[i][1] \in Nat /\ E[i][2] \in Seq(Int)
    <3>1. ASSUME NEW i \in 1..n
          PROVE  E[i][1] \in Nat /\ E[i][2] \in Seq(Int)
      <4> DEFINE x == v[i].entries
      <4>1. x \in Seq(Nat) /\ E[i] = <<v[i].offset.arg, x>>
        BY <1>1
      <4> HIDE DEF x
      <4>2. x \in Seq(Int)
        BY <4>1
      <4> QED
        BY <1>1, <4>1, <4>2
    <3> QED
      BY <1>1, <3>1
  <2>3. /\ T[0] = [a \in 0..N - 1 |-> NoFunction]
        /\ \A i \in 1..Len(E) : T[i] = Placed(T[i - 1], N, E[i])
    <3>1. Len(E) \in Nat
      BY <1>1
    <3> HIDE DEF E
    <3> QED
      BY <2>1, <2>2, <3>1, OverwrittenSteps DEF E
  <2> HIDE DEF T
  <2> QED
    BY <1>1, <2>3
<1>3. \A i \in 0..n : DOMAIN T[i] = 0..N - 1
  <2> HIDE DEF T, N, n
  <2>1. ASSUME NEW i \in 0..n
        PROVE  DOMAIN T[i] = 0..N - 1
    <3>1. CASE i = 0
      BY <1>2, <3>1
    <3>2. CASE i # 0
      <4>1. i \in 1..n
        BY <1>1, <3>2
      <4> QED
        BY <1>2, <4>1 DEF Placed
    <3> QED
      BY <3>1, <3>2
  <2> QED
    BY <2>1
<1>4. c \in W[0]
  <2>1. c \in V
    BY StartsSteady
  <2> HIDE DEF T
  <2>2. Holds(c.table, T[0])
    BY <1>2 DEF Holds
  <2> QED
    BY <1>1, <2>1, <2>2
<1>5. ASSUME NEW i \in 1..n, NEW x \in W[i - 1], NEW y \in V,
             Turned(c, 9, i, v[i], x, y)
      PROVE  y \in W[i]
  <2>1. i - 1 \in 0..n /\ i \in 0..n
    BY <1>1
  <2>2. x \in V /\ Holds(x.table, T[i - 1])
    BY <2>1
  <2>3. x.table \in Seq(Nat)
    BY <2>2 DEF Steady, Grown, Programs
  <2>4. y.table = SetFrom(x.table, v[i].offset.arg, v[i].entries)
    BY <1>5 DEF Turned
  <2> DEFINE s == x.table
             t == y.table
             at == v[i].offset.arg
             entries == v[i].entries
             P == T[i - 1]
  <2>5. at \in Nat /\ entries \in Seq(Nat) /\ DOMAIN P = 0..N - 1
        /\ s \in Seq(Nat) /\ Holds(s, P) /\ t = SetFrom(s, at, entries)
    BY <1>1, <1>3, <2>1, <2>2, <2>3, <2>4
  <2>6. T[i] = Placed(P, N, <<at, entries>>)
    BY <1>2
  <2> HIDE DEF s, t, at, entries, P, N, T
  <2>7. Holds(t, T[i])
    BY <2>5, <2>6, HoldsNext
  <2> QED
    BY <2>1, <2>7 DEF t
<1>6. \A i \in 0..n : W[i] \subseteq V
  OBVIOUS
<1>7. Items(c, f.sections[k]) \in W[n]
  <2> HIDE DEF W, V
  <2> QED
    BY <1>4, <1>5, <1>6, ItemsUpTo DEF V
<1>8. Items(c, f.sections[k]) \in U(n)
  BY <1>1, <1>7
<1>9. Table(f) = T[n]
  BY <1>1 DEF Table
<1> HIDE DEF T
<1> QED
  BY <1>8, <1>9

(* A body leaves the rest of a function as it is. *)
Outlined(g, h) ==
  g.type = h.type /\ g.func_idx = h.func_idx /\ g.func_ptr = h.func_ptr
CodeAs(g, e) == g.body = e.body /\ g.nof_local = Room(e)

LEMMA CodedIs ==
  ASSUME NEW fs \in Seq(Functions), NEW n \in 1..Len(fs), NEW e
  PROVE  /\ CodeAs(Coded(fs, n, e)[n], e)
         /\ \A j \in 1..Len(fs) : Outlined(Coded(fs, n, e)[j], fs[j])
         /\ \A j \in 1..Len(fs) : j # n => Coded(fs, n, e)[j] = fs[j]
<1> DEFINE g == [fs EXCEPT ![n].nof_local = Room(e)]
           h == [g EXCEPT ![n].body = e.body]
<1>1. Coded(fs, n, e) = h
  BY DEF Coded
<1>2. DOMAIN fs = 1..Len(fs) /\ \A j \in 1..Len(fs) : fs[j] \in Functions
  OBVIOUS
<1>3. /\ DOMAIN g = DOMAIN fs
      /\ g[n] = [fs[n] EXCEPT !.nof_local = Room(e)]
      /\ \A j \in DOMAIN fs : j # n => g[j] = fs[j]
  BY <1>2
<1> HIDE DEF g
<1>4. /\ h[n] = [g[n] EXCEPT !.body = e.body]
      /\ \A j \in DOMAIN fs : j # n => h[j] = g[j]
  BY <1>2, <1>3
<1> HIDE DEF h
<1> DEFINE r == fs[n]
           p == g[n]
           q == h[n]
<1>5. r \in Functions /\ p = [r EXCEPT !.nof_local = Room(e)]
      /\ q = [p EXCEPT !.body = e.body]
  BY <1>2, <1>3, <1>4
<1> HIDE DEF r, p, q
<1>6. /\ DOMAIN p = DOMAIN r /\ p.nof_local = Room(e) /\ Outlined(p, r)
      /\ "body" \in DOMAIN p
  BY <1>5 DEF Functions, Outlined
<1>7. CodeAs(q, e) /\ Outlined(q, r)
  BY <1>5, <1>6 DEF CodeAs, Outlined
<1>8. \A j \in 1..Len(fs) : Outlined(h[j], fs[j])
  <2>1. ASSUME NEW j \in 1..Len(fs)
        PROVE  Outlined(h[j], fs[j])
    <3>1. CASE j = n
      BY <1>7, <3>1 DEF q, r
    <3>2. CASE j # n
      <4>1. h[j] = fs[j]
        BY <1>2, <1>3, <1>4, <3>2
      <4> QED
        BY <4>1 DEF Outlined
    <3> QED
      BY <3>1, <3>2
  <2> QED
    BY <2>1
<1> QED
  BY <1>1, <1>2, <1>3, <1>4, <1>7, <1>8 DEF q

LEMMA CodeWritten ==
  ASSUME NEW f, NEW k, Stands(f, k, 10), NEW c, Ready(f, k - 1, c)
  PROVE  LET y == Items(c, f.sections[k]) IN
         /\ \A j \in 1..Len(c.functions) :
              Outlined(y.functions[j], c.functions[j])
         /\ \A j \in 1..Len(f.sections[k].vec) :
              CodeAs(y.functions[c.imported + j], f.sections[k].vec[j])
<1> DEFINE v == f.sections[k].vec
           n == Len(v)
           m == c.imported
           l == Len(c.functions)
           V == Steady(c, 10)
           U(i) == {x \in V :
                      /\ \A j \in 1..l :
                           Outlined(x.functions[j], c.functions[j])
                      /\ \A j \in 1..i : CodeAs(x.functions[m + j], v[j])}
           W == [i \in 0..n |-> U(i)]
<1>1. n \in Nat /\ m \in Nat /\ l = m + n
  <2>1. Place(10) > 3 /\ Place(10) > 2 /\ f.sections[k].id = 10
        /\ Decoded(f) /\ Valid(f) /\ k \in 1..Len(f.sections)
    BY PlaceIs DEF Stands
  <2>2. l = Nof(f) /\ m = NofImports(f)
    BY <2>1, FunctionsThere, ImportsThere
  <2>3. n = Len(Vec(f, "function"))
    BY ValidCode
  <2> QED
    BY <2>1, <2>2, <2>3, NofIs
<1>2. c \in W[0]
  <2>1. c \in V
    BY StartsSteady
  <2>2. \A j \in 1..l : Outlined(c.functions[j], c.functions[j])
    BY DEF Outlined
  <2>3. c \in U(0)
    BY <2>1, <2>2
  <2> QED
    BY <1>1, <2>3
<1>3. ASSUME NEW i \in 1..n, NEW x \in W[i - 1], NEW y \in V,
             Turned(c, 10, i, v[i], x, y)
      PROVE  y \in W[i]
  <2>1. i - 1 \in 0..n /\ i \in 0..n
    BY <1>1
  <2>2. /\ x \in V
        /\ \A j \in 1..l : Outlined(x.functions[j], c.functions[j])
        /\ \A j \in 1..i - 1 : CodeAs(x.functions[m + j], v[j])
    BY <2>1
  <2>3. x.functions \in Seq(Functions) /\ Len(x.functions) = l
        /\ x.imported = m
    BY <2>2 DEF Steady, Grown, Programs
  <2>4. y.functions = Coded(x.functions, m + i, v[i])
    BY <1>3, <2>3 DEF Turned
  <2> DEFINE fs == x.functions
             gs == y.functions
             hs == c.functions
  <2>5. /\ fs \in Seq(Functions) /\ Len(fs) = l
        /\ gs = Coded(fs, m + i, v[i])
        /\ \A j \in 1..l : Outlined(fs[j], hs[j])
        /\ \A j \in 1..i - 1 : CodeAs(fs[m + j], v[j])
    BY <2>2, <2>3, <2>4
  <2> HIDE DEF fs, gs, hs, v, n, m, l
  <2>6. m + i \in 1..l
    BY <1>1
  <2>7. /\ CodeAs(gs[m + i], v[i])
        /\ \A j \in 1..l : Outlined(gs[j], fs[j])
        /\ \A j \in 1..l : j # m + i => gs[j] = fs[j]
    BY <2>5, <2>6, CodedIs
  <2>8. \A j \in 1..l : Outlined(gs[j], hs[j])
    BY <2>5, <2>7 DEF Outlined
  <2>9. ASSUME NEW j \in 1..i
        PROVE  CodeAs(gs[m + j], v[j])
    <3>1. CASE j = i
      BY <2>7, <3>1
    <3>2. CASE j # i
      <4>1. j \in 1..i - 1 /\ m + j \in 1..l /\ m + j # m + i
        BY <1>1, <3>2
      <4> QED
        BY <2>5, <2>7, <4>1
    <3> QED
      BY <3>1, <3>2
  <2>10. y \in U(i)
    BY <2>8, <2>9 DEF gs, hs
  <2> QED
    BY <2>1, <2>10
<1>4. \A i \in 0..n : W[i] \subseteq V
  OBVIOUS
<1>5. Items(c, f.sections[k]) \in W[n]
  <2> HIDE DEF W, V
  <2> QED
    BY <1>2, <1>3, <1>4, ItemsUpTo DEF V
<1>6. Items(c, f.sections[k]) \in U(n)
  <2>1. n \in 0..n
    BY <1>1
  <2> HIDE DEF U
  <2>2. W[n] = U(n)
    BY <2>1
  <2> HIDE DEF W
  <2> QED
    BY <1>5, <2>2
<1> QED
  BY <1>6

(* What a section leaves as it is, whatever it is. *)
Kept(id, c, y) ==
  /\ y.available = c.available
  /\ id # 1 => y.types = c.types
  /\ id # 7 => y.exported = c.exported
  /\ id # 8 => y.start = c.start
  /\ id # 9 => y.table = c.table
  /\ id \notin {2, 3} => y.array = c.array
  /\ id \notin {2, 3, 10} => y.functions = c.functions

LEMMA SectionKeeps ==
  ASSUME NEW f, NEW k, NEW id, Stands(f, k, id), NEW c, Ready(f, k - 1, c)
  PROVE  Kept(id, c, ProgSection(c, f.sections[k]))
<1> DEFINE y == ProgSection(c, f.sections[k])
<1>1. id \in 0..12
  BY WellFormedFacts DEF Stands
<1> SUFFICES Kept(id, c, y)
  OBVIOUS
<1>2. CASE id \in {0, 1, 4, 5, 6, 7, 9, 10, 11, 12}
  <2>1. y \in Steady(c, id)
    BY <1>2, SectionsSteady
  <2> HIDE DEF y
  <2> QED
    BY <1>2, <2>1 DEF Steady, Grown, Kept
<1>3. CASE id = 2
  <2>1. /\ y \in Grown(c) /\ y.start = c.start /\ y.types = c.types
        /\ y.table = c.table /\ y.exported = c.exported
    BY <1>3, ImportsReady
  <2> HIDE DEF y
  <2> QED
    BY <1>3, <2>1 DEF Grown, Kept
<1>4. CASE id = 3
  <2>1. /\ y \in Grown(c) /\ y.start = c.start /\ y.types = c.types
        /\ y.table = c.table /\ y.exported = c.exported
    BY <1>4, FunctionsReady
  <2> HIDE DEF y
  <2> QED
    BY <1>4, <2>1 DEF Grown, Kept
<1>5. CASE id = 8
  <2>1. /\ y \in Grown(c) /\ y.array = c.array
        /\ y.functions = c.functions /\ y.types = c.types
        /\ y.table = c.table /\ y.exported = c.exported
    BY <1>5, StartReady
  <2> HIDE DEF y
  <2> QED
    BY <1>5, <2>1 DEF Grown, Kept
<1> QED
  BY <1>1, <1>2, <1>3, <1>4, <1>5

(* What the first k sections of a valid file have made of the program *)
ImportsBuilt(f, c) ==
  \A i \in 1..NofImports(f) :
    ImportedAs(c.available, c.functions[i], Vec(f, "import")[i])
FunctionsBuilt(f, c) ==
  \A i \in 1..Len(Vec(f, "function")) :
    DefinedAs(c.functions[NofImports(f) + i], Vec(f, "function")[i],
              NofImports(f) + i - 1)
CodeBuilt(f, c) ==
  \A i \in 1..Len(Vec(f, "code")) :
    CodeAs(c.functions[NofImports(f) + i], Vec(f, "code")[i])
ExportsBuilt(f, c) ==
  \A i \in 1..Len(Vec(f, "export")) :
    ExportedAs(c.exported, c.array, Vec(f, "export")[i])

Built(f, k, c) ==
  /\ Seen(f, k, 1) => c.types = Vec(f, "type")
  /\ Seen(f, k, 2) => ImportsBuilt(f, c)
  /\ Seen(f, k, 3) => FunctionsBuilt(f, c)
  /\ Seen(f, k, 7) => ExportsBuilt(f, c)
  /\ ~Seen(f, k, 7) => Content(c.exported.array) = {}
  /\ Seen(f, k, 8) => c.start = Vec(f, "start")[1]
  /\ ~Seen(f, k, 8) => c.start = NoStart
  /\ Seen(f, k, 9) => Holds(c.table, Table(f))
  /\ Seen(f, k, 10) => CodeBuilt(f, c)

(* What a section of its kind builds of a program that has nothing of it.  *)
LEMMA OwnSection ==
  ASSUME NEW f, NEW k, NEW id, Stands(f, k, id), NEW c, Ready(f, k - 1, c),
         NEW y, y = ProgSection(c, f.sections[k])
  PROVE  /\ id = 1 => y.types = Vec(f, "type")
         /\ id = 2 => ImportsBuilt(f, y)
         /\ id = 3 => FunctionsBuilt(f, y)
         /\ id = 7 /\ Content(c.exported.array) = {} => ExportsBuilt(f, y)
         /\ id = 8 => y.start = Vec(f, "start")[1]
         /\ id = 9 => Holds(y.table, Table(f))
         /\ id = 10 => CodeBuilt(f, y)
<1> DEFINE s == f.sections[k]
           v == s.vec
<1>0. Decoded(f) /\ Valid(f) /\ k \in 1..Len(f.sections) /\ s.id = id
  BY DEF Stands
<1>1. id \in {1, 7, 9, 10} => y = Items(c, s)
  BY SectionsAre
<1>2. id \in 1..12 => ~Seen(f, k - 1, id)
  <2>1. ASSUME id \in 1..12
        PROVE  ~Seen(f, k - 1, id)
    <3>1. f.sections[k].id # 0 /\ Place(id) >= Place(f.sections[k].id)
      <4>1. Place(id) \in 1..12
        BY <2>1, PlaceInt
      <4>2. Place(id) >= Place(id)
        BY <4>1
      <4> QED
        BY <1>0, <2>1, <4>2
    <3> QED
      BY <1>0, <2>1, <3>1, NotYetSeen
  <2> QED
    BY <2>1
<1>3. /\ id = 1 => Vec(f, "type") = v
      /\ id = 2 => Vec(f, "import") = v
      /\ id = 3 => Vec(f, "function") = v
      /\ id = 7 => Vec(f, "export") = v
      /\ id = 8 => Vec(f, "start") = v
      /\ id = 10 => Vec(f, "code") = v
  BY <1>0, NameOfId, OneSection
<1>4. Kept(id, c, y)
  BY SectionKeeps
<1>5. ASSUME id = 1
      PROVE  y.types = Vec(f, "type")
  <2>1. Stands(f, k, 1) /\ c.types = <<>>
    BY <1>2, <1>5 DEF Ready
  <2> QED
    BY <1>1, <1>3, <1>5, <2>1, TypesWritten
<1>6. ASSUME id = 2
      PROVE  ImportsBuilt(f, y)
  <2>1. \A i \in 1..NofImports(f) : ImportedAs(c.available, y.functions[i], v[i])
    BY <1>6, ImportsReady
  <2>2. y.available = c.available
    BY <1>4 DEF Kept
  <2> HIDE DEF v
  <2> QED
    BY <1>3, <1>6, <2>1, <2>2 DEF ImportsBuilt
<1>7. ASSUME id = 3
      PROVE  FunctionsBuilt(f, y)
  <2>1. c.imported = NofImports(f)
    <3>1. Place(3) > 2
      BY PlaceIs
    <3> QED
      BY <1>0, <1>7, <3>1, ImportsThere
  <2>2. \A i \in 1..Len(v) :
          DefinedAs(y.functions[c.imported + i], v[i], c.imported + i - 1)
    BY <1>7, FunctionsReady
  <2> HIDE DEF v
  <2> QED
    BY <1>3, <1>7, <2>1, <2>2 DEF FunctionsBuilt
<1>8. ASSUME id = 7, Content(c.exported.array) = {}
      PROVE  ExportsBuilt(f, y)
  <2>1. y.array = c.array
    BY <1>4, <1>8 DEF Kept
  <2>2. \A i \in 1..Len(v) : ExportedAs(y.exported, c.array, v[i])
    BY <1>1, <1>8, ExportsWritten
  <2> HIDE DEF v
  <2> QED
    BY <1>3, <1>8, <2>1, <2>2 DEF ExportsBuilt
<1>9. ASSUME id = 8
      PROVE  y.start = Vec(f, "start")[1]
  <2>1. y.start = v[1]
    BY <1>9, StartReady
  <2> QED
    BY <1>3, <1>9, <2>1
<1>10. ASSUME id = 9
       PROVE  Holds(y.table, Table(f))
  <2>1. Stands(f, k, 9) /\ c.table = <<>>
    BY <1>2, <1>10 DEF Ready
  <2> QED
    BY <1>1, <1>10, <2>1, TableWritten
<1>11. ASSUME id = 10
       PROVE  CodeBuilt(f, y)
  <2>1. c.imported = NofImports(f)
    <3>1. Place(10) > 2
      BY PlaceIs
    <3> QED
      BY <1>0, <1>11, <3>1, ImportsThere
  <2>2. \A i \in 1..Len(v) : CodeAs(y.functions[c.imported + i], v[i])
    BY <1>1, <1>11, CodeWritten
  <2> HIDE DEF v
  <2> QED
    BY <1>3, <1>11, <2>1, <2>2 DEF CodeBuilt
<1> QED
  BY <1>5, <1>6, <1>7, <1>8, <1>9, <1>10, <1>11

(* A later section leaves what the functions are built of. *)
LEMMA FunctionsStay ==
  ASSUME NEW f, NEW k, NEW id, Stands(f, k, id), NEW c, Ready(f, k - 1, c),
         NEW y, y = ProgSection(c, f.sections[k])
  PROVE  /\ id # 2 /\ Seen(f, k - 1, 2) /\ ImportsBuilt(f, c)
              => ImportsBuilt(f, y)
         /\ id \notin {2, 3} /\ FunctionsBuilt(f, c) => FunctionsBuilt(f, y)
         /\ id \notin {2, 3, 10} /\ CodeBuilt(f, c) => CodeBuilt(f, y)
<1> DEFINE m == NofImports(f)
           n == Len(Vec(f, "function"))
           fs == c.functions
           gs == y.functions
<1>0. /\ Decoded(f) /\ Valid(f) /\ k \in 1..Len(f.sections)
      /\ f.sections[k].id = id
  BY DEF Stands
<1>1. Kept(id, c, y)
  BY SectionKeeps
<1>2. y.available = c.available
  BY <1>1 DEF Kept
<1>3. CASE id \notin {2, 3, 10}
  <2>1. gs = fs
    BY <1>1, <1>3 DEF Kept
  <2> QED
    BY <1>2, <1>3, <2>1 DEF ImportsBuilt, FunctionsBuilt, CodeBuilt
<1>4. CASE id = 2
  BY <1>4
<1>5. CASE id = 3
  <2>1. \A i \in 1..c.imported : gs[i] = fs[i]
    BY <1>5, FunctionsReady
  <2>2. ASSUME Seen(f, k - 1, 2)
        PROVE  c.imported = m
    BY <2>2 DEF Ready
  <2> HIDE DEF m, n
  <2>3. ASSUME Seen(f, k - 1, 2), ImportsBuilt(f, c)
        PROVE  ImportsBuilt(f, y)
    <3>1. \A i \in 1..m : gs[i] = fs[i]
      BY <2>1, <2>2, <2>3
    <3> QED
      BY <1>2, <2>3, <3>1 DEF ImportsBuilt, m
  <2> QED
    BY <1>5, <2>3
<1>6. CASE id = 10
  <2>1. y = Items(c, f.sections[k])
    BY <1>6, SectionsAre
  <2>2. \A j \in 1..Len(fs) : Outlined(gs[j], fs[j])
    BY <1>6, <2>1, CodeWritten
  <2>3. Len(fs) = m + n /\ m \in Nat /\ n \in Nat
    <3>1. Place(f.sections[k].id) > 3 /\ f.sections[k].id # 0
      BY <1>0, <1>6, PlaceIs
    <3>2. Len(fs) = Nof(f)
      BY <1>0, <3>1, FunctionsThere
    <3> QED
      BY <1>0, <3>2, NofIs
  <2> HIDE DEF m, n, fs, gs
  <2>4. /\ \A i \in 1..m : Outlined(gs[i], fs[i])
        /\ \A i \in 1..n : Outlined(gs[m + i], fs[m + i])
    <3>1. /\ \A i \in 1..m : i \in 1..Len(fs)
          /\ \A i \in 1..n : m + i \in 1..Len(fs)
      BY <2>3
    <3> QED
      BY <2>2, <3>1
  <2>5. ASSUME ImportsBuilt(f, c)
        PROVE  ImportsBuilt(f, y)
    <3>1. ASSUME NEW i \in 1..m
          PROVE  ImportedAs(y.available, gs[i], Vec(f, "import")[i])
      <4>1. ImportedAs(c.available, fs[i], Vec(f, "import")[i])
        BY <2>5 DEF ImportsBuilt, m, fs
      <4> QED
        BY <1>2, <2>4, <4>1 DEF ImportedAs, Outlined
    <3> QED
      BY <3>1 DEF ImportsBuilt, m, gs
  <2>6. ASSUME FunctionsBuilt(f, c)
        PROVE  FunctionsBuilt(f, y)
    <3>1. ASSUME NEW i \in 1..n
          PROVE  DefinedAs(gs[m + i], Vec(f, "function")[i], m + i - 1)
      <4>1. DefinedAs(fs[m + i], Vec(f, "function")[i], m + i - 1)
        BY <2>6 DEF FunctionsBuilt, m, n, fs
      <4> QED
        BY <2>4, <4>1 DEF DefinedAs, Outlined
    <3> QED
      BY <3>1 DEF FunctionsBuilt, m, n, gs
  <2> QED
    BY <1>6, <2>5, <2>6
<1> QED
  BY <1>3, <1>4, <1>5, <1>6

LEMMA BuiltStep ==
  ASSUME NEW f, Decoded(f), Valid(f), NEW k \in 1..Len(f.sections),
         NEW c, Ready(f, k - 1, c), Built(f, k - 1, c)
  PROVE  Built(f, k, ProgSection(c, f.sections[k]))
<1> DEFINE id == f.sections[k].id
           y == ProgSection(c, f.sections[k])
<1>0. Stands(f, k, id) /\ id \in 0..12 /\ k \in Nat /\ k > 0
  <2>1. id \in 0..12
    BY WellFormedFacts
  <2>2. Len(f.sections) \in Nat
    BY DEF Decoded
  <2> QED
    BY <2>1, <2>2 DEF Stands
<1>1. \A i : Seen(f, k, i) <=> Seen(f, k - 1, i) \/ id = i
  BY <1>0, SeenStep
<1>2. /\ id = 2 => ~Seen(f, k, 3) /\ ~Seen(f, k, 7) /\ ~Seen(f, k, 10)
      /\ id = 3 => ~Seen(f, k, 7) /\ ~Seen(f, k, 10)
      /\ id = 7 => ~Seen(f, k - 1, 7)
  <2>1. ASSUME NEW a \in 1..12, id # 0, Place(a) >= Place(id)
        PROVE  ~Seen(f, k - 1, a)
    BY <2>1, NotYetSeen
  <2> HIDE DEF id
  <2>2. id = 2 => /\ ~Seen(f, k - 1, 3) /\ ~Seen(f, k - 1, 7)
                  /\ ~Seen(f, k - 1, 10)
    BY <2>1, PlaceIs
  <2>3. /\ id = 3 => ~Seen(f, k - 1, 7) /\ ~Seen(f, k - 1, 10)
        /\ id = 7 => ~Seen(f, k - 1, 7)
    BY <2>1, PlaceIs
  <2> QED
    BY <1>1, <2>1, <2>2, <2>3
<1> HIDE DEF id, y
<1>3. Kept(id, c, y)
  BY <1>0, SectionKeeps DEF y
<1>4. /\ id = 1 => y.types = Vec(f, "type")
      /\ id = 2 => ImportsBuilt(f, y)
      /\ id = 3 => FunctionsBuilt(f, y)
      /\ id = 7 /\ Content(c.exported.array) = {} => ExportsBuilt(f, y)
      /\ id = 8 => y.start = Vec(f, "start")[1]
      /\ id = 9 => Holds(y.table, Table(f))
      /\ id = 10 => CodeBuilt(f, y)
  BY <1>0, OwnSection DEF y
<1>5. /\ id # 2 /\ Seen(f, k - 1, 2) /\ ImportsBuilt(f, c) => ImportsBuilt(f, y)
      /\ id \notin {2, 3} /\ FunctionsBuilt(f, c) => FunctionsBuilt(f, y)
      /\ id \notin {2, 3, 10} /\ CodeBuilt(f, c) => CodeBuilt(f, y)
  BY <1>0, FunctionsStay DEF y
<1>6. Seen(f, k, 1) => y.types = Vec(f, "type")
  BY <1>1, <1>3, <1>4 DEF Built, Kept
<1>7. Seen(f, k, 2) => ImportsBuilt(f, y)
  BY <1>1, <1>4, <1>5 DEF Built
<1>8. Seen(f, k, 3) => FunctionsBuilt(f, y)
  BY <1>1, <1>2, <1>4, <1>5 DEF Built
<1>9. Seen(f, k, 10) => CodeBuilt(f, y)
  BY <1>1, <1>2, <1>4, <1>5 DEF Built
<1>10. Seen(f, k, 7) => ExportsBuilt(f, y)
  <2>1. CASE id = 7
    BY <1>2, <1>4, <2>1 DEF Built
  <2>2. CASE id # 7 /\ Seen(f, k, 7)
    <3>1. Seen(f, k - 1, 7) /\ id \notin {2, 3}
      BY <1>1, <1>2, <2>2
    <3>2. y.exported = c.exported /\ y.array = c.array
      BY <1>3, <2>2, <3>1 DEF Kept
    <3>3. ExportsBuilt(f, c)
      BY <3>1 DEF Built
    <3> QED
      BY <3>2, <3>3 DEF ExportsBuilt
  <2> QED
    BY <2>1, <2>2
<1>11. ~Seen(f, k, 7) => Content(y.exported.array) = {}
  <2>1. ASSUME ~Seen(f, k, 7)
        PROVE  ~Seen(f, k - 1, 7) /\ id # 7
    BY <1>1, <2>1
  <2> QED
    BY <1>3, <2>1 DEF Built, Kept
<1>12. Seen(f, k, 8) => y.start = Vec(f, "start")[1]
  BY <1>1, <1>3, <1>4 DEF Built, Kept
<1>13. ~Seen(f, k, 8) => y.start = NoStart
  <2>1. ASSUME ~Seen(f, k, 8)
        PROVE  ~Seen(f, k - 1, 8) /\ id # 8
    BY <1>1, <2>1
  <2> QED
    BY <1>3, <2>1 DEF Built, Kept
<1>14. Seen(f, k, 9) => Holds(y.table, Table(f))
  BY <1>1, <1>3, <1>4 DEF Built, Kept
<1>15. Built(f, k, y)
  BY <1>6, <1>7, <1>8, <1>9, <1>10, <1>11, <1>12, <1>13, <1>14 DEF Built
<1> QED
  BY <1>15 DEF y

(* Memory, 0 where nothing is written, is what the image says. *)
Shows(memory, image) ==
  \A a \in DOMAIN image :
    image[a] = IF a \in DOMAIN memory THEN memory[a] ELSE 0

LEMMA ShowsNext ==
  ASSUME NEW n, NEW T, DOMAIN T = 0..n - 1, NEW memory, Shows(memory, T),
         NEW at \in Nat, NEW bytes \in Seq(Nat)
  PROVE  Shows(Laid(memory, at, bytes), Placed(T, n, <<at, bytes>>))
<1> DEFINE l == Len(bytes)
           B == at..at + l - 1
           U == Placed(T, n, <<at, bytes>>)
           m == Laid(memory, at, bytes)
<1>1. l \in Nat
  OBVIOUS
<1>2. /\ DOMAIN U = 0..n - 1
      /\ \A a \in 0..n - 1 :
           U[a] = IF a - at \in 0..l - 1 THEN bytes[a - at + 1] ELSE T[a]
  BY DEF Placed
<1>3. /\ DOMAIN m = DOMAIN memory \cup B
      /\ \A a \in DOMAIN m :
           m[a] = IF a \in B THEN bytes[a - at + 1] ELSE memory[a]
  BY DEF Laid
<1> HIDE DEF l, U, m
<1>4. ASSUME NEW a \in 0..n - 1
      PROVE  U[a] = IF a \in DOMAIN m THEN m[a] ELSE 0
  <2>1. a - at \in 0..l - 1 <=> a \in B
    BY <1>1
  <2> HIDE DEF B
  <2>2. CASE a \in B
    BY <1>2, <1>3, <2>1, <2>2
  <2>3. CASE a \notin B
    <3>1. U[a] = T[a] /\ (a \in DOMAIN m <=> a \in DOMAIN memory)
      BY <1>2, <1>3, <2>1, <2>3
    <3>2. T[a] = IF a \in DOMAIN memory THEN memory[a] ELSE 0
      BY DEF Shows
    <3>3. a \in DOMAIN m => m[a] = memory[a]
      BY <1>3, <2>3
    <3> QED
      BY <3>1, <3>2, <3>3
  <2> QED
    BY <2>2, <2>3
<1>5. Shows(m, U)
  BY <1>2, <1>4 DEF Shows
<1> QED
  BY <1>5 DEF m, U

LEMMA SegmentsListed ==
  ASSUME NEW f, NEW k, Stands(f, k, 11)
  PROVE  LET v == f.sections[k].vec IN
         /\ Len(Segments(f)) = Len(v) /\ Len(v) \in Nat
         /\ \A i \in 1..Len(v) :
              /\ Segments(f)[i] = <<Value(Globals(f), v[i].offset), v[i].bytes>>
              /\ Value(Globals(f), v[i].offset) \in Nat
              /\ v[i].bytes \in Seq(Nat)
<1> DEFINE v == f.sections[k].vec
           n == Len(v)
           gs == Globals(f)
           E == [i \in 1..n |-> <<Value(gs, v[i].offset), v[i].bytes>>]
<1>1. Stands(f, k, Id["data"]) /\ Id["data"] \in 1..12
  BY NameOfId
<1>2. Vec(f, "data") = v /\ DOMAIN v = 1..n /\ n \in Nat
  BY <1>1, VecOf
<1>3. SectionFits(f.sections[k]) /\ f.sections[k].id = Id.data
  BY IdIs DEF Stands, Decoded, SectionFits
<1>4. \A i \in 1..n : v[i] \in Elements(Id.data)
  BY <1>3, VectorIn
<1>5. gs \in Seq(Nat)
  BY GlobalsIn DEF Stands
<1>6. \A i \in 1..n :
        /\ v[i].offset.op # "none"
        /\ v[i].offset.op = "get" => v[i].offset.arg \in 0..Len(gs) - 1
  BY ValidSegments
<1>7. Segments(f) = E
  BY <1>2 DEF Segments
<1> HIDE DEF v, n, gs
<1>8. ASSUME NEW i \in 1..n
      PROVE  Value(gs, v[i].offset) \in Nat /\ v[i].bytes \in Seq(Nat)
  <2>1. v[i].offset \in Exprs /\ v[i].bytes \in Seq(Nat)
    BY <1>4, ElementKinds
  <2> QED
    BY <1>5, <1>6, <2>1, ValueNat
<1>9. Len(E) = n
  <2>1. E \in [1..n -> Nat \X Seq(Nat)]
    BY <1>8
  <2> HIDE DEF E
  <2> QED
    BY <1>2, <2>1
<1>10. \A i \in 1..n : E[i] = <<Value(gs, v[i].offset), v[i].bytes>>
  OBVIOUS
<1> HIDE DEF E
<1> QED
  BY <1>2, <1>7, <1>8, <1>9, <1>10 DEF v, n, gs

LEMMA SegmentsWritten ==
  ASSUME NEW f, NEW k, Stands(f, k, 11), NEW c, DataReady(f, k - 1, c),
         c.memory = <<>>
  PROVE  Shows(DataPassSection(c, f.sections[k]).memory, Image(f))
<1> DEFINE s == f.sections[k]
           v == s.vec
           n == Len(v)
           N == MemorySize(f)
           gs == Globals(f)
           E == Segments(f)
           T == Overwritten(E, 0, N)
           V == DataSteady(c)
           U(i) == {x \in V : Shows(x.memory, T[i])}
           W == [i \in 0..n |-> U(i)]
<1>1. /\ n \in Nat /\ Len(E) = n
      /\ \A i \in 1..n : /\ E[i] = <<Value(gs, v[i].offset), v[i].bytes>>
                         /\ Value(gs, v[i].offset) \in Nat
                         /\ v[i].bytes \in Seq(Nat)
  BY SegmentsListed
<1>2. /\ T[0] = [a \in 0..N - 1 |-> 0]
      /\ \A i \in 1..n : T[i] = Placed(T[i - 1], N, E[i])
  <2> HIDE DEF v, n, N, gs, E
  <2>1. \A i \in 1..Len(E) : E[i][1] \in Nat /\ E[i][2] \in Seq(Int)
    <3>1. ASSUME NEW i \in 1..n
          PROVE  E[i][1] \in Nat /\ E[i][2] \in Seq(Int)
      <4> DEFINE x == v[i].bytes
                 z == Value(gs, v[i].offset)
      <4>1. x \in Seq(Nat) /\ z \in Nat /\ E[i] = <<z, x>>
        BY <1>1
      <4> HIDE DEF x, z
      <4>2. x \in Seq(Int)
        BY <4>1
      <4> QED
        BY <4>1, <4>2
    <3> QED
      BY <1>1, <3>1
  <2>2. /\ T[0] = [a \in 0..N - 1 |-> 0]
        /\ \A i \in 1..Len(E) : T[i] = Placed(T[i - 1], N, E[i])
    <3>1. Len(E) \in Nat /\ 0 \in Int
      BY <1>1
    <3> QED
      BY <2>1, <3>1, OverwrittenSteps
  <2> HIDE DEF T
  <2> QED
    BY <1>1, <2>2
<1>3. \A i \in 0..n : DOMAIN T[i] = 0..N - 1
  <2> HIDE DEF T, N, n, E
  <2>1. ASSUME NEW i \in 0..n
        PROVE  DOMAIN T[i] = 0..N - 1
    <3>1. CASE i = 0
      BY <1>2, <3>1
    <3>2. CASE i # 0
      <4>1. i \in 1..n
        BY <1>1, <3>2
      <4> QED
        BY <1>2, <4>1 DEF Placed
    <3> QED
      BY <3>1, <3>2
  <2> QED
    BY <2>1
<1>4. c \in V
  BY DEF DataSteady, DataReady
<1>5. c \in W[0]
  <2> HIDE DEF T, V
  <2>1. Shows(c.memory, T[0])
    BY <1>2 DEF Shows
  <2> QED
    BY <1>1, <1>4, <2>1
<1>6. ASSUME NEW i \in 1..n, NEW x \in V
      PROVE  /\ Item(s, x, i) \in V
             /\ Item(s, x, i).memory
                  = Laid(x.memory, Value(gs, v[i].offset), v[i].bytes)
  BY SegmentItem
<1>7. ASSUME NEW i \in 1..n, NEW x \in W[i - 1]
      PROVE  x.result = "OK" /\ Item(s, x, i) \in W[i]
  <2>1. i - 1 \in 0..n /\ i \in 0..n
    BY <1>1
  <2>2. x \in V /\ Shows(x.memory, T[i - 1])
    BY <2>1
  <2>3. x.result = "OK"
    BY <2>2 DEF DataSteady
  <2> DEFINE y == Item(s, x, i)
             m == y.memory
             p == x.memory
             at == Value(gs, v[i].offset)
             bytes == v[i].bytes
             P == T[i - 1]
  <2>4. y \in V /\ m = Laid(p, at, bytes)
    BY <1>6, <2>2
  <2>5. at \in Nat /\ bytes \in Seq(Nat) /\ DOMAIN P = 0..N - 1 /\ Shows(p, P)
    BY <1>1, <1>3, <2>1, <2>2
  <2>6. T[i] = Placed(P, N, <<at, bytes>>)
    BY <1>1, <1>2
  <2> HIDE DEF m, p, at, bytes, P, N, T
  <2>7. Shows(m, T[i])
    BY <2>4, <2>5, <2>6, ShowsNext
  <2> HIDE DEF y
  <2> QED
    BY <2>1, <2>3, <2>4, <2>7 DEF m, y
<1>8. Items(c, s) \in W[n]
  <2> HIDE DEF W, V, s
  <2>1. \A i \in 1..Len(s.vec) : \A x \in V :
          x.result = "OK" => Item(s, x, i) \in V
    BY <1>6 DEF n, v
  <2>2. \A i \in 1..Len(s.vec) : \A x \in W[i - 1] :
          x.result = "OK" /\ Item(s, x, i) \in W[i]
    BY <1>7 DEF n, v
  <2>3. Len(s.vec) \in Nat
    BY <1>1 DEF n, v
  <2> QED
    BY <1>4, <1>5, <2>1, <2>2, <2>3, ItemsReach DEF n, v
<1>9. Shows(Items(c, s).memory, T[n])
  <2> HIDE DEF T, V, s
  <2> QED
    BY <1>1, <1>8
<1>10. Image(f) = T[n]
  BY <1>1 DEF Image
<1> HIDE DEF T
<1> QED
  BY <1>9, <1>10, SegmentsAre

(* What the first k sections of a valid file have made of the data *)
Filled(f, k, d) ==
  /\ d.call = NoStart
  /\ Seen(f, k, 11) => Shows(d.memory, Image(f))
  /\ ~Seen(f, k, 11) => d.memory = <<>>

LEMMA FilledStep ==
  ASSUME NEW f, Decoded(f), Valid(f), NEW k \in 1..Len(f.sections),
         NEW c, DataReady(f, k - 1, c), Filled(f, k - 1, c)
  PROVE  Filled(f, k, DataPassSection(c, f.sections[k]))
<1> DEFINE id == f.sections[k].id
           y == DataPassSection(c, f.sections[k])
<1>0. Stands(f, k, id) /\ id \in 0..12 /\ k \in Nat /\ k > 0
  <2>1. id \in 0..12
    BY WellFormedFacts
  <2>2. Len(f.sections) \in Nat
    BY DEF Decoded
  <2> QED
    BY <2>1, <2>2 DEF Stands
<1>1. Seen(f, k, 11) <=> Seen(f, k - 1, 11) \/ id = 11
  BY <1>0, SeenStep
<1>2. id = 11 => ~Seen(f, k - 1, 11)
  BY PlaceIs, NotYetSeen
<1> HIDE DEF id, y
<1>3. CASE id = 11
  <2>1. Stands(f, k, 11) /\ c.memory = <<>>
    BY <1>0, <1>2, <1>3 DEF Filled
  <2>2. y \in DataSteady(c)
    BY <2>1, SegmentsReady DEF y
  <2>3. Shows(y.memory, Image(f))
    BY <2>1, SegmentsWritten DEF y
  <2>4. y.call = NoStart
    BY <2>2 DEF DataSteady, Filled
  <2> QED
    BY <1>1, <1>3, <2>3, <2>4 DEF Filled, y
<1>4. CASE id # 11
  <2>1. y.memory = c.memory /\ y.call = c.call
    <3>1. CASE id \in {0, 1, 2, 3, 4, 7, 8, 9, 10, 12}
      BY <1>0, <3>1, DataPassSkips DEF y
    <3>2. CASE id = 5
      BY <1>0, <3>2, MemoryReady DEF y
    <3>3. CASE id = 6
      <4>1. y \in AfterGlobals(c, Globals(f))
        BY <1>0, <3>3, GlobalsReady DEF y
      <4> QED
        BY <4>1 DEF AfterGlobals
    <3> QED
      BY <1>0, <1>4, <3>1, <3>2, <3>3
  <2> QED
    BY <1>1, <1>4, <2>1 DEF Filled, y
<1> QED
  BY <1>3, <1>4

(* The program and the data after all sections *)
Whole(f, c) ==
  Ready(f, Len(f.sections), c) /\ Built(f, Len(f.sections), c)
Loaded(f, d) ==
  /\ d.globals = Globals(f) /\ d.pages * PageSize = MemorySize(f)
  /\ Shows(d.memory, Image(f))
  /\ d.call = IF Vec(f, "start") = <<>> THEN NoStart ELSE Vec(f, "start")[1]

(* A kind that has not been seen in any section is not there. *)
LEMMA Unseen ==
  ASSUME NEW f, Decoded(f)
  PROVE  LET n == Len(f.sections) IN
         /\ ~Seen(f, n, 1) => Vec(f, "type") = <<>>
         /\ ~Seen(f, n, 2) => Vec(f, "import") = <<>>
         /\ ~Seen(f, n, 3) => Vec(f, "function") = <<>>
         /\ ~Seen(f, n, 5) => Vec(f, "memory") = <<>>
         /\ ~Seen(f, n, 6) => Vec(f, "global") = <<>>
         /\ ~Seen(f, n, 7) => Vec(f, "export") = <<>>
         /\ ~Seen(f, n, 8) => Vec(f, "start") = <<>>
         /\ ~Seen(f, n, 9) => Vec(f, "element") = <<>>
         /\ ~Seen(f, n, 10) => Vec(f, "code") = <<>>
         /\ ~Seen(f, n, 11) => Vec(f, "data") = <<>>
BY NameOfId, NothingAtAll

LEMMA WholeSizes ==
  ASSUME NEW f, Decoded(f), Valid(f), NEW c, Whole(f, c)
  PROVE  /\ c.imported = NofImports(f) /\ c.total = Nof(f)
         /\ Len(c.functions) = Nof(f)
<1> DEFINE n == Len(f.sections)
<1>1. /\ c.imported = IF Seen(f, n, 2) THEN NofImports(f) ELSE 0
      /\ c.total = IF Seen(f, n, 3) THEN Nof(f) ELSE c.imported
      /\ Len(c.functions) = c.total
  BY DEF Whole, Ready
<1>2. c.imported = NofImports(f)
  <2>1. ASSUME ~Seen(f, n, 2)
        PROVE  NofImports(f) = 0
    <3>1. Vec(f, "import") = <<>>
      BY <2>1, Unseen
    <3>2. NofImports(f) = Len(<<>>)
      BY <3>1 DEF NofImports
    <3> QED
      BY <3>2
  <2> QED
    BY <1>1, <2>1
<1>3. c.total = Nof(f)
  <2>1. ASSUME ~Seen(f, n, 3)
        PROVE  Nof(f) = NofImports(f)
    <3>1. Vec(f, "function") = <<>>
      BY <2>1, Unseen
    <3> QED
      BY <3>1, NofIs
  <2> QED
    BY <1>1, <1>2, <2>1
<1> QED
  BY <1>1, <1>2, <1>3

LEMMA ValidStartIn ==
  ASSUME NEW f, Decoded(f), Valid(f), Seen(f, Len(f.sections), 8)
  PROVE  /\ Vec(f, "start") # <<>>
         /\ Vec(f, "start")[1] \in NofImports(f)..Nof(f) - 1
<1> DEFINE v == Vec(f, "start")
<1>1. PICK k \in 1..Len(f.sections) : f.sections[k].id = 8
  BY DEF Seen
<1>2. Stands(f, k, 8)
  BY <1>1 DEF Stands
<1>3. v = f.sections[k].vec
  <2>1. Stands(f, k, Id["start"]) /\ Id["start"] \in 1..12
    BY <1>2, NameOfId
  <2> QED
    BY <2>1, VecOf
<1>4. v # <<>> /\ v \in Seq(Elements(8))
  BY <1>2, <1>3, IdIs DEF Stands, Decoded
<1>5. 1 \in DOMAIN v
  <2> DEFINE E == Elements(8)
  <2> HIDE DEF v, E
  <2>1. v \in Seq(E) /\ v # <<>>
    BY <1>4 DEF E
  <2> QED
    BY <2>1
<1>6. \A i \in DOMAIN v : v[i] \in NofImports(f)..Nof(f) - 1
  BY DEF Valid, ValidFunctions
<1> QED
  BY <1>4, <1>5, <1>6

LEMMA NoSegments ==
  ASSUME NEW f, Vec(f, "data") = <<>>
  PROVE  Shows(<<>>, Image(f))
<1> DEFINE E == Segments(f)
           N == MemorySize(f)
           T == Overwritten(E, 0, N)
<1>1. Len(E) = 0
  <2>1. E = <<>>
    BY DEF Segments
  <2> QED
    BY <2>1
<1>2. Image(f) = T[0]
  BY <1>1 DEF Image
<1> HIDE DEF E, N
<1>3. T[0] = [a \in 0..N - 1 |-> 0]
  <2>1. /\ Len(E) \in Nat /\ 0 \in Int
        /\ \A i \in 1..Len(E) : E[i][1] \in Nat /\ E[i][2] \in Seq(Int)
    BY <1>1
  <2> QED
    BY <2>1, OverwrittenSteps
<1> HIDE DEF T
<1> QED
  BY <1>2, <1>3 DEF Shows

LEMMA NoElements ==
  ASSUME NEW f, Vec(f, "element") = <<>>, NEW table
  PROVE  Holds(table, Table(f))
<1> DEFINE E == Entries(f)
           N == TableSize(f)
           T == Overwritten(E, NoFunction, N)
<1>1. Len(E) = 0
  <2>1. E = <<>>
    BY DEF Entries
  <2> QED
    BY <2>1
<1>2. Table(f) = T[0]
  BY <1>1 DEF Table
<1> HIDE DEF E, N
<1>3. T[0] = [a \in 0..N - 1 |-> NoFunction]
  <2>1. /\ Len(E) \in Nat /\ NoFunction \in Int
        /\ \A i \in 1..Len(E) : E[i][1] \in Nat /\ E[i][2] \in Seq(Int)
    BY <1>1 DEF NoFunction
  <2> QED
    BY <2>1, OverwrittenSteps
<1> HIDE DEF T
<1> QED
  BY <1>2, <1>3 DEF Holds

(* When the sections of the data are parsed and the start function is set  *)
(* up, the data is what the file says.                                     *)
LEMMA FilledLoaded ==
  ASSUME NEW f, Decoded(f), Valid(f), Whole(f, prog),
         NEW d, DataReady(f, Len(f.sections), d), Filled(f, Len(f.sections), d)
  PROVE  Loaded(f, StartSetUp(d))
<1> DEFINE n == Len(f.sections)
           y == StartSetUp(d)
           w == [d EXCEPT !.call = prog.start]
<1>1. /\ d \in Datas /\ d.call = NoStart
      /\ d.globals = IF Seen(f, n, 6) THEN Globals(f) ELSE <<>>
      /\ d.pages * PageSize = IF Seen(f, n, 5) THEN MemorySize(f) ELSE 0
  BY DEF DataReady, Filled
<1>2. d.globals = Globals(f)
  <2>1. ASSUME ~Seen(f, n, 6)
        PROVE  Globals(f) = <<>>
    BY <2>1, Unseen, GlobalsIn
  <2> QED
    BY <1>1, <2>1
<1>3. d.pages * PageSize = MemorySize(f)
  <2>1. ASSUME ~Seen(f, n, 5)
        PROVE  MemorySize(f) = 0
    BY <2>1, Unseen, NoMemory
  <2> QED
    BY <1>1, <2>1
<1>4. Shows(d.memory, Image(f))
  <2>1. ASSUME ~Seen(f, n, 11)
        PROVE  Shows(<<>>, Image(f))
    BY <2>1, Unseen, NoSegments
  <2> QED
    BY <2>1 DEF Filled
<1>5. /\ prog.imported = NofImports(f) /\ prog.total = Nof(f)
      /\ NofImports(f) \in Nat /\ Nof(f) \in Nat
  BY WholeSizes, NofIs
<1>6. /\ y \in {d, w}
      /\ y.call = IF Vec(f, "start") = <<>> THEN NoStart ELSE Vec(f, "start")[1]
  <2> DEFINE s == Vec(f, "start")[1]
  <2>1. CASE Seen(f, n, 8)
    <3>1. Vec(f, "start") # <<>> /\ s \in NofImports(f)..Nof(f) - 1
      BY <2>1, ValidStartIn
    <3>2. prog.start = s
      BY <2>1 DEF Whole, Built
    <3> HIDE DEF s
    <3>3. s # NoStart /\ ~(s < prog.imported) /\ s < prog.total
      BY <1>5, <3>1 DEF NoStart
    <3>4. y = w
      BY <3>2, <3>3 DEF StartSetUp
    <3>5. w.call = prog.start
      BY <1>1 DEF Datas
    <3> QED
      BY <3>1, <3>2, <3>4, <3>5 DEF s
  <2>2. CASE ~Seen(f, n, 8)
    <3>1. Vec(f, "start") = <<>>
      BY <2>2, Unseen
    <3>2. prog.start = NoStart
      BY <2>2 DEF Whole, Built
    <3>3. y = d
      BY <3>2 DEF StartSetUp
    <3> QED
      BY <1>1, <3>1, <3>3
  <2> QED
    BY <2>1, <2>2
<1>7. w.globals = d.globals /\ w.pages = d.pages /\ w.memory = d.memory
  BY <1>1 DEF Datas
<1> HIDE DEF y, w
<1>8. Loaded(f, y)
  BY <1>2, <1>3, <1>4, <1>6, <1>7 DEF Loaded
<1> QED
  BY <1>8 DEF y

(* What a name in the list of the host functions stands for *)
Registered(c) ==
  \A e \in Content(c.available.array) :
    \E j \in 1..Len(Available) :
      /\ e.ptr = <<j>>
      /\ e.key = ImportName(Available[j][1], Available[j][2])

Writing ==
  /\ stage = "program" => Built(file, next - 1, prog)
  /\ stage \in {"data", "loaded"} => Whole(file, prog)
  /\ stage = "data" => Filled(file, next - 1, data)
  /\ stage = "loaded" => Loaded(file, data)

WriteInv ==
  /\ Registered(prog)
  /\ stage = "register" => Content(prog.exported.array) = {}
  /\ Valid(file) => Writing

LEMMA InitWrite ==
  ASSUME Init
  PROVE  WriteInv
<1>1. prog = NoProg /\ file = NoFile
  BY DEF Init
<1>2. /\ Content(prog.available.array) = {}
      /\ Content(prog.exported.array) = {}
  BY <1>1, EmptyListIs DEF NoProg
<1> QED
  BY <1>1, <1>2, NoFileInvalid DEF WriteInv, Registered

LEMMA RegisterWrite ==
  ASSUME IInv, LoadInv, WriteInv, Register
  PROVE  WriteInv'
<1> DEFINE l == prog.available
           key == ImportName(Available[next][1], Available[next][2])
           ptr == <<next>>
           m == Put(l, key, ptr)
           e == [key |-> key, ptr |-> ptr]
<1>0. stage = "register" /\ stage' = stage /\ file' = file
  BY DEF Register
<1>1. next \in 1..Len(Available)
  <2>1. Len(Available) \in Nat
    BY LoaderAssumption
  <2> QED
    BY <2>1 DEF Register, IInv
<1>2. prog' = [prog EXCEPT !.available = m]
  BY DEF Register
<1>3. l \in Lists /\ prog \in Programs
  BY DEF IInv, Programs
<1>4. key \in Words /\ Len(key) <= MaxKeySize
  BY <1>1, RegisteredName
<1>5. ptr \in Words /\ ptr # Null
  BY <1>1 DEF Words, Null
<1>6. Content(m.array) \subseteq Content(l.array) \cup {e}
  <2> HIDE DEF key, ptr, l
  <2> QED
    BY <1>3, <1>4, <1>5, PutDoes
<1>7. e.ptr = <<next>> /\ e.key = key
  OBVIOUS
<1> HIDE DEF m, e
<1>8. prog'.available = m /\ prog'.exported = prog.exported
  BY <1>2, <1>3 DEF Programs
<1>9. Registered(prog')
  <2>1. ASSUME NEW x \in Content(prog'.available.array)
        PROVE  \E j \in 1..Len(Available) :
                 /\ x.ptr = <<j>>
                 /\ x.key = ImportName(Available[j][1], Available[j][2])
    <3>1. CASE x = e
      BY <1>1, <1>7, <3>1
    <3>2. CASE x \in Content(l.array)
      BY <3>2 DEF WriteInv, Registered
    <3> QED
      BY <1>6, <1>8, <3>1, <3>2
  <2> QED
    BY <2>1 DEF Registered
<1>10. Content(prog'.exported.array) = {}
  BY <1>0, <1>8 DEF WriteInv
<1>11. ~Valid(file')
  BY <1>0 DEF LoadInv
<1> QED
  BY <1>9, <1>10, <1>11 DEF WriteInv

LEMMA OpenWrite ==
  ASSUME IInv, LoadInv, WriteInv, OpenFile
  PROVE  WriteInv'
<1>1. stage = "register" /\ Registering /\ Content(prog.exported.array) = {}
  BY DEF OpenFile, LoadInv, WriteInv
<1>2. /\ prog' = prog /\ data' = data /\ next' = 1
      /\ stage' \in {"program", "data"}
      /\ file'.magic => stage' = "program"
  BY DEF OpenFile
<1>3. ASSUME Valid(file')
      PROVE  Writing'
  <2>1. stage' = "program" /\ next' - 1 = 0
    BY <1>2, <1>3 DEF Valid, WellFormed
  <2>2. \A f, i : ~Seen(f, 0, i)
    BY DEF Seen
  <2>3. Built(file', 0, prog)
    BY <1>1, <2>2 DEF Built, Registering
  <2> QED
    BY <1>2, <2>1, <2>3 DEF Writing
<1> QED
  BY <1>2, <1>3 DEF WriteInv

LEMMA ProgWrite ==
  ASSUME IInv, LoadInv, WriteInv, ParseProgSection
  PROVE  WriteInv'
<1> DEFINE y == ProgSection(prog, file.sections[next])
<1>0. stage = "program" /\ file' = file /\ data' = data /\ prog' = y
  BY DEF ParseProgSection
<1>1. /\ next \in 1..Len(file.sections) /\ Decoded(file)
      /\ (next + 1) - 1 = next
  BY NextSection DEF ParseProgSection
<1>2. y \in Grown(prog)
  BY <1>1, SectionOf, ProgSectionIn DEF IInv
<1> HIDE DEF y
<1>3. Registered(prog')
  BY <1>0, <1>2 DEF Grown, WriteInv, Registered
<1>4. ASSUME Valid(file')
      PROVE  Writing'
  <2>1. Valid(file)
    BY <1>0, <1>4
  <2>2. Ready(file, next - 1, prog) /\ Built(file, next - 1, prog)
    BY <1>0, <2>1 DEF LoadInv, Loading, WriteInv, Writing
  <2>3. Built(file, next, y) /\ Ready(file, next, y)
    BY <1>1, <2>1, <2>2, BuiltStep, ReadyStep DEF y
  <2>4. next' = next + 1 /\ stage' = stage
    <3>1. y.result = "OK"
      BY <2>3 DEF Ready
    <3> QED
      BY <1>0, <3>1 DEF ParseProgSection, Goes, y
  <2> QED
    BY <1>0, <1>1, <2>3, <2>4 DEF Writing
<1>5. stage' # "register"
  BY <1>0 DEF ParseProgSection, Goes
<1> QED
  BY <1>3, <1>4, <1>5 DEF WriteInv

LEMMA AllParsed ==
  ASSUME IInv, next > Len(file.sections), next <= Len(file.sections) + 1
  PROVE  next - 1 = Len(file.sections)
<1>1. next \in Nat /\ Len(file.sections) \in Nat
  BY DEF IInv, Decoded
<1> QED
  BY <1>1

LEMMA ParsedWrite ==
  ASSUME IInv, LoadInv, WriteInv, ProgramParsed
  PROVE  WriteInv'
<1>0. /\ stage = "program" /\ file' = file /\ data' = data /\ prog' = prog
      /\ stage' = "data" /\ next' = 1
  BY DEF ProgramParsed
<1>1. ASSUME Valid(file')
      PROVE  Writing'
  <2>0. Valid(file)
    BY <1>0, <1>1
  <2>1. /\ Ready(file, next - 1, prog) /\ data = NoData
        /\ Built(file, next - 1, prog) /\ next <= Len(file.sections) + 1
    BY <1>0, <2>0 DEF LoadInv, Loading, WriteInv, Writing
  <2>2. next - 1 = Len(file.sections)
    BY <2>1, AllParsed DEF ProgramParsed
  <2>3. Whole(file, prog)
    BY <2>1, <2>2 DEF Whole
  <2>4. Filled(file, 0, data)
    <3>1. ~Seen(file, 0, 11)
      BY DEF Seen
    <3> QED
      BY <2>1, <3>1 DEF Filled, NoData
  <2>5. next' - 1 = 0
    BY <1>0
  <2> QED
    BY <1>0, <2>3, <2>4, <2>5 DEF Writing
<1> QED
  BY <1>0, <1>1 DEF WriteInv

LEMMA DataWrite ==
  ASSUME IInv, LoadInv, WriteInv, ParseDataSection
  PROVE  WriteInv'
<1> DEFINE y == DataPassSection(data, file.sections[next])
<1>0. stage = "data" /\ file' = file /\ prog' = prog /\ data' = y
  BY DEF ParseDataSection
<1>1. /\ next \in 1..Len(file.sections) /\ Decoded(file)
      /\ (next + 1) - 1 = next
  BY NextSection DEF ParseDataSection
<1>2. ASSUME Valid(file')
      PROVE  Writing'
  <2>1. Valid(file)
    BY <1>0, <1>2
  <2>2. /\ DataReady(file, next - 1, data) /\ Filled(file, next - 1, data)
        /\ Whole(file, prog)
    BY <1>0, <2>1 DEF LoadInv, Loading, WriteInv, Writing
  <2>3. Filled(file, next, y) /\ DataReady(file, next, y)
    BY <1>1, <2>1, <2>2, FilledStep, DataReadyStep
  <2> HIDE DEF y
  <2>4. next' = next + 1 /\ stage' = stage
    <3>1. y.result = "OK"
      BY <2>3 DEF DataReady
    <3> QED
      BY <1>0, <3>1 DEF ParseDataSection, Goes, y
  <2> QED
    BY <1>0, <1>1, <2>2, <2>3, <2>4 DEF Writing
<1>3. stage' # "register"
  BY <1>0 DEF ParseDataSection, Goes
<1> QED
  BY <1>0, <1>2, <1>3 DEF WriteInv

LEMMA StartWrite ==
  ASSUME IInv, LoadInv, WriteInv, DataParsed
  PROVE  WriteInv'
<1>0. /\ stage = "data" /\ file' = file /\ prog' = prog
      /\ stage' = "loaded" /\ data' = StartSetUp(data)
  BY DEF DataParsed
<1>1. ASSUME Valid(file')
      PROVE  Writing'
  <2>0. Valid(file) /\ Decoded(file)
    BY <1>0, <1>1 DEF IInv
  <2>1. /\ DataReady(file, next - 1, data) /\ Filled(file, next - 1, data)
        /\ Whole(file, prog) /\ next <= Len(file.sections) + 1
    BY <1>0, <2>0 DEF LoadInv, Loading, WriteInv, Writing
  <2>2. next - 1 = Len(file.sections)
    BY <2>1, AllParsed DEF DataParsed
  <2>3. Loaded(file, StartSetUp(data))
    BY <2>0, <2>1, <2>2, FilledLoaded
  <2> QED
    BY <1>0, <2>1, <2>3 DEF Writing
<1> QED
  BY <1>0, <1>1 DEF WriteInv

LEMMA StutterWrite ==
  ASSUME WriteInv, UNCHANGED vars
  PROVE  WriteInv'
<1>1. /\ file' = file /\ stage' = stage /\ next' = next
      /\ result' = result /\ prog' = prog /\ data' = data
  BY DEF vars
<1> QED
  BY <1>1 DEF WriteInv, Writing

LEMMA AlwaysWrite == Spec => []WriteInv
<1>1. ASSUME IInv, LoadInv, WriteInv, [Next]_vars
      PROVE  WriteInv'
  BY <1>1, RegisterWrite, OpenWrite, ProgWrite, ParsedWrite, DataWrite,
     StartWrite, StutterWrite DEF Next
<1> QED
  BY <1>1, InitWrite, AlwaysIInv, AlwaysLoad, PTL DEF Spec

(* The program is what the file says, also of what the file has nothing.   *)
LEMMA WholeBuilt ==
  ASSUME NEW f, Decoded(f), Valid(f), NEW c, Whole(f, c)
  PROVE  /\ c.types = Vec(f, "type") /\ Holds(c.table, Table(f))
         /\ ImportsBuilt(f, c) /\ FunctionsBuilt(f, c)
         /\ CodeBuilt(f, c) /\ ExportsBuilt(f, c)
<1> DEFINE n == Len(f.sections)
<1>1. Ready(f, n, c) /\ Built(f, n, c)
  BY DEF Whole
<1>2. c.types = Vec(f, "type")
  BY <1>1, Unseen DEF Ready, Built
<1>3. Holds(c.table, Table(f))
  BY <1>1, Unseen, NoElements DEF Built
<1>4. ImportsBuilt(f, c)
  <2>1. CASE ~Seen(f, n, 2)
    <3>1. Vec(f, "import") = <<>>
      BY <2>1, Unseen
    <3>2. NofImports(f) = Len(<<>>)
      BY <3>1 DEF NofImports
    <3>3. NofImports(f) = 0
      BY <3>2
    <3> QED
      BY <3>3 DEF ImportsBuilt
  <2> QED
    BY <1>1, <2>1 DEF Built
<1>5. FunctionsBuilt(f, c)
  <2>1. CASE ~Seen(f, n, 3)
    <3>1. Vec(f, "function") = <<>>
      BY <2>1, Unseen
    <3>2. 1..Len(Vec(f, "function")) = {}
      BY <3>1
    <3> QED
      BY <3>2 DEF FunctionsBuilt
  <2> QED
    BY <1>1, <2>1 DEF Built
<1>6. CodeBuilt(f, c)
  <2>1. CASE ~Seen(f, n, 10)
    <3>1. Vec(f, "code") = <<>>
      BY <2>1, Unseen
    <3>2. 1..Len(Vec(f, "code")) = {}
      BY <3>1
    <3> QED
      BY <3>2 DEF CodeBuilt
  <2> QED
    BY <1>1, <2>1 DEF Built
<1>7. ExportsBuilt(f, c)
  <2>1. CASE ~Seen(f, n, 7)
    <3>1. Vec(f, "export") = <<>>
      BY <2>1, Unseen
    <3>2. 1..Len(Vec(f, "export")) = {}
      BY <3>1
    <3> QED
      BY <3>2 DEF ExportsBuilt
  <2> QED
    BY <1>1, <2>1 DEF Built
<1> QED
  BY <1>2, <1>3, <1>4, <1>5, <1>6, <1>7

LEMMA TypesAsWritten ==
  ASSUME NEW f, Decoded(f), Valid(f), NEW c, Whole(f, c)
  PROVE  [i \in DOMAIN c.functions |-> c.functions[i].type] = FuncTypes(f)
<1> DEFINE fs == c.functions
           m == NofImports(f)
           v == Vec(f, "import")
           g == Vec(f, "function")
           n == Len(g)
           a == [i \in 1..m |-> v[i].type]
           b == a \o g
           t == [i \in DOMAIN fs |-> fs[i].type]
<1>1. /\ m \in Nat /\ n \in Nat /\ Len(fs) = m + n
      /\ fs \in Seq(Functions)
  <2>1. c \in Programs
    BY DEF Whole, Ready
  <2> QED
    BY <2>1, WholeSizes, NofIs DEF Programs
<1>2. FuncTypes(f) = b
  BY DEF FuncTypes
<1>3. g \in Seq(Nat)
  <2>1. Id["function"] \in 1..12 /\ Id["function"] = Id.function
    BY NameOfId, IdIs
  <2>2. g \in Seq(Elements(Id["function"]))
    BY <2>1, VecIn
  <2> QED
    BY <2>1, <2>2, ElementKinds
<1>4. \A i \in 1..m : v[i].type \in Nat
  <2>1. Id["import"] \in 1..12 /\ Id["import"] = Id.import
    BY NameOfId, IdIs
  <2>2. v \in Seq(Elements(Id["import"]))
    BY <2>1, VecIn
  <2> DEFINE E == Elements(Id["import"])
  <2>3. v \in Seq(E) /\ m = Len(v)
    BY <2>2 DEF NofImports
  <2>4. \A x \in E : x.type \in Nat
    BY <2>1, ElementKinds
  <2> HIDE DEF E, v, m
  <2> QED
    BY <2>3, <2>4
<1>5. a \in Seq(Nat) /\ Len(a) = m
  <2>1. a \in [1..m -> Nat]
    BY <1>4
  <2> HIDE DEF a, m
  <2> QED
    BY <1>1, <2>1
<1>6. \A i \in 1..m : fs[i].type = a[i]
  BY WholeBuilt DEF ImportsBuilt, ImportedAs
<1>7. \A i \in 1..n : fs[m + i].type = g[i]
  BY WholeBuilt DEF FunctionsBuilt, DefinedAs
<1> HIDE DEF fs, m, v, g, n, a, b
<1>8. /\ Len(b) = m + n /\ b \in Seq(Nat)
      /\ \A i \in 1..m + n : b[i] = IF i <= m THEN a[i] ELSE g[i - m]
  BY <1>3, <1>5, ConcatProperties DEF b, n
<1>9. DOMAIN fs = 1..m + n /\ DOMAIN b = 1..m + n
  BY <1>1, <1>8
<1>10. ASSUME NEW i \in 1..m + n
       PROVE  fs[i].type = b[i]
  <2>1. CASE i <= m
    <3>1. i \in 1..m
      BY <1>1, <2>1
    <3> QED
      BY <1>6, <1>8, <2>1, <3>1
  <2>2. CASE ~(i <= m)
    <3>1. i - m \in 1..n /\ m + (i - m) = i
      BY <1>1, <2>2
    <3>2. fs[m + (i - m)].type = g[i - m]
      BY <1>7, <3>1
    <3> QED
      BY <1>8, <2>2, <3>1, <3>2
  <2> QED
    BY <2>1, <2>2
<1>11. t = [i \in 1..m + n |-> b[i]]
  BY <1>9, <1>10
<1>12. b = [i \in 1..m + n |-> b[i]]
  BY <1>8, <1>9
<1> QED
  BY <1>2, <1>11, <1>12 DEF fs

(* The pointer found under the name of an import is that of a function of  *)
(* the host with this name.                                                *)
LEMMA ImportsAsWritten ==
  ASSUME NEW f, Decoded(f), Valid(f), NEW c, Whole(f, c), Registered(c),
         NEW i \in 1..NofImports(f)
  PROVE  LET m == Vec(f, "import")[i] IN
         Available[c.functions[i].func_ptr[1]] = <<m.module, m.field>>
<1> DEFINE m == Vec(f, "import")[i]
           name == ImportName(m.module, m.field)
           l == c.available
<1>1. c.functions[i].func_ptr = Find(l, name)
  BY WholeBuilt DEF ImportsBuilt, ImportedAs
<1>2. Provided(m)
  <2>1. Seen(f, Len(f.sections), 2)
    <3>1. ASSUME ~Seen(f, Len(f.sections), 2)
          PROVE  FALSE
      <4>1. Vec(f, "import") = <<>>
        BY <3>1, Unseen
      <4>2. NofImports(f) = Len(<<>>)
        BY <4>1 DEF NofImports
      <4> QED
        BY <4>2
    <3> QED
      BY <3>1
  <2>2. PICK k \in 1..Len(f.sections) : f.sections[k].id = 2
    BY <2>1 DEF Seen
  <2>3. Stands(f, k, 2) /\ Stands(f, k, Id["import"]) /\ Id["import"] \in 1..12
    BY <2>2, NameOfId DEF Stands
  <2>4. Vec(f, "import") = f.sections[k].vec
    BY <2>3, VecOf
  <2>5. i \in 1..Len(f.sections[k].vec)
    BY <2>4 DEF NofImports
  <2> QED
    BY <2>3, <2>4, <2>5, ValidImports
<1>3. PICK j \in 1..Len(Available) : Available[j] = <<m.module, m.field>>
  BY <1>2 DEF Provided
<1>4. name = ImportName(Available[j][1], Available[j][2])
  BY <1>3
<1>5. name \in Words /\ Len(name) <= MaxKeySize
  BY <1>4, RegisteredName
<1>6. l \in Lists /\ Find(l, name) # Null
  <2>1. c \in Programs /\ HostFound(c)
    BY DEF Whole, Ready
  <2> QED
    BY <1>4, <2>1 DEF Programs, HostFound
<1> HIDE DEF l, name
<1>7. PICK e \in Content(l.array) : e.key = name /\ Find(l, name) = e.ptr
  BY <1>5, <1>6, FindIs
<1>8. PICK h \in 1..Len(Available) :
        /\ e.ptr = <<h>>
        /\ e.key = ImportName(Available[h][1], Available[h][2])
  BY <1>7 DEF Registered, l
<1>9. Available[h] = Available[j]
  BY <1>4, <1>7, <1>8, LoaderAssumption
<1>10. c.functions[i].func_ptr[1] = h
  BY <1>1, <1>7, <1>8
<1> QED
  BY <1>3, <1>9, <1>10

LEMMA CodeAsWritten ==
  ASSUME NEW f, Decoded(f), Valid(f), NEW c, Whole(f, c),
         NEW i \in DOMAIN Vec(f, "code")
  PROVE  LET g == c.functions[NofImports(f) + i]
             e == Vec(f, "code")[i]
         IN /\ g.body = e.body
            /\ g.nof_local >= Sum([j \in DOMAIN e.locals |-> e.locals[j].count])
<1> DEFINE v == Vec(f, "code")
           e == v[i]
           g == c.functions[NofImports(f) + i]
           E == Elements(Id.code)
           counts == [j \in DOMAIN e.locals |-> e.locals[j].count]
<1>1. v \in Seq(E)
  <2>1. Id["code"] \in 1..12 /\ Id["code"] = Id.code
    BY NameOfId, IdIs
  <2>2. v \in Seq(Elements(Id["code"]))
    BY <2>1, VecIn
  <2> QED
    BY <2>1, <2>2
<1>2. i \in 1..Len(v) /\ e \in E
  <2> HIDE DEF E, v
  <2> QED
    BY <1>1 DEF v
<1>3. CodeAs(g, e)
  BY <1>2, WholeBuilt DEF CodeBuilt
<1>4. e.locals \in Seq([count : Nat, type : STRING])
  BY <1>2, ElementKinds
<1> HIDE DEF e
<1>5. Sum(counts) \in Nat
  <2> DEFINE l == e.locals
             L == [count : Nat, type : STRING]
  <2>1. l \in Seq(L) /\ \A x \in L : x.count \in Nat
    BY <1>4
  <2> HIDE DEF L, l
  <2>2. Len(l) \in Nat /\ DOMAIN l = 1..Len(l)
        /\ \A j \in 1..Len(l) : l[j].count \in Nat
    BY <2>1
  <2>3. counts = [j \in 1..Len(l) |-> l[j].count]
    BY <2>2 DEF l
  <2>4. Len(counts) = Len(l) /\ \A j \in 1..Len(l) : counts[j] \in Nat
    <3> DEFINE n == Len(l)
               q == [j \in 1..n |-> l[j].count]
    <3>1. n \in Nat /\ q \in [1..n -> Nat]
      BY <2>2
    <3> HIDE DEF n, q
    <3>2. Len(q) = n /\ \A j \in 1..n : q[j] \in Nat
      BY <3>1
    <3> QED
      BY <2>3, <3>2 DEF n, q
  <2> HIDE DEF counts
  <2> QED
    BY <2>2, <2>4, SumNat
<1>6. g.nof_local = Sum(counts) + Slack
  BY <1>3 DEF CodeAs, Room
<1> DEFINE sum == Sum(counts)
<1> HIDE DEF g, counts, sum
<1>7. g.nof_local >= sum
  BY <1>5, <1>6 DEF sum, Slack
<1> QED
  BY <1>3, <1>7 DEF CodeAs, g, e, counts, sum

LEMMA ExportsAsWritten ==
  ASSUME NEW f, Decoded(f), Valid(f), Whole(f, prog),
         NEW i \in DOMAIN Vec(f, "export"),
         Vec(f, "export")[i].kind = "func"
  PROVE  LET e == Vec(f, "export")[i] IN
         IF e.index < NofImports(f)
         THEN \E k \in Called(e.name) : k < NofImports(f)
         ELSE Called(e.name) = {e.index}
<1> DEFINE v == Vec(f, "export")
           e == v[i]
           E == Elements(Id["export"])
           x == e.index
           m == NofImports(f)
           n == Len(Vec(f, "function"))
           fs == prog.functions
<1>1. v \in Seq(E)
  BY NameOfId, VecIn
<1>2. i \in 1..Len(v)
  <2> HIDE DEF E, v
  <2> QED
    BY <1>1 DEF v
<1>3. ExportedAs(prog.exported, prog.array, e)
  BY <1>2, WholeBuilt DEF ExportsBuilt
<1>4. x \in 0..Nof(f) - 1
  BY DEF Valid, ValidExports
<1>5. m \in Nat /\ n \in Nat /\ Nof(f) = m + n
  BY NofIs
<1>6. Called(e.name) = {fs[x + 1].func_idx}
  <2>1. Find(prog.exported, e.name) = <<prog.array, x>>
    BY <1>3 DEF ExportedAs
  <2> HIDE DEF x, e
  <2>2. <<prog.array, x>> # Null /\ <<prog.array, x>>[1] = prog.array
        /\ <<prog.array, x>>[2] = x
    BY DEF Null
  <2> QED
    BY <2>1, <2>2 DEF Called
<1>7. \A j \in 1..m : fs[j].func_idx = 0
  BY WholeBuilt DEF ImportsBuilt, ImportedAs
<1>8. \A j \in 1..n : fs[m + j].func_idx = m + j - 1
  BY WholeBuilt DEF FunctionsBuilt, DefinedAs
<1> HIDE DEF x, m, n, fs
<1>9. CASE x < m
  <2>1. x + 1 \in 1..m /\ 0 < m
    BY <1>4, <1>5, <1>9
  <2>2. fs[x + 1].func_idx = 0
    BY <1>7, <2>1
  <2> QED
    BY <1>6, <1>9, <2>1, <2>2 DEF x, m
<1>10. CASE ~(x < m)
  <2>1. x + 1 - m \in 1..n /\ m + (x + 1 - m) = x + 1
        /\ m + (x + 1 - m) - 1 = x
    BY <1>4, <1>5, <1>10
  <2>2. fs[m + (x + 1 - m)].func_idx = m + (x + 1 - m) - 1
    BY <1>8, <2>1
  <2>3. fs[x + 1].func_idx = x
    BY <2>1, <2>2
  <2> QED
    BY <1>6, <1>10, <2>3 DEF x, m
<1> QED
  BY <1>9, <1>10

LEMMA WrittenLoaded ==
  ASSUME IInv, WriteInv
  PROVE  LoadedAsWritten
<1> SUFFICES ASSUME stage = "loaded", Valid(file)
             PROVE  LoadedAsWritten
  BY DEF LoadedAsWritten
<1>1. /\ Decoded(file) /\ Whole(file, prog) /\ Loaded(file, data)
      /\ Registered(prog)
  BY DEF IInv, WriteInv, Writing
<1>2. /\ prog.types = Vec(file, "type") /\ Holds(prog.table, Table(file))
      /\ prog.imported = NofImports(file)
  BY <1>1, WholeBuilt, WholeSizes
<1>3. [i \in DOMAIN prog.functions |-> prog.functions[i].type]
        = FuncTypes(file)
  BY <1>1, TypesAsWritten
<1>4. \A i \in 1..NofImports(file) :
        LET m == Vec(file, "import")[i] IN
        Available[prog.functions[i].func_ptr[1]] = <<m.module, m.field>>
  BY <1>1, ImportsAsWritten
<1>5. \A i \in DOMAIN Vec(file, "code") :
        LET f == prog.functions[NofImports(file) + i]
            e == Vec(file, "code")[i]
        IN /\ f.body = e.body
           /\ f.nof_local >= Sum([j \in DOMAIN e.locals |-> e.locals[j].count])
  BY <1>1, CodeAsWritten
<1>6. \A i \in DOMAIN Vec(file, "export") :
        LET e == Vec(file, "export")[i] IN
        e.kind = "func" =>
          IF e.index < NofImports(file)
          THEN \E k \in Called(e.name) : k < NofImports(file)
          ELSE Called(e.name) = {e.index}
  BY <1>1, ExportsAsWritten
<1>7. \A k \in DOMAIN Table(file) :
        Table(file)[k] # NoFunction =>
          k < Len(prog.table) /\ prog.table[k + 1] = Table(file)[k]
  BY <1>2 DEF Holds
<1>8. /\ data.globals = Globals(file)
      /\ data.pages * PageSize = MemorySize(file)
      /\ data.call = IF Vec(file, "start") = <<>> THEN NoStart
                     ELSE Vec(file, "start")[1]
  BY <1>1 DEF Loaded
<1>9. \A a \in DOMAIN Image(file) :
        Image(file)[a] = IF a \in DOMAIN data.memory
                         THEN data.memory[a] ELSE 0
  BY <1>1 DEF Loaded, Shows
<1> QED
  BY <1>2, <1>3, <1>4, <1>5, <1>6, <1>7, <1>8, <1>9 DEF LoadedAsWritten

(* What a valid module within the limits holds is what is loaded of it:    *)
(* every function with its type and body, room for its locals and, for an  *)
(* import, the host function of its name; every exported function under    *)
(* its name; the initialised entries of the table; globals, memory and the *)
(* start function.  The reference is WasmModule, which decodes the file as *)
(* a whole; the parsers build it section by section.  Code:                *)
(* dwac_parse_prog_sections, dwac_parse_data_sections, run_init_expr,      *)
(* dwac_find_exported_function and what they call.                         *)
THEOREM ValidAsWritten == Spec => []LoadedAsWritten
BY AlwaysIInv, AlwaysWrite, WrittenLoaded, PTL

=============================================================================
