----------------------------- MODULE WasmModule -----------------------------
(***************************************************************************)
(* What the WebAssembly core specification says a module of the binary     *)
(* format stands for, and which modules are valid.  Nothing of the loader  *)
(* is in it but its limits: only functions are imported, one table of      *)
(* functions, one memory, a start function of its own, no empty function,  *)
(* table or memory section.                                                *)
(*                                                                         *)
(* A file is a header and a sequence of sections [id, vec, fits]: the      *)
(* number, the vector of what it encodes (Elements), and whether its       *)
(* length is the length of that.                                           *)
(***************************************************************************)
EXTENDS Integers, SequencesExt

CONSTANTS
  MaxNof,      \* elements a vector may have (16 + byte_count / 16)
  MaxName,     \* characters a name may have
  PageSize,
  MaxPages,    \* DWAC_MAX_NOF_PAGES
  Available    \* the functions of the host: sequence of <<module, field>>

Id == [custom |-> 0, type |-> 1, import |-> 2, function |-> 3, table |-> 4,
       memory |-> 5, global |-> 6, export |-> 7, start |-> 8, element |-> 9,
       code |-> 10, data |-> 11, datacount |-> 12]

(* The order the format prescribes: the data count comes before the code.  *)
Place(id) ==
  CASE id = Id.datacount -> 10
    [] id \in {Id.code, Id.data} -> id + 1
    [] OTHER -> id

(* Expressions: a constant, or the value of a global. *)
Const(v) == [op |-> "const", arg |-> v]
Get(i)   == [op |-> "get", arg |-> i]
NoExpr   == [op |-> "none", arg |-> 0]

(* What the numbers, names and expressions of a file decode to; a maximum  *)
(* of -1 stands for none.                                                  *)
Exprs == [op : {"const", "get", "none"}, arg : Nat]
Elements(id) ==
  CASE id = Id.type -> [params : Nat, results : Nat]
    [] id = Id.import -> [module : Seq(Nat), field : Seq(Nat), kind : STRING,
                          type : Nat]
    [] id = Id.table -> [type : STRING, size : Nat]
    [] id = Id.memory -> [pages : Nat, max : Int]
    [] id = Id.global -> Exprs
    [] id = Id.export -> [name : Seq(Nat), kind : STRING, index : Nat]
    [] id = Id.element -> [table : Nat, offset : Exprs, entries : Seq(Nat)]
    [] id = Id.code -> [locals : Seq([count : Nat, type : STRING]),
                        body : Seq(Nat), ended : BOOLEAN]
    [] id = Id.data -> [memory : Nat, offset : Exprs, bytes : Seq(Nat)]
    [] OTHER -> Nat

Decoded(f) ==
  /\ f.magic \in BOOLEAN /\ Len(f.sections) \in Nat
  /\ \A i \in 1..Len(f.sections) :
       LET s == f.sections[i] IN
       /\ s.id \in Nat /\ s.fits \in BOOLEAN /\ s.vec \in Seq(Elements(s.id))
       /\ s.id = Id.start => s.vec # <<>>

Sum(counts) ==
  LET s[i \in 0..Len(counts)] == IF i = 0 THEN 0 ELSE s[i - 1] + counts[i]
  IN s[Len(counts)]

-----------------------------------------------------------------------------
(* The elements of a kind in the first k sections, for every k. *)
Joined(f, name) ==
  LET v[k \in 0..Len(f.sections)] ==
        IF k = 0 THEN <<>>
        ELSE IF f.sections[k].id = Id[name] THEN v[k - 1] \o f.sections[k].vec
        ELSE v[k - 1]
  IN v

Vec(f, name) == Joined(f, name)[Len(f.sections)]

NofImports(f) == Len(Vec(f, "import"))
FuncTypes(f) ==
  [i \in 1..NofImports(f) |-> Vec(f, "import")[i].type] \o Vec(f, "function")
Nof(f) == Len(FuncTypes(f))

Value(globals, e) == IF e.op = "const" THEN e.arg ELSE globals[e.arg + 1]

(* The values of the first k of a sequence of expressions, for every k. *)
Values(exprs) ==
  LET g[k \in 0..Len(exprs)] ==
        IF k = 0 THEN <<>> ELSE Append(g[k - 1], Value(g[k - 1], exprs[k]))
  IN g

Globals(f) == Values(Vec(f, "global"))[Len(Vec(f, "global"))]

(* What the first k segments <<offset, items>> leave of n places that held  *)
(* none, for every k.  Later ones overwrite what earlier ones wrote.       *)
Overwritten(segments, none, n) ==
  LET image[k \in 0..Len(segments)] ==
        IF k = 0 THEN [a \in 0..n - 1 |-> none]
        ELSE LET at == segments[k][1]
                 items == segments[k][2]
             IN [a \in 0..n - 1 |->
                   IF a - at \in 0..Len(items) - 1 THEN items[a - at + 1]
                   ELSE image[k - 1][a]]
  IN image

TableSize(f) == Sum([i \in DOMAIN Vec(f, "table") |-> Vec(f, "table")[i].size])
NoFunction == -1
Entries(f) ==
  [i \in DOMAIN Vec(f, "element") |->
     LET e == Vec(f, "element")[i] IN <<Value(Globals(f), e.offset), e.entries>>]
Table(f) == Overwritten(Entries(f), NoFunction, TableSize(f))[Len(Entries(f))]

MemorySize(f) ==
  PageSize * Sum([i \in DOMAIN Vec(f, "memory") |-> Vec(f, "memory")[i].pages])
Segments(f) ==
  [i \in DOMAIN Vec(f, "data") |->
     LET s == Vec(f, "data")[i] IN <<Value(Globals(f), s.offset), s.bytes>>]
Image(f) == Overwritten(Segments(f), 0, MemorySize(f))[Len(Segments(f))]

-----------------------------------------------------------------------------
(* Validity *)

(* Custom sections may stand anywhere. *)
WellFormed(f) ==
  LET s == f.sections
      Standard == {i \in 1..Len(s) : s[i].id # Id.custom} IN
  /\ f.magic
  /\ \A i \in 1..Len(s) : s[i].fits
  /\ \A i \in Standard : s[i].id \in 1..12 /\ Len(s[i].vec) <= MaxNof
  /\ \A i \in Standard :
       s[i].id \in {Id.function, Id.table, Id.memory} => s[i].vec # <<>>
  /\ \A i, j \in Standard : i < j => Place(s[i].id) < Place(s[j].id)

ValidFunctions(f) ==
  LET types == Vec(f, "type")
      imports == Vec(f, "import")
      IsType(t) == t \in 0..Len(types) - 1
  IN
  /\ \A i \in DOMAIN types : types[i].params <= 32 /\ types[i].results <= 8
  /\ \A i \in DOMAIN imports :
       /\ imports[i].kind = "func" /\ IsType(imports[i].type)
       /\ Len(imports[i].module) + 1 + Len(imports[i].field) <= MaxName
       /\ <<imports[i].module, imports[i].field>> \in ToSet(Available)
  /\ \A i \in 1..Nof(f) : IsType(FuncTypes(f)[i])
  /\ Nof(f) <= MaxNof
  /\ Len(Vec(f, "code")) = Len(Vec(f, "function"))
  /\ \A i \in DOMAIN Vec(f, "code") :
       LET c == Vec(f, "code")[i] IN
       /\ c.ended /\ Len(c.locals) <= MaxNof
       /\ \A j \in DOMAIN c.locals : c.locals[j].type # "v128"
  /\ \A i \in DOMAIN Vec(f, "start") :
       LET s == Vec(f, "start")[i] IN
       /\ s \in NofImports(f)..Nof(f) - 1
       /\ types[FuncTypes(f)[s + 1] + 1] = [params |-> 0, results |-> 0]

ValidExports(f) ==
  LET exports == Vec(f, "export") IN
  /\ \A i \in DOMAIN exports :
       /\ Len(exports[i].name) <= MaxName
       /\ exports[i].kind \in {"func", "table", "memory", "global"}
       /\ exports[i].kind = "func" => exports[i].index \in 0..Nof(f) - 1
  /\ \A i, j \in DOMAIN exports :
       exports[i].name = exports[j].name => i = j

ValidContents(f) ==
  LET Fits(e, n, size) ==
        (e.op = "get" => e.arg \in 0..Len(Globals(f)) - 1)
        /\ e.op # "none" /\ Value(Globals(f), e) + n <= size
  IN
  /\ \A i \in DOMAIN Vec(f, "global") :
       LET e == Vec(f, "global")[i] IN
       e.op # "none" /\ (e.op = "get" => e.arg \in 0..i - 2)
  /\ Len(Vec(f, "table")) <= 1 /\ Len(Vec(f, "memory")) <= 1
  /\ \A i \in DOMAIN Vec(f, "table") :
       Vec(f, "table")[i].type = "func" /\ Vec(f, "table")[i].size <= MaxNof
  /\ \A i \in DOMAIN Vec(f, "memory") :
       Vec(f, "memory")[i].pages <= MaxPages
       /\ Vec(f, "memory")[i].max <= MaxPages
  /\ \A i \in DOMAIN Vec(f, "element") :
       LET e == Vec(f, "element")[i] IN
       /\ e.table = 0 /\ Len(e.entries) <= MaxNof /\ e.offset.op = "const"
       /\ Fits(e.offset, Len(e.entries), TableSize(f))
       /\ \A j \in DOMAIN e.entries : e.entries[j] \in 0..Nof(f) - 1
  /\ \A i \in DOMAIN Vec(f, "data") :
       LET s == Vec(f, "data")[i] IN
       s.memory = 0 /\ Fits(s.offset, Len(s.bytes), MemorySize(f))

Valid(f) ==
  WellFormed(f) /\ ValidFunctions(f) /\ ValidContents(f) /\ ValidExports(f)
=============================================================================
