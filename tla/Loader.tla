------------------------------- MODULE Loader -------------------------------
(***************************************************************************)
(* How a file becomes a program and its data: register_functions of        *)
(* drekkar_wa_env.c, then dwac_parse_prog_sections and                     *)
(* dwac_parse_data_sections of drekkar_wa_core.c, which both go through    *)
(* all sections and take from each what is theirs.  A section is one step. *)
(* check_exception turns what the first pass refuses into success, so the  *)
(* second pass follows also then, with what there is of the program.       *)
(*                                                                         *)
(* Sections are decoded here; LEB128 is part of Numeric.  A function is    *)
(* known by its index in functions_array, and the array by how often it    *)
(* has been allocated: a pointer <<array, index>> taken before it moved    *)
(* points nowhere.                                                         *)
(***************************************************************************)
EXTENDS WasmModule, HashList

CONSTANTS
  Files,
  AddressSpace    \* the values a u32 has: 2^32

VARIABLES
  file,     \* the file, never changed once chosen
  stage,    \* "register", "program", "data", "loaded" or "abort"
  next,     \* the number of the next item: a name or a section
  result,   \* what the two parsers returned
  prog,     \* dwac_prog
  data      \* dwac_data: what the sections define of it

vars == <<file, stage, next, result, prog, data>>

Slash == 47
ImportName(module, field) == module \o <<Slash>> \o field

(* The host's own names fit into an entry of a hash list, and no two of    *)
(* its functions have the same name.                                       *)
ASSUME LoaderAssumption ==
  /\ MaxName = MaxKeySize
  /\ {MaxNof, PageSize, MaxPages, Len(Available)} \subseteq Nat
  /\ AddressSpace \in Nat \ {0}
  /\ \A i \in 1..Len(Available) :
       LET name == ImportName(Available[i][1], Available[i][2])
       IN name \in Seq(Nat) /\ Len(name) <= MaxKeySize
  /\ \A i, j \in 1..Len(Available) :
       ImportName(Available[i][1], Available[i][2])
         = ImportName(Available[j][1], Available[j][2])
       => Available[i] = Available[j]
  /\ \A f \in Files : Decoded(f)

(* dwac_linear_storage_64_set for a run of entries: what was skipped is 0. *)
SetFrom(s, at, entries) ==
  LET n == at + Len(entries) IN
  IF entries = <<>> THEN s
  ELSE [k \in 1..(IF Len(s) > n THEN Len(s) ELSE n) |->
          IF k \in at + 1..n THEN entries[k - at]
          ELSE IF k <= Len(s) THEN s[k] ELSE 0]

(* A parser is a record of what it has built and what it will return.      *)
Refused(c, r) == [c EXCEPT !.result = r]

-----------------------------------------------------------------------------
(* The elements of the vectors, first those of the program *)

Type(c, t) ==
  IF t.params > 32 THEN Refused(c, "TO_MANY_PARAMETERS")
  ELSE IF t.results > 8 THEN Refused(c, "TO_MANY_RESULT_VALUES")
  ELSE [c EXCEPT !.types = Append(@, t)]

(* Mutant of Function: func_idx is never written. *)
FunctionUnnumbered(kind, type, idx) ==
  [kind |-> kind, type |-> type, func_idx |-> 0, func_ptr |-> Null,
   nof_local |-> 0, body |-> Null]

(* A function of functions_array.  func_idx of an imported one is never    *)
(* written: the allocator has left it 0.                                   *)
Function(kind, type, idx) ==
  [kind |-> kind, type |-> type, func_idx |-> idx, func_ptr |-> Null,
   nof_local |-> 0, body |-> Null]

(* An import is printed with its type, and no type is a null pointer.      *)
Import(c, i) ==
  LET ptr == Find(c.available, ImportName(i.module, i.field))
      f == Function("imported", i.type, 0)
  IN IF i.kind # "func" THEN Refused(c, "UNKNOWN_TYPE_OF_IMPORT")
     ELSE IF Len(i.module) + 1 + Len(i.field) > MaxKeySize
       THEN Refused(c, "EXPORT_NAME_TO_LONG")
     ELSE IF i.type >= Len(c.types) THEN Refused(c, "abort")
     ELSE IF ptr = Null THEN Refused(c, "IMPORT_FIELD_NOT_FOUND")
     ELSE [c EXCEPT !.functions = Append(@, [f EXCEPT !.func_ptr = ptr]),
                    !.imported = @ + 1]

Export(c, e) ==
  IF Len(e.name) > MaxName THEN Refused(c, "EXPORT_NAME_TO_LONG")
  ELSE IF e.kind = "func"
    THEN IF e.index < Len(c.functions)
         THEN [c EXCEPT !.exported = Put(@, e.name, <<c.array, e.index>>)]
         ELSE Refused(c, "abort")
  ELSE IF e.kind \in {"table", "memory", "global"} THEN c
  ELSE Refused(c, "EXPORT_TYPE_NOT_IMPL_YET")

(* That an offset expression fails is not noticed, and in the first pass   *)
(* there are no globals yet.  What is popped then is the sentinel of the   *)
(* operand stack; allocating a table for it, of 16 GB, is taken to fail.   *)
Element(c, e) ==
  IF e.table # 0 THEN Refused(c, "ONLY_ONE_TABLE_IS_SUPPORTED")
  ELSE IF e.offset.op # "const" THEN Refused(c, "abort")
  ELSE IF Len(e.entries) > MaxNof THEN Refused(c, "TO_MANY_ENTRIES")
  ELSE [c EXCEPT !.table = SetFrom(@, e.offset.arg, e.entries)]

(* Ten locals more than declared, for every function. *)
Slack == 10

Code(c, e, i) ==
  LET n == c.imported + i
      locals == [j \in DOMAIN e.locals |-> e.locals[j].count]
  IN IF Len(e.locals) > MaxNof THEN Refused(c, "TOO_MANY_LOCAL_VARIABLES")
     ELSE IF \E j \in DOMAIN e.locals : e.locals[j].type = "v128"
       THEN Refused(c, "VECTORS_NOT_SUPPORTED")
     ELSE LET d == [c EXCEPT !.functions[n].nof_local = Sum(locals) + Slack,
                             !.functions[n].body = e.body]
          IN IF e.ended THEN d ELSE Refused(d, "MISSING_OPCODE_END")

(* Those of the data *)

(* run_init_expr: what it returns.  global.get sees the globals before.    *)
InitExprResult(c, e) ==
  CASE e.op = "const" -> "OK"
    [] e.op = "get" ->
         IF e.arg < Len(c.globals) THEN "OK" ELSE "GLOBAL_IDX_OUT_OF_RANGE"
    [] OTHER -> "MISSING_RETURN_VALUES"

GlobalEntry(c, e) ==
  LET r == InitExprResult(c, e) IN
  IF r # "OK" THEN Refused(c, r)
  ELSE [c EXCEPT !.globals = Append(@, Value(@, e))]

(* The end of a segment is a u32 that may wrap around; the bytes of one    *)
(* that does go to the argument area.  Lower memory comes to be with the   *)
(* first byte it is asked for.  That an offset expression fails is not     *)
(* noticed: what is popped then is the sentinel of the operand stack, an   *)
(* offset no memory below 1.9 GB has.                                      *)
Segment(c, s) ==
  LET offset == Value(c.globals, s.offset)
      n == Len(s.bytes)
      end == (offset + n) % AddressSpace
  IN IF s.memory # 0 THEN Refused(c, "ONLY_ONE_MEMORY_IS_SUPPORTED")
     ELSE IF InitExprResult(c, s.offset) # "OK"
       THEN Refused(c, "MEMORY_OUT_OF_RANGE")
     ELSE IF end > c.pages * PageSize
       THEN Refused(c, "MEMORY_OUT_OF_RANGE")
     ELSE [c EXCEPT !.lower = @ \/ offset + n \in 1..AddressSpace - 1,
                    !.memory = [a \in DOMAIN @ \cup offset..offset + n - 1 |->
                                  IF a \in offset..offset + n - 1
                                  THEN s.bytes[a - offset + 1] ELSE @[a]]]

(* Element i of the vector of a section, parsed. *)
Item(s, c, i) ==
  CASE s.id = Id.type    -> Type(c, s.vec[i])
    [] s.id = Id.import  -> Import(c, s.vec[i])
    [] s.id = Id.export  -> Export(c, s.vec[i])
    [] s.id = Id.element -> Element(c, s.vec[i])
    [] s.id = Id.code    -> Code(c, s.vec[i], i)
    [] s.id = Id.global  -> GlobalEntry(c, s.vec[i])
    [] s.id = Id.data    -> Segment(c, s.vec[i])

(* They are parsed until one is refused. *)
Items(c, s) ==
  LET x[i \in 0..Len(s.vec)] ==
        IF i = 0 THEN c
        ELSE IF x[i - 1].result = "OK" THEN Item(s, x[i - 1], i) ELSE x[i - 1]
  IN x[Len(s.vec)]

-----------------------------------------------------------------------------
(* dwac_parse_prog_sections *)

TypeSection(c, s) ==
  IF c.types # <<>> THEN Refused(c, "ONLY_ONE_SECTION_ALLOWED")
  ELSE IF Len(s.vec) > MaxNof THEN Refused(c, "TO_MANY_FUNCTION_TYPES")
  ELSE Items(c, s)

ImportSection(c, s) ==
  LET all == Items([c EXCEPT !.array = @ + 1], s) IN
  IF c.array > 0 \/ c.imported > 0
    THEN Refused(c, "ONLY_ONE_SECTION_ALLOWED")
  ELSE IF Len(s.vec) > MaxNof THEN Refused(c, "TO_MANY_IMPORTS")
  ELSE IF all.result # "OK" THEN all
  ELSE [all EXCEPT !.total = all.imported]

(* Reallocating the array takes a size that is bigger than before. *)
FunctionSection(c, s) ==
  LET n == c.total + Len(s.vec)
      added == [i \in 1..Len(s.vec) |->
                  Function("internal", s.vec[i], Len(c.functions) + i - 1)]
  IN IF c.total # c.imported THEN Refused(c, "ONLY_ONE_SECTION_ALLOWED")
     ELSE IF n > MaxNof
       THEN Refused([c EXCEPT !.total = n], "TO_MANY_FUNCTIONS")
     ELSE IF c.array > 0 /\ s.vec = <<>> THEN Refused(c, "abort")
     ELSE [c EXCEPT !.total = n, !.array = @ + 1,
                    !.functions = @ \o added]

(* The size of the table is looked at, and capacity reserved, not set. *)
TableSection(c, s) ==
  IF c.table # <<>> \/ Len(s.vec) # 1
    THEN Refused(c, "ONLY_ONE_TABLE_IS_SUPPORTED")
  ELSE IF s.vec[1].type # "func" THEN Refused(c, "NOT_SUPPORTED_TABLE_TYPE")
  ELSE IF s.vec[1].size > MaxNof THEN Refused(c, "TO_MANY_TABLE_ELEMENTS")
  ELSE c

ExportSection(c, s) ==
  IF Len(s.vec) > MaxNof THEN Refused(c, "TO_MANY_EXPORTS")
  ELSE Items(c, s)

StartSection(c, s) == [c EXCEPT !.start = s.vec[1]]

ElementSection(c, s) ==
  IF Len(s.vec) > MaxNof THEN Refused(c, "TO_MANY_ELEMENTS")
  ELSE LET all == Items(c, s)
       IN IF all.result = "OK" /\ ~s.fits THEN Refused(all, "abort") ELSE all

CodeSection(c, s) ==
  IF Len(s.vec) + c.imported > c.total
    THEN Refused(c, "OUT_OF_RANGE_IN_CODE_SECTION")
  ELSE Items(c, s)

(* The memory, global and data sections are left to the second pass.       *)
ProgSection(c, s) ==
  LET skipped == s.id \in {Id.custom, Id.memory, Id.global,
                           Id.data, Id.datacount}
      parsed ==
        CASE s.id = Id.type     -> TypeSection(c, s)
          [] s.id = Id.import   -> ImportSection(c, s)
          [] s.id = Id.function -> FunctionSection(c, s)
          [] s.id = Id.table    -> TableSection(c, s)
          [] s.id = Id.export   -> ExportSection(c, s)
          [] s.id = Id.start    -> StartSection(c, s)
          [] s.id = Id.element  -> ElementSection(c, s)
          [] s.id = Id.code     -> CodeSection(c, s)
          [] skipped            -> c
          [] OTHER              -> Refused(c, "UNKNOWN_SECTION")
  IN IF parsed.result = "OK" /\ ~skipped /\ ~s.fits
     THEN Refused(parsed, "MISALLIGNED_SECTION") ELSE parsed

-----------------------------------------------------------------------------
(* dwac_parse_data_sections *)

MemorySection(c, s) ==
  IF Len(s.vec) # 1 \/ c.lower
    THEN Refused(c, "ONLY_ONE_MEMORY_IS_SUPPORTED")
  ELSE LET m == s.vec[1]
           d == [c EXCEPT !.pages = m.pages, !.maximum = MaxPages]
       IN IF m.max < 0 THEN d
          ELSE IF m.max > MaxPages
            THEN Refused(d, "TO_MUCH_MEMORY_REQUESTED")
          ELSE [d EXCEPT !.maximum = m.max]

GlobalSection(c, s) ==
  IF c.globals # <<>> THEN Refused(c, "abort")
  ELSE IF Len(s.vec) > MaxNof THEN Refused(c, "TO_MANY_GLOBALS")
  ELSE Items(c, s)

DataSection(c, s) ==
  IF Len(s.vec) > MaxNof THEN Refused(c, "TO_MANY_DATA_SEGMENTS")
  ELSE Items(c, s)

DataPassSection(c, s) ==
  LET skipped == s.id \in 0..12 \ {Id.memory, Id.global, Id.data}
      parsed ==
        CASE s.id = Id.memory -> MemorySection(c, s)
          [] s.id = Id.global -> GlobalSection(c, s)
          [] s.id = Id.data   -> DataSection(c, s)
          [] skipped          -> c
          [] OTHER            -> Refused(c, "UNKNOWN_SECTION")
  IN IF /\ parsed.result = "OK" /\ ~s.fits
        /\ s.id \in {Id.memory, Id.data}
     THEN Refused(parsed, "MISALLIGNED_SECTION") ELSE parsed

NoStart == -1

(* Mutant of StartSetUp: the first function after the imports is refused. *)
StartSetUpLate(c) ==
  IF prog.start = NoStart THEN c
  ELSE IF prog.start <= prog.imported
    THEN Refused(c, "IMPORTED_FUNC_AS_START")
  ELSE IF prog.start < prog.total THEN [c EXCEPT !.call = prog.start]
  ELSE c

(* The start function is set up, by dwac_setup_function_call, not run.     *)
StartSetUp(c) ==
  IF prog.start = NoStart THEN c
  ELSE IF prog.start < prog.imported
    THEN Refused(c, "IMPORTED_FUNC_AS_START")
  ELSE IF prog.start < prog.total THEN [c EXCEPT !.call = prog.start]
  ELSE c

-----------------------------------------------------------------------------
NoProg ==
  [types |-> <<>>, functions |-> <<>>, array |-> 0, imported |-> 0,
   total |-> 0, table |-> <<>>, start |-> NoStart, result |-> "OK",
   exported |-> EmptyList, available |-> EmptyList]

NoData ==
  [pages |-> 0, maximum |-> 0, globals |-> <<>>, memory |-> <<>>,
   lower |-> FALSE, call |-> NoStart, result |-> "OK"]

NoFile == [magic |-> FALSE, sections |-> <<>>]

Init ==
  /\ file = NoFile
  /\ stage = "register"
  /\ next = 1
  /\ result = <<>>
  /\ prog = NoProg
  /\ data = NoData

(* dwac_register_function *)
Register ==
  /\ stage = "register"
  /\ next <= Len(Available)
  /\ LET a == Available[next] IN
       prog' = [prog EXCEPT !.available =
                  Put(@, ImportName(a[1], a[2]), <<next>>)]
  /\ next' = next + 1
  /\ UNCHANGED <<file, stage, result, data>>

(* The header is only looked at by the first pass. *)
OpenFile ==
  /\ stage = "register"
  /\ next > Len(Available)
  /\ file' \in Files
  /\ next' = 1
  /\ IF file'.magic
     THEN stage' = "program" /\ UNCHANGED result
     ELSE /\ stage' = "data"
          /\ result' = <<"NOT_WEBASM_OR_SUPPORTED_VERSION">>
  /\ UNCHANGED <<prog, data>>

(* What becomes of a pass when c is what it has built. *)
Goes(c, on) ==
  IF c.result = "OK" THEN next' = next + 1 /\ UNCHANGED <<stage, result>>
  ELSE IF c.result = "abort"
    THEN stage' = "abort" /\ UNCHANGED <<next, result>>
  ELSE stage' = on /\ next' = 1 /\ result' = Append(result, c.result)

ParseProgSection ==
  /\ stage = "program"
  /\ next <= Len(file.sections)
  /\ LET c == ProgSection(prog, file.sections[next]) IN
       /\ prog' = c
       /\ Goes(c, "data")
  /\ UNCHANGED <<file, data>>

ProgramParsed ==
  /\ stage = "program"
  /\ next > Len(file.sections)
  /\ stage' = "data" /\ next' = 1 /\ result' = Append(result, "OK")
  /\ UNCHANGED <<file, prog, data>>

ParseDataSection ==
  /\ stage = "data"
  /\ next <= Len(file.sections)
  /\ LET c == DataPassSection(data, file.sections[next]) IN
       /\ data' = c
       /\ Goes(c, "loaded")
  /\ UNCHANGED <<file, prog>>

DataParsed ==
  /\ stage = "data"
  /\ next > Len(file.sections)
  /\ data' = StartSetUp(data)
  /\ stage' = "loaded" /\ next' = 1 /\ result' = Append(result, data'.result)
  /\ UNCHANGED <<file, prog>>

Next ==
  \/ Register \/ OpenFile
  \/ ParseProgSection \/ ProgramParsed \/ ParseDataSection \/ DataParsed

Spec == Init /\ [][Next]_vars

-----------------------------------------------------------------------------
(* Properties *)

ListOK(list) ==
  /\ DOMAIN list.array = 0..list.capacity - 1
  /\ list.size = Cardinality({i \in DOMAIN list.array :
                                list.array[i].ptr # Null})
  /\ 2 * list.size <= list.capacity

(* The types of the state; a hash list is never more than half full, so    *)
(* that every search ends.  Code: dwac_hash_list_put.                      *)
TypeOK ==
  /\ stage \in {"register", "program", "data", "loaded", "abort"}
  /\ ListOK(prog.available) /\ ListOK(prog.exported)
  /\ prog.imported <= Len(prog.functions)
  /\ \A i \in DOMAIN prog.functions :
       prog.functions[i].kind =
         (IF i <= prog.imported THEN "imported" ELSE "internal")
  /\ data.pages \in Nat /\ DOMAIN data.memory \subseteq Nat
  /\ Len(result) <= 2

(* Once a name is found in a hash list it is found with the same pointer   *)
(* for good, however the list grows, for any file.  Code:                  *)
(* dwac_hash_list_put and the rehashing in it.                             *)
Names(list) == {list.array[i].key : i \in DOMAIN list.array} \ {<<>>}
Keeps(list, later) ==
  \A n \in Names(list) : Find(list, n) = Find(later, n)
NamesKept ==
  [][/\ Keeps(prog.available, prog'.available)
     /\ Keeps(prog.exported, prog'.exported)]_vars

(* A valid module within the limits is loaded: neither pass refuses        *)
(* anything and no assertion fails.  Code: every check of                  *)
(* dwac_parse_prog_sections and dwac_parse_data_sections.                  *)
ValidModulesLoad ==
  Valid(file) =>
    /\ stage # "abort"
    /\ \A i \in DOMAIN result : result[i] = "OK"

(* The function of a name as the environment calls it: by its func_idx.    *)
Called(name) ==
  LET ptr == Find(prog.exported, name) IN
  IF ptr = Null \/ ptr[1] # prog.array THEN {}
  ELSE {prog.functions[ptr[2] + 1].func_idx}

(* What a valid module is once it is loaded: the functions with their      *)
(* types, bodies and room for their locals, imports before the others and  *)
(* each with the pointer registered under its name; the exported functions *)
(* by name (one that is an import is refused when called); the entries of  *)
(* the table that are initialised; globals, memory and start function.     *)
(* Code: both parsers, and dwac_find_exported_function.                    *)
LoadedAsWritten ==
  stage = "loaded" /\ Valid(file) =>
    /\ prog.types = Vec(file, "type")
    /\ prog.imported = NofImports(file)
    /\ [i \in DOMAIN prog.functions |-> prog.functions[i].type]
         = FuncTypes(file)
    /\ \A i \in 1..NofImports(file) :
         LET m == Vec(file, "import")[i] IN
         Available[prog.functions[i].func_ptr[1]] = <<m.module, m.field>>
    /\ \A i \in DOMAIN Vec(file, "code") :
         LET f == prog.functions[NofImports(file) + i]
             e == Vec(file, "code")[i]
         IN /\ f.body = e.body
            /\ f.nof_local >= Sum([j \in DOMAIN e.locals |->
                                     e.locals[j].count])
    /\ \A i \in DOMAIN Vec(file, "export") :
         LET e == Vec(file, "export")[i] IN
         e.kind = "func" =>
           IF e.index < NofImports(file)
           THEN \E k \in Called(e.name) : k < NofImports(file)
           ELSE Called(e.name) = {e.index}
    /\ \A k \in DOMAIN Table(file) :
         Table(file)[k] # NoFunction =>
           k < Len(prog.table) /\ prog.table[k + 1] = Table(file)[k]
    /\ data.globals = Globals(file)
    /\ data.pages * PageSize = MemorySize(file)
    /\ \A a \in DOMAIN Image(file) :
         Image(file)[a] = IF a \in DOMAIN data.memory
                          THEN data.memory[a] ELSE 0
    /\ data.call = IF Vec(file, "start") = <<>> THEN NoStart
                   ELSE Vec(file, "start")[1]
=============================================================================
