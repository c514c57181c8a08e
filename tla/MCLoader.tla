------------------------------ MODULE MCLoader ------------------------------
(***************************************************************************)
(* Files for Loader: a module that uses every section, with up to Changes  *)
(* of its sections replaced by an alternative, left out or of the wrong    *)
(* length; and the module with a section twice, with a vector too long, or *)
(* with two sections exchanged.                                            *)
(***************************************************************************)
EXTENDS Loader

CONSTANT Changes

Section(name, elements) ==
  [id |-> Id[name], vec |-> elements, fits |-> TRUE]
Misfit(s) == [s EXCEPT !.fits = FALSE]

(* Character codes.  "e/a" is as long as a name may be. *)
A == 97   B == 98   M == 109   N == 110

HostFunctions ==
  <<<<<<101>>, <<A>>>>, <<<<101>>, <<B>>>>, <<<<119>>, <<A>>>>,
    <<<<119>>, <<B>>>>, <<<<119>>, <<M>>>>>>

Sig(p, r) == [params |-> p, results |-> r]
ImportOf(m, f, kind) == [module |-> <<m>>, field |-> f, kind |-> kind, type |-> 1]
ExportOf(name, kind, i) == [name |-> name, kind |-> kind, index |-> i]
ElementOf(o, entries) == [table |-> 0, offset |-> o, entries |-> entries]
DataOf(o, bytes) == [memory |-> 0, offset |-> o, bytes |-> bytes]
CodeOf(locals, body) == [locals |-> locals, body |-> body, ended |-> TRUE]
MemoryOf(pages, max) == [pages |-> pages, max |-> max]
Locals(n, type) == <<[count |-> n, type |-> type], [count |-> 1, type |-> "i32"]>>

Place1(usual, others) == [usual |-> usual, others |-> others]

Template ==
  <<Place1(Section("custom", <<>>), {}),
    Place1(Section("type", <<Sig(0, 0), Sig(1, 1)>>),
      {Section("type", <<Sig(0, 0), Sig(33, 0)>>),
       Section("type", <<Sig(0, 9)>>)}),
    Place1(Section("import", <<ImportOf(101, <<A>>, "func")>>),
      {Section("import", <<ImportOf(119, <<M>>, "func"),
                           ImportOf(101, <<B>>, "func")>>),
       Section("import", <<ImportOf(101, <<M>>, "func")>>),
       Section("import", <<ImportOf(101, <<A>>, "memory")>>),
       Section("import", <<ImportOf(101, <<A, B>>, "func")>>)}),
    Place1(Section("function", <<0, 0, 1>>),
      {Section("function", <<0, 1>>), Section("function", <<>>)}),
    Place1(Section("table", <<[type |-> "func", size |-> 4]>>),
      {Section("table", <<[type |-> "extern", size |-> 4]>>),
       Section("table", <<[type |-> "func", size |-> MaxNof + 1]>>)}),
    Place1(Section("memory", <<MemoryOf(1, -1)>>),
      {Section("memory", <<MemoryOf(2, 2)>>),
       Section("memory", <<MemoryOf(1, MaxPages + 1)>>)}),
    Place1(Section("global", <<Const(2)>>),
      {Section("global", <<Const(1), Get(0), Const(3)>>),
       Section("global", <<Get(0)>>), Section("global", <<NoExpr>>)}),
    Place1(Section("export", <<ExportOf(<<M>>, "func", 1)>>),
      {Section("export", <<ExportOf(<<M>>, "func", 1),
                           ExportOf(<<M, A, N>>, "func", 2),
                           ExportOf(<<B>>, "func", 0),
                           ExportOf(<<N>>, "memory", 0),
                           ExportOf(<<A, B>>, "func", 1)>>),
       Section("export", <<ExportOf(<<M>>, "func", 2),
                           ExportOf(<<M>>, "func", 1)>>),
       Section("export", <<ExportOf(<<M, A, N, A>>, "func", 1)>>),
       Section("export", <<ExportOf(<<M>>, "tag", 1)>>)}),
    Place1(Section("start", <<2>>),
      {Section("start", <<0>>), Section("start", <<1>>)}),
    Place1(Section("element", <<ElementOf(Const(1), <<1>>)>>),
      {Section("element", <<ElementOf(Const(0), <<1, 2>>),
                            ElementOf(Const(1), <<0, 2>>)>>),
       Section("element", <<[ElementOf(Const(0), <<1>>)
                               EXCEPT !.table = 1]>>),
       Section("element", <<ElementOf(Get(0), <<1>>)>>)}),
    Place1(Section("datacount", <<1>>), {}),
    Place1(Section("code", <<CodeOf(<<>>, <<1>>),
                             CodeOf(Locals(3, "i64"), <<2>>),
                             CodeOf(Locals(1, "f32"), <<3>>)>>),
      {Section("code", <<CodeOf(<<>>, <<1>>), CodeOf(<<>>, <<4>>)>>),
       Section("code", <<CodeOf(<<>>, <<1>>), CodeOf(Locals(1, "v128"), <<3>>)>>),
       Section("code", <<[CodeOf(<<>>, <<3>>) EXCEPT !.ended = FALSE]>>)}),
    Place1(Section("data", <<DataOf(Const(1), <<7>>)>>),
      {Section("data", <<DataOf(Const(0), <<5, 6>>), DataOf(Get(0), <<8, 9>>)>>),
       Section("data", <<DataOf(Const(PageSize), <<1>>)>>),
       Section("data", <<DataOf(Const(AddressSpace - 1), <<1, 2>>)>>)})>>

Places == DOMAIN Template

(* What may stand at a place: a sequence of sections. *)
Forms(p) ==
  {<< >>, <<Misfit(Template[p].usual)>>} \cup {<<s>> : s \in Template[p].others}
Usual(p) == <<Template[p].usual>>

File(sections) == [magic |-> TRUE, sections |-> sections]

Changed ==
  UNION {{[p \in Places |-> IF p \in P THEN f[p] ELSE Usual(p)] :
            f \in {g \in [P -> UNION {Forms(p) : p \in P}] :
                    \A p \in P : g[p] \in Forms(p)}} :
         P \in {Q \in SUBSET Places : Cardinality(Q) <= Changes}}

Whole == [p \in Places |-> Template[p].usual]
Exchanged(p) == [Whole EXCEPT ![p] = Whole[p + 1], ![p + 1] = Whole[p]]
Twice(p) == SubSeq(Whole, 1, p) \o SubSeq(Whole, p, Len(Whole))
Crowded(p) ==
  [Whole EXCEPT ![p].vec = [i \in 1..MaxNof + 1 |-> @[1]]]
Unknown == Append(Whole, [id |-> 13, vec |-> <<>>, fits |-> TRUE])

LoaderFiles ==
  {File(FlattenSeq(f)) : f \in Changed}
    \cup {File(Exchanged(p)) : p \in Places \ {Len(Whole)}}
    \cup {File(Twice(p)) : p \in Places}
    \cup {File(Append(Whole, Whole[p])) : p \in Places}
    \cup {File(Crowded(p)) : p \in {q \in Places : Whole[q].vec # <<>>}}
    \cup {File(Unknown), [magic |-> FALSE, sections |-> Whole]}
=============================================================================
