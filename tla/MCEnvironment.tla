--------------------------- MODULE MCEnvironment ---------------------------
(***************************************************************************)
(* Guests for Environment: every combination of the ways its functions may *)
(* behave, the start function and __errno_location with fewer of them.     *)
(***************************************************************************)
EXTENDS Environment

Does(works, endings) == [work : works, ends : endings]

AllGuests ==
  {[start |-> s, errno |-> e, ctors |-> c, main |-> m] :
     s \in {Absent} \cup Does({1}, {"return", "trap"}),
     e \in {Absent} \cup Does({0, MaxWork}, {"return", "trap", "exit"}),
     c \in {Absent} \cup Does(0..MaxWork, {"return", "bad_branch", "exit"}),
     m \in {Absent} \cup Does(0..MaxWork, Endings \ {"endless"})
             \cup Does({MaxWork}, {"endless"})}

MainTakesArguments == {[parameters |-> 2, results |-> 1]}
AnyMain == MainTakesArguments \cup {[parameters |-> 0, results |-> 0]}

(* Guests that do nothing wrong: every function returns. *)
ReturningGuests ==
  {g \in AllGuests : \A fn \in Names : g[fn].ends \in {"absent", "return"}}
=============================================================================
