------------------------------ MODULE HashList ------------------------------
(***************************************************************************)
(* dwac_hash_list of drekkar_wa_core.c: the names of functions, found by   *)
(* open addressing in an array that is doubled when it is half full.  A    *)
(* key is a sequence of character codes; an entry without a pointer is     *)
(* free.  Nothing is ever removed.                                         *)
(***************************************************************************)
EXTENDS Integers, Sequences

CONSTANTS
  InitSize,    \* DWAC_HASH_LIST_INIT_SIZE: the capacities are powers of
               \* two, so that a mask is the remainder
  MaxKeySize   \* DWAC_HASH_LIST_MAX_KEY_SIZE

ASSUME HashListAssumption ==
  MaxKeySize \in Nat /\ \E m \in 1..InitSize : InitSize = 2 * m

Null == <<>>
Free == [key |-> <<>>, ptr |-> Null]

FreeArray(n) == [i \in 0..n - 1 |-> Free]

(* dwac_hash_list_init *)
EmptyList ==
  [array |-> FreeArray(InitSize), capacity |-> InitSize, size |-> 0]

(* calculate_hash.  Only the bits below the capacity are ever used; 16 of  *)
(* them are kept.                                                          *)
Hash(key) ==
  LET h[i \in 0..Len(key)] ==
        IF i = 0 THEN 0 ELSE (key[i] * 7793 + 7727 * h[i - 1] + 6679) % 65536
  IN h[Len(key)]

(* What strncpy and strncmp see of a key. *)
Stored(key) == IF Len(key) <= MaxKeySize THEN key ELSE SubSeq(key, 1, MaxKeySize)

(* Probing from where the key belongs, in an array of n entries: the first *)
(* index that will do.                                                     *)
Position(n, key, i) == (Hash(key) + i) % n
Probe(n, key, good) ==
  LET first == CHOOSE i \in 0..n - 1 :
                 /\ Position(n, key, i) \in good
                 /\ \A j \in 0..i - 1 : Position(n, key, j) \notin good
  IN Position(n, key, first)

Empty(a) == {i \in DOMAIN a : a[i].ptr = Null}
Matching(a, key) == {i \in DOMAIN a : a[i].key = Stored(key)}

FindEmpty(a, n, key) == Probe(n, key, Empty(a))
FindEntry(a, n, key) == Probe(n, key, Empty(a) \cup Matching(a, key))

(* Mutant of Expanded: the entries keep their places. *)
ExpandedInPlace(list) ==
  IF list.size * 2 < list.capacity THEN list
  ELSE [list EXCEPT !.capacity = 2 * @,
                    !.array = [i \in 0..2 * list.capacity - 1 |->
                       IF i < list.capacity THEN list.array[i] ELSE Free]]

Enter(a, n, e) ==
  IF e.ptr = Null THEN a
  ELSE [a EXCEPT ![FindEmpty(a, n, e.key)] =
                   [key |-> Stored(e.key), ptr |-> e.ptr]]

(* The list before a put: when it is half full every entry is entered anew *)
(* into an array of twice the capacity.                                    *)
Expanded(list) ==
  LET n == 2 * list.capacity
      entered[i \in 0..list.capacity] ==
        IF i = 0 THEN FreeArray(n)
        ELSE Enter(entered[i - 1], n, list.array[i - 1])
  IN IF list.size * 2 < list.capacity THEN list
     ELSE [array |-> entered[list.capacity],
           capacity |-> n, size |-> list.size]

(* Mutant of Put: a name that is there is entered again. *)
PutAgain(list, key, ptr) ==
  LET l == Expanded(list)
      i == FindEntry(l.array, l.capacity, key)
  IN [l EXCEPT !.array[i] = [key |-> Stored(key), ptr |-> ptr],
               !.size = @ + 1]

(* dwac_hash_list_put; no caller looks at what it returns. *)
Put(list, key, ptr) ==
  LET l == Expanded(list)
      i == FindEntry(l.array, l.capacity, key)
  IN IF l.array[i].ptr # Null THEN l
     ELSE [l EXCEPT !.array[i] = [key |-> Stored(key), ptr |-> ptr],
                    !.size = @ + 1]

(* dwac_hash_list_find *)
Find(list, key) == list.array[FindEntry(list.array, list.capacity, key)].ptr
=============================================================================
