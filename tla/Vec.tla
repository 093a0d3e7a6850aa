--------------------------------- MODULE Vec ---------------------------------
(****************************************************************************)
(* The growable array of libfst/vec.c: the header of struct vec without the *)
(* element size, and the operations that change it.  The elements live with *)
(* the client (FST states, prefix table, range table).                      *)
(****************************************************************************)
EXTENDS Integers

\* base: has the array been allocated?  len: elements in use as the client
\* records them.  size: elements allocated.
VecHeader == [base : BOOLEAN, len : Nat, size : Nat]

VecEmpty == [base |-> FALSE, len |-> 0, size |-> 0]

\* vec_alloc exits when the array is allocated or has a size already.
VecAlloc(v, nelem) == [v EXCEPT !.base = TRUE, !.size = nelem]

\* Grow by 16/10; a larger index asks for 16/10 of itself.
VecGrow(v, idx) ==
    LET grown == (v.size * 16) \div 10
    IN  [v EXCEPT !.size = IF idx > grown THEN (idx * 16) \div 10 ELSE grown]

\* Mutant: the comparison forgets that index idx needs idx + 1 elements.
VecMakeRoomLate(v, idx) ==
    IF ~v.base THEN VecAlloc(v, 10)
    ELSE IF idx > v.size THEN VecGrow(v, idx) ELSE v

VecMakeRoom(v, idx) ==
    IF ~v.base THEN VecAlloc(v, 10)
    ELSE IF idx >= v.size THEN VecGrow(v, idx) ELSE v

\* The client is about to store element idx.
VecInRoom(v, idx) == v.base /\ idx < v.size
==============================================================================
