----------------------------- MODULE Allocator ------------------------------
(***************************************************************************)
(* What malloc, free and realloc promise the programs that use them: each  *)
(* grant lies inside the memory and apart from every other grant, a grant  *)
(* is left alone until it is released or resized, and a resized grant is   *)
(* the old one where it was or a new one elsewhere.                        *)
(***************************************************************************)
EXTENDS Integers

CONSTANTS Cells,      \* the memory, in units of the alignment
          Sizes,      \* the sizes asked for, in bytes
          CellBytes   \* bytes in a cell

VARIABLE live         \* the grants: records with a pointer and a size

(* The cells of a grant. *)
Span(g) == g.ptr .. g.ptr + (g.size + CellBytes - 1) \div CellBytes - 1

Apart(g, h) == Span(g) \cap Span(h) = {}

Fits(g, others) == Span(g) \subseteq Cells /\ \A h \in others : Apart(g, h)

Grants == [ptr : Cells, size : Sizes \ {0}]

Init == live = {}

Malloc == \E g \in Grants : Fits(g, live) /\ live' = live \cup {g}

Free == \E g \in live : live' = live \ {g}

Realloc ==
  \E g \in live, h \in Grants :
    /\ Fits(h, IF h.ptr = g.ptr THEN live \ {g} ELSE live)
    /\ live' = (live \ {g}) \cup {h}

Next == Malloc \/ Free \/ Realloc

Spec == Init /\ [][Next]_live
=============================================================================
