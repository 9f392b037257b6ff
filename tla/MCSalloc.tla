------------------------------ MODULE MCSalloc ------------------------------
(* An area of ten units and one of four, guards included; sizes that        *)
(* need two, three and four units, fill a block exactly or leave a rest.    *)
EXTENDS Salloc

MCAreas == <<[g1 |-> 1, g2 |-> 10], [g1 |-> 12, g2 |-> 15]>>
=============================================================================
