------------------------------- MODULE MCWofs -------------------------------
(***************************************************************************)
(* An area of three sectors, large enough for three small files or for one *)
(* that runs into its end; a name as long as the search reads, one that is *)
(* the same so far but longer, and two pieces of data: one that looks like *)
(* the record of a file when the search gets there, and ends in a byte     *)
(* that would be a size, one that ends in bytes that look erased.          *)
(***************************************************************************)
EXTENDS Wofs

MCNames  == {<<65>>, <<66, 66, 66, 66>>, <<66, 66, 66, 66, 67>>}
MCChunks == {<<65, 0, 7, 7, 7, 7, 7, 7, 0, 0, 0, 0, 220>>, <<9, 9, 9, 9, 255, 255>>}
=============================================================================
