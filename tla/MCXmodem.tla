------------------------------ MODULE MCXmodem ------------------------------
(***************************************************************************)
(* Five blocks, so that the block numbers wrap and the buffer grows; three *)
(* of them hold the values of EOT, SOH and CAN.  Three bytes may be lost,  *)
(* one less than the retries.                                              *)
(***************************************************************************)
EXTENDS Xmodem

MCFile == <<9, 4, 1, 24, 9>>
=============================================================================
