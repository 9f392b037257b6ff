------------------------------ MODULE MCSermux ------------------------------
(***************************************************************************)
(* Two services; 97 is a plain byte, 192 the escape character, which needs *)
(* escaping itself, and 224 its escaped form as a plain byte.  Three bytes *)
(* are sent in all, and each side may start again once, at any point.      *)
(***************************************************************************)
EXTENDS Sermux

MCTraffic == [dev  |-> {<<208, 97>>, <<208, 192>>, <<209, 97>>},
              host |-> {<<208, 192>>, <<209, 224>>}]
=============================================================================
