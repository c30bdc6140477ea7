--------------------------- MODULE MCGeneratedCall ---------------------------
(***************************************************************************)
(* Instances of GeneratedCall: which generators, and what their callbacks  *)
(* do with the home area.                                                  *)
(***************************************************************************)
EXTENDS GeneratedCall

Everything == [f \in Generators |-> SUBSET HomeArea]
(* The callbacks of build_call leave their home area alone. *)
BuildCallLeaf ==
    [f \in Generators |->
        IF f = "build_call" THEN {{}} ELSE SUBSET HomeArea]
=============================================================================
