-------------------------- MODULE MCCandidateSearch --------------------------
(***************************************************************************)
(* Small instances of CandidateSearch: hooks everywhere in a small address *)
(* space, so that both ends of it and every position in a granule occur.   *)
(***************************************************************************)
EXTENDS CandidateSearch

(* Every hook whose next instruction has an address. *)
MCHooks == {h \in Address : h + NEAR_JUMP_SIZE <= UsizeMax}
=============================================================================
