------------------------- MODULE MCChallengeSolver -------------------------
(***************************************************************************)
(* Digests of two bytes for ChallengeSolver: with none, one, two and three *)
(* zero bits in front.                                                     *)
(***************************************************************************)
EXTENDS ChallengeSolver

MCDigests ==
  { << <<1, 0>>, <<0, 0>> >>, << <<0, 1>>, <<0, 0>> >>,
    << <<0, 0>>, <<1, 0>> >>, << <<0, 0>>, <<0, 1>> >> }
=============================================================================
