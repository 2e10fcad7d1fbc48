---------------------------- MODULE MCLiveMiner ----------------------------
(***************************************************************************)
(* Three jobs for LiveMiner: two under one key, the third with another     *)
(* key, other patterns and another shape, not of the coopmat pattern, its  *)
(* second matrix not whole chunks.                                         *)
(***************************************************************************)
EXTENDS LiveMiner, TLC

CONSTANTS j1, j2, j3

MCJob   == {j1, j2, j3}
MCKey   == j1 :> "k1" @@ j2 :> "k1" @@ j3 :> "k2"
MCShape == j1 :> <<4, 8>> @@ j2 :> <<4, 8>> @@ j3 :> <<4, 6>>
MCTile  == j1 :> "pool" @@ j2 :> "pool" @@ j3 :> "other"
MCPool  == {j1, j2}
=============================================================================
