-------------------------- MODULE MCShareAssembly --------------------------
(***************************************************************************)
(* A bounded instance of ShareAssembly: chunks of eight bytes in blocks    *)
(* of four, patterns of one, two and four dimensions, patterns the six     *)
(* bytes cannot carry, lists that are refused, matrices below one chunk,   *)
(* of one, of an odd number and with a partial last one, so that each of   *)
(* the three ways the trees are built meets each of them, rows that share  *)
(* a chunk and rows that cross one.                                        *)
(***************************************************************************)
EXTENDS ShareAssembly

MCRowLists ==
  { <<0>>, <<0, 2>>, <<0, 1, 2>>, <<0, 1, 4, 5>>, <<0, 3, 4, 7>>,
    <<0, 9>>, <<0, 1, 4, 5, 16, 17, 20, 21, 64, 65, 68, 69, 80, 81, 84, 85>>,
    <<>>, <<1, 2>>, <<0, 1, 3>>, <<0, 2, 1>> }

\* None, and one that is cut to a digest's size when scaled.
MCNotifyTargets == { NoTarget, 5000 }

MCColLists == { <<0>>, <<0, 1>>, <<0, 2, 5, 7>> }
=============================================================================
