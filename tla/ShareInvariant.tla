--------------------------- MODULE ShareInvariant ---------------------------
(***************************************************************************)
(* The inductive invariant of ShareAssembly: what each phase has left      *)
(* behind, and that the searchers agree.  ShareAssemblyProofs proves it    *)
(* and draws the safety properties from it.                                *)
(***************************************************************************)
EXTENDS ShareAssembly

\* The phases from one on.
FromConfigured == {"configured", "derived", "hashed", "set", "searched", "proved"}
FromDerived    == {"derived", "hashed", "set", "searched", "proved"}
FromHashed     == {"hashed", "set", "searched", "proved"}
FromSet        == {"set", "searched", "proved"}

\* The configuration is made of lists that were not refused.
ConfigInv ==
  phase \in FromConfigured =>
    \E p \in RowLists, q \in ColLists, k \in Ks :
      /\ ~RefusesList(p) /\ ~RefusesList(q) /\ lists = <<p, q>>
      /\ ~RefusesShape(from_list(p)) /\ ~RefusesShape(from_list(q))
      /\ mc = [common_dim |-> k, rank |-> Rank, mma_type |-> 0,
               rows_pattern |-> from_list(p), cols_pattern |-> from_list(q)]

\* The matrices are those of the seed, by the path that was taken.
MatricesInv ==
  phase \in FromDerived =>
    \E m \in Ms, n \in Ns, s \in Seeds, w, v \in {"cpu", "device"} :
      /\ shape = [m |-> m, n |-> n] /\ seed = s /\ path = [derived |-> w, trees |-> v]
      /\ AB = IF w = "cpu" THEN derive_AB_from_seed(s, m, n, mc.common_dim)
                            ELSE derive_AB(s, m, n, mc.common_dim)

\* The layers are those of the matrices; from buffers only when B's is whole chunks.
TreesInv ==
  phase \in FromHashed =>
    /\ layers = [i \in 1..2 |-> MatrixLayers(i)]
    /\ TreesFrom = "buffer" => ~RefusesBuffer(shape.n * mc.common_dim)

JobInv ==
  phase \in FromSet =>
    LET tables == set_job(AB[1], AB[2], commitment_hash, mc.common_dim, mc.rank)
    IN job = [tables |-> tables, slot |-> set_job_slot(tables)]

\* The candidate is one of the grid, and there is one when it was proved.
FoundInv ==
  /\ phase \in {"searched", "proved"} => found.cpu.hit \in ToSet(Grid) \cup {<<>>}
  /\ phase = "proved" => found.cpu.hit # <<>>

WireInv == phase = "proved" => wire = Encode(build_plain_proof)

AssemblyInv ==
  ConfigInv /\ MatricesInv /\ TreesInv /\ JobInv /\ FoundInv /\ WireInv /\ SearchersAgree
=============================================================================
