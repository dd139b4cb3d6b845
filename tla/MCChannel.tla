----------------------------- MODULE MCChannel -----------------------------
(* Instantiates Channel for TLC: two threads, one VMO, four handle values. *)
EXTENDS Channel, TLC

CONSTANTS t1, t2, h1, h2, h3, h4, v1

MCThreads == {t1, t2}
MCHVals == {h1, h2, h3, h4}
MCVmos == {v1}

\* Handle values are only compared for equality, so permuting them is sound.
MCSymmetry == Permutations(MCHVals)
=============================================================================
