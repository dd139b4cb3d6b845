------------------------------- MODULE MCVmo -------------------------------
(* Instantiates Vmo for TLC: two threads, one VMO, two handle values.     *)
EXTENDS Vmo, TLC

CONSTANTS t1, t2, h1, h2, v1, a, b, z

MCThreads == {t1, t2}
MCHVals == {h1, h2}
MCVmos == {v1}
MCBytes == {a, b}

\* Same rights, read-only but duplicable, and read-write without DUPLICATE:
\* a duplicate of a read-only handle asking for WRITE adds a right, and a
\* read-write handle cannot be duplicated at all.
MCRightsAsked == {SameRights, {"DUPLICATE", "READ"}, {"READ", "WRITE"}}

\* Handle values and written byte values are only compared for equality
\* (the fill byte is a constant of its own) and threads run the same code,
\* so permuting each of the three sets is sound for the invariants.
MCSymmetry ==
  {p @@ q @@ r : p \in Permutations(MCHVals), q \in Permutations(MCThreads),
                 r \in Permutations(MCBytes)}
=============================================================================
