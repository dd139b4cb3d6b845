----------------------------- MODULE MCWaitSet -----------------------------
(* Instantiates WaitSet for TLC: two threads, four handle values of which *)
(* three live at once (a channel pair and the wait set), two cookies.     *)
EXTENDS WaitSet, TLC

CONSTANTS t1, t2, h1, h2, h3, h4, c1, c2

MCThreads == {t1, t2}
MCHVals == {h1, h2, h3, h4}
MCCookies == {c1, c2}
MCWaiters == {t1}

\* Handle values and cookies are only compared for equality.
MCSymmetry == Permutations(MCHVals) \cup Permutations(MCCookies)
=============================================================================
