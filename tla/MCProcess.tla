----------------------------- MODULE MCProcess -----------------------------
(* Three processes, two contexts of user code.  One task structure more    *)
(* than processes, so that freed memory is both reused and left alone.     *)
EXTENDS Process, TLC

CONSTANTS p1, p2, p3, t1, t2, t3, t4

MCProcs == {p1, p2, p3}
MCTasks == {t1, t2, t3, t4}
MCUserCtx == {"u1", "u2"}
MCSymmetry == Permutations(MCProcs) \cup Permutations(MCTasks)
=============================================================================
