--------------------------- MODULE MCTargetRegistry ---------------------------
(* Two tabs or one, whose page may change its target id.  Sessions, child   *)
(* sessions and child ids are interchangeable, and so are the ids of a tab. *)
EXTENDS TargetRegistry, TLC

CONSTANTS tab1, tab2, t1, t2, t3

MCHomeTab == [id \in TargetId |-> IF id = t3 THEN tab2 ELSE tab1]

Symmetry == Permutations(BrSession) \cup Permutations(ChildSession)
              \cup Permutations(ChildTargetId) \cup Permutations({t1, t2} \cap TargetId)
=============================================================================
