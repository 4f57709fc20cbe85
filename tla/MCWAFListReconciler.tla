-------------------------- MODULE MCWAFListReconciler --------------------------
(***************************************************************************)
(* Small instances of WAFListReconciler for TLC. The wide IPv4 range       *)
(* contains the narrow one; "ours" is a managed comment.                   *)
(***************************************************************************)
EXTENDS WAFListReconciler, TLC

CONSTANTS wide, narrow, six   \* IP ranges

MCFamilies == {"4", "6"}
MCFamilyOf == [p \in Prefixes |-> IF p = six THEN "6" ELSE "4"]
MCCovers == {<<p, p>> : p \in Prefixes} \cup ({<<wide, narrow>>} \cap (Prefixes \X Prefixes))

\* IPv4 only, of which nothing is detected at times; or both families, of which
\* either is unavailable at times.
MCGoals == [{"4"} -> {{narrow}, {wide}, {}}]
MCOneGoal == [{"4"} -> {{narrow}, {}}]
MCMixedGoals ==
  {[f \in {"4", "6"} |-> IF f = "4" THEN {narrow} ELSE {six}],
   [f \in {"6"} |-> {}], [f \in {"4"} |-> {narrow}]}

MCOurs == {"ours"}
MCComments == {"ours", "theirs"}

\* A list owned whole, with providers for IPv4 only or for both families; and
\* one shared with others.
MCWhole4 == {[managed |-> Comments, scope |-> {"4"}, whole |-> TRUE]}
MCWhole == {[managed |-> Comments, scope |-> MCFamilies, whole |-> TRUE]}
MCPolicies ==
  MCWhole4 \cup MCWhole \cup {[managed |-> MCOurs, scope |-> {"4"}, whole |-> FALSE]}
MCSymmetry == Permutations(ListIDs) \cup Permutations(ItemIDs)
===============================================================================
