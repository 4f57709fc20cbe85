-------------------------- MODULE MCRecordReconciler --------------------------
(***************************************************************************)
(* Small instances of RecordReconciler for TLC. The comment "ours" is the  *)
(* managed one. Cloudflare sets the TTL of proxied records to automatic.   *)
(***************************************************************************)
EXTENDS RecordReconciler, TLC

CONSTANTS a, b   \* addresses

MCComments == {"ours", "theirs"}
MCManaged == {"ours"}
MCTTLs == {1, 300}
MCFallback == [ttl |-> 300, proxied |-> FALSE, comment |-> "ours", tags |-> {}]
MCFallback1 == [MCFallback EXCEPT !.ttl = 1]
MCProxiedFallback == [MCFallback EXCEPT !.proxied = TRUE]
MCNormalised ==
  [p \in Params |-> IF p.proxied THEN [p EXCEPT !.ttl = 1] ELSE p]

\* One address at a time, or none.
MCOneAddress == {{}, {a}, {b}}

MCSymmetry == Permutations(IDs)
===============================================================================
