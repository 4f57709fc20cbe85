---------------------------- MODULE RecordMetadata ----------------------------
(***************************************************************************)
(* The metadata a DNS record carries besides its address, and the rule by  *)
(* which the updater chooses the metadata of the records it writes         *)
(* (internal/setter/setter.go): every scalar field is inherited from the   *)
(* records about to be recycled when they all agree on it and falls back   *)
(* to the configured value otherwise; a tag is inherited when every one of *)
(* those records has it.                                                   *)
(*                                                                         *)
(* Tags stand for their canonical form (name folded to lower case), which  *)
(* is what the code compares; the spelling kept for a tag is abstracted.   *)
(***************************************************************************)
CONSTANTS
  TTLs,        \* the values of the TTL field
  ProxyModes,  \* those of the proxy flag, true, false or both
  Comments,    \* the comments a record may carry
  Tags         \* the canonical tags

\* The parameters of a record: api.RecordParams.
Params ==
  [ttl : TTLs, proxied : ProxyModes, comment : Comments, tags : SUBSET Tags]

\* The common value when there is exactly one, the fallback when there is none
\* or the values disagree.
\* Mutation: the configured value always wins.
AlwaysFallback(fallback, values) == fallback
ResolveScalar(fallback, values) ==
  IF \E v \in values : values = {v}
    THEN CHOOSE v \in values : values = {v}
    ELSE fallback

\* The tags that every one of the given tag sets has; none when there is no set.
CommonTags(tagSets) ==
  {t \in Tags : tagSets # {} /\ \A s \in tagSets : t \in s}

\* The parameters written for new targets, given those of the recyclable
\* records. The configuration has no fallback tags.
ResolveParams(fallback, recyclable) ==
  [ttl     |-> ResolveScalar(fallback.ttl, {p.ttl : p \in recyclable}),
   proxied |-> ResolveScalar(fallback.proxied, {p.proxied : p \in recyclable}),
   comment |-> ResolveScalar(fallback.comment, {p.comment : p \in recyclable}),
   tags    |-> CommonTags({p.tags : p \in recyclable})]
===============================================================================
