----------------------------- MODULE MCSessions -----------------------------
(* Sessions on small instances: requests one token longer than the context. *)
EXTENDS Sessions, SequencesExt
CONSTANTS a, b
OneToken == {a}
TwoTokens == {a, b}
Requested == BoundedSeq(Tokens, 3) \ {<<>>}
Symmetric == Permutations(TwoTokens)
=============================================================================
