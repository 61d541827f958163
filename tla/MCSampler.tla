----------------------------- MODULE MCSampler -----------------------------
(***************************************************************************)
(* Four tokens, two of them recent at a time, and the configurations that  *)
(* tell the cuts apart: top_p a half, nine tenths and all; top_k absent,   *)
(* below, at and beyond the vocabulary, and 0; a temperature of one and of *)
(* a half; no penalty and a penalty of 2; one configuration validate       *)
(* refuses.                                                                *)
(***************************************************************************)
EXTENDS Sampler

CONSTANTS a, b, c, eos

MCToken == {a, b, c, eos}
Interchangeable == Permutations({a, b, c})
MCLogit == {-1, 0, 4}

Config(inv, p, k, pen) == [inv_temp |-> inv, top_p |-> p, top_k |-> k, penalty |-> pen]

MCConfigs ==
    {Config(inv, p, k, 2) : inv \in {1, 2}, p \in {<<1, 2>>, <<9, 10>>}, k \in {NoLimit, 3}}
    \cup {Config(1, <<1, 1>>, k, pen) : k \in {0, 1, 7}, pen \in {1, 2}}
    \cup {Config(0, <<9, 10>>, NoLimit, 2), Config(1, <<11, 10>>, NoLimit, 2)}
=============================================================================
