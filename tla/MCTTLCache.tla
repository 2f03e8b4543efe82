----------------------------- MODULE MCTTLCache -----------------------------
(* TTLCache with two slots for three keys, two values and ttls 0 to 2. *)
EXTENDS TTLCache, TLC

MCTTLs == 0..2
KeySymmetry == Permutations(Keys)
=============================================================================
