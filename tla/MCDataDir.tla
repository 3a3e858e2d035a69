----------------------------- MODULE MCDataDir -----------------------------
(* Two jobs, keys and identities: enough for two callers to overlap and    *)
(* for one change to undo another.  They are alike.                        *)
EXTENDS DataDir, TLC

CONSTANTS k1, k2, j1, j2, i1, i2

Names == {"identity", "keys", "tmp"}

Symmetry ==
    Permutations({k1, k2}) \union Permutations({j1, j2}) \union Permutations({i1, i2})

=============================================================================
