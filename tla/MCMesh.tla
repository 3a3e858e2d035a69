------------------------------- MODULE MCMesh -------------------------------
(* Four nodes: a, b and c hear each other, d is heard by c only.  The      *)
(* longest way from one to another without a loop has MaxHops = 3 hops.    *)
EXTENDS Mesh

CONSTANTS a, b, c, d, i1

MCInRange == [ n \in {a, b, c, d} |->
    CASE n = a -> {b, c}
      [] n = b -> {a, c}
      [] n = c -> {a, b, d}
      [] n = d -> {c} ]

MCDistance == [ m \in {a, b, c, d} |-> [ n \in {a, b, c, d} |->
    IF m = n THEN 0 ELSE IF n \in MCInRange[m] THEN 1 ELSE 2 ] ]

=============================================================================
