--------------------------- MODULE MCConnectionPool ---------------------------
(***************************************************************************)
(* Instances of ConnectionPool for TLC: more clients than connections, and *)
(* one or two successful reloads after the first instance.                 *)
(***************************************************************************)
EXTENDS ConnectionPool

CONSTANTS c1, c2, c3, c4

ThreeClients == {c1, c2, c3}
FourClients == {c1, c2, c3, c4}
Symmetry == Permutations(ThreeClients)

SixConns == 1..6
FiveConns == 1..5
TwoInstances == 1..2
ThreeInstances == 1..3

=============================================================================
