------------------------------ MODULE MCPtCache ------------------------------
\* Instances of PtCache for TLC.
EXTENDS PtCache, TLC

Symmetric == Permutations(Keys) \cup Permutations(Objs)

\* Clients that choose the key, and objects that have it inside, each its own.
AnyKey == [o \in Objs |-> Keys]
OwnKey ==
  LET key == CHOOSE f \in [Objs -> Keys] : \A o, p \in Objs : f[o] = f[p] => o = p
  IN  [o \in Objs |-> {key[o]}]
=============================================================================
