-------------------------------- MODULE MCMesh --------------------------------
(***************************************************************************)
(* Instances of Mesh for model checking: small trees, where routing has    *)
(* one way to go, and a triangle, the smallest mesh with a cycle.          *)
(***************************************************************************)
EXTENDS Mesh, TLC

CONSTANTS s1, s2, s3, s4, s5, everyone, temp

BothWays(cables) == cables \union { <<c[2], c[1]>> : c \in cables }

\* A line that forks: two end nodes, s4 and s5, behind the router s3.
ForkLinks == BothWays({<<s1, s2>>, <<s2, s3>>, <<s3, s4>>, <<s3, s5>>})

TriangleLinks == BothWays({<<s1, s2>>, <<s2, s3>>, <<s3, s1>>})

\* Who may subscribe to the one topic: every site, the end nodes.
AllClients == (temp :> Sites)

EndClients == (temp :> {s1, s4, s5})
===============================================================================
