---- MODULE MCTonConnect ----
(* A TLC instance of TonConnect: two dApps of two links each, two links of *)
(* which are scanned, or one twice, over a dispatcher of two places.       *)
EXTENDS TonConnect, TLC

CONSTANTS linkA, linkA2, linkB, linkB2, dAppA, dAppB

AppsOfLinks ==
    linkA :> dAppA @@ linkA2 :> dAppA @@ linkB :> dAppB @@ linkB2 :> dAppB

\* The links of a dApp change places, and so do the dApps with their links.
Symmetry ==
    {p @@ [a \in Apps |-> AppOf[p[CHOOSE l \in Links : AppOf[l] = a]]] :
        p \in {q \in Permutations(Links) :
                  \A l, m \in Links : AppOf[l] = AppOf[m] => AppOf[q[l]] = AppOf[q[m]]}}
====
