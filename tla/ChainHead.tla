----------------------------- MODULE ChainHead -----------------------------
(***************************************************************************)
(* What the callers of the light client and the next start of the app may  *)
(* rely on, with no word about servers, queries and proofs: a known block  *)
(* of the chain that only moves forward while one configuration lasts,     *)
(* callers answered with that block and never with one older than they may *)
(* expect, and a kept block per network that, while nobody else keeps any, *)
(* never runs ahead of the known one and moves back only when a new        *)
(* configuration starts over.  LastBlock implements this.                  *)
(***************************************************************************)
EXTENDS Integers

CONSTANTS Requests, Networks

VARIABLES
    tip,       \* last block of the chain
    head,      \* newest block known to be one of the chain
    net,       \* the configured network
    kept,      \* kept[n]: block the next start for network n begins with
    alone,     \* nobody else keeps blocks
    waiting,   \* callers not answered yet
    got,       \* got[r]: block r was answered with, 0 before that
    asof       \* asof[r]: r is not to be answered with an older block

headVars == <<tip, head, net, kept, alone, waiting, got, asof>>

Init ==
    /\ tip \in Nat /\ head \in 0..tip
    /\ net \in Networks
    /\ kept = [n \in Networks |-> 0]
    /\ alone = TRUE
    /\ waiting = {}
    /\ got = [r \in Requests |-> 0]
    /\ asof = [r \in Requests |-> 0]

Grow ==
    /\ tip' = tip + 1
    /\ UNCHANGED <<head, net, kept, alone, waiting, got, asof>>

Ask(r) ==
    /\ r \notin waiting
    /\ waiting' = waiting \cup {r}
    /\ got' = [got EXCEPT ![r] = 0]
    /\ asof' = [asof EXCEPT ![r] = 0]
    /\ UNCHANGED <<tip, head, net, kept, alone>>

\* The service turns to r; it may promise the newest block of this moment.
TakeUp(r) ==
    /\ r \in waiting
    /\ \E b \in {0, tip} : asof' = [asof EXCEPT ![r] = b]
    /\ UNCHANGED <<tip, head, net, kept, alone, waiting, got>>

\* The known block moves forward to b, with which the callers in R, if any,
\* are answered.
Answer(R, b) ==
    /\ R \subseteq waiting /\ \A r \in R : asof[r] <= b
    /\ head' = b
    /\ waiting' = waiting \ R
    /\ got' = [r \in Requests |-> IF r \in R THEN b ELSE got[r]]
    /\ UNCHANGED <<tip, net, kept, alone, asof>>

Reject(R) ==
    /\ R \subseteq waiting
    /\ waiting' = waiting \ R
    /\ asof' = [r \in Requests |-> IF r \in R THEN 0 ELSE asof[r]]
    /\ UNCHANGED <<tip, head, net, kept, alone, got>>

Keep(b) ==
    /\ kept' = [kept EXCEPT ![net] = b]
    /\ UNCHANGED <<tip, head, net, alone, waiting, got, asof>>

\* Somebody else keeps a block.
KeepElse(n, b) ==
    /\ ~alone
    /\ kept' = [kept EXCEPT ![n] = b]
    /\ UNCHANGED <<tip, head, net, alone, waiting, got, asof>>

\* A new configuration starts from some block, which is kept, and answers who
\* waits with an error.
Configure(n, b) ==
    /\ head' = b /\ net' = n /\ kept' = [kept EXCEPT ![n] = b]
    /\ waiting' = {}
    /\ asof' = [r \in Requests |-> IF r \in waiting THEN 0 ELSE asof[r]]
    /\ UNCHANGED <<tip, alone, got>>

\* What is kept is all that is left, when the process dies, or all that is
\* handed on, when another service takes over and this one may still keep.
End(b) ==
    /\ head' = b
    /\ alone' \in BOOLEAN
    /\ waiting' = {}
    /\ got' = [r \in Requests |-> 0]
    /\ asof' = [r \in Requests |-> 0]
    /\ UNCHANGED <<tip, net, kept>>

Next ==
    \/ Grow
    \/ \E r \in Requests : Ask(r) \/ TakeUp(r)
    \/ \E b \in head..tip, R \in SUBSET waiting : Answer(R, b)
    \/ \E R \in SUBSET waiting : Reject(R)
    \/ \E b \in 0..head : (alone => b >= kept[net]) /\ Keep(b)
    \/ \E n \in Networks, b \in 0..tip : KeepElse(n, b)
    \/ \E n \in Networks, b \in 0..tip : Configure(n, b)
    \/ \E b \in 0..tip : End(b)

Spec == Init /\ [][Next]_headVars
=============================================================================
