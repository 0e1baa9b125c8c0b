---------------------------- MODULE QueryService ----------------------------
(***************************************************************************)
(* What a caller of the tonlib client may rely on: a query is asked at     *)
(* most once, and its handler is called at most once, with the answer to   *)
(* that very query.  TonlibClient implements this.                         *)
(***************************************************************************)
CONSTANTS Queries, None

VARIABLES
    asked,   \* the queries send was called for
    answer   \* answer[q]: the query whose answer q's handler got, or None

serviceVars == <<asked, answer>>

Init ==
    /\ asked = {}
    /\ answer = [q \in Queries |-> None]

Ask(q) ==
    /\ q \notin asked
    /\ asked' = asked \cup {q}
    /\ UNCHANGED answer

Answer(q) ==
    /\ q \in asked /\ answer[q] = None
    /\ answer' = [answer EXCEPT ![q] = q]
    /\ UNCHANGED asked

Next == \E q \in Queries : Ask(q) \/ Answer(q)

Spec == Init /\ [][Next]_serviceVars
=============================================================================
