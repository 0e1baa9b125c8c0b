---------------------------- MODULE AccountView ----------------------------
(***************************************************************************)
(* What the screens may rely on when they read the account data of the     *)
(* DataStore, with no word about how it is fetched: every saved state is a *)
(* past or present state of its own account, every stored transaction is a *)
(* confirmed one, the list of the active version only grows, and only a    *)
(* version with a saved wallet is made active.  WalletSync implements this.*)
(***************************************************************************)
EXTENDS Integers

CONSTANTS NoWallet, Versions, Default

VARIABLES chain, wallet, txs, current

viewVars == <<chain, wallet, txs, current>>

\* The transactions on the chain.
Confirmed ==
    UNION {{[account |-> v, lt |-> n] : n \in 1..chain[v]} : v \in Versions}

Init ==
    /\ chain \in [Versions -> Nat]
    /\ wallet = [v \in Versions |-> NoWallet]
    /\ txs = [v \in Versions |-> {}]
    /\ current = Default

Receive(v) ==
    /\ chain' = [chain EXCEPT ![v] = @ + 1]
    /\ UNCHANGED <<wallet, txs, current>>

SaveState(v) ==
    /\ \E lt \in 0..chain[v] : wallet' = [wallet EXCEPT ![v] = lt]
    /\ UNCHANGED <<chain, txs, current>>

SaveHistory(v) ==
    /\ \E list \in SUBSET Confirmed :
        /\ v = current => txs[v] \subseteq list
        /\ txs' = [txs EXCEPT ![v] = list]
    /\ UNCHANGED <<chain, wallet, current>>

Activate(v) ==
    /\ wallet[v] # NoWallet
    /\ current' = v
    /\ UNCHANGED <<chain, wallet, txs>>

Next == \E v \in Versions : Receive(v) \/ SaveState(v) \/ SaveHistory(v) \/ Activate(v)

Spec == Init /\ [][Next]_viewVars
=============================================================================
