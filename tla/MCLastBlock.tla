---- MODULE MCLastBlock ----
(* A TLC instance of LastBlock: from the built-in init block 1 a caller is *)
(* led over key block 2 to the tip 3, which grows to key block 4; a user's *)
(* configuration names block 3, of the chain or of a fork, or none, may    *)
(* list a hard fork, have the file ignored or list servers of another      *)
(* network.                                                                *)
EXTENDS LastBlock

KeysValue == {2, 4}
InitsValue == {3, -3}

Named(i) == [net |-> "main", init |-> i, vert |-> 0, ignoreCache |-> FALSE, server |-> "main"]
ConfigsValue ==
    {Named(None), Named(3), Named(-3)}
    \cup {[Named(3) EXCEPT !.vert = 1],
          [Named(None) EXCEPT !.ignoreCache = TRUE],
          [Named(None) EXCEPT !.net = "test"]}
====
