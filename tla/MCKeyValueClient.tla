-------------------------- MODULE MCKeyValueClient --------------------------
(* Instances of KeyValueClient for TLC. *)
EXTENDS KeyValueClient

OneKey == {<<1>>}

\* A key, one that it is a prefix of and that ends in the largest byte, and one
\* after both.
ThreeKeys == {<<1>>, <<1, 2>>, <<2>>}

AllFunctions == Simple \cup Prefixed \cup Ranged \cup Conditional \cup Transactions

\* Optimistic locking among other writers.
Locking == {"put", "rm", "modify", "modify_if"}
=============================================================================
