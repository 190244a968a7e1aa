--------------------------- MODULE MCKeyValueStore ---------------------------
(***************************************************************************)
(* Constants of KeyValueStore for TLC.                                     *)
(***************************************************************************)
EXTENDS KeyValueStore

CONSTANTS n1, n2, w1, w2, r1, a, x, y

\* w1 writes x to a, w2 writes y to it; the others read a.
Requests == [c \in Reader |->
    CASE c = w1 -> [key |-> <<a>>, value |-> <<x>>]
      [] c = w2 -> [key |-> <<a>>, value |-> <<y>>]
      [] OTHER  -> [key |-> <<a>>, value |-> << >>]]

\* One write is made at n1, the other and the reads at n2.
Contacts == [c \in Reader |-> IF c = w2 THEN {n1} ELSE {n2}]

\* What GetPersistentCommands is asked for.
Queries == {[from |-> i, count |-> BatchSize] : i \in 1 .. Cardinality(Command) + 1}
=============================================================================
