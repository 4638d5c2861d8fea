----------------------------- MODULE MCConsole -----------------------------
(* Small instances of Console. *)
EXTENDS Console, TLC

CONSTANT c1

\* One form of each kind, and an empty window.
OneOfEach == {[kind |-> "enabled", value |-> FALSE],
              [kind |-> "channel", value |-> c1],
              [kind |-> "maintenance", value |-> <<1, 2>>],
              [kind |-> "maintenance", value |-> <<2, 2>>]}

Interchangeable ==
  Permutations(Handlers) \cup Permutations(States) \cup Permutations(Users)

=============================================================================
