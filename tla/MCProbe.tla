------------------------------ MODULE MCProbe ------------------------------
(* Small instances of Probe. *)
EXTENDS Probe

Answer(n, size, body) == [n |-> n, length |-> varInt(n), size |-> size, body |-> body]

TooLong == <<129, 129, 129, 129, 129, 1>>

\* Sizes of one to five bytes on both sides of the limits, and broken answers.
Answers ==
  {Answer(n, varInt(n), "json") : n \in {0, 1, 127, 128, 16384, 2^20, 2^20 + 1, 2^21, 2^28}}
    \cup {Answer(2, varInt(2), "garbled"), Answer(2, TooLong, "json"),
          [n |-> 2, length |-> varInt(300), size |-> varInt(2), body |-> "json"],
          [n |-> 2, length |-> TooLong, size |-> varInt(2), body |-> "json"]}

=============================================================================
