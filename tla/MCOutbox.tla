------------------------------ MODULE MCOutbox ------------------------------
(* Small instances of Outbox: more rows than one listing returns. *)
EXTENDS Outbox

=============================================================================
