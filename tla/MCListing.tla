----------------------------- MODULE MCListing -----------------------------
(* Small instances of Listing: an owner who stays and managers who change. *)
EXTENDS Listing

CONSTANTS owner, old, new

MCMembersOf == [r \in 1..MaxRev |-> IF r = 1 THEN {owner, old} ELSE {owner, new}]

=============================================================================
