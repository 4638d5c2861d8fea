---------------------------- MODULE ListingCopy ----------------------------
(***************************************************************************)
(* What the readers of a listing's local copy may rely on: the probe, the  *)
(* console and the pages see a server with the endpoint and the members of *)
(* one revision that VoxelLink has published, replaced as a whole and one  *)
(* server at a time, and once imported never missing again.  An older      *)
(* revision may come back.  No request, transaction or lock is left in it. *)
(***************************************************************************)
EXTENDS Naturals

CONSTANTS Ids, MembersOf

VARIABLES
  published,   \* the latest revision of each listing
  copy         \* what is stored of it

copyVars == <<published, copy>>

Absent       == [endpoint |-> 0, members |-> {}]
Snapshot(r)  == [endpoint |-> r, members |-> MembersOf[r]]

Init ==
  /\ published = [id \in Ids |-> 1]
  /\ copy = [id \in Ids |-> Absent]

Publish(id) ==
  /\ published' = [published EXCEPT ![id] = @ + 1]
  /\ UNCHANGED copy

Replace(id) ==
  /\ \E r \in 1..published[id] : copy' = [copy EXCEPT ![id] = Snapshot(r)]
  /\ UNCHANGED published

Next == \E id \in Ids : Publish(id) \/ Replace(id)

Spec == Init /\ [][Next]_copyVars

=============================================================================
