------------------------------ MODULE Listing ------------------------------
(***************************************************************************)
(* internal/integration: the local copy of VoxelLink listings.  The        *)
(* trusted endpoint of the API (importServer) and the Worker's refresh     *)
(* (Synchronizer.Sync) run the same Importer.Import concurrently: fetch    *)
(* the listing, then replace endpoint and members in one transaction.      *)
(* FetchServer is atomic at the moment VoxelLink answers, and the answer   *)
(* names the server that was asked for; a listing is known by its          *)
(* revision.                                                               *)
(***************************************************************************)
EXTENDS Naturals

CONSTANTS
  Ids,         \* external server IDs, in the order of ORDER BY
  Requests,    \* concurrent import requests of the API
  Worker,      \* the refreshing process
  NoOne,       \* holder of a row nobody has locked
  MaxRev,      \* bound: revisions of a listing
  MembersOf,   \* the members in each revision that have a role Monitor knows; FetchServer
               \* drops the others
  Conditions,  \* what can become of a listing
  MaxFaults    \* bound: failed statements and lost commit answers

Revs      == 1..MaxRev
Processes == Requests \cup {Worker}
Users     == UNION {MembersOf[r] : r \in Revs}

ASSUME ListingAssumption ==
  /\ Ids \subseteq Nat \ {0}
  /\ Worker \notin Requests
  /\ NoOne \notin Processes
  /\ MaxRev \in Nat \ {0}
  /\ DOMAIN MembersOf = Revs
  \* "bad": withdrawn, invalid or refused, FetchServer fails.  "repeated": a
  \* member is listed twice, FetchServer accepts it and the INSERT does not.
  /\ "good" \in Conditions /\ Conditions \subseteq {"good", "bad", "repeated"}
  /\ MaxFaults \in Nat

VARIABLES
  listing,   \* VoxelLink: revision and condition of each listing
  endpoint,  \* monitored_servers: the imported revision, 0 for no row
  members,   \* server_members of the server
  lock,      \* who holds the server's row until the end of its transaction
  pc,        \* where each process is in Import
  target,    \* the ID it imports
  fetched,   \* what FetchServer returned
  deleted,   \* the member rows its DELETE saw
  queue,     \* the IDs Sync has still to refresh
  faults

vars == <<listing, endpoint, members, lock, pc, target, fetched, deleted, queue,
          faults>>

First == [rev |-> 1, is |-> "good"]
NoId  == 0

Init ==
  /\ listing = [id \in Ids |-> First]
  /\ endpoint = [id \in Ids |-> 0]
  /\ members = [id \in Ids |-> {}]
  /\ lock = [id \in Ids |-> NoOne]
  /\ pc = [p \in Processes |-> "idle"]
  /\ target = [p \in Processes |-> NoId]
  /\ fetched = [p \in Processes |-> First]
  /\ deleted = [p \in Processes |-> {}]
  /\ queue = {}
  /\ faults = 0

-----------------------------------------------------------------------------
(* Import, for the API and for Sync *)

Goto(p, label) == pc' = [pc EXCEPT ![p] = label]

\* Import returns: its locals are gone, its transaction has ended.
Release(p) ==
  /\ lock' = [id \in Ids |-> IF lock[id] = p THEN NoOne ELSE lock[id]]
  /\ target' = [target EXCEPT ![p] = NoId]
  /\ fetched' = [fetched EXCEPT ![p] = First]
  /\ deleted' = [deleted EXCEPT ![p] = {}]

\* Import returns an error: the transaction rolls back, and Sync returns too.
Fail(p) ==
  /\ Goto(p, "idle")
  /\ Release(p)
  /\ queue' = IF p = Worker THEN {} ELSE queue

Succeed(p) ==
  /\ Goto(p, IF p = Worker THEN "next" ELSE "idle")
  /\ Release(p)
  /\ UNCHANGED queue

FetchServer(p) ==
  /\ pc[p] = "fetch"
  /\ \/ /\ listing[target[p]].is = "bad"
        /\ Fail(p)
     \/ /\ listing[target[p]].is # "bad"
        /\ fetched' = [fetched EXCEPT ![p] = listing[target[p]]]
        /\ Goto(p, "upsert")
        /\ UNCHANGED <<lock, target, deleted, queue>>
  /\ UNCHANGED <<listing, endpoint, members, faults>>

\* Mutant of UpsertRow: the server's row is not locked.
UpsertUnlocked(p) ==
  /\ pc[p] = "upsert"
  /\ Goto(p, "delete")
  /\ UNCHANGED <<listing, endpoint, members, lock, target, fetched, deleted,
                 queue, faults>>

\* INSERT ... ON CONFLICT DO UPDATE waits for a transaction on the same ID.
UpsertRow(p) ==
  /\ pc[p] = "upsert"
  /\ lock[target[p]] = NoOne
  /\ lock' = [lock EXCEPT ![target[p]] = p]
  /\ Goto(p, "delete")
  /\ UNCHANGED <<listing, endpoint, members, target, fetched, deleted, queue,
                 faults>>

\* DELETE FROM server_members: the rows committed so far.
DeleteMembers(p) ==
  /\ pc[p] = "delete"
  /\ deleted' = [deleted EXCEPT ![p] = members[target[p]]]
  /\ Goto(p, "insert")
  /\ UNCHANGED <<listing, endpoint, members, lock, target, fetched, queue, faults>>

\* What the transaction leaves of the old members, and what it adds.
Remaining(p) == members[target[p]] \ deleted[p]
Added(p)     == MembersOf[fetched[p].rev]

\* INSERT INTO server_members: the primary key is (server, user).
InsertMembers(p) ==
  /\ pc[p] = "insert"
  /\ \/ /\ fetched[p].is = "repeated" \/ Remaining(p) \cap Added(p) # {}
        /\ Fail(p)
     \/ /\ fetched[p].is # "repeated" /\ Remaining(p) \cap Added(p) = {}
        /\ Goto(p, "commit")
        /\ UNCHANGED <<lock, target, fetched, deleted, queue>>
  /\ UNCHANGED <<listing, endpoint, members, faults>>

\* Mutant of Store: ON CONFLICT DO NOTHING.
StoreFirstOnly(p) ==
  IF endpoint[target[p]] # 0
  THEN UNCHANGED <<endpoint, members>>
  ELSE /\ endpoint' = [endpoint EXCEPT ![target[p]] = fetched[p].rev]
       /\ members' = [members EXCEPT ![target[p]] = Added(p)]

\* ON CONFLICT DO UPDATE SET name, hostname, port, transport
Store(p) ==
  /\ endpoint' = [endpoint EXCEPT ![target[p]] = fetched[p].rev]
  /\ members' = [members EXCEPT ![target[p]] = Remaining(p) \cup Added(p)]

Commit(p) ==
  /\ pc[p] = "commit"
  /\ Store(p)
  /\ Succeed(p)
  /\ UNCHANGED <<listing, faults>>

ImportStep(p) ==
  FetchServer(p) \/ UpsertRow(p) \/ DeleteMembers(p) \/ InsertMembers(p) \/ Commit(p)

\* importServer: the API serves a request for any ID.
ImportServer(q) ==
  /\ pc[q] = "idle"
  /\ Goto(q, "fetch")
  /\ \E id \in Ids : target' = [target EXCEPT ![q] = id]
  /\ UNCHANGED <<listing, endpoint, members, lock, fetched, deleted, queue, faults>>

-----------------------------------------------------------------------------
(* Sync: on startup and every six hours *)

\* VoxelLinkExternalServerIDs
SyncStart ==
  /\ pc[Worker] = "idle"
  /\ queue' = {id \in Ids : endpoint[id] # 0}
  /\ Goto(Worker, "next")
  /\ UNCHANGED <<listing, endpoint, members, lock, target, fetched, deleted, faults>>

SyncNext ==
  /\ pc[Worker] = "next"
  /\ \/ /\ queue = {}
        /\ Goto(Worker, "idle")
        /\ UNCHANGED <<target, queue>>
     \/ \E id \in queue :
          /\ \A other \in queue : id <= other
          /\ target' = [target EXCEPT ![Worker] = id]
          /\ queue' = queue \ {id}
          /\ Goto(Worker, "fetch")
  /\ UNCHANGED <<listing, endpoint, members, lock, fetched, deleted, faults>>

-----------------------------------------------------------------------------
(* Faults and VoxelLink *)

Fault == faults < MaxFaults /\ faults' = faults + 1

\* A request, a statement or the process fails.
Abort(p) ==
  /\ pc[p] \notin {"idle", "next"}
  /\ Fault
  /\ Fail(p)
  /\ UNCHANGED <<listing, endpoint, members>>

\* The commit is done and its answer lost.
CommitUnacked(p) ==
  /\ pc[p] = "commit"
  /\ Fault
  /\ Store(p)
  /\ Fail(p)
  /\ UNCHANGED listing

\* The owner edits the listing, or it becomes unreadable or readable again.
Edit(id) ==
  /\ listing[id].rev < MaxRev
  /\ listing' = [listing EXCEPT ![id].rev = @ + 1]
  /\ UNCHANGED <<endpoint, members, lock, pc, target, fetched, deleted, queue,
                 faults>>

ConditionChanges(id) ==
  /\ \E c \in Conditions \ {listing[id].is} :
       listing' = [listing EXCEPT ![id].is = c]
  /\ UNCHANGED <<endpoint, members, lock, pc, target, fetched, deleted, queue,
                 faults>>

Next ==
  \/ SyncStart \/ SyncNext
  \/ \E q \in Requests : ImportServer(q)
  \/ \E p \in Processes : ImportStep(p) \/ Abort(p) \/ CommitUnacked(p)
  \/ \E id \in Ids : Edit(id) \/ ConditionChanges(id)

Spec == Init /\ [][Next]_vars

\* The sync ticker keeps firing; an import in progress goes on (the client has
\* a timeout of 10 seconds); the row lock is granted in turn.
Fairness ==
  /\ WF_vars(SyncStart \/ SyncNext)
  /\ \A p \in Processes : WF_vars(ImportStep(p)) /\ SF_vars(UpsertRow(p))

FairSpec == Spec /\ Fairness

-----------------------------------------------------------------------------
(* Properties *)

TypeOK ==
  /\ listing \in [Ids -> [rev : Revs, is : Conditions]]
  /\ endpoint \in [Ids -> 0..MaxRev]
  /\ members \in [Ids -> SUBSET Users]
  /\ lock \in [Ids -> Processes \cup {NoOne}]
  /\ pc \in [Processes -> {"idle", "next", "fetch", "upsert", "delete", "insert",
                           "commit"}]
  /\ target \in [Processes -> Ids \cup {NoId}]
  /\ fetched \in [Processes -> [rev : Revs, is : Conditions]]
  /\ deleted \in [Processes -> SUBSET Users]
  /\ queue \subseteq Ids
  /\ faults \in 0..MaxFaults

\* docs/voxellink-integration.md:30: endpoint and membership snapshots are
\* updated in one transaction.  Whoever imports at the same time, the members
\* who may change a server are those of the revision its endpoint is from.
OneRevision ==
  \A id \in Ids :
    members[id] = IF endpoint[id] = 0 THEN {} ELSE MembersOf[endpoint[id]]

\* A process that has passed UpsertRow holds the row, so that what its DELETE
\* saw is still all there is.
Holding ==
  \A p \in Processes :
    /\ pc[p] \in {"fetch", "upsert", "delete", "insert", "commit"}
         => target[p] \in Ids
    /\ pc[p] \in {"delete", "insert", "commit"} => lock[target[p]] = p
    /\ pc[p] \in {"insert", "commit"} => deleted[p] = members[target[p]]

\* The inductive invariant.
ListingInv == TypeOK /\ OneRevision /\ Holding

\* What an import under way is about to store has been published.
NotAhead ==
  \A p \in Processes :
    pc[p] \in {"upsert", "delete", "insert", "commit"}
      => fetched[p].rev <= listing[target[p]].rev

\* Requests, transactions and failures come to nothing more than ListingCopy
\* allows: its readers never see part of an import, a copy that was never
\* published, or a server that has disappeared.
Published == [id \in Ids |-> listing[id].rev]
Stored    == [id \in Ids |-> [endpoint |-> endpoint[id], members |-> members[id]]]
Copy      == INSTANCE ListingCopy WITH published <- Published, copy <- Stored
ImplementsCopy == Copy!Spec

Fresh(id) == endpoint[id] \in {0, listing[id].rev}

\* README.md:42: the Worker refreshes the listings every six hours.  Once a
\* listing and those before it can be read and stay so, the server gets and
\* keeps its latest revision, though an import that fetched earlier may still
\* write an older one over it (importer.go:27-31).  One listing that cannot be
\* read ends every refresh before the later ones (sync.go:28-30).
Converges ==
  \A id \in Ids :
    <>[](\A first \in Ids : first <= id => listing[first].is = "good")
      => <>[]Fresh(id)

=============================================================================
