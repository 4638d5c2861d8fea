----------------------------- MODULE MCStartup -----------------------------
(* Overlapping and interrupted runs of the migrate service, and the first  *)
(* observations of the Worker, which waits for a run that has succeeded    *)
(* (docker-compose.linode.yml:52-54).                                      *)
EXTENDS Migrate, MachineEquivalence

\* An empty database, and the two layouts from before schema_migrations.
AnyLayout == {{}, {1}, {1, 2}}

AllOutcomes == Outcome

StartupInit == Init /\ PoliciesInit

StartupNext ==
  \/ Next /\ UNCHANGED equivalenceVars
  \/ /\ \E r \in Runners : pc[r] = "done"
     /\ PoliciesNext
     /\ UNCHANGED vars

StartupSpec ==
  /\ StartupInit /\ [][StartupNext]_<<vars, equivalenceVars>>
  /\ \A r \in Runners : WF_vars(RunnerStep(r))

=============================================================================
