----------------------------- MODULE MCNotices -----------------------------
(* Small instances of Notices, in which either players report trouble with *)
(* the servers and calls fail, or owners schedule maintenance and use the  *)
(* enabled switch: all of it together is too many states.                  *)
EXTENDS Notices

VARIABLE active   \* who acts on the servers in this behaviour

\* One failure stands for all of them: the code never tells them apart.
AnyResult == {Success, "CONNECT_TIMEOUT", ProbeError}

ActiveInit == NoticesInit /\ active \in {"players", "owners"}

ActiveNext ==
  /\ NoticesNext
  /\ active = "players" => UNCHANGED <<enabled, maint>>
  /\ active = "owners"  => UNCHANGED <<anomalous, report, faults, misses>>
  /\ UNCHANGED active

ActiveSpec ==
  ActiveInit /\ [][ActiveNext]_<<noticesVars, active>> /\ WF_noticesVars(RunStep)

=============================================================================
