------------------------------ MODULE MCWorker ------------------------------
(* Small instances of Worker. *)
EXTENDS Worker

\* One failure stands for all of them: the code never tells them apart.
AnyResult == {Success, "CONNECT_TIMEOUT", ProbeError}

\* A window begins and ends between two passes, so that every snapshot is right
\* about it.
WindowsBetweenPasses == maint' # maint => pc = "idle"

=============================================================================
