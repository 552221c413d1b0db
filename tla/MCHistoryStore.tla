--------------------------- MODULE MCHistoryStore ---------------------------
(***************************************************************************)
(* Instances of HistoryStore for TLC, one per set of faults.               *)
(***************************************************************************)
EXTENDS HistoryStore

CONSTANTS f1, f2

TwoJobs == {1, 2}
Fps == {f1, f2}

AllFaults == FaultKinds
Kills == {"kill"}
TornLines == {"write"}
PowerLosses == {"power"}

=============================================================================
