-------------------------- MODULE MCSnapshotCache --------------------------
(***************************************************************************)
(* Instances of SnapshotCache for TLC.                                     *)
(***************************************************************************)
EXTENDS SnapshotCache, TLC

CONSTANTS scrape, jobs, archive, sinfo, sacct

TwoRequests == {scrape, jobs}
OneRequest == {scrape}
TheArchive == {archive}
ThreeCallers == {scrape, jobs, archive}
TwoCallers == {scrape, archive}
FastTier == {sinfo}
SlowTier == {sacct}
None == {}
=============================================================================
