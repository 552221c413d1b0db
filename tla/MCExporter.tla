----------------------------- MODULE MCExporter -----------------------------
(***************************************************************************)
(* An instance of Exporter for TLC: one client of each kind, one job that  *)
(* each refresh finds changed.                                             *)
(***************************************************************************)
EXTENDS Exporter

CONSTANTS f1, f2, scrape, reader, watcher

OneJob == {1}
Fps == {f1, f2}
TheScrape == {scrape}
TheReader == {reader}
TheWatcher == {watcher}
DiskFaults == {"open", "kill"}
Alternating == << [k \in Keys |-> f1], [k \in Keys |-> f2] >>
=============================================================================
