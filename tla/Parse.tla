-------------------------------- MODULE Parse --------------------------------
(***************************************************************************)
(* internal/slurm/parse.go: what its conversions make of the text Slurm    *)
(* prints.  A text is the numbers between its separators.                  *)
(***************************************************************************)
EXTENDS Naturals, Sequences

\* "UNLIMITED", "Partition_Limit", "Unknown" or nothing.
Word == [days |-> 0, parts |-> << >>]

\* Mutant: the parts are taken for hours and minutes first.
DurationFromHours(t) ==
    t.days * 86400 + 3600 * t.parts[1]
        + (IF Len(t.parts) > 1 THEN 60 * t.parts[2] ELSE 0)
        + (IF Len(t.parts) > 2 THEN t.parts[3] ELSE 0)

DurationOf(t) ==
    t.days * 86400
        + CASE Len(t.parts) = 3 -> 3600 * t.parts[1] + 60 * t.parts[2] + t.parts[3]
            [] Len(t.parts) = 2 -> 60 * t.parts[1] + t.parts[2]
            [] Len(t.parts) = 1 -> t.parts[1]

\* A text is a word, or [days-]h:m:s, m:s or s with the parts behind the dash.
duration(text) == IF text = Word THEN 0 ELSE DurationOf(text)

\* How Slurm prints n seconds: hours from the first full one on, days likewise.
Printed(n) ==
    [days |-> n \div 86400,
     parts |-> IF n < 3600 THEN << n \div 60, n % 60 >>
               ELSE << (n % 86400) \div 3600, (n % 3600) \div 60, n % 60 >>]

\* An amount per job, per "cpu" (suffix c) or per "node" (suffix n).
memoryAllocation(amount, per, cpus, nodes) ==
    amount * CASE per = "job" -> 1
               [] per = "cpu" -> cpus
               [] per = "node" -> nodes

\* "CANCELLED by <uid>" loses its tail.
baseState(raw) == IF raw = "CANCELLED by 1000" THEN "CANCELLED" ELSE raw
=============================================================================
