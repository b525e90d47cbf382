------------------------------ MODULE MCShared ------------------------------
\* Three runs against one docker daemon, two of them on the same machine, one of these
\* with a pinned /24; two requests; two clients, two replicas and two Lambda targets; a
\* timeline of one row, so that each invocation pushes the other out; one target that is
\* served up to twice.
EXTENDS Shared

CONSTANTS a, b, c, f, g

TwoMachines == [r \in {a, b, c} |-> IF r = c THEN "remote" ELSE "local"]
TwoTargets == <<f, g>>
=============================================================================
