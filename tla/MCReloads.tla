----------------------------- MODULE MCReloads -----------------------------
\* A service of two replicas under reloads and crashes; two services in this order on the
\* command line, the first of two replicas; the watch of two replicas.
EXTENDS Reloads, TLC

CONSTANTS
    c4,                         \* one of the containers
    producer, consumer          \* two services

TwoServices == <<producer, consumer>>
TwoAndOne == [s \in {producer, consumer} |-> IF s = producer THEN 2 ELSE 1]

\* Containers are interchangeable; three of the four are enough to save the most states.
Symmetry == Permutations(Containers \ {c4})
=============================================================================
