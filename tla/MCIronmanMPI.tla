--------------------------- MODULE MCIronmanMPI ---------------------------
EXTENDS IronmanMPI, MCIronman

\* The programs of the runs do not by themselves make processors wait in a cycle.
ASSUME RunnableAssumption == \A pr \in Programs : Runnable(pr)

\* One ghost area of each kind on each processor.
SomeConsecutive == {<<p1, 1>>, <<p2, 2>>}

\* The programs with a second instance that the few ids of the runs suffice for.
TwoInstances == {pr \in Again : EnoughIds(pr)}
Pipelined == {pr \in Waves \cup SkewedWaves : EnoughIds(pr)}
OnceOrAgain == TwoComms \cup TwoInstances \cup Pipelined
=============================================================================
