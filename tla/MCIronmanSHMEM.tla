-------------------------- MODULE MCIronmanSHMEM --------------------------
EXTENDS IronmanSHMEM, MCIronman

\* The programs of the runs do not by themselves make processors wait in a cycle.
ASSUME RunnableAssumption == \A pr \in Programs : Runnable(pr)

\* In no program of the runs does a processor lack a tile that permutes the
\* free list.
ASSUME RestoreAssumption == \A pr \in Programs : SkipsRestore(pr)

OnceOrAgain == SomeTwoComms \cup Again \cup Waves

\* One communication on three processors: puts in any order make more states.
RingPrograms ==
  {[calls |-> Instances(c1, 1), dirs |-> (c1 :> <<<<ds>>>> @@ c2 :> <<>>)] :
     ds \in {Ring, Chain}}
  \cup {[calls |-> Wave(c1, 1), dirs |-> (c1 :> <<<<Chain>>>> @@ c2 :> <<>>)]}
=============================================================================
