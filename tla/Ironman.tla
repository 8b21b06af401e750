------------------------------ MODULE Ironman ------------------------------
(***************************************************************************)
(* What the IRONMAN interface promises its callers, whatever the machine   *)
(* below it: the data a processor finds in its ghost areas after DN is     *)
(* what its neighbours sent at the SR of the same instance, and it stays   *)
(* there until the processor itself declares the area ready for new data   *)
(* with the next DR.  The implementations (MPI, PVM and SHMEM) each refine *)
(* this specification.                                                     *)
(***************************************************************************)
EXTENDS IronmanCalls

CONSTANT NoData  \* the content of a ghost area nothing was received into

VARIABLES
  out,   \* out[p]: the directions whose data left p during the SR it is in
  ghost  \* ghost[p][c][d]: the content of p's ghost area for direction d of c

vars == <<prog, pos, inst, out, ghost>>

TypeOK ==
  /\ CallsTypeOK
  /\ out \in [Proc -> SUBSET (1..MaxDirs)]
  /\ ghost \in [Proc -> [Cid -> [1..MaxDirs -> DataSet \cup {NoData}]]]

Init ==
  /\ InitCalls
  /\ out = [p \in Proc |-> {}]
  /\ ghost = [p \in Proc |-> [c \in Cid |-> [d \in 1..MaxDirs |-> NoData]]]

\* Instance g of c has left processor q in direction d.
HasSent(q, c, g, d) ==
  \/ inst[q][c].gen > g
  \/ /\ inst[q][c].gen = g
     /\ \/ inst[q][c].done = {} \/ "SR" \in inst[q][c].done
        \/ May(q, "SR", c) /\ d \in out[q]

\* NEW and OLD reserve and release, DR opens the ghost areas: none waits, and
\* neither does the start or end of a tile.
Local(p) ==
  /\ \/ \E c \in Cid, o \in {"NEW", "DR", "OLD"} : Return(p, o, c)
     \/ \E o \in LoopOp : Pass(p, o)
     \/ SkipTile(p)
  /\ UNCHANGED <<out, ghost>>

\* Mutant: SR does not advance to its next direction.
SendAgain(p) ==
  \E c \in Cid :
    /\ May(p, "SR", c)
    /\ SendDirs(p, Dirs(p, c)) # {}
    /\ UNCHANGED vars

Send(p) ==
  \E c \in Cid :
    /\ May(p, "SR", c)
    /\ \E d \in SendDirs(p, Dirs(p, c)) \ out[p] :
         out' = [out EXCEPT ![p] = @ \cup {d}]
    /\ UNCHANGED <<prog, pos, inst, ghost>>

SentAll(p) ==
  \E c \in Cid :
    /\ Return(p, "SR", c)
    /\ out[p] = SendDirs(p, Dirs(p, c))
    /\ out' = [out EXCEPT ![p] = {}]
    /\ UNCHANGED ghost

\* What p must find in its ghost area for direction d of its instance of c.
Current(p, c) == prog.dirs[c][inst[p][c].gen]
\* Mutant: the directions are counted from 0.
ExpectedOffByOne(p, c, d) ==
  Data(Source(p, Current(p, c), d), c, inst[p][c].gen, d - 1)
Expected(p, c, d) == Data(Source(p, Current(p, c), d), c, inst[p][c].gen, d)

\* p's ghost areas for c are open for what its neighbours send.
Open(p, c) == "DR" \in inst[p][c].done /\ "DN" \notin inst[p][c].done

\* Between p's DR and the end of its DN, what was sent may arrive.
Arrive(p) ==
  \E c \in Cid :
    /\ Open(p, c)
    /\ \E d \in RecvDirs(p, Current(p, c)) :
         /\ HasSent(Source(p, Current(p, c), d), c, inst[p][c].gen, d)
         /\ ghost[p][c][d] # Expected(p, c, d)
         /\ ghost' = [ghost EXCEPT ![p][c][d] = Expected(p, c, d)]
    /\ UNCHANGED <<prog, pos, inst, out>>

\* Mutant: DN does not wait.
NeededEarly(p) ==
  \E c \in Cid : Return(p, "DN", c) /\ UNCHANGED <<out, ghost>>

\* DN returns when all that is needed is there.
Needed(p) ==
  \E c \in Cid :
    /\ Return(p, "DN", c)
    /\ \A d \in RecvDirs(p, Current(p, c)) : ghost[p][c][d] = Expected(p, c, d)
    /\ UNCHANGED <<out, ghost>>

Step(p) == Local(p) \/ Send(p) \/ SentAll(p) \/ Arrive(p) \/ Needed(p)

Terminated == Finished /\ UNCHANGED vars

Next == (\E p \in Proc : Step(p)) \/ Terminated

Spec == Init /\ [][Next]_vars

-----------------------------------------------------------------------------
(* The instance of c whose data p's ghost areas hold when p is not between *)
(* the DR and the DN of c: after the next NEW it is the previous one.      *)
HeldGen(p, c) ==
  IF inst[p][c].done = {"NEW"} THEN inst[p][c].gen - 1 ELSE inst[p][c].gen

\* From the return of DN to the next DR of the same id a processor reads, in
\* every ghost area, what that neighbour sent at the SR of p's own instance:
\* never older data, never data of a later instance that ran ahead.
Fresh ==
  \A p \in Proc, c \in Cid :
    /\ "DR" \in inst[p][c].done => "DN" \in inst[p][c].done
    /\ HeldGen(p, c) > 0
    => LET ds == prog.dirs[c][HeldGen(p, c)]
       IN \A d \in RecvDirs(p, ds) :
            ghost[p][c][d] = Data(Source(p, ds, d), c, HeldGen(p, c), d)

-----------------------------------------------------------------------------
\* Every processor keeps executing its program.
FairSpec == Spec /\ \A p \in Proc : WF_vars(Step(p))

\* Every processor returns from every call of the program: no two of them
\* wait for each other for ever.
Completes == <>Finished
=============================================================================
