--------------------------- MODULE Ironman_proofs ---------------------------
(***************************************************************************)
(* Proofs about the IRONMAN interface: typing, and the freshness of ghost  *)
(* data for every program, grid and number of directions.                  *)
(***************************************************************************)
EXTENDS Ironman, IronmanCalls_proofs

IInv == CallsInv /\ TypeOK

-----------------------------------------------------------------------------
LEMMA InitIInv == Init => IInv
<1> SUFFICES ASSUME Init PROVE IInv
  OBVIOUS
<1>1. CallsInv
  BY InitCallsInv DEF Init
<1> QED
  BY <1>1 DEF Init, IInv, TypeOK, CallsInv

\* The ghost areas and the data on its way stay well typed in every step.
LEMMA StepIInv ==
  ASSUME IInv, NEW p \in Proc, Step(p)
  PROVE  IInv'
<1>0. CallsInv /\ prog \in Programs
  BY DEF IInv, CallsInv
<1> USE DEF TypeOK
<1>1. CASE Local(p)
  <2>1. UNCHANGED <<out, ghost>>
    BY <1>1 DEF Local
  <2>2. CallsInv'
    BY <1>0, <1>1, CallsStep DEF Local, Op
  <2> QED
    BY <2>1, <2>2 DEF IInv, CallsInv
<1>2. CASE Send(p)
  <2>1. PICK c \in Cid : /\ May(p, "SR", c)
                         /\ \E d \in SendDirs(p, Dirs(p, c)) \ out[p] :
                              out' = [out EXCEPT ![p] = @ \cup {d}]
                         /\ UNCHANGED <<prog, pos, inst, ghost>>
    BY <1>2 DEF Send
  <2>2. Gen(p, c) = inst[p][c].gen
    BY <2>1 DEF Gen, May, At
  <2>3. inst[p][c].gen \in 1..Len(prog.dirs[c])
    BY <1>0, <2>1, OpenGen DEF May, Required
  <2>4. SendDirs(p, Dirs(p, c)) \subseteq 1..MaxDirs
    BY <1>0, <2>2, <2>3, DirsType DEF SendDirs, Dirs
  <2>5. out' \in [Proc -> SUBSET (1..MaxDirs)]
    BY <2>1, <2>4 DEF IInv
  <2>6. CallsInv'
    BY <1>0, <2>1, CallsStep DEF callVars
  <2> QED
    BY <2>1, <2>5, <2>6 DEF IInv, CallsInv
<1>3. CASE SentAll(p)
  <2>1. PICK c \in Cid : /\ Return(p, "SR", c)
                         /\ out' = [out EXCEPT ![p] = {}]
                         /\ UNCHANGED ghost
    BY <1>3 DEF SentAll
  <2>2. CallsInv'
    BY <1>0, <2>1, CallsStep DEF Op
  <2> QED
    BY <2>1, <2>2 DEF IInv, CallsInv
<1>4. CASE Arrive(p)
  <2>1. PICK c \in Cid :
          /\ Open(p, c)
          /\ \E d \in RecvDirs(p, Current(p, c)) :
               ghost' = [ghost EXCEPT ![p][c][d] = Expected(p, c, d)]
          /\ UNCHANGED <<prog, pos, inst, out>>
    BY <1>4 DEF Arrive
  <2>2. PICK d \in RecvDirs(p, Current(p, c)) :
          ghost' = [ghost EXCEPT ![p][c][d] = Expected(p, c, d)]
    BY <2>1
  <2>3. inst[p][c].gen \in Nat /\ inst[p][c].gen \in 1..Len(prog.dirs[c])
    BY <1>0, <2>1, OpenGen DEF Open
  <2>4. d \in 1..MaxDirs
    BY <1>0, <2>3, DirsType DEF RecvDirs, Current
  <2>5. Expected(p, c, d) \in DataSet
    BY <2>3, <2>4, SourceType, DataType DEF Expected
  <2>6. ghost' \in [Proc -> [Cid -> [1..MaxDirs -> DataSet \cup {NoData}]]]
    BY <2>2, <2>5 DEF IInv
  <2>7. CallsInv'
    BY <1>0, <2>1, CallsStep DEF callVars
  <2> QED
    BY <2>1, <2>6, <2>7 DEF IInv, CallsInv
<1>5. CASE Needed(p)
  <2>1. PICK c \in Cid : Return(p, "DN", c) /\ UNCHANGED <<out, ghost>>
    BY <1>5 DEF Needed
  <2>2. CallsInv'
    BY <1>0, <2>1, CallsStep DEF Op
  <2> QED
    BY <2>1, <2>2 DEF IInv, CallsInv
<1> QED
  BY <1>1, <1>2, <1>3, <1>4, <1>5 DEF Step
\* Terminated changes nothing, so every step of the specification preserves.
LEMMA NextIInv == IInv /\ [Next]_vars => IInv'
<1> SUFFICES ASSUME IInv, [Next]_vars PROVE IInv'
  OBVIOUS
<1>1. CASE \E p \in Proc : Step(p)
  BY <1>1, StepIInv
<1>2. CASE UNCHANGED vars
  BY <1>2 DEF IInv, TypeOK, CallsInv, CallsTypeOK, GenOK, OrderOK, vars
<1> QED
  BY <1>1, <1>2 DEF Next, Terminated

\* The interface specification is well typed: instances exist, and what is in
\* the ghost areas is data of the neighbours or nothing.
THEOREM Typing == Spec => []TypeOK
<1>1. Spec => []IInv
  BY InitIInv, NextIInv, PTL DEF Spec
<1>2. IInv => TypeOK
  BY DEF IInv
<1> QED
  BY <1>1, <1>2, PTL

-----------------------------------------------------------------------------
\* The areas hold what was sent in the directions ds of instance g of c.
Held(p, c, ds, g, areas) ==
  \A d \in RecvDirs(p, ds) : areas[d] = Data(Source(p, ds, d), c, g, d)

\* Fresh for the ghost areas of one communication of one processor.
FreshAt(p, c) ==
  /\ "DR" \in inst[p][c].done => "DN" \in inst[p][c].done
  /\ HeldGen(p, c) > 0
  => Held(p, c, prog.dirs[c][HeldGen(p, c)], HeldGen(p, c), ghost[p][c])

\* What a processor may read stays fresh while its id and areas do not change.
LEMMA FreshFrame ==
  ASSUME NEW p \in Proc, NEW c \in Cid, FreshAt(p, c), prog' = prog,
         inst'[p][c] = inst[p][c], ghost'[p][c] = ghost[p][c]
  PROVE  FreshAt(p, c)'
<1>1. HeldGen(p, c)' = HeldGen(p, c)
  BY DEF HeldGen
<1> QED
  BY <1>1 DEF FreshAt

\* A return other than that of DN only keeps what was fresh: NEW, OLD and the
\* SR of a pipelined loop hold the same instance as before, after DR and an SR
\* before DN nothing may be read.
LEMMA FreshReturn ==
  ASSUME IInv, NEW p \in Proc, NEW c \in Cid, NEW o \in Op, o # "DN",
         Return(p, o, c), FreshAt(p, c), ghost' = ghost
  PROVE  FreshAt(p, c)'
<1> DEFINE i == inst[p][c]
<1>0. CallsInv
  BY DEF IInv
<1>1. i.gen \in Nat /\ i.done \in SUBSET Op /\ prog' = prog
  BY DEF IInv, TypeOK, CallsTypeOK, Return
<1>2. /\ o \notin i.done /\ Required[o] \subseteq i.done
      /\ inst'[p][c] = [done |-> DoneAfter(i.done, o), gen |-> Gen(p, c)]
      /\ Gen(p, c) = IF o = "NEW" THEN i.gen + 1 ELSE i.gen
  BY <1>0, ReturnStep
<1>3. \A a \in i.done : Required[a] \subseteq i.done
  BY <1>0 DEF CallsInv, OrderOK
<1>4. CASE o = "DR"
  <2>1. "DN" \notin i.done
    BY <1>2, <1>3, <1>4 DEF Required
  <2> QED
    BY <1>2, <1>4, <2>1 DEF FreshAt, DoneAfter
<1>5. CASE o = "NEW"
  <2>1. i.done = {}
    BY <1>1, <1>2, <1>3, <1>5 DEF Required, Op
  <2>2. HeldGen(p, c) = i.gen /\ HeldGen(p, c)' = i.gen
    BY <1>1, <1>2, <1>5, <2>1 DEF HeldGen, DoneAfter
  <2> QED
    BY <1>1, <2>1, <2>2 DEF FreshAt
<1>6. CASE o \in {"SR", "OLD"}
  <2>1. "DR" \in i.done /\ ("DN" \in i.done \/ o = "SR")
    BY <1>2, <1>6 DEF Required
  <2>2. HeldGen(p, c) = i.gen /\ HeldGen(p, c)' = i.gen
    BY <1>1, <1>2, <1>6, <2>1 DEF HeldGen, DoneAfter
  <2> QED
    BY <1>1, <1>2, <1>6, <2>1, <2>2 DEF FreshAt, DoneAfter
<1> QED
  BY <1>4, <1>5, <1>6 DEF Op

\* DN returns only when every ghost area has the data of its instance.
LEMMA FreshNeeded ==
  ASSUME IInv, NEW p \in Proc, NEW c \in Cid, Return(p, "DN", c), ghost' = ghost,
         \A d \in RecvDirs(p, Current(p, c)) : ghost[p][c][d] = Expected(p, c, d)
  PROVE  FreshAt(p, c)'
<1>1. prog' = prog /\ "DN" \in Op
  BY DEF Op, Return
<1>3. inst'[p][c] = [done |-> inst[p][c].done \cup {"DN"}, gen |-> inst[p][c].gen]
  <2> DEFINE o == "DN"
  <2>1. o \in Op /\ Return(p, o, c) /\ o # "NEW" /\ o # "OLD"
    BY <1>1
  <2> HIDE DEF o
  <2>2. /\ inst'[p][c] = [done |-> DoneAfter(inst[p][c].done, o), gen |-> Gen(p, c)]
        /\ Gen(p, c) = inst[p][c].gen
    BY <2>1, ReturnStep DEF IInv
  <2>3. DoneAfter(inst[p][c].done, o) = inst[p][c].done \cup {o}
    BY <2>1 DEF DoneAfter
  <2> QED
    BY <2>2, <2>3 DEF o
<1>2. HeldGen(p, c)' = inst[p][c].gen
  BY <1>3 DEF HeldGen
<1>4. Held(p, c, prog.dirs[c][inst[p][c].gen], inst[p][c].gen, ghost[p][c])
  BY DEF Held, Current, Expected
<1> QED
  BY <1>1, <1>2, <1>3, <1>4 DEF FreshAt

LEMMA StepFresh ==
  ASSUME IInv, Fresh, NEW p \in Proc, Step(p)
  PROVE  Fresh'
<1>1. \A r \in Proc, e \in Cid : FreshAt(r, e)
  BY DEF Fresh, FreshAt, Held
<1> SUFFICES ASSUME NEW r \in Proc, NEW e \in Cid
             PROVE  FreshAt(r, e)'
  BY DEF Fresh, FreshAt, Held
<1>0. CallsInv
  BY DEF IInv
<1>2. ASSUME NEW c \in Cid, NEW o \in Op, Return(p, o, c), ghost' = ghost,
             o # "DN" \/ FreshAt(p, c)'
      PROVE  FreshAt(r, e)'
  <2>1. CASE r = p /\ e = c
    BY <1>1, <1>2, <2>1, FreshReturn
  <2>2. CASE <<r, e>> # <<p, c>>
    BY <1>0, <1>1, <1>2, <2>2, ReturnStep, FreshFrame DEF Return
  <2> QED
    BY <2>1, <2>2
<1>3. CASE Local(p)
  <2>1. CASE \E c \in Cid, o \in {"NEW", "DR", "OLD"} : Return(p, o, c)
    BY <1>2, <1>3, <2>1 DEF Local, Op
  <2>2. CASE \E o \in LoopOp : Pass(p, o)
    BY <1>0, <1>1, <1>3, <2>2, PassStep, FreshFrame DEF Local
  <2>3. CASE SkipTile(p)
    <3>1. CASE inst'[r][e] = inst[r][e]
      BY <1>0, <1>1, <1>3, <2>3, <3>1, SkipStep, FreshFrame DEF Local
    <3>2. CASE r = p /\ inst'[r][e].done = {} /\ inst'[r][e] # inst[r][e]
      <4>1. RecvDirs(r, prog'.dirs[e][inst'[r][e].gen]) = {}
        BY <1>0, <2>3, <3>2, SkipStep
      <4>2. HeldGen(r, e)' = inst'[r][e].gen
        BY <3>2 DEF HeldGen
      <4> QED
        BY <4>1, <4>2 DEF FreshAt, Held
    <3> QED
      BY <1>0, <2>3, <3>1, <3>2, SkipStep
  <2> QED
    BY <1>3, <2>1, <2>2, <2>3 DEF Local
<1>4. CASE Send(p)
  BY <1>1, <1>4, FreshFrame DEF Send
<1>5. CASE SentAll(p)
  BY <1>2, <1>5 DEF SentAll, Op
<1>6. CASE Arrive(p)
  <2>1. PICK c \in Cid : \E d \in RecvDirs(p, Current(p, c)) :
          /\ Open(p, c)
          /\ ghost' = [ghost EXCEPT ![p][c][d] = Expected(p, c, d)]
          /\ UNCHANGED <<prog, pos, inst, out>>
    BY <1>6 DEF Arrive
  <2>2. CASE r = p /\ e = c
    BY <2>1, <2>2 DEF FreshAt, Open
  <2>3. CASE <<r, e>> # <<p, c>>
    <3>1. ghost'[r][e] = ghost[r][e]
      BY <2>1, <2>3 DEF IInv, TypeOK
    <3> QED
      BY <1>1, <2>1, <3>1, FreshFrame
  <2> QED
    BY <2>2, <2>3
<1>7. CASE Needed(p)
  <2>1. PICK c \in Cid :
          /\ Return(p, "DN", c) /\ ghost' = ghost
          /\ \A d \in RecvDirs(p, Current(p, c)) :
               ghost[p][c][d] = Expected(p, c, d)
    BY <1>7 DEF Needed
  <2> QED
    BY <1>2, <2>1, FreshNeeded DEF Op
<1> QED
  BY <1>3, <1>4, <1>5, <1>6, <1>7 DEF Step

\* Whatever the program, the grid and the neighbours: the ghost areas a
\* processor may read hold what its neighbours sent for its own instance.
THEOREM Freshness == Spec => []Fresh
<1>1. Init => IInv /\ Fresh
  BY InitIInv DEF Init, InitCalls, Fresh, HeldGen
<1>2. IInv /\ Fresh /\ [Next]_vars => IInv' /\ Fresh'
  <2> SUFFICES ASSUME IInv, Fresh, [Next]_vars PROVE Fresh'
    BY NextIInv
  <2>1. CASE \E p \in Proc : Step(p)
    BY <2>1, StepFresh
  <2>2. CASE UNCHANGED vars
    <3> SUFFICES ASSUME NEW r \in Proc, NEW e \in Cid PROVE FreshAt(r, e)'
      BY DEF Fresh, FreshAt, Held
    <3>1. FreshAt(r, e)
      BY DEF Fresh, FreshAt, Held
    <3> QED
      BY <2>2, <3>1, FreshFrame DEF vars
  <2> QED
    BY <2>1, <2>2 DEF Next, Terminated
<1> QED
  BY <1>1, <1>2, PTL DEF Spec
=============================================================================
