------------------------- MODULE IronmanPVM_proofs --------------------------
(***************************************************************************)
(* Proofs about IRONMAN over PVM, for every program, grid, number of       *)
(* directions and size of the bank: typing, the ownership of descriptors,  *)
(* that nothing is left behind, that nobody waits in a circle, and that it *)
(* implements the interface. The bank is that of the MPI implementation,   *)
(* and so are the lemmas about it and about messages.                      *)
(***************************************************************************)
EXTENDS IronmanPVM, IronmanBank_proofs

PVMTypeOK ==
  /\ step \in [Proc -> SUBSET (1..MaxDirs)]
  /\ net \in [Proc -> [Proc -> Seq(Message)]]
  /\ ghost \in [Proc -> [Cid -> [1..MaxDirs -> DataSet \cup {NoData}]]]

TInv == CallsInv /\ BankInv /\ PVMTypeOK

-----------------------------------------------------------------------------
LEMMA InitTInv == Init => TInv
<1> SUFFICES ASSUME Init PROVE TInv
  OBVIOUS
<1>1. CallsInv /\ BankInv
  BY InitCallsInv, InitBankInv DEF Init
<1>2. PVMTypeOK
  BY DEF Init, PVMTypeOK
<1> QED
  BY <1>1, <1>2 DEF TInv

LEMMA StepTInv ==
  ASSUME TInv, NEW p \in Proc, Step(p)
  PROVE  TInv'
<1>0. CallsInv /\ BankInv /\ PVMTypeOK
  BY DEF TInv
<1>1. CASE New(p)
  <2>1. PICK c \in Cid : /\ Return(p, "NEW", c) /\ NewDescriptor(p, c)
                         /\ UNCHANGED <<step, net, ghost>>
    BY <1>1 DEF New
  <2>2. CallsInv' /\ BankInv'
    BY <1>0, <2>1, CallsStep, NewBank DEF Op
  <2> QED
    BY <1>0, <2>1, <2>2 DEF TInv, PVMTypeOK
<1>2. CASE DR(p)
  <2>1. PICK c \in Cid : /\ Return(p, "DR", c)
                         /\ UNCHANGED <<bankVars, step, net, ghost>>
    BY <1>2 DEF DR
  <2>2. CallsInv' /\ BankInv'
    BY <1>0, <2>1, CallsStep, KeepBank DEF Op
  <2> QED
    BY <1>0, <2>1, <2>2 DEF TInv, PVMTypeOK
<1>3. CASE SRSend(p)
  <2>0. PICK c \in Cid : \E d \in DOMAIN SendInfo(p, c) :
          /\ net' = [net EXCEPT ![p][SendInfo(p, c)[d].proc] = Append(@,
               [tag |-> SendInfo(p, c)[d].dyn_commid,
                val |-> Data(p, SendInfo(p, c)[d].area,
                             inst[p][SendInfo(p, c)[d].area].gen, d)])]
          /\ step' = [step EXCEPT ![p] = @ \cup {d}]
          /\ UNCHANGED <<callVars, bankVars, ghost>>
    BY <1>3 DEF SRSend
  <2>1. PICK d \in DOMAIN SendInfo(p, c) :
          /\ net' = [net EXCEPT ![p][SendInfo(p, c)[d].proc] = Append(@,
               [tag |-> SendInfo(p, c)[d].dyn_commid,
                val |-> Data(p, SendInfo(p, c)[d].area,
                             inst[p][SendInfo(p, c)[d].area].gen, d)])]
          /\ step' = [step EXCEPT ![p] = @ \cup {d}]
          /\ UNCHANGED <<callVars, bankVars, ghost>>
    BY <2>0
  <2> DEFINE info == SendInfo(p, c)[d]
             msg == [tag |-> info.dyn_commid,
                     val |-> Data(p, info.area, inst[p][info.area].gen, d)]
  <2>2. d \in 1..MaxDirs /\ info \in PerComm
    BY <1>0, InfoInDirs DEF IsMap
  <2> HIDE DEF info
  <2>3. info.proc \in Proc /\ info.area \in Cid /\ info.dyn_commid \in DynId
    BY <2>2 DEF PerComm
  <2>4. inst[p][info.area].gen \in Nat
    BY <1>0, <2>3 DEF CallsInv, CallsTypeOK
  <2>5. msg \in Message
    BY <2>2, <2>3, <2>4, DataType DEF Message
  <2>6. net' = [net EXCEPT ![p][info.proc] = Append(@, msg)]
    BY <2>1 DEF info
  <2> HIDE DEF msg
  <2>7. net' \in [Proc -> [Proc -> Seq(Message)]]
    <3>1. Append(net[p][info.proc], msg) \in Seq(Message)
      BY <1>0, <2>3, <2>5 DEF PVMTypeOK
    <3> QED
      BY <1>0, <2>3, <2>6, <3>1 DEF PVMTypeOK
  <2>8. CallsInv' /\ BankInv'
    BY <1>0, <2>1, CallsStep, StillBank
  <2> QED
    BY <1>0, <2>1, <2>2, <2>7, <2>8 DEF TInv, PVMTypeOK
<1>4. CASE SRReturn(p) \/ DNReturn(p)
  <2>1. PICK c \in Cid, o \in {"SR", "DN"} :
          /\ Return(p, o, c) /\ step' = [step EXCEPT ![p] = {}]
          /\ UNCHANGED <<bankVars, net, ghost>>
    BY <1>4 DEF SRReturn, DNReturn
  <2>2. CallsInv' /\ BankInv'
    BY <1>0, <2>1, CallsStep, KeepBank DEF Op
  <2> QED
    BY <1>0, <2>1, <2>2 DEF TInv, PVMTypeOK
<1>5. CASE DNRecv(p)
  <2>0. PICK c \in Cid : \E d \in DOMAIN RecvInfo(p, c) :
        \E i \in 1..Len(net[RecvInfo(p, c)[d].proc][p]) :
          /\ ghost' = [ghost EXCEPT ![p][RecvInfo(p, c)[d].area][d] =
                         net[RecvInfo(p, c)[d].proc][p][i].val]
          /\ net' = [net EXCEPT ![RecvInfo(p, c)[d].proc][p] =
               SubSeq(@, 1, i - 1) \o SubSeq(@, i + 1, Len(@))]
          /\ step' = [step EXCEPT ![p] = @ \cup {d}]
          /\ UNCHANGED <<callVars, bankVars>>
    BY <1>5, ZenonT(40) DEF DNRecv
  <2>00. PICK d \in DOMAIN RecvInfo(p, c) :
        \E i \in 1..Len(net[RecvInfo(p, c)[d].proc][p]) :
          /\ ghost' = [ghost EXCEPT ![p][RecvInfo(p, c)[d].area][d] =
                         net[RecvInfo(p, c)[d].proc][p][i].val]
          /\ net' = [net EXCEPT ![RecvInfo(p, c)[d].proc][p] =
               SubSeq(@, 1, i - 1) \o SubSeq(@, i + 1, Len(@))]
          /\ step' = [step EXCEPT ![p] = @ \cup {d}]
          /\ UNCHANGED <<callVars, bankVars>>
    BY <2>0
  <2> DEFINE info == RecvInfo(p, c)[d]
             ch == net[info.proc][p]
  <2>1. PICK i \in 1..Len(ch) :
          /\ ghost' = [ghost EXCEPT ![p][info.area][d] = ch[i].val]
          /\ net' = [net EXCEPT ![info.proc][p] =
               SubSeq(ch, 1, i - 1) \o SubSeq(ch, i + 1, Len(ch))]
          /\ step' = [step EXCEPT ![p] = @ \cup {d}]
          /\ UNCHANGED <<callVars, bankVars>>
    BY <2>00
  <2>2. d \in 1..MaxDirs /\ info \in PerComm
    BY <1>0, InfoInDirs DEF IsMap
  <2> HIDE DEF info
  <2>3. info.proc \in Proc /\ info.area \in Cid
    BY <2>2 DEF PerComm
  <2>4. ch \in Seq(Message) /\ ch[i].val \in DataSet
    <3>1. ch \in Seq(Message)
      BY <1>0, <2>3 DEF PVMTypeOK
    <3>2. ch[i] \in Message
      BY <2>1, <3>1
    <3> QED
      BY <3>1, <3>2 DEF Message
  <2> HIDE DEF ch
  <2>5. ghost' \in [Proc -> [Cid -> [1..MaxDirs -> DataSet \cup {NoData}]]]
    <3>1. /\ ghost \in [Proc -> [Cid -> [1..MaxDirs -> DataSet \cup {NoData}]]]
          /\ d \in 1..MaxDirs /\ ch[i].val \in DataSet \cup {NoData}
      BY <1>0, <2>2, <2>4 DEF PVMTypeOK
    <3>2. [ghost EXCEPT ![p][info.area][d] = ch[i].val]
            \in [Proc -> [Cid -> [1..MaxDirs -> DataSet \cup {NoData}]]]
      BY <2>3, <3>1, TableType
    <3> QED
      BY <2>1, <3>2
  <2>6. net' \in [Proc -> [Proc -> Seq(Message)]]
    <3>1. SubSeq(ch, 1, i - 1) \in Seq(Message)
      BY <2>4
    <3>2. SubSeq(ch, i + 1, Len(ch)) \in Seq(Message)
      BY <2>4
    <3>3. SubSeq(ch, 1, i - 1) \o SubSeq(ch, i + 1, Len(ch)) \in Seq(Message)
      BY <3>1, <3>2
    <3> QED
      BY <1>0, <2>1, <2>3, <3>3 DEF PVMTypeOK
  <2>7. CallsInv' /\ BankInv'
    BY <1>0, <2>1, CallsStep, StillBank
  <2>8. step' \in [Proc -> SUBSET (1..MaxDirs)]
    BY <1>0, <2>1, <2>2 DEF PVMTypeOK
  <2> QED
    BY <2>5, <2>6, <2>7, <2>8 DEF TInv, PVMTypeOK
<1>6. CASE Old(p)
  <2>1. PICK c \in Cid : /\ Return(p, "OLD", c) /\ OldDescriptor(p, c)
                         /\ UNCHANGED <<step, net, ghost>>
    BY <1>6 DEF Old
  <2>2. CallsInv' /\ BankInv'
    BY <1>0, <2>1, CallsStep, OldBank DEF Op
  <2> QED
    BY <1>0, <2>1, <2>2 DEF TInv, PVMTypeOK
<1>7. CASE Loop(p)
  BY <1>0, <1>7, LoopBank DEF Loop, TInv, PVMTypeOK
<1> QED
  BY <1>1, <1>2, <1>3, <1>4, <1>5, <1>6, <1>7 DEF Step

LEMMA NextTInv == TInv /\ [Next]_vars => TInv'
<1> SUFFICES ASSUME TInv, [Next]_vars PROVE TInv'
  OBVIOUS
<1>1. CASE \E p \in Proc : Step(p)
  BY <1>1, StepTInv
<1>2. CASE UNCHANGED vars
  BY <1>2, StillBank DEF TInv, PVMTypeOK, vars, CallsInv, CallsTypeOK, GenOK, OrderOK, callVars
<1> QED
  BY <1>1, <1>2 DEF Next, Terminated

\* The implementation over PVM is well typed: tags stay in their range, what
\* is in descriptors, messages and ghost areas is what it should be.
THEOREM PVMTyping == Spec => []TypeOK
<1>1. Spec => []TInv
  BY InitTInv, NextTInv, PTL DEF Spec
<1>2. TInv => TypeOK
  BY DEF TInv, CallsInv, BankInv, PVMTypeOK, TypeOK
<1> QED
  BY <1>1, <1>2, PTL

\* Over PVM too every descriptor belongs to one communication or is free, and
\* NEW always finds a free one.
THEOREM PVMDescriptors == Spec => []DescriptorsOwned
<1>1. Spec => []TInv
  BY InitTInv, NextTInv, PTL DEF Spec
<1>2. TInv => DescriptorsOwned
  BY OwnedImplies DEF TInv
<1> QED
  BY <1>1, <1>2, PTL

-----------------------------------------------------------------------------
\* Every step does to ids and descriptors what BankStep says.
LEMMA StepBank ==
  ASSUME NEW p \in Proc, Step(p)
  PROVE  BankStep(p)
<1>1. CASE New(p)
  BY <1>1 DEF New, BankStep
<1>2. CASE \E c \in Cid, o \in {"DR", "SR", "DN"} : Return(p, o, c) /\ UNCHANGED bankVars
  BY <1>2 DEF BankStep
<1>3. CASE Old(p)
  BY <1>3 DEF Old, BankStep
<1>4. CASE Loop(p)
  BY <1>4 DEF Loop, BankStep
<1>5. CASE UNCHANGED <<callVars, bankVars>>
  BY <1>5 DEF BankStep
<1>6. DR(p) \/ SRReturn(p) \/ DNReturn(p) =>
        \E c \in Cid, o \in {"DR", "SR", "DN"} : Return(p, o, c) /\ UNCHANGED bankVars
  BY DEF DR, SRReturn, DNReturn
<1>7. SRSend(p) \/ DNRecv(p) => UNCHANGED <<callVars, bankVars>>
  BY DEF SRSend, DNRecv
<1> QED
  BY <1>1, <1>2, <1>3, <1>4, <1>5, <1>6, <1>7 DEF Step

LEMMA NextLInv == LInv /\ [Next]_vars => LInv'
<1> SUFFICES ASSUME LInv, [Next]_vars PROVE LInv'
  OBVIOUS
<1>1. ASSUME NEW p \in Proc, Step(p) PROVE BankStep(p)
  BY <1>1, StepBank
<1>2. CASE UNCHANGED vars
  <2>1. GensInv' /\ IdsInv'
    BY <1>2 DEF LInv, GensInv, IdsInv, vars, callVars, bankVars
  <2>2. CallsInv' /\ BankInv'
    BY <1>2, StillBank DEF LInv, vars, CallsInv, CallsTypeOK, GenOK, OrderOK, callVars
  <2> QED
    BY <2>1, <2>2 DEF LInv
<1> QED
  BY <1>1, <1>2, StepLInv DEF Next, Terminated

\* Processors at the same place of the program have drawn the same ids, though
\* they never talk about them and some leave out tiles of pipelined loops.
THEOREM PVMLockstep == Spec => []IdsInLockstep
<1>1. Init => LInv
  BY InitLInv DEF Init
<1> QED
  BY <1>1, NextLInv, LInvImplies, PTL DEF Spec
-----------------------------------------------------------------------------
\* The directions p has sent in the SR it is in, and has received in the DN.
Out(p) == [c \in Cid |-> IF May(p, "SR", c) THEN step[p] ELSE {}]
Got(p) == [c \in Cid |-> IF May(p, "DN", c) THEN step[p] ELSE {}]

\* Between calls nothing is half done.
StepOK == \A p \in Proc : step[p] # {} => \E c \in Cid, o \in {"SR", "DN"} : May(p, o, c)

\* PVM has, between any two processors, what the one has sent and the other
\* has not received.
PairsOK ==
  \A q, p \in Proc : PairOK(prog, pos[q], q, p, inst[q], inst[p], Out(q), Got(p), net[q][p])

\* What was received is in place.
GhostOK ==
  \A p \in Proc, c \in Cid : May(p, "DN", c) =>
    \A d \in step[p] \cap DOMAIN RecvInfo(p, c) :
      ghost[p][c][d] = Data(RecvInfo(p, c)[d].proc, c, inst[p][c].gen, d)

NInv == TInv /\ LInv /\ OpenInv /\ DoneInv /\ StepOK /\ PairsOK /\ GhostOK

-----------------------------------------------------------------------------
LEMMA InitNInv == Init => NInv
<1> SUFFICES ASSUME Init PROVE NInv
  OBVIOUS
<1>1. TInv /\ LInv /\ OpenInv /\ DoneInv
  BY InitTInv, InitLInv, InitOpen, InitDone DEF Init
<1>2. \A p \in Proc : step[p] = {}
  BY DEF Init
<1>3. StepOK /\ GhostOK
  BY <1>2 DEF StepOK, GhostOK
<1>4. ASSUME NEW q \in Proc, NEW p \in Proc
      PROVE  PairOK(prog, pos[q], q, p, inst[q], inst[p], Out(q), Got(p), net[q][p])
  <2>1. net[q][p] = <<>> /\ \A c \in Cid : inst[q][c].gen = 0 /\ inst[p][c].gen = 0
    BY DEF Init, InitCalls
  <2> QED
    BY <2>1, InitPair
<1> QED
  BY <1>1, <1>3, <1>4 DEF NInv, PairsOK

\* At a call that does not loop over directions, nothing is half done.
LEMMA NoStep ==
  ASSUME TInv, StepOK, NEW p \in Proc, NEW o, o \notin {"SR", "DN"}, NEW c, At(p, o, c)
  PROVE  step[p] = {} /\ step = [step EXCEPT ![p] = {}]
<1>1. step[p] = {}
  BY OneCall DEF StepOK
<1> QED
  BY <1>1 DEF TInv, PVMTypeOK

LEMMA SameOut ==
  ASSUME NEW r \in Proc, prog' = prog, pos'[r] = pos[r], inst'[r] = inst[r], step'[r] = step[r]
  PROVE  Out(r)' = Out(r) /\ Got(r)' = Got(r)
BY SameMay DEF Out, Got

LEMMA NoOut ==
  ASSUME NEW r \in Proc, step[r] = {}
  PROVE  \A c \in Cid : Out(r)[c] = {} /\ Got(r)[c] = {}
BY DEF Out, Got

\* Steps that neither send nor receive.
LEMMA QuietPairs ==
  ASSUME PairsOK, prog' = prog, net' = net,
         \A q \in Proc : pos[q] \in Nat /\ pos'[q] \in Nat /\ pos[q] <= pos'[q],
         \A q, p \in Proc, x \in DataSet : Edge(prog, q, p, x) =>
           /\ SentIn(inst'[q][x.cid], x, Out(q)'[x.cid]) <=> SentIn(inst[q][x.cid], x, Out(q)[x.cid])
           /\ PendIn(inst'[p][x.cid], x, Got(p)'[x.cid]) <=> PendIn(inst[p][x.cid], x, Got(p)[x.cid])
  PROVE  PairsOK'
<1> SUFFICES ASSUME NEW q \in Proc, NEW p \in Proc
             PROVE  PairOK(prog, pos'[q], q, p, inst'[q], inst'[p], Out(q)', Got(p)', net[q][p])
  BY DEF PairsOK
<1>1. PairOK(prog, pos[q], q, p, inst[q], inst[p], Out(q), Got(p), net[q][p])
  BY DEF PairsOK
<1>2. /\ pos[q] \in Nat /\ pos'[q] \in Nat /\ pos[q] <= pos'[q]
      /\ \A x \in DataSet : Edge(prog, q, p, x) =>
           /\ SentIn(inst'[q][x.cid], x, Out(q)'[x.cid]) <=> SentIn(inst[q][x.cid], x, Out(q)[x.cid])
           /\ PendIn(inst'[p][x.cid], x, Got(p)'[x.cid]) <=> PendIn(inst[p][x.cid], x, Got(p)[x.cid])
  OBVIOUS
<1> QED
  BY <1>1, <1>2, QuietPair

\* Where a processor is at rest the others are undisturbed.
LEMMA RestFrame ==
  ASSUME NInv, NEW p \in Proc, BankStep(p), step' = [step EXCEPT ![p] = {}], ghost' = ghost
  PROVE  /\ StepOK' /\ GhostOK'
         /\ \A c \in Cid : Out(p)'[c] = {} /\ Got(p)'[c] = {}
         /\ \A r \in Proc : r # p => Out(r)' = Out(r) /\ Got(r)' = Got(r)
<1>0. TInv /\ LInv /\ StepOK /\ GhostOK
  BY DEF NInv
<1>1. /\ prog' = prog
      /\ \A r \in Proc : r # p => /\ pos'[r] = pos[r] /\ inst'[r] = inst[r]
                                  /\ handle'[r] = handle[r] /\ commbank'[r] = commbank[r]
  BY <1>0, OthersKeep
<1>2. step'[p] = {} /\ \A r \in Proc : r # p => step'[r] = step[r]
  BY <1>0 DEF TInv, PVMTypeOK
<1>3. \A r \in Proc : r # p => \A o, c : May(r, o, c)' <=> May(r, o, c)
  BY <1>1, SameMay
<1>4. \A r \in Proc : r # p => Out(r)' = Out(r) /\ Got(r)' = Got(r)
  BY <1>1, <1>2, SameOut
<1>5. \A c \in Cid : Out(p)'[c] = {} /\ Got(p)'[c] = {}
  BY <1>2 DEF Out, Got
<1>6. StepOK'
  BY <1>0, <1>2, <1>3 DEF StepOK
<1>7. GhostOK'
  <2> SUFFICES ASSUME NEW r \in Proc, NEW c \in Cid, May(r, "DN", c)',
                      NEW d \in step'[r] \cap DOMAIN RecvInfo(r, c)'
               PROVE  ghost'[r][c][d] = Data(RecvInfo(r, c)'[d].proc, c, inst'[r][c].gen, d)
    BY DEF GhostOK
  <2>1. r # p
    BY <1>2
  <2>2. RecvInfo(r, c)' = RecvInfo(r, c)
    BY <1>1, <2>1 DEF RecvInfo
  <2>3. May(r, "DN", c) /\ step'[r] = step[r] /\ inst'[r] = inst[r]
    BY <1>1, <1>2, <1>3, <2>1
  <2> QED
    BY <1>0, <2>2, <2>3 DEF GhostOK
<1> QED
  BY <1>4, <1>5, <1>6, <1>7

LEMMA ReturnPairs ==
  ASSUME NInv, NEW p \in Proc, NEW o \in Op, NEW c \in Cid, Return(p, o, c), BankStep(p),
         step' = [step EXCEPT ![p] = {}], net' = net, ghost' = ghost,
         o = "SR" => step[p] = DOMAIN SendInfo(p, c),
         o = "DN" => step[p] = DOMAIN RecvInfo(p, c)
  PROVE  PairsOK'
<1>0. /\ TInv /\ LInv /\ OpenInv /\ PairsOK /\ CallsInv /\ StepOK
      /\ Required["SR"] # {} /\ Required["DN"] # {} /\ {} = {}
  BY DEF NInv, LInv, Required
<1>1. /\ \A e \in Cid : Out(p)'[e] = {} /\ Got(p)'[e] = {}
      /\ \A r \in Proc : r # p => Out(r)' = Out(r) /\ Got(r)' = Got(r)
  BY RestFrame
<1>2. /\ prog' = prog /\ \A r \in Proc : r # p => pos'[r] = pos[r] /\ inst'[r] = inst[r]
  BY <1>0, OthersKeep
<1>3. \A r \in Proc : pos[r] \in Nat /\ pos'[r] \in Nat /\ pos[r] <= pos'[r]
  <2>1. pos' = [pos EXCEPT ![p] = pos[p] + 1] /\ pos \in [Proc -> Nat]
    BY <1>0, Place DEF CallsInv, CallsTypeOK
  <2> QED
    BY <2>1
<1>4. At(p, o, c) /\ Required[o] \subseteq inst[p][c].done
  BY DEF Return, May
<1>5. \A e \in Cid : /\ o # "SR" \/ e # c => Out(p)[e] = {}
                     /\ o # "DN" \/ e # c => Got(p)[e] = {}
  BY <1>4, OneCall DEF Out, Got
<1>6. /\ o = "SR" => Out(p)[c] = DOMAIN SendInfo(p, c)
      /\ o = "DN" => Got(p)[c] = DOMAIN RecvInfo(p, c)
  BY DEF Out, Got, Return
<1>7. o \in {"SR", "DN"} => inst[p][c].done # {}
  BY <1>0, <1>4
<1>8. ASSUME NEW x \in DataSet, NEW r \in Proc, Edge(prog, p, r, x)
      PROVE  SentIn(inst'[p][x.cid], x, Out(p)'[x.cid]) <=> SentIn(inst[p][x.cid], x, Out(p)[x.cid])
  <2>1. x.cid \in Cid
    BY DEF DataSet
  <2>2. o = "SR" /\ x.cid = c /\ x.gen = inst[p][c].gen => x.dir \in Out(p)[x.cid]
    BY <1>0, <1>6, <1>7, <1>8, EdgeInfo
  <2>3. Out(p)'[x.cid] = {} /\ (o # "SR" \/ x.cid # c => Out(p)[x.cid] = {})
    BY <1>1, <1>5, <2>1
  <2> QED
    BY <1>0, <2>2, <2>3, ReturnSent
<1>9. ASSUME NEW x \in DataSet, NEW r \in Proc, Edge(prog, r, p, x)
      PROVE  PendIn(inst'[p][x.cid], x, Got(p)'[x.cid]) <=> PendIn(inst[p][x.cid], x, Got(p)[x.cid])
  <2>1. x.cid \in Cid
    BY DEF DataSet
  <2>2. o = "DN" /\ x.cid = c /\ x.gen = inst[p][c].gen => x.dir \in Got(p)[x.cid]
    BY <1>0, <1>6, <1>7, <1>9, EdgeInfo
  <2>3. Got(p)'[x.cid] = {} /\ (o # "DN" \/ x.cid # c => Got(p)[x.cid] = {})
    BY <1>1, <1>5, <2>1
  <2> DEFINE G == Got(p)[x.cid]
             G2 == Got(p)'[x.cid]
  <2>4. x.dir \notin G2 /\ (o # "DN" \/ x.cid # c => x.dir \notin G)
    BY <2>3
  <2>5. o = "DN" /\ x.cid = c /\ x.gen = inst[p][c].gen => x.dir \in G
    BY <2>2
  <2> HIDE DEF G, G2
  <2>6. x.cid # c /\ inst[p][x.cid].done # {} => (x.dir \in G2 <=> x.dir \in G)
    BY <2>4
  <2>7. o \in {"DR", "SR"} /\ x.cid = c /\ "DN" \notin inst[p][c].done /\ x.gen = inst[p][c].gen =>
          (x.dir \in G2 <=> x.dir \in G)
    BY <2>4
  <2>8. o = "NEW" /\ x.cid = c => x.dir \notin G2
    BY <2>4
  <2>9. PendIn(inst'[p][x.cid], x, G2) <=> PendIn(inst[p][x.cid], x, G)
    BY <1>0, <2>5, <2>6, <2>7, <2>8, ReturnPend
  <2> QED
    BY <2>9 DEF G, G2
<1>10. \A q, r \in Proc, x \in DataSet : Edge(prog, q, r, x) =>
         /\ SentIn(inst'[q][x.cid], x, Out(q)'[x.cid]) <=> SentIn(inst[q][x.cid], x, Out(q)[x.cid])
         /\ PendIn(inst'[r][x.cid], x, Got(r)'[x.cid]) <=> PendIn(inst[r][x.cid], x, Got(r)[x.cid])
  BY <1>1, <1>2, <1>8, <1>9
<1> QED
  BY <1>0, <1>2, <1>3, <1>10, QuietPairs

\* The start and the end of a tile.
LEMMA LoopPairs ==
  ASSUME NInv, NEW p \in Proc, Loop(p)
  PROVE  StepOK' /\ PairsOK' /\ GhostOK'
<1>0. TInv /\ LInv /\ CallsInv /\ PairsOK /\ StepOK
  BY DEF NInv, LInv
<1>1. BankStep(p) /\ step' = step /\ net' = net /\ ghost' = ghost
  BY DEF BankStep, Loop
<1>2. \E o, c : At(p, o, c) /\ o \notin {"SR", "DN"}
  <2>1. CASE SkipTile(p)
    BY <2>1 DEF SkipTile, SkipTo, AtOp
  <2>2. CASE LoopInit(p) \/ LoopPost(p)
    BY <2>2 DEF LoopInit, LoopPost, Pass, AtOp
  <2> QED
    BY <2>1, <2>2 DEF Loop
<1>3. step[p] = {} /\ step' = [step EXCEPT ![p] = {}]
  BY <1>0, <1>1, <1>2, NoStep
<1>4. /\ StepOK' /\ GhostOK'
      /\ \A c \in Cid : Out(p)'[c] = {} /\ Got(p)'[c] = {}
      /\ \A r \in Proc : r # p => Out(r)' = Out(r) /\ Got(r)' = Got(r)
  BY <1>1, <1>3, RestFrame
<1>5. \A c \in Cid : Out(p)[c] = {} /\ Got(p)[c] = {}
  BY <1>3, NoOut
<1>6. /\ prog' = prog /\ \A r \in Proc : r # p => pos'[r] = pos[r] /\ inst'[r] = inst[r]
  BY <1>0, <1>1, OthersKeep
<1>7. pos \in [Proc -> Nat] /\ \A r \in Proc : pos[r] \in Nat
  BY <1>0 DEF CallsInv, CallsTypeOK
<1>8. pos'[p] \in Nat /\ pos[p] <= pos'[p]
  <2>1. CASE SkipTile(p)
    <3>1. PICK n \in (pos[p] + 1)..Len(prog.calls) : SkipTo(p, n)
      BY <2>1 DEF SkipTile
    <3> QED
      BY <1>7, <3>1 DEF SkipTo
  <2>2. CASE LoopInit(p) \/ LoopPost(p)
    BY <1>7, <2>2 DEF LoopInit, LoopPost, Pass
  <2> QED
    BY <2>1, <2>2 DEF Loop
<1>9. ASSUME NEW x \in DataSet
      PROVE  /\ (\E r \in Proc : Edge(prog, p, r, x)) =>
                  (SentIn(inst'[p][x.cid], x, Out(p)'[x.cid]) <=> SentIn(inst[p][x.cid], x, Out(p)[x.cid]))
             /\ (\E q \in Proc : Edge(prog, q, p, x)) =>
                  (PendIn(inst'[p][x.cid], x, Got(p)'[x.cid]) <=> PendIn(inst[p][x.cid], x, Got(p)[x.cid]))
  <2>1. x.cid \in Cid
    BY DEF DataSet
  <2>2. /\ Out(p)'[x.cid] = {} /\ Out(p)[x.cid] = {}
        /\ Got(p)'[x.cid] = {} /\ Got(p)[x.cid] = {}
    BY <1>4, <1>5, <2>1
  <2>3. CASE SkipTile(p)
    BY <1>0, <2>2, <2>3, SkipQuiet
  <2>4. CASE LoopInit(p) \/ LoopPost(p)
    BY <2>2, <2>4 DEF LoopInit, LoopPost, Pass
  <2> QED
    BY <2>3, <2>4 DEF Loop
<1>10. \A q, r \in Proc, x \in DataSet : Edge(prog, q, r, x) =>
         /\ SentIn(inst'[q][x.cid], x, Out(q)'[x.cid]) <=> SentIn(inst[q][x.cid], x, Out(q)[x.cid])
         /\ PendIn(inst'[r][x.cid], x, Got(r)'[x.cid]) <=> PendIn(inst[r][x.cid], x, Got(r)[x.cid])
  BY <1>4, <1>6, <1>9
<1>11. \A r \in Proc : pos[r] \in Nat /\ pos'[r] \in Nat /\ pos[r] <= pos'[r]
  BY <1>6, <1>7, <1>8
<1>12. PairsOK'
  BY <1>0, <1>1, <1>6, <1>10, <1>11, QuietPairs
<1> QED
  BY <1>4, <1>12

\* Within a call only the processor's own directions change.
LEMMA WithinCall ==
  ASSUME TInv, StepOK, UNCHANGED <<callVars, bankVars>>, NEW p \in Proc, NEW d,
         NEW o \in {"SR", "DN"}, NEW c \in Cid, May(p, o, c), step' = [step EXCEPT ![p] = @ \cup {d}]
  PROVE  /\ StepOK'
         /\ \A r \in Proc : r # p => Out(r)' = Out(r) /\ Got(r)' = Got(r)
         /\ o = "SR" => Grows(Out(p), Out(p)', c, d) /\ Got(p)' = Got(p)
         /\ o = "DN" => Grows(Got(p), Got(p)', c, d) /\ Out(p)' = Out(p)
<1>1. step'[p] = step[p] \cup {d} /\ \A r \in Proc : r # p => step'[r] = step[r]
  BY DEF TInv, PVMTypeOK
<1>2. \A r, a, e : May(r, a, e)' <=> May(r, a, e)
  BY DEF May, At, Running, callVars
<1>3. StepOK'
  BY <1>1, <1>2 DEF StepOK
<1>4. \A r \in Proc : r # p => Out(r)' = Out(r) /\ Got(r)' = Got(r)
  BY <1>1, <1>2 DEF Out, Got
<1>5. At(p, o, c)
  BY DEF May
<1>6. ASSUME NEW e \in Cid
      PROVE  /\ Out(p)'[e] = IF o = "SR" /\ e = c THEN Out(p)[c] \cup {d} ELSE Out(p)[e]
             /\ Got(p)'[e] = IF o = "DN" /\ e = c THEN Got(p)[c] \cup {d} ELSE Got(p)[e]
  <2>1. /\ May(p, "SR", e) <=> o = "SR" /\ e = c
        /\ May(p, "DN", e) <=> o = "DN" /\ e = c
    BY <1>5, OneCall
  <2> QED
    BY <1>1, <1>2, <2>1 DEF Out, Got
<1>7. o = "SR" => Grows(Out(p), Out(p)', c, d)
  BY <1>6 DEF Grows
<1>8. o = "DN" => Grows(Got(p), Got(p)', c, d)
  BY <1>6 DEF Grows
<1>9. o = "SR" => Got(p)' = Got(p)
  BY <1>6 DEF Got
<1>10. o = "DN" => Out(p)' = Out(p)
  BY <1>6 DEF Out
<1> QED
  BY <1>3, <1>4, <1>7, <1>8, <1>9, <1>10

LEMMA SendStep ==
  ASSUME NInv, NEW p \in Proc, SRSend(p)
  PROVE  StepOK' /\ PairsOK' /\ GhostOK'
<1>0. TInv /\ LInv /\ OpenInv /\ StepOK /\ PairsOK /\ GhostOK
  BY DEF NInv
<1>1. PICK c \in Cid : \E d \in DOMAIN SendInfo(p, c) :
        /\ May(p, "SR", c)
        /\ IsNext(d, DOMAIN SendInfo(p, c) \ step[p])
        /\ net' = [net EXCEPT ![p][SendInfo(p, c)[d].proc] = Append(@,
             [tag |-> SendInfo(p, c)[d].dyn_commid,
              val |-> Data(p, SendInfo(p, c)[d].area,
                           inst[p][SendInfo(p, c)[d].area].gen, d)])]
        /\ step' = [step EXCEPT ![p] = @ \cup {d}]
        /\ UNCHANGED <<callVars, bankVars, ghost>>
  BY DEF SRSend
<1>2. PICK d \in DOMAIN SendInfo(p, c) :
        /\ IsNext(d, DOMAIN SendInfo(p, c) \ step[p])
        /\ net' = [net EXCEPT ![p][SendInfo(p, c)[d].proc] = Append(@,
             [tag |-> SendInfo(p, c)[d].dyn_commid,
              val |-> Data(p, SendInfo(p, c)[d].area,
                           inst[p][SendInfo(p, c)[d].area].gen, d)])]
        /\ step' = [step EXCEPT ![p] = @ \cup {d}]
        /\ UNCHANGED <<callVars, bankVars, ghost>>
  BY <1>1
<1> DEFINE info == SendInfo(p, c)[d]
           msg == [tag |-> info.dyn_commid, val |-> Data(p, c, inst[p][c].gen, d)]
<1>3. May(p, "SR", c) /\ inst[p][c].done # {} /\ "SR" \notin inst[p][c].done
  BY <1>1 DEF May, Required
<1>4. /\ info.proc \in Proc /\ info.area = c /\ Data(p, c, inst[p][c].gen, d) \in DataSet
  BY <1>0, <1>3, SendEdge
<1>5. info.dyn_commid \in DynId
  BY <1>0, InfoInDirs DEF IsMap, PerComm, TInv
<1>6. /\ net' = [net EXCEPT ![p][info.proc] = Append(net[p][info.proc], msg)]
      /\ net \in [Proc -> [Proc -> Seq(Message)]] /\ msg \in Message
  BY <1>0, <1>2, <1>4, <1>5 DEF TInv, PVMTypeOK, Message
<1>7. /\ msg.tag = info.dyn_commid /\ msg.val = Data(p, c, inst[p][c].gen, d)
  OBVIOUS
<1>8. UNCHANGED <<callVars, bankVars>> /\ ghost' = ghost /\ step' = [step EXCEPT ![p] = @ \cup {d}]
  BY <1>2
<1>9. d \notin Out(p)[c]
  BY <1>2, <1>3 DEF IsNext, Out
<1>10. /\ StepOK'
       /\ \A r \in Proc : r # p => Out(r)' = Out(r) /\ Got(r)' = Got(r)
       /\ Grows(Out(p), Out(p)', c, d) /\ Got(p)' = Got(p)
  BY <1>0, <1>3, <1>8, WithinCall
<1> HIDE DEF info, msg
<1>12. ASSUME NEW r \in Proc
       PROVE  PairOK(prog, pos[p], p, r, inst[p], inst[r], Out(p)', Got(r), net'[p][r])
  <2>1. PairOK(prog, pos[p], p, r, inst[p], inst[r], Out(p), Got(r), net[p][r])
    BY <1>0 DEF PairsOK
  <2>2. CASE r = info.proc
    <3>1. net'[p][r] = Append(net[p][r], msg) /\ net[p][r] \in Seq(Message)
      BY <1>6, <2>2
    <3>2. r = SendInfo(p, c)[d].proc /\ msg.tag = SendInfo(p, c)[d].dyn_commid
      BY <1>7, <2>2 DEF info
    <3>3. Grows(Out(p), Out(p)', c, d)
      BY <1>10
    <3>4. PairOK(prog, pos[p], p, r, inst[p], inst[r], Out(p)', Got(r), Append(net[p][r], msg))
      <4> DEFINE ch == net[p][r]
                 out == Out(p)
                 out2 == Out(p)'
                 got == Got(r)
                 ip == inst[r]
      <4>1. /\ ch \in Seq(Message) /\ msg \in Message /\ d \notin out[c]
            /\ PairOK(prog, pos[p], p, r, inst[p], ip, out, got, ch)
            /\ Grows(out, out2, c, d)
        BY <1>6, <1>9, <2>1, <3>1, <3>3
      <4> HIDE DEF ch, out, out2, got, ip
      <4>2. PairOK(prog, pos[p], p, r, inst[p], ip, out2, got, Append(ch, msg))
        BY <1>0, <1>3, <1>7, <3>2, <4>1, SendPair
      <4> QED
        BY <4>2 DEF ch, out2, got, ip
    <3> QED
      BY <3>1, <3>4
  <2>3. CASE r # info.proc
    <3>1. net'[p][r] = net[p][r]
      BY <1>4, <1>6, <2>3
    <3>2. r # SendInfo(p, c)[d].proc
      BY <2>3 DEF info
    <3>3. Grows(Out(p), Out(p)', c, d)
      BY <1>10
    <3>4. PairOK(prog, pos[p], p, r, inst[p], inst[r], Out(p)', Got(r), net[p][r])
      BY <1>0, <1>3, <2>1, <3>2, <3>3, SendOther
    <3> QED
      BY <3>1, <3>4
  <2> QED
    BY <2>2, <2>3
<1>13. prog' = prog /\ pos' = pos /\ inst' = inst
  BY <1>8 DEF callVars
<1>14. PairsOK'
  <2> SUFFICES ASSUME NEW q \in Proc, NEW r \in Proc
               PROVE  PairOK(prog, pos[q], q, r, inst[q], inst[r], Out(q)', Got(r)', net'[q][r])
    BY <1>13 DEF PairsOK
  <2>1. Got(r)' = Got(r)
    BY <1>10
  <2>2. CASE q # p
    <3>1. net'[q][r] = net[q][r]
      BY <1>4, <1>6, <2>2
    <3> QED
      BY <1>0, <1>10, <2>1, <2>2, <3>1 DEF PairsOK
  <2> QED
    BY <1>12, <2>1, <2>2
<1>15. GhostOK'
  <2> SUFFICES ASSUME NEW r \in Proc, NEW e \in Cid, May(r, "DN", e)',
                      NEW b \in step'[r] \cap DOMAIN RecvInfo(r, e)'
               PROVE  ghost'[r][e][b] = Data(RecvInfo(r, e)'[b].proc, e, inst'[r][e].gen, b)
    BY DEF GhostOK
  <2>1. May(r, "DN", e) /\ RecvInfo(r, e)' = RecvInfo(r, e)
    BY <1>8, <1>13 DEF May, At, Running, RecvInfo, bankVars
  <2>2. r # p
    BY <1>3, <2>1, OneCall DEF May
  <2>3. step'[r] = step[r]
    BY <1>0, <1>8, <2>2 DEF TInv, PVMTypeOK
  <2> QED
    BY <1>0, <1>8, <1>13, <2>1, <2>3 DEF GhostOK
<1> QED
  BY <1>10, <1>14, <1>15

\* What DN takes is what the neighbour sent for the same instance.
LEMMA RecvOwn ==
  ASSUME NInv, NEW p \in Proc, NEW c \in Cid, May(p, "DN", c),
         NEW d \in DOMAIN RecvInfo(p, c) \ step[p], NEW q, q = RecvInfo(p, c)[d].proc,
         NEW i \in 1..Len(net[q][p]), FirstWithTag(p, q, RecvInfo(p, c)[d].dyn_commid, i)
  PROVE  /\ net[q][p][i].val = Data(q, c, inst[p][c].gen, d)
         /\ SentIn(inst[q][c], Data(q, c, inst[p][c].gen, d), Out(q)[c])
<1>0. LInv /\ OpenInv /\ PairsOK
  BY DEF NInv
<1>1. /\ "NEW" \in inst[p][c].done /\ inst[p][c].done # {"NEW"} /\ "DN" \notin inst[p][c].done
      /\ inst[p][c].done # {}
  BY DEF May, Required
<1>2. q \in Proc
  BY <1>0, <1>1, RecvEdge
<1> DEFINE ch == net[q][p]
           out == Out(q)
           got == Got(p)
           t == RecvInfo(p, c)[d].dyn_commid
<1>3. /\ d \notin got[c] /\ i \in 1..Len(ch) /\ ch[i].tag = t
      /\ PairOK(prog, pos[q], q, p, inst[q], inst[p], out, got, ch)
  BY <1>0, <1>2 DEF Got, FirstWithTag, PairsOK
<1>4. \A j \in 1..(i - 1) : ch[j].tag # t
  BY DEF FirstWithTag
<1> HIDE DEF ch, out, got, t
<1>6. d \in DOMAIN RecvInfo(p, c) /\ FirstAt(ch, RecvInfo(p, c)[d].dyn_commid, i)
  BY <1>3, <1>4 DEF t, FirstAt
<1>5. /\ ch[i].val = Data(q, c, inst[p][c].gen, d)
      /\ SentIn(inst[q][c], ch[i].val, out[c])
  <2>1. /\ LInv /\ OpenInv /\ p \in Proc /\ c \in Cid
        /\ "NEW" \in inst[p][c].done /\ inst[p][c].done # {"NEW"} /\ "DN" \notin inst[p][c].done
        /\ d \in DOMAIN RecvInfo(p, c) /\ q = RecvInfo(p, c)[d].proc
        /\ d \notin got[c]
        /\ PairOK(prog, pos[q], q, p, inst[q], inst[p], out, got, ch)
        /\ i \in 1..Len(ch) /\ FirstAt(ch, RecvInfo(p, c)[d].dyn_commid, i)
    BY <1>0, <1>1, <1>3, <1>6
  <2> QED
    BY <2>1, FirstIsOwn
<1> QED
  BY <1>5 DEF ch, out

\* One iteration of DN, for direction d of c.
Receives(p, c, d) ==
  LET q == RecvInfo(p, c)[d].proc IN
  \E i \in 1..Len(net[q][p]) :
    /\ May(p, "DN", c)
    /\ IsNext(d, DOMAIN RecvInfo(p, c) \ step[p])
    /\ FirstWithTag(p, q, RecvInfo(p, c)[d].dyn_commid, i)
    /\ ghost' = [ghost EXCEPT ![p][RecvInfo(p, c)[d].area][d] = net[q][p][i].val]
    /\ net' = [net EXCEPT ![q][p] = SubSeq(@, 1, i - 1) \o SubSeq(@, i + 1, Len(@))]
    /\ step' = [step EXCEPT ![p] = @ \cup {d}]
    /\ UNCHANGED <<callVars, bankVars>>

LEMMA ReceivesIs ==
  ASSUME NEW p, DNRecv(p)
  PROVE  \E c \in Cid : \E d \in DOMAIN RecvInfo(p, c) : Receives(p, c, d)
BY DEF DNRecv, Receives

LEMMA RecvStep ==
  ASSUME NInv, NEW p \in Proc, NEW c \in Cid, NEW d \in DOMAIN RecvInfo(p, c),
         NEW q, q = RecvInfo(p, c)[d].proc, Receives(p, c, d)
  PROVE  /\ StepOK' /\ PairsOK' /\ GhostOK'
         /\ SentIn(inst[q][c], Data(q, c, inst[p][c].gen, d), Out(q)[c])
         /\ Changed(ghost, ghost', p, c, d, Data(q, c, inst[p][c].gen, d))
<1>0. TInv /\ LInv /\ OpenInv /\ StepOK /\ PairsOK /\ GhostOK /\ CallsInv
  BY DEF NInv, LInv
<1>2. inst[p][c].done # {}
  BY DEF Receives, May, Required
<1>3. q \in Proc /\ RecvInfo(p, c)[d].area = c /\ d \in 1..MaxDirs
  <2>1. q \in Proc /\ RecvInfo(p, c)[d].area = c
    BY <1>0, <1>2, RecvEdge
  <2> QED
    BY <1>0, <2>1, InfoInDirs DEF TInv, IsMap
<1>i. PICK i \in 1..Len(net[q][p]) :
        /\ May(p, "DN", c)
        /\ IsNext(d, DOMAIN RecvInfo(p, c) \ step[p])
        /\ FirstWithTag(p, q, RecvInfo(p, c)[d].dyn_commid, i)
        /\ ghost' = [ghost EXCEPT ![p][RecvInfo(p, c)[d].area][d] = net[q][p][i].val]
        /\ net' = [net EXCEPT ![q][p] = SubSeq(@, 1, i - 1) \o SubSeq(@, i + 1, Len(@))]
        /\ step' = [step EXCEPT ![p] = @ \cup {d}]
        /\ UNCHANGED <<callVars, bankVars>>
  BY DEF Receives
<1> USE <1>i
<1>1. d \notin step[p] /\ d \in DOMAIN RecvInfo(p, c) \ step[p]
  BY DEF IsNext
<1> DEFINE x == Data(q, c, inst[p][c].gen, d)
           ch == net[q][p]
           ch2 == SubSeq(ch, 1, i - 1) \o SubSeq(ch, i + 1, Len(ch))
<1>4. ch[i].val = x /\ SentIn(inst[q][c], x, Out(q)[c])
  BY <1>1, RecvOwn
<1>5. ghost' = [ghost EXCEPT ![p][c][d] = x]
  BY <1>3, <1>4
<1>6. ch \in Seq(Message) /\ net \in [Proc -> [Proc -> Seq(Message)]]
  BY <1>0, <1>3 DEF TInv, PVMTypeOK
<1>7. /\ net'[q][p] = ch2
      /\ \A a, b \in Proc : <<a, b>> # <<q, p>> => net'[a][b] = net[a][b]
  BY <1>3, <1>6
<1>8. /\ StepOK'
      /\ \A r \in Proc : r # p => Out(r)' = Out(r) /\ Got(r)' = Got(r)
      /\ Grows(Got(p), Got(p)', c, d) /\ Out(p)' = Out(p)
  BY <1>0, WithinCall
<1>9. prog' = prog /\ pos' = pos /\ inst' = inst
  BY DEF callVars
<1>10. \A r \in Proc : Out(r)' = Out(r)
  BY <1>8
<1>11. pos \in [Proc -> Nat]
  BY <1>0 DEF CallsInv, CallsTypeOK
<1>12. ASSUME NEW r \in Proc
       PROVE  PairOK(prog, pos[r], r, p, inst[r], inst[p], Out(r), Got(p)', net'[r][p])
  <2> DEFINE cr == net[r][p]
             out == Out(r)
             got == Got(p)
             got2 == Got(p)'
             ir == inst[r]
             n == pos[r]
  <2>1. /\ PairOK(prog, n, r, p, ir, inst[p], out, got, cr) /\ n \in Nat
        /\ Grows(got, got2, c, d)
    BY <1>0, <1>8, <1>11 DEF PairsOK
  <2>2. CASE r = q
    <3>1. /\ cr \in Seq(Message) /\ i \in 1..Len(cr) /\ cr[i].val = Data(r, c, inst[p][c].gen, d)
          /\ net'[r][p] = SubSeq(cr, 1, i - 1) \o SubSeq(cr, i + 1, Len(cr))
          /\ r = RecvInfo(p, c)[d].proc
      BY <1>4, <1>6, <1>7, <2>2
    <3> HIDE DEF cr, out, got, got2, ir, n
    <3>2. PairOK(prog, n, r, p, ir, inst[p], out, got2,
                 SubSeq(cr, 1, i - 1) \o SubSeq(cr, i + 1, Len(cr)))
      BY <1>0, <1>2, <2>1, <3>1, GetPair
    <3> QED
      BY <3>1, <3>2 DEF out, got2, ir, n
  <2>3. CASE r # q
    <3>1. r # RecvInfo(p, c)[d].proc /\ net'[r][p] = cr
      BY <1>7, <2>3
    <3> HIDE DEF cr, out, got, got2, ir, n
    <3>2. PairOK(prog, n, r, p, ir, inst[p], out, got2, cr)
      BY <1>0, <1>2, <2>1, <3>1, GetOther
    <3> QED
      BY <3>1, <3>2 DEF out, got2, ir, n, cr
  <2> QED
    BY <2>2, <2>3
<1>13. PairsOK'
  <2> SUFFICES ASSUME NEW a \in Proc, NEW b \in Proc
               PROVE  PairOK(prog, pos[a], a, b, inst[a], inst[b], Out(a)', Got(b)', net'[a][b])
    BY <1>9 DEF PairsOK
  <2>1. Out(a)' = Out(a)
    BY <1>10
  <2>2. CASE b # p
    <3>1. net'[a][b] = net[a][b]
      BY <1>7, <2>2
    <3> QED
      BY <1>0, <1>8, <2>1, <2>2, <3>1 DEF PairsOK
  <2> QED
    BY <1>12, <2>1, <2>2
<1>14. GhostOK'
  <2> SUFFICES ASSUME NEW r \in Proc, NEW e \in Cid, May(r, "DN", e)',
                      NEW b \in step'[r] \cap DOMAIN RecvInfo(r, e)'
               PROVE  ghost'[r][e][b] = Data(RecvInfo(r, e)'[b].proc, e, inst'[r][e].gen, b)
    BY DEF GhostOK
  <2>1. May(r, "DN", e) /\ RecvInfo(r, e)' = RecvInfo(r, e)
    BY <1>9 DEF May, At, Running, RecvInfo, bankVars
  <2>2. b \in 1..MaxDirs
    BY <1>0, <2>1, InfoInDirs DEF TInv, IsMap
  <2>3. /\ <<r, e, b>> # <<p, c, d>> => ghost'[r][e][b] = ghost[r][e][b]
        /\ ghost'[p][c][d] = x
    <3>1. IsGhost(ghost)
      BY <1>0 DEF TInv, PVMTypeOK, IsGhost
    <3> HIDE DEF x
    <3>2. Changed(ghost, ghost', p, c, d, x)
      BY <1>5 DEF Changed
    <3>3. OneChanged(ghost, ghost', p, c, d, x)
      BY <1>3, <3>1, <3>2, GhostChange
    <3> QED
      BY <1>3, <2>2, <3>3 DEF OneChanged
  <2>4. step'[p] = step[p] \cup {d} /\ \A a \in Proc : a # p => step'[a] = step[a]
    BY <1>0 DEF TInv, PVMTypeOK
  <2>7. /\ b \in DOMAIN RecvInfo(r, e) /\ inst'[r][e] = inst[r][e]
        /\ b \in step[r] => ghost[r][e][b] = Data(RecvInfo(r, e)[b].proc, e, inst[r][e].gen, b)
    BY <1>0, <1>9, <2>1 DEF GhostOK
  <2>5. CASE r # p
    <3>1. b \in step[r] /\ <<r, e, b>> # <<p, c, d>>
      BY <2>4, <2>5
    <3> QED
      BY <2>1, <2>3, <2>7, <3>1
  <2>6. CASE r = p
    <3>1. e = c
      BY <2>1, <2>6, OneCall DEF May
    <3>2. CASE b # d
      <4>1. b \in step[r] /\ <<r, e, b>> # <<p, c, d>>
        BY <2>4, <2>6, <3>2
      <4> QED
        BY <2>1, <2>3, <2>7, <4>1
    <3>3. CASE b = d
      BY <1>9, <2>1, <2>3, <2>6, <3>1, <3>3
    <3> QED
      BY <3>2, <3>3
  <2> QED
    BY <2>5, <2>6
<1> QED
  BY <1>4, <1>5, <1>8, <1>13, <1>14 DEF Changed

LEMMA StepPairs ==
  ASSUME NInv, NEW p \in Proc, Step(p)
  PROVE  BankStep(p) /\ StepOK' /\ PairsOK' /\ GhostOK'
<1>0. TInv /\ StepOK /\ Op = {"NEW", "DR", "SR", "DN", "OLD"}
  BY DEF NInv, Op
<1>1. BankStep(p)
  BY StepBank
<1> SUFFICES StepOK' /\ PairsOK' /\ GhostOK'
  BY <1>1
<1>2. ASSUME NEW o \in Op, NEW c \in Cid, Return(p, o, c), step' = [step EXCEPT ![p] = {}],
             net' = net, ghost' = ghost,
             o = "SR" => step[p] = DOMAIN SendInfo(p, c),
             o = "DN" => step[p] = DOMAIN RecvInfo(p, c)
      PROVE  StepOK' /\ PairsOK' /\ GhostOK'
  <2>1. StepOK' /\ GhostOK'
    BY <1>1, <1>2, RestFrame
  <2>2. PairsOK'
    BY <1>1, <1>2, ReturnPairs
  <2> QED
    BY <2>1, <2>2
<1>3. CASE New(p) \/ DR(p) \/ Old(p)
  <2>1. PICK o \in {"NEW", "DR", "OLD"}, c \in Cid : Return(p, o, c) /\ UNCHANGED <<step, net, ghost>>
    BY <1>3 DEF New, DR, Old
  <2>2. At(p, o, c) /\ o \notin {"SR", "DN"} /\ o \in Op
    BY <1>0, <2>1 DEF Return, May
  <2>3. step' = [step EXCEPT ![p] = {}]
    BY <1>0, <2>1, <2>2, NoStep
  <2> QED
    BY <1>2, <2>1, <2>2, <2>3
<1>4. CASE SRReturn(p)
  <2>1. PICK c \in Cid : /\ Return(p, "SR", c) /\ step[p] = DOMAIN SendInfo(p, c)
                         /\ step' = [step EXCEPT ![p] = {}] /\ UNCHANGED <<net, ghost>>
    BY <1>4 DEF SRReturn, AllSent
  <2>2. "SR" \in Op /\ "SR" # "DN"
    BY <1>0
  <2> QED
    BY <1>2, <2>1, <2>2
<1>5. CASE DNReturn(p)
  <2>1. PICK c \in Cid : /\ Return(p, "DN", c) /\ step[p] = DOMAIN RecvInfo(p, c)
                         /\ step' = [step EXCEPT ![p] = {}] /\ UNCHANGED <<net, ghost>>
    BY <1>5 DEF DNReturn, AllReceived
  <2>2. "DN" \in Op /\ "SR" # "DN"
    BY <1>0
  <2> QED
    BY <1>2, <2>1, <2>2
<1>6. CASE SRSend(p)
  BY <1>6, SendStep
<1>7. CASE DNRecv(p)
  <2>1. PICK c \in Cid : \E d \in DOMAIN RecvInfo(p, c) : Receives(p, c, d)
    BY <1>7, ReceivesIs
  <2>2. PICK d \in DOMAIN RecvInfo(p, c) : Receives(p, c, d)
    BY <2>1
  <2> QED
    BY <2>2, RecvStep
<1>8. CASE Loop(p)
  BY <1>8, LoopPairs
<1> QED
  BY <1>3, <1>4, <1>5, <1>6, <1>7, <1>8 DEF Step

LEMMA NextNInv == NInv /\ [Next]_vars => NInv'
<1> SUFFICES ASSUME NInv, [Next]_vars PROVE NInv'
  OBVIOUS
<1>0. TInv /\ LInv /\ OpenInv /\ DoneInv
  BY DEF NInv
<1>1. TInv' /\ LInv'
  BY <1>0, NextTInv, NextLInv
<1>2. CASE \E p \in Proc : Step(p)
  <2>1. PICK p \in Proc : Step(p)
    BY <1>2
  <2>2. BankStep(p) /\ StepOK' /\ PairsOK' /\ GhostOK'
    BY <2>1, StepPairs
  <2>3. OpenInv' /\ DoneInv'
    BY <1>0, <1>1, <2>2, StepOpen, StepDone
  <2> QED
    BY <1>1, <2>2, <2>3 DEF NInv
<1>3. CASE UNCHANGED vars
  <2>1. UNCHANGED <<prog, pos, inst, handle, commbank, step, net, ghost>>
    BY <1>3 DEF vars, callVars, bankVars
  <2>2. OpenInv'
    <3>1. \A p, c, m : OpenSince(p, c, m)' <=> OpenSince(p, c, m)
      BY <2>1 DEF OpenSince
    <3>2. \A p, c : RecvInfo(p, c)' = RecvInfo(p, c) /\ SendInfo(p, c)' = SendInfo(p, c)
      BY <2>1 DEF RecvInfo, SendInfo
    <3>3. \A p, c, m : InfoOf(p, c, m)' <=> InfoOf(p, c, m)
      BY <2>1, <3>2 DEF InfoOf
    <3> QED
      BY <1>0, <2>1, <3>1, <3>3 DEF OpenInv
  <2>3. DoneInv'
    BY <1>0, <2>1 DEF DoneInv
  <2>4. \A p, o, c : May(p, o, c)' <=> May(p, o, c)
    BY <2>1 DEF May, At, Running
  <2>5. \A p : Out(p)' = Out(p) /\ Got(p)' = Got(p)
    BY <2>1, <2>4 DEF Out, Got
  <2>6. StepOK'
    BY <2>1, <2>4 DEF NInv, StepOK
  <2>7. GhostOK'
    BY <2>1, <2>4 DEF NInv, GhostOK, RecvInfo
  <2>8. PairsOK'
    BY <2>1, <2>5 DEF NInv, PairsOK
  <2> QED
    BY <1>1, <2>2, <2>3, <2>6, <2>7, <2>8 DEF NInv
<1> QED
  BY <1>2, <1>3 DEF Next, Terminated

LEMMA SpecNInv == Spec => []NInv
  BY InitNInv, NextNInv, PTL DEF Spec

\* What PVM holds is for an instance that its receiver has not left: once all
\* have returned from OLD, PVM holds no message of the communication.
THEOREM PVMNoMessageLeft == Spec => []NoMessageLeft
<1>1. NInv => NoMessageLeft
  <2> SUFFICES ASSUME NInv, NEW p \in Proc, NEW q \in Proc, NEW i \in 1..Len(net[q][p])
               PROVE  LET val == net[q][p][i].val IN
                      /\ inst[p][val.cid].gen <= val.gen
                      /\ inst[p][val.cid].gen = val.gen => inst[p][val.cid].done # {}
    BY DEF NoMessageLeft
  <2> DEFINE x == net[q][p][i].val
  <2>1. x \in InFlight(prog, q, p, inst[q], inst[p], Out(q), Got(p))
    BY DEF NInv, PairsOK, PairOK, ChanOK
  <2> HIDE DEF x
  <2>2. x \in DataSet /\ PendIn(inst[p][x.cid], x, Got(p)[x.cid])
    BY <2>1 DEF InFlight
  <2>3. x.gen \in Nat /\ inst[p][x.cid].gen \in Nat
    BY <2>2 DEF DataSet, NInv, TInv, CallsInv, CallsTypeOK
  <2>4. /\ inst[p][x.cid].gen <= x.gen
        /\ inst[p][x.cid].gen = x.gen => inst[p][x.cid].done # {}
    BY <2>2, <2>3 DEF PendIn
  <2> QED
    BY <2>4 DEF x
<1> QED
  BY <1>1, SpecNInv, PTL

-----------------------------------------------------------------------------
\* A processor waits in DN only for one that has yet to make its SR: otherwise
\* the message is there.
LEMMA WaitsForSender ==
  ASSUME NInv, NEW p \in Proc, NEW q \in Proc, WaitsFor(p, q)
  PROVE  Undone(AwaitsSR(prog, p, pos[p] + 1), q)
<1>1. PICK c \in Cid : \E d \in DOMAIN RecvInfo(p, c) \ step[p] :
        /\ At(p, "DN", c) /\ RecvInfo(p, c)[d].proc = q
        /\ \A i \in 1..Len(net[q][p]) :
             ~FirstWithTag(p, q, RecvInfo(p, c)[d].dyn_commid, i)
  BY DEF WaitsFor
<1>2. PICK d \in DOMAIN RecvInfo(p, c) \ step[p] :
        /\ At(p, "DN", c) /\ RecvInfo(p, c)[d].proc = q
        /\ \A i \in 1..Len(net[q][p]) :
             ~FirstWithTag(p, q, RecvInfo(p, c)[d].dyn_commid, i)
  BY <1>1
<1> DEFINE x == Data(q, c, inst[p][c].gen, d)
<1>3. TInv /\ LInv /\ OpenInv /\ DoneInv /\ PairsOK
  BY DEF NInv
<1>4. May(p, "DN", c)
  BY <1>2, <1>3, AtIsMay DEF LInv, Op
<1>5. /\ "NEW" \in inst[p][c].done /\ inst[p][c].done # {"NEW"} /\ "DN" \notin inst[p][c].done
      /\ "DR" \in inst[p][c].done /\ inst[p][c].done # {}
  BY <1>4 DEF May, Required
<1>6. Edge(prog, q, p, x)
  BY <1>2, <1>3, <1>5, RecvEdge
<1>7. x.gen = inst[p][c].gen /\ x.cid = c /\ q = RecvInfo(p, c)[d].proc
  BY <1>2 DEF Data
<1>8. CASE ~SentIn(inst[q][c], x, Out(q)[c])
  <2> HIDE DEF x
  <2> QED
    BY <1>2, <1>3, <1>6, <1>7, <1>8, Behind
<1>9. CASE SentIn(inst[q][c], x, Out(q)[c])
  <2> DEFINE ch == net[q][p]
             out == Out(q)
             got == Got(p)
  <2>1. d \notin got[c] /\ d \in DOMAIN RecvInfo(p, c)
    BY <1>2 DEF Got
  <2>2. /\ PairOK(prog, pos[q], q, p, inst[q], inst[p], out, got, ch)
        /\ SentIn(inst[q][c], Data(q, c, inst[p][c].gen, d), out[c])
    BY <1>3, <1>9 DEF PairsOK
  <2> HIDE DEF ch, out, got
  <2>3. PICK i : FirstAt(ch, RecvInfo(p, c)[d].dyn_commid, i)
    <3>1. /\ LInv /\ OpenInv /\ p \in Proc /\ c \in Cid
          /\ "NEW" \in inst[p][c].done /\ inst[p][c].done # {"NEW"} /\ "DN" \notin inst[p][c].done
          /\ d \in DOMAIN RecvInfo(p, c) /\ q = RecvInfo(p, c)[d].proc
          /\ d \notin got[c]
          /\ PairOK(prog, pos[q], q, p, inst[q], inst[p], out, got, ch)
          /\ SentIn(inst[q][c], Data(q, c, inst[p][c].gen, d), out[c])
      BY <1>3, <1>5, <1>7, <2>1, <2>2
    <3> QED
      BY <3>1, OwnIsFirst
  <2>4. i \in 1..Len(net[q][p]) /\ FirstWithTag(p, q, RecvInfo(p, c)[d].dyn_commid, i)
    BY <2>3 DEF FirstAt, FirstWithTag, ch
  <2> QED
    BY <1>2, <2>4
<1> QED
  BY <1>8, <1>9

\* There is no cycle of waits over PVM, if the programs make none themselves, as
\* no program without pipelined loops does: what is waited for is yet to be
\* sent, and a processor furthest behind in the order of the program waits for
\* nobody.
THEOREM PVMNoCycleOfWaits ==
  ASSUME \A pr \in Programs : Runnable(pr) \/ Plain(pr)
  PROVE  Spec => []NoCycleOfWaits
<1>1. NInv => NoCycleOfWaits
  <2> SUFFICES ASSUME NInv, NEW S \in SUBSET {p \in Proc : Running(p)}, S # {}
               PROVE  \E p \in S : \A q \in Proc : WaitsFor(p, q) => Running(q) /\ q \notin S
    BY DEF NoCycleOfWaits
  <2> DEFINE W == [p \in Proc |-> [n \in 1..Len(prog.calls) |-> AwaitsSR(prog, p, n)]]
  <2>1. CallsInv /\ LInv
    BY DEF NInv, LInv
  <2>2. prog \in Programs /\ \A p \in Proc : Running(p) => pos[p] + 1 \in 1..Len(prog.calls)
    BY <2>1, CallsTyped DEF CallsInv, Running
  <2>3. NoneStuck(prog, W)
    <3>1. CASE Runnable(prog)
      BY <3>1 DEF Runnable
    <3>2. CASE Plain(prog)
      <4>1. \A p \in Proc : \A n \in 1..Len(prog.calls) : \A x \in W[p][n] :
              x[1] \in Proc /\ \E m \in x[2] : m \in Nat /\ m < n
        BY <2>2, <3>2, PlainAwaits
      <4> HIDE DEF W
      <4> QED
        BY <2>2, <4>1, BehindRuns
    <3> QED
      BY <2>2, <3>1, <3>2
  <2>4. \A p \in S : W[p][pos[p] + 1] = AwaitsSR(prog, p, pos[p] + 1)
    BY <2>2
  <2> HIDE DEF W
  <2>5. PICK p \in S : \A q \in Proc : Undone(W[p][pos[p] + 1], q) => Running(q) /\ q \notin S
    BY <2>1, <2>3, SomeoneFree
  <2> QED
    BY <2>4, <2>5, WaitsForSender
<1> QED
  BY <1>1, SpecNInv, PTL

-----------------------------------------------------------------------------
\* The directions sent, as the abstract specification sees them.
Sending == [p \in Proc |-> IF AtOp(p, "SR") THEN step[p] ELSE {}]

\* Between calls nothing is being sent, and receiving is not sending.
LEMMA SendingSame ==
  ASSUME NInv, NEW p \in Proc, prog' = prog,
         \A r \in Proc : r # p => pos'[r] = pos[r] /\ step'[r] = step[r],
         ~AtOp(p, "SR") \/ step[p] = {}, ~AtOp(p, "SR")' \/ step'[p] = {}
  PROVE  Sending' = Sending
<1>1. ASSUME NEW r \in Proc, r # p PROVE AtOp(r, "SR")' <=> AtOp(r, "SR")
  BY <1>1 DEF AtOp, At, Running
<1> QED
  BY <1>1 DEF Sending

LEMMA AbstractReturn ==
  ASSUME NEW p, NEW o, NEW c
  PROVE  /\ Return(p, o, c) => Abstract!Return(p, o, c)
         /\ May(p, o, c) => Abstract!May(p, o, c)
BY DEF Return, May, At, Running, Gen, Required, Abstract!Return, Abstract!May, Abstract!At,
       Abstract!Running, Abstract!Gen, Abstract!Required

LEMMA AbstractSkip ==
  ASSUME NEW p, SkipTile(p)
  PROVE  Abstract!SkipTile(p)
<1>1. \A c, n : Abstract!GenAfter(p, c, n) = GenAfter(p, c, n) /\ Abstract!Begun(p, c, n) = Begun(p, c, n)
  <2>1. \A S : Abstract!Cardinality(S) = Cardinality(S)
    BY Zenon DEF Cardinality, Abstract!Cardinality
  <2>2. \A c, n : Abstract!Begun(p, c, n) = Begun(p, c, n)
    BY DEF Begun, Abstract!Begun
  <2> QED
    BY <2>1, <2>2 DEF GenAfter, Abstract!GenAfter
<1>2. \A r, ds : Abstract!SendDirs(r, ds) = SendDirs(r, ds) /\ Abstract!RecvDirs(r, ds) = RecvDirs(r, ds)
  BY DEF SendDirs, RecvDirs, Abstract!SendDirs, Abstract!RecvDirs
<1>3. \A o : Abstract!AtOp(p, o) <=> AtOp(p, o)
  BY DEF AtOp, At, Running, Abstract!AtOp, Abstract!At, Abstract!Running
<1>4. ASSUME NEW n, SkipTo(p, n) PROVE Abstract!SkipTo(p, n)
  <2>1. [c \in Cid |-> [done |-> inst[p][c].done, gen |-> Abstract!GenAfter(p, c, n)]]
          = [c \in Cid |-> [done |-> inst[p][c].done, gen |-> GenAfter(p, c, n)]]
    BY <1>1
  <2>2. inst' = [inst EXCEPT ![p] =
          [c \in Cid |-> [done |-> inst[p][c].done, gen |-> Abstract!GenAfter(p, c, n)]]]
    BY <1>4, <2>1, Zenon DEF SkipTo
  <2>3. /\ pos[p] > 0 /\ prog.calls[pos[p]][1] \in Abstract!LoopOp
        /\ Abstract!AtOp(p, "NEW")
        /\ prog.calls[n][1] = "POST"
        /\ \A i \in (pos[p] + 1)..(n - 1) : prog.calls[i][1] \notin Abstract!LoopOp
        /\ pos' = [pos EXCEPT ![p] = n]
        /\ UNCHANGED prog
    BY <1>3, <1>4, Zenon DEF SkipTo, LoopOp, Abstract!LoopOp
  <2>4. ASSUME NEW c \in Cid
        PROVE  /\ Abstract!Begun(p, c, n) # {} => inst[p][c].done = {}
               /\ \A g \in (inst[p][c].gen + 1)..Abstract!GenAfter(p, c, n) :
                    /\ g \in DOMAIN prog.dirs[c]
                    /\ Abstract!SendDirs(p, prog.dirs[c][g]) = {}
                    /\ Abstract!RecvDirs(p, prog.dirs[c][g]) = {}
    <3>1. /\ Begun(p, c, n) # {} => inst[p][c].done = {}
          /\ \A g \in (inst[p][c].gen + 1)..GenAfter(p, c, n) :
               /\ g \in DOMAIN prog.dirs[c]
               /\ SendDirs(p, prog.dirs[c][g]) = {}
               /\ RecvDirs(p, prog.dirs[c][g]) = {}
      BY <1>4 DEF SkipTo
    <3>2. Abstract!GenAfter(p, c, n) = GenAfter(p, c, n) /\ Abstract!Begun(p, c, n) = Begun(p, c, n)
      BY <1>1
    <3> QED
      BY <1>2, <3>1, <3>2
  <2> QED
    BY <2>2, <2>3, <2>4, Zenon DEF Abstract!SkipTo
<1> QED
  BY <1>4 DEF SkipTile, Abstract!SkipTile

LEMMA AbstractPass ==
  ASSUME NEW p, NEW o, Pass(p, o)
  PROVE  Abstract!Pass(p, o)
BY DEF Pass, AtOp, At, Running, Abstract!Pass, Abstract!AtOp, Abstract!At, Abstract!Running

LEMMA InitAbstract == Init => Abstract!Init
<1> SUFFICES ASSUME Init PROVE Abstract!Init
  OBVIOUS
<1>1. Abstract!InitCalls
  BY DEF Init, InitCalls, Abstract!InitCalls
<1>2. Sending = [p \in Proc |-> {}]
  BY DEF Init, Sending
<1> QED
  BY <1>1, <1>2 DEF Init, Abstract!Init, Sending

LEMMA LocalAbstract ==
  ASSUME NInv, NEW p \in Proc, New(p) \/ DR(p) \/ Old(p) \/ Loop(p)
  PROVE  Abstract!Local(p)
<1>0. TInv /\ LInv /\ StepOK /\ step \in [Proc -> SUBSET (1..MaxDirs)]
  BY DEF NInv, TInv, PVMTypeOK
<1>1. /\ step' = step /\ ghost' = ghost
      /\ \/ \E c \in Cid, o \in {"NEW", "DR", "OLD"} : Return(p, o, c)
         \/ \E o \in LoopOp : Pass(p, o)
         \/ SkipTile(p)
  BY DEF New, DR, Old, Loop, LoopInit, LoopPost, LoopOp
<1>2. BankStep(p)
  BY DEF BankStep, New, DR, Old, Loop, Op
<1>3. /\ prog' = prog
      /\ \A r \in Proc : r # p => pos'[r] = pos[r] /\ inst'[r] = inst[r]
  BY <1>0, <1>2, OthersKeep
<1>4. \E o, c : At(p, o, c) /\ o \notin {"SR", "DN"}
  BY <1>1 DEF Return, May, Pass, SkipTile, SkipTo, AtOp, LoopOp
<1>5. step[p] = {}
  BY <1>0, <1>4, NoStep
<1>6. Sending' = Sending
  BY <1>1, <1>3, <1>5, SendingSame
<1>7. \/ \E c \in Cid, o \in {"NEW", "DR", "OLD"} : Abstract!Return(p, o, c)
      \/ \E o \in LoopOp : Abstract!Pass(p, o)
      \/ Abstract!SkipTile(p)
  BY <1>1, AbstractReturn, AbstractPass, AbstractSkip
<1> QED
  BY <1>1, <1>6, <1>7 DEF Sending, Abstract!Local, LoopOp, Abstract!LoopOp

LEMMA SendAbstract ==
  ASSUME NInv, NEW p \in Proc, SRSend(p)
  PROVE  Abstract!Send(p)
<1>0. LInv /\ OpenInv /\ step \in [Proc -> SUBSET (1..MaxDirs)]
  BY DEF NInv, TInv, PVMTypeOK
<1>1. PICK c \in Cid : \E d \in DOMAIN SendInfo(p, c) :
        /\ May(p, "SR", c)
        /\ IsNext(d, DOMAIN SendInfo(p, c) \ step[p])
        /\ step' = [step EXCEPT ![p] = @ \cup {d}]
        /\ UNCHANGED <<prog, pos, inst, ghost>>
  BY DEF SRSend, callVars
<1>2. PICK d \in DOMAIN SendInfo(p, c) :
        /\ May(p, "SR", c) /\ d \notin step[p]
        /\ step' = [step EXCEPT ![p] = @ \cup {d}]
        /\ UNCHANGED <<prog, pos, inst, ghost>>
  BY <1>1 DEF IsNext
<1>3. inst[p][c].done # {} /\ AtOp(p, "SR")
  BY <1>2 DEF May, Required, AtOp
<1>4. d \in SendDirs(p, prog.dirs[c][inst[p][c].gen])
  BY <1>0, <1>3, OpenDirs
<1>5. Abstract!SendDirs(p, Abstract!Dirs(p, c)) = SendDirs(p, prog.dirs[c][inst[p][c].gen])
  <2>1. ~Abstract!At(p, "NEW", c)
    BY <1>2 DEF May, At, Abstract!At
  <2>2. Abstract!Dirs(p, c) = prog.dirs[c][inst[p][c].gen]
    BY <2>1 DEF Abstract!Dirs, Abstract!Gen
  <2> QED
    BY <2>2 DEF SendDirs, Abstract!SendDirs
<1>6. \A r : AtOp(r, "SR")' <=> AtOp(r, "SR")
  BY <1>2 DEF AtOp, At, Running
<1>7. Sending' = [Sending EXCEPT ![p] = @ \cup {d}] /\ d \notin Sending[p]
  BY <1>0, <1>2, <1>3, <1>6 DEF Sending
<1>8. Abstract!May(p, "SR", c)
  BY <1>2, AbstractReturn
<1> QED
  BY <1>2, <1>4, <1>5, <1>7, <1>8 DEF Abstract!Send, Sending

LEMMA SentAbstract ==
  ASSUME NInv, NEW p \in Proc, SRReturn(p)
  PROVE  Abstract!SentAll(p)
<1>0. LInv /\ OpenInv /\ step \in [Proc -> SUBSET (1..MaxDirs)]
  BY DEF NInv, TInv, PVMTypeOK
<1>1. PICK c \in Cid : /\ Return(p, "SR", c) /\ step[p] = DOMAIN SendInfo(p, c)
                       /\ step' = [step EXCEPT ![p] = {}] /\ UNCHANGED <<bankVars, net, ghost>>
  BY DEF SRReturn, AllSent
<1>2. inst[p][c].done # {} /\ AtOp(p, "SR")
  BY <1>1 DEF Return, May, Required, AtOp
<1>3. step[p] = SendDirs(p, prog.dirs[c][inst[p][c].gen])
  BY <1>0, <1>1, <1>2, OpenDirs
<1>4. Abstract!SendDirs(p, Abstract!Dirs(p, c)) = SendDirs(p, prog.dirs[c][inst[p][c].gen])
  <2>1. ~Abstract!At(p, "NEW", c)
    BY <1>1 DEF Return, May, At, Abstract!At
  <2>2. Abstract!Dirs(p, c) = prog.dirs[c][inst[p][c].gen]
    BY <2>1 DEF Abstract!Dirs, Abstract!Gen
  <2> QED
    BY <2>2 DEF SendDirs, Abstract!SendDirs
<1>5. BankStep(p)
  BY <1>1 DEF BankStep, Op
<1>6. /\ prog' = prog
      /\ \A r \in Proc : r # p => pos'[r] = pos[r]
  BY <1>0, <1>5, OthersKeep
<1>7. \A r \in Proc : r # p => (AtOp(r, "SR")' <=> AtOp(r, "SR"))
  BY <1>6 DEF AtOp, At, Running
<1>8. Sending' = [Sending EXCEPT ![p] = {}] /\ Sending[p] = step[p]
  BY <1>0, <1>1, <1>2, <1>7 DEF Sending
<1>9. Abstract!Return(p, "SR", c)
  BY <1>1, AbstractReturn
<1> QED
  BY <1>1, <1>3, <1>4, <1>8, <1>9 DEF Abstract!SentAll, Sending

LEMMA NeededAbstract ==
  ASSUME NInv, NEW p \in Proc, DNReturn(p)
  PROVE  Abstract!Needed(p)
<1>0. LInv /\ OpenInv /\ GhostOK /\ step \in [Proc -> SUBSET (1..MaxDirs)]
  BY DEF NInv, TInv, PVMTypeOK
<1>1. PICK c \in Cid : /\ Return(p, "DN", c) /\ step[p] = DOMAIN RecvInfo(p, c)
                       /\ step' = [step EXCEPT ![p] = {}] /\ UNCHANGED <<bankVars, net, ghost>>
  BY DEF DNReturn, AllReceived
<1>2. inst[p][c].done # {} /\ May(p, "DN", c)
  BY <1>1 DEF Return, May, Required
<1> DEFINE ds == prog.dirs[c][inst[p][c].gen]
<1>3. DOMAIN RecvInfo(p, c) = RecvDirs(p, ds)
  BY <1>0, <1>2, OpenDirs
<1>4. ASSUME NEW d \in RecvDirs(p, ds)
      PROVE  ghost[p][c][d] = Data(Source(p, ds, d), c, inst[p][c].gen, d)
  <2>1. d \in DOMAIN RecvInfo(p, c) /\ d \in step[p]
    BY <1>1, <1>3
  <2>2. RecvInfo(p, c)[d].proc = Source(p, ds, d)
    BY <1>0, <1>2, <2>1, RecvSource
  <2> QED
    BY <1>0, <1>2, <2>1, <2>2 DEF GhostOK
<1>5. /\ Abstract!Current(p, c) = ds /\ Abstract!RecvDirs(p, ds) = RecvDirs(p, ds)
      /\ \A d : Abstract!Expected(p, c, d) = Data(Source(p, ds, d), c, inst[p][c].gen, d)
  BY DEF Abstract!Current, Abstract!RecvDirs, RecvDirs, Abstract!Expected, Abstract!Data, Data,
         Abstract!Source, Source
<1>6. \A d \in Abstract!RecvDirs(p, Abstract!Current(p, c)) :
        ghost[p][c][d] = Abstract!Expected(p, c, d)
  BY <1>4, <1>5
<1>7. BankStep(p)
  BY <1>1 DEF BankStep, Op
<1>8. prog' = prog /\ \A r \in Proc : r # p => pos'[r] = pos[r]
  BY <1>0, <1>7, OthersKeep
<1>9. step'[p] = {} /\ \A r \in Proc : r # p => step'[r] = step[r]
  BY <1>0, <1>1
<1>10. ~AtOp(p, "SR")
  BY <1>2, OneCall DEF May, AtOp
<1>11. Sending' = Sending
  BY <1>8, <1>9, <1>10, SendingSame
<1>12. Abstract!Return(p, "DN", c)
  BY <1>1, AbstractReturn
<1> QED
  BY <1>1, <1>6, <1>11, <1>12 DEF Abstract!Needed, Sending

LEMMA ArriveAbstract ==
  ASSUME NInv, NEW p \in Proc, DNRecv(p)
  PROVE  Abstract!Arrive(p) \/ UNCHANGED <<prog, pos, inst, Sending, ghost>>
<1>0. LInv /\ OpenInv /\ step \in [Proc -> SUBSET (1..MaxDirs)]
      /\ ghost \in [Proc -> [Cid -> [1..MaxDirs -> DataSet \cup {NoData}]]]
  BY DEF NInv, TInv, PVMTypeOK
<1>1. PICK c \in Cid : \E d \in DOMAIN RecvInfo(p, c) : Receives(p, c, d)
  BY ReceivesIs
<1>2. PICK d \in DOMAIN RecvInfo(p, c) : Receives(p, c, d)
  BY <1>1
<1> DEFINE q == RecvInfo(p, c)[d].proc
           x == Data(q, c, inst[p][c].gen, d)
           ds == prog.dirs[c][inst[p][c].gen]
<1>3. /\ May(p, "DN", c) /\ step' = [step EXCEPT ![p] = @ \cup {d}]
      /\ UNCHANGED <<prog, pos, inst>>
  BY <1>2 DEF Receives, callVars
<1>4. q = RecvInfo(p, c)[d].proc
  OBVIOUS
<1>5. inst[p][c].done # {} /\ "DR" \in inst[p][c].done /\ "DN" \notin inst[p][c].done
  BY <1>3 DEF May, Required
<1>6. q \in Proc /\ q = Source(p, ds, d) /\ RecvDirs(p, ds) = DOMAIN RecvInfo(p, c)
  BY <1>0, <1>5, RecvEdge
<1> HIDE DEF q
<1>7. /\ SentIn(inst[q][c], x, Out(q)[c])
      /\ Changed(ghost, ghost', p, c, d, x)
  BY <1>2, <1>4, RecvStep
<1>8. ghost' = [ghost EXCEPT ![p][c][d] = x]
  BY <1>7 DEF Changed
<1>9. Sending' = Sending
  <2>1. ~AtOp(p, "SR") /\ ~AtOp(p, "SR")'
    BY <1>3, OneCall DEF May, AtOp, At, Running
  <2>2. \A r \in Proc : r # p => pos'[r] = pos[r] /\ step'[r] = step[r]
    BY <1>0, <1>3
  <2> QED
    BY <1>3, <2>1, <2>2, SendingSame
<1>10. /\ Abstract!Current(p, c) = ds /\ Abstract!RecvDirs(p, ds) = RecvDirs(p, ds)
       /\ Abstract!Expected(p, c, d) = x /\ Abstract!Source(p, ds, d) = q
  BY <1>6 DEF Abstract!Current, Abstract!RecvDirs, RecvDirs, Abstract!Expected, Abstract!Data,
              Data, Abstract!Source, Source
<1>11. Abstract!HasSent(q, c, inst[p][c].gen, d)
  <2>1. x.gen = inst[p][c].gen /\ x.dir = d
    BY DEF Data
  <2>2. \/ inst[q][c].gen > inst[p][c].gen
        \/ /\ inst[q][c].gen = inst[p][c].gen
           /\ inst[q][c].done = {} \/ "SR" \in inst[q][c].done \/ d \in Out(q)[c]
    BY <1>7, <2>1 DEF SentIn
  <2>3. d \in Out(q)[c] => Abstract!May(q, "SR", c) /\ d \in Sending[q]
    <3>1. d \in Out(q)[c] => May(q, "SR", c) /\ d \in step[q]
      BY DEF Out
    <3>2. May(q, "SR", c) => AtOp(q, "SR")
      BY DEF May, AtOp
    <3> QED
      BY <1>6, <3>1, <3>2, AbstractReturn DEF Sending
  <2> QED
    BY <2>2, <2>3 DEF Abstract!HasSent, Sending
<1>12. Abstract!Open(p, c)
  BY <1>5 DEF Abstract!Open
<1>13. CASE ghost[p][c][d] # x
  BY <1>3, <1>6, <1>8, <1>9, <1>10, <1>11, <1>12, <1>13 DEF Abstract!Arrive, Sending
<1>14. CASE ghost[p][c][d] = x
  <2>1. ghost' = ghost
    BY <1>0, <1>8, <1>14
  <2> QED
    BY <1>3, <1>9, <2>1
<1> QED
  BY <1>13, <1>14

\* IRONMAN over PVM implements the interface: a ghost area receives what the
\* neighbour sent for the same instance, between DR and DN, and DN returns only
\* when all of it is there.
THEOREM PVMRefines == Spec => Refines
<1>1. ASSUME NInv, [Next]_vars
      PROVE  [Abstract!Next]_<<prog, pos, inst, Sending, ghost>>
  <2>1. CASE \E p \in Proc : Step(p)
    <3>1. PICK p \in Proc : Step(p)
      BY <2>1
    <3>2. Abstract!Step(p) \/ UNCHANGED <<prog, pos, inst, Sending, ghost>>
      BY <1>1, <3>1, LocalAbstract, SendAbstract, SentAbstract, NeededAbstract, ArriveAbstract
         DEF Step, Abstract!Step
    <3> QED
      BY <3>2 DEF Abstract!Next
  <2>2. CASE UNCHANGED vars
    <3>1. \A p : AtOp(p, "SR")' <=> AtOp(p, "SR")
      BY <2>2 DEF vars, callVars, AtOp, At, Running
    <3> QED
      BY <2>2, <3>1 DEF vars, callVars, Sending
  <2> QED
    BY <1>1, <2>1, <2>2 DEF Next, Terminated
<1>2. NInv /\ [Next]_vars => [Abstract!Next]_Abstract!vars
  BY <1>1 DEF Abstract!vars, Sending
<1> QED
  BY <1>2, InitAbstract, SpecNInv, PTL DEF Spec, Refines, Abstract!Spec
=============================================================================
