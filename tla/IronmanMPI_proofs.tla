------------------------- MODULE IronmanMPI_proofs --------------------------
(***************************************************************************)
(* Proofs about IRONMAN over MPI, for every program, grid, number of       *)
(* directions and size of the bank: typing, the ownership of descriptors,  *)
(* that all processors draw the same ids, that no receive is outstanding   *)
(* on a descriptor that is free, that outstanding receives from the same   *)
(* source have different tags, that nobody waits in a circle, and that it  *)
(* implements the interface.                                               *)
(***************************************************************************)
EXTENDS IronmanMPI, IronmanBank_proofs

\* The directions a loop of SR or DN handled belong to the call p is in.
StepOK(p) ==
  step[p] # {} =>
    \E c \in Cid : \/ May(p, "SR", c) /\ step[p] \subseteq DOMAIN SendInfo(p, c)
                   \/ May(p, "DN", c) /\ step[p] \subseteq DOMAIN RecvInfo(p, c)

\* A receive is outstanding or unread in direction d of descriptor s only for
\* the communication that holds s, between its DR and the turn of d in its DN.
Waiting(p, c, d) ==
  /\ InUse(p, c)
  /\ "DR" \in inst[p][c].done /\ "DN" \notin inst[p][c].done
  /\ d \in DOMAIN RecvInfo(p, c)
  /\ ~(At(p, "DN", c) /\ d \in step[p])

RequestsOK(p) ==
  \A s \in Slot, d \in 1..MaxDirs :
    recvreq[p][s][d].st # "null" =>
      \E c \in Cid : handle[p][c] = s /\ Waiting(p, c, d)

MPITypeOK ==
  /\ recvreq \in [Proc -> [Slot -> [1..MaxDirs -> Request]]]
  /\ step \in [Proc -> SUBSET (1..MaxDirs)]
  /\ net \in [Proc -> [Proc -> Seq(Message)]]
  /\ ghost \in [Proc -> [Cid -> [1..MaxDirs -> DataSet \cup {NoData}]]]

TInv == CallsInv /\ BankInv /\ MPITypeOK

-----------------------------------------------------------------------------
LEMMA InitTInv == Init => TInv
<1> SUFFICES ASSUME Init PROVE TInv
  OBVIOUS
<1>1. CallsInv /\ BankInv
  BY InitCallsInv, InitBankInv DEF Init
<1>2. NullRequest \in Request
  BY DEF NullRequest, Request
<1>3. MPITypeOK
  BY <1>2 DEF Init, MPITypeOK
<1> QED
  BY <1>1, <1>3 DEF TInv

LEMMA StepTInv ==
  ASSUME TInv, NEW p \in Proc, Step(p) \/ Match(p)
  PROVE  TInv'
<1>0. CallsInv /\ BankInv /\ MPITypeOK
  BY DEF TInv
<1>1. CASE New(p)
  <2>1. PICK c \in Cid : /\ Return(p, "NEW", c) /\ NewDescriptor(p, c)
                         /\ UNCHANGED <<recvreq, step, net, ghost>>
    BY <1>1 DEF New
  <2>2. CallsInv' /\ BankInv'
    BY <1>0, <2>1, CallsStep, NewBank DEF Op
  <2> QED
    BY <1>0, <2>1, <2>2 DEF TInv, MPITypeOK
<1>2. CASE DR(p)
  <2>1. PICK c \in Cid :
          /\ Return(p, "DR", c)
          /\ recvreq' = [recvreq EXCEPT ![p] = [s \in Slot |-> [d \in 1..MaxDirs |->
               IF s = handle[p][c] /\ d \in Posted(p, c)
               THEN [st |-> "active", val |-> NoData] ELSE @[s][d]]]]
          /\ UNCHANGED <<bankVars, step, net, ghost>>
    BY <1>2 DEF DR
  <2>2. CallsInv' /\ BankInv'
    BY <1>0, <2>1, CallsStep, KeepBank DEF Op
  <2>3. [st |-> "active", val |-> NoData] \in Request
    BY DEF Request
  <2>4. recvreq' \in [Proc -> [Slot -> [1..MaxDirs -> Request]]]
    <3> DEFINE entry(s, d) ==
                 IF s = handle[p][c] /\ d \in Posted(p, c)
                 THEN [st |-> "active", val |-> NoData] ELSE recvreq[p][s][d]
               row == [s \in Slot |-> [d \in 1..MaxDirs |-> entry(s, d)]]
    <3>1. \A s \in Slot, d \in 1..MaxDirs : entry(s, d) \in Request
      <4> SUFFICES ASSUME NEW s \in Slot, NEW d \in 1..MaxDirs
                   PROVE  entry(s, d) \in Request
        OBVIOUS
      <4>1. recvreq[p][s][d] \in Request
        <5>1. recvreq \in [Proc -> [Slot -> [1..MaxDirs -> Request]]]
          BY <1>0 DEF MPITypeOK
        <5>2. recvreq[p][s] \in [1..MaxDirs -> Request]
          BY <5>1
        <5> QED
          BY <5>2
      <4> QED
        BY <2>3, <4>1
    <3>2. row \in [Slot -> [1..MaxDirs -> Request]]
      <4> HIDE DEF entry
      <4> QED
        BY <3>1
    <3>3. recvreq' = [recvreq EXCEPT ![p] = row]
      BY <2>1
    <3> QED
      BY <1>0, <3>2, <3>3 DEF MPITypeOK
  <2> QED
    BY <1>0, <2>1, <2>2, <2>4 DEF TInv, MPITypeOK
<1>3. CASE SRSend(p)
  <2>0. PICK c \in Cid : \E d \in DOMAIN SendInfo(p, c) \ step[p], wait \in BOOLEAN :
          /\ net' = [net EXCEPT ![p][SendInfo(p, c)[d].proc] = Append(@,
               [tag |-> SendInfo(p, c)[d].dyn_commid, sync |-> wait,
                val |-> Data(p, SendInfo(p, c)[d].area,
                             inst[p][SendInfo(p, c)[d].area].gen, d)])]
          /\ step' = [step EXCEPT ![p] = @ \cup {d}]
          /\ UNCHANGED <<callVars, bankVars, recvreq, ghost>>
    BY <1>3 DEF SRSend
  <2>1. PICK d \in DOMAIN SendInfo(p, c) \ step[p], wait \in BOOLEAN :
          /\ net' = [net EXCEPT ![p][SendInfo(p, c)[d].proc] = Append(@,
               [tag |-> SendInfo(p, c)[d].dyn_commid, sync |-> wait,
                val |-> Data(p, SendInfo(p, c)[d].area,
                             inst[p][SendInfo(p, c)[d].area].gen, d)])]
          /\ step' = [step EXCEPT ![p] = @ \cup {d}]
          /\ UNCHANGED <<callVars, bankVars, recvreq, ghost>>
    BY <2>0
  <2> DEFINE info == SendInfo(p, c)[d]
             msg == [tag |-> info.dyn_commid, sync |-> wait,
                     val |-> Data(p, info.area, inst[p][info.area].gen, d)]
  <2>2. d \in 1..MaxDirs /\ info \in PerComm
    BY <1>0, InfoInDirs DEF IsMap
  <2> HIDE DEF info
  <2>3. info.proc \in Proc /\ info.area \in Cid /\ info.dyn_commid \in DynId
    BY <2>2 DEF PerComm
  <2>4. inst[p][info.area].gen \in Nat
    BY <1>0, <2>3 DEF CallsInv, CallsTypeOK
  <2>5. msg \in Message
    BY <2>2, <2>3, <2>4, DataType DEF Message
  <2>6. net' = [net EXCEPT ![p][info.proc] = Append(@, msg)]
    BY <2>1 DEF info
  <2> HIDE DEF msg
  <2>7. net' \in [Proc -> [Proc -> Seq(Message)]]
    <3>1. Append(net[p][info.proc], msg) \in Seq(Message)
      BY <1>0, <2>3, <2>5 DEF MPITypeOK
    <3> QED
      BY <1>0, <2>3, <2>6, <3>1 DEF MPITypeOK
  <2>8. CallsInv' /\ BankInv'
    BY <1>0, <2>1, CallsStep, StillBank
  <2> QED
    BY <1>0, <2>1, <2>2, <2>7, <2>8 DEF TInv, MPITypeOK
<1>4. CASE SRReturn(p) \/ DNReturn(p)
  <2>1. PICK c \in Cid, o \in {"SR", "DN"} :
          /\ Return(p, o, c) /\ step' = [step EXCEPT ![p] = {}]
          /\ UNCHANGED <<bankVars, recvreq, net, ghost>>
    BY <1>4 DEF SRReturn, DNReturn
  <2>2. CallsInv' /\ BankInv'
    BY <1>0, <2>1, CallsStep, KeepBank DEF Op
  <2> QED
    BY <1>0, <2>1, <2>2 DEF TInv, MPITypeOK
<1>5. CASE DNWait(p)
  <2>0. PICK c \in Cid : \E d \in DOMAIN RecvInfo(p, c) \ step[p] :
          /\ ghost' = IF <<p, d>> \in Consecutive THEN ghost
                      ELSE [ghost EXCEPT ![p][RecvInfo(p, c)[d].area][d] =
                              recvreq[p][handle[p][c]][d].val]
          /\ recvreq' = [recvreq EXCEPT ![p][handle[p][c]][d] = NullRequest]
          /\ step' = [step EXCEPT ![p] = @ \cup {d}]
          /\ UNCHANGED <<callVars, bankVars, net>>
    BY <1>5 DEF DNWait
  <2>1. PICK d \in DOMAIN RecvInfo(p, c) \ step[p] :
          /\ ghost' = IF <<p, d>> \in Consecutive THEN ghost
                      ELSE [ghost EXCEPT ![p][RecvInfo(p, c)[d].area][d] =
                              recvreq[p][handle[p][c]][d].val]
          /\ recvreq' = [recvreq EXCEPT ![p][handle[p][c]][d] = NullRequest]
          /\ step' = [step EXCEPT ![p] = @ \cup {d}]
          /\ UNCHANGED <<callVars, bankVars, net>>
    BY <2>0
  <2> DEFINE info == RecvInfo(p, c)[d]
             s == handle[p][c]
  <2>2. d \in 1..MaxDirs /\ info \in PerComm
    BY <1>0, InfoInDirs DEF IsMap
  <2>3. s \in Slot
    <3>1. DOMAIN <<>> = {}
      OBVIOUS
    <3> QED
      BY <1>0, <3>1 DEF RecvInfo, BankInv, BankTypeOK
  <2>4. info.area \in Cid
    BY <2>2 DEF PerComm
  <2> HIDE DEF info, s
  <2>5. recvreq[p][s][d].val \in DataSet \cup {NoData}
    <3>1. recvreq \in [Proc -> [Slot -> [1..MaxDirs -> Request]]] /\ d \in 1..MaxDirs
      BY <1>0, <2>2 DEF MPITypeOK
    <3>2. recvreq[p][s][d] \in Request
      BY <2>3, <3>1, TableEntry
    <3> QED
      BY <3>2 DEF Request
  <2>6. ghost' \in [Proc -> [Cid -> [1..MaxDirs -> DataSet \cup {NoData}]]]
    <3>1. ghost' = ghost \/ ghost' = [ghost EXCEPT ![p][info.area][d] = recvreq[p][s][d].val]
      BY <2>1 DEF info, s
    <3>2. ghost \in [Proc -> [Cid -> [1..MaxDirs -> DataSet \cup {NoData}]]]
      BY <1>0 DEF MPITypeOK
    <3>3. d \in 1..MaxDirs
      BY <2>2
    <3>4. [ghost EXCEPT ![p][info.area][d] = recvreq[p][s][d].val]
            \in [Proc -> [Cid -> [1..MaxDirs -> DataSet \cup {NoData}]]]
      BY <2>4, <2>5, <3>2, <3>3, TableType
    <3> QED
      BY <3>1, <3>2, <3>4
  <2>7. recvreq' \in [Proc -> [Slot -> [1..MaxDirs -> Request]]]
    BY <1>0, <2>1, <2>2, <2>3 DEF MPITypeOK, NullRequest, Request, s
  <2>8. CallsInv' /\ BankInv'
    BY <1>0, <2>1, CallsStep, StillBank
  <2> QED
    BY <1>0, <2>1, <2>2, <2>6, <2>7, <2>8 DEF TInv, MPITypeOK
<1>6. CASE Old(p)
  <2>1. PICK c \in Cid : /\ Return(p, "OLD", c) /\ OldDescriptor(p, c)
                         /\ UNCHANGED <<recvreq, step, net, ghost>>
    BY <1>6 DEF Old
  <2>2. CallsInv' /\ BankInv'
    BY <1>0, <2>1, CallsStep, OldBank DEF Op
  <2> QED
    BY <1>0, <2>1, <2>2 DEF TInv, MPITypeOK
<1>7. CASE Loop(p)
  BY <1>0, <1>7, LoopBank DEF Loop, TInv, MPITypeOK
<1>8. CASE Match(p)
  <2>0. PICK q \in Proc, s \in Slot : \E d \in DOMAIN commbank[p][s].recvinfo :
        \E i \in 1..Len(net[q][p]) :
          /\ Matches(p, q, s, d, i)
          /\ recvreq' = [recvreq EXCEPT ![p][s][d] =
               [st |-> "complete", val |-> net[q][p][i].val]]
          /\ net' = [net EXCEPT ![q][p] =
               SubSeq(@, 1, i - 1) \o SubSeq(@, i + 1, Len(@))]
          /\ ghost' = IF <<p, d>> \in Consecutive
                      THEN [ghost EXCEPT ![p][commbank[p][s].recvinfo[d].area][d] =
                              net[q][p][i].val]
                      ELSE ghost
          /\ UNCHANGED <<callVars, bankVars, step>>
    BY <1>8, Zenon DEF Match
  <2>1. PICK d \in DOMAIN commbank[p][s].recvinfo, i \in 1..Len(net[q][p]) :
          /\ recvreq' = [recvreq EXCEPT ![p][s][d] =
               [st |-> "complete", val |-> net[q][p][i].val]]
          /\ net' = [net EXCEPT ![q][p] =
               SubSeq(@, 1, i - 1) \o SubSeq(@, i + 1, Len(@))]
          /\ ghost' = IF <<p, d>> \in Consecutive
                      THEN [ghost EXCEPT ![p][commbank[p][s].recvinfo[d].area][d] =
                              net[q][p][i].val]
                      ELSE ghost
          /\ UNCHANGED <<callVars, bankVars, step>>
    BY <2>0, Zenon
  <2> DEFINE info == commbank[p][s].recvinfo[d]
             val == net[q][p][i].val
  <2>2. d \in 1..MaxDirs /\ info \in PerComm
    BY <1>0 DEF IsMap, BankInv, BankTypeOK
  <2>3. info.area \in Cid
    BY <2>2 DEF PerComm
  <2>4. net[q][p] \in Seq(Message) /\ val \in DataSet
    <3>1. net[q][p] \in Seq(Message)
      BY <1>0 DEF MPITypeOK
    <3>2. net[q][p][i] \in Message
      BY <3>1
    <3> QED
      BY <3>1, <3>2 DEF Message
  <2> HIDE DEF info, val
  <2>5. ghost' \in [Proc -> [Cid -> [1..MaxDirs -> DataSet \cup {NoData}]]]
    <3>1. ghost' = ghost \/ ghost' = [ghost EXCEPT ![p][info.area][d] = val]
      BY <2>1 DEF info, val
    <3>2. ghost \in [Proc -> [Cid -> [1..MaxDirs -> DataSet \cup {NoData}]]]
      BY <1>0 DEF MPITypeOK
    <3>3. d \in 1..MaxDirs /\ val \in DataSet \cup {NoData}
      BY <2>2, <2>4
    <3>4. [ghost EXCEPT ![p][info.area][d] = val]
            \in [Proc -> [Cid -> [1..MaxDirs -> DataSet \cup {NoData}]]]
      BY <2>3, <3>2, <3>3, TableType
    <3> QED
      BY <3>1, <3>2, <3>4
  <2>6. recvreq' \in [Proc -> [Slot -> [1..MaxDirs -> Request]]]
    <3>1. [st |-> "complete", val |-> val] \in Request
      BY <2>4 DEF Request
    <3>2. recvreq' = [recvreq EXCEPT ![p][s][d] = [st |-> "complete", val |-> val]]
      BY <2>1 DEF val
    <3> QED
      BY <1>0, <2>2, <3>1, <3>2 DEF MPITypeOK
  <2>7. net' \in [Proc -> [Proc -> Seq(Message)]]
    <3> DEFINE ch == net[q][p]
    <3>1. SubSeq(ch, 1, i - 1) \in Seq(Message)
      BY <2>4
    <3>2. SubSeq(ch, i + 1, Len(ch)) \in Seq(Message)
      BY <2>4
    <3>3. SubSeq(ch, 1, i - 1) \o SubSeq(ch, i + 1, Len(ch)) \in Seq(Message)
      BY <3>1, <3>2
    <3> QED
      BY <1>0, <2>1, <3>3 DEF MPITypeOK
  <2>8. CallsInv' /\ BankInv'
    BY <1>0, <2>1, CallsStep, StillBank
  <2> QED
    BY <1>0, <2>1, <2>5, <2>6, <2>7, <2>8 DEF TInv, MPITypeOK
<1> QED
  BY <1>1, <1>2, <1>3, <1>4, <1>5, <1>6, <1>7, <1>8 DEF Step

LEMMA NextTInv == TInv /\ [Next]_vars => TInv'
<1> SUFFICES ASSUME TInv, [Next]_vars PROVE TInv'
  OBVIOUS
<1>1. CASE \E p \in Proc : Step(p) \/ Match(p)
  BY <1>1, StepTInv
<1>2. CASE UNCHANGED vars
  BY <1>2, CallsStep, StillBank DEF TInv, MPITypeOK, vars, CallsInv, CallsTypeOK, GenOK, OrderOK, callVars
<1> QED
  BY <1>1, <1>2 DEF Next, Terminated

\* The implementation over MPI is well typed: tags stay in their range, what
\* is in descriptors, requests, messages and ghost areas is what it should be.
THEOREM MPITyping == Spec => []TypeOK
<1>1. Spec => []TInv
  BY InitTInv, NextTInv, PTL DEF Spec
<1>2. TInv => TypeOK
  BY DEF TInv, CallsInv, BankInv, MPITypeOK, TypeOK
<1> QED
  BY <1>1, <1>2, PTL

\* Every descriptor belongs to one communication or is free, and NEW always
\* finds a free one, though the code does not check.
THEOREM MPIDescriptors == Spec => []DescriptorsOwned
<1>1. Spec => []TInv
  BY InitTInv, NextTInv, PTL DEF Spec
<1>2. TInv => DescriptorsOwned
  BY OwnedImplies DEF TInv
<1> QED
  BY <1>1, <1>2, PTL

-----------------------------------------------------------------------------
\* Every step does to ids and descriptors what BankStep says.
LEMMA StepBank ==
  ASSUME NEW p \in Proc, Step(p) \/ Match(p)
  PROVE  BankStep(p)
<1>1. CASE New(p)
  BY <1>1 DEF New, BankStep
<1>2. CASE \E c \in Cid, o \in {"DR", "SR", "DN"} : Return(p, o, c) /\ UNCHANGED bankVars
  BY <1>2 DEF BankStep
<1>3. CASE Old(p)
  BY <1>3 DEF Old, BankStep
<1>4. CASE Loop(p)
  BY <1>4 DEF Loop, BankStep
<1>5. CASE UNCHANGED <<callVars, bankVars>>
  BY <1>5 DEF BankStep
<1>6. DR(p) \/ SRReturn(p) \/ DNReturn(p) =>
        \E c \in Cid, o \in {"DR", "SR", "DN"} : Return(p, o, c) /\ UNCHANGED bankVars
  BY DEF DR, SRReturn, DNReturn
<1>7. SRSend(p) \/ DNWait(p) \/ Match(p) => UNCHANGED <<callVars, bankVars>>
  <2>1. SRSend(p) => UNCHANGED <<callVars, bankVars>>
    BY DEF SRSend
  <2>2. DNWait(p) => UNCHANGED <<callVars, bankVars>>
    BY DEF DNWait
  <2>3. Match(p) => UNCHANGED <<callVars, bankVars>>
    BY DEF Match
  <2> QED
    BY <2>1, <2>2, <2>3
<1> QED
  BY <1>1, <1>2, <1>3, <1>4, <1>5, <1>6, <1>7 DEF Step

LEMMA NextLInv == LInv /\ [Next]_vars => LInv'
<1> SUFFICES ASSUME LInv, [Next]_vars PROVE LInv'
  OBVIOUS
<1>1. ASSUME NEW p \in Proc, Step(p) \/ Match(p) PROVE BankStep(p)
  BY <1>1, StepBank
<1>2. CASE UNCHANGED vars
  <2>1. GensInv' /\ IdsInv'
    BY <1>2 DEF LInv, GensInv, IdsInv, vars, callVars, bankVars
  <2>2. CallsInv' /\ BankInv'
    BY <1>2, StillBank DEF LInv, vars, CallsInv, CallsTypeOK, GenOK, OrderOK, callVars
  <2> QED
    BY <2>1, <2>2 DEF LInv
<1> QED
  BY <1>1, <1>2, StepLInv DEF Next, Terminated

\* Processors at the same place of the program have drawn the same ids, though
\* they never talk about them and some leave out tiles of pipelined loops.
THEOREM MPILockstep == Spec => []IdsInLockstep
<1>1. Init => LInv
  BY InitLInv DEF Init
<1> QED
  BY <1>1, NextLInv, LInvImplies, PTL DEF Spec

-----------------------------------------------------------------------------
\* A processor is at one call at a time.
LEMMA AtOne ==
  ASSUME NEW p \in Proc, NEW o \in Op \cup LoopOp, NEW c \in Cid, At(p, o, c),
         NEW a \in Op \cup LoopOp, NEW e \in Cid, At(p, a, e)
  PROVE  a = o /\ e = c
BY DEF At

RInv == TInv /\ \A p \in Proc : StepOK(p) /\ RequestsOK(p)

\* Requests change one at a time.
PutsRequest(p, t, d, v) == recvreq' = [recvreq EXCEPT ![p][t][d] = v]

LEMMA RequestSet ==
  ASSUME recvreq \in [Proc -> [Slot -> [1..MaxDirs -> Request]]],
         NEW p \in Proc, NEW t, NEW d, NEW v, PutsRequest(p, t, d, v)
  PROVE  \A r \in Proc, s \in Slot, a \in 1..MaxDirs :
           recvreq'[r][s][a] = IF r = p /\ s = t /\ a = d THEN v ELSE recvreq[r][s][a]
<1> DEFINE f == recvreq[p]
           row == [f[t] EXCEPT ![d] = v]
<1>1. f \in [Slot -> [1..MaxDirs -> Request]]
  OBVIOUS
<1>2. \A r \in Proc : r # p => recvreq'[r] = recvreq[r]
  BY DEF PutsRequest
<1>3. recvreq'[p] = [f EXCEPT ![t] = row]
  BY Zenon DEF PutsRequest
<1> HIDE DEF f, row
<1>4. \A s \in Slot : recvreq'[p][s] = IF s = t THEN row ELSE f[s]
  BY <1>1, <1>3
<1>5. t \in Slot => \A a \in 1..MaxDirs : row[a] = IF a = d THEN v ELSE f[t][a]
  BY <1>1 DEF row
<1> QED
  BY <1>2, <1>4, <1>5 DEF f

LEMMA InitRInv == Init => RInv
<1> SUFFICES ASSUME Init PROVE RInv
  OBVIOUS
<1>1. \A p \in Proc : step[p] = {}
  BY DEF Init
<1>2. \A p \in Proc, s \in Slot, d \in 1..MaxDirs : recvreq[p][s][d].st = "null"
  BY DEF Init, NullRequest
<1> QED
  BY <1>1, <1>2, InitTInv DEF RInv, StepOK, RequestsOK

\* Steps of other processors leave p's part of the invariant alone.
LEMMA OthersRInv ==
  ASSUME RInv, NEW p \in Proc, Step(p) \/ Match(p), NEW r \in Proc, r # p
  PROVE  StepOK(r)' /\ RequestsOK(r)'
<1>0. CallsInv /\ BankInv /\ MPITypeOK
  BY DEF RInv, TInv
<1>1. /\ prog' = prog /\ pos'[r] = pos[r] /\ inst'[r] = inst[r]
      /\ commbank'[r] = commbank[r] /\ handle'[r] = handle[r]
      /\ recvreq'[r] = recvreq[r] /\ step'[r] = step[r]
  <2>1. BankStep(p)
    BY StepBank
  <2>2. /\ prog' = prog /\ pos'[r] = pos[r] /\ inst'[r] = inst[r]
        /\ commbank'[r] = commbank[r] /\ handle'[r] = handle[r]
    BY <1>0, <2>1, OthersStay
  <2>3. recvreq'[r] = recvreq[r] /\ step'[r] = step[r]
    <3>0. recvreq \in [Proc -> [Slot -> [1..MaxDirs -> Request]]] /\ DOMAIN step = Proc
      BY <1>0 DEF MPITypeOK
    <3>1. CASE DR(p) \/ SRSend(p)
      BY <3>0, <3>1 DEF DR, SRSend
    <3>2. CASE New(p) \/ SRReturn(p) \/ Old(p) \/ Loop(p)
      BY <3>0, <3>2 DEF New, SRReturn, Old, Loop
    <3>3. CASE DNWait(p) \/ DNReturn(p)
      BY <3>0, <3>3 DEF DNWait, DNReturn
    <3>4. CASE Match(p)
      <4>1. PICK q \in Proc, s \in Slot : \E d \in DOMAIN commbank[p][s].recvinfo :
              \E i \in 1..Len(net[q][p]) :
                /\ recvreq' = [recvreq EXCEPT ![p][s][d] =
                     [st |-> "complete", val |-> net[q][p][i].val]]
                /\ UNCHANGED <<callVars, bankVars, step>>
        BY <3>4, ZenonT(40) DEF Match
      <4>2. \E d, v : recvreq' = [recvreq EXCEPT ![p][s][d] = v] /\ step' = step
        BY <4>1
      <4> QED
        BY <3>0, <4>2
    <3> QED
      BY <3>1, <3>2, <3>3, <3>4 DEF Step
  <2> QED
    BY <2>2, <2>3
<1>2. \A o, c : (At(r, o, c)' <=> At(r, o, c)) /\ (May(r, o, c)' <=> May(r, o, c))
  BY <1>1 DEF At, May, Running
<1>3. \A c \in Cid : /\ RecvInfo(r, c)' = RecvInfo(r, c) /\ SendInfo(r, c)' = SendInfo(r, c)
                     /\ InUse(r, c)' <=> InUse(r, c)
  BY <1>1 DEF RecvInfo, SendInfo, InUse
<1>4. \A c \in Cid : \A d : Waiting(r, c, d)' <=> Waiting(r, c, d)
  BY <1>1, <1>2, <1>3 DEF Waiting
<1>5. StepOK(r)'
  BY <1>1, <1>2, <1>3 DEF RInv, StepOK
<1>6. RequestsOK(r)'
  BY <1>1, <1>4 DEF RInv, RequestsOK
<1> QED
  BY <1>5, <1>6

\* What a return does to the calls of its own processor.
LEMMA Returned ==
  ASSUME CallsInv, NEW p \in Proc, NEW o \in Op, NEW c \in Cid, Return(p, o, c)
  PROVE  /\ o \notin inst[p][c].done /\ Required[o] \subseteq inst[p][c].done
         /\ inst'[p][c].done = DoneAfter(inst[p][c].done, o)
         /\ \A e \in Cid : e # c => inst'[p][e] = inst[p][e]
         /\ At(p, o, c)
<1>1. At(p, o, c)
  BY DEF Return, May
<1>2. /\ o \notin inst[p][c].done /\ Required[o] \subseteq inst[p][c].done
      /\ inst'[p][c] = [done |-> DoneAfter(inst[p][c].done, o), gen |-> Gen(p, c)]
      /\ \A r \in Proc, e \in Cid : <<r, e>> # <<p, c>> => inst'[r][e] = inst[r][e]
  BY ReturnStep
<1>3. inst'[p][c].done = DoneAfter(inst[p][c].done, o)
  BY <1>2
<1>4. \A e \in Cid : e # c => inst'[p][e] = inst[p][e]
  BY <1>2
<1> QED
  BY <1>1, <1>2, <1>3, <1>4

\* Another communication waits as before when the bank and the requests are
\* the same to it, and p is not in its DN.
LEMMA WaitsOn ==
  ASSUME NEW p \in Proc, NEW c \in Cid, NEW d, Waiting(p, c, d),
         inst'[p][c] = inst[p][c], handle'[p][c] = handle[p][c],
         RecvInfo(p, c)' = RecvInfo(p, c),
         step'[p] = {} \/ (step'[p] = step[p] /\ UNCHANGED callVars)
  PROVE  Waiting(p, c, d)'
<1>1. InUse(p, c)'
  BY DEF Waiting, InUse
<1>2. CASE step'[p] = {}
  BY <1>1, <1>2 DEF Waiting
<1>3. CASE step'[p] = step[p] /\ UNCHANGED callVars
  <2>1. At(p, "DN", c)' <=> At(p, "DN", c)
    BY <1>3 DEF At, Running, callVars
  <2> QED
    BY <1>1, <1>3, <2>1 DEF Waiting
<1> QED
  BY <1>2, <1>3

\* Between the loops of SR and DN no direction is handled.
LEMMA Idle ==
  ASSUME NEW p \in Proc, StepOK(p), NEW c \in Cid,
         NEW o \in (Op \cup LoopOp) \ {"SR", "DN"}, At(p, o, c)
  PROVE  step[p] = {}
<1> SUFFICES ASSUME step[p] # {} PROVE FALSE
  OBVIOUS
<1>1. PICK e \in Cid : At(p, "SR", e) \/ At(p, "DN", e)
  BY DEF StepOK, May
<1> QED
  BY <1>1 DEF At

\* NEW: the requests of open communications are on other descriptors than the
\* one it takes.
LEMMA NewRequests ==
  ASSUME RInv, NEW p \in Proc, New(p)
  PROVE  StepOK(p)' /\ RequestsOK(p)'
<1>0. CallsInv /\ BankInv /\ StepOK(p) /\ RequestsOK(p)
  BY DEF RInv, TInv
<1>1. PICK c \in Cid : /\ Return(p, "NEW", c) /\ NewDescriptor(p, c)
                       /\ UNCHANGED <<recvreq, step, net, ghost>>
  BY DEF New
<1>2. /\ inst[p][c].done = {} /\ At(p, "NEW", c)
      /\ \A e \in Cid : e # c => inst'[p][e] = inst[p][e]
  <2>1. inst[p][c].done = {}
    BY <1>0, <1>1, NewClosed DEF Return
  <2> QED
    BY <1>0, <1>1, <2>1, Returned DEF Op
<1>3. step[p] = {} /\ step'[p] = {}
  BY <1>0, <1>1, <1>2, Idle DEF Op
<1>4. ASSUME NEW e \in Cid, e # c, InUse(p, e)
      PROVE  handle'[p][e] = handle[p][e] /\ RecvInfo(p, e)' = RecvInfo(p, e)
  <2> DEFINE s == freelist[p][Len(freelist[p])]
  <2>1. /\ freelist[p] # <<>> /\ freelist[p] \in Seq(Slot)
        /\ s \in Slot /\ Len(freelist[p]) \in 1..Len(freelist[p])
    <3>1. freelist[p] # <<>> /\ freelist[p] \in Seq(Slot)
      BY <1>0, <1>2, NotEmpty DEF BankInv, BankTypeOK
    <3> QED
      BY <3>1
  <2>2. ~Held(p, s)
    BY <1>0, <2>1 DEF BankInv, Owned, Free
  <2> HIDE DEF s
  <2>3. handle[p][e] # s
    BY <1>4, <2>2 DEF Held
  <2>4. handle'[p][e] = handle[p][e]
    BY <1>0, <1>1, <1>4 DEF NewDescriptor, BankInv, BankTypeOK
  <2>5. handle[p][e] \in Slot /\ handle[p][e] # NoHandle
    BY <1>0, <1>4 DEF BankInv, BankTypeOK, InUse
  <2>6. commbank'[p][handle[p][e]] = commbank[p][handle[p][e]]
    BY <1>0, <1>1, <2>1, <2>3, <2>5 DEF NewDescriptor, BankInv, BankTypeOK, s
  <2> QED
    BY <2>4, <2>5, <2>6 DEF RecvInfo
<1>5. ASSUME NEW s \in Slot, NEW d \in 1..MaxDirs, recvreq'[p][s][d].st # "null"
      PROVE  \E e \in Cid : handle'[p][e] = s /\ Waiting(p, e, d)'
  <2>1. PICK e \in Cid : handle[p][e] = s /\ Waiting(p, e, d)
    BY <1>0, <1>1, <1>5 DEF RequestsOK
  <2>2. e # c /\ InUse(p, e)
    BY <1>2, <2>1 DEF Waiting
  <2> QED
    BY <1>2, <1>3, <1>4, <2>1, <2>2, WaitsOn
<1> QED
  BY <1>3, <1>5 DEF StepOK, RequestsOK

\* DR: the new requests are those of its communication, which had none.
LEMMA DRRequests ==
  ASSUME RInv, NEW p \in Proc, DR(p)
  PROVE  StepOK(p)' /\ RequestsOK(p)'
<1>0. CallsInv /\ BankInv /\ StepOK(p) /\ RequestsOK(p)
  BY DEF RInv, TInv
<1>1. PICK c \in Cid :
        /\ Return(p, "DR", c)
        /\ recvreq' = [recvreq EXCEPT ![p] = [s \in Slot |-> [d \in 1..MaxDirs |->
             IF s = handle[p][c] /\ d \in Posted(p, c)
             THEN [st |-> "active", val |-> NoData] ELSE @[s][d]]]]
        /\ UNCHANGED <<bankVars, step, net, ghost>>
  BY DEF DR
<1>2. /\ At(p, "DR", c) /\ "DR" \notin inst[p][c].done
      /\ \A e \in Cid : e # c => inst'[p][e] = inst[p][e]
      /\ inst'[p][c].done = inst[p][c].done \cup {"DR"}
  <2> DEFINE o == "DR"
  <2>1. o \in Op /\ Return(p, o, c) /\ o # "OLD"
    BY <1>1 DEF Op
  <2> HIDE DEF o
  <2>2. /\ At(p, o, c) /\ o \notin inst[p][c].done
        /\ inst'[p][c].done = DoneAfter(inst[p][c].done, o)
        /\ \A e \in Cid : e # c => inst'[p][e] = inst[p][e]
    BY <1>0, <2>1, Returned
  <2> QED
    BY <2>1, <2>2 DEF DoneAfter, o
<1>3. step[p] = {} /\ step'[p] = {}
  BY <1>0, <1>1, <1>2, Idle DEF Op
<1>4. handle' = handle /\ \A e \in Cid : RecvInfo(p, e)' = RecvInfo(p, e)
  BY <1>1 DEF RecvInfo, bankVars
<1>5. "DN" \notin inst[p][c].done
  BY <1>0, <1>2 DEF CallsInv, OrderOK, Required
<1>6. ASSUME NEW s \in Slot, NEW d \in 1..MaxDirs, recvreq'[p][s][d].st # "null"
      PROVE  \E e \in Cid : handle'[p][e] = s /\ Waiting(p, e, d)'
  <2>1. CASE s = handle[p][c] /\ d \in Posted(p, c)
    <3>1. s # NoHandle /\ d \in DOMAIN RecvInfo(p, c)
      BY <2>1, NoHandleAssumption DEF Posted, Slot
    <3>2. InUse(p, c)'
      BY <1>2, <1>4, <2>1, <3>1 DEF InUse
    <3>3. Waiting(p, c, d)'
      BY <1>2, <1>3, <1>4, <1>5, <3>1, <3>2 DEF Waiting
    <3> QED
      BY <1>4, <2>1, <3>3
  <2>2. CASE ~(s = handle[p][c] /\ d \in Posted(p, c))
    <3>1. recvreq'[p][s][d] = recvreq[p][s][d]
      BY <1>1, <2>2 DEF RInv, TInv, MPITypeOK
    <3>2. PICK e \in Cid : handle[p][e] = s /\ Waiting(p, e, d)
      BY <1>0, <1>6, <3>1 DEF RequestsOK
    <3>3. e # c
      BY <1>2, <3>2 DEF Waiting
    <3> QED
      BY <1>2, <1>3, <1>4, <3>2, <3>3, WaitsOn
  <2> QED
    BY <2>1, <2>2
<1> QED
  BY <1>3, <1>6 DEF StepOK, RequestsOK

\* SR sends, and touches no request.
LEMMA SendRequests ==
  ASSUME RInv, NEW p \in Proc, SRSend(p)
  PROVE  StepOK(p)' /\ RequestsOK(p)'
<1>0. CallsInv /\ BankInv /\ StepOK(p) /\ RequestsOK(p)
  BY DEF RInv, TInv
<1>1. PICK c \in Cid : \E d \in DOMAIN SendInfo(p, c) \ step[p] :
        /\ May(p, "SR", c)
        /\ step' = [step EXCEPT ![p] = @ \cup {d}]
        /\ UNCHANGED <<callVars, bankVars, recvreq, ghost>>
  BY DEF SRSend
<1>2. PICK d \in DOMAIN SendInfo(p, c) : step' = [step EXCEPT ![p] = @ \cup {d}]
  BY <1>1
<1>3. step'[p] = step[p] \cup {d}
  BY <1>2 DEF RInv, TInv, MPITypeOK
<1>4. \A e \in Cid : /\ RecvInfo(p, e)' = RecvInfo(p, e) /\ SendInfo(p, e)' = SendInfo(p, e)
                     /\ InUse(p, e)' <=> InUse(p, e)
                     /\ \A o : /\ At(p, o, e)' <=> At(p, o, e)
                               /\ May(p, o, e)' <=> May(p, o, e)
  BY <1>1 DEF RecvInfo, SendInfo, InUse, At, May, Running, callVars, bankVars
<1>5. \A e \in Cid : ~At(p, "DN", e)
  BY <1>1 DEF May, At
<1>6. StepOK(p)'
  <2>1. step[p] \subseteq DOMAIN SendInfo(p, c)
    BY <1>0, <1>1, <1>5 DEF StepOK, May, At
  <2>2. step'[p] \subseteq DOMAIN SendInfo(p, c)
    BY <1>3, <2>1
  <2> QED
    BY <1>1, <1>4, <2>2 DEF StepOK
<1>7. \A e \in Cid : \A a : Waiting(p, e, a) => Waiting(p, e, a)'
  BY <1>1, <1>4, <1>5 DEF Waiting, callVars
<1>8. recvreq' = recvreq /\ handle' = handle
  BY <1>1 DEF bankVars
<1> QED
  BY <1>0, <1>6, <1>7, <1>8 DEF RequestsOK

\* SR returns: the receives of its own communication are still outstanding.
LEMMA SentRequests ==
  ASSUME RInv, NEW p \in Proc, SRReturn(p)
  PROVE  StepOK(p)' /\ RequestsOK(p)'
<1>0. CallsInv /\ BankInv /\ StepOK(p) /\ RequestsOK(p)
  BY DEF RInv, TInv
<1>1. PICK c \in Cid : /\ Return(p, "SR", c)
                       /\ step' = [step EXCEPT ![p] = {}]
                       /\ UNCHANGED <<bankVars, recvreq, net, ghost>>
  BY DEF SRReturn
<1>2. /\ \A e \in Cid : e # c => inst'[p][e] = inst[p][e]
      /\ inst'[p][c].done = inst[p][c].done \cup {"SR"}
  <2> DEFINE o == "SR"
  <2>1. o \in Op /\ Return(p, o, c) /\ o # "OLD"
    BY <1>1 DEF Op
  <2> HIDE DEF o
  <2>2. /\ inst'[p][c].done = DoneAfter(inst[p][c].done, o)
        /\ \A e \in Cid : e # c => inst'[p][e] = inst[p][e]
    BY <1>0, <2>1, Returned
  <2> QED
    BY <2>1, <2>2 DEF DoneAfter, o
<1>3. step'[p] = {}
  BY <1>1 DEF RInv, TInv, MPITypeOK
<1>4. handle' = handle /\ recvreq' = recvreq /\ \A e \in Cid : RecvInfo(p, e)' = RecvInfo(p, e)
  BY <1>1 DEF RecvInfo, bankVars
<1>5. \A e \in Cid : \A d : Waiting(p, e, d) => Waiting(p, e, d)'
  BY <1>2, <1>3, <1>4 DEF Waiting, InUse
<1> QED
  BY <1>0, <1>3, <1>4, <1>5 DEF StepOK, RequestsOK

\* DN unmarshals a direction: its request is gone, the others still wait.
LEMMA WaitRequests ==
  ASSUME RInv, NEW p \in Proc, DNWait(p)
  PROVE  StepOK(p)' /\ RequestsOK(p)'
<1>0. CallsInv /\ BankInv /\ StepOK(p) /\ RequestsOK(p)
  BY DEF RInv, TInv
<1>1. PICK c \in Cid : \E d \in DOMAIN RecvInfo(p, c) \ step[p] :
        /\ May(p, "DN", c)
        /\ recvreq' = [recvreq EXCEPT ![p][handle[p][c]][d] = NullRequest]
        /\ step' = [step EXCEPT ![p] = @ \cup {d}]
        /\ UNCHANGED <<callVars, bankVars, net>>
  BY DEF DNWait
<1>2. PICK d \in DOMAIN RecvInfo(p, c) :
        /\ recvreq' = [recvreq EXCEPT ![p][handle[p][c]][d] = NullRequest]
        /\ step' = [step EXCEPT ![p] = @ \cup {d}]
  BY <1>1
<1>3. step'[p] = step[p] \cup {d}
  BY <1>2 DEF RInv, TInv, MPITypeOK
<1>4. \A e \in Cid : /\ RecvInfo(p, e)' = RecvInfo(p, e) /\ SendInfo(p, e)' = SendInfo(p, e)
                     /\ InUse(p, e)' <=> InUse(p, e)
                     /\ \A o : /\ At(p, o, e)' <=> At(p, o, e)
                               /\ May(p, o, e)' <=> May(p, o, e)
  BY <1>1 DEF RecvInfo, SendInfo, InUse, At, May, Running, callVars, bankVars
<1>5. \A e \in Cid : /\ At(p, "DN", e) => e = c
                     /\ ~At(p, "SR", e)
  BY <1>1 DEF May, At
<1>6. StepOK(p)'
  <2>1. step[p] \subseteq DOMAIN RecvInfo(p, c)
    BY <1>0, <1>5 DEF StepOK, May
  <2>2. step'[p] \subseteq DOMAIN RecvInfo(p, c)
    BY <1>3, <2>1
  <2> QED
    BY <1>1, <1>4, <2>2 DEF StepOK
<1>7. ASSUME NEW s \in Slot, NEW a \in 1..MaxDirs, recvreq'[p][s][a].st # "null"
      PROVE  \E e \in Cid : handle'[p][e] = s /\ Waiting(p, e, a)'
  <2>1. /\ recvreq'[p][s][a] = recvreq[p][s][a]
        /\ s = handle[p][c] => a # d
    <3>1. recvreq \in [Proc -> [Slot -> [1..MaxDirs -> Request]]]
      BY DEF RInv, TInv, MPITypeOK
    <3> DEFINE t == handle[p][c]
    <3>2. PutsRequest(p, t, d, NullRequest)
      BY <1>2 DEF PutsRequest
    <3> HIDE DEF t
    <3>3. recvreq'[p][s][a] = IF s = t /\ a = d THEN NullRequest ELSE recvreq[p][s][a]
      <4>1. \A r \in Proc, u \in Slot, b \in 1..MaxDirs :
              recvreq'[r][u][b] = IF r = p /\ u = t /\ b = d THEN NullRequest
                                  ELSE recvreq[r][u][b]
        BY <3>1, <3>2, RequestSet
      <4> QED
        BY <4>1
    <3>4. NullRequest.st = "null"
      BY DEF NullRequest
    <3> QED
      BY <1>7, <3>3, <3>4 DEF t
  <2>2. PICK e \in Cid : handle[p][e] = s /\ Waiting(p, e, a)
    BY <1>0, <1>7, <2>1 DEF RequestsOK
  <2>3. e = c => a # d
    BY <2>1, <2>2
  <2>4. Waiting(p, e, a)'
    BY <1>1, <1>3, <1>4, <1>5, <2>2, <2>3 DEF Waiting, callVars
  <2> QED
    BY <1>1, <2>2, <2>4 DEF bankVars
<1> QED
  BY <1>6, <1>7 DEF RequestsOK

\* DN counts directions: as many as it receives in are all of them.
LEMMA AllUnmarshalled ==
  ASSUME RInv, NEW p \in Proc, NEW c \in Cid, Return(p, "DN", c), AllReceived(p, c)
  PROVE  step[p] = DOMAIN RecvInfo(p, c)
<1>0. CallsInv /\ BankInv /\ StepOK(p) /\ At(p, "DN", c)
  BY DEF RInv, TInv, Return, May
<1>1. DOMAIN RecvInfo(p, c) \subseteq 1..MaxDirs
  BY <1>0, InfoInDirs DEF IsMap
<1>2. IsFiniteSet(DOMAIN RecvInfo(p, c))
  <2>1. IsFiniteSet(1..MaxDirs)
    BY FS_Interval, MaxDirsAssumption
  <2> QED
    BY <1>1, <2>1, FS_Subset
<1>3. step[p] \subseteq DOMAIN RecvInfo(p, c)
  <2>1. CASE step[p] = {}
    BY <2>1
  <2>2. CASE step[p] # {}
    BY <1>0, <2>2 DEF StepOK, May, At
  <2> QED
    BY <2>1, <2>2
<1>4. Cardinality(step[p]) = Cardinality(DOMAIN RecvInfo(p, c))
  BY DEF AllReceived
<1> QED
  BY <1>2, <1>3, <1>4, FS_Subset

\* DN returns when it counted as many directions as it receives in: those are
\* all of them, so that no request of its communication is left.
LEMMA ReceivedRequests ==
  ASSUME RInv, NEW p \in Proc, DNReturn(p)
  PROVE  StepOK(p)' /\ RequestsOK(p)'
<1>0. CallsInv /\ BankInv /\ StepOK(p) /\ RequestsOK(p)
  BY DEF RInv, TInv
<1>1. PICK c \in Cid : /\ Return(p, "DN", c) /\ AllReceived(p, c)
                       /\ step' = [step EXCEPT ![p] = {}]
                       /\ UNCHANGED <<bankVars, recvreq, net, ghost>>
  BY DEF DNReturn
<1>2. /\ At(p, "DN", c)
      /\ \A e \in Cid : e # c => inst'[p][e] = inst[p][e]
  BY <1>0, <1>1, Returned DEF Op
<1>3. step[p] = DOMAIN RecvInfo(p, c)
  BY <1>0, <1>1, AllUnmarshalled
<1>4. step'[p] = {}
  BY <1>1 DEF RInv, TInv, MPITypeOK
<1>5. handle' = handle /\ recvreq' = recvreq /\ \A e \in Cid : RecvInfo(p, e)' = RecvInfo(p, e)
  BY <1>1 DEF RecvInfo, bankVars
<1>6. \A e \in Cid : \A d : Waiting(p, e, d) => e # c
  BY <1>2, <1>3 DEF Waiting
<1>7. \A e \in Cid : \A d : Waiting(p, e, d) => Waiting(p, e, d)'
  BY <1>2, <1>4, <1>5, <1>6, WaitsOn
<1> QED
  BY <1>0, <1>4, <1>5, <1>7 DEF StepOK, RequestsOK

\* OLD releases a descriptor without requests.
LEMMA OldRequests ==
  ASSUME RInv, NEW p \in Proc, Old(p)
  PROVE  StepOK(p)' /\ RequestsOK(p)'
<1>0. CallsInv /\ BankInv /\ StepOK(p) /\ RequestsOK(p)
  BY DEF RInv, TInv
<1>1. PICK c \in Cid : /\ Return(p, "OLD", c) /\ OldDescriptor(p, c)
                       /\ UNCHANGED <<recvreq, step, net, ghost>>
  BY DEF Old
<1>2. /\ At(p, "OLD", c) /\ "DN" \in inst[p][c].done
      /\ \A e \in Cid : e # c => inst'[p][e] = inst[p][e]
  <2>1. /\ At(p, "OLD", c) /\ Required["OLD"] \subseteq inst[p][c].done
        /\ \A e \in Cid : e # c => inst'[p][e] = inst[p][e]
    BY <1>0, <1>1, Returned DEF Op
  <2> QED
    BY <2>1 DEF Required
<1>3. step[p] = {} /\ step'[p] = {}
  BY <1>0, <1>1, <1>2, Idle DEF Op
<1>4. handle' = handle /\ recvreq' = recvreq /\ \A e \in Cid : RecvInfo(p, e)' = RecvInfo(p, e)
  BY <1>1 DEF RecvInfo, OldDescriptor
<1>5. \A e \in Cid : \A d : Waiting(p, e, d) => Waiting(p, e, d)'
  BY <1>2, <1>3, <1>4, WaitsOn DEF Waiting
<1> QED
  BY <1>0, <1>3, <1>4, <1>5 DEF StepOK, RequestsOK

\* The start of a loop, the end of a tile, and tiles p does not have.
LEMMA LoopRequests ==
  ASSUME RInv, NEW p \in Proc, Loop(p)
  PROVE  StepOK(p)' /\ RequestsOK(p)'
<1>0. CallsInv /\ BankInv /\ StepOK(p) /\ RequestsOK(p)
  BY DEF RInv, TInv
<1>1. step[p] = {}
  <2>1. \E c \in Cid, o \in {"INIT", "POST", "NEW"} : At(p, o, c)
    BY DEF Loop, LoopInit, LoopPost, Pass, SkipTile, SkipTo, AtOp
  <2> QED
    BY <1>0, <2>1, Idle DEF Op, LoopOp
<1>2. /\ step'[p] = {} /\ recvreq' = recvreq /\ handle' = handle
      /\ \A e \in Cid : RecvInfo(p, e)' = RecvInfo(p, e)
  BY <1>1 DEF Loop, LoopInit, LoopPost, RecvInfo, bankVars
<1>3. \A e \in Cid : \A d : Waiting(p, e, d) => inst'[p][e] = inst[p][e]
  <2>1. CASE SkipTile(p)
    BY <1>0, <2>1, SkipStep DEF Waiting
  <2>2. CASE inst' = inst
    BY <2>2
  <2> QED
    BY <2>1, <2>2 DEF Loop, LoopInit, LoopPost, Pass
<1>4. \A e \in Cid : \A d : Waiting(p, e, d) => Waiting(p, e, d)'
  BY <1>2, <1>3, WaitsOn
<1> QED
  BY <1>0, <1>2, <1>4 DEF StepOK, RequestsOK

\* MPI completes a request that was outstanding.
LEMMA MatchRequests ==
  ASSUME RInv, NEW p \in Proc, Match(p)
  PROVE  StepOK(p)' /\ RequestsOK(p)'
<1>0. CallsInv /\ BankInv /\ StepOK(p) /\ RequestsOK(p)
  BY DEF RInv, TInv
<1>1. PICK q \in Proc, s \in Slot : \E d \in DOMAIN commbank[p][s].recvinfo :
      \E i \in 1..Len(net[q][p]) :
        /\ Matches(p, q, s, d, i)
        /\ recvreq' = [recvreq EXCEPT ![p][s][d] =
             [st |-> "complete", val |-> net[q][p][i].val]]
        /\ UNCHANGED <<callVars, bankVars, step>>
  BY ZenonT(40) DEF Match
<1>2. PICK d \in DOMAIN commbank[p][s].recvinfo, i \in 1..Len(net[q][p]) :
        /\ recvreq[p][s][d].st = "active"
        /\ recvreq' = [recvreq EXCEPT ![p][s][d] =
             [st |-> "complete", val |-> net[q][p][i].val]]
  BY <1>1 DEF Matches
<1>3. \A t \in Slot, a \in 1..MaxDirs :
        recvreq'[p][t][a].st # "null" => recvreq[p][t][a].st # "null"
  BY <1>2 DEF RInv, TInv, MPITypeOK
<1>4. step' = step /\ handle' = handle
      /\ \A e \in Cid : \A a : Waiting(p, e, a)' <=> Waiting(p, e, a)
  BY <1>1 DEF Waiting, RecvInfo, InUse, At, Running, callVars, bankVars
<1>5. StepOK(p)'
  BY <1>0, <1>1 DEF StepOK, SendInfo, RecvInfo, At, May, Running, callVars, bankVars
<1> QED
  BY <1>0, <1>3, <1>4, <1>5 DEF RequestsOK

LEMMA NextRInv == RInv /\ [Next]_vars => RInv'
<1> SUFFICES ASSUME RInv, [Next]_vars PROVE RInv'
  OBVIOUS
<1>1. TInv'
  BY NextTInv DEF RInv
<1>2. ASSUME NEW p \in Proc, Step(p) \/ Match(p)
      PROVE  \A r \in Proc : StepOK(r)' /\ RequestsOK(r)'
  <2>1. StepOK(p)' /\ RequestsOK(p)'
    BY <1>2, NewRequests, DRRequests, SendRequests, SentRequests, WaitRequests,
       ReceivedRequests, OldRequests, LoopRequests, MatchRequests DEF Step
  <2> QED
    BY <1>2, <2>1, OthersRInv
<1>3. CASE UNCHANGED vars
  BY <1>1, <1>3 DEF RInv, StepOK, RequestsOK, Waiting, SendInfo, RecvInfo, InUse, At, May,
                    Running, vars, callVars, bankVars
<1> QED
  BY <1>1, <1>2, <1>3 DEF Next, Terminated, RInv

\* MPI never writes into a descriptor that is free: at OLD all receives of the
\* communication were unmarshalled, and NEW takes a descriptor no other holds.
THEOREM MPINoReceiveIntoFreed == Spec => []NoReceiveIntoFreed
<1>1. RInv => NoReceiveIntoFreed
  <2> SUFFICES ASSUME RInv, NEW p \in Proc, NEW i \in 1..Len(freelist[p]),
                      NEW d \in 1..MaxDirs, recvreq[p][freelist[p][i]][d].st # "null"
               PROVE  FALSE
    BY DEF NoReceiveIntoFreed
  <2> DEFINE s == freelist[p][i]
  <2>1. s \in Slot /\ Free(p, s)
    BY DEF RInv, TInv, BankInv, BankTypeOK, Free
  <2>2. \E c \in Cid : handle[p][c] = s /\ InUse(p, c)
    BY <2>1 DEF RInv, RequestsOK, Waiting
  <2> QED
    BY <2>1, <2>2 DEF RInv, TInv, BankInv, Owned, Held
<1> QED
  BY <1>1, InitRInv, NextRInv, PTL DEF Spec

-----------------------------------------------------------------------------
LEMMA NextOpen == LInv /\ OpenInv /\ [Next]_vars => OpenInv'
<1> SUFFICES ASSUME LInv, OpenInv, [Next]_vars PROVE OpenInv'
  OBVIOUS
<1>1. LInv'
  BY NextLInv
<1>2. ASSUME NEW p \in Proc, Step(p) \/ Match(p) PROVE BankStep(p)
  BY <1>2, StepBank
<1>3. CASE UNCHANGED vars
  <2>0. UNCHANGED <<prog, pos, inst, handle, commbank>>
    BY <1>3 DEF vars, callVars, bankVars
  <2>1. \A p, c, m : OpenSince(p, c, m)' <=> OpenSince(p, c, m)
    BY <2>0 DEF OpenSince
  <2>2. \A p, c : RecvInfo(p, c)' = RecvInfo(p, c) /\ SendInfo(p, c)' = SendInfo(p, c)
    BY <2>0 DEF RecvInfo, SendInfo
  <2>3. \A p, c, m : InfoOf(p, c, m)' <=> InfoOf(p, c, m)
    BY <2>0, <2>2 DEF InfoOf
  <2> QED
    BY <2>0, <2>1, <2>3 DEF OpenInv
<1> QED
  BY <1>1, <1>2, <1>3, StepOpen DEF Next, Terminated

\* A message can match only the receive it is meant for: a receive is
\* outstanding for a communication that is open, and the ids drawn since that
\* began have not come round to its tags.
THEOREM MPITagsDistinct == Spec => []TagsDistinct
<1>1. RInv /\ LInv /\ OpenInv => TagsDistinct
  <2> SUFFICES ASSUME RInv, LInv, OpenInv, NEW p \in Proc, NEW s \in Slot, NEW t \in Slot,
                      NEW d \in 1..MaxDirs, NEW e \in 1..MaxDirs,
                      recvreq[p][s][d].st = "active", recvreq[p][t][e].st = "active",
                      commbank[p][s].recvinfo[d].dyn_commid
                        = commbank[p][t].recvinfo[e].dyn_commid
               PROVE  s = t /\ d = e
    BY DEF TagsDistinct
  <2>1. PICK c \in Cid : handle[p][c] = s /\ Waiting(p, c, d)
    BY DEF RInv, RequestsOK
  <2>2. PICK b \in Cid : handle[p][b] = t /\ Waiting(p, b, e)
    BY DEF RInv, RequestsOK
  <2>3. /\ inst[p][c].done # {} /\ inst[p][c].done # {"NEW"} /\ d \in DOMAIN RecvInfo(p, c)
        /\ RecvInfo(p, c) = commbank[p][s].recvinfo
    BY <2>1 DEF Waiting, InUse, RecvInfo
  <2>4. /\ inst[p][b].done # {} /\ inst[p][b].done # {"NEW"} /\ e \in DOMAIN RecvInfo(p, b)
        /\ RecvInfo(p, b) = commbank[p][t].recvinfo
    BY <2>2 DEF Waiting, InUse, RecvInfo
  <2>5. c = b /\ d = e
    BY <2>3, <2>4, TagsImply
  <2> QED
    BY <2>1, <2>2, <2>5
<1>2. Init => RInv /\ LInv /\ OpenInv
  BY InitRInv, InitLInv, InitOpen DEF Init
<1> QED
  BY <1>1, <1>2, NextRInv, NextLInv, NextOpen, PTL DEF Spec

-----------------------------------------------------------------------------
\* The directions p has sent in the SR it is in, and those in which what it
\* receives has come.
Out(p) == [c \in Cid |-> IF May(p, "SR", c) THEN step[p] ELSE {}]
Got(p) == [c \in Cid |-> {d \in DOMAIN RecvInfo(p, c) :
  "DR" \in inst[p][c].done /\ recvreq[p][handle[p][c]][d].st # "active"}]

\* MPI has, between any two processors, what the one has sent and what no
\* receive of the other has taken.
PairsOK ==
  \A q, p \in Proc : PairOK(prog, pos[q], q, p, inst[q], inst[p], Out(q), Got(p), net[q][p])

\* Between DR and DN there is a request for every direction that DN did not
\* unmarshal; what came is what the neighbour sent for the same instance, and
\* is in place if its ghost area is contiguous, or DN unmarshalled it.
DirOK(p, c, d) ==
  LET r == recvreq[p][handle[p][c]][d]
      x == Data(RecvInfo(p, c)[d].proc, c, inst[p][c].gen, d)
  IN /\ r.st = "null" => May(p, "DN", c) /\ d \in step[p]
     /\ r.st = "complete" => r.val = x
     /\ r.st = "null" \/ (r.st = "complete" /\ <<p, d>> \in Consecutive) => ghost[p][c][d] = x

Receiving(p, c) == "DR" \in inst[p][c].done /\ "DN" \notin inst[p][c].done
DataOK(p) ==
  \A c \in Cid : Receiving(p, c) => \A d \in DOMAIN RecvInfo(p, c) : DirOK(p, c, d)

\* An MPI_Send that waits is of the SR its sender is in.
SyncOK(p) ==
  \A q \in Proc : \A i \in 1..Len(net[p][q]) : net[p][q][i].sync =>
    LET x == net[p][q][i].val IN May(p, "SR", x.cid) /\ x.gen = inst[p][x.cid].gen

NInv ==
  /\ RInv /\ LInv /\ OpenInv /\ DoneInv /\ PairsOK
  /\ \A p \in Proc : DataOK(p) /\ SyncOK(p)

LEMMA InitNInv == Init => NInv
<1> SUFFICES ASSUME Init PROVE NInv
  OBVIOUS
<1>1. RInv /\ LInv /\ OpenInv /\ DoneInv
  BY InitRInv, InitLInv, InitOpen, InitDone DEF Init
<1>2. \A p, q \in Proc : net[q][p] = <<>>
  BY DEF Init
<1>3. \A p \in Proc, c \in Cid : inst[p][c].gen = 0 /\ inst[p][c].done = {}
  BY DEF Init, InitCalls
<1>4. PairsOK
  BY <1>2, <1>3, InitPair DEF PairsOK
<1>5. \A p \in Proc : DataOK(p) /\ SyncOK(p)
  BY <1>2, <1>3 DEF DataOK, Receiving, SyncOK
<1> QED
  BY <1>1, <1>4, <1>5 DEF NInv

-----------------------------------------------------------------------------
\* A processor with directions to receive in has a descriptor.
LEMMA HasSlot ==
  ASSUME TInv, NEW p \in Proc, NEW c \in Cid, NEW d \in DOMAIN RecvInfo(p, c)
  PROVE  /\ handle[p][c] \in Slot /\ handle[p][c] # NoHandle
         /\ d \in 1..MaxDirs
         /\ RecvInfo(p, c) = commbank[p][handle[p][c]].recvinfo
         /\ recvreq[p][handle[p][c]][d] \in Request
<1>1. DOMAIN <<>> = {}
  OBVIOUS
<1>2. handle[p][c] # NoHandle
  BY <1>1 DEF RecvInfo
<1>3. handle[p][c] \in Slot
  BY <1>2 DEF TInv, BankInv, BankTypeOK
<1>4. d \in 1..MaxDirs
  BY InfoInDirs DEF TInv, IsMap
<1>5. recvreq[p][handle[p][c]][d] \in Request
  <2> DEFINE s == handle[p][c]
  <2>1. recvreq \in [Proc -> [Slot -> [1..MaxDirs -> Request]]]
    BY DEF TInv, MPITypeOK
  <2>2. s \in Slot /\ d \in 1..MaxDirs
    BY <1>3, <1>4
  <2> HIDE DEF s
  <2>3. recvreq[p][s] \in [1..MaxDirs -> Request]
    BY <2>1, <2>2
  <2>4. recvreq[p][s][d] \in Request
    BY <2>2, <2>3, Zenon
  <2> QED
    BY <2>4 DEF s
<1> QED
  BY <1>2, <1>3, <1>4, <1>5 DEF RecvInfo

\* Two open communications have different descriptors.
LEMMA OwnSlot ==
  ASSUME TInv, NEW p \in Proc, NEW c \in Cid, NEW e \in Cid, e # c,
         inst[p][c].done # {}, inst[p][e].done # {}, handle[p][e] # NoHandle
  PROVE  handle[p][e] # handle[p][c]
BY DEF TInv, BankInv, Owned, InUse

LEMMA SameOut ==
  ASSUME NEW r \in Proc, prog' = prog, pos'[r] = pos[r], inst'[r] = inst[r], step'[r] = step[r]
  PROVE  Out(r)' = Out(r)
BY SameMay DEF Out

LEMMA SameGot ==
  ASSUME NEW r \in Proc, inst'[r] = inst[r], handle'[r] = handle[r], commbank'[r] = commbank[r],
         recvreq'[r] = recvreq[r]
  PROVE  Got(r)' = Got(r)
BY DEF Got, RecvInfo

\* Steps that neither send nor receive.
LEMMA QuietPairs ==
  ASSUME PairsOK, prog' = prog, net' = net,
         \A q \in Proc : pos[q] \in Nat /\ pos'[q] \in Nat /\ pos[q] <= pos'[q],
         \A q, p \in Proc, x \in DataSet : Edge(prog, q, p, x) =>
           /\ SentIn(inst'[q][x.cid], x, Out(q)'[x.cid]) <=> SentIn(inst[q][x.cid], x, Out(q)[x.cid])
           /\ PendIn(inst'[p][x.cid], x, Got(p)'[x.cid]) <=> PendIn(inst[p][x.cid], x, Got(p)[x.cid])
  PROVE  PairsOK'
<1> SUFFICES ASSUME NEW q \in Proc, NEW p \in Proc
             PROVE  PairOK(prog, pos'[q], q, p, inst'[q], inst'[p], Out(q)', Got(p)', net[q][p])
  BY DEF PairsOK
<1>1. PairOK(prog, pos[q], q, p, inst[q], inst[p], Out(q), Got(p), net[q][p])
  BY DEF PairsOK
<1>2. /\ pos[q] \in Nat /\ pos'[q] \in Nat /\ pos[q] <= pos'[q]
      /\ \A x \in DataSet : Edge(prog, q, p, x) =>
           /\ SentIn(inst'[q][x.cid], x, Out(q)'[x.cid]) <=> SentIn(inst[q][x.cid], x, Out(q)[x.cid])
           /\ PendIn(inst'[p][x.cid], x, Got(p)'[x.cid]) <=> PendIn(inst[p][x.cid], x, Got(p)[x.cid])
  OBVIOUS
<1> QED
  BY <1>1, <1>2, QuietPair

\* What the request, the ghost area and the descriptor of a direction are, says
\* the same of it.
LEMMA DirKept ==
  ASSUME NEW p \in Proc, NEW c \in Cid, NEW d, DirOK(p, c, d),
         inst'[p][c].gen = inst[p][c].gen, handle'[p][c] = handle[p][c],
         RecvInfo(p, c)' = RecvInfo(p, c),
         recvreq'[p][handle[p][c]][d] = recvreq[p][handle[p][c]][d],
         ghost'[p][c][d] = ghost[p][c][d],
         May(p, "DN", c) /\ d \in step[p] => May(p, "DN", c)' /\ d \in step'[p]
  PROVE  DirOK(p, c, d)'
BY DEF DirOK

\* The other processors are undisturbed.
LEMMA OthersData ==
  ASSUME NInv, NEW r \in Proc, prog' = prog, pos'[r] = pos[r], inst'[r] = inst[r],
         handle'[r] = handle[r], commbank'[r] = commbank[r], recvreq'[r] = recvreq[r],
         step'[r] = step[r], ghost'[r] = ghost[r]
  PROVE  DataOK(r)'
<1>1. \A o, c : May(r, o, c)' <=> May(r, o, c)
  BY SameMay
<1>2. ASSUME NEW c \in Cid, Receiving(r, c)', NEW d \in DOMAIN RecvInfo(r, c)'
      PROVE  DirOK(r, c, d)'
  <2>1. RecvInfo(r, c)' = RecvInfo(r, c)
    BY DEF RecvInfo
  <2>2. DirOK(r, c, d)
    BY <1>2, <2>1 DEF NInv, DataOK, Receiving
  <2> QED
    BY <1>1, <2>1, <2>2, DirKept
<1> QED
  BY <1>2 DEF DataOK

\* A send that waits still does, and no other.
LEMMA SyncKept ==
  ASSUME NInv, NEW r \in Proc, prog' = prog, pos'[r] = pos[r], inst'[r] = inst[r],
         \A q \in Proc : \A i \in 1..Len(net'[r][q]) :
           \E j \in 1..Len(net[r][q]) : net'[r][q][i] = net[r][q][j]
  PROVE  SyncOK(r)'
<1>1. \A o, c : May(r, o, c)' <=> May(r, o, c)
  BY SameMay
<1>2. ASSUME NEW q \in Proc, NEW i \in 1..Len(net'[r][q]), net'[r][q][i].sync
      PROVE  LET x == net'[r][q][i].val IN May(r, "SR", x.cid) /\ x.gen = inst[r][x.cid].gen
  <2>1. PICK j \in 1..Len(net[r][q]) : net'[r][q][i] = net[r][q][j]
    OBVIOUS
  <2>2. SyncOK(r)
    BY DEF NInv
  <2>3. LET x == net[r][q][j].val IN May(r, "SR", x.cid) /\ x.gen = inst[r][x.cid].gen
    BY <1>2, <2>1, <2>2 DEF SyncOK
  <2> QED
    BY <2>1, <2>3
<1> QED
  BY <1>1, <1>2 DEF SyncOK

-----------------------------------------------------------------------------
\* The return from a call o of c, and what it leaves of the requests: DR posts
\* those of c, at SR all was sent and no send waits, at DN none of c is left.
Returns(p, o, c) ==
  /\ Return(p, o, c) /\ BankStep(p)
  /\ step'[p] = {} /\ net' = net /\ ghost' = ghost
  /\ \A r \in Proc : r # p => step'[r] = step[r] /\ recvreq'[r] = recvreq[r]
  /\ \A e \in Cid : \A d \in DOMAIN RecvInfo(p, e) : inst[p][e].done # {} =>
       IF o = "DR" /\ e = c THEN recvreq'[p][handle[p][e]][d].st = "active"
       ELSE recvreq'[p][handle[p][e]][d] = recvreq[p][handle[p][e]][d]
  /\ o = "SR" => step[p] = DOMAIN SendInfo(p, c) /\ ~Blocked(p)
  /\ o = "DN" => step[p] = DOMAIN RecvInfo(p, c)

LEMMA ReturnsIs ==
  ASSUME NInv, NEW p \in Proc, New(p) \/ DR(p) \/ SRReturn(p) \/ DNReturn(p) \/ Old(p)
  PROVE  \E o \in Op, c \in Cid : Returns(p, o, c)
<1>0. /\ RInv /\ TInv /\ CallsInv /\ BankInv /\ StepOK(p) /\ RequestsOK(p)
      /\ step \in [Proc -> SUBSET (1..MaxDirs)]
      /\ Op = {"NEW", "DR", "SR", "DN", "OLD"}
  BY DEF NInv, RInv, TInv, MPITypeOK, Op
<1>1. BankStep(p)
  BY DEF BankStep, New, DR, SRReturn, DNReturn, Old
<1>2. CASE New(p) \/ Old(p)
  <2>1. PICK o \in {"NEW", "OLD"}, c \in Cid : Return(p, o, c) /\ UNCHANGED <<recvreq, step, net, ghost>>
    BY <1>2 DEF New, Old
  <2>2. At(p, o, c) /\ o \in (Op \cup LoopOp) \ {"SR", "DN"} /\ o \in Op
    BY <1>0, <2>1 DEF Return, May
  <2>3. step[p] = {}
    BY <1>0, <2>2, Idle
  <2>4. Returns(p, o, c)
    BY <1>1, <2>1, <2>3 DEF Returns
  <2> QED
    BY <2>2, <2>4
<1>3. CASE DR(p)
  <2>1. PICK c \in Cid :
          /\ Return(p, "DR", c)
          /\ recvreq' = [recvreq EXCEPT ![p] = [s \in Slot |-> [d \in 1..MaxDirs |->
               IF s = handle[p][c] /\ d \in Posted(p, c)
               THEN [st |-> "active", val |-> NoData] ELSE @[s][d]]]]
          /\ UNCHANGED <<bankVars, step, net, ghost>>
    BY <1>3 DEF DR
  <2>2. At(p, "DR", c) /\ "DR" \in (Op \cup LoopOp) \ {"SR", "DN"}
    BY <1>0, <2>1 DEF Return, May
  <2>3. step[p] = {}
    BY <1>0, <2>2, Idle
  <2>4. inst[p][c].done # {}
    BY <2>1 DEF Return, May, Required
  <2>5. ASSUME NEW e \in Cid, NEW d \in DOMAIN RecvInfo(p, e), inst[p][e].done # {}
        PROVE  IF e = c THEN recvreq'[p][handle[p][e]][d].st = "active"
               ELSE recvreq'[p][handle[p][e]][d] = recvreq[p][handle[p][e]][d]
    <3>1. handle[p][e] \in Slot /\ handle[p][e] # NoHandle /\ d \in 1..MaxDirs
      BY <1>0, HasSlot
    <3>2. recvreq'[p][handle[p][e]][d] =
            IF handle[p][e] = handle[p][c] /\ d \in Posted(p, c)
            THEN [st |-> "active", val |-> NoData] ELSE recvreq[p][handle[p][e]][d]
      BY <1>0, <2>1, <3>1 DEF TInv, MPITypeOK
    <3>3. CASE e = c
      BY <3>2, <3>3 DEF Posted
    <3>4. CASE e # c
      <4>1. handle[p][e] # handle[p][c]
        BY <1>0, <2>4, <2>5, <3>1, <3>4, OwnSlot
      <4> QED
        BY <3>2, <3>4, <4>1
    <3> QED
      BY <3>3, <3>4
  <2>6. \A r \in Proc : r # p => recvreq'[r] = recvreq[r]
    BY <1>0, <2>1 DEF TInv, MPITypeOK
  <2>7. Returns(p, "DR", c)
    BY <1>1, <2>1, <2>3, <2>5, <2>6 DEF Returns
  <2> QED
    BY <1>0, <2>7
<1>4. CASE SRReturn(p)
  <2>1. PICK c \in Cid : /\ Return(p, "SR", c) /\ step[p] = DOMAIN SendInfo(p, c) /\ ~Blocked(p)
                         /\ step' = [step EXCEPT ![p] = {}] /\ UNCHANGED <<bankVars, recvreq, net, ghost>>
    BY <1>4 DEF SRReturn
  <2>2. Returns(p, "SR", c)
    BY <1>0, <1>1, <2>1 DEF Returns
  <2> QED
    BY <1>0, <2>2
<1>5. CASE DNReturn(p)
  <2>1. PICK c \in Cid : /\ Return(p, "DN", c) /\ AllReceived(p, c)
                         /\ step' = [step EXCEPT ![p] = {}] /\ UNCHANGED <<bankVars, recvreq, net, ghost>>
    BY <1>5 DEF DNReturn
  <2>2. step[p] = DOMAIN RecvInfo(p, c)
    BY <1>0, <2>1, AllUnmarshalled
  <2>3. Returns(p, "DN", c)
    BY <1>0, <1>1, <2>1, <2>2 DEF Returns
  <2> QED
    BY <1>0, <2>3
<1> QED
  BY <1>2, <1>3, <1>4, <1>5

\* The request of an open communication that is outstanding or unread is its own.
LEMMA OwnRequest ==
  ASSUME RInv, NEW p \in Proc, NEW c \in Cid, inst[p][c].done # {},
         NEW d \in DOMAIN RecvInfo(p, c), recvreq[p][handle[p][c]][d].st # "null"
  PROVE  Waiting(p, c, d)
<1>0. TInv /\ RequestsOK(p)
  BY DEF RInv
<1>1. handle[p][c] \in Slot /\ d \in 1..MaxDirs
  BY <1>0, HasSlot
<1>2. PICK e \in Cid : handle[p][e] = handle[p][c] /\ Waiting(p, e, d)
  BY <1>0, <1>1 DEF RequestsOK
<1>3. inst[p][e].done # {} /\ handle[p][e] # NoHandle
  BY <1>2 DEF Waiting, InUse
<1>4. e = c
  BY <1>0, <1>2, <1>3, OwnSlot
<1> QED
  BY <1>2, <1>4

\* DN has unmarshalled what it counted.
LEMMA Unmarshalled ==
  ASSUME RInv, NEW p \in Proc, NEW c \in Cid, May(p, "DN", c),
         NEW d \in DOMAIN RecvInfo(p, c), d \in step[p]
  PROVE  recvreq[p][handle[p][c]][d].st = "null"
<1>1. inst[p][c].done # {} /\ At(p, "DN", c)
  BY DEF May, Required
<1>2. ~Waiting(p, c, d)
  BY <1>1 DEF Waiting
<1> QED
  BY <1>1, <1>2, OwnRequest

\* What a return leaves alone, and what it does to the calls.
LEMMA ReturnFrame ==
  ASSUME NInv, NEW p \in Proc, NEW o \in Op, NEW c \in Cid, Returns(p, o, c)
  PROVE  /\ prog' = prog
         /\ \A r \in Proc : r # p => /\ pos'[r] = pos[r] /\ inst'[r] = inst[r]
                                     /\ handle'[r] = handle[r] /\ commbank'[r] = commbank[r]
         /\ \A r \in Proc : pos[r] \in Nat /\ pos'[r] \in Nat /\ pos[r] <= pos'[r]
         /\ At(p, o, c) /\ May(p, o, c)
         /\ o \notin inst[p][c].done /\ Required[o] \subseteq inst[p][c].done
         /\ inst'[p][c].done = DoneAfter(inst[p][c].done, o)
         /\ \A e \in Cid : e # c => inst'[p][e] = inst[p][e]
<1>0. TInv /\ LInv /\ CallsInv /\ Return(p, o, c) /\ BankStep(p)
  BY DEF NInv, RInv, LInv, Returns
<1>1. /\ prog' = prog
      /\ \A r \in Proc : r # p => /\ pos'[r] = pos[r] /\ inst'[r] = inst[r]
                                  /\ handle'[r] = handle[r] /\ commbank'[r] = commbank[r]
  BY <1>0, OthersKeep
<1>2. \A r \in Proc : pos[r] \in Nat /\ pos'[r] \in Nat /\ pos[r] <= pos'[r]
  <2>1. pos' = [pos EXCEPT ![p] = pos[p] + 1] /\ pos \in [Proc -> Nat]
    BY <1>0, Place DEF CallsInv, CallsTypeOK
  <2> QED
    BY <2>1
<1>3. At(p, o, c) /\ May(p, o, c)
  BY <1>0 DEF Return, May
<1>4. /\ o \notin inst[p][c].done /\ Required[o] \subseteq inst[p][c].done
      /\ inst'[p][c].done = DoneAfter(inst[p][c].done, o)
      /\ \A e \in Cid : e # c => inst'[p][e] = inst[p][e]
  BY <1>0, Returned
<1> QED
  BY <1>1, <1>2, <1>3, <1>4

LEMMA ReturnOut ==
  ASSUME NInv, NEW p \in Proc, NEW o \in Op, NEW c \in Cid, Returns(p, o, c),
         NEW x \in DataSet, NEW r \in Proc, Edge(prog, p, r, x)
  PROVE  SentIn(inst'[p][x.cid], x, Out(p)'[x.cid]) <=> SentIn(inst[p][x.cid], x, Out(p)[x.cid])
<1>0. LInv /\ OpenInv /\ CallsInv /\ Return(p, o, c) /\ step'[p] = {} /\ x.cid \in Cid
  BY DEF NInv, LInv, Returns, DataSet
<1>1. At(p, o, c) /\ Required[o] \subseteq inst[p][c].done
  BY ReturnFrame
<1>2. Out(p)'[x.cid] = {}
  BY <1>0 DEF Out
<1>3. o # "SR" \/ x.cid # c => Out(p)[x.cid] = {}
  BY <1>0, <1>1, OneCall DEF Out
<1>4. o = "SR" /\ x.cid = c /\ x.gen = inst[p][c].gen => x.dir \in Out(p)[x.cid]
  <2> SUFFICES ASSUME o = "SR", x.cid = c, x.gen = inst[p][c].gen
               PROVE  x.dir \in Out(p)[x.cid]
    OBVIOUS
  <2>1. inst[p][c].done # {}
    BY <1>1 DEF Required
  <2>2. x.dir \in DOMAIN SendInfo(p, c)
    BY <1>0, <2>1, EdgeInfo
  <2>3. step[p] = DOMAIN SendInfo(p, c) /\ May(p, "SR", c)
    BY <1>0 DEF Returns, Return
  <2> QED
    BY <2>2, <2>3 DEF Out
<1> QED
  BY <1>0, <1>2, <1>3, <1>4, ReturnSent

\* What has come of another communication, or of the same in SR.
LEMMA ReturnKeeps ==
  ASSUME NInv, NEW p \in Proc, NEW o \in Op, NEW c \in Cid, Returns(p, o, c),
         NEW e \in Cid, e # c \/ o \in {"SR", "DN"}, inst[p][e].done # {}
  PROVE  /\ handle'[p][e] = handle[p][e] /\ RecvInfo(p, e)' = RecvInfo(p, e)
         /\ \A d \in DOMAIN RecvInfo(p, e) :
              recvreq'[p][handle[p][e]][d] = recvreq[p][handle[p][e]][d]
<1>1. LInv /\ BankStep(p)
  BY DEF NInv, Returns
<1>2. handle'[p][e] = handle[p][e] /\ RecvInfo(p, e)' = RecvInfo(p, e)
  BY <1>1, OpenKept
<1> QED
  BY <1>2 DEF Returns

\* The directions received do not change with what they do not depend on.
LEMMA GotStays ==
  ASSUME NEW p \in Proc, NEW e \in Cid, RecvInfo(p, e)' = RecvInfo(p, e),
         handle'[p][e] = handle[p][e], "DR" \in inst'[p][e].done <=> "DR" \in inst[p][e].done,
         \A d \in DOMAIN RecvInfo(p, e) :
           recvreq'[p][handle[p][e]][d] = recvreq[p][handle[p][e]][d]
  PROVE  Got(p)'[e] = Got(p)[e]
<1>1. Got(p)[e] = {d \in DOMAIN RecvInfo(p, e) :
        "DR" \in inst[p][e].done /\ recvreq[p][handle[p][e]][d].st # "active"}
  BY DEF Got
<1>2. Got(p)'[e] = {d \in DOMAIN RecvInfo(p, e)' :
        "DR" \in inst'[p][e].done /\ recvreq'[p][handle'[p][e]][d].st # "active"}
  BY DEF Got
<1> QED
  BY <1>1, <1>2

LEMMA ReturnGot ==
  ASSUME NInv, NEW p \in Proc, NEW o \in Op, NEW c \in Cid, Returns(p, o, c),
         NEW x \in DataSet, NEW q \in Proc, Edge(prog, q, p, x)
  PROVE  PendIn(inst'[p][x.cid], x, Got(p)'[x.cid]) <=> PendIn(inst[p][x.cid], x, Got(p)[x.cid])
<1>0. /\ RInv /\ LInv /\ OpenInv /\ CallsInv /\ Return(p, o, c) /\ BankStep(p) /\ x.cid \in Cid
  BY DEF NInv, LInv, Returns, DataSet
<1>1. /\ May(p, o, c) /\ o \notin inst[p][c].done /\ Required[o] \subseteq inst[p][c].done
      /\ inst'[p][c].done = DoneAfter(inst[p][c].done, o)
      /\ \A e \in Cid : e # c => inst'[p][e] = inst[p][e]
  BY ReturnFrame
<1> DEFINE G == Got(p)[x.cid]
           G2 == Got(p)'[x.cid]
<1>2. x.cid # c /\ inst[p][x.cid].done # {} => G2 = G
  <2> SUFFICES ASSUME NEW e \in Cid, e # c, inst[p][e].done # {} PROVE Got(p)'[e] = Got(p)[e]
    BY <1>0
  <2>1. /\ handle'[p][e] = handle[p][e] /\ RecvInfo(p, e)' = RecvInfo(p, e)
        /\ \A d \in DOMAIN RecvInfo(p, e) :
             recvreq'[p][handle[p][e]][d] = recvreq[p][handle[p][e]][d]
    BY ReturnKeeps
  <2>2. inst'[p][e] = inst[p][e]
    BY <1>1
  <2> QED
    BY <2>1, <2>2, GotStays
<1>3. o = "SR" /\ x.cid = c => G2 = G
  <2> SUFFICES ASSUME o = "SR", x.cid = c PROVE Got(p)'[c] = Got(p)[c]
    OBVIOUS
  <2>1. "DR" \in inst[p][c].done /\ "DR" \in inst'[p][c].done
    BY <1>1 DEF Required, DoneAfter
  <2>2. /\ handle'[p][c] = handle[p][c] /\ RecvInfo(p, c)' = RecvInfo(p, c)
        /\ \A d \in DOMAIN RecvInfo(p, c) :
             recvreq'[p][handle[p][c]][d] = recvreq[p][handle[p][c]][d]
    BY <2>1, ReturnKeeps
  <2> QED
    BY <2>1, <2>2, GotStays
<1>4. o = "DR" /\ x.cid = c => G = {} /\ G2 = {}
  <2> SUFFICES ASSUME o = "DR", x.cid = c PROVE Got(p)[c] = {} /\ Got(p)'[c] = {}
    OBVIOUS
  <2>1. "DR" \notin inst[p][c].done /\ inst[p][c].done # {}
    BY <1>1 DEF Required
  <2>2. handle'[p][c] = handle[p][c] /\ RecvInfo(p, c)' = RecvInfo(p, c)
    BY <1>0, <2>1, OpenKept
  <2>3. \A d \in DOMAIN RecvInfo(p, c) : recvreq'[p][handle[p][c]][d].st = "active"
    BY <2>1 DEF Returns
  <2> QED
    BY <2>1, <2>2, <2>3 DEF Got
<1>5. o = "NEW" /\ x.cid = c => G2 = {}
  <2> SUFFICES ASSUME o = "NEW", x.cid = c PROVE Got(p)'[c] = {}
    OBVIOUS
  <2>1. inst[p][c].done = {}
    BY <1>0, NewClosed DEF Return
  <2>2. "DR" \notin inst'[p][c].done
    BY <1>1, <2>1 DEF DoneAfter
  <2> QED
    BY <2>2 DEF Got
<1>6. o = "DN" /\ x.cid = c /\ x.gen = inst[p][c].gen => x.dir \in G
  <2> SUFFICES ASSUME o = "DN", x.cid = c, x.gen = inst[p][c].gen PROVE x.dir \in Got(p)[c]
    OBVIOUS
  <2>1. "DR" \in inst[p][c].done
    BY <1>1 DEF Required
  <2>2. x.dir \in DOMAIN RecvInfo(p, c)
    BY <1>0, <2>1, EdgeInfo
  <2>3. x.dir \in step[p] /\ May(p, "DN", c)
    BY <1>1, <2>2 DEF Returns
  <2>4. recvreq[p][handle[p][c]][x.dir].st = "null"
    BY <1>0, <2>2, <2>3, Unmarshalled
  <2> QED
    BY <2>1, <2>2, <2>4 DEF Got
<1> HIDE DEF G, G2
<1>7. /\ x.cid # c /\ inst[p][x.cid].done # {} => (x.dir \in G2 <=> x.dir \in G)
      /\ o \in {"DR", "SR"} /\ x.cid = c /\ "DN" \notin inst[p][c].done /\ x.gen = inst[p][c].gen =>
           (x.dir \in G2 <=> x.dir \in G)
      /\ o = "NEW" /\ x.cid = c => x.dir \notin G2
      /\ o = "DN" /\ x.cid = c /\ x.gen = inst[p][c].gen => x.dir \in G
  BY <1>2, <1>3, <1>4, <1>5, <1>6
<1>8. PendIn(inst'[p][x.cid], x, G2) <=> PendIn(inst[p][x.cid], x, G)
  BY <1>0, <1>7, ReturnPend
<1> QED
  BY <1>8 DEF G, G2

LEMMA ReturnPairs ==
  ASSUME NInv, NEW p \in Proc, NEW o \in Op, NEW c \in Cid, Returns(p, o, c)
  PROVE  PairsOK'
<1>0. PairsOK /\ net' = net
  BY DEF NInv, Returns
<1>1. /\ prog' = prog
      /\ \A r \in Proc : r # p => /\ pos'[r] = pos[r] /\ inst'[r] = inst[r]
                                  /\ handle'[r] = handle[r] /\ commbank'[r] = commbank[r]
      /\ \A r \in Proc : pos[r] \in Nat /\ pos'[r] \in Nat /\ pos[r] <= pos'[r]
  BY ReturnFrame
<1>2. \A r \in Proc : r # p => step'[r] = step[r] /\ recvreq'[r] = recvreq[r]
  BY DEF Returns
<1>3. \A r \in Proc : r # p => Out(r)' = Out(r) /\ Got(r)' = Got(r)
  BY <1>1, <1>2, SameOut, SameGot
<1>4. ASSUME NEW q \in Proc, NEW r \in Proc, NEW x \in DataSet, Edge(prog, q, r, x)
      PROVE  /\ SentIn(inst'[q][x.cid], x, Out(q)'[x.cid]) <=> SentIn(inst[q][x.cid], x, Out(q)[x.cid])
             /\ PendIn(inst'[r][x.cid], x, Got(r)'[x.cid]) <=> PendIn(inst[r][x.cid], x, Got(r)[x.cid])
  <2>1. SentIn(inst'[q][x.cid], x, Out(q)'[x.cid]) <=> SentIn(inst[q][x.cid], x, Out(q)[x.cid])
    <3>1. CASE q = p
      BY <1>4, <3>1, ReturnOut
    <3>2. CASE q # p
      BY <1>1, <1>3, <3>2
    <3> QED
      BY <3>1, <3>2
  <2>2. PendIn(inst'[r][x.cid], x, Got(r)'[x.cid]) <=> PendIn(inst[r][x.cid], x, Got(r)[x.cid])
    <3>1. CASE r = p
      BY <1>4, <3>1, ReturnGot
    <3>2. CASE r # p
      BY <1>1, <1>3, <3>2
    <3> QED
      BY <3>1, <3>2
  <2> QED
    BY <2>1, <2>2
<1> QED
  BY <1>0, <1>1, <1>4, QuietPairs

LEMMA ReturnData ==
  ASSUME NInv, NEW p \in Proc, NEW o \in Op, NEW c \in Cid, Returns(p, o, c)
  PROVE  DataOK(p)'
<1>0. /\ LInv /\ CallsInv /\ DataOK(p) /\ BankStep(p) /\ Return(p, o, c) /\ ghost' = ghost
  BY DEF NInv, LInv, Returns
<1>1. /\ At(p, o, c)
      /\ inst'[p][c].done = DoneAfter(inst[p][c].done, o)
      /\ \A e \in Cid : e # c => inst'[p][e] = inst[p][e]
  BY ReturnFrame
<1>2. ASSUME NEW e \in Cid, e # c \/ o = "SR", Receiving(p, e)', NEW d \in DOMAIN RecvInfo(p, e)'
      PROVE  DirOK(p, e, d)'
  <2>1. Receiving(p, e) /\ inst'[p][e].gen = inst[p][e].gen
    <3>1. CASE e # c
      BY <1>1, <1>2, <3>1 DEF Receiving
    <3>2. CASE e = c /\ o = "SR"
      <4>1. inst'[p][c].done = inst[p][c].done \cup {"SR"}
        BY <1>1, <3>2 DEF DoneAfter
      <4>2. ~At(p, "NEW", c)
        BY <1>1, <3>2, OneCall
      <4>3. inst'[p][c].gen = inst[p][c].gen
        <5>1. inst'[p][c] = [done |-> DoneAfter(inst[p][c].done, o), gen |-> Gen(p, c)]
          BY <1>0, ReturnStep
        <5>2. inst'[p][c].gen = Gen(p, c)
          BY <5>1
        <5> QED
          BY <4>2, <5>2 DEF Gen
      <4> QED
        BY <1>2, <3>2, <4>1, <4>3 DEF Receiving
    <3> QED
      BY <1>2, <3>1, <3>2
  <2>2. inst[p][e].done # {}
    BY <2>1 DEF Receiving
  <2>3. /\ handle'[p][e] = handle[p][e] /\ RecvInfo(p, e)' = RecvInfo(p, e)
        /\ \A b \in DOMAIN RecvInfo(p, e) :
             recvreq'[p][handle[p][e]][b] = recvreq[p][handle[p][e]][b]
    <3>1. e # c \/ o \in {"SR", "DN"}
      BY <1>2
    <3> QED
      BY <2>2, <3>1, ReturnKeeps
  <2>4. DirOK(p, e, d)
    BY <1>0, <1>2, <2>1, <2>3 DEF DataOK
  <2>5. ~May(p, "DN", e)
    BY <1>1, <1>2, OneCall
  <2>6. /\ recvreq'[p][handle[p][e]][d] = recvreq[p][handle[p][e]][d]
        /\ ghost'[p][e][d] = ghost[p][e][d]
    BY <1>0, <1>2, <2>3
  <2> QED
    BY <2>1, <2>3, <2>4, <2>5, <2>6, DirKept
<1>3. ASSUME o # "SR", Receiving(p, c)', NEW d \in DOMAIN RecvInfo(p, c)'
      PROVE  DirOK(p, c, d)'
  <2>1. /\ "DR" \in DoneAfter(inst[p][c].done, o)
        /\ "DN" \notin DoneAfter(inst[p][c].done, o)
    BY <1>1, <1>3 DEF Receiving
  <2>2. inst[p][c].done # {} /\ o # "DN" /\ o # "OLD"
    <3>1. o # "DN" /\ o # "OLD"
      BY <2>1 DEF DoneAfter
    <3>2. "DR" \in inst[p][c].done \/ o = "DR"
      BY <2>1 DEF DoneAfter
    <3>3. Required[o] \subseteq inst[p][c].done
      BY ReturnFrame
    <3>4. "NEW" \in Required["DR"]
      BY DEF Required
    <3> QED
      BY <3>1, <3>2, <3>3, <3>4
  <2>3. o = "DR"
    <3>1. o # "NEW"
      BY <1>0, <2>2, NewClosed DEF Return
    <3> QED
      BY <1>3, <2>2, <3>1 DEF Op
  <2>4. handle'[p][c] = handle[p][c] /\ RecvInfo(p, c)' = RecvInfo(p, c)
    BY <1>0, <2>2, OpenKept
  <2>5. recvreq'[p][handle[p][c]][d].st = "active"
    BY <1>3, <2>2, <2>3, <2>4 DEF Returns
  <2> QED
    BY <2>4, <2>5 DEF DirOK
<1>4. \A e \in Cid : Receiving(p, e)' => \A d \in DOMAIN RecvInfo(p, e)' : DirOK(p, e, d)'
  BY <1>2, <1>3
<1> QED
  BY <1>4 DEF DataOK

\* No MPI_Send of the processor waits.
LEMMA ReturnSync ==
  ASSUME NInv, NEW p \in Proc, NEW o \in Op, NEW c \in Cid, Returns(p, o, c)
  PROVE  SyncOK(p)'
<1>1. SyncOK(p) /\ net' = net /\ (o = "SR" => ~Blocked(p)) /\ At(p, o, c)
  BY DEF NInv, Returns, Return, May
<1>2. ASSUME NEW q \in Proc, NEW i \in 1..Len(net[p][q]), net[p][q][i].sync
      PROVE  FALSE
  <2>1. o # "SR"
    BY <1>1, <1>2 DEF Blocked
  <2>2. May(p, "SR", net[p][q][i].val.cid)
    BY <1>1, <1>2 DEF SyncOK
  <2> QED
    BY <1>1, <2>1, <2>2, OneCall
<1> QED
  BY <1>1, <1>2 DEF SyncOK

LEMMA ReturnStays ==
  ASSUME NInv, NEW p \in Proc, NEW o \in Op, NEW c \in Cid, Returns(p, o, c)
  PROVE  PairsOK' /\ \A r \in Proc : DataOK(r)' /\ SyncOK(r)'
<1>1. /\ prog' = prog /\ net' = net /\ ghost' = ghost
      /\ \A r \in Proc : r # p => /\ pos'[r] = pos[r] /\ inst'[r] = inst[r]
                                  /\ handle'[r] = handle[r] /\ commbank'[r] = commbank[r]
                                  /\ step'[r] = step[r] /\ recvreq'[r] = recvreq[r]
  BY ReturnFrame DEF Returns
<1>2. \A r \in Proc : r # p => DataOK(r)' /\ SyncOK(r)'
  BY <1>1, OthersData, SyncKept
<1> QED
  BY <1>2, ReturnPairs, ReturnData, ReturnSync

\* The start and the end of a tile, and tiles a processor does not have.
LEMMA LoopStays ==
  ASSUME NInv, NEW p \in Proc, Loop(p)
  PROVE  PairsOK' /\ \A r \in Proc : DataOK(r)' /\ SyncOK(r)'
<1>0. RInv /\ LInv /\ CallsInv /\ PairsOK /\ StepOK(p) /\ DataOK(p) /\ SyncOK(p)
  BY DEF NInv, RInv, LInv
<1>1. BankStep(p) /\ UNCHANGED <<recvreq, step, net, ghost, handle, commbank>>
  BY DEF BankStep, Loop, LoopInit, LoopPost, bankVars
<1>2. PICK o \in {"INIT", "POST", "NEW"}, c \in Cid : At(p, o, c)
  BY DEF Loop, LoopInit, LoopPost, Pass, SkipTile, SkipTo, AtOp
<1>3. step[p] = {}
  BY <1>0, <1>2, Idle DEF Op, LoopOp
<1>4. prog' = prog /\ \A r \in Proc : r # p => pos'[r] = pos[r] /\ inst'[r] = inst[r]
  BY <1>0, <1>1, OthersKeep
<1>5. \A e \in Cid : /\ inst'[p][e].done = inst[p][e].done
                     /\ inst[p][e].done # {} => inst'[p][e] = inst[p][e]
  <2>1. CASE SkipTile(p)
    BY <1>0, <2>1, SkipStep
  <2>2. CASE LoopInit(p) \/ LoopPost(p)
    BY <2>2 DEF LoopInit, LoopPost, Pass
  <2> QED
    BY <2>1, <2>2 DEF Loop
<1>6. \A r, e : RecvInfo(r, e)' = RecvInfo(r, e)
  BY <1>1 DEF RecvInfo
<1>7. Out(p)' = Out(p) /\ Got(p)' = Got(p)
  <2>1. Out(p)' = Out(p)
    BY <1>1, <1>3 DEF Out
  <2>2. Got(p)' = Got(p)
    BY <1>1, <1>5, <1>6 DEF Got
  <2> QED
    BY <2>1, <2>2
<1>8. \A r \in Proc : r # p => Out(r)' = Out(r) /\ Got(r)' = Got(r)
  BY <1>1, <1>4, SameOut, SameGot
<1>9. \A r \in Proc : pos[r] \in Nat /\ pos'[r] \in Nat /\ pos[r] <= pos'[r]
  <2>1. pos \in [Proc -> Nat] /\ \A r \in Proc : pos[r] \in Nat
    BY <1>0 DEF CallsInv, CallsTypeOK
  <2>2. pos'[p] \in Nat /\ pos[p] <= pos'[p]
    <3>1. CASE SkipTile(p)
      <4>1. PICK n \in (pos[p] + 1)..Len(prog.calls) : SkipTo(p, n)
        BY <3>1 DEF SkipTile
      <4> QED
        BY <2>1, <4>1 DEF SkipTo
    <3>2. CASE LoopInit(p) \/ LoopPost(p)
      BY <2>1, <3>2 DEF LoopInit, LoopPost, Pass
    <3> QED
      BY <3>1, <3>2 DEF Loop
  <2> QED
    BY <1>4, <2>1, <2>2
<1>10. ASSUME NEW x \in DataSet
       PROVE  /\ (\E r \in Proc : Edge(prog, p, r, x)) =>
                   (SentIn(inst'[p][x.cid], x, Out(p)[x.cid]) <=> SentIn(inst[p][x.cid], x, Out(p)[x.cid]))
              /\ (\E q \in Proc : Edge(prog, q, p, x)) =>
                   (PendIn(inst'[p][x.cid], x, Got(p)[x.cid]) <=> PendIn(inst[p][x.cid], x, Got(p)[x.cid]))
  <2>1. CASE SkipTile(p)
    BY <1>0, <2>1, SkipQuiet
  <2>2. CASE LoopInit(p) \/ LoopPost(p)
    BY <2>2 DEF LoopInit, LoopPost, Pass
  <2> QED
    BY <2>1, <2>2 DEF Loop
<1>11. \A q, r \in Proc, x \in DataSet : Edge(prog, q, r, x) =>
         /\ SentIn(inst'[q][x.cid], x, Out(q)'[x.cid]) <=> SentIn(inst[q][x.cid], x, Out(q)[x.cid])
         /\ PendIn(inst'[r][x.cid], x, Got(r)'[x.cid]) <=> PendIn(inst[r][x.cid], x, Got(r)[x.cid])
  BY <1>4, <1>7, <1>8, <1>10
<1>12. PairsOK'
  BY <1>0, <1>1, <1>4, <1>9, <1>11, QuietPairs
<1>13. DataOK(p)'
  <2> SUFFICES ASSUME NEW e \in Cid, Receiving(p, e)', NEW d \in DOMAIN RecvInfo(p, e)'
               PROVE  DirOK(p, e, d)'
    BY DEF DataOK
  <2>1. Receiving(p, e) /\ inst'[p][e] = inst[p][e]
    BY <1>5 DEF Receiving
  <2>2. DirOK(p, e, d)
    BY <1>0, <1>6, <2>1 DEF DataOK
  <2> QED
    BY <1>1, <1>3, <1>6, <2>1, <2>2, DirKept
<1>14. SyncOK(p)'
  <2> SUFFICES ASSUME NEW q \in Proc, NEW i \in 1..Len(net[p][q]), net[p][q][i].sync
               PROVE  FALSE
    BY <1>1 DEF SyncOK
  <2>1. May(p, "SR", net[p][q][i].val.cid)
    BY <1>0 DEF SyncOK
  <2> QED
    BY <1>2, <2>1, OneCall
<1>15. \A r \in Proc : r # p => DataOK(r)' /\ SyncOK(r)'
  BY <1>1, <1>4, OthersData, SyncKept
<1> QED
  BY <1>12, <1>13, <1>14, <1>15

-----------------------------------------------------------------------------
\* Within a call, what is said of a direction holds until its request or its
\* ghost area changes.
LEMMA WithinCall ==
  ASSUME UNCHANGED <<callVars, bankVars>>
  PROVE  /\ prog' = prog /\ pos' = pos /\ inst' = inst /\ handle' = handle /\ commbank' = commbank
         /\ \A r, o, e : May(r, o, e)' <=> May(r, o, e)
         /\ \A r, e : RecvInfo(r, e)' = RecvInfo(r, e) /\ SendInfo(r, e)' = SendInfo(r, e)
         /\ \A r, e : Receiving(r, e)' <=> Receiving(r, e)
BY DEF May, At, Running, RecvInfo, SendInfo, Receiving, callVars, bankVars

\* One iteration of SR.
SendsNext(p, c, d, wait) ==
  LET info == SendInfo(p, c)[d]
      msg == [tag |-> info.dyn_commid, sync |-> wait,
              val |-> Data(p, info.area, inst[p][info.area].gen, d)]
  IN /\ May(p, "SR", c) /\ ~Blocked(p) /\ d \notin step[p]
     /\ net' = [net EXCEPT ![p][info.proc] = Append(@, msg)]
     /\ step' = [step EXCEPT ![p] = @ \cup {d}]
     /\ UNCHANGED <<callVars, bankVars, recvreq, ghost>>

LEMMA SendsIs ==
  ASSUME NEW p, SRSend(p)
  PROVE  \E c \in Cid : \E d \in DOMAIN SendInfo(p, c), wait \in BOOLEAN : SendsNext(p, c, d, wait)
BY DEF SRSend, SendsNext

LEMMA SendPairs ==
  ASSUME NInv, NEW p \in Proc, NEW c \in Cid, NEW d \in DOMAIN SendInfo(p, c), NEW wait \in BOOLEAN,
         SendsNext(p, c, d, wait)
  PROVE  PairsOK' /\ SyncOK(p)' /\ \A r, q \in Proc : r # p => net'[r][q] = net[r][q]
<1>0. TInv /\ LInv /\ OpenInv /\ PairsOK
  BY DEF NInv, RInv
<1> DEFINE info == SendInfo(p, c)[d]
           msg == [tag |-> info.dyn_commid, sync |-> wait,
                   val |-> Data(p, c, inst[p][c].gen, d)]
<1>1. /\ May(p, "SR", c) /\ ~Blocked(p) /\ d \notin step[p]
      /\ net' = [net EXCEPT ![p][info.proc] = Append(@,
                   [tag |-> info.dyn_commid, sync |-> wait,
                    val |-> Data(p, info.area, inst[p][info.area].gen, d)])]
      /\ step' = [step EXCEPT ![p] = @ \cup {d}]
      /\ UNCHANGED <<callVars, bankVars, recvreq, ghost>>
  BY DEF SendsNext
<1>2. inst[p][c].done # {} /\ "SR" \notin inst[p][c].done
  BY <1>1 DEF May, Required
<1>3. info.proc \in Proc /\ info.area = c /\ Data(p, c, inst[p][c].gen, d) \in DataSet
  BY <1>0, <1>2, SendEdge
<1>4. info.dyn_commid \in DynId
  BY <1>0, InfoInDirs DEF IsMap, PerComm, TInv
<1>5. /\ net' = [net EXCEPT ![p][info.proc] = Append(net[p][info.proc], msg)]
      /\ net \in [Proc -> [Proc -> Seq(Message)]] /\ msg \in Message
  BY <1>0, <1>1, <1>3, <1>4 DEF TInv, MPITypeOK, Message
<1>6. msg.tag = info.dyn_commid /\ msg.val = Data(p, c, inst[p][c].gen, d)
  OBVIOUS
<1>7. /\ prog' = prog /\ pos' = pos /\ inst' = inst /\ handle' = handle /\ commbank' = commbank
      /\ \A r, o, e : May(r, o, e)' <=> May(r, o, e)
  BY <1>1, WithinCall
<1>8. step'[p] = step[p] \cup {d} /\ \A r \in Proc : r # p => step'[r] = step[r]
  BY <1>0, <1>1 DEF TInv, MPITypeOK
<1>9. /\ \A r \in Proc : r # p => Out(r)' = Out(r)
      /\ \A r \in Proc : Got(r)' = Got(r)
  BY <1>1, <1>7, <1>8, SameOut, SameGot
<1>10. d \notin Out(p)[c] /\ Grows(Out(p), Out(p)', c, d)
  <2>1. d \notin Out(p)[c]
    BY <1>1 DEF Out
  <2>2. ASSUME NEW e \in Cid
        PROVE  Out(p)'[e] = IF e = c THEN Out(p)[c] \cup {d} ELSE Out(p)[e]
    <3>1. May(p, "SR", e) <=> e = c
      BY <1>1, OneCall DEF May
    <3> QED
      BY <1>7, <1>8, <3>1 DEF Out
  <2> QED
    BY <2>1, <2>2 DEF Grows
<1> HIDE DEF info, msg
<1>11. net'[p][info.proc] = Append(net[p][info.proc], msg)
  BY <1>3, <1>5
<1>12. \A r, q \in Proc : <<r, q>> # <<p, info.proc>> => net'[r][q] = net[r][q]
  BY <1>3, <1>5
<1>13. ASSUME NEW r \in Proc
       PROVE  PairOK(prog, pos[p], p, r, inst[p], inst[r], Out(p)', Got(r), net'[p][r])
  <2> DEFINE ch == net[p][r]
             out == Out(p)
             out2 == Out(p)'
             got == Got(r)
             ip == inst[r]
  <2>1. /\ PairOK(prog, pos[p], p, r, inst[p], ip, out, got, ch)
        /\ ch \in Seq(Message) /\ d \notin out[c] /\ Grows(out, out2, c, d)
    BY <1>0, <1>5, <1>10 DEF PairsOK
  <2>2. CASE r = info.proc
    <3>1. /\ net'[p][r] = Append(ch, msg)
          /\ r = SendInfo(p, c)[d].proc /\ msg.tag = SendInfo(p, c)[d].dyn_commid
      BY <1>6, <1>11, <2>2 DEF info
    <3> HIDE DEF ch, out, out2, got, ip
    <3>2. PairOK(prog, pos[p], p, r, inst[p], ip, out2, got, Append(ch, msg))
      BY <1>0, <1>2, <1>5, <1>6, <2>1, <3>1, SendPair
    <3> QED
      BY <3>1, <3>2 DEF out2, got, ip
  <2>3. CASE r # info.proc
    <3>1. net'[p][r] = ch /\ r # SendInfo(p, c)[d].proc
      BY <1>12, <2>3 DEF info
    <3> HIDE DEF ch, out, out2, got, ip
    <3>2. PairOK(prog, pos[p], p, r, inst[p], ip, out2, got, ch)
      BY <1>0, <1>2, <2>1, <3>1, SendOther
    <3> QED
      BY <3>1, <3>2 DEF out2, got, ip
  <2> QED
    BY <2>2, <2>3
<1>14. PairsOK'
  <2> SUFFICES ASSUME NEW q \in Proc, NEW r \in Proc
               PROVE  PairOK(prog, pos[q], q, r, inst[q], inst[r], Out(q)', Got(r)', net'[q][r])
    BY <1>7 DEF PairsOK
  <2>1. CASE q # p
    BY <1>0, <1>9, <1>12, <2>1 DEF PairsOK
  <2>2. CASE q = p
    BY <1>9, <1>13, <2>2
  <2> QED
    BY <2>1, <2>2
<1>15. SyncOK(p)'
  <2> SUFFICES ASSUME NEW q \in Proc, NEW i \in 1..Len(net'[p][q]), net'[p][q][i].sync
               PROVE  LET x == net'[p][q][i].val IN May(p, "SR", x.cid) /\ x.gen = inst[p][x.cid].gen
    BY <1>7 DEF SyncOK
  <2>1. \A j \in 1..Len(net[p][q]) : ~net[p][q][j].sync
    BY <1>1 DEF Blocked
  <2>2. q = info.proc
    BY <1>12, <2>1
  <2>3. net'[p][q] = Append(net[p][q], msg) /\ net[p][q] \in Seq(Message)
    BY <1>5, <1>11, <2>2
  <2>4. net'[p][q][i] = msg
    BY <2>1, <2>3
  <2>5. net'[p][q][i].val = Data(p, c, inst[p][c].gen, d)
    BY <1>6, <2>4
  <2>6. net'[p][q][i].val.cid = c /\ net'[p][q][i].val.gen = inst[p][c].gen
    BY <2>5 DEF Data
  <2> QED
    BY <1>1, <2>6
<1> QED
  BY <1>12, <1>14, <1>15

LEMMA SendStays ==
  ASSUME NInv, NEW p \in Proc, NEW c \in Cid, NEW d \in DOMAIN SendInfo(p, c), NEW wait \in BOOLEAN,
         SendsNext(p, c, d, wait)
  PROVE  PairsOK' /\ \A r \in Proc : DataOK(r)' /\ SyncOK(r)'
<1>1. UNCHANGED <<callVars, bankVars, recvreq, ghost>> /\ step' = [step EXCEPT ![p] = @ \cup {d}]
  BY DEF SendsNext
<1>2. PairsOK' /\ SyncOK(p)' /\ \A r, q \in Proc : r # p => net'[r][q] = net[r][q]
  BY SendPairs
<1>3. /\ prog' = prog /\ pos' = pos /\ inst' = inst /\ handle' = handle /\ commbank' = commbank
      /\ \A r, o, e : May(r, o, e)' <=> May(r, o, e)
      /\ \A r, e : RecvInfo(r, e)' = RecvInfo(r, e)
      /\ \A r, e : Receiving(r, e)' <=> Receiving(r, e)
  BY <1>1, WithinCall
<1>4. \A r \in Proc : step[r] \subseteq step'[r]
  BY <1>1 DEF NInv, RInv, TInv, MPITypeOK
<1>5. ASSUME NEW r \in Proc PROVE DataOK(r)'
  <2> SUFFICES ASSUME NEW e \in Cid, Receiving(r, e)', NEW b \in DOMAIN RecvInfo(r, e)'
               PROVE  DirOK(r, e, b)'
    BY DEF DataOK
  <2>1. DirOK(r, e, b)
    BY <1>3 DEF NInv, DataOK
  <2>2. May(r, "DN", e) /\ b \in step[r] => May(r, "DN", e)' /\ b \in step'[r]
    BY <1>3, <1>4
  <2>3. /\ inst'[r][e].gen = inst[r][e].gen /\ handle'[r][e] = handle[r][e]
        /\ RecvInfo(r, e)' = RecvInfo(r, e)
        /\ recvreq'[r][handle[r][e]][b] = recvreq[r][handle[r][e]][b]
        /\ ghost'[r][e][b] = ghost[r][e][b]
    BY <1>1, <1>3
  <2> QED
    BY <2>1, <2>2, <2>3, DirKept
<1>6. \A r \in Proc : r # p => SyncOK(r)'
  BY <1>2, <1>3, SyncKept
<1> QED
  BY <1>2, <1>5, <1>6

-----------------------------------------------------------------------------
\* A request of c changes: those of other open communications do not.
SetsRequest(p, c, d, v) == recvreq' = [recvreq EXCEPT ![p][handle[p][c]][d] = v]
OneRequest(p, c, d, v) ==
  /\ \A r \in Proc : r # p => recvreq'[r] = recvreq[r]
  /\ \A e \in Cid : inst[p][e].done # {} => \A b \in DOMAIN RecvInfo(p, e) :
       recvreq'[p][handle[p][e]][b] =
         IF e = c /\ b = d THEN v ELSE recvreq[p][handle[p][e]][b]

LEMMA RequestChange ==
  ASSUME TInv, NEW p \in Proc, NEW c \in Cid, inst[p][c].done # {},
         NEW d \in DOMAIN RecvInfo(p, c), NEW v, SetsRequest(p, c, d, v)
  PROVE  OneRequest(p, c, d, v)
<1> USE DEF SetsRequest
<1>1. recvreq \in [Proc -> [Slot -> [1..MaxDirs -> Request]]]
  BY DEF TInv, MPITypeOK
<1>2. \A r \in Proc : r # p => recvreq'[r] = recvreq[r]
  BY <1>1
<1>3. handle[p][c] \in Slot /\ d \in 1..MaxDirs
  BY HasSlot
<1>4. \A t \in Slot, b \in 1..MaxDirs :
        recvreq'[p][t][b] = IF t = handle[p][c] /\ b = d THEN v ELSE recvreq[p][t][b]
  <2> DEFINE s == handle[p][c]
  <2>1. s \in Slot /\ recvreq' = [recvreq EXCEPT ![p][s][d] = v]
    BY <1>3
  <2> HIDE DEF s
  <2> DEFINE f == recvreq[p][s]
  <2>2. f \in [1..MaxDirs -> Request] /\ recvreq'[p][s] = [f EXCEPT ![d] = v]
    <3>1. recvreq[p] \in [Slot -> [1..MaxDirs -> Request]]
      BY <1>1
    <3>2. recvreq'[p] = [recvreq[p] EXCEPT ![s] = [f EXCEPT ![d] = v]]
      BY <1>1, <2>1, Zenon
    <3>3. f \in [1..MaxDirs -> Request]
      BY <2>1, <3>1
    <3> HIDE DEF f
    <3>4. recvreq'[p][s] = [f EXCEPT ![d] = v]
      BY <2>1, <3>1, <3>2, Zenon
    <3> QED
      BY <3>3, <3>4
  <2>3. \A t \in Slot : t # s => recvreq'[p][t] = recvreq[p][t]
    BY <1>1, <2>1
  <2> HIDE DEF f
  <2>4. \A b \in 1..MaxDirs : recvreq'[p][s][b] = IF b = d THEN v ELSE f[b]
    BY <2>2, Zenon
  <2>5. \A t \in Slot, b \in 1..MaxDirs :
          recvreq'[p][t][b] = IF t = s /\ b = d THEN v ELSE recvreq[p][t][b]
    BY <2>3, <2>4 DEF f
  <2> QED
    BY <2>5 DEF s
<1>5. ASSUME NEW e \in Cid, inst[p][e].done # {}, NEW b \in DOMAIN RecvInfo(p, e)
      PROVE  recvreq'[p][handle[p][e]][b] =
               IF e = c /\ b = d THEN v ELSE recvreq[p][handle[p][e]][b]
  <2>1. handle[p][e] \in Slot /\ handle[p][e] # NoHandle /\ b \in 1..MaxDirs
    BY <1>5, HasSlot
  <2>2. e # c => handle[p][e] # handle[p][c]
    BY <1>5, <2>1, OwnSlot
  <2> QED
    BY <1>4, <2>1, <2>2
<1> QED
  BY <1>2, <1>5 DEF OneRequest

\* The message that MPI matches to a receive of c, at i in its channel.
Takes(p, c, d, i) ==
  LET q == RecvInfo(p, c)[d].proc
      x == Data(q, c, inst[p][c].gen, d)
      s == handle[p][c]
  IN /\ Waiting(p, c, d)
     /\ recvreq[p][s][d].st = "active"
     /\ i \in 1..Len(net[q][p]) /\ net[q][p][i].val = x
     /\ SentIn(inst[q][c], x, Out(q)[c])
     /\ recvreq' = [recvreq EXCEPT ![p][s][d] = [st |-> "complete", val |-> x]]
     /\ net' = [net EXCEPT ![q][p] = SubSeq(@, 1, i - 1) \o SubSeq(@, i + 1, Len(@))]
     /\ ghost' = IF <<p, d>> \in Consecutive THEN [ghost EXCEPT ![p][c][d] = x] ELSE ghost
     /\ UNCHANGED <<callVars, bankVars, step>>

\* What the posted receive of an open communication can take is its own.
LEMMA MatchOwn ==
  ASSUME NInv, NEW p \in Proc, NEW c \in Cid, NEW d, Waiting(p, c, d),
         recvreq[p][handle[p][c]][d].st = "active",
         NEW q, q = RecvInfo(p, c)[d].proc,
         NEW i \in 1..Len(net[q][p]), FirstAt(net[q][p], RecvInfo(p, c)[d].dyn_commid, i)
  PROVE  /\ net[q][p][i].val = Data(q, c, inst[p][c].gen, d)
         /\ SentIn(inst[q][c], Data(q, c, inst[p][c].gen, d), Out(q)[c])
         /\ RecvInfo(p, c)[d].area = c
<1>0. LInv /\ OpenInv /\ PairsOK /\ CallsInv
  BY DEF NInv, LInv
<1>1. /\ "DR" \in inst[p][c].done /\ "DN" \notin inst[p][c].done
      /\ d \in DOMAIN RecvInfo(p, c)
  BY DEF Waiting
<1>2. "NEW" \in inst[p][c].done /\ inst[p][c].done # {"NEW"} /\ inst[p][c].done # {}
  BY <1>0, <1>1 DEF CallsInv, OrderOK, Required
<1>3. q \in Proc /\ RecvInfo(p, c)[d].area = c
  BY <1>0, <1>1, <1>2, RecvSource
<1> DEFINE ch == net[q][p]
           out == Out(q)
           got == Got(p)
<1>4. /\ d \notin got[c] /\ i \in 1..Len(ch)
      /\ PairOK(prog, pos[q], q, p, inst[q], inst[p], out, got, ch)
      /\ FirstAt(ch, RecvInfo(p, c)[d].dyn_commid, i)
  BY <1>0, <1>3 DEF Got, PairsOK
<1> HIDE DEF ch, out, got
<1>5. /\ ch[i].val = Data(q, c, inst[p][c].gen, d)
      /\ SentIn(inst[q][c], ch[i].val, out[c])
  <2>1. /\ LInv /\ OpenInv /\ p \in Proc /\ c \in Cid
        /\ "NEW" \in inst[p][c].done /\ inst[p][c].done # {"NEW"} /\ "DN" \notin inst[p][c].done
        /\ d \in DOMAIN RecvInfo(p, c) /\ q = RecvInfo(p, c)[d].proc
        /\ d \notin got[c]
        /\ PairOK(prog, pos[q], q, p, inst[q], inst[p], out, got, ch)
        /\ i \in 1..Len(ch) /\ FirstAt(ch, RecvInfo(p, c)[d].dyn_commid, i)
    BY <1>0, <1>1, <1>2, <1>4
  <2> QED
    BY <2>1, FirstIsOwn
<1> QED
  BY <1>3, <1>5 DEF ch, out

LEMMA MatchIs ==
  ASSUME NInv, NEW p \in Proc, Match(p)
  PROVE  \E c \in Cid : \E d \in DOMAIN RecvInfo(p, c) : \E i : Takes(p, c, d, i)
<1>0. TInv /\ RequestsOK(p) /\ BankInv
  BY DEF NInv, RInv, TInv
<1>1. PICK q \in Proc, s \in Slot : \E d \in DOMAIN commbank[p][s].recvinfo :
      \E i \in 1..Len(net[q][p]) :
        /\ Matches(p, q, s, d, i)
        /\ recvreq' = [recvreq EXCEPT ![p][s][d] =
             [st |-> "complete", val |-> net[q][p][i].val]]
        /\ net' = [net EXCEPT ![q][p] =
             SubSeq(@, 1, i - 1) \o SubSeq(@, i + 1, Len(@))]
        /\ ghost' = IF <<p, d>> \in Consecutive
                    THEN [ghost EXCEPT ![p][commbank[p][s].recvinfo[d].area][d] =
                            net[q][p][i].val]
                    ELSE ghost
        /\ UNCHANGED <<callVars, bankVars, step>>
  BY Zenon DEF Match
<1>2. PICK d \in DOMAIN commbank[p][s].recvinfo, i \in 1..Len(net[q][p]) :
        /\ Matches(p, q, s, d, i)
        /\ recvreq' = [recvreq EXCEPT ![p][s][d] =
             [st |-> "complete", val |-> net[q][p][i].val]]
        /\ net' = [net EXCEPT ![q][p] =
             SubSeq(@, 1, i - 1) \o SubSeq(@, i + 1, Len(@))]
        /\ ghost' = IF <<p, d>> \in Consecutive
                    THEN [ghost EXCEPT ![p][commbank[p][s].recvinfo[d].area][d] =
                            net[q][p][i].val]
                    ELSE ghost
        /\ UNCHANGED <<callVars, bankVars, step>>
  BY <1>1, Zenon
<1>3. d \in 1..MaxDirs
  BY <1>0 DEF IsMap, BankInv, BankTypeOK
<1>4. recvreq[p][s][d].st = "active" /\ "active" # "null"
  BY <1>2 DEF Matches
<1>5. PICK c \in Cid : handle[p][c] = s /\ Waiting(p, c, d)
  BY <1>0, <1>3, <1>4 DEF RequestsOK
<1>6. RecvInfo(p, c) = commbank[p][s].recvinfo
  BY <1>5 DEF Waiting, InUse, RecvInfo
<1>7. /\ q = RecvInfo(p, c)[d].proc
      /\ FirstAt(net[q][p], RecvInfo(p, c)[d].dyn_commid, i)
  BY <1>2, <1>6 DEF Matches, FirstAt
<1>8. /\ net[q][p][i].val = Data(q, c, inst[p][c].gen, d)
      /\ SentIn(inst[q][c], Data(q, c, inst[p][c].gen, d), Out(q)[c])
      /\ RecvInfo(p, c)[d].area = c
  <2>1. /\ NInv /\ p \in Proc /\ c \in Cid /\ Waiting(p, c, d)
        /\ recvreq[p][handle[p][c]][d].st = "active"
        /\ q = RecvInfo(p, c)[d].proc
        /\ i \in 1..Len(net[q][p]) /\ FirstAt(net[q][p], RecvInfo(p, c)[d].dyn_commid, i)
    BY <1>2, <1>4, <1>5, <1>7
  <2> QED
    BY <2>1, MatchOwn
<1>9. Takes(p, c, d, i)
  BY <1>2, <1>4, <1>5, <1>6, <1>7, <1>8, Zenon DEF Takes
<1> QED
  BY <1>6, <1>9

\* What a ghost area is after a direction came into place.
LEMMA Placed ==
  ASSUME TInv, NEW p \in Proc, NEW c \in Cid, NEW d \in DOMAIN RecvInfo(p, c), NEW v,
         \/ ghost' = ghost
         \/ ghost' = [ghost EXCEPT ![p][c][d] = v] /\ ghost'[p][c][d] = v
  PROVE  /\ \A r \in Proc : r # p => ghost'[r] = ghost[r]
         /\ \A e \in Cid : \A b \in DOMAIN RecvInfo(p, e) :
              e # c \/ b # d => ghost'[p][e][b] = ghost[p][e][b]
<1>1. CASE ghost' = ghost
  BY <1>1
<1>2. CASE ghost' = [ghost EXCEPT ![p][c][d] = v]
  <2>1. IsGhost(ghost) /\ DOMAIN ghost = Proc
    BY DEF TInv, MPITypeOK, IsGhost
  <2>2. d \in 1..MaxDirs /\ \A e \in Cid : \A b \in DOMAIN RecvInfo(p, e) : b \in 1..MaxDirs
    BY HasSlot
  <2>3. Changed(ghost, ghost', p, c, d, v)
    BY <1>2 DEF Changed
  <2>4. OneChanged(ghost, ghost', p, c, d, v)
    BY <2>1, <2>2, <2>3, GhostChange
  <2>5. \A r \in Proc : r # p => ghost'[r] = ghost[r]
    BY <1>2, <2>1
  <2> QED
    BY <2>2, <2>4, <2>5 DEF OneChanged
<1> QED
  BY <1>1, <1>2

\* The receiver has got direction d of c now, and the rest as before.
LEMMA TakesGot ==
  ASSUME TInv, NEW p \in Proc, NEW c \in Cid, NEW d \in DOMAIN RecvInfo(p, c),
         "DR" \in inst[p][c].done, UNCHANGED <<callVars, bankVars>>, NEW v, v.st # "active",
         SetsRequest(p, c, d, v)
  PROVE  /\ \A r \in Proc : r # p => Got(r)' = Got(r)
         /\ Grows(Got(p), Got(p)', c, d)
<1>1. /\ inst' = inst /\ handle' = handle /\ commbank' = commbank
      /\ \A r, e : RecvInfo(r, e)' = RecvInfo(r, e)
  BY WithinCall
<1>2. /\ \A r \in Proc : r # p => recvreq'[r] = recvreq[r]
      /\ \A e \in Cid : inst[p][e].done # {} => \A b \in DOMAIN RecvInfo(p, e) :
           recvreq'[p][handle[p][e]][b] =
             IF e = c /\ b = d THEN v ELSE recvreq[p][handle[p][e]][b]
  <2>1. inst[p][c].done # {}
    OBVIOUS
  <2>2. OneRequest(p, c, d, v)
    BY <2>1, RequestChange
  <2> QED
    BY <2>2 DEF OneRequest
<1>3. \A r \in Proc : r # p => Got(r)' = Got(r)
  BY <1>1, <1>2, SameGot
<1>4. ASSUME NEW e \in Cid
      PROVE  Got(p)'[e] = IF e = c THEN Got(p)[c] \cup {d} ELSE Got(p)[e]
  <2>1. CASE "DR" \notin inst[p][e].done
    BY <1>1, <2>1 DEF Got
  <2>2. CASE "DR" \in inst[p][e].done
    <3>1. \A b \in DOMAIN RecvInfo(p, e) : b \in Got(p)'[e] <=> (e = c /\ b = d) \/ b \in Got(p)[e]
      BY <1>1, <1>2, <2>2 DEF Got
    <3>2. Got(p)'[e] \subseteq DOMAIN RecvInfo(p, e) /\ Got(p)[e] \subseteq DOMAIN RecvInfo(p, e)
      BY <1>1 DEF Got
    <3>3. CASE e = c
      BY <3>1, <3>2, <3>3
    <3>4. CASE e # c
      BY <3>1, <3>2, <3>4
    <3> QED
      BY <3>3, <3>4
  <2> QED
    BY <2>1, <2>2
<1> QED
  BY <1>3, <1>4 DEF Grows

LEMMA MatchPairs ==
  ASSUME NInv, NEW p \in Proc, NEW c \in Cid, NEW d \in DOMAIN RecvInfo(p, c), NEW i,
         Takes(p, c, d, i)
  PROVE  PairsOK' /\ \A r \in Proc : SyncOK(r)'
<1>0. TInv /\ LInv /\ OpenInv /\ PairsOK /\ CallsInv
  BY DEF NInv, RInv, LInv
<1> DEFINE q == RecvInfo(p, c)[d].proc
           x == Data(q, c, inst[p][c].gen, d)
           ch == net[q][p]
           ch2 == SubSeq(ch, 1, i - 1) \o SubSeq(ch, i + 1, Len(ch))
           v == [st |-> "complete", val |-> x]
<1>1. /\ Waiting(p, c, d) /\ i \in 1..Len(ch) /\ ch[i].val = x
      /\ SetsRequest(p, c, d, v)
      /\ net' = [net EXCEPT ![q][p] = ch2]
      /\ UNCHANGED <<callVars, bankVars, step>>
  BY DEF Takes, SetsRequest
<1>2. "DR" \in inst[p][c].done /\ inst[p][c].done # {}
  BY <1>1 DEF Waiting
<1>3. q \in Proc
  BY <1>0, <1>2, RecvEdge
<1>4. v.st # "active"
  OBVIOUS
<1>5. ch \in Seq(Message) /\ net \in [Proc -> [Proc -> Seq(Message)]]
  BY <1>0, <1>3 DEF TInv, MPITypeOK
<1>6. prog' = prog /\ pos' = pos /\ inst' = inst /\ step' = step
  BY <1>1, WithinCall
<1>7. \A r \in Proc : Out(r)' = Out(r)
  BY <1>6, SameOut
<1>8. /\ \A r \in Proc : r # p => Got(r)' = Got(r)
      /\ Grows(Got(p), Got(p)', c, d)
  <2> HIDE DEF v
  <2> QED
    BY <1>0, <1>1, <1>2, <1>4, TakesGot
<1>9. pos \in [Proc -> Nat]
  BY <1>0 DEF CallsInv, CallsTypeOK
<1>10. /\ net'[q][p] = ch2
       /\ \A a, b \in Proc : <<a, b>> # <<q, p>> => net'[a][b] = net[a][b]
  <2> HIDE DEF ch2
  <2> QED
    BY <1>1, <1>3, <1>5
<1>11. ASSUME NEW r \in Proc
       PROVE  PairOK(prog, pos[r], r, p, inst[r], inst[p], Out(r), Got(p)', net'[r][p])
  <2> DEFINE cr == net[r][p]
             out == Out(r)
             got == Got(p)
             got2 == Got(p)'
             ir == inst[r]
             n == pos[r]
  <2>1. /\ PairOK(prog, n, r, p, ir, inst[p], out, got, cr) /\ n \in Nat
        /\ Grows(got, got2, c, d)
    BY <1>0, <1>8, <1>9 DEF PairsOK
  <2>2. CASE r = q
    <3>1. /\ cr \in Seq(Message) /\ i \in 1..Len(cr) /\ cr[i].val = Data(r, c, inst[p][c].gen, d)
          /\ net'[r][p] = SubSeq(cr, 1, i - 1) \o SubSeq(cr, i + 1, Len(cr))
          /\ r = RecvInfo(p, c)[d].proc
      BY <1>1, <1>5, <1>10, <2>2
    <3> HIDE DEF cr, out, got, got2, ir, n
    <3>2. PairOK(prog, n, r, p, ir, inst[p], out, got2,
                 SubSeq(cr, 1, i - 1) \o SubSeq(cr, i + 1, Len(cr)))
      BY <1>0, <1>2, <2>1, <3>1, GetPair
    <3> QED
      BY <3>1, <3>2 DEF out, got2, ir, n
  <2>3. CASE r # q
    <3>1. r # RecvInfo(p, c)[d].proc /\ net'[r][p] = cr
      BY <1>10, <2>3
    <3> HIDE DEF cr, out, got, got2, ir, n
    <3>2. PairOK(prog, n, r, p, ir, inst[p], out, got2, cr)
      BY <1>0, <1>2, <2>1, <3>1, GetOther
    <3> QED
      BY <3>1, <3>2 DEF out, got2, ir, n, cr
  <2> QED
    BY <2>2, <2>3
<1>12. PairsOK'
  <2> SUFFICES ASSUME NEW a \in Proc, NEW b \in Proc
               PROVE  PairOK(prog, pos[a], a, b, inst[a], inst[b], Out(a)', Got(b)', net'[a][b])
    BY <1>6 DEF PairsOK
  <2>1. Out(a)' = Out(a)
    BY <1>7
  <2>2. CASE b # p
    <3>1. net'[a][b] = net[a][b]
      BY <1>10, <2>2
    <3> QED
      BY <1>0, <1>8, <2>1, <2>2, <3>1 DEF PairsOK
  <2> QED
    BY <1>11, <2>1, <2>2
<1>13. ASSUME NEW r \in Proc PROVE SyncOK(r)'
  <2>1. ASSUME NEW a \in Proc, NEW k \in 1..Len(net'[r][a])
        PROVE  \E j \in 1..Len(net[r][a]) : net'[r][a][k] = net[r][a][j]
    <3>1. CASE <<r, a>> # <<q, p>>
      BY <1>10, <3>1
    <3>2. CASE <<r, a>> = <<q, p>>
      <4>1. net'[r][a] = ch2 /\ net[r][a] = ch
        BY <1>10, <3>2
      <4>2. /\ Len(ch2) = Len(ch) - 1 /\ Len(ch2) \in Nat
            /\ \A j \in 1..Len(ch2) : ch2[j] = IF j < i THEN ch[j] ELSE ch[j + 1]
        <5> HIDE DEF ch
        <5> QED
          BY <1>1, <1>5, Removed
      <4> HIDE DEF ch, ch2
      <4>3. k \in 1..Len(ch2) /\ net'[r][a][k] = ch2[k]
        BY <4>1
      <4>4. \E j \in 1..Len(ch) : ch2[k] = ch[j]
        <5>1. Len(ch) \in Nat
          BY <1>5
        <5>2. CASE k < i
          BY <4>2, <4>3, <5>1, <5>2
        <5>3. CASE ~(k < i)
          BY <4>2, <4>3, <5>1, <5>3
        <5> QED
          BY <5>2, <5>3
      <4> QED
        BY <4>1, <4>3, <4>4
    <3> QED
      BY <3>1, <3>2
  <2> QED
    BY <1>6, <2>1, SyncKept
<1> QED
  BY <1>12, <1>13

\* Direction d of c at p changes: the others are as they were.
LEMMA OneDirection ==
  ASSUME NInv, NEW p \in Proc, NEW c \in Cid, NEW d \in DOMAIN RecvInfo(p, c),
         inst[p][c].done # {}, UNCHANGED <<callVars, bankVars>>,
         NEW v, SetsRequest(p, c, d, v), NEW w,
         \/ ghost' = ghost
         \/ ghost' = [ghost EXCEPT ![p][c][d] = w] /\ ghost'[p][c][d] = w,
         \A r \in Proc : step[r] \subseteq step'[r],
         \A r \in Proc : r # p => step'[r] = step[r],
         DirOK(p, c, d)'
  PROVE  \A r \in Proc : DataOK(r)'
<1>0. TInv /\ \A r \in Proc : DataOK(r)
  BY DEF NInv, RInv
<1>1. /\ prog' = prog /\ pos' = pos /\ inst' = inst /\ handle' = handle /\ commbank' = commbank
      /\ \A r, o, e : May(r, o, e)' <=> May(r, o, e)
      /\ \A r, e : RecvInfo(r, e)' = RecvInfo(r, e)
      /\ \A r, e : Receiving(r, e)' <=> Receiving(r, e)
  BY WithinCall
<1>2. /\ \A r \in Proc : r # p => recvreq'[r] = recvreq[r]
      /\ \A e \in Cid : inst[p][e].done # {} => \A b \in DOMAIN RecvInfo(p, e) :
           recvreq'[p][handle[p][e]][b] =
             IF e = c /\ b = d THEN v ELSE recvreq[p][handle[p][e]][b]
  <2>1. OneRequest(p, c, d, v)
    BY <1>0, RequestChange
  <2> QED
    BY <2>1 DEF OneRequest
<1>3. /\ \A r \in Proc : r # p => ghost'[r] = ghost[r]
      /\ \A e \in Cid : \A b \in DOMAIN RecvInfo(p, e) :
           e # c \/ b # d => ghost'[p][e][b] = ghost[p][e][b]
  BY <1>0, Placed
<1>4. \A r \in Proc : r # p => DataOK(r)'
  BY <1>1, <1>2, <1>3, OthersData
<1>5. DataOK(p)'
  <2> SUFFICES ASSUME NEW e \in Cid, Receiving(p, e)', NEW b \in DOMAIN RecvInfo(p, e)',
                      e # c \/ b # d
               PROVE  DirOK(p, e, b)'
    BY DEF DataOK
  <2>1. Receiving(p, e) /\ b \in DOMAIN RecvInfo(p, e)
    BY <1>1
  <2>2. DirOK(p, e, b) /\ inst[p][e].done # {}
    BY <1>0, <2>1 DEF DataOK, Receiving
  <2>3. recvreq'[p][handle[p][e]][b] = recvreq[p][handle[p][e]][b]
    BY <1>2, <2>1, <2>2
  <2>4. ghost'[p][e][b] = ghost[p][e][b]
    BY <1>3, <2>1
  <2>5. May(p, "DN", e) /\ b \in step[p] => May(p, "DN", e)' /\ b \in step'[p]
    BY <1>1
  <2>6. /\ inst'[p][e].gen = inst[p][e].gen /\ handle'[p][e] = handle[p][e]
        /\ RecvInfo(p, e)' = RecvInfo(p, e)
    BY <1>1
  <2> QED
    BY <2>2, <2>3, <2>4, <2>5, <2>6, DirKept
<1> QED
  BY <1>4, <1>5

LEMMA MatchData ==
  ASSUME NInv, NEW p \in Proc, NEW c \in Cid, NEW d \in DOMAIN RecvInfo(p, c), NEW i,
         Takes(p, c, d, i)
  PROVE  \A r \in Proc : DataOK(r)'
<1>0. TInv
  BY DEF NInv, RInv
<1> DEFINE x == Data(RecvInfo(p, c)[d].proc, c, inst[p][c].gen, d)
           v == [st |-> "complete", val |-> x]
<1>1. /\ Waiting(p, c, d) /\ SetsRequest(p, c, d, v)
      /\ ghost' = IF <<p, d>> \in Consecutive THEN [ghost EXCEPT ![p][c][d] = x] ELSE ghost
      /\ UNCHANGED <<callVars, bankVars, step>>
  BY DEF Takes, SetsRequest
<1>2. inst[p][c].done # {} /\ d \in 1..MaxDirs
  BY <1>0, <1>1, HasSlot DEF Waiting
<1>3. v.st = "complete" /\ v.val = x
  OBVIOUS
<1>4. /\ inst' = inst /\ handle' = handle /\ RecvInfo(p, c)' = RecvInfo(p, c)
  BY <1>1, WithinCall
<1> HIDE DEF x, v
<1>5. recvreq'[p][handle[p][c]][d] = v
  <2>1. OneRequest(p, c, d, v)
    BY <1>0, <1>1, <1>2, RequestChange
  <2> QED
    BY <1>2, <2>1 DEF OneRequest
<1>6. <<p, d>> \in Consecutive => ghost' = [ghost EXCEPT ![p][c][d] = x] /\ ghost'[p][c][d] = x
  <2> SUFFICES ASSUME <<p, d>> \in Consecutive PROVE ghost'[p][c][d] = x
    BY <1>1
  <2>1. IsGhost(ghost) /\ Changed(ghost, ghost', p, c, d, x)
    BY <1>0, <1>1 DEF TInv, MPITypeOK, IsGhost, Changed
  <2>2. OneChanged(ghost, ghost', p, c, d, x)
    BY <1>2, <2>1, GhostChange
  <2> QED
    BY <1>2, <2>2 DEF OneChanged
<1>7. DirOK(p, c, d)'
  <2>1. Data(RecvInfo(p, c)'[d].proc, c, inst'[p][c].gen, d) = x
    BY <1>4 DEF x
  <2>2. recvreq'[p][handle'[p][c]][d] = v
    BY <1>4, <1>5
  <2> QED
    BY <1>3, <1>6, <2>1, <2>2 DEF DirOK
<1>8. \/ ghost' = ghost
      \/ ghost' = [ghost EXCEPT ![p][c][d] = x] /\ ghost'[p][c][d] = x
  BY <1>1, <1>6
<1> QED
  BY <1>1, <1>2, <1>7, <1>8, OneDirection

-----------------------------------------------------------------------------
\* One iteration of DN, for direction d of c.
Unmarshals(p, c, d) ==
  LET r == recvreq[p][handle[p][c]][d] IN
  /\ May(p, "DN", c) /\ d \notin step[p] /\ r.st = "complete"
  /\ ghost' = IF <<p, d>> \in Consecutive THEN ghost ELSE [ghost EXCEPT ![p][c][d] = r.val]
  /\ SetsRequest(p, c, d, NullRequest)
  /\ step' = [step EXCEPT ![p] = @ \cup {d}]
  /\ UNCHANGED <<callVars, bankVars, net>>

LEMMA UnmarshalsIs ==
  ASSUME NInv, NEW p \in Proc, DNWait(p)
  PROVE  \E c \in Cid : \E d \in DOMAIN RecvInfo(p, c) : Unmarshals(p, c, d)
<1>0. LInv /\ OpenInv
  BY DEF NInv
<1>1. PICK c \in Cid : \E d \in DOMAIN RecvInfo(p, c) \ step[p] :
        /\ May(p, "DN", c)
        /\ recvreq[p][handle[p][c]][d].st = "complete"
        /\ ghost' = IF <<p, d>> \in Consecutive THEN ghost
                    ELSE [ghost EXCEPT ![p][RecvInfo(p, c)[d].area][d] =
                            recvreq[p][handle[p][c]][d].val]
        /\ recvreq' = [recvreq EXCEPT ![p][handle[p][c]][d] = NullRequest]
        /\ step' = [step EXCEPT ![p] = @ \cup {d}]
        /\ UNCHANGED <<callVars, bankVars, net>>
  BY DEF DNWait
<1>2. PICK d \in DOMAIN RecvInfo(p, c) \ step[p] :
        /\ May(p, "DN", c)
        /\ recvreq[p][handle[p][c]][d].st = "complete"
        /\ ghost' = IF <<p, d>> \in Consecutive THEN ghost
                    ELSE [ghost EXCEPT ![p][RecvInfo(p, c)[d].area][d] =
                            recvreq[p][handle[p][c]][d].val]
        /\ recvreq' = [recvreq EXCEPT ![p][handle[p][c]][d] = NullRequest]
        /\ step' = [step EXCEPT ![p] = @ \cup {d}]
        /\ UNCHANGED <<callVars, bankVars, net>>
  BY <1>1
<1>3. inst[p][c].done # {}
  BY <1>2 DEF May, Required
<1>4. RecvInfo(p, c)[d].area = c
  BY <1>0, <1>3, RecvEdge
<1>5. Unmarshals(p, c, d)
  BY <1>2, <1>4 DEF Unmarshals, SetsRequest
<1> QED
  BY <1>5

\* What DN unmarshals is what the neighbour sent for the same instance, and
\* is in place then.
LEMMA UnmarshalsOwn ==
  ASSUME NInv, NEW p \in Proc, NEW c \in Cid, NEW d \in DOMAIN RecvInfo(p, c), Unmarshals(p, c, d),
         NEW x, x = Data(RecvInfo(p, c)[d].proc, c, inst[p][c].gen, d)
  PROVE  /\ \/ ghost' = ghost /\ <<p, d>> \in Consecutive
            \/ ghost' = [ghost EXCEPT ![p][c][d] = x] /\ <<p, d>> \notin Consecutive
         /\ ghost'[p][c][d] = x
<1>0. TInv /\ DataOK(p)
  BY DEF NInv, RInv
<1>1. /\ May(p, "DN", c) /\ recvreq[p][handle[p][c]][d].st = "complete"
      /\ ghost' = IF <<p, d>> \in Consecutive THEN ghost
                  ELSE [ghost EXCEPT ![p][c][d] = recvreq[p][handle[p][c]][d].val]
  BY DEF Unmarshals
<1>2. Receiving(p, c)
  BY <1>1 DEF May, Required, Receiving
<1>3. DirOK(p, c, d)
  BY <1>0, <1>2 DEF DataOK
<1>4. /\ recvreq[p][handle[p][c]][d].val = x
      /\ <<p, d>> \in Consecutive => ghost[p][c][d] = x
  BY <1>1, <1>3 DEF DirOK
<1>5. CASE <<p, d>> \in Consecutive
  BY <1>1, <1>4, <1>5
<1>6. CASE <<p, d>> \notin Consecutive
  <2>1. ghost' = [ghost EXCEPT ![p][c][d] = x]
    BY <1>1, <1>4, <1>6
  <2>2. IsGhost(ghost) /\ Changed(ghost, ghost', p, c, d, x) /\ d \in 1..MaxDirs
    BY <1>0, <2>1, HasSlot DEF TInv, MPITypeOK, IsGhost, Changed
  <2>3. OneChanged(ghost, ghost', p, c, d, x)
    BY <2>2, GhostChange
  <2>4. ghost'[p][c][d] = x
    BY <2>2, <2>3 DEF OneChanged
  <2> QED
    BY <1>6, <2>1, <2>4
<1> QED
  BY <1>5, <1>6

LEMMA UnmarshalStays ==
  ASSUME NInv, NEW p \in Proc, NEW c \in Cid, NEW d \in DOMAIN RecvInfo(p, c), Unmarshals(p, c, d)
  PROVE  PairsOK' /\ \A r \in Proc : DataOK(r)' /\ SyncOK(r)'
<1>0. TInv /\ CallsInv /\ PairsOK
  BY DEF NInv, RInv, TInv
<1> DEFINE x == Data(RecvInfo(p, c)[d].proc, c, inst[p][c].gen, d)
<1>1. /\ May(p, "DN", c) /\ recvreq[p][handle[p][c]][d].st = "complete"
      /\ SetsRequest(p, c, d, NullRequest)
      /\ step' = [step EXCEPT ![p] = @ \cup {d}]
      /\ UNCHANGED <<callVars, bankVars, net>>
  BY DEF Unmarshals
<1>2. "DR" \in inst[p][c].done /\ inst[p][c].done # {}
  BY <1>1 DEF May, Required
<1>3. /\ \/ ghost' = ghost /\ <<p, d>> \in Consecutive
         \/ ghost' = [ghost EXCEPT ![p][c][d] = x] /\ <<p, d>> \notin Consecutive
      /\ ghost'[p][c][d] = x
  BY UnmarshalsOwn
<1>4. /\ prog' = prog /\ pos' = pos /\ inst' = inst /\ handle' = handle
      /\ \A r, o, e : May(r, o, e)' <=> May(r, o, e)
      /\ RecvInfo(p, c)' = RecvInfo(p, c)
  BY <1>1, WithinCall
<1>5. step'[p] = step[p] \cup {d} /\ \A r \in Proc : r # p => step'[r] = step[r]
  BY <1>0, <1>1 DEF TInv, MPITypeOK
<1>6. NullRequest.st = "null"
  BY DEF NullRequest
<1>7. recvreq'[p][handle[p][c]][d] = NullRequest
  <2>1. OneRequest(p, c, d, NullRequest)
    BY <1>0, <1>1, <1>2, RequestChange
  <2> QED
    BY <1>2, <2>1 DEF OneRequest
<1>8. DirOK(p, c, d)'
  <2>1. Data(RecvInfo(p, c)'[d].proc, c, inst'[p][c].gen, d) = x
    BY <1>4
  <2> HIDE DEF x
  <2>2. recvreq'[p][handle'[p][c]][d].st = "null"
    BY <1>4, <1>6, <1>7
  <2>3. May(p, "DN", c)' /\ d \in step'[p]
    BY <1>1, <1>4, <1>5
  <2> QED
    BY <1>3, <2>1, <2>2, <2>3 DEF DirOK
<1> HIDE DEF x
<1>9. \A r \in Proc : DataOK(r)'
  <2>1. \A r \in Proc : step[r] \subseteq step'[r]
    BY <1>5
  <2> QED
    BY <1>1, <1>2, <1>3, <1>5, <1>8, <2>1, OneDirection
<1>10. \A r \in Proc : SyncOK(r)'
  BY <1>1, <1>4, SyncKept
<1>11. \A r \in Proc : Out(r)' = Out(r)
  <2>1. \A e : ~May(p, "SR", e)
    BY <1>1, OneCall DEF May
  <2>2. Out(p)' = Out(p)
    BY <1>4, <2>1 DEF Out
  <2> QED
    BY <1>4, <1>5, <2>2, SameOut
<1>12. \A r \in Proc : \A e \in Cid : Got(r)'[e] = Got(r)[e]
  <2>1. /\ \A r \in Proc : r # p => Got(r)' = Got(r)
        /\ Grows(Got(p), Got(p)', c, d)
    <3>1. NullRequest.st # "active"
      BY <1>6
    <3> QED
      BY <1>0, <1>1, <1>2, <3>1, TakesGot
  <2>2. d \in Got(p)[c]
    BY <1>1, <1>2 DEF Got
  <2> QED
    BY <2>1, <2>2 DEF Grows
<1>13. PairsOK'
  <2>1. \A r \in Proc : pos[r] \in Nat /\ pos'[r] \in Nat /\ pos[r] <= pos'[r]
    BY <1>0, <1>4 DEF CallsInv, CallsTypeOK
  <2>2. \A y \in DataSet : y.cid \in Cid
    BY DEF DataSet
  <2>3. \A q, r \in Proc, y \in DataSet : Edge(prog, q, r, y) =>
          /\ SentIn(inst'[q][y.cid], y, Out(q)'[y.cid]) <=> SentIn(inst[q][y.cid], y, Out(q)[y.cid])
          /\ PendIn(inst'[r][y.cid], y, Got(r)'[y.cid]) <=> PendIn(inst[r][y.cid], y, Got(r)[y.cid])
    BY <1>4, <1>11, <1>12, <2>2
  <2> QED
    BY <1>0, <1>1, <1>4, <2>1, <2>3, QuietPairs
<1> QED
  BY <1>9, <1>10, <1>13

-----------------------------------------------------------------------------
LEMMA StepPairs ==
  ASSUME NInv, NEW p \in Proc, Step(p) \/ Match(p)
  PROVE  PairsOK' /\ \A r \in Proc : DataOK(r)' /\ SyncOK(r)'
<1>1. CASE New(p) \/ DR(p) \/ SRReturn(p) \/ DNReturn(p) \/ Old(p)
  BY <1>1, ReturnsIs, ReturnStays
<1>2. CASE SRSend(p)
  <2>1. PICK c \in Cid : \E d \in DOMAIN SendInfo(p, c), wait \in BOOLEAN : SendsNext(p, c, d, wait)
    BY <1>2, SendsIs
  <2>2. PICK d \in DOMAIN SendInfo(p, c), wait \in BOOLEAN : SendsNext(p, c, d, wait)
    BY <2>1
  <2> QED
    BY <2>2, SendStays
<1>3. CASE DNWait(p)
  <2>1. PICK c \in Cid : \E d \in DOMAIN RecvInfo(p, c) : Unmarshals(p, c, d)
    BY <1>3, UnmarshalsIs
  <2>2. PICK d \in DOMAIN RecvInfo(p, c) : Unmarshals(p, c, d)
    BY <2>1
  <2> QED
    BY <2>2, UnmarshalStays
<1>4. CASE Loop(p)
  BY <1>4, LoopStays
<1>5. CASE Match(p)
  <2>1. PICK c \in Cid : \E d \in DOMAIN RecvInfo(p, c) : \E i : Takes(p, c, d, i)
    BY <1>5, MatchIs
  <2>2. PICK d \in DOMAIN RecvInfo(p, c) : \E i : Takes(p, c, d, i)
    BY <2>1
  <2>3. PICK i : Takes(p, c, d, i)
    BY <2>2
  <2> QED
    BY <2>3, MatchPairs, MatchData
<1> QED
  BY <1>1, <1>2, <1>3, <1>4, <1>5 DEF Step

LEMMA NextNInv == NInv /\ [Next]_vars => NInv'
<1> SUFFICES ASSUME NInv, [Next]_vars PROVE NInv'
  OBVIOUS
<1>0. RInv /\ LInv /\ OpenInv /\ DoneInv
  BY DEF NInv
<1>1. RInv' /\ LInv' /\ OpenInv'
  BY <1>0, NextRInv, NextLInv, NextOpen
<1>2. CASE \E p \in Proc : Step(p) \/ Match(p)
  <2>1. PICK p \in Proc : Step(p) \/ Match(p)
    BY <1>2
  <2>2. PairsOK' /\ \A r \in Proc : DataOK(r)' /\ SyncOK(r)'
    BY <2>1, StepPairs
  <2>3. BankStep(p)
    BY <2>1, StepBank
  <2>4. DoneInv'
    BY <1>0, <2>3, StepDone
  <2> QED
    BY <1>1, <2>2, <2>4 DEF NInv
<1>3. CASE UNCHANGED vars
  <2>1. UNCHANGED <<prog, pos, inst, handle, commbank, recvreq, step, net, ghost>>
    BY <1>3 DEF vars, callVars, bankVars
  <2>2. DoneInv'
    BY <1>0, <2>1 DEF DoneInv
  <2>3. PairsOK'
    <3>1. \A r \in Proc : Out(r)' = Out(r) /\ Got(r)' = Got(r)
      BY <2>1, SameOut, SameGot
    <3> QED
      BY <2>1, <3>1 DEF NInv, PairsOK
  <2>4. \A r \in Proc : DataOK(r)' /\ SyncOK(r)'
    BY <2>1, OthersData, SyncKept
  <2> QED
    BY <1>1, <2>2, <2>3, <2>4 DEF NInv
<1> QED
  BY <1>2, <1>3 DEF Next, Terminated

LEMMA SpecNInv == Spec => []NInv
  BY InitNInv, NextNInv, PTL DEF Spec

-----------------------------------------------------------------------------
\* An outstanding receive of an open communication can take the first message
\* that has its tag.
LEMMA CanMatch ==
  ASSUME TInv, NEW p \in Proc, NEW c \in Cid, NEW d \in DOMAIN RecvInfo(p, c),
         recvreq[p][handle[p][c]][d].st = "active",
         NEW q, q = RecvInfo(p, c)[d].proc,
         NEW i, FirstAt(net[q][p], RecvInfo(p, c)[d].dyn_commid, i)
  PROVE  /\ handle[p][c] \in Slot /\ d \in DOMAIN commbank[p][handle[p][c]].recvinfo
         /\ Matches(p, q, handle[p][c], d, i)
<1>1. handle[p][c] \in Slot /\ RecvInfo(p, c) = commbank[p][handle[p][c]].recvinfo
  BY HasSlot
<1> QED
  BY <1>1 DEF Matches, FirstAt

\* A message of an instance that its receiver is in, and has posted receives
\* for, is the first with the tag of its receive.
LEMMA PostedTakes ==
  ASSUME NInv, NEW q \in Proc, NEW p \in Proc, NEW i \in 1..Len(net[q][p]),
         NEW x, x = net[q][p][i].val, NEW c, c = x.cid, x.gen = inst[p][c].gen,
         "DR" \in inst[p][c].done
  PROVE  \E s \in Slot : \E d \in DOMAIN commbank[p][s].recvinfo : Matches(p, q, s, d, i)
<1>0. TInv /\ LInv /\ OpenInv /\ CallsInv
  BY DEF NInv, RInv, LInv
<1> DEFINE ch == net[q][p]
           out == Out(q)
           got == Got(p)
           d == x.dir
           t == RecvInfo(p, c)[d].dyn_commid
<1>1. PairOK(prog, pos[q], q, p, inst[q], inst[p], out, got, ch)
  BY DEF NInv, PairsOK
<1>2. x \in InFlight(prog, q, p, inst[q], inst[p], out, got)
  BY <1>1 DEF PairOK, ChanOK
<1>3. /\ x \in DataSet /\ Edge(prog, q, p, x) /\ PendIn(inst[p][c], x, got[c])
      /\ c \in Cid /\ x.gen \in Nat
  BY <1>2 DEF InFlight, DataSet
<1>4. "DN" \notin inst[p][c].done /\ d \notin got[c] /\ inst[p][c].done # {}
  <2>1. ~(inst[p][c].gen < x.gen)
    <3> DEFINE g == x.gen
    <3>1. g \in Nat
      BY <1>3
    <3> HIDE DEF g
    <3>2. ~(g < g)
      BY <3>1
    <3> QED
      BY <3>2 DEF g
  <2> HIDE DEF got
  <2> QED
    BY <1>3, <2>1 DEF PendIn
<1>5. d \in DOMAIN RecvInfo(p, c)
  BY <1>0, <1>3, <1>4, EdgeInfo
<1>6. recvreq[p][handle[p][c]][d].st = "active"
  BY <1>3, <1>4, <1>5 DEF Got
<1>7. q = RecvInfo(p, c)[d].proc /\ x = Data(q, c, inst[p][c].gen, d)
  <2>1. prog.dirs[c][inst[p][c].gen][d][q] = p /\ x.src = q
    BY <1>3 DEF Edge
  <2>2. q = RecvInfo(p, c)[d].proc
    <3> HIDE DEF d
    <3>1. /\ LInv /\ OpenInv /\ p \in Proc /\ c \in Cid /\ inst[p][c].done # {}
          /\ d \in DOMAIN RecvInfo(p, c) /\ q \in Proc
          /\ SendsTo(q, p, c, d)
      BY <1>0, <1>3, <1>4, <1>5, <2>1 DEF SendsTo
    <3> QED
      BY <3>1, RecvOnly
  <2>3. x = [src |-> x.src, cid |-> x.cid, gen |-> x.gen, dir |-> x.dir]
    BY <1>3 DEF DataSet
  <2> QED
    BY <2>1, <2>2, <2>3 DEF Data
<1>8. "NEW" \in inst[p][c].done /\ inst[p][c].done # {"NEW"}
  BY <1>0, <1>3 DEF CallsInv, OrderOK, Required
<1> HIDE DEF ch, out, got, d, t
<1>9. FirstUnder(ch, x, t)
  <2>1. /\ LInv /\ OpenInv /\ p \in Proc /\ c \in Cid
        /\ "NEW" \in inst[p][c].done /\ inst[p][c].done # {"NEW"} /\ "DN" \notin inst[p][c].done
        /\ d \in DOMAIN RecvInfo(p, c) /\ q = RecvInfo(p, c)[d].proc
        /\ x = Data(q, c, inst[p][c].gen, d)
        /\ t = RecvInfo(p, c)[d].dyn_commid
        /\ d \notin got[c]
        /\ PairOK(prog, pos[q], q, p, inst[q], inst[p], out, got, ch)
    BY <1>0, <1>1, <1>3, <1>4, <1>5, <1>7, <1>8 DEF t
  <2> QED
    BY <2>1, OwnTag
<1>10. \A a, b \in 1..Len(ch) : ch[a].val = ch[b].val => a = b
  BY <1>1 DEF PairOK, ChanOK
<1>11. i \in 1..Len(ch) /\ ch[i].val = x /\ Len(ch) \in Nat
  <2>1. ch \in Seq(Message)
    BY <1>0 DEF ch, TInv, MPITypeOK
  <2> QED
    BY <2>1 DEF ch
<1>12. FirstAt(ch, t, i)
  <2>1. ch[i].tag = t
    BY <1>9, <1>11 DEF FirstUnder
  <2>2. ASSUME NEW j \in 1..(i - 1), ch[j].tag = t PROVE FALSE
    <3>1. j \in 1..Len(ch) /\ j < i
      BY <1>11
    <3>2. ch[j].val = x \/ \E k \in 1..Len(ch) : k < j /\ ch[k].val = x
      BY <1>9, <2>2, <3>1 DEF FirstUnder
    <3>3. \E k \in 1..Len(ch) : k <= j /\ ch[k].val = ch[i].val
      <4>1. CASE ch[j].val = x
        <5>1. j \in 1..Len(ch) /\ j <= j
          BY <3>1
        <5>2. ch[j].val = ch[i].val
          BY <1>11, <4>1
        <5> QED
          BY <5>1, <5>2, Zenon
      <4>2. CASE \E k \in 1..Len(ch) : k < j /\ ch[k].val = x
        BY <1>11, <3>1, <4>2
      <4> QED
        BY <3>2, <4>1, <4>2
    <3>4. PICK k \in 1..Len(ch) : k <= j /\ ch[k].val = ch[i].val
      BY <3>3
    <3>5. k = i
      BY <1>10, <1>11, <3>4
    <3> QED
      BY <3>1, <3>4, <3>5
  <2> QED
    BY <1>11, <2>1, <2>2 DEF FirstAt
<1>13. FirstAt(net[q][p], RecvInfo(p, c)[d].dyn_commid, i)
  BY <1>12 DEF ch, t
<1> QED
  BY <1>0, <1>3, <1>5, <1>6, <1>7, <1>13, CanMatch

\* What an MPI_Send waits with no receive for is for a processor that has yet to
\* make its DR.
LEMMA WaitsForReceive ==
  ASSUME NInv, NEW p \in Proc, NEW q \in Proc, NEW i \in 1..Len(net[p][q]), net[p][q][i].sync,
         \A s \in Slot : \A d \in DOMAIN commbank[q][s].recvinfo : ~Matches(q, p, s, d, i)
  PROVE  Undone(AwaitsDR(prog, p, pos[p] + 1), q)
<1>1. PICK x : x = net[p][q][i].val
  OBVIOUS
<1>2. PICK c : c = x.cid
  OBVIOUS
<1>3. LInv /\ DoneInv /\ PlaceInv
  BY DEF NInv, LInv, PlaceInv
<1>4. May(p, "SR", c) /\ x.gen = inst[p][c].gen
  BY <1>1, <1>2 DEF NInv, SyncOK
<1>5. x \in InFlight(prog, p, q, inst[p], inst[q], Out(p), Got(q))
  BY <1>1 DEF NInv, PairsOK, PairOK, ChanOK
<1>6. c \in Cid /\ Edge(prog, p, q, x) /\ PendIn(inst[q][c], x, Got(q)[c])
  BY <1>2, <1>5 DEF InFlight, DataSet
<1>7. x.dir \in Edges(p, q, c, inst[p][c].gen)
  BY <1>2, <1>4, <1>6 DEF Edge, Edges
<1>8. /\ ~(inst[q][c].gen > inst[p][c].gen)
      /\ inst[q][c].gen = inst[p][c].gen => inst[q][c].done # {}
  <2>1. inst[q][c].gen \in Nat /\ x.gen \in Nat
    BY <1>3, <1>6 DEF LInv, CallsInv, CallsTypeOK, Edge, DataSet
  <2> QED
    BY <1>4, <1>6, <2>1 DEF PendIn
<1>9. inst[q][c].gen = inst[p][c].gen => "DR" \notin inst[q][c].done
  BY <1>1, <1>2, <1>4, PostedTakes
<1>10. At(p, "SR", c)
  BY <1>4 DEF May
<1> QED
  BY <1>3, <1>6, <1>7, <1>8, <1>9, <1>10, YetToListen

\* In DN a processor waits only for one that has yet to make its SR.
LEMMA WaitsForSender ==
  ASSUME NInv, NEW p \in Proc, NEW q \in Proc, NEW c \in Cid,
         NEW d \in DOMAIN RecvInfo(p, c) \ step[p], At(p, "DN", c), RecvInfo(p, c)[d].proc = q,
         recvreq[p][handle[p][c]][d].st # "complete",
         \A i \in 1..Len(net[q][p]) : ~Matches(p, q, handle[p][c], d, i)
  PROVE  Undone(AwaitsSR(prog, p, pos[p] + 1), q)
<1> DEFINE x == Data(q, c, inst[p][c].gen, d)
<1>0. TInv /\ LInv /\ OpenInv /\ DoneInv /\ PairsOK /\ DataOK(p)
  BY DEF NInv, RInv
<1>1. May(p, "DN", c)
  BY <1>0, AtIsMay DEF LInv, Op
<1>2. /\ "NEW" \in inst[p][c].done /\ inst[p][c].done # {"NEW"} /\ "DN" \notin inst[p][c].done
      /\ "DR" \in inst[p][c].done /\ inst[p][c].done # {}
  BY <1>1 DEF May, Required
<1>3. recvreq[p][handle[p][c]][d].st = "active"
  <2>1. recvreq[p][handle[p][c]][d] \in Request
    BY <1>0, HasSlot
  <2>2. recvreq[p][handle[p][c]][d].st \in {"null", "active", "complete"}
    BY <2>1 DEF Request
  <2>3. DirOK(p, c, d)
    BY <1>0, <1>2 DEF DataOK, Receiving
  <2> QED
    BY <2>2, <2>3 DEF DirOK
<1>4. x.gen = inst[p][c].gen /\ x.cid = c /\ q = RecvInfo(p, c)[d].proc
  BY DEF Data
<1>5. Edge(prog, q, p, x)
  BY <1>0, <1>2, RecvEdge
<1>6. CASE ~SentIn(inst[q][c], x, Out(q)[c])
  <2> HIDE DEF x
  <2> QED
    BY <1>0, <1>4, <1>5, <1>6, Behind
<1>7. CASE SentIn(inst[q][c], x, Out(q)[c])
  <2> DEFINE ch == net[q][p]
             out == Out(q)
             got == Got(p)
  <2>1. d \notin got[c] /\ d \in DOMAIN RecvInfo(p, c)
    BY <1>3 DEF Got
  <2>2. /\ PairOK(prog, pos[q], q, p, inst[q], inst[p], out, got, ch)
        /\ SentIn(inst[q][c], Data(q, c, inst[p][c].gen, d), out[c])
    BY <1>0, <1>7 DEF PairsOK
  <2> HIDE DEF ch, out, got
  <2>3. PICK i : FirstAt(ch, RecvInfo(p, c)[d].dyn_commid, i)
    <3>1. /\ LInv /\ OpenInv /\ p \in Proc /\ c \in Cid
          /\ "NEW" \in inst[p][c].done /\ inst[p][c].done # {"NEW"} /\ "DN" \notin inst[p][c].done
          /\ d \in DOMAIN RecvInfo(p, c) /\ q = RecvInfo(p, c)[d].proc
          /\ d \notin got[c]
          /\ PairOK(prog, pos[q], q, p, inst[q], inst[p], out, got, ch)
          /\ SentIn(inst[q][c], Data(q, c, inst[p][c].gen, d), out[c])
      BY <1>0, <1>2, <1>4, <2>1, <2>2
    <3> QED
      BY <3>1, OwnIsFirst
  <2>4. FirstAt(net[q][p], RecvInfo(p, c)[d].dyn_commid, i) /\ i \in 1..Len(net[q][p])
    BY <2>3 DEF FirstAt, ch
  <2>5. Matches(p, q, handle[p][c], d, i)
    BY <1>0, <1>3, <1>4, <2>4, CanMatch
  <2> QED
    BY <2>4, <2>5
<1> QED
  BY <1>6, <1>7

LEMMA WaitsAwait ==
  ASSUME NInv, NEW p \in Proc, NEW q \in Proc, WaitsFor(p, q)
  PROVE  Undone(AwaitsSR(prog, p, pos[p] + 1) \cup AwaitsDR(prog, p, pos[p] + 1), q)
<1>1. Undone(AwaitsSR(prog, p, pos[p] + 1), q) \/ Undone(AwaitsDR(prog, p, pos[p] + 1), q)
  BY WaitsForReceive, WaitsForSender DEF WaitsFor
<1> QED
  BY <1>1 DEF Undone

\* There is no cycle of waits, though MPI_Send may wait until its message is
\* received, if the programs make none themselves, as no program without
\* pipelined loops does: what is waited for is a call yet to be made, and a
\* processor furthest behind in the order of the program waits for nobody.
THEOREM MPINoCycleOfWaits ==
  ASSUME \A pr \in Programs : Runnable(pr) \/ Plain(pr)
  PROVE  Spec => []NoCycleOfWaits
<1>1. NInv => NoCycleOfWaits
  <2> SUFFICES ASSUME NInv, NEW S \in SUBSET {p \in Proc : Running(p)}, S # {}
               PROVE  \E p \in S : \A q \in Proc : WaitsFor(p, q) => Running(q) /\ q \notin S
    BY DEF NoCycleOfWaits
  <2> DEFINE W == [p \in Proc |-> [n \in 1..Len(prog.calls) |->
                     AwaitsSR(prog, p, n) \cup AwaitsDR(prog, p, n)]]
  <2>1. CallsInv /\ LInv
    BY DEF NInv, LInv
  <2>2. prog \in Programs /\ \A p \in Proc : Running(p) => pos[p] + 1 \in 1..Len(prog.calls)
    BY <2>1, CallsTyped DEF CallsInv, Running
  <2>3. NoneStuck(prog, W)
    <3>1. CASE Runnable(prog)
      BY <3>1 DEF Runnable
    <3>2. CASE Plain(prog)
      <4>1. \A p \in Proc : \A n \in 1..Len(prog.calls) : \A x \in W[p][n] :
              x[1] \in Proc /\ \E m \in x[2] : m \in Nat /\ m < n
        BY <2>2, <3>2, PlainAwaits
      <4> HIDE DEF W
      <4> QED
        BY <2>2, <4>1, BehindRuns
    <3> QED
      BY <2>2, <3>1, <3>2
  <2>4. \A p \in S : W[p][pos[p] + 1] =
          AwaitsSR(prog, p, pos[p] + 1) \cup AwaitsDR(prog, p, pos[p] + 1)
    BY <2>2
  <2> HIDE DEF W
  <2>5. PICK p \in S : \A q \in Proc : Undone(W[p][pos[p] + 1], q) => Running(q) /\ q \notin S
    BY <2>1, <2>3, SomeoneFree
  <2> QED
    BY <2>4, <2>5, WaitsAwait
<1> QED
  BY <1>1, SpecNInv, PTL

-----------------------------------------------------------------------------
\* The directions sent, as the abstract specification sees them.
Sending == [p \in Proc |-> IF AtOp(p, "SR") THEN step[p] ELSE {}]

\* Between calls nothing is being sent, and receiving is not sending.
LEMMA SendingSame ==
  ASSUME NInv, NEW p \in Proc, prog' = prog,
         \A r \in Proc : r # p => pos'[r] = pos[r] /\ step'[r] = step[r],
         ~AtOp(p, "SR") \/ step[p] = {}, ~AtOp(p, "SR")' \/ step'[p] = {}
  PROVE  Sending' = Sending
<1>1. ASSUME NEW r \in Proc, r # p PROVE AtOp(r, "SR")' <=> AtOp(r, "SR")
  BY <1>1 DEF AtOp, At, Running
<1> QED
  BY <1>1 DEF Sending

LEMMA AbstractReturn ==
  ASSUME NEW p, NEW o, NEW c
  PROVE  /\ Return(p, o, c) => Abstract!Return(p, o, c)
         /\ May(p, o, c) => Abstract!May(p, o, c)
BY DEF Return, May, At, Running, Gen, Required, Abstract!Return, Abstract!May, Abstract!At,
       Abstract!Running, Abstract!Gen, Abstract!Required

LEMMA AbstractSkip ==
  ASSUME NEW p, SkipTile(p)
  PROVE  Abstract!SkipTile(p)
<1>1. \A c, n : Abstract!GenAfter(p, c, n) = GenAfter(p, c, n) /\ Abstract!Begun(p, c, n) = Begun(p, c, n)
  <2>1. \A S : Abstract!Cardinality(S) = Cardinality(S)
    BY Zenon DEF Cardinality, Abstract!Cardinality
  <2>2. \A c, n : Abstract!Begun(p, c, n) = Begun(p, c, n)
    BY DEF Begun, Abstract!Begun
  <2> QED
    BY <2>1, <2>2 DEF GenAfter, Abstract!GenAfter
<1>2. \A r, ds : Abstract!SendDirs(r, ds) = SendDirs(r, ds) /\ Abstract!RecvDirs(r, ds) = RecvDirs(r, ds)
  BY DEF SendDirs, RecvDirs, Abstract!SendDirs, Abstract!RecvDirs
<1>3. \A o : Abstract!AtOp(p, o) <=> AtOp(p, o)
  BY DEF AtOp, At, Running, Abstract!AtOp, Abstract!At, Abstract!Running
<1>4. ASSUME NEW n, SkipTo(p, n) PROVE Abstract!SkipTo(p, n)
  <2>1. [c \in Cid |-> [done |-> inst[p][c].done, gen |-> Abstract!GenAfter(p, c, n)]]
          = [c \in Cid |-> [done |-> inst[p][c].done, gen |-> GenAfter(p, c, n)]]
    BY <1>1
  <2>2. inst' = [inst EXCEPT ![p] =
          [c \in Cid |-> [done |-> inst[p][c].done, gen |-> Abstract!GenAfter(p, c, n)]]]
    BY <1>4, <2>1, Zenon DEF SkipTo
  <2>3. /\ pos[p] > 0 /\ prog.calls[pos[p]][1] \in Abstract!LoopOp
        /\ Abstract!AtOp(p, "NEW")
        /\ prog.calls[n][1] = "POST"
        /\ \A i \in (pos[p] + 1)..(n - 1) : prog.calls[i][1] \notin Abstract!LoopOp
        /\ pos' = [pos EXCEPT ![p] = n]
        /\ UNCHANGED prog
    BY <1>3, <1>4, Zenon DEF SkipTo, LoopOp, Abstract!LoopOp
  <2>4. ASSUME NEW c \in Cid
        PROVE  /\ Abstract!Begun(p, c, n) # {} => inst[p][c].done = {}
               /\ \A g \in (inst[p][c].gen + 1)..Abstract!GenAfter(p, c, n) :
                    /\ g \in DOMAIN prog.dirs[c]
                    /\ Abstract!SendDirs(p, prog.dirs[c][g]) = {}
                    /\ Abstract!RecvDirs(p, prog.dirs[c][g]) = {}
    <3>1. /\ Begun(p, c, n) # {} => inst[p][c].done = {}
          /\ \A g \in (inst[p][c].gen + 1)..GenAfter(p, c, n) :
               /\ g \in DOMAIN prog.dirs[c]
               /\ SendDirs(p, prog.dirs[c][g]) = {}
               /\ RecvDirs(p, prog.dirs[c][g]) = {}
      BY <1>4 DEF SkipTo
    <3>2. Abstract!GenAfter(p, c, n) = GenAfter(p, c, n) /\ Abstract!Begun(p, c, n) = Begun(p, c, n)
      BY <1>1
    <3> QED
      BY <1>2, <3>1, <3>2
  <2> QED
    BY <2>2, <2>3, <2>4, Zenon DEF Abstract!SkipTo
<1> QED
  BY <1>4 DEF SkipTile, Abstract!SkipTile

LEMMA AbstractPass ==
  ASSUME NEW p, NEW o, Pass(p, o)
  PROVE  Abstract!Pass(p, o)
BY DEF Pass, AtOp, At, Running, Abstract!Pass, Abstract!AtOp, Abstract!At, Abstract!Running

LEMMA InitAbstract == Init => Abstract!Init
<1> SUFFICES ASSUME Init PROVE Abstract!Init
  OBVIOUS
<1>1. Abstract!InitCalls
  BY DEF Init, InitCalls, Abstract!InitCalls
<1>2. Sending = [p \in Proc |-> {}]
  BY DEF Init, Sending
<1> QED
  BY <1>1, <1>2 DEF Init, Abstract!Init, Sending

LEMMA LocalAbstract ==
  ASSUME NInv, NEW p \in Proc, New(p) \/ DR(p) \/ Old(p) \/ Loop(p)
  PROVE  Abstract!Local(p)
<1>0. LInv /\ StepOK(p) /\ step \in [Proc -> SUBSET (1..MaxDirs)]
  BY DEF NInv, RInv, TInv, MPITypeOK
<1>1. /\ step' = step /\ ghost' = ghost
      /\ \/ \E c \in Cid, o \in {"NEW", "DR", "OLD"} : Return(p, o, c)
         \/ \E o \in LoopOp : Pass(p, o)
         \/ SkipTile(p)
  BY DEF New, DR, Old, Loop, LoopInit, LoopPost, LoopOp
<1>2. BankStep(p)
  BY DEF BankStep, New, DR, Old, Loop, Op
<1>3. /\ prog' = prog
      /\ \A r \in Proc : r # p => pos'[r] = pos[r] /\ inst'[r] = inst[r]
  BY <1>0, <1>2, OthersKeep
<1>4. \E o, c : At(p, o, c) /\ o \notin {"SR", "DN"}
  BY <1>1 DEF Return, May, Pass, SkipTile, SkipTo, AtOp, LoopOp
<1>5. step[p] = {}
  BY <1>0, <1>4, OneCall DEF StepOK
<1>6. Sending' = Sending
  BY <1>1, <1>3, <1>5, SendingSame
<1>7. \/ \E c \in Cid, o \in {"NEW", "DR", "OLD"} : Abstract!Return(p, o, c)
      \/ \E o \in LoopOp : Abstract!Pass(p, o)
      \/ Abstract!SkipTile(p)
  BY <1>1, AbstractReturn, AbstractPass, AbstractSkip
<1> QED
  BY <1>1, <1>6, <1>7 DEF Sending, Abstract!Local, LoopOp, Abstract!LoopOp

LEMMA SendAbstract ==
  ASSUME NInv, NEW p \in Proc, SRSend(p)
  PROVE  Abstract!Send(p)
<1>0. LInv /\ OpenInv /\ step \in [Proc -> SUBSET (1..MaxDirs)]
  BY DEF NInv, RInv, TInv, MPITypeOK
<1>1. PICK c \in Cid : \E d \in DOMAIN SendInfo(p, c), wait \in BOOLEAN : SendsNext(p, c, d, wait)
  BY SendsIs
<1>2. PICK d \in DOMAIN SendInfo(p, c) :
        /\ May(p, "SR", c) /\ d \notin step[p]
        /\ step' = [step EXCEPT ![p] = @ \cup {d}]
        /\ UNCHANGED <<prog, pos, inst, ghost>>
  BY <1>1 DEF SendsNext, callVars
<1>3. inst[p][c].done # {} /\ AtOp(p, "SR")
  BY <1>2 DEF May, Required, AtOp
<1>4. d \in SendDirs(p, prog.dirs[c][inst[p][c].gen])
  BY <1>0, <1>3, OpenDirs
<1>5. Abstract!SendDirs(p, Abstract!Dirs(p, c)) = SendDirs(p, prog.dirs[c][inst[p][c].gen])
  <2>1. ~Abstract!At(p, "NEW", c)
    BY <1>2 DEF May, At, Abstract!At
  <2>2. Abstract!Dirs(p, c) = prog.dirs[c][inst[p][c].gen]
    BY <2>1 DEF Abstract!Dirs, Abstract!Gen
  <2> QED
    BY <2>2 DEF SendDirs, Abstract!SendDirs
<1>6. \A r : AtOp(r, "SR")' <=> AtOp(r, "SR")
  BY <1>2 DEF AtOp, At, Running
<1>7. Sending' = [Sending EXCEPT ![p] = @ \cup {d}] /\ d \notin Sending[p]
  BY <1>0, <1>2, <1>3, <1>6 DEF Sending
<1>8. Abstract!May(p, "SR", c)
  BY <1>2, AbstractReturn
<1> QED
  BY <1>2, <1>4, <1>5, <1>7, <1>8 DEF Abstract!Send, Sending

LEMMA SentAbstract ==
  ASSUME NInv, NEW p \in Proc, SRReturn(p)
  PROVE  Abstract!SentAll(p)
<1>0. LInv /\ OpenInv /\ step \in [Proc -> SUBSET (1..MaxDirs)]
  BY DEF NInv, RInv, TInv, MPITypeOK
<1>1. PICK c \in Cid : /\ Return(p, "SR", c) /\ step[p] = DOMAIN SendInfo(p, c)
                       /\ step' = [step EXCEPT ![p] = {}] /\ UNCHANGED <<bankVars, recvreq, net, ghost>>
  BY DEF SRReturn
<1>2. inst[p][c].done # {} /\ AtOp(p, "SR")
  BY <1>1 DEF Return, May, Required, AtOp
<1>3. step[p] = SendDirs(p, prog.dirs[c][inst[p][c].gen])
  BY <1>0, <1>1, <1>2, OpenDirs
<1>4. Abstract!SendDirs(p, Abstract!Dirs(p, c)) = SendDirs(p, prog.dirs[c][inst[p][c].gen])
  <2>1. ~Abstract!At(p, "NEW", c)
    BY <1>1 DEF Return, May, At, Abstract!At
  <2>2. Abstract!Dirs(p, c) = prog.dirs[c][inst[p][c].gen]
    BY <2>1 DEF Abstract!Dirs, Abstract!Gen
  <2> QED
    BY <2>2 DEF SendDirs, Abstract!SendDirs
<1>5. BankStep(p)
  BY <1>1 DEF BankStep, Op
<1>6. /\ prog' = prog
      /\ \A r \in Proc : r # p => pos'[r] = pos[r]
  BY <1>0, <1>5, OthersKeep
<1>7. \A r \in Proc : r # p => (AtOp(r, "SR")' <=> AtOp(r, "SR"))
  BY <1>6 DEF AtOp, At, Running
<1>8. Sending' = [Sending EXCEPT ![p] = {}] /\ Sending[p] = step[p]
  BY <1>0, <1>1, <1>2, <1>7 DEF Sending
<1>9. Abstract!Return(p, "SR", c)
  BY <1>1, AbstractReturn
<1> QED
  BY <1>1, <1>3, <1>4, <1>8, <1>9 DEF Abstract!SentAll, Sending

LEMMA NeededAbstract ==
  ASSUME NInv, NEW p \in Proc, DNReturn(p)
  PROVE  Abstract!Needed(p)
<1>0. RInv /\ LInv /\ OpenInv /\ DataOK(p) /\ step \in [Proc -> SUBSET (1..MaxDirs)]
  BY DEF NInv, RInv, TInv, MPITypeOK
<1>1. PICK c \in Cid : /\ Return(p, "DN", c) /\ AllReceived(p, c)
                       /\ step' = [step EXCEPT ![p] = {}]
                       /\ UNCHANGED <<bankVars, recvreq, net, ghost>>
  BY DEF DNReturn
<1>2. inst[p][c].done # {} /\ May(p, "DN", c) /\ Receiving(p, c)
  BY <1>1 DEF Return, May, Required, Receiving
<1> DEFINE ds == prog.dirs[c][inst[p][c].gen]
<1>3. DOMAIN RecvInfo(p, c) = RecvDirs(p, ds) /\ step[p] = DOMAIN RecvInfo(p, c)
  BY <1>0, <1>1, <1>2, OpenDirs, AllUnmarshalled
<1>4. ASSUME NEW d \in RecvDirs(p, ds)
      PROVE  ghost[p][c][d] = Data(Source(p, ds, d), c, inst[p][c].gen, d)
  <2>1. d \in DOMAIN RecvInfo(p, c) /\ d \in step[p]
    BY <1>3
  <2>2. recvreq[p][handle[p][c]][d].st = "null"
    BY <1>0, <1>2, <2>1, Unmarshalled
  <2>3. RecvInfo(p, c)[d].proc = Source(p, ds, d)
    BY <1>0, <1>2, <2>1, RecvSource
  <2> QED
    BY <1>0, <1>2, <2>1, <2>2, <2>3 DEF DataOK, DirOK
<1>5. /\ Abstract!Current(p, c) = ds /\ Abstract!RecvDirs(p, ds) = RecvDirs(p, ds)
      /\ \A d : Abstract!Expected(p, c, d) = Data(Source(p, ds, d), c, inst[p][c].gen, d)
  BY DEF Abstract!Current, Abstract!RecvDirs, RecvDirs, Abstract!Expected, Abstract!Data, Data,
         Abstract!Source, Source
<1>6. \A d \in Abstract!RecvDirs(p, Abstract!Current(p, c)) :
        ghost[p][c][d] = Abstract!Expected(p, c, d)
  BY <1>4, <1>5
<1>7. BankStep(p)
  BY <1>1 DEF BankStep, Op
<1>8. prog' = prog /\ \A r \in Proc : r # p => pos'[r] = pos[r]
  BY <1>0, <1>7, OthersKeep
<1>9. step'[p] = {} /\ \A r \in Proc : r # p => step'[r] = step[r]
  BY <1>0, <1>1
<1>10. ~AtOp(p, "SR")
  BY <1>2, OneCall DEF May, AtOp
<1>11. Sending' = Sending
  BY <1>8, <1>9, <1>10, SendingSame
<1>12. Abstract!Return(p, "DN", c)
  BY <1>1, AbstractReturn
<1> QED
  BY <1>1, <1>6, <1>11, <1>12 DEF Abstract!Needed, Sending

\* Data that comes into place, at a match or in DN, is data that may arrive.
LEMMA PlacedArrives ==
  ASSUME NInv, NEW p \in Proc, NEW c \in Cid, NEW d \in DOMAIN RecvInfo(p, c), Receiving(p, c),
         NEW q, q = RecvInfo(p, c)[d].proc, NEW x, x = Data(q, c, inst[p][c].gen, d),
         SentIn(inst[q][c], x, Out(q)[c]), Sending' = Sending,
         UNCHANGED <<prog, pos, inst>>, ghost' = ghost \/ Changed(ghost, ghost', p, c, d, x)
  PROVE  Abstract!Arrive(p) \/ UNCHANGED <<prog, pos, inst, Sending, ghost>>
<1>0. LInv /\ OpenInv /\ ghost \in [Proc -> [Cid -> [1..MaxDirs -> DataSet \cup {NoData}]]]
  BY DEF NInv, RInv, TInv, MPITypeOK
<1> DEFINE ds == prog.dirs[c][inst[p][c].gen]
<1>1. inst[p][c].done # {} /\ Abstract!Open(p, c)
  BY DEF Receiving, Abstract!Open
<1>2. q \in Proc /\ q = Source(p, ds, d) /\ RecvDirs(p, ds) = DOMAIN RecvInfo(p, c)
  BY <1>0, <1>1, RecvSource, OpenDirs
<1>3. /\ Abstract!Current(p, c) = ds /\ Abstract!RecvDirs(p, ds) = RecvDirs(p, ds)
      /\ Abstract!Expected(p, c, d) = x /\ Abstract!Source(p, ds, d) = q
  BY <1>2 DEF Abstract!Current, Abstract!RecvDirs, RecvDirs, Abstract!Expected, Abstract!Data,
              Data, Abstract!Source, Source
<1>4. Abstract!HasSent(q, c, inst[p][c].gen, d)
  <2>1. x.gen = inst[p][c].gen /\ x.dir = d
    BY DEF Data
  <2>2. \/ inst[q][c].gen > inst[p][c].gen
        \/ /\ inst[q][c].gen = inst[p][c].gen
           /\ inst[q][c].done = {} \/ "SR" \in inst[q][c].done \/ d \in Out(q)[c]
    BY <2>1 DEF SentIn
  <2>3. d \in Out(q)[c] => Abstract!May(q, "SR", c) /\ d \in Sending[q]
    <3>1. d \in Out(q)[c] => May(q, "SR", c) /\ d \in step[q]
      BY DEF Out
    <3>2. May(q, "SR", c) => AtOp(q, "SR")
      BY DEF May, AtOp
    <3> QED
      BY <1>2, <3>1, <3>2, AbstractReturn DEF Sending
  <2> QED
    BY <2>2, <2>3 DEF Abstract!HasSent, Sending
<1>5. CASE ghost' = ghost
  BY <1>5
<1>6. CASE ghost' = [ghost EXCEPT ![p][c][d] = x] /\ ghost[p][c][d] # x
  BY <1>1, <1>2, <1>3, <1>4, <1>6 DEF Abstract!Arrive, Sending
<1>7. CASE ghost' = [ghost EXCEPT ![p][c][d] = x] /\ ghost[p][c][d] = x
  <2>1. ghost' = ghost
    BY <1>0, <1>7
  <2> QED
    BY <2>1
<1> QED
  BY <1>5, <1>6, <1>7 DEF Changed

\* A match leaves the calls alone; it puts data in place in a contiguous area.
LEMMA MatchAbstract ==
  ASSUME NInv, NEW p \in Proc, Match(p)
  PROVE  Abstract!Arrive(p) \/ UNCHANGED <<prog, pos, inst, Sending, ghost>>
<1>1. PICK c \in Cid : \E d \in DOMAIN RecvInfo(p, c) : \E i : Takes(p, c, d, i)
  BY MatchIs
<1>2. PICK d \in DOMAIN RecvInfo(p, c) : \E i : Takes(p, c, d, i)
  BY <1>1
<1>3. PICK i : Takes(p, c, d, i)
  BY <1>2
<1> DEFINE q == RecvInfo(p, c)[d].proc
           x == Data(q, c, inst[p][c].gen, d)
<1>4. /\ Waiting(p, c, d) /\ SentIn(inst[q][c], x, Out(q)[c])
      /\ ghost' = [ghost EXCEPT ![p][c][d] = x] \/ ghost' = ghost
      /\ prog' = prog /\ pos' = pos /\ inst' = inst /\ step' = step
  BY <1>3 DEF Takes, callVars
<1>5. Sending' = Sending
  <2>1. \A r : AtOp(r, "SR")' <=> AtOp(r, "SR")
    BY <1>4 DEF AtOp, At, Running
  <2> QED
    BY <1>4, <2>1 DEF Sending
<1>6. Receiving(p, c)
  BY <1>4 DEF Waiting, Receiving
<1>7. ghost' = ghost \/ Changed(ghost, ghost', p, c, d, x)
  BY <1>4 DEF Changed
<1> HIDE DEF q, x
<1>8. q = RecvInfo(p, c)[d].proc /\ x = Data(q, c, inst[p][c].gen, d)
  BY DEF q, x
<1> QED
  BY <1>4, <1>5, <1>6, <1>7, <1>8, PlacedArrives

\* What DN unmarshals was sent: it was got.
LEMMA GotWasSent ==
  ASSUME NInv, NEW p \in Proc, NEW c \in Cid, NEW d \in DOMAIN RecvInfo(p, c), Receiving(p, c),
         recvreq[p][handle[p][c]][d].st # "active",
         NEW q, q = RecvInfo(p, c)[d].proc, NEW x, x = Data(q, c, inst[p][c].gen, d)
  PROVE  SentIn(inst[q][c], x, Out(q)[c])
<1>0. LInv /\ OpenInv /\ CallsInv
  BY DEF NInv, LInv
<1>1. inst[p][c].done # {} /\ d \in Got(p)[c]
  BY DEF Receiving, Got
<1>2. x \in DataSet /\ q \in Proc /\ Edge(prog, q, p, x)
  BY <1>0, <1>1, RecvEdge
<1>3. x.cid = c /\ x.gen = inst[p][c].gen /\ x.dir = d
  BY DEF Data
<1>4. ~PendIn(inst[p][c], x, Got(p)[c])
  <2>1. inst[p][c].gen \in Nat
    BY <1>0 DEF CallsInv, CallsTypeOK
  <2> QED
    BY <1>1, <1>3, <2>1 DEF PendIn
<1>5. NoneEarly(prog, q, p, inst[q], inst[p], Out(q), Got(p))
  BY <1>2 DEF NInv, PairsOK, PairOK
<1> QED
  BY <1>2, <1>3, <1>4, <1>5 DEF NoneEarly

LEMMA UnmarshalPlaces ==
  ASSUME NInv, NEW p \in Proc, NEW c \in Cid, NEW d \in DOMAIN RecvInfo(p, c), Unmarshals(p, c, d)
  PROVE  \/ ghost' = ghost
         \/ Changed(ghost, ghost', p, c, d, Data(RecvInfo(p, c)[d].proc, c, inst[p][c].gen, d))
<1> DEFINE x == Data(RecvInfo(p, c)[d].proc, c, inst[p][c].gen, d)
<1>1. /\ \/ ghost' = ghost /\ <<p, d>> \in Consecutive
         \/ ghost' = [ghost EXCEPT ![p][c][d] = x] /\ <<p, d>> \notin Consecutive
      /\ ghost'[p][c][d] = x
  BY UnmarshalsOwn
<1> QED
  BY <1>1 DEF Changed

LEMMA WaitAbstract ==
  ASSUME NInv, NEW p \in Proc, DNWait(p)
  PROVE  Abstract!Arrive(p) \/ UNCHANGED <<prog, pos, inst, Sending, ghost>>
<1>0. step \in [Proc -> SUBSET (1..MaxDirs)]
  BY DEF NInv, RInv, TInv, MPITypeOK
<1>1. PICK c \in Cid : \E d \in DOMAIN RecvInfo(p, c) : Unmarshals(p, c, d)
  BY UnmarshalsIs
<1>2. PICK d \in DOMAIN RecvInfo(p, c) : Unmarshals(p, c, d)
  BY <1>1
<1> DEFINE q == RecvInfo(p, c)[d].proc
           x == Data(q, c, inst[p][c].gen, d)
<1>3. /\ May(p, "DN", c) /\ recvreq[p][handle[p][c]][d].st = "complete"
      /\ step' = [step EXCEPT ![p] = @ \cup {d}]
      /\ prog' = prog /\ pos' = pos /\ inst' = inst
  BY <1>2 DEF Unmarshals, callVars
<1>5. Receiving(p, c)
  BY <1>3 DEF May, Required, Receiving
<1>6. Sending' = Sending
  <2>1. ~AtOp(p, "SR") /\ ~AtOp(p, "SR")'
    BY <1>3, OneCall DEF May, AtOp, At, Running
  <2>2. \A r \in Proc : r # p => pos'[r] = pos[r] /\ step'[r] = step[r]
    BY <1>0, <1>3
  <2> QED
    BY <1>3, <2>1, <2>2, SendingSame
<1> HIDE DEF q, x
<1>7. q = RecvInfo(p, c)[d].proc /\ x = Data(q, c, inst[p][c].gen, d)
  BY DEF q, x
<1>8. SentIn(inst[q][c], x, Out(q)[c])
  BY <1>3, <1>5, <1>7, GotWasSent
<1>4. ghost' = ghost \/ Changed(ghost, ghost', p, c, d, x)
  <2>1. Changed(ghost, ghost', p, c, d, Data(RecvInfo(p, c)[d].proc, c, inst[p][c].gen, d))
          \/ ghost' = ghost
    BY <1>2, UnmarshalPlaces
  <2> QED
    BY <1>7, <2>1
<1> QED
  BY <1>3, <1>4, <1>5, <1>6, <1>7, <1>8, PlacedArrives

\* IRONMAN over MPI implements the interface: a ghost area receives what the
\* neighbour sent for the same instance, between DR and DN, and DN returns only
\* when all of it is there.
THEOREM MPIRefines == Spec => Refines
<1>1. ASSUME NInv, [Next]_vars
      PROVE  [Abstract!Next]_<<prog, pos, inst, Sending, ghost>>
  <2>1. CASE \E p \in Proc : Step(p) \/ Match(p)
    <3>1. PICK p \in Proc : Step(p) \/ Match(p)
      BY <2>1
    <3>2. Abstract!Step(p) \/ UNCHANGED <<prog, pos, inst, Sending, ghost>>
      BY <1>1, <3>1, LocalAbstract, SendAbstract, SentAbstract, NeededAbstract, WaitAbstract,
         MatchAbstract DEF Step, Abstract!Step
    <3> QED
      BY <3>2 DEF Abstract!Next
  <2>2. CASE UNCHANGED vars
    <3>1. \A p : AtOp(p, "SR")' <=> AtOp(p, "SR")
      BY <2>2 DEF vars, callVars, AtOp, At, Running
    <3> QED
      BY <2>2, <3>1 DEF vars, callVars, Sending
  <2> QED
    BY <1>1, <2>1, <2>2 DEF Next, Terminated
<1>2. NInv /\ [Next]_vars => [Abstract!Next]_Abstract!vars
  BY <1>1 DEF Abstract!vars, Sending
<1> QED
  BY <1>2, InitAbstract, SpecNInv, PTL DEF Spec, Refines, Abstract!Spec
=============================================================================
