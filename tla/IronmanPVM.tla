---------------------------- MODULE IronmanPVM ----------------------------
(***************************************************************************)
(* IRONMAN over PVM (src/pvm/pvm_ironman.c).                               *)
(*                                                                         *)
(* NEW and OLD are those of the MPI implementation.  DR is a macro that    *)
(* expands to nothing (include/pvm/md_ironman.h), SR marshals and sends    *)
(* with pvm_send, which always buffers, and DN receives one direction      *)
(* after the other, in their order, with the blocking pvm_recv.  A message *)
(* may therefore arrive long before its receiver has declared its ghost    *)
(* area ready: it waits in PVM's buffers.                                  *)
(*                                                                         *)
(* PVM delivers messages of one sender in order, and pvm_recv takes the    *)
(* first one with the given sender and tag.                                *)
(***************************************************************************)
EXTENDS IronmanBank

VARIABLES
  step,   \* step[p]: the directions p has handled in the call it is in
  net,    \* net[q][p]: the messages sent from q to p, not received yet
  ghost   \* ghost[p][c][d]: the content of p's ghost area for direction d

vars == <<callVars, bankVars, step, net, ghost>>

Message == [tag : DynId, val : DataSet]

TypeOK ==
  /\ CallsTypeOK
  /\ BankTypeOK
  /\ step \in [Proc -> SUBSET (1..MaxDirs)]
  /\ net \in [Proc -> [Proc -> Seq(Message)]]
  /\ ghost \in [Proc -> [Cid -> [1..MaxDirs -> DataSet \cup {NoData}]]]

Init ==
  /\ InitCalls
  /\ InitBank
  /\ step = [p \in Proc |-> {}]
  /\ net = [q \in Proc |-> [p \in Proc |-> <<>>]]
  /\ ghost = [p \in Proc |-> [c \in Cid |-> [d \in 1..MaxDirs |-> NoData]]]

-----------------------------------------------------------------------------
\* IM_New.
New(p) ==
  \E c \in Cid :
    /\ Return(p, "NEW", c)
    /\ NewDescriptor(p, c)
    /\ UNCHANGED <<step, net, ghost>>

\* IM_DR does nothing.
DR(p) ==
  \E c \in Cid :
    /\ Return(p, "DR", c)
    /\ UNCHANGED <<bankVars, step, net, ghost>>

\* The directions the current loop has still to handle, in increasing order.
IsNext(d, D) == d \in D /\ \A e \in D : d <= e

\* IM_SR, one iteration: marshal, pack and send.
SRSend(p) ==
  \E c \in Cid : \E d \in DOMAIN SendInfo(p, c) :
    LET info == SendInfo(p, c)[d]
        msg == [tag |-> info.dyn_commid,
                val |-> Data(p, info.area, inst[p][info.area].gen, d)]
    IN /\ May(p, "SR", c)
       /\ IsNext(d, DOMAIN SendInfo(p, c) \ step[p])
       /\ net' = [net EXCEPT ![p][info.proc] = Append(@, msg)]
       /\ step' = [step EXCEPT ![p] = @ \cup {d}]
       /\ UNCHANGED <<callVars, bankVars, ghost>>

\* The loop of SR ends when all is sent; the mutant's ends one early.
AllButOneSent(p, c) == Cardinality(step[p]) + 1 >= Cardinality(DOMAIN SendInfo(p, c))
AllSent(p, c) == step[p] = DOMAIN SendInfo(p, c)

SRReturn(p) ==
  \E c \in Cid :
    /\ Return(p, "SR", c)
    /\ AllSent(p, c)
    /\ step' = [step EXCEPT ![p] = {}]
    /\ UNCHANGED <<bankVars, net, ghost>>

\* Mutant: a receive takes any tag.
FirstWithAnyTag(p, q, tag, i) == i = 1

\* The i-th message from q is the one pvm_recv takes for this sender and tag.
FirstWithTag(p, q, tag, i) ==
  /\ net[q][p][i].tag = tag
  /\ \A j \in 1..(i - 1) : net[q][p][j].tag # tag

\* Mutant: the message is looked at and not taken, and the loop starts again.
DNRecvAgain(p) ==
  \E c \in Cid : \E d \in DOMAIN RecvInfo(p, c) :
    LET info == RecvInfo(p, c)[d] IN
    \E i \in 1..Len(net[info.proc][p]) :
      /\ May(p, "DN", c)
      /\ FirstWithTag(p, info.proc, info.dyn_commid, i)
      /\ ghost' = [ghost EXCEPT ![p][info.area][d] = net[info.proc][p][i].val]
      /\ UNCHANGED <<callVars, bankVars, net, step>>

\* IM_DN, one iteration: receive, unpack and unmarshal.
DNRecv(p) ==
  \E c \in Cid : \E d \in DOMAIN RecvInfo(p, c) :
    LET info == RecvInfo(p, c)[d] IN
    \E i \in 1..Len(net[info.proc][p]) :
      /\ May(p, "DN", c)
      /\ IsNext(d, DOMAIN RecvInfo(p, c) \ step[p])
      /\ FirstWithTag(p, info.proc, info.dyn_commid, i)
      /\ ghost' = [ghost EXCEPT ![p][info.area][d] = net[info.proc][p][i].val]
      /\ net' = [net EXCEPT ![info.proc][p] =
                   SubSeq(@, 1, i - 1) \o SubSeq(@, i + 1, Len(@))]
      /\ step' = [step EXCEPT ![p] = @ \cup {d}]
      /\ UNCHANGED <<callVars, bankVars>>

\* The loop of DN ends when all is received; the mutant's ends one early.
AllButOneReceived(p, c) ==
  Cardinality(step[p]) + 1 >= Cardinality(DOMAIN RecvInfo(p, c))
AllReceived(p, c) == step[p] = DOMAIN RecvInfo(p, c)

DNReturn(p) ==
  \E c \in Cid :
    /\ Return(p, "DN", c)
    /\ AllReceived(p, c)
    /\ step' = [step EXCEPT ![p] = {}]
    /\ UNCHANGED <<bankVars, net, ghost>>

\* IM_Old.
Old(p) ==
  \E c \in Cid :
    /\ Return(p, "OLD", c)
    /\ OldDescriptor(p, c)
    /\ UNCHANGED <<step, net, ghost>>

\* The start of a pipelined loop, and the end of a tile.
Loop(p) ==
  /\ LoopInit(p) \/ LoopPost(p) \/ (SkipTile(p) /\ UNCHANGED bankVars)
  /\ UNCHANGED <<step, net, ghost>>

Step(p) ==
  New(p) \/ DR(p) \/ SRSend(p) \/ SRReturn(p) \/ DNRecv(p) \/ DNReturn(p) \/ Old(p) \/ Loop(p)

Terminated == Finished /\ UNCHANGED vars

Next == (\E p \in Proc : Step(p)) \/ Terminated

Spec == Init /\ [][Next]_vars

\* Every processor keeps running.
FairSpec == Spec /\ \A p \in Proc : WF_vars(Step(p))

-----------------------------------------------------------------------------
\* When all processors have returned from OLD of every communication, PVM
\* holds no message: each one sent was received, by the instance it was for.
NoMessageLeft ==
  \A p, q \in Proc : \A i \in 1..Len(net[q][p]) :
    LET val == net[q][p][i].val IN
    /\ inst[p][val.cid].gen <= val.gen
    /\ inst[p][val.cid].gen = val.gen => inst[p][val.cid].done # {}

\* p waits for q: in DN for a message that is not there.
WaitsFor(p, q) ==
  \E c \in Cid : \E d \in DOMAIN RecvInfo(p, c) \ step[p] :
    LET info == RecvInfo(p, c)[d] IN
    /\ At(p, "DN", c) /\ info.proc = q
    /\ \A i \in 1..Len(net[q][p]) : ~FirstWithTag(p, q, info.dyn_commid, i)

\* No cycle of waits: of any processors that are still running, one waits
\* neither for another of them nor for one that has finished.
NoCycleOfWaits ==
  \A S \in SUBSET {p \in Proc : Running(p)} : S # {} =>
    \E p \in S : \A q \in Proc : WaitsFor(p, q) => Running(q) /\ q \notin S

\* The program itself makes no cycle.
Runnable(pr) ==
  NoneStuck(pr, [p \in Proc |-> [n \in 1..Len(pr.calls) |-> AwaitsSR(pr, p, n)]])

-----------------------------------------------------------------------------
(* The refinement: data is out once pvm_send was called for it.            *)
Abstract == INSTANCE Ironman WITH
  out <- [p \in Proc |-> IF AtOp(p, "SR") THEN step[p] ELSE {}]

\* The calls over pvm_send and pvm_recv keep what the interface promises:
\* each ghost area receives what its neighbour sent for the same instance, in
\* the DR..DN window, and DN returns only when all of it is there.
Refines == Abstract!Spec

\* Every processor returns from every call.
Completes == Abstract!Completes
=============================================================================
