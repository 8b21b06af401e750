---------------------------- MODULE IronmanMPI ----------------------------
(***************************************************************************)
(* IRONMAN over MPI (src/mpi/mpi_ironman.c, src/mpi/mpi_commid.c).         *)
(*                                                                         *)
(* Every processor keeps a bank of communication descriptors and a free    *)
(* list of them.  NEW takes a descriptor and draws one dynamic id, the MPI *)
(* tag, for every direction, neighbour or not, so that all processors draw *)
(* the same ids.  DR posts a receive per incoming direction, SR marshals   *)
(* and sends per outgoing direction with the blocking MPI_Send, DN waits   *)
(* for the receives in whatever order they complete and unmarshals, OLD    *)
(* returns the descriptor.                                                 *)
(*                                                                         *)
(* MPI is modelled from what the standard lets it do: messages with the    *)
(* same source, destination and tag match in order, and MPI_Send may       *)
(* either buffer the message or wait until a receive matched it.           *)
(***************************************************************************)
EXTENDS IronmanBank

VARIABLES
  recvreq,   \* recvreq[p][s][d]: the receive request of direction d
  step,      \* step[p]: the directions p has handled in the call it is in
  net,       \* net[q][p]: the messages from q to p not matched yet, in order
  ghost      \* ghost[p][c][d]: the content of p's ghost area for direction d

vars == <<callVars, bankVars, recvreq, step, net, ghost>>

Request == [st : {"null", "active", "complete"}, val : DataSet \cup {NoData}]
NullRequest == [st |-> "null", val |-> NoData]
Message == [tag : DynId, val : DataSet, sync : BOOLEAN]

TypeOK ==
  /\ CallsTypeOK
  /\ BankTypeOK
  /\ recvreq \in [Proc -> [Slot -> [1..MaxDirs -> Request]]]
  /\ step \in [Proc -> SUBSET (1..MaxDirs)]
  /\ net \in [Proc -> [Proc -> Seq(Message)]]
  /\ ghost \in [Proc -> [Cid -> [1..MaxDirs -> DataSet \cup {NoData}]]]

Init ==
  /\ InitCalls
  /\ InitBank
  /\ recvreq = [p \in Proc |-> [s \in Slot |-> [d \in 1..MaxDirs |-> NullRequest]]]
  /\ step = [p \in Proc |-> {}]
  /\ net = [q \in Proc |-> [p \in Proc |-> <<>>]]
  /\ ghost = [p \in Proc |-> [c \in Cid |-> [d \in 1..MaxDirs |-> NoData]]]

-----------------------------------------------------------------------------
\* IM_New.
New(p) ==
  \E c \in Cid :
    /\ Return(p, "NEW", c)
    /\ NewDescriptor(p, c)
    /\ UNCHANGED <<recvreq, step, net, ghost>>

\* The directions DR posts a receive for: all it receives in; the mutant
\* posts the first only.
PostedFirst(p, c) ==
  {d \in DOMAIN RecvInfo(p, c) : \A e \in DOMAIN RecvInfo(p, c) : d <= e}
Posted(p, c) == DOMAIN RecvInfo(p, c)

\* IM_DR: MPI_Irecv for every incoming direction.
DR(p) ==
  \E c \in Cid :
    /\ Return(p, "DR", c)
    /\ recvreq' = [recvreq EXCEPT ![p] = [s \in Slot |-> [d \in 1..MaxDirs |->
         IF s = handle[p][c] /\ d \in Posted(p, c)
         THEN [st |-> "active", val |-> NoData]
         ELSE @[s][d]]]]
    /\ UNCHANGED <<bankVars, step, net, ghost>>

\* p waits in MPI_Send while its last message is unmatched and not buffered.
Blocked(p) ==
  \E q \in Proc : \E i \in 1..Len(net[p][q]) : net[p][q][i].sync

\* IM_SR, one iteration: marshal and MPI_Send, in the order of directions.
SRSend(p) ==
  \E c \in Cid : \E d \in DOMAIN SendInfo(p, c) \ step[p], wait \in BOOLEAN :
    LET info == SendInfo(p, c)[d]
        msg == [tag |-> info.dyn_commid, sync |-> wait,
                val |-> Data(p, info.area, inst[p][info.area].gen, d)]
    IN /\ May(p, "SR", c)
       /\ ~Blocked(p)
       /\ \A e \in DOMAIN SendInfo(p, c) \ step[p] : d <= e
       /\ net' = [net EXCEPT ![p][info.proc] = Append(@, msg)]
       /\ step' = [step EXCEPT ![p] = @ \cup {d}]
       /\ UNCHANGED <<callVars, bankVars, recvreq, ghost>>

SRReturn(p) ==
  \E c \in Cid :
    /\ Return(p, "SR", c)
    /\ step[p] = DOMAIN SendInfo(p, c)
    /\ ~Blocked(p)
    /\ step' = [step EXCEPT ![p] = {}]
    /\ UNCHANGED <<bankVars, recvreq, net, ghost>>

\* Mutant: the loop neither counts what it unmarshalled nor clears its request.
DNWaitAgain(p) ==
  \E c \in Cid : \E d \in DOMAIN RecvInfo(p, c) \ step[p] :
    /\ May(p, "DN", c)
    /\ recvreq[p][handle[p][c]][d].st = "complete"
    /\ ghost' = [ghost EXCEPT ![p][c][d] = recvreq[p][handle[p][c]][d].val]
    /\ UNCHANGED <<callVars, bankVars, recvreq, step, net>>

\* IM_DN, one iteration: MPI_Waitany picks any completed request; data that
\* did not go straight to a contiguous ghost area is unmarshalled into it.
DNWait(p) ==
  \E c \in Cid : \E d \in DOMAIN RecvInfo(p, c) \ step[p] :
    LET s == handle[p][c]
        area == RecvInfo(p, c)[d].area
    IN /\ May(p, "DN", c)
       /\ recvreq[p][s][d].st = "complete"
       /\ ghost' = IF <<p, d>> \in Consecutive THEN ghost
                   ELSE [ghost EXCEPT ![p][area][d] = recvreq[p][s][d].val]
       /\ recvreq' = [recvreq EXCEPT ![p][s][d] = NullRequest]
       /\ step' = [step EXCEPT ![p] = @ \cup {d}]
       /\ UNCHANGED <<callVars, bankVars, net>>

\* The loop ends when as many requests completed as there are receives; the
\* mutant's ends one early.
AllButOneReceived(p, c) ==
  Cardinality(step[p]) + 1 >= Cardinality(DOMAIN RecvInfo(p, c))
AllReceived(p, c) == Cardinality(step[p]) = Cardinality(DOMAIN RecvInfo(p, c))

DNReturn(p) ==
  \E c \in Cid :
    /\ Return(p, "DN", c)
    /\ AllReceived(p, c)
    /\ step' = [step EXCEPT ![p] = {}]
    /\ UNCHANGED <<bankVars, recvreq, net, ghost>>

\* IM_Old: its buffers are freed with the descriptor.
Old(p) ==
  \E c \in Cid :
    /\ Return(p, "OLD", c)
    /\ OldDescriptor(p, c)
    /\ UNCHANGED <<recvreq, step, net, ghost>>

\* Mutant: a receive takes any tag.
MatchesAnyTag(p, q, s, d, i) ==
  recvreq[p][s][d].st = "active" /\ commbank[p][s].recvinfo[d].proc = q /\ i = 1

\* MPI: the i-th unmatched message from q is the oldest one that p's posted
\* receive for direction d of descriptor s can take.
Matches(p, q, s, d, i) ==
  LET info == commbank[p][s].recvinfo[d] IN
  /\ recvreq[p][s][d].st = "active"
  /\ info.proc = q
  /\ net[q][p][i].tag = info.dyn_commid
  /\ \A j \in 1..(i - 1) : net[q][p][j].tag # info.dyn_commid

\* The message is received; a contiguous ghost area is itself the buffer.
Match(p) ==
  \E q \in Proc, s \in Slot : \E d \in DOMAIN commbank[p][s].recvinfo :
  \E i \in 1..Len(net[q][p]) :
    LET val == net[q][p][i].val
        area == commbank[p][s].recvinfo[d].area
    IN /\ Matches(p, q, s, d, i)
       /\ recvreq' = [recvreq EXCEPT ![p][s][d] = [st |-> "complete", val |-> val]]
       /\ net' = [net EXCEPT ![q][p] =
                    SubSeq(@, 1, i - 1) \o SubSeq(@, i + 1, Len(@))]
       /\ ghost' = IF <<p, d>> \in Consecutive
                   THEN [ghost EXCEPT ![p][area][d] = val] ELSE ghost
       /\ UNCHANGED <<callVars, bankVars, step>>

\* The start of a pipelined loop, and the end of a tile.
Loop(p) ==
  /\ LoopInit(p) \/ LoopPost(p) \/ (SkipTile(p) /\ UNCHANGED bankVars)
  /\ UNCHANGED <<recvreq, step, net, ghost>>

Step(p) ==
  New(p) \/ DR(p) \/ SRSend(p) \/ SRReturn(p) \/ DNWait(p) \/ DNReturn(p) \/ Old(p) \/ Loop(p)

Terminated == Finished /\ UNCHANGED vars

Next == (\E p \in Proc : Step(p) \/ Match(p)) \/ Terminated

Spec == Init /\ [][Next]_vars

\* Every processor keeps running and MPI makes progress on what can match.
FairSpec ==
  Spec /\ \A p \in Proc : WF_vars(Step(p)) /\ WF_vars(Match(p))

-----------------------------------------------------------------------------
\* No receive is outstanding on a descriptor that is free: OLD never frees a
\* buffer MPI may still write to, and NEW never reuses one.
NoReceiveIntoFreed ==
  \A p \in Proc : \A i \in 1..Len(freelist[p]) : \A d \in 1..MaxDirs :
    recvreq[p][freelist[p][i]][d].st = "null"

\* Two outstanding receives of a processor from the same source never carry
\* the same tag, so that a message can match only the one it is meant for.
TagsDistinct ==
  \A p \in Proc : \A s, t \in Slot : \A d, e \in 1..MaxDirs :
    /\ recvreq[p][s][d].st = "active"
    /\ recvreq[p][t][e].st = "active"
    /\ commbank[p][s].recvinfo[d].proc = commbank[p][t].recvinfo[e].proc
    /\ commbank[p][s].recvinfo[d].dyn_commid = commbank[p][t].recvinfo[e].dyn_commid
    => s = t /\ d = e

\* p waits for q: in MPI_Send for a receive that can match, or in DN for a
\* message that can.
WaitsFor(p, q) ==
  \/ \E i \in 1..Len(net[p][q]) :
       /\ net[p][q][i].sync
       /\ \A s \in Slot : \A d \in DOMAIN commbank[q][s].recvinfo : ~Matches(q, p, s, d, i)
  \/ \E c \in Cid : \E d \in DOMAIN RecvInfo(p, c) \ step[p] :
       /\ At(p, "DN", c)
       /\ RecvInfo(p, c)[d].proc = q
       /\ recvreq[p][handle[p][c]][d].st # "complete"
       /\ \A i \in 1..Len(net[q][p]) : ~Matches(p, q, handle[p][c], d, i)

\* No cycle of waits: of any processors that are still running, one waits
\* neither for another of them nor for one that has finished.
NoCycleOfWaits ==
  \A S \in SUBSET {p \in Proc : Running(p)} : S # {} =>
    \E p \in S : \A q \in Proc : WaitsFor(p, q) => Running(q) /\ q \notin S

\* The program itself makes no cycle, though a send awaits its receive.
Runnable(pr) ==
  NoneStuck(pr, [p \in Proc |-> [n \in 1..Len(pr.calls) |->
                   AwaitsSR(pr, p, n) \cup AwaitsDR(pr, p, n)]])

-----------------------------------------------------------------------------
(* The refinement: data is out once MPI_Send was called for it.            *)
Abstract == INSTANCE Ironman WITH
  out <- [p \in Proc |-> IF AtOp(p, "SR") THEN step[p] ELSE {}]

\* The calls over MPI_Send, MPI_Irecv and MPI_Waitany keep what the interface promises:
\* each ghost area receives what its neighbour sent for the same instance, in
\* the DR..DN window, and DN returns only when all of it is there.
Refines == Abstract!Spec

\* Every processor returns from every call.
Completes == Abstract!Completes
=============================================================================
