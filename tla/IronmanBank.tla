---------------------------- MODULE IronmanBank ----------------------------
(***************************************************************************)
(* The bookkeeping the message-passing implementations of IRONMAN share,   *)
(* word for word (src/mpi/mpi_ironman.c and src/pvm/pvm_ironman.c): a bank *)
(* of communication descriptors with a free list, and dynamic ids.         *)
(*                                                                         *)
(* NEW takes a descriptor and draws one dynamic id, the message tag, for   *)
(* every direction, whether or not this processor has a neighbour in it,   *)
(* so that all processors draw the same ids without talking to each other. *)
(***************************************************************************)
EXTENDS IronmanCalls, FiniteSets

CONSTANTS
  NoData,      \* the content of a ghost area nothing was received into
  NoHandle,    \* the NULL handle of a communication without neighbours
  Comms,       \* how many descriptors IM_Initialize allocates
  Consecutive, \* <<p, d>>: p's ghost area for d is one contiguous block
  FirstId,     \* _NUM_RESERVED_IDS
  MaxCommId    \* the dynamic ids are below this bound

ASSUME CommsAssumption ==
  IsFiniteSet(Cid) /\ Comms \in Nat /\ Comms >= Cardinality(Cid)
ASSUME NoHandleAssumption == NoHandle \notin 0..(Comms - 1)
ASSUME ConsecutiveAssumption == Consecutive \subseteq Proc \X (1..MaxDirs)
ASSUME IdsAssumption ==
  FirstId \in Nat /\ MaxCommId \in Nat /\ FirstId < MaxCommId

\* The ids that the NEW calls at the places m..n of program pr draw.
IdsDrawn(pr, m, n) ==
  {x \in (m..n) \X (1..MaxDirs) :
     \E c \in Cid :
       /\ pr.calls[x[1]] = <<"NEW", c>>
       /\ x[2] \in DOMAIN pr.dirs[c][Cardinality(Places(pr, "NEW", c, x[1]))]}

\* While a communication is open, fewer ids are drawn than there are: the
\* calls of a communication are in one basic block, and there are tens of
\* thousands of ids.
EnoughIds(pr) ==
  \A m, n \in 1..Len(pr.calls) : \A c \in Cid :
    /\ m < n
    /\ pr.calls[m] = <<"NEW", c>>
    /\ "OLD" \notin {pr.calls[i][1] : i \in {j \in m..(n - 1) : pr.calls[j][2] = c}}
    => Cardinality(IdsDrawn(pr, m, n)) <= MaxCommId - FirstId

ASSUME EnoughIdsAssumption == \A pr \in Programs : EnoughIds(pr)

VARIABLES
  dyncommid, \* dyncommid[p]: the dynamic id p drew last
  dcid,      \* dcid[p]: the dynamic id at the start of the pipelined loop
  freelist,  \* freelist[p]: p's free descriptors, the next one last
  commbank,  \* commbank[p][s]: what descriptor s receives and sends, by direction
  handle     \* handle[p][c]: the descriptor IM_New returned for c

bankVars == <<dyncommid, dcid, freelist, commbank, handle>>

Slot == 0..(Comms - 1)
DynId == FirstId..(MaxCommId - 1)
\* area is the array whose memory the buffer of this direction describes.
PerComm == [proc : Proc, dyn_commid : DynId, area : Cid]
IsMap(m, S) == DOMAIN m \subseteq 1..MaxDirs /\ m \in [DOMAIN m -> S]

BankTypeOK ==
  /\ dyncommid \in [Proc -> DynId]
  /\ dcid \in [Proc -> DynId]
  /\ freelist \in [Proc -> Seq(Slot)]
  /\ DOMAIN commbank = Proc
  /\ \A p \in Proc :
       /\ DOMAIN commbank[p] = Slot
       /\ \A s \in Slot : /\ IsMap(commbank[p][s].recvinfo, PerComm)
                         /\ IsMap(commbank[p][s].sendinfo, PerComm)
  /\ handle \in [Proc -> [Cid -> Slot \cup {NoHandle}]]

\* IM_Initialize: the list is filled so that descriptor 0 is taken first.
InitBank ==
  /\ dyncommid = [p \in Proc |-> FirstId]
  /\ dcid = [p \in Proc |-> FirstId]
  /\ freelist = [p \in Proc |-> [i \in 1..Comms |-> Comms - i]]
  /\ commbank = [p \in Proc |->
       [s \in Slot |-> [recvinfo |-> <<>>, sendinfo |-> <<>>]]]
  /\ handle = [p \in Proc |-> [c \in Cid |-> NoHandle]]

-----------------------------------------------------------------------------
\* Mutant: the ids do not start again.
GetDynamicCommIDNoWrap(id, n) == id + n

\* The id that the n-th call of _GetDynamicCommID returns after id: each call
\* adds one, and starts again from FirstId at MaxCommId.
GetDynamicCommID(id, n) == FirstId + ((id - FirstId + n) % (MaxCommId - FirstId))

\* The id for direction d of the communication that p is setting up; the
\* mutant draws one id for all directions.
DrawnOnce(p, d) == GetDynamicCommID(dyncommid[p], 1)
Drawn(p, d) == GetDynamicCommID(dyncommid[p], d)

\* How many ids p draws: one for every direction, neighbour or not; the
\* mutant draws them only where it receives.
NumIdsReceiving(p, ds) == Cardinality(RecvDirs(p, ds))
NumIds(p, ds) == Len(ds)

\* The free list after a descriptor was taken; the mutant leaves it there.
NotTaken(list) == list
Taken(list) == SubSeq(list, 1, Len(list) - 1)

\* IM_New for id c: the descriptor records the directions with a neighbour;
\* without any it goes straight back to the free list and the handle is NULL.
NewDescriptor(p, c) ==
  LET ds == Dirs(p, c)
      s == freelist[p][Len(freelist[p])]
      recvs == [d \in RecvDirs(p, ds) |->
        [proc |-> Source(p, ds, d), dyn_commid |-> Drawn(p, d), area |-> c]]
      sends == [d \in SendDirs(p, ds) |->
        [proc |-> ds[d][p], dyn_commid |-> Drawn(p, d), area |-> c]]
  IN /\ dyncommid' = [dyncommid EXCEPT ![p] = GetDynamicCommID(@, NumIds(p, ds))]
     /\ UNCHANGED dcid
     /\ IF RecvDirs(p, ds) \cup SendDirs(p, ds) = {}
        THEN /\ handle' = [handle EXCEPT ![p][c] = NoHandle]
             /\ UNCHANGED <<freelist, commbank>>
        ELSE /\ handle' = [handle EXCEPT ![p][c] = s]
             /\ freelist' = [freelist EXCEPT ![p] = Taken(@)]
             /\ commbank' = [commbank EXCEPT ![p][s] =
                  [recvinfo |-> recvs, sendinfo |-> sends]]

\* IM_Old for id c: the descriptor becomes the next one to be taken.
OldDescriptor(p, c) ==
  /\ IF handle[p][c] = NoHandle
     THEN UNCHANGED freelist
     ELSE freelist' = [freelist EXCEPT ![p] = Append(@, handle[p][c])]
  /\ UNCHANGED <<dyncommid, dcid, commbank, handle>>

\* _MSCAN_INIT: the loop remembers the dynamic id.
LoopInit(p) ==
  /\ Pass(p, "INIT")
  /\ dcid' = [dcid EXCEPT ![p] = dyncommid[p]]
  /\ UNCHANGED <<dyncommid, freelist, commbank, handle>>

\* _MSCAN_POST: the next tile draws the ids of this one again.
LoopPost(p) ==
  /\ Pass(p, "POST")
  /\ dyncommid' = [dyncommid EXCEPT ![p] = dcid[p]]
  /\ UNCHANGED <<dcid, freelist, commbank, handle>>

\* What the current call for c works through: nothing when the handle is NULL.
RecvInfo(p, c) == IF handle[p][c] = NoHandle THEN <<>>
                  ELSE commbank[p][handle[p][c]].recvinfo
SendInfo(p, c) == IF handle[p][c] = NoHandle THEN <<>>
                  ELSE commbank[p][handle[p][c]].sendinfo

-----------------------------------------------------------------------------
InUse(p, c) == inst[p][c].done # {} /\ handle[p][c] # NoHandle

\* A free descriptor is on the list once, one in use belongs to exactly one
\* communication, and NEW never finds the list empty (it would read
\* freelist[-1]): there is one descriptor per static id.
DescriptorsOwned ==
  \A p \in Proc :
    /\ \A c, e \in Cid :
         InUse(p, c) /\ InUse(p, e) /\ handle[p][c] = handle[p][e] => c = e
    /\ \A c \in Cid, i \in 1..Len(freelist[p]) :
         InUse(p, c) => freelist[p][i] # handle[p][c]
    /\ \A i, j \in 1..Len(freelist[p]) :
         freelist[p][i] = freelist[p][j] => i = j
    /\ (\E c \in Cid : May(p, "NEW", c)) => freelist[p] # <<>>

\* Processors at the same point of the program have drawn the same ids.
IdsInLockstep ==
  \A p, q \in Proc : pos[p] = pos[q] => dyncommid[p] = dyncommid[q]
=============================================================================
