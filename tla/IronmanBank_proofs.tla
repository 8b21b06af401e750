------------------------- MODULE IronmanBank_proofs -------------------------
(***************************************************************************)
(* Proofs about the bank of descriptors and the dynamic ids, for any       *)
(* number of processors, communications and descriptors (at least as many  *)
(* as communications), and for every program and number of ids: the ids a  *)
(* processor has drawn are a function of its place in the program.  It     *)
(* counts the directions of the NEWs before that place, those of a tile    *)
(* only until the end of the tile.  And, while fewer ids are drawn than    *)
(* there are, communications that are open at the same time receive under  *)
(* different tags, so that a receive finds the message meant for it.  The  *)
(* proofs are shared by the implementations over MPI and over PVM, as the  *)
(* code is.                                                                *)
(***************************************************************************)
EXTENDS IronmanBank, IronmanCalls_proofs, FiniteSetTheorems

Free(p, s) == \E i \in 1..Len(freelist[p]) : freelist[p][i] = s
Held(p, s) == \E c \in Cid : InUse(p, c) /\ handle[p][c] = s

\* Every descriptor of p is free or in use, never both, and in one place.
Owned(p) ==
  /\ \A c, e \in Cid :
       InUse(p, c) /\ InUse(p, e) /\ handle[p][c] = handle[p][e] => c = e
  /\ \A i, j \in 1..Len(freelist[p]) : freelist[p][i] = freelist[p][j] => i = j
  /\ \A s \in Slot : Free(p, s) <=> ~Held(p, s)

BankInv == BankTypeOK /\ \A p \in Proc : Owned(p)

-----------------------------------------------------------------------------
\* Dynamic ids start again before they leave their range.
LEMMA DynIdType ==
  ASSUME NEW id \in DynId, NEW n \in Nat
  PROVE  GetDynamicCommID(id, n) \in DynId
<1> DEFINE w == MaxCommId - FirstId
           k == id - FirstId + n
<1>1. w \in Nat /\ w > 0 /\ k \in Nat /\ FirstId \in Nat
  BY IdsAssumption DEF DynId
<1>2. k % w \in 0..(w - 1)
  <2> HIDE DEF w, k
  <2> QED
    BY <1>1
<1>3. GetDynamicCommID(id, n) = FirstId + (k % w)
  BY DEF GetDynamicCommID
<1> HIDE DEF k
<1> QED
  BY <1>1, <1>2, <1>3, IdsAssumption DEF DynId

\* While a communication is not open there is a free descriptor: there are at
\* least as many as communications, and each is held by a different one.
LEMMA NotEmpty ==
  ASSUME BankInv, NEW p \in Proc, NEW c \in Cid, inst[p][c].done = {}
  PROVE  freelist[p] # <<>>
<1> SUFFICES ASSUME freelist[p] = <<>> PROVE FALSE
  OBVIOUS
<1>1. \A s \in Slot : Held(p, s)
  BY DEF BankInv, Owned, Free
<1> DEFINE f == [s \in Slot |-> CHOOSE e \in Cid : InUse(p, e) /\ handle[p][e] = s]
<1>2. \A s \in Slot : f[s] \in Cid /\ InUse(p, f[s]) /\ handle[p][f[s]] = s
  BY <1>1 DEF Held
<1>3. f \in [Slot -> Cid \ {c}]
  BY <1>2 DEF InUse
<1>4. IsFiniteSet(Slot) /\ Cardinality(Slot) = Comms
  BY CommsAssumption, FS_Interval DEF Slot
<1>5. /\ IsFiniteSet(Cid \ {c})
      /\ Cardinality(Cid \ {c}) < Comms
  <2>1. IsFiniteSet(Cid \ {c}) /\ Cardinality(Cid \ {c}) = Cardinality(Cid) - 1
    BY CommsAssumption, FS_RemoveElement
  <2>2. Cardinality(Cid) \in Nat /\ Comms \in Nat /\ Comms >= Cardinality(Cid)
    BY CommsAssumption, FS_CardinalityType
  <2> QED
    BY <2>1, <2>2
<1>6. PICK s, t \in Slot : s # t /\ f[s] = f[t]
  <2> HIDE DEF f
  <2> QED
    BY <1>3, <1>4, <1>5, FS_PigeonHole
<1> QED
  BY <1>2, <1>6

\* What a descriptor holds is typed, and nothing without one.
LEMMA InfoInDirs ==
  ASSUME BankInv, NEW p \in Proc, NEW c \in Cid
  PROVE  /\ IsMap(RecvInfo(p, c), PerComm)
         /\ IsMap(SendInfo(p, c), PerComm)
<1>1. IsMap(<<>>, PerComm)
  BY DEF IsMap
<1>2. handle[p][c] \in Slot \cup {NoHandle}
  BY DEF BankInv, BankTypeOK
<1> QED
  BY <1>1, <1>2 DEF RecvInfo, SendInfo, BankInv, BankTypeOK

\* What the property says follows from the stronger invariant.
LEMMA OwnedImplies == CallsInv /\ BankInv => DescriptorsOwned
<1> SUFFICES ASSUME CallsInv, BankInv, NEW p \in Proc
             PROVE  /\ \A c \in Cid, i \in 1..Len(freelist[p]) :
                         InUse(p, c) => freelist[p][i] # handle[p][c]
                    /\ (\E c \in Cid : May(p, "NEW", c)) => freelist[p] # <<>>
  BY DEF DescriptorsOwned, BankInv, Owned
<1>1. ASSUME NEW c \in Cid, NEW i \in 1..Len(freelist[p]), InUse(p, c)
      PROVE  freelist[p][i] # handle[p][c]
  <2>1. handle[p][c] \in Slot
    BY <1>1 DEF BankInv, BankTypeOK, InUse
  <2>2. Held(p, handle[p][c])
    BY <1>1 DEF Held
  <2> QED
    BY <1>1, <2>1, <2>2 DEF BankInv, Owned, Free
<1>2. ASSUME NEW c \in Cid, May(p, "NEW", c) PROVE freelist[p] # <<>>
  <2>1. inst[p][c].done = {}
    BY <1>2, NewClosed
  <2> QED
    BY <2>1, NotEmpty
<1> QED
  BY <1>1, <1>2

-----------------------------------------------------------------------------
LEMMA InitBankInv == InitCalls /\ InitBank => BankInv
<1> SUFFICES ASSUME InitCalls, InitBank PROVE BankInv
  OBVIOUS
<1>1. \A p \in Proc : freelist[p] = [i \in 1..Comms |-> Comms - i] /\ Comms \in Nat
  BY CommsAssumption DEF InitBank
<1>2. \A p \in Proc : freelist[p] \in Seq(Slot) /\ Len(freelist[p]) = Comms
  <2> SUFFICES ASSUME NEW p \in Proc
               PROVE  freelist[p] \in Seq(Slot) /\ Len(freelist[p]) = Comms
    OBVIOUS
  <2> DEFINE all == [i \in 1..Comms |-> Comms - i]
  <2>1. all \in [1..Comms -> Slot]
    <3>1. \A i \in 1..Comms : Comms - i \in 0..(Comms - 1)
      BY CommsAssumption
    <3> QED
      BY <3>1 DEF Slot
  <2> HIDE DEF all
  <2>2. all \in Seq(Slot) /\ Len(all) = Comms
    BY <2>1, CommsAssumption
  <2> QED
    BY <1>1, <2>2 DEF all
<1>3. BankTypeOK
  <2>1. FirstId \in DynId
    BY IdsAssumption DEF DynId
  <2>2. IsMap(<<>>, PerComm)
    BY DEF IsMap
  <2>3. freelist \in [Proc -> Seq(Slot)]
    BY <1>2 DEF InitBank
  <2> QED
    BY <2>1, <2>2, <2>3 DEF BankTypeOK, InitBank
<1>4. ASSUME NEW p \in Proc PROVE Owned(p)
  <2>1. \A c \in Cid : ~InUse(p, c)
    BY DEF InitCalls, InUse
  <2>2. \A i \in 1..Len(freelist[p]) : freelist[p][i] = Comms - i
    BY <1>1, <1>2
  <2>3. ASSUME NEW s \in Slot PROVE Free(p, s)
    <3>1. Comms - s \in 1..Len(freelist[p]) /\ Comms - (Comms - s) = s
      BY <1>1, <1>2 DEF Slot
    <3> QED
      BY <2>2, <3>1 DEF Free
  <2>4. \A i, j \in 1..Len(freelist[p]) : freelist[p][i] = freelist[p][j] => i = j
    BY <1>1, <1>2, <2>2
  <2> QED
    BY <2>1, <2>3, <2>4 DEF Owned, Held
<1> QED
  BY <1>3, <1>4 DEF BankInv

\* Nothing happens to the bank of a processor whose open communications,
\* handles and free list stay as they are.
LEMMA OwnedFrame ==
  ASSUME NEW p \in Proc, Owned(p), freelist'[p] = freelist[p],
         handle'[p] = handle[p],
         \A c \in Cid : inst'[p][c].done = {} <=> inst[p][c].done = {}
  PROVE  Owned(p)'
<1>1. \A c \in Cid : InUse(p, c)' <=> InUse(p, c)
  BY DEF InUse
<1>2. \A s : (Free(p, s)' <=> Free(p, s)) /\ (Held(p, s)' <=> Held(p, s))
  BY <1>1 DEF Free, Held
<1> QED
  BY <1>1, <1>2 DEF Owned

\* A processor that draws n ids, and keeps its bank.
LEMMA BankFrame ==
  ASSUME BankInv, freelist' = freelist, handle' = handle, commbank' = commbank,
         dyncommid' \in [Proc -> DynId], dcid' \in [Proc -> DynId],
         \A p \in Proc, c \in Cid : inst'[p][c].done = {} <=> inst[p][c].done = {}
  PROVE  BankInv'
<1>1. BankTypeOK'
  BY DEF BankInv, BankTypeOK
<1> QED
  BY <1>1, OwnedFrame DEF BankInv

-----------------------------------------------------------------------------
\* What NEW records of the directions it sends and receives in.
LEMMA InfoType ==
  ASSUME CallsInv, BankInv, NEW p \in Proc, NEW c \in Cid,
         Return(p, "NEW", c), NEW D \in SUBSET DOMAIN Dirs(p, c),
         NEW other \in [D -> Proc]
  PROVE  IsMap([d \in D |-> [proc |-> other[d], dyn_commid |-> Drawn(p, d), area |-> c]],
               PerComm)
<1>1. prog.dirs[c] \in Seq(Seq(Direction)) /\ Gen(p, c) \in 1..Len(prog.dirs[c])
  BY ProgramsAssumption DEF CallsInv, Program, Return
<1>2. D \subseteq 1..MaxDirs
  BY <1>1, DirsType DEF CallsInv, Dirs
<1>3. \A d \in D : Drawn(p, d) \in DynId
  <2> SUFFICES ASSUME NEW d \in D PROVE Drawn(p, d) \in DynId
    OBVIOUS
  <2>1. dyncommid[p] \in DynId /\ d \in Nat
    BY <1>2, MaxDirsAssumption DEF BankInv, BankTypeOK
  <2> QED
    BY <2>1, DynIdType DEF Drawn
<1> QED
  BY <1>2, <1>3 DEF IsMap, PerComm

\* NEW keeps the bank: it takes the last free descriptor, if it needs one.
LEMMA NewBank ==
  ASSUME CallsInv, BankInv, NEW p \in Proc, NEW c \in Cid,
         Return(p, "NEW", c), NewDescriptor(p, c)
  PROVE  BankInv'
<1> DEFINE ds == Dirs(p, c)
           n == Len(freelist[p])
           s == freelist[p][n]
           recvs == [d \in RecvDirs(p, ds) |->
             [proc |-> Source(p, ds, d), dyn_commid |-> Drawn(p, d), area |-> c]]
           sends == [d \in SendDirs(p, ds) |->
             [proc |-> ds[d][p], dyn_commid |-> Drawn(p, d), area |-> c]]
<1>1. inst[p][c].done = {} /\ "NEW" \in Op
  BY NewClosed DEF Return, Op
<1>2. /\ inst'[p][c] = [done |-> DoneAfter(inst[p][c].done, "NEW"), gen |-> Gen(p, c)]
      /\ \A r \in Proc, e \in Cid : <<r, e>> # <<p, c>> => inst'[r][e] = inst[r][e]
  <2> DEFINE o == "NEW"
  <2>1. o \in Op /\ Return(p, o, c)
    BY <1>1
  <2> HIDE DEF o
  <2>2. /\ inst'[p][c] = [done |-> DoneAfter(inst[p][c].done, o), gen |-> Gen(p, c)]
        /\ \A r \in Proc, e \in Cid : <<r, e>> # <<p, c>> => inst'[r][e] = inst[r][e]
    BY <2>1, ReturnStep
  <2> QED
    BY <2>2 DEF o
<1>3. inst'[p][c].done = {"NEW"}
  BY <1>1, <1>2 DEF DoneAfter
<1>4. n \in Nat /\ n > 0 /\ s \in Slot /\ freelist[p] \in Seq(Slot)
  <2>1. freelist[p] # <<>>
    BY <1>1, NotEmpty
  <2> QED
    BY <2>1 DEF BankInv, BankTypeOK
<1>5. IsMap(recvs, PerComm)
  <2> DEFINE other == [d \in RecvDirs(p, ds) |-> Source(p, ds, d)]
  <2>1. other \in [RecvDirs(p, ds) -> Proc] /\ RecvDirs(p, ds) \subseteq DOMAIN Dirs(p, c)
    BY SourceType DEF RecvDirs
  <2>2. recvs = [d \in RecvDirs(p, ds) |->
          [proc |-> other[d], dyn_commid |-> Drawn(p, d), area |-> c]]
    OBVIOUS
  <2> HIDE DEF other, recvs
  <2> QED
    BY <2>1, <2>2, InfoType
<1>6. IsMap(sends, PerComm)
  <2> DEFINE other == [d \in SendDirs(p, ds) |-> ds[d][p]]
  <2>1. other \in [SendDirs(p, ds) -> Proc] /\ SendDirs(p, ds) \subseteq DOMAIN Dirs(p, c)
    <3>1. prog.dirs[c] \in Seq(Seq(Direction)) /\ Gen(p, c) \in 1..Len(prog.dirs[c])
      BY ProgramsAssumption DEF CallsInv, Program, Return
    <3>2. ds \in Seq(Direction)
      BY <3>1 DEF Dirs
    <3> HIDE DEF ds
    <3>3. \A d \in DOMAIN ds : ds[d] \in Direction
      BY <3>2
    <3> QED
      BY <3>3 DEF SendDirs, Direction, ds
  <2>2. sends = [d \in SendDirs(p, ds) |->
          [proc |-> other[d], dyn_commid |-> Drawn(p, d), area |-> c]]
    OBVIOUS
  <2> HIDE DEF other, sends
  <2> QED
    BY <2>1, <2>2, InfoType
<1>7. dyncommid' \in [Proc -> DynId] /\ dcid' \in [Proc -> DynId]
  <2>1. Len(ds) \in Nat
    <3>1. prog.dirs[c] \in Seq(Seq(Direction)) /\ Gen(p, c) \in 1..Len(prog.dirs[c])
      BY ProgramsAssumption DEF CallsInv, Program, Return
    <3> QED
      BY <3>1 DEF Dirs
  <2>2. GetDynamicCommID(dyncommid[p], Len(ds)) \in DynId
    BY <2>1, DynIdType DEF BankInv, BankTypeOK
  <2> QED
    BY <2>2 DEF NewDescriptor, NumIds, BankInv, BankTypeOK
<1>8. CASE RecvDirs(p, ds) \cup SendDirs(p, ds) = {}
  <2>1. /\ handle' = [handle EXCEPT ![p][c] = NoHandle]
        /\ freelist' = freelist /\ commbank' = commbank
    BY <1>8 DEF NewDescriptor
  <2>2. BankTypeOK'
    BY <1>7, <2>1 DEF BankInv, BankTypeOK
  <2>3. ASSUME NEW r \in Proc PROVE Owned(r)'
    <3>1. \A e \in Cid : /\ InUse(r, e)' <=> InUse(r, e)
                         /\ InUse(r, e) => handle'[r][e] = handle[r][e]
      BY <1>1, <1>2, <1>3, <2>1 DEF InUse, BankInv, BankTypeOK
    <3>2. \A t : (Free(r, t)' <=> Free(r, t)) /\ (Held(r, t)' <=> Held(r, t))
      BY <2>1, <3>1 DEF Free, Held
    <3> QED
      BY <2>1, <3>1, <3>2 DEF Owned, BankInv
  <2> QED
    BY <2>2, <2>3 DEF BankInv
<1>9. CASE RecvDirs(p, ds) \cup SendDirs(p, ds) # {}
  <2>1. /\ handle' = [handle EXCEPT ![p][c] = s]
        /\ freelist' = [freelist EXCEPT ![p] = SubSeq(@, 1, n - 1)]
        /\ commbank' = [commbank EXCEPT ![p][s] = [recvinfo |-> recvs, sendinfo |-> sends]]
    BY <1>9 DEF NewDescriptor, Taken
  <2> HIDE DEF s, n, recvs, sends
  <2>2. BankTypeOK'
    <3>1. freelist' \in [Proc -> Seq(Slot)]
      <4>1. SubSeq(freelist[p], 1, n - 1) \in Seq(Slot)
        BY <1>4 DEF n
      <4> QED
        BY <2>1, <4>1 DEF BankInv, BankTypeOK
    <3>2. handle' \in [Proc -> [Cid -> Slot \cup {NoHandle}]]
      BY <1>4, <2>1 DEF BankInv, BankTypeOK
    <3>3. /\ DOMAIN commbank' = Proc
          /\ \A r \in Proc :
               /\ DOMAIN commbank'[r] = Slot
               /\ \A t \in Slot : /\ IsMap(commbank'[r][t].recvinfo, PerComm)
                                  /\ IsMap(commbank'[r][t].sendinfo, PerComm)
      BY <1>4, <1>5, <1>6, <2>1 DEF BankInv, BankTypeOK
    <3> QED
      BY <1>7, <3>1, <3>2, <3>3 DEF BankTypeOK
  <2>3. ASSUME NEW r \in Proc, r # p PROVE Owned(r)'
    <3>1. freelist'[r] = freelist[r] /\ handle'[r] = handle[r]
      BY <2>1, <2>3 DEF BankInv, BankTypeOK
    <3> QED
      BY <1>2, <2>3, <3>1, OwnedFrame DEF BankInv
  <2>4. Owned(p)'
    <3>1. /\ freelist'[p] = SubSeq(freelist[p], 1, n - 1)
          /\ handle'[p][c] = s /\ \A e \in Cid : e # c => handle'[p][e] = handle[p][e]
      BY <2>1 DEF BankInv, BankTypeOK
    <3>2. Len(freelist'[p]) = n - 1 /\ \A i \in 1..(n - 1) : freelist'[p][i] = freelist[p][i]
      BY <1>4, <3>1 DEF n
    <3>3. \A e \in Cid : e # c => /\ InUse(p, e)' <=> InUse(p, e)
                                  /\ handle'[p][e] = handle[p][e]
      BY <1>2, <3>1 DEF InUse
    <3>4. InUse(p, c)' /\ ~InUse(p, c)
      BY <1>1, <1>3, <1>4, <3>1, NoHandleAssumption DEF InUse, Slot
    <3>5. Free(p, s)
      BY <1>4 DEF Free, s, n
    <3>6. \A i, j \in 1..n : freelist[p][i] = freelist[p][j] => i = j
      BY DEF BankInv, Owned, n
    <3>7. \A t \in Slot : Free(p, t)' <=> Free(p, t) /\ t # s
      <4>1. n - 1 \in Nat /\ 1..n = (1..(n - 1)) \cup {n} /\ n \notin 1..(n - 1)
        BY <1>4 DEF n
      <4>2. \A t \in Slot : Free(p, t)' <=> \E i \in 1..(n - 1) : freelist[p][i] = t
        BY <3>2 DEF Free
      <4>3. \A t \in Slot : Free(p, t) <=> \E i \in 1..n : freelist[p][i] = t
        BY DEF Free, n
      <4>4. freelist[p][n] = s
        BY DEF s
      <4> QED
        BY <3>6, <4>1, <4>2, <4>3, <4>4
    <3>8. \A t \in Slot : Held(p, t)' <=> Held(p, t) \/ t = s
      BY <3>1, <3>3, <3>4 DEF Held
    <3>9. \A t \in Slot : Free(p, t) <=> ~Held(p, t)
      BY DEF BankInv, Owned
    <3>10. \A t \in Slot : Free(p, t)' <=> ~Held(p, t)'
      BY <3>7, <3>8, <3>9
    <3>11. ~Held(p, s)
      BY <1>4, <3>5, <3>9
    <3>12. \A e, f \in Cid : InUse(p, e)' /\ InUse(p, f)' /\ handle'[p][e] = handle'[p][f]
                             => e = f
      <4>1. \A e, f \in Cid : InUse(p, e) /\ InUse(p, f) /\ handle[p][e] = handle[p][f]
                              => e = f
        BY DEF BankInv, Owned
      <4> QED
        BY <3>1, <3>3, <3>4, <3>11, <4>1 DEF Held
    <3>13. \A i, j \in 1..(n - 1) : freelist'[p][i] = freelist'[p][j] => i = j
      BY <1>4, <3>2, <3>6
    <3> QED
      BY <3>2, <3>10, <3>12, <3>13 DEF Owned
  <2> QED
    BY <2>2, <2>3, <2>4 DEF BankInv
<1> QED
  BY <1>8, <1>9

\* OLD keeps the bank: the descriptor is free again.
LEMMA OldBank ==
  ASSUME CallsInv, BankInv, NEW p \in Proc, NEW c \in Cid,
         Return(p, "OLD", c), OldDescriptor(p, c)
  PROVE  BankInv'
<1> DEFINE s == handle[p][c]
           n == Len(freelist[p])
<1>1. /\ inst'[p][c].done = {} /\ inst[p][c].done # {}
      /\ \A r \in Proc, e \in Cid : <<r, e>> # <<p, c>> => inst'[r][e] = inst[r][e]
  <2> DEFINE o == "OLD"
  <2>1. o \in Op /\ Return(p, o, c) /\ Required[o] # {} /\ DoneAfter(inst[p][c].done, o) = {}
    BY DEF Op, Required, DoneAfter
  <2> HIDE DEF o
  <2>2. /\ inst'[p][c] = [done |-> DoneAfter(inst[p][c].done, o), gen |-> Gen(p, c)]
        /\ Required[o] \subseteq inst[p][c].done
        /\ \A r \in Proc, e \in Cid : <<r, e>> # <<p, c>> => inst'[r][e] = inst[r][e]
    BY <2>1, ReturnStep
  <2> QED
    BY <2>1, <2>2
<1>2. UNCHANGED <<dyncommid, dcid, commbank, handle>>
  BY DEF OldDescriptor
<1>3. \A e \in Cid : /\ InUse(p, e)' => InUse(p, e) /\ e # c
                     /\ InUse(p, e) /\ e # c => InUse(p, e)'
  BY <1>1, <1>2 DEF InUse
<1>4. CASE s = NoHandle
  <2>1. freelist' = freelist
    BY <1>4 DEF OldDescriptor
  <2>2. BankTypeOK'
    BY <1>2, <2>1 DEF BankInv, BankTypeOK
  <2>3. ASSUME NEW r \in Proc PROVE Owned(r)'
    <3>1. \A e \in Cid : InUse(r, e)' <=> InUse(r, e)
      BY <1>1, <1>2, <1>4 DEF InUse
    <3>2. \A t : (Free(r, t)' <=> Free(r, t)) /\ (Held(r, t)' <=> Held(r, t))
      BY <1>2, <2>1, <3>1 DEF Free, Held
    <3> QED
      BY <1>2, <2>1, <3>1, <3>2 DEF Owned, BankInv
  <2> QED
    BY <2>2, <2>3 DEF BankInv
<1>5. CASE s # NoHandle
  <2>1. /\ s \in Slot /\ InUse(p, c)
        /\ freelist[p] \in Seq(Slot) /\ n \in Nat
    BY <1>1, <1>5 DEF BankInv, BankTypeOK, InUse
  <2>2. freelist' = [freelist EXCEPT ![p] = Append(@, s)]
    BY <1>5 DEF OldDescriptor
  <2>3. freelist'[p] = Append(freelist[p], s)
    BY <2>2 DEF BankInv, BankTypeOK
  <2>4. Append(freelist[p], s) \in Seq(Slot)
    BY <2>1
  <2>5. BankTypeOK'
    BY <1>2, <2>2, <2>4 DEF BankInv, BankTypeOK
  <2>6. ASSUME NEW r \in Proc, r # p PROVE Owned(r)'
    <3>1. freelist'[r] = freelist[r] /\ handle'[r] = handle[r]
      BY <1>2, <2>2, <2>6 DEF BankInv, BankTypeOK
    <3> QED
      BY <1>1, <2>6, <3>1, OwnedFrame DEF BankInv
  <2>7. Owned(p)'
    <3>1. Len(freelist'[p]) = n + 1 /\ freelist'[p][n + 1] = s
      BY <2>1, <2>3
    <3>2. \A i \in 1..n : freelist'[p][i] = freelist[p][i]
      BY <2>1, <2>3
    <3>3. \A t \in Slot : Free(p, t) <=> \E i \in 1..n : freelist[p][i] = t
      BY DEF Free
    <3>4. \A t \in Slot : Free(p, t)' <=> \E i \in 1..(n + 1) : freelist'[p][i] = t
      BY <3>1 DEF Free
    <3>5. 1..(n + 1) = (1..n) \cup {n + 1}
      BY <2>1
    <3> HIDE DEF s, n
    <3>6. \A t \in Slot : Free(p, t)' <=> Free(p, t) \/ t = s
      BY <3>1, <3>2, <3>3, <3>4, <3>5
    <3>7. \A e, f \in Cid : InUse(p, e) /\ InUse(p, f) /\ handle[p][e] = handle[p][f]
                            => e = f
      BY DEF BankInv, Owned
    <3>8. \A t \in Slot : Held(p, t)' <=> Held(p, t) /\ t # s
      BY <1>2, <1>3, <2>1, <3>7 DEF Held, s
    <3>9. \A t \in Slot : Free(p, t) <=> ~Held(p, t)
      BY DEF BankInv, Owned
    <3>10. \A t \in Slot : Free(p, t)' <=> ~Held(p, t)'
      BY <3>6, <3>8, <3>9
    <3>11. ~Free(p, s)
      BY <2>1, <3>9 DEF Held, s
    <3>12. \A i, j \in 1..(n + 1) : freelist'[p][i] = freelist'[p][j] => i = j
      <4>1. \A i, j \in 1..n : freelist[p][i] = freelist[p][j] => i = j
        BY DEF BankInv, Owned, n
      <4>2. \A i \in 1..n : freelist[p][i] # s
        BY <2>1, <3>3, <3>11
      <4> QED
        BY <3>1, <3>2, <3>5, <4>1, <4>2
    <3>13. \A e, f \in Cid : InUse(p, e)' /\ InUse(p, f)' /\ handle'[p][e] = handle'[p][f]
                             => e = f
      BY <1>2, <1>3, <3>7
    <3> QED
      BY <3>1, <3>10, <3>12, <3>13 DEF Owned
  <2> QED
    BY <2>5, <2>6, <2>7 DEF BankInv
<1> QED
  BY <1>4, <1>5

\* DR, SR and DN work through a descriptor, and leave the bank alone.
LEMMA KeepBank ==
  ASSUME CallsInv, BankInv, NEW p \in Proc, NEW o \in Op \ {"NEW", "OLD"},
         NEW c \in Cid, Return(p, o, c), UNCHANGED bankVars
  PROVE  BankInv'
<1>1. Required[o] # {} /\ DoneAfter(inst[p][c].done, o) # {}
  BY DEF Op, Required, DoneAfter
<1>2. \A r \in Proc, e \in Cid : inst'[r][e].done = {} <=> inst[r][e].done = {}
  <2>1. /\ inst'[p][c] = [done |-> DoneAfter(inst[p][c].done, o), gen |-> Gen(p, c)]
        /\ Required[o] \subseteq inst[p][c].done
        /\ \A r \in Proc, e \in Cid : <<r, e>> # <<p, c>> => inst'[r][e] = inst[r][e]
    BY ReturnStep
  <2>2. inst'[p][c].done # {} /\ inst[p][c].done # {}
    BY <1>1, <2>1
  <2>3. SUFFICES ASSUME NEW r \in Proc, NEW e \in Cid
                 PROVE  inst'[r][e].done = {} <=> inst[r][e].done = {}
    OBVIOUS
  <2>4. CASE r = p /\ e = c
    BY <2>2, <2>4
  <2>5. CASE <<r, e>> # <<p, c>>
    BY <2>1, <2>5
  <2> QED
    BY <2>4, <2>5
<1> QED
  BY <1>2, BankFrame DEF bankVars, BankInv, BankTypeOK

\* Steps in which no processor returns from a call.
LEMMA StillBank ==
  ASSUME BankInv, UNCHANGED <<callVars, bankVars>>
  PROVE  BankInv'
BY BankFrame DEF callVars, bankVars, BankInv, BankTypeOK

\* The start of a pipelined loop, and the end of a tile, only set ids.
LEMMA LoopBank ==
  ASSUME CallsInv, BankInv, NEW p \in Proc,
         LoopInit(p) \/ LoopPost(p) \/ (SkipTile(p) /\ UNCHANGED bankVars)
  PROVE  CallsInv' /\ BankInv'
<1>1. CASE LoopInit(p)
  <2>1. inst' = inst /\ Pass(p, "INIT")
    BY <1>1 DEF LoopInit, Pass
  <2>2. CallsInv'
    BY <2>1, CallsStep DEF LoopOp
  <2> QED
    BY <1>1, <2>1, <2>2, BankFrame DEF LoopInit, BankInv, BankTypeOK
<1>2. CASE LoopPost(p)
  <2>1. inst' = inst /\ Pass(p, "POST")
    BY <1>2 DEF LoopPost, Pass
  <2>2. CallsInv'
    BY <2>1, CallsStep DEF LoopOp
  <2> QED
    BY <1>2, <2>1, <2>2, BankFrame DEF LoopPost, BankInv, BankTypeOK
<1>3. CASE SkipTile(p) /\ UNCHANGED bankVars
  <2>1. CallsInv'
    BY <1>3, CallsStep
  <2>2. \A r \in Proc, e \in Cid : inst'[r][e].done = {} <=> inst[r][e].done = {}
    BY <1>3, SkipStep
  <2> QED
    BY <1>3, <2>1, <2>2, BankFrame DEF bankVars, BankInv, BankTypeOK
<1> QED
  BY <1>1, <1>2, <1>3

-----------------------------------------------------------------------------

NewAt(pr, i) == \E c \in Cid : pr.calls[i] = <<"NEW", c>>
LoopAt(pr, i) == pr.calls[i][1] \in LoopOp
PostAt(pr, i) == pr.calls[i][1] = "POST"

\* The NEWs up to place n whose ids count there: those of a tile do not after
\* the end of the tile.  The ids of those before the last start or end of a
\* tile are in dcid.
Dropped(pr, i, n) ==
  \E j \in (i + 1)..n : PostAt(pr, j) /\ \A k \in (i + 1)..(j - 1) : ~LoopAt(pr, k)
Counted(pr, n) == {i \in 1..n : NewAt(pr, i) /\ ~Dropped(pr, i, n)}
Kept(pr, n) == {i \in Counted(pr, n) : \E k \in (i + 1)..n : LoopAt(pr, k)}

\* The ids that the NEWs at the places S draw, and how many they are.
DirsAt(pr, i) ==
  {d \in 1..MaxDirs : \E c \in Cid : /\ pr.calls[i] = <<"NEW", c>>
                                    /\ d \in DOMAIN pr.dirs[c][GenAt(pr, c, i)]}
IdsOf(pr, S) == {x \in S \X (1..MaxDirs) : x[2] \in DirsAt(pr, x[1])}
Num(pr, S) == Cardinality(IdsOf(pr, S))

\* The id at the start of the loop, and the id drawn last, at place n.
BaseId(pr, n) == GetDynamicCommID(FirstId, Num(pr, Kept(pr, n)))
LastId(pr, n) == GetDynamicCommID(FirstId, Num(pr, Counted(pr, n)))

IdsInv ==
  \A p \in Proc : /\ dcid[p] = BaseId(prog, pos[p])
                  /\ dyncommid[p] = LastId(prog, pos[p])

LInv == CallsInv /\ BankInv /\ GensInv /\ IdsInv

-----------------------------------------------------------------------------
\* Arithmetic of ids that start again.
LEMMA Division ==
  ASSUME NEW k \in Nat, NEW w \in Nat, w > 0
  PROVE  k % w \in 0..(w - 1) /\ k \div w \in Int /\ k = w * (k \div w) + (k % w)
OBVIOUS

LEMMA SameRemainder ==
  ASSUME NEW w \in Nat, w > 0, NEW q \in Int, NEW t \in Int,
         NEW r \in 0..(w - 1), NEW s \in 0..(w - 1), w * q + r = w * t + s
  PROVE  r = s
<1>1. w * (q - t) = s - r
  OBVIOUS
<1>2. CASE q - t >= 1
  <2>1. w * (q - t) >= w
    BY <1>2
  <2> QED
    BY <1>1, <2>1
<1>3. CASE q - t <= -1
  <2>1. w * (q - t) <= -w
    BY <1>3
  <2> QED
    BY <1>1, <2>1
<1> QED
  BY <1>1, <1>2, <1>3

LEMMA RemainderPlus ==
  ASSUME NEW k \in Nat, NEW n \in Nat, NEW w \in Nat, w > 0
  PROVE  ((k % w) + n) % w = (k + n) % w
<1> DEFINE j == (k % w) + n
           q == k \div w
           t == j \div w
           u == (k + n) \div w
<1>1. k % w \in 0..(w - 1) /\ q \in Int /\ k = w * q + (k % w)
  BY Division
<1>2. j \in Nat
  BY <1>1
<1>3. j % w \in 0..(w - 1) /\ t \in Int /\ j = w * t + (j % w)
  <2> HIDE DEF j
  <2> QED
    BY <1>2, Division
<1>4. (k + n) % w \in 0..(w - 1) /\ u \in Int /\ k + n = w * u + ((k + n) % w)
  BY Division
<1>5. k + n = w * q + w * t + (j % w)
  <2> HIDE DEF q, t
  <2> QED
    BY <1>1, <1>3
<1>6. w * (q + t) = w * q + w * t
  <2> HIDE DEF q, t
  <2> QED
    BY <1>1, <1>3
<1>7. q + t \in Int /\ w * (q + t) + (j % w) = w * u + ((k + n) % w)
  BY <1>1, <1>3, <1>4, <1>5, <1>6
<1> HIDE DEF j, q, t, u
<1>8. j % w = (k + n) % w
  BY <1>3, <1>4, <1>7, SameRemainder
<1> QED
  BY <1>8 DEF j

\* Drawing m ids and then n is drawing m + n.
LEMMA DrawTwice ==
  ASSUME NEW m \in Nat, NEW n \in Nat
  PROVE  GetDynamicCommID(GetDynamicCommID(FirstId, m), n)
           = GetDynamicCommID(FirstId, m + n)
<1> DEFINE w == MaxCommId - FirstId
<1>1. w \in Nat /\ w > 0 /\ FirstId \in Nat
  BY IdsAssumption
<1>0. \A id, k \in Int : GetDynamicCommID(id, k) = FirstId + ((id - FirstId + k) % w)
  BY DEF GetDynamicCommID
<1>2. m % w \in 0..(w - 1)
  BY <1>1, Division
<1>3. ((m % w) + n) % w = (m + n) % w
  BY <1>1, RemainderPlus
<1> HIDE DEF w
<1>4. GetDynamicCommID(FirstId, m) = FirstId + (m % w)
  BY <1>1 DEF GetDynamicCommID, w
<1>5. GetDynamicCommID(FirstId + (m % w), n) = FirstId + (((m % w) + n) % w)
  <2> DEFINE x == m % w
  <2>1. x \in Nat
    BY <1>1, <1>2
  <2> HIDE DEF x
  <2>2. FirstId + x - FirstId + n = x + n
    BY <1>1, <2>1
  <2>3. GetDynamicCommID(FirstId + x, n) = FirstId + ((FirstId + x - FirstId + n) % w)
    BY <1>0, <1>1, <2>1
  <2> QED
    BY <2>2, <2>3 DEF x
<1>6. GetDynamicCommID(FirstId, m + n) = FirstId + ((m + n) % w)
  <2>1. FirstId - FirstId + (m + n) = m + n
    BY <1>1
  <2> QED
    BY <2>1 DEF GetDynamicCommID, w
<1> QED
  BY <1>3, <1>4, <1>5, <1>6

-----------------------------------------------------------------------------
-----------------------------------------------------------------------------
\* What counts after one more call.
LEMMA CountNew ==
  ASSUME NEW n \in Nat, NewAt(prog, n + 1)
  PROVE  /\ Counted(prog, n + 1) = Counted(prog, n) \cup {n + 1}
         /\ n + 1 \notin Counted(prog, n)
         /\ Kept(prog, n + 1) = Kept(prog, n)
<1>1. ~LoopAt(prog, n + 1) /\ ~PostAt(prog, n + 1)
  BY DEF NewAt, LoopAt, PostAt, LoopOp
<1>2. ~Dropped(prog, n + 1, n + 1)
  BY DEF Dropped
<1>3. \A i \in 1..n : Dropped(prog, i, n + 1) <=> Dropped(prog, i, n)
  BY <1>1 DEF Dropped
<1>4. Counted(prog, n + 1) = Counted(prog, n) \cup {n + 1} /\ n + 1 \notin Counted(prog, n)
  BY <1>2, <1>3 DEF Counted
<1>5. \A i \in 1..n : (\E k \in (i + 1)..(n + 1) : LoopAt(prog, k))
                      <=> (\E k \in (i + 1)..n : LoopAt(prog, k))
  BY <1>1
<1>6. Counted(prog, n) \subseteq 1..n
  BY DEF Counted
<1> QED
  BY <1>4, <1>5, <1>6 DEF Kept

LEMMA CountOther ==
  ASSUME NEW n \in Nat, ~NewAt(prog, n + 1), ~LoopAt(prog, n + 1)
  PROVE  Counted(prog, n + 1) = Counted(prog, n) /\ Kept(prog, n + 1) = Kept(prog, n)
<1>1. ~PostAt(prog, n + 1)
  BY DEF LoopAt, PostAt, LoopOp
<1>2. \A i \in 1..n : Dropped(prog, i, n + 1) <=> Dropped(prog, i, n)
  BY <1>1 DEF Dropped
<1>3. Counted(prog, n + 1) = Counted(prog, n)
  BY <1>2 DEF Counted
<1>4. \A i \in 1..n : (\E k \in (i + 1)..(n + 1) : LoopAt(prog, k))
                      <=> (\E k \in (i + 1)..n : LoopAt(prog, k))
  OBVIOUS
<1>5. Counted(prog, n) \subseteq 1..n
  BY DEF Counted
<1> QED
  BY <1>3, <1>4, <1>5 DEF Kept

\* The start of a loop keeps all that counts; the end of a tile drops what
\* was not kept.
LEMMA CountInit ==
  ASSUME NEW n \in Nat, prog.calls[n + 1][1] = "INIT"
  PROVE  Counted(prog, n + 1) = Counted(prog, n) /\ Kept(prog, n + 1) = Counted(prog, n)
<1>1. ~PostAt(prog, n + 1) /\ LoopAt(prog, n + 1) /\ ~NewAt(prog, n + 1)
  BY DEF NewAt, LoopAt, PostAt, LoopOp
<1>2. \A i \in 1..n : Dropped(prog, i, n + 1) <=> Dropped(prog, i, n)
  BY <1>1 DEF Dropped
<1>3. Counted(prog, n + 1) = Counted(prog, n)
  BY <1>1, <1>2 DEF Counted
<1>4. \A i \in Counted(prog, n) : \E k \in (i + 1)..(n + 1) : LoopAt(prog, k)
  BY <1>1 DEF Counted
<1> QED
  BY <1>3, <1>4 DEF Kept

LEMMA CountPost ==
  ASSUME NEW n \in Nat, prog.calls[n + 1][1] = "POST"
  PROVE  Counted(prog, n + 1) = Kept(prog, n) /\ Kept(prog, n + 1) = Kept(prog, n)
<1>1. PostAt(prog, n + 1) /\ LoopAt(prog, n + 1) /\ ~NewAt(prog, n + 1)
  BY DEF NewAt, LoopAt, PostAt, LoopOp
<1>2. \A i \in 1..n : Dropped(prog, i, n + 1) <=>
        Dropped(prog, i, n) \/ \A k \in (i + 1)..n : ~LoopAt(prog, k)
  <2> SUFFICES ASSUME NEW i \in 1..n
               PROVE  Dropped(prog, i, n + 1) <=>
                        Dropped(prog, i, n) \/ \A k \in (i + 1)..n : ~LoopAt(prog, k)
    OBVIOUS
  <2>1. \A j \in (i + 1)..(n + 1) : j \in (i + 1)..n \/ j = n + 1
    OBVIOUS
  <2>2. n + 1 \in (i + 1)..(n + 1) /\ (i + 1)..n \subseteq (i + 1)..(n + 1)
        /\ (n + 1) - 1 = n
    OBVIOUS
  <2> QED
    BY <1>1, <2>1, <2>2 DEF Dropped
<1>3. Counted(prog, n + 1) = Kept(prog, n)
  BY <1>1, <1>2 DEF Counted, Kept
<1>4. \A i \in Kept(prog, n) : \E k \in (i + 1)..(n + 1) : LoopAt(prog, k)
  BY <1>1 DEF Kept, Counted
<1> QED
  BY <1>3, <1>4 DEF Kept

\* A tile that is left out, between two starts or ends, changes nothing.
LEMMA CountSkip ==
  ASSUME NEW n \in Nat, NEW m \in Nat, n < m, n > 0, LoopAt(prog, n), PostAt(prog, m),
         \A k \in (n + 1)..(m - 1) : ~LoopAt(prog, k)
  PROVE  /\ Counted(prog, m) = Counted(prog, n)
         /\ Kept(prog, m) = Kept(prog, n)
<1>1. ~NewAt(prog, n) /\ ~NewAt(prog, m) /\ LoopAt(prog, m)
  BY DEF NewAt, LoopAt, PostAt, LoopOp
<1>2. ASSUME NEW i \in 1..m, i < n
      PROVE  /\ Dropped(prog, i, m) <=> Dropped(prog, i, n)
             /\ \E k \in (i + 1)..n : LoopAt(prog, k)
             /\ \E k \in (i + 1)..m : LoopAt(prog, k)
  <2>1. n \in (i + 1)..n /\ n \in (i + 1)..m
    BY <1>2
  <2>2. Dropped(prog, i, n) => Dropped(prog, i, m)
    BY DEF Dropped
  <2>3. Dropped(prog, i, m) => Dropped(prog, i, n)
    <3> SUFFICES ASSUME NEW j \in (i + 1)..m, PostAt(prog, j), j \notin (i + 1)..n,
                        \A k \in (i + 1)..(j - 1) : ~LoopAt(prog, k)
                 PROVE  FALSE
      BY DEF Dropped
    <3>1. n \in (i + 1)..(j - 1)
      BY <2>1
    <3> QED
      BY <3>1
  <2> QED
    BY <2>1, <2>2, <2>3
<1>3. ASSUME NEW i \in 1..m, i > n, i < m
      PROVE  Dropped(prog, i, m)
  <2>1. m \in (i + 1)..m
    BY <1>3
  <2>2. \A k \in (i + 1)..(m - 1) : ~LoopAt(prog, k)
    BY <1>3
  <2> QED
    BY <2>1, <2>2 DEF Dropped
<1>4. \A i \in 1..m : i < n \/ i = n \/ (i > n /\ i < m) \/ i = m
  OBVIOUS
<1>5. Counted(prog, m) = {i \in 1..m : i < n /\ NewAt(prog, i) /\ ~Dropped(prog, i, m)}
  BY <1>1, <1>3, <1>4 DEF Counted
<1>6. Counted(prog, n) = {i \in 1..m : i < n /\ NewAt(prog, i) /\ ~Dropped(prog, i, n)}
  BY <1>1 DEF Counted
<1>7. Counted(prog, m) = Counted(prog, n)
  BY <1>2, <1>5, <1>6
<1>8. \A i \in Counted(prog, n) : i \in 1..m /\ i < n
  BY <1>6
<1> QED
  BY <1>2, <1>7, <1>8 DEF Kept

-----------------------------------------------------------------------------
\* Counting ids: a NEW adds as many as it has directions.
LEMMA IdsFinite ==
  ASSUME NEW n \in Nat, NEW S \in SUBSET (1..n)
  PROVE  IsFiniteSet(IdsOf(prog, S)) /\ Num(prog, S) \in Nat
<1>1. 1 \in Int /\ n \in Int /\ MaxDirs \in Int
  BY MaxDirsAssumption
<1>2. IsFiniteSet(1..n) /\ IsFiniteSet(1..MaxDirs)
  BY <1>1, FS_Interval
<1>3. IsFiniteSet(S)
  BY <1>2, FS_Subset
<1>4. IsFiniteSet(S \X (1..MaxDirs))
  BY <1>2, <1>3, FS_Product
<1>5. IsFiniteSet(IdsOf(prog, S))
  BY <1>4, FS_Subset DEF IdsOf
<1> QED
  BY <1>5, FS_CardinalityType DEF Num

LEMMA CountIds ==
  ASSUME prog \in Programs, NEW n \in Nat, NEW S \in SUBSET (1..n), NEW c \in Cid,
         prog.calls[n + 1] = <<"NEW", c>>,
         GenAt(prog, c, n + 1) \in 1..Len(prog.dirs[c])
  PROVE  Num(prog, S \cup {n + 1}) = Num(prog, S) + Len(prog.dirs[c][GenAt(prog, c, n + 1)])
<1> DEFINE i == n + 1
           ds == prog.dirs[c][GenAt(prog, c, n + 1)]
           one == {i} \X (1..Len(ds))
<1>1. Len(ds) \in Nat /\ DOMAIN ds = 1..Len(ds) /\ DOMAIN ds \subseteq 1..MaxDirs
  BY DirsType
<1>2. DirsAt(prog, i) = 1..Len(ds)
  BY <1>1 DEF DirsAt
<1>3. IdsOf(prog, S \cup {i}) = IdsOf(prog, S) \cup one
  <2> HIDE DEF i, ds
  <2> QED
    BY <1>1, <1>2 DEF IdsOf
<1>4. IdsOf(prog, S) \cap one = {}
  BY DEF IdsOf
<1>5. IsFiniteSet(one) /\ Cardinality(one) = Len(ds)
  <2> HIDE DEF i, ds
  <2>1. IsFiniteSet({i}) /\ Cardinality({i}) = 1
    BY FS_Singleton
  <2>2. 1 \in Int /\ Len(ds) \in Int
    BY <1>1
  <2>3. IsFiniteSet(1..Len(ds)) /\ Cardinality(1..Len(ds)) = IF 1 > Len(ds) THEN 0 ELSE Len(ds) - 1 + 1
    BY <2>2, FS_Interval
  <2>4. Cardinality(1..Len(ds)) = Len(ds)
    BY <1>1, <2>3
  <2>5. IsFiniteSet(one) /\ Cardinality(one) = 1 * Len(ds)
    BY <2>1, <2>3, <2>4, FS_Product
  <2>6. \A k \in Nat : 1 * k = k
    OBVIOUS
  <2>7. 1 * Len(ds) = Len(ds)
    BY <1>1, <2>6
  <2> HIDE DEF one
  <2> QED
    BY <2>5, <2>7
<1>6. IsFiniteSet(IdsOf(prog, S)) /\ Cardinality(IdsOf(prog, S)) \in Nat
  BY IdsFinite DEF Num
<1> HIDE DEF one, ds, i
<1>7. Cardinality(IdsOf(prog, S) \cup one)
        = Cardinality(IdsOf(prog, S)) + Cardinality(one) - Cardinality(IdsOf(prog, S) \cap one)
  BY <1>5, <1>6, FS_Union
<1>8. Cardinality(IdsOf(prog, S) \cap one) = 0
  BY <1>4, FS_EmptySet
<1>9. Cardinality(IdsOf(prog, S) \cup one) = Cardinality(IdsOf(prog, S)) + Len(ds)
  BY <1>1, <1>5, <1>6, <1>7, <1>8
<1>10. Num(prog, S \cup {i}) = Num(prog, S) + Len(ds)
  BY <1>3, <1>9 DEF Num
<1> QED
  BY <1>10 DEF i, ds

-----------------------------------------------------------------------------
LEMMA InitLInv == InitCalls /\ InitBank => LInv
<1> SUFFICES ASSUME InitCalls, InitBank PROVE LInv
  OBVIOUS
<1>1. CallsInv /\ BankInv
  BY InitCallsInv, InitBankInv
<1>2. GensInv
  BY GenCount DEF GensInv, InitCalls
<1>3. Counted(prog, 0) = {} /\ Kept(prog, 0) = {}
  BY DEF Counted, Kept
<1>4. Num(prog, {}) = 0
  BY FS_EmptySet DEF Num, IdsOf
<1>5. GetDynamicCommID(FirstId, 0) = FirstId
  <2>1. FirstId - FirstId + 0 = 0 /\ MaxCommId - FirstId \in Nat /\ MaxCommId - FirstId > 0
    BY IdsAssumption
  <2>2. \A w \in Nat : w > 0 => 0 % w = 0
    OBVIOUS
  <2>3. GetDynamicCommID(FirstId, 0) = FirstId + 0
    BY <2>1, <2>2 DEF GetDynamicCommID
  <2> QED
    BY <2>3, IdsAssumption
<1>6. IdsInv
  BY <1>3, <1>4, <1>5 DEF IdsInv, BaseId, LastId, InitCalls, InitBank
<1> QED
  BY <1>1, <1>2, <1>6 DEF LInv

\* p goes to place n, with the ids and instances of that place.
LEMMA Moved ==
  ASSUME CallsInv, GensInv, IdsInv, NEW p \in Proc, NEW n, prog' = prog,
         pos' = [pos EXCEPT ![p] = n],
         \A r \in Proc : r # p => /\ inst'[r] = inst[r]
                                  /\ dcid'[r] = dcid[r]
                                  /\ dyncommid'[r] = dyncommid[r],
         \A c \in Cid : inst'[p][c].gen = GenAt(prog, c, n),
         dcid'[p] = BaseId(prog, n), dyncommid'[p] = LastId(prog, n)
  PROVE  GensInv' /\ IdsInv'
<1>1. pos'[p] = n /\ \A r \in Proc : r # p => pos'[r] = pos[r]
  BY DEF CallsInv, CallsTypeOK
<1>2. GensInv'
  BY <1>1 DEF GensInv
<1>3. IdsInv'
  BY <1>1 DEF IdsInv
<1> QED
  BY <1>2, <1>3

\* NEW draws the ids of its directions.
LEMMA NewIds ==
  ASSUME LInv, NEW p \in Proc, NEW c \in Cid, Return(p, "NEW", c), NewDescriptor(p, c)
  PROVE  GensInv' /\ IdsInv'
<1> DEFINE n == pos[p]
           ds == prog.dirs[c][GenAt(prog, c, n + 1)]
<1>0. CallsInv /\ BankInv /\ GensInv /\ IdsInv /\ "NEW" \in Op
  BY DEF LInv, Op
<1>1. /\ n \in Nat /\ prog' = prog
      /\ pos' = [pos EXCEPT ![p] = n + 1]
      /\ prog.calls[n + 1] = <<"NEW", c>>
      /\ Gen(p, c) \in 1..Len(prog.dirs[c])
      /\ \A r \in Proc : r # p => inst'[r] = inst[r]
  BY <1>0, Place
<1>2. /\ inst'[p][c].gen = Gen(p, c) /\ Gen(p, c) = inst[p][c].gen + 1
      /\ \A e \in Cid : e # c => inst'[p][e] = inst[p][e]
  BY <1>0, ReturnGen
<1>3. \A e \in Cid : prog.calls[n + 1] = <<"NEW", e>> <=> e = c
  BY <1>1
<1>4. \A e \in Cid : inst'[p][e].gen = GenAt(prog, e, n + 1)
  <2> HIDE DEF n
  <2> SUFFICES ASSUME NEW e \in Cid PROVE inst'[p][e].gen = GenAt(prog, e, n + 1)
    OBVIOUS
  <2>1. inst[p][e].gen = GenAt(prog, e, n)
    BY <1>0 DEF GensInv, n
  <2>2. GenAt(prog, e, n + 1) = IF e = c THEN GenAt(prog, e, n) + 1 ELSE GenAt(prog, e, n)
    BY <1>1, <1>3, GenCount
  <2> QED
    BY <1>2, <2>1, <2>2
<1>5. Gen(p, c) = GenAt(prog, c, n + 1)
  BY <1>2, <1>4
<1>6. /\ dyncommid' = [dyncommid EXCEPT ![p] =
           GetDynamicCommID(dyncommid[p], NumIds(p, Dirs(p, c)))]
      /\ dcid' = dcid
  BY DEF NewDescriptor
<1>7. NumIds(p, Dirs(p, c)) = Len(ds)
  BY <1>5 DEF NumIds, Dirs
<1>8. NewAt(prog, n + 1)
  BY <1>1 DEF NewAt
<1>9. /\ Counted(prog, n + 1) = Counted(prog, n) \cup {n + 1}
      /\ Kept(prog, n + 1) = Kept(prog, n)
      /\ Counted(prog, n) \in SUBSET (1..n)
  <2> HIDE DEF n
  <2> QED
    BY <1>1, <1>8, CountNew DEF Counted
<1>10. /\ Num(prog, Counted(prog, n + 1)) = Num(prog, Counted(prog, n)) + Len(ds)
       /\ Num(prog, Counted(prog, n)) \in Nat
  <2>1. prog \in Programs
    BY <1>0 DEF CallsInv
  <2>2. GenAt(prog, c, n + 1) \in 1..Len(prog.dirs[c])
    BY <1>1, <1>5
  <2> HIDE DEF n
  <2>3. Num(prog, Counted(prog, n)) \in Nat
    BY <1>1, <1>9, IdsFinite
  <2> QED
    BY <1>1, <1>9, <2>1, <2>2, <2>3, CountIds
<1>11. Len(ds) \in Nat
  <2>1. prog \in Programs
    BY <1>0 DEF CallsInv
  <2>2. ds \in Seq(Direction)
    BY <1>1, <1>5, <2>1, DirsType
  <2> QED
    BY <2>2
<1>12. dcid'[p] = BaseId(prog, n + 1)
  BY <1>0, <1>6, <1>9 DEF BaseId, IdsInv
<1>13. dyncommid'[p] = LastId(prog, n + 1)
  <2>1. dyncommid'[p] = GetDynamicCommID(dyncommid[p], Len(ds))
    BY <1>0, <1>6, <1>7 DEF BankInv, BankTypeOK
  <2>2. dyncommid[p] = GetDynamicCommID(FirstId, Num(prog, Counted(prog, n)))
    BY <1>0 DEF IdsInv, LastId
  <2> HIDE DEF ds, n
  <2> QED
    BY <1>10, <1>11, <2>1, <2>2, DrawTwice DEF LastId
<1>14. \A r \in Proc : r # p => /\ inst'[r] = inst[r]
                                /\ dcid'[r] = dcid[r]
                                /\ dyncommid'[r] = dyncommid[r]
  BY <1>0, <1>1, <1>6 DEF BankInv, BankTypeOK
<1> HIDE DEF n, ds
<1> QED
  BY <1>0, <1>1, <1>4, <1>12, <1>13, <1>14, Moved

\* The other calls draw none.
LEMMA SameIds ==
  ASSUME LInv, NEW p \in Proc, NEW o \in Op \ {"NEW"}, NEW c \in Cid, Return(p, o, c),
         UNCHANGED <<dyncommid, dcid>>
  PROVE  GensInv' /\ IdsInv'
<1> DEFINE n == pos[p]
<1>0. CallsInv /\ BankInv /\ GensInv /\ IdsInv
  BY DEF LInv
<1>1. /\ n \in Nat /\ prog' = prog
      /\ pos' = [pos EXCEPT ![p] = n + 1]
      /\ prog.calls[n + 1] = <<o, c>>
      /\ \A r \in Proc : r # p => inst'[r] = inst[r]
  BY <1>0, Place
<1>2. \A e \in Cid : inst'[p][e].gen = inst[p][e].gen
  <2>1. inst'[p][c].gen = inst[p][c].gen /\ \A e \in Cid : e # c => inst'[p][e] = inst[p][e]
    BY <1>0, ReturnGen
  <2> QED
    BY <2>1
<1>3. ~NewAt(prog, n + 1) /\ ~LoopAt(prog, n + 1)
  BY <1>1 DEF NewAt, LoopAt, Op, LoopOp
<1>4. \A e \in Cid : prog.calls[n + 1] # <<"NEW", e>>
  BY <1>1
<1>5. \A e \in Cid : inst'[p][e].gen = GenAt(prog, e, n + 1)
  <2>1. \A e \in Cid : inst[p][e].gen = GenAt(prog, e, n)
    BY <1>0 DEF GensInv
  <2> HIDE DEF n
  <2>2. \A e \in Cid : GenAt(prog, e, n + 1) = GenAt(prog, e, n)
    BY <1>1, <1>4, GenCount
  <2> QED
    BY <1>2, <2>1, <2>2
<1>6. Counted(prog, n + 1) = Counted(prog, n) /\ Kept(prog, n + 1) = Kept(prog, n)
  <2> HIDE DEF n
  <2> QED
    BY <1>1, <1>3, CountOther
<1>7. dcid'[p] = BaseId(prog, n + 1) /\ dyncommid'[p] = LastId(prog, n + 1)
  BY <1>0, <1>6 DEF IdsInv, BaseId, LastId
<1> HIDE DEF n
<1> QED
  BY <1>0, <1>1, <1>5, <1>7, Moved

\* The start and the end of a tile, and a tile that is left out.
LEMMA LoopIds ==
  ASSUME LInv, NEW p \in Proc,
         LoopInit(p) \/ LoopPost(p) \/ (SkipTile(p) /\ UNCHANGED bankVars)
  PROVE  GensInv' /\ IdsInv'
<1> DEFINE n == pos[p]
<1>0. CallsInv /\ BankInv /\ GensInv /\ IdsInv /\ n \in Nat
  BY DEF LInv, CallsInv, CallsTypeOK
<1>1. ASSUME NEW o \in LoopOp, Pass(p, o)
      PROVE  /\ prog' = prog /\ inst' = inst
             /\ pos' = [pos EXCEPT ![p] = n + 1]
             /\ prog.calls[n + 1][1] = o
             /\ \A e \in Cid : inst'[p][e].gen = GenAt(prog, e, n + 1)
  <2>1. PICK c \in Cid : prog.calls[n + 1] = <<o, c>>
    BY <1>1 DEF Pass, AtOp, At
  <2>2. prog' = prog /\ inst' = inst /\ pos' = [pos EXCEPT ![p] = n + 1]
    BY <1>1 DEF Pass
  <2>3. \A e \in Cid : prog.calls[n + 1] # <<"NEW", e>>
    BY <2>1 DEF LoopOp
  <2>4. \A e \in Cid : inst[p][e].gen = GenAt(prog, e, n)
    BY <1>0 DEF GensInv
  <2> HIDE DEF n
  <2>5. \A e \in Cid : GenAt(prog, e, n + 1) = GenAt(prog, e, n)
    BY <1>0, <2>3, GenCount
  <2> QED
    BY <2>1, <2>2, <2>4, <2>5
<1>2. dcid[p] = BaseId(prog, n) /\ dyncommid[p] = LastId(prog, n)
  BY <1>0 DEF IdsInv
<1>3. CASE LoopInit(p)
  <2>1. /\ prog' = prog /\ inst' = inst
        /\ pos' = [pos EXCEPT ![p] = n + 1]
        /\ prog.calls[n + 1][1] = "INIT"
        /\ \A e \in Cid : inst'[p][e].gen = GenAt(prog, e, n + 1)
    BY <1>1, <1>3 DEF LoopInit, LoopOp
  <2>2. /\ dcid'[p] = dyncommid[p] /\ dyncommid' = dyncommid
        /\ \A r \in Proc : r # p => dcid'[r] = dcid[r]
    BY <1>0, <1>3 DEF LoopInit, BankInv, BankTypeOK
  <2> HIDE DEF n
  <2>3. Counted(prog, n + 1) = Counted(prog, n) /\ Kept(prog, n + 1) = Counted(prog, n)
    BY <1>0, <2>1, CountInit
  <2>4. dcid'[p] = BaseId(prog, n + 1) /\ dyncommid'[p] = LastId(prog, n + 1)
    BY <1>2, <2>2, <2>3 DEF BaseId, LastId
  <2> QED
    BY <1>0, <2>1, <2>2, <2>4, Moved
<1>4. CASE LoopPost(p)
  <2>1. /\ prog' = prog /\ inst' = inst
        /\ pos' = [pos EXCEPT ![p] = n + 1]
        /\ prog.calls[n + 1][1] = "POST"
        /\ \A e \in Cid : inst'[p][e].gen = GenAt(prog, e, n + 1)
    BY <1>1, <1>4 DEF LoopPost, LoopOp
  <2>2. /\ dyncommid'[p] = dcid[p] /\ dcid' = dcid
        /\ \A r \in Proc : r # p => dyncommid'[r] = dyncommid[r]
    BY <1>0, <1>4 DEF LoopPost, BankInv, BankTypeOK
  <2> HIDE DEF n
  <2>3. Counted(prog, n + 1) = Kept(prog, n) /\ Kept(prog, n + 1) = Kept(prog, n)
    BY <1>0, <2>1, CountPost
  <2>4. dcid'[p] = BaseId(prog, n + 1) /\ dyncommid'[p] = LastId(prog, n + 1)
    BY <1>2, <2>2, <2>3 DEF BaseId, LastId
  <2> QED
    BY <1>0, <2>1, <2>2, <2>4, Moved
<1>5. CASE SkipTile(p) /\ UNCHANGED bankVars
  <2>1. PICK m \in (n + 1)..Len(prog.calls) : SkipTo(p, m)
    BY <1>5 DEF SkipTile
  <2>2. /\ n > 0 /\ LoopAt(prog, n) /\ PostAt(prog, m)
        /\ \A k \in (n + 1)..(m - 1) : ~LoopAt(prog, k)
        /\ pos' = [pos EXCEPT ![p] = m] /\ prog' = prog
    BY <2>1 DEF SkipTo, LoopAt, PostAt
  <2>3. m \in Nat /\ n < m
    BY <1>0
  <2>4. \A r \in Proc : r # p => inst'[r] = inst[r]
    BY <1>0, <2>1 DEF SkipTo, CallsInv, CallsTypeOK
  <2>5. \A e \in Cid : inst'[p][e].gen = GenAfter(p, e, m)
    BY <1>0, <2>1 DEF SkipTo, CallsInv, CallsTypeOK
  <2>6. \A e \in Cid : prog.calls[m] # <<"NEW", e>>
    BY <2>2 DEF PostAt
  <2>7. \A e \in Cid : inst'[p][e].gen = GenAt(prog, e, m)
    BY <1>0, <2>3, <2>5, <2>6, GenSkip DEF GenAfter, GensInv
  <2>8. dcid' = dcid /\ dyncommid' = dyncommid
    BY <1>5 DEF bankVars
  <2> HIDE DEF n
  <2>9. Counted(prog, m) = Counted(prog, n) /\ Kept(prog, m) = Kept(prog, n)
    BY <1>0, <2>2, <2>3, CountSkip
  <2>10. dcid'[p] = BaseId(prog, m) /\ dyncommid'[p] = LastId(prog, m)
    BY <1>2, <2>8, <2>9 DEF BaseId, LastId
  <2> QED
    BY <1>0, <2>2, <2>4, <2>7, <2>8, <2>10, Moved
<1> QED
  BY <1>3, <1>4, <1>5

\* What the property says: the ids depend on the place alone.
LEMMA LInvImplies == LInv => IdsInLockstep
BY DEF LInv, IdsInv, IdsInLockstep

-----------------------------------------------------------------------------
\* What the implementations do to ids and descriptors.
BankStep(p) ==
  \/ \E c \in Cid : Return(p, "NEW", c) /\ NewDescriptor(p, c)
  \/ \E c \in Cid, o \in {"DR", "SR", "DN"} : Return(p, o, c) /\ UNCHANGED bankVars
  \/ \E c \in Cid : Return(p, "OLD", c) /\ OldDescriptor(p, c)
  \/ LoopInit(p) \/ LoopPost(p) \/ (SkipTile(p) /\ UNCHANGED bankVars)
  \/ UNCHANGED <<callVars, bankVars>>

LEMMA StepLInv ==
  ASSUME LInv, NEW p \in Proc, BankStep(p)
  PROVE  LInv'
<1>0. CallsInv /\ BankInv
  BY DEF LInv
<1>1. ASSUME NEW c \in Cid, Return(p, "NEW", c), NewDescriptor(p, c)
      PROVE  LInv'
  <2>1. CallsInv'
    BY <1>0, <1>1, CallsStep DEF Op
  <2> QED
    BY <1>0, <1>1, <2>1, NewBank, NewIds DEF LInv
<1>2. ASSUME NEW c \in Cid, NEW o \in {"DR", "SR", "DN"}, Return(p, o, c),
             UNCHANGED bankVars
      PROVE  LInv'
  <2>1. o \in Op \ {"NEW", "OLD"} /\ o \in Op \ {"NEW"} /\ o \in Op
    BY DEF Op
  <2>2. CallsInv' /\ BankInv'
    BY <1>0, <1>2, <2>1, CallsStep, KeepBank
  <2>3. UNCHANGED <<dyncommid, dcid>>
    BY <1>2 DEF bankVars
  <2> QED
    BY <1>2, <2>1, <2>2, <2>3, SameIds DEF LInv
<1>3. ASSUME NEW c \in Cid, Return(p, "OLD", c), OldDescriptor(p, c)
      PROVE  LInv'
  <2>1. CallsInv'
    BY <1>0, <1>3, CallsStep DEF Op
  <2>2. BankInv'
    BY <1>0, <1>3, OldBank
  <2>3. UNCHANGED <<dyncommid, dcid>>
    BY <1>3 DEF OldDescriptor
  <2>4. "OLD" \in Op \ {"NEW"}
    BY DEF Op
  <2>5. GensInv' /\ IdsInv'
    BY <1>3, <2>3, <2>4, SameIds
  <2> QED
    BY <2>1, <2>2, <2>5 DEF LInv
<1>4. CASE LoopInit(p) \/ LoopPost(p) \/ (SkipTile(p) /\ UNCHANGED bankVars)
  BY <1>0, <1>4, LoopBank, LoopIds DEF LInv
<1>5. CASE UNCHANGED <<callVars, bankVars>>
  <2>1. CallsInv' /\ BankInv'
    BY <1>0, <1>5, CallsStep, StillBank
  <2>2. GensInv' /\ IdsInv'
    BY <1>5 DEF LInv, GensInv, IdsInv, callVars, bankVars
  <2> QED
    BY <2>1, <2>2 DEF LInv
<1> QED
  BY <1>1, <1>2, <1>3, <1>4, <1>5 DEF BankStep

-----------------------------------------------------------------------------
\* The tag of direction d for the NEW at place m.
Tag(pr, m, d) == GetDynamicCommID(FirstId, Num(pr, Counted(pr, m - 1)) + d)

\* c has been open at p since place m.
OpenSince(p, c, m) ==
  /\ m \in 1..pos[p]
  /\ prog.calls[m] = <<"NEW", c>>
  /\ GenAt(prog, c, m) \in 1..Len(prog.dirs[c])
  /\ GenAt(prog, c, m) = inst[p][c].gen
  /\ \A k \in (m + 1)..pos[p] : prog.calls[k] # <<"OLD", c>>
  /\ inst[p][c].done # {"NEW"} => m < pos[p]

\* What c receives and sends is what the program says for its instance, with
\* the tags of the place it began at.
InfoOf(p, c, m) ==
  LET ds == prog.dirs[c][GenAt(prog, c, m)] IN
  /\ DOMAIN RecvInfo(p, c) = RecvDirs(p, ds)
  /\ DOMAIN SendInfo(p, c) = SendDirs(p, ds)
  /\ \A d \in RecvDirs(p, ds) : RecvInfo(p, c)[d] =
       [proc |-> Source(p, ds, d), dyn_commid |-> Tag(prog, m, d), area |-> c]
  /\ \A d \in SendDirs(p, ds) : SendInfo(p, c)[d] =
       [proc |-> ds[d][p], dyn_commid |-> Tag(prog, m, d), area |-> c]

OpenInv ==
  \A p \in Proc, c \in Cid :
    inst[p][c].done # {} => \E m \in Nat : OpenSince(p, c, m) /\ InfoOf(p, c, m)

-----------------------------------------------------------------------------
\* Ids that are less than a round apart differ.
LEMMA RoundsApart ==
  ASSUME NEW a \in Nat, NEW b \in Nat, a < b, b - a < MaxCommId - FirstId
  PROVE  GetDynamicCommID(FirstId, a) # GetDynamicCommID(FirstId, b)
<1> DEFINE w == MaxCommId - FirstId
           q == a \div w
           t == b \div w
           r == a % w
           s == b % w
<1>1. w \in Nat /\ w > 0 /\ FirstId \in Nat
  BY IdsAssumption
<1>2. /\ r \in 0..(w - 1) /\ q \in Int /\ a = w * q + r
      /\ s \in 0..(w - 1) /\ t \in Int /\ b = w * t + s
  <2> HIDE DEF w
  <2> QED
    BY <1>1, Division
<1>3. r # s
  <2> HIDE DEF q, t, r, s
  <2> SUFFICES ASSUME r = s PROVE FALSE
    OBVIOUS
  <2> DEFINE x == w * q
             y == w * t
  <2>0. x \in Int /\ y \in Int
    BY <1>1, <1>2
  <2>1. b - a = y - x
    <3>1. a = x + r /\ b = y + s /\ r \in Int /\ s \in Int
      BY <1>2
    <3> HIDE DEF x, y
    <3> QED
      BY <2>0, <3>1
  <2>2. y - x = w * (t - q)
    BY <1>1, <1>2
  <2>3. CASE t - q >= 1
    <3>1. w * (t - q) >= w
      BY <1>1, <1>2, <2>3
    <3> QED
      BY <1>1, <1>2, <2>1, <2>2, <3>1
  <2>4. CASE t - q <= 0
    <3>1. w * (t - q) <= 0
      BY <1>1, <1>2, <2>4
    <3> QED
      BY <1>1, <1>2, <2>1, <2>2, <3>1
  <2> QED
    BY <1>2, <2>3, <2>4
<1>4. /\ GetDynamicCommID(FirstId, a) = FirstId + r
      /\ GetDynamicCommID(FirstId, b) = FirstId + s
  <2>1. FirstId - FirstId + a = a /\ FirstId - FirstId + b = b
    BY <1>1
  <2> QED
    BY <2>1 DEF GetDynamicCommID
<1> HIDE DEF r, s
<1> QED
  BY <1>1, <1>2, <1>3, <1>4

\* The ids of more places are as many or more.
LEMMA IdsGrow ==
  ASSUME NEW n \in Nat, NEW T \in SUBSET (1..n), NEW S \in SUBSET T
  PROVE  Num(prog, S) \in Nat /\ Num(prog, T) \in Nat /\ Num(prog, S) <= Num(prog, T)
<1>1. IsFiniteSet(IdsOf(prog, T)) /\ Num(prog, T) \in Nat /\ Num(prog, S) \in Nat
  BY IdsFinite
<1>2. IdsOf(prog, S) \subseteq IdsOf(prog, T)
  BY DEF IdsOf
<1>3. Cardinality(IdsOf(prog, S)) <= Cardinality(IdsOf(prog, T))
  BY <1>1, <1>2, FS_Subset
<1> QED
  BY <1>1, <1>3 DEF Num

LEMMA IdsSplit ==
  ASSUME NEW n \in Nat, NEW S \in SUBSET (1..n), NEW T \in SUBSET (1..n), S \cap T = {}
  PROVE  /\ Num(prog, S) \in Nat /\ Num(prog, T) \in Nat
         /\ Num(prog, S \cup T) = Num(prog, S) + Num(prog, T)
<1> DEFINE A == IdsOf(prog, S)
           B == IdsOf(prog, T)
<1>1. /\ IsFiniteSet(A) /\ Num(prog, S) \in Nat
      /\ IsFiniteSet(B) /\ Num(prog, T) \in Nat
  BY IdsFinite
<1>2. IdsOf(prog, S \cup T) = A \cup B /\ A \cap B = {}
  BY DEF IdsOf
<1> HIDE DEF A, B
<1>3. Cardinality(A \cup B) = Cardinality(A) + Cardinality(B) - Cardinality(A \cap B)
  BY <1>1, FS_Union
<1>4. Cardinality(A \cap B) = 0
  BY <1>2, FS_EmptySet
<1>5. Num(prog, S \cup T) = Cardinality(A \cup B)
  BY <1>2 DEF Num
<1>6. Num(prog, S) = Cardinality(A) /\ Num(prog, T) = Cardinality(B)
  BY DEF Num, A, B
<1> QED
  BY <1>1, <1>3, <1>4, <1>5, <1>6

\* The directions of the NEW at place m.
LEMMA DirsOfNew ==
  ASSUME prog \in Programs, NEW m \in Nat \ {0}, NEW c \in Cid,
         prog.calls[m] = <<"NEW", c>>, GenAt(prog, c, m) \in 1..Len(prog.dirs[c])
  PROVE  /\ Len(prog.dirs[c][GenAt(prog, c, m)]) \in Nat
         /\ DirsAt(prog, m) = 1..Len(prog.dirs[c][GenAt(prog, c, m)])
         /\ \A S \in SUBSET (1..(m - 1)) :
              Num(prog, S \cup {m}) = Num(prog, S) + Len(prog.dirs[c][GenAt(prog, c, m)])
<1> DEFINE ds == prog.dirs[c][GenAt(prog, c, m)]
<1>1. Len(ds) \in Nat /\ DOMAIN ds = 1..Len(ds) /\ DOMAIN ds \subseteq 1..MaxDirs
  BY DirsType
<1>2. DirsAt(prog, m) = 1..Len(ds)
  BY <1>1 DEF DirsAt
<1>3. ASSUME NEW S \in SUBSET (1..(m - 1))
      PROVE  Num(prog, S \cup {m}) = Num(prog, S) + Len(ds)
  <2> DEFINE n == m - 1
  <2>1. n \in Nat /\ n + 1 = m
    OBVIOUS
  <2> HIDE DEF n
  <2>2. S \in SUBSET (1..n)
    BY <1>3 DEF n
  <2> QED
    BY <2>1, <2>2, CountIds
<1> QED
  BY <1>1, <1>2, <1>3

\* While c is open, the ids that count at its NEW, and its own, go on counting.
LEMMA StillCounted ==
  ASSUME prog \in Programs, NEW m \in Nat \ {0}, NEW n \in Nat, m < n,
         n <= Len(prog.calls), NEW c \in Cid, prog.calls[m] = <<"NEW", c>>,
         \A k \in (m + 1)..(n - 1) : prog.calls[k] # <<"OLD", c>>
  PROVE  /\ m \in Counted(prog, n - 1)
         /\ \A i \in 1..(m - 1) : i \in Counted(prog, m - 1) <=> i \in Counted(prog, n - 1)
<1>0. Len(prog.calls) \in Nat /\ TilesClosed(prog)
  <2>1. prog.calls \in Seq((Op \cup LoopOp) \X Cid)
    BY ProgramsAssumption DEF Program
  <2> QED
    BY <2>1, TilesAssumption
<1>1. ~LoopAt(prog, m) /\ ~PostAt(prog, m) /\ NewAt(prog, m)
  BY DEF LoopAt, PostAt, NewAt, LoopOp
<1>2. ASSUME NEW j \in (m + 1)..(n - 1), PostAt(prog, j),
             \A k \in (m + 1)..(j - 1) : ~LoopAt(prog, k)
      PROVE  FALSE
  <2>1. \A k \in m..(j - 1) : k = m \/ k \in (m + 1)..(j - 1)
    OBVIOUS
  <2>2. InTile(prog, m, j)
    BY <1>1, <1>2, <2>1 DEF InTile, PostAt, LoopAt
  <2>3. j \in 1..Len(prog.calls) /\ m \in 1..(j - 1)
    BY <1>0
  <2>4. PICK k \in (m + 1)..(j - 1) : prog.calls[k] = <<"OLD", c>>
    BY <1>0, <2>2, <2>3 DEF TilesClosed, Op
  <2>5. k \in (m + 1)..(n - 1)
    OBVIOUS
  <2> QED
    BY <2>4, <2>5
<1>3. m \in Counted(prog, n - 1)
  BY <1>1, <1>2 DEF Counted, Dropped
<1>4. ASSUME NEW i \in 1..(m - 1)
      PROVE  Dropped(prog, i, m - 1) <=> Dropped(prog, i, n - 1)
  <2>1. Dropped(prog, i, m - 1) => Dropped(prog, i, n - 1)
    BY DEF Dropped
  <2>2. ASSUME NEW j \in (i + 1)..(n - 1), PostAt(prog, j),
               \A k \in (i + 1)..(j - 1) : ~LoopAt(prog, k)
        PROVE  j \in (i + 1)..(m - 1)
    <3>1. j # m
      BY <1>1, <2>2
    <3>2. CASE j > m
      BY <1>2, <2>2, <3>2
    <3> QED
      BY <3>1, <3>2
  <2>3. Dropped(prog, i, n - 1) => Dropped(prog, i, m - 1)
    BY <2>2 DEF Dropped
  <2> QED
    BY <2>1, <2>3
<1>5. \A i \in 1..(m - 1) : i \in Counted(prog, m - 1) <=> i \in Counted(prog, n - 1)
  BY <1>4 DEF Counted
<1> QED
  BY <1>3, <1>5

\* While c is open from place m to place n, as many ids are drawn at most as
\* there are.
LEMMA Enough ==
  ASSUME prog \in Programs, NEW m \in Nat \ {0}, NEW n \in Nat, m < n,
         n <= Len(prog.calls), NEW c \in Cid, prog.calls[m] = <<"NEW", c>>,
         \A k \in (m + 1)..(n - 1) : prog.calls[k] # <<"OLD", c>>,
         NEW S \in SUBSET (m..n)
  PROVE  Num(prog, S) <= MaxCommId - FirstId
<1>0. prog.calls \in Seq((Op \cup LoopOp) \X Cid) /\ EnoughIds(prog)
  BY ProgramsAssumption, EnoughIdsAssumption DEF Program
<1>1. m \in 1..Len(prog.calls) /\ n \in 1..Len(prog.calls) /\ Len(prog.calls) \in Nat
  BY <1>0
<1>2. "OLD" \notin {prog.calls[i][1] : i \in {j \in m..(n - 1) : prog.calls[j][2] = c}}
  <2> SUFFICES ASSUME NEW i \in m..(n - 1), prog.calls[i][2] = c, prog.calls[i][1] = "OLD"
               PROVE  FALSE
    OBVIOUS
  <2>1. i \in 1..Len(prog.calls)
    BY <1>1
  <2>2. prog.calls[i] \in (Op \cup LoopOp) \X Cid
    BY <1>0, <2>1
  <2>3. prog.calls[i] = <<"OLD", c>>
    BY <2>2
  <2>4. i # m
    BY <2>3
  <2>5. i \in (m + 1)..(n - 1)
    BY <2>4
  <2> QED
    BY <2>3, <2>5
<1>3. Cardinality(IdsDrawn(prog, m, n)) <= MaxCommId - FirstId
  BY <1>0, <1>1, <1>2 DEF EnoughIds
<1>4. IdsOf(prog, S) \subseteq IdsDrawn(prog, m, n)
  BY DEF IdsOf, IdsDrawn, DirsAt, GenAt
<1>5. IsFiniteSet(IdsDrawn(prog, m, n)) /\ MaxDirs \in Int
  <2>1. m \in Int /\ n \in Int /\ 1 \in Int /\ MaxDirs \in Int
    BY MaxDirsAssumption
  <2>2. IsFiniteSet(m..n) /\ IsFiniteSet(1..MaxDirs)
    BY <2>1, FS_Interval
  <2>3. IsFiniteSet((m..n) \X (1..MaxDirs))
    BY <2>2, FS_Product
  <2> QED
    BY <2>1, <2>3, FS_Subset DEF IdsDrawn
<1>6. /\ Cardinality(IdsOf(prog, S)) <= Cardinality(IdsDrawn(prog, m, n))
      /\ Cardinality(IdsDrawn(prog, m, n)) \in Nat
      /\ Cardinality(IdsOf(prog, S)) \in Nat
  BY <1>4, <1>5, FS_Subset, FS_CardinalityType
<1> QED
  BY <1>3, <1>6, IdsAssumption DEF Num

\* Two directions of an instance have different tags.
LEMMA TagsWithin ==
  ASSUME prog \in Programs, NEW m \in Nat \ {0}, m < Len(prog.calls), NEW c \in Cid,
         prog.calls[m] = <<"NEW", c>>, GenAt(prog, c, m) \in 1..Len(prog.dirs[c]),
         NEW d \in DirsAt(prog, m), NEW e \in DirsAt(prog, m), d < e
  PROVE  Tag(prog, m, d) # Tag(prog, m, e)
<1> DEFINE k == Len(prog.dirs[c][GenAt(prog, c, m)])
           a == Num(prog, Counted(prog, m - 1))
<1>0. prog.calls \in Seq((Op \cup LoopOp) \X Cid)
  BY ProgramsAssumption DEF Program
<1>1. k \in Nat /\ DirsAt(prog, m) = 1..k /\ Num(prog, {} \cup {m}) = Num(prog, {}) + k
  BY DirsOfNew
<1>2. Num(prog, {}) \in Nat /\ a \in Nat
  <2>1. m - 1 \in Nat /\ Counted(prog, m - 1) \in SUBSET (1..(m - 1))
    BY DEF Counted
  <2>2. {} \in SUBSET Counted(prog, m - 1)
    OBVIOUS
  <2> QED
    BY <2>1, <2>2, IdsGrow
<1>3. Num(prog, {} \cup {m}) <= MaxCommId - FirstId
  <2>1. /\ m + 1 \in Nat /\ m < m + 1 /\ m + 1 <= Len(prog.calls)
        /\ \A i \in (m + 1)..((m + 1) - 1) : prog.calls[i] # <<"OLD", c>>
        /\ {} \cup {m} \in SUBSET (m..(m + 1))
    BY <1>0
  <2> QED
    BY <2>1, Enough
<1> HIDE DEF k, a
<1>4. d \in Nat /\ e \in Nat /\ d > 0 /\ e <= k
  BY <1>1
<1>5. /\ a + d \in Nat /\ a + e \in Nat /\ a + d < a + e
      /\ (a + e) - (a + d) < MaxCommId - FirstId
  BY <1>1, <1>2, <1>3, <1>4, IdsAssumption
<1>6. GetDynamicCommID(FirstId, a + d) # GetDynamicCommID(FirstId, a + e)
  BY <1>5, RoundsApart
<1> QED
  BY <1>6 DEF Tag, a

\* The tags of an instance that begins while c is open are not those of c.
LEMMA TagsLater ==
  ASSUME prog \in Programs, NEW m \in Nat \ {0}, NEW n \in Nat \ {0}, m < n,
         n <= Len(prog.calls),
         NEW c \in Cid, prog.calls[m] = <<"NEW", c>>,
         GenAt(prog, c, m) \in 1..Len(prog.dirs[c]),
         \A k \in (m + 1)..(n - 1) : prog.calls[k] # <<"OLD", c>>,
         NEW b \in Cid, prog.calls[n] = <<"NEW", b>>,
         GenAt(prog, b, n) \in 1..Len(prog.dirs[b]),
         NEW d \in DirsAt(prog, m), NEW e \in DirsAt(prog, n)
  PROVE  Tag(prog, m, d) # Tag(prog, n, e)
<1> DEFINE k == Len(prog.dirs[c][GenAt(prog, c, m)])
           l == Len(prog.dirs[b][GenAt(prog, b, n)])
           P == Counted(prog, m - 1)
           Q == Counted(prog, n - 1)
           R == Q \ (1..(m - 1))
<1>1. k \in Nat /\ DirsAt(prog, m) = 1..k /\ Num(prog, {} \cup {m}) = Num(prog, {}) + k
  BY DirsOfNew
<1>2. m - 1 \in Nat /\ n - 1 \in Nat /\ P \in SUBSET (1..(m - 1)) /\ Q \in SUBSET (1..(n - 1))
  BY DEF Counted
<1>3. m \in Q /\ \A i \in 1..(m - 1) : i \in P <=> i \in Q
  BY StillCounted
<1> HIDE DEF P, Q
<1>4. Q = P \cup R /\ P \cap R = {} /\ P \in SUBSET (1..(n - 1)) /\ R \in SUBSET (1..(n - 1))
  BY <1>2, <1>3
<1>5. R \cup {n} \in SUBSET (m..n) /\ {} \cup {m} \in SUBSET R /\ {} \in SUBSET R
  BY <1>2, <1>3
<1> HIDE DEF R
<1>6. /\ l \in Nat /\ DirsAt(prog, n) = 1..l
      /\ Num(prog, R \cup {n}) = Num(prog, R) + l
  BY <1>4, DirsOfNew
<1>7. Num(prog, R \cup {n}) <= MaxCommId - FirstId
  BY <1>5, Enough
<1>8. /\ Num(prog, P) \in Nat /\ Num(prog, R) \in Nat
      /\ Num(prog, Q) = Num(prog, P) + Num(prog, R)
  <2> DEFINE j == n - 1
  <2>1. /\ j \in Nat /\ P \in SUBSET (1..j) /\ R \in SUBSET (1..j)
        /\ P \cap R = {} /\ Q = P \cup R
    BY <1>2, <1>4
  <2> HIDE DEF j
  <2>2. /\ Num(prog, P) \in Nat /\ Num(prog, R) \in Nat
        /\ Num(prog, P \cup R) = Num(prog, P) + Num(prog, R)
    <3>1. \A S \in SUBSET (1..j), T \in SUBSET (1..j) : S \cap T = {} =>
            /\ Num(prog, S) \in Nat /\ Num(prog, T) \in Nat
            /\ Num(prog, S \cup T) = Num(prog, S) + Num(prog, T)
      BY <2>1, IdsSplit
    <3> QED
      BY <2>1, <3>1
  <2> QED
    BY <2>1, <2>2
<1>9. Num(prog, {}) \in Nat /\ Num(prog, {} \cup {m}) <= Num(prog, R)
  BY <1>2, <1>4, <1>5, IdsGrow
<1> HIDE DEF k, l
<1>10. d \in Nat /\ e \in Nat /\ d <= k /\ e > 0 /\ e <= l /\ d > 0
  BY <1>1, <1>6
<1>11. k <= Num(prog, R)
  BY <1>1, <1>8, <1>9
<1>12. /\ Num(prog, P) + d \in Nat /\ Num(prog, Q) + e \in Nat
       /\ Num(prog, P) + d < Num(prog, Q) + e
       /\ (Num(prog, Q) + e) - (Num(prog, P) + d) < MaxCommId - FirstId
  <2> DEFINE x == Num(prog, P)
             y == Num(prog, R)
  <2>1. x \in Nat /\ y \in Nat /\ Num(prog, Q) = x + y /\ y + l <= MaxCommId - FirstId /\ k <= y
    BY <1>6, <1>7, <1>8, <1>11
  <2> HIDE DEF x, y
  <2>2. /\ x + d \in Nat /\ (x + y) + e \in Nat
        /\ x + d < (x + y) + e
        /\ ((x + y) + e) - (x + d) < MaxCommId - FirstId
    BY <1>1, <1>6, <1>10, <2>1, IdsAssumption
  <2> QED
    BY <2>1, <2>2 DEF x
<1>13. GetDynamicCommID(FirstId, Num(prog, P) + d) # GetDynamicCommID(FirstId, Num(prog, Q) + e)
  BY <1>12, RoundsApart
<1> QED
  BY <1>13 DEF Tag, P, Q

-----------------------------------------------------------------------------
LEMMA InitOpen == InitCalls => OpenInv
BY DEF InitCalls, OpenInv

\* The program does not change, nor what it says of an instance.
LEMMA SameInfo ==
  ASSUME NEW r \in Proc, NEW c \in Cid, NEW m \in Nat, InfoOf(r, c, m), prog' = prog,
         RecvInfo(r, c)' = RecvInfo(r, c), SendInfo(r, c)' = SendInfo(r, c)
  PROVE  InfoOf(r, c, m)'
<1> DEFINE ds == prog.dirs[c][GenAt(prog, c, m)]
<1>1. ds' = ds /\ \A d : Tag(prog, m, d)' = Tag(prog, m, d)
  OBVIOUS
<1>2. /\ RecvDirs(r, ds)' = RecvDirs(r, ds) /\ SendDirs(r, ds)' = SendDirs(r, ds)
      /\ \A d : Source(r, ds, d)' = Source(r, ds, d)
  BY <1>1
<1> QED
  BY <1>1, <1>2 DEF InfoOf

\* A communication stays open over calls that are not its OLD.
LEMMA KeepOpen ==
  ASSUME OpenInv, NEW r \in Proc, NEW c \in Cid, inst[r][c].done # {}, prog' = prog,
         pos[r] \in Nat, pos'[r] \in Nat, pos[r] <= pos'[r],
         \A k \in (pos[r] + 1)..pos'[r] : prog.calls[k] # <<"OLD", c>>,
         inst'[r][c].done = inst[r][c].done \/ pos[r] < pos'[r],
         inst'[r][c].gen = inst[r][c].gen,
         RecvInfo(r, c)' = RecvInfo(r, c), SendInfo(r, c)' = SendInfo(r, c)
  PROVE  \E m \in Nat : OpenSince(r, c, m)' /\ InfoOf(r, c, m)'
<1>1. PICK m \in Nat : OpenSince(r, c, m) /\ InfoOf(r, c, m)
  BY DEF OpenInv
<1>2. m \in 1..pos'[r]
  BY <1>1 DEF OpenSince
<1>3. \A k \in (m + 1)..pos'[r] : prog.calls[k] # <<"OLD", c>>
  <2>1. \A k \in (m + 1)..pos'[r] : k \in (m + 1)..pos[r] \/ k \in (pos[r] + 1)..pos'[r]
    OBVIOUS
  <2> QED
    BY <1>1, <2>1 DEF OpenSince
<1>4. inst'[r][c].done # {"NEW"} => m < pos'[r]
  BY <1>1, <1>2 DEF OpenSince
<1>5. prog'.calls = prog.calls /\ prog'.dirs = prog.dirs
  OBVIOUS
<1>6. OpenSince(r, c, m)'
  <2>1. GenAt(prog, c, m)' = GenAt(prog, c, m)
    OBVIOUS
  <2> QED
    BY <1>1, <1>2, <1>3, <1>4, <1>5, <2>1 DEF OpenSince
<1>7. InfoOf(r, c, m)'
  BY <1>1, SameInfo
<1> QED
  BY <1>6, <1>7

\* A step of one processor leaves the others alone.
LEMMA OthersStay ==
  ASSUME CallsInv, BankInv, NEW p \in Proc, BankStep(p)
  PROVE  /\ prog' = prog
         /\ \A r \in Proc : r # p => /\ pos'[r] = pos[r] /\ inst'[r] = inst[r]
                                     /\ handle'[r] = handle[r] /\ commbank'[r] = commbank[r]
<1>0. Op = {"NEW", "DR", "SR", "DN", "OLD"}
  BY DEF Op
<1>1. /\ DOMAIN pos = Proc /\ DOMAIN inst = Proc
      /\ DOMAIN handle = Proc /\ DOMAIN commbank = Proc
  BY <1>0 DEF CallsInv, CallsTypeOK, BankInv, BankTypeOK
<1>2. ASSUME NEW c \in Cid, NEW o \in Op, Return(p, o, c)
      PROVE  /\ prog' = prog
             /\ \A r \in Proc : r # p => pos'[r] = pos[r] /\ inst'[r] = inst[r]
  BY <1>1, <1>2 DEF Return
<1>3. ASSUME NEW c \in Cid, NewDescriptor(p, c)
      PROVE  \A r \in Proc : r # p => handle'[r] = handle[r] /\ commbank'[r] = commbank[r]
  BY <1>1, <1>3 DEF NewDescriptor
<1>4. CASE \E c \in Cid : Return(p, "NEW", c) /\ NewDescriptor(p, c)
  BY <1>0, <1>2, <1>3, <1>4
<1>5. CASE \E c \in Cid, o \in {"DR", "SR", "DN"} : Return(p, o, c) /\ UNCHANGED bankVars
  BY <1>0, <1>2, <1>5 DEF bankVars
<1>6. CASE \E c \in Cid : Return(p, "OLD", c) /\ OldDescriptor(p, c)
  BY <1>0, <1>2, <1>6 DEF OldDescriptor
<1>7. CASE LoopInit(p) \/ LoopPost(p)
  BY <1>1, <1>7 DEF LoopInit, LoopPost, Pass
<1>8. CASE SkipTile(p) /\ UNCHANGED bankVars
  BY <1>1, <1>8 DEF SkipTile, SkipTo, bankVars
<1>9. CASE UNCHANGED <<callVars, bankVars>>
  BY <1>9 DEF callVars, bankVars
<1> QED
  BY <1>4, <1>5, <1>6, <1>7, <1>8, <1>9 DEF BankStep

LEMMA OthersKeep ==
  ASSUME LInv, NEW p \in Proc, BankStep(p)
  PROVE  /\ prog' = prog
         /\ \A r \in Proc : r # p => /\ pos'[r] = pos[r] /\ inst'[r] = inst[r]
                                     /\ handle'[r] = handle[r] /\ commbank'[r] = commbank[r]
BY OthersStay DEF LInv

\* Calls between which a communication stays open.
LEMMA OpenFrame ==
  ASSUME LInv, OpenInv, NEW p \in Proc, NEW o \in Op, NEW c \in Cid, Return(p, o, c),
         NEW e \in Cid, inst[p][e].done # {}, <<o, c>> # <<"OLD", e>>,
         inst'[p][e].gen = inst[p][e].gen,
         RecvInfo(p, e)' = RecvInfo(p, e), SendInfo(p, e)' = SendInfo(p, e)
  PROVE  \E m \in Nat : OpenSince(p, e, m)' /\ InfoOf(p, e, m)'
<1> DEFINE n == pos[p]
<1>1. CallsInv
  BY DEF LInv
<1>2. n \in Nat /\ prog' = prog /\ prog.calls[n + 1] = <<o, c>>
      /\ pos' = [pos EXCEPT ![p] = n + 1] /\ DOMAIN pos = Proc
  BY <1>1, Place DEF CallsInv, CallsTypeOK
<1>3. pos'[p] = n + 1
  BY <1>2
<1>4. \A k \in (n + 1)..(n + 1) : prog.calls[k] # <<"OLD", e>>
  <2>1. \A k \in (n + 1)..(n + 1) : k = n + 1
    BY <1>2
  <2> QED
    BY <1>2, <2>1
<1> QED
  BY <1>2, <1>3, <1>4, KeepOpen

\* The communication that NEW opens.
LEMMA NewOpens ==
  ASSUME LInv, LInv', NEW p \in Proc, NEW c \in Cid,
         Return(p, "NEW", c), NewDescriptor(p, c)
  PROVE  \E m \in Nat : OpenSince(p, c, m)' /\ InfoOf(p, c, m)'
<1> DEFINE n == pos[p]
           ds == Dirs(p, c)
<1>0. CallsInv /\ BankInv /\ GensInv /\ IdsInv /\ GensInv' /\ "NEW" \in Op
  BY DEF LInv, Op
<1>1. /\ n \in Nat /\ prog' = prog
      /\ pos' = [pos EXCEPT ![p] = n + 1] /\ DOMAIN pos = Proc
      /\ prog.calls[n + 1] = <<"NEW", c>>
      /\ Gen(p, c) \in 1..Len(prog.dirs[c])
  BY <1>0, Place DEF CallsInv, CallsTypeOK
<1>2. pos'[p] = n + 1
  BY <1>1
<1>3. Gen(p, c) = GenAt(prog, c, n + 1)
  BY <1>0, <1>1, <1>2, ReturnGen DEF GensInv
<1>4. inst'[p][c].done = {"NEW"}
  <2>1. inst[p][c].done = {}
    BY <1>0, NewClosed DEF Return
  <2> QED
    BY <1>0, <2>1 DEF Return, CallsInv, CallsTypeOK
<1>a. PICK m \in Nat : m = n + 1
  BY <1>1
<1>5. OpenSince(p, c, m)'
  <2>1. GenAt(prog, c, m)' = GenAt(prog, c, m) /\ prog'.calls = prog.calls /\ prog'.dirs = prog.dirs
    BY <1>1
  <2>2. \A k \in (m + 1)..pos'[p] : FALSE
    BY <1>1, <1>2, <1>a
  <2>3. /\ m \in 1..pos'[p] /\ prog.calls[m] = <<"NEW", c>>
        /\ GenAt(prog, c, m) \in 1..Len(prog.dirs[c])
        /\ GenAt(prog, c, m) = inst'[p][c].gen
    BY <1>0, <1>1, <1>2, <1>3, <1>a DEF GensInv
  <2> QED
    BY <1>4, <2>1, <2>2, <2>3 DEF OpenSince
<1>6. ds = prog.dirs[c][GenAt(prog, c, n + 1)] /\ DOMAIN ds \subseteq 1..MaxDirs
  <2>1. prog \in Programs
    BY <1>0 DEF CallsInv
  <2> QED
    BY <1>1, <1>3, <2>1, DirsType DEF Dirs
<1>7. /\ DOMAIN RecvInfo(p, c)' = RecvDirs(p, ds)
      /\ DOMAIN SendInfo(p, c)' = SendDirs(p, ds)
      /\ \A d \in RecvDirs(p, ds) : RecvInfo(p, c)'[d] =
           [proc |-> Source(p, ds, d), dyn_commid |-> Drawn(p, d), area |-> c]
      /\ \A d \in SendDirs(p, ds) : SendInfo(p, c)'[d] =
           [proc |-> ds[d][p], dyn_commid |-> Drawn(p, d), area |-> c]
  <2> DEFINE s == freelist[p][Len(freelist[p])]
             recvs == [d \in RecvDirs(p, ds) |->
               [proc |-> Source(p, ds, d), dyn_commid |-> Drawn(p, d), area |-> c]]
             sends == [d \in SendDirs(p, ds) |->
               [proc |-> ds[d][p], dyn_commid |-> Drawn(p, d), area |-> c]]
  <2>1. CASE RecvDirs(p, ds) \cup SendDirs(p, ds) = {}
    <3>1. handle'[p][c] = NoHandle
      BY <1>0, <2>1 DEF NewDescriptor, BankInv, BankTypeOK
    <3>2. DOMAIN <<>> = {}
      OBVIOUS
    <3> QED
      BY <2>1, <3>1, <3>2 DEF RecvInfo, SendInfo
  <2>2. CASE RecvDirs(p, ds) \cup SendDirs(p, ds) # {}
    <3>1. /\ handle' = [handle EXCEPT ![p][c] = s]
          /\ commbank' = [commbank EXCEPT ![p][s] = [recvinfo |-> recvs, sendinfo |-> sends]]
      BY <2>2 DEF NewDescriptor
    <3>2. s \in Slot /\ s # NoHandle
      <4>1. freelist[p] # <<>>
        BY <1>0, NotEmpty, NewClosed DEF Return
      <4> QED
        <5>1. freelist[p] \in Seq(Slot)
          BY <1>0 DEF BankInv, BankTypeOK
        <5>2. Len(freelist[p]) \in 1..Len(freelist[p])
          BY <4>1, <5>1
        <5>3. s \in Slot
          BY <5>1, <5>2
        <5> QED
          BY <5>3, NoHandleAssumption DEF Slot
    <3> HIDE DEF s, recvs, sends, ds
    <3>3. /\ handle'[p][c] = s
          /\ commbank'[p][s].recvinfo = recvs /\ commbank'[p][s].sendinfo = sends
      BY <1>0, <3>1, <3>2 DEF BankInv, BankTypeOK
    <3>4. RecvInfo(p, c)' = recvs /\ SendInfo(p, c)' = sends
      BY <3>2, <3>3 DEF RecvInfo, SendInfo
    <3> QED
      BY <3>4 DEF recvs, sends
  <2> QED
    BY <2>1, <2>2
<1>8. \A d \in RecvDirs(p, ds) \cup SendDirs(p, ds) : d \in Nat
  BY <1>1, <1>6, MaxDirsAssumption DEF RecvDirs, SendDirs
<1>9. \A d \in Nat : Drawn(p, d) = Tag(prog, n + 1, d)
  <2> HIDE DEF n
  <2>1. dyncommid[p] = GetDynamicCommID(FirstId, Num(prog, Counted(prog, n)))
    BY <1>0 DEF IdsInv, LastId, n
  <2>2. Num(prog, Counted(prog, n)) \in Nat
    <3>1. Counted(prog, n) \in SUBSET (1..n)
      BY DEF Counted
    <3> QED
      BY <1>1, <3>1, IdsFinite
  <2>3. (n + 1) - 1 = n
    BY <1>1
  <2> QED
    BY <2>1, <2>2, <2>3, DrawTwice DEF Drawn, Tag
<1>10. InfoOf(p, c, m)'
  <2> DEFINE dm == prog.dirs[c][GenAt(prog, c, m)]
  <2>1. dm = ds
    BY <1>6, <1>a
  <2>2. dm' = dm /\ \A d : Tag(prog, m, d)' = Tag(prog, m, d)
    BY <1>1
  <2>3. /\ RecvDirs(p, dm)' = RecvDirs(p, dm) /\ SendDirs(p, dm)' = SendDirs(p, dm)
        /\ \A d : Source(p, dm, d)' = Source(p, dm, d)
    BY <2>2
  <2>4. \A d \in Nat : Drawn(p, d) = Tag(prog, m, d)
    BY <1>9, <1>a
  <2> HIDE DEF n, ds
  <2> QED
    BY <1>7, <1>8, <2>1, <2>2, <2>3, <2>4 DEF InfoOf
<1> QED
  BY <1>5, <1>10

LEMMA StepOpen ==
  ASSUME LInv, LInv', OpenInv, NEW p \in Proc, BankStep(p)
  PROVE  OpenInv'
<1>0. CallsInv /\ BankInv /\ Op = {"NEW", "DR", "SR", "DN", "OLD"}
  BY DEF LInv, Op
<1>1. /\ prog' = prog
      /\ \A r \in Proc : r # p => /\ pos'[r] = pos[r] /\ inst'[r] = inst[r]
                                  /\ handle'[r] = handle[r] /\ commbank'[r] = commbank[r]
  BY OthersKeep
<1>2. \A r \in Proc : pos[r] \in Nat
  BY <1>0 DEF CallsInv, CallsTypeOK
<1> DEFINE Opened(r, e) == \E m \in Nat : OpenSince(r, e, m)' /\ InfoOf(r, e, m)'
           SameInfos(r, e) == RecvInfo(r, e)' = RecvInfo(r, e) /\ SendInfo(r, e)' = SendInfo(r, e)
<1>3. ASSUME NEW r \in Proc, NEW e \in Cid, inst'[r][e].done # {}, r # p
      PROVE  Opened(r, e)
  <2>1. inst[r][e].done # {} /\ SameInfos(r, e)
    BY <1>1, <1>3 DEF RecvInfo, SendInfo
  <2>2. pos'[r] = pos[r] /\ inst'[r] = inst[r]
    BY <1>1, <1>3
  <2>3. \A k \in (pos[r] + 1)..pos'[r] : FALSE
    BY <1>2, <2>2
  <2> QED
    BY <1>1, <1>2, <2>1, <2>2, <2>3, KeepOpen
<1>4. ASSUME NEW c \in Cid, Return(p, "NEW", c), NewDescriptor(p, c),
             NEW e \in Cid, inst'[p][e].done # {}
      PROVE  Opened(p, e)
  <2>1. CASE e = c
    BY <1>4, <2>1, NewOpens
  <2>2. CASE e # c
    <3> DEFINE s == freelist[p][Len(freelist[p])]
    <3>1. inst'[p][e] = inst[p][e]
      BY <1>0, <1>4, <2>2, ReturnGen
    <3>2. handle'[p][e] = handle[p][e]
      BY <1>0, <1>4, <2>2 DEF NewDescriptor, BankInv, BankTypeOK
    <3>3. inst[p][e].done # {}
      BY <1>4, <3>1
    <3>4. s \in Slot /\ Free(p, s)
      <4>1. freelist[p] # <<>>
        BY <1>0, <1>4, NotEmpty, NewClosed DEF Return
      <4>2. freelist[p] \in Seq(Slot)
        BY <1>0 DEF BankInv, BankTypeOK
      <4>3. Len(freelist[p]) \in 1..Len(freelist[p])
        BY <4>1, <4>2
      <4>4. s \in Slot
        BY <4>2, <4>3
      <4> QED
        BY <4>3, <4>4 DEF Free
    <3>5. InUse(p, e) => handle[p][e] # s
      BY <1>0, <3>4 DEF BankInv, Owned, Held
    <3>6. InUse(p, e) => commbank'[p][handle[p][e]] = commbank[p][handle[p][e]]
      <4>1. \/ commbank' = commbank
            \/ \E x : commbank' = [commbank EXCEPT ![p][s] = x]
        BY <1>4 DEF NewDescriptor
      <4> HIDE DEF s
      <4>2. DOMAIN commbank = Proc /\ DOMAIN commbank[p] = Slot
        BY <1>0 DEF BankInv, BankTypeOK
      <4>3. ASSUME NEW x, commbank' = [commbank EXCEPT ![p][s] = x], InUse(p, e)
            PROVE  commbank'[p][handle[p][e]] = commbank[p][handle[p][e]]
        <5>1. handle[p][e] \in Slot
          BY <1>0, <4>3 DEF InUse, BankInv, BankTypeOK
        <5> QED
          BY <3>5, <4>2, <4>3, <5>1
      <4> QED
        BY <4>1, <4>3
    <3>7. SameInfos(p, e)
      BY <3>2, <3>3, <3>6 DEF RecvInfo, SendInfo, InUse
    <3>8. <<"NEW", c>> # <<"OLD", e>> /\ "NEW" \in Op
      BY <1>0
    <3> QED
      BY <1>4, <3>1, <3>3, <3>7, <3>8, OpenFrame
  <2> QED
    BY <2>1, <2>2
<1>5. ASSUME NEW c \in Cid, NEW o \in {"DR", "SR", "DN"}, Return(p, o, c), UNCHANGED bankVars,
             NEW e \in Cid, inst'[p][e].done # {}
      PROVE  Opened(p, e)
  <2>1. handle' = handle /\ commbank' = commbank
    BY <1>5 DEF bankVars
  <2>2. o \in Op /\ o # "NEW" /\ <<o, c>> # <<"OLD", e>>
    BY <1>0
  <2>3. inst[p][e].done # {} /\ inst'[p][e].gen = inst[p][e].gen
    <3>1. CASE e = c
      <4>1. inst'[p][c].gen = inst[p][c].gen
        BY <1>0, <1>5, <2>2, ReturnGen
      <4>2. Required[o] \subseteq inst[p][c].done /\ "NEW" \in Required[o]
        BY <1>5 DEF Return, May, Required
      <4> QED
        BY <3>1, <4>1, <4>2
    <3>2. CASE e # c
      BY <1>0, <1>5, <2>2, <3>2, ReturnGen
    <3> QED
      BY <3>1, <3>2
  <2>4. SameInfos(p, e)
    BY <2>1 DEF RecvInfo, SendInfo
  <2> QED
    BY <1>5, <2>2, <2>3, <2>4, OpenFrame
<1>6. ASSUME NEW c \in Cid, Return(p, "OLD", c), OldDescriptor(p, c),
             NEW e \in Cid, inst'[p][e].done # {}
      PROVE  Opened(p, e)
  <2>1. handle' = handle /\ commbank' = commbank
    BY <1>6 DEF OldDescriptor
  <2>2. e # c
    <3>1. inst'[p][c].done = {}
      BY <1>0, <1>6 DEF Return, CallsInv, CallsTypeOK
    <3> QED
      BY <1>6, <3>1
  <2>3. inst'[p][e] = inst[p][e] /\ "OLD" \in Op /\ <<"OLD", c>> # <<"OLD", e>>
    BY <1>0, <1>6, <2>2, ReturnGen
  <2>4. SameInfos(p, e)
    BY <2>1 DEF RecvInfo, SendInfo
  <2> QED
    BY <1>6, <2>3, <2>4, OpenFrame
<1>7. ASSUME NEW o \in LoopOp, Pass(p, o), handle' = handle, commbank' = commbank,
             NEW e \in Cid, inst'[p][e].done # {}
      PROVE  Opened(p, e)
  <2>1. pos'[p] = pos[p] + 1 /\ inst' = inst
    BY <1>0, <1>7 DEF Pass, CallsInv, CallsTypeOK
  <2>2. SameInfos(p, e)
    BY <1>7 DEF RecvInfo, SendInfo
  <2>3. \A k \in (pos[p] + 1)..pos'[p] : prog.calls[k] # <<"OLD", e>>
    <3>1. PICK c \in Cid : prog.calls[pos[p] + 1] = <<o, c>>
      BY <1>7 DEF Pass, AtOp, At
    <3>2. \A k \in (pos[p] + 1)..pos'[p] : k = pos[p] + 1
      BY <1>2, <2>1
    <3>3. o # "OLD"
      BY DEF LoopOp
    <3> QED
      BY <3>1, <3>2, <3>3
  <2> QED
    BY <1>1, <1>2, <1>7, <2>1, <2>2, <2>3, KeepOpen
<1>8. ASSUME SkipTile(p), UNCHANGED bankVars, NEW e \in Cid, inst'[p][e].done # {}
      PROVE  Opened(p, e)
  <2>1. PICK n \in (pos[p] + 1)..Len(prog.calls) : SkipTo(p, n)
    BY <1>8 DEF SkipTile
  <2>2. handle' = handle /\ commbank' = commbank
    BY <1>8 DEF bankVars
  <2>3. inst'[p][e].done = inst[p][e].done /\ pos'[p] = n
    BY <1>0, <2>1 DEF SkipTo, CallsInv, CallsTypeOK
  <2>4. inst[p][e].done # {} /\ SameInfos(p, e)
    BY <1>8, <2>2, <2>3 DEF RecvInfo, SendInfo
  <2>5. \A k \in (pos[p] + 1)..n : prog.calls[k] # <<"OLD", e>>
    BY <1>0, <2>1, <2>4, SkipTags
  <2>6. n \in Nat /\ pos[p] <= n
    BY <1>2
  <2>7. inst'[p][e].gen = inst[p][e].gen
    BY <1>0, <1>8, <2>4, SkipStep
  <2> QED
    BY <1>1, <1>2, <2>3, <2>4, <2>5, <2>6, <2>7, KeepOpen
<1>9. ASSUME UNCHANGED <<callVars, bankVars>>, NEW e \in Cid, inst'[p][e].done # {}
      PROVE  Opened(p, e)
  <2>1. pos' = pos /\ inst' = inst /\ handle' = handle /\ commbank' = commbank
    BY <1>9 DEF callVars, bankVars
  <2>2. SameInfos(p, e)
    BY <2>1 DEF RecvInfo, SendInfo
  <2>3. \A k \in (pos[p] + 1)..pos'[p] : FALSE
    BY <1>2, <2>1
  <2> QED
    BY <1>1, <1>2, <1>9, <2>1, <2>2, <2>3, KeepOpen
<1>10. ASSUME NEW e \in Cid, inst'[p][e].done # {} PROVE Opened(p, e)
  <2> HIDE DEF Opened
  <2>1. CASE \E c \in Cid : Return(p, "NEW", c) /\ NewDescriptor(p, c)
    BY <1>4, <1>10, <2>1
  <2>2. CASE \E c \in Cid, o \in {"DR", "SR", "DN"} : Return(p, o, c) /\ UNCHANGED bankVars
    BY <1>5, <1>10, <2>2
  <2>3. CASE \E c \in Cid : Return(p, "OLD", c) /\ OldDescriptor(p, c)
    BY <1>6, <1>10, <2>3
  <2>4. CASE LoopInit(p) \/ LoopPost(p)
    BY <1>7, <1>10, <2>4 DEF LoopInit, LoopPost, LoopOp
  <2>5. CASE SkipTile(p) /\ UNCHANGED bankVars
    BY <1>8, <1>10, <2>5
  <2>6. CASE UNCHANGED <<callVars, bankVars>>
    BY <1>9, <1>10, <2>6
  <2> QED
    BY <2>1, <2>2, <2>3, <2>4, <2>5, <2>6 DEF BankStep
<1> QED
  BY <1>3, <1>10 DEF OpenInv

\* Directions that two open communications receive in under the same tag are
\* one direction of one communication, unless one of them is still in NEW.
LEMMA TagsImply ==
  ASSUME LInv, OpenInv, NEW p \in Proc, NEW c \in Cid, NEW b \in Cid,
         inst[p][c].done # {}, inst[p][b].done # {}, inst[p][c].done # {"NEW"}, inst[p][b].done # {"NEW"},
         NEW d \in DOMAIN RecvInfo(p, c), NEW e \in DOMAIN RecvInfo(p, b),
         RecvInfo(p, c)[d].dyn_commid = RecvInfo(p, b)[e].dyn_commid
  PROVE  c = b /\ d = e
<1>0. prog \in Programs /\ pos[p] \in Nat /\ pos[p] <= Len(prog.calls) /\ Len(prog.calls) \in Nat
  <2>1. CallsInv
    BY DEF LInv
  <2>2. prog.calls \in Seq((Op \cup LoopOp) \X Cid)
    BY <2>1, ProgramsAssumption DEF CallsInv, Program
  <2> QED
    BY <2>1, <2>2 DEF CallsInv, CallsTypeOK
<1>1. PICK m \in Nat : OpenSince(p, c, m) /\ InfoOf(p, c, m)
  BY DEF OpenInv
<1>2. PICK n \in Nat : OpenSince(p, b, n) /\ InfoOf(p, b, n)
  BY DEF OpenInv
<1>3. /\ m \in 1..pos[p] /\ m < pos[p] /\ prog.calls[m] = <<"NEW", c>>
      /\ GenAt(prog, c, m) \in 1..Len(prog.dirs[c])
      /\ \A k \in (m + 1)..pos[p] : prog.calls[k] # <<"OLD", c>>
  BY <1>1 DEF OpenSince
<1>4. /\ n \in 1..pos[p] /\ n < pos[p] /\ prog.calls[n] = <<"NEW", b>>
      /\ GenAt(prog, b, n) \in 1..Len(prog.dirs[b])
      /\ \A k \in (n + 1)..pos[p] : prog.calls[k] # <<"OLD", b>>
  BY <1>2 DEF OpenSince
<1>5. /\ d \in DirsAt(prog, m) /\ e \in DirsAt(prog, n)
      /\ Tag(prog, m, d) = Tag(prog, n, e)
  <2>1. /\ d \in RecvDirs(p, prog.dirs[c][GenAt(prog, c, m)])
        /\ RecvInfo(p, c)[d].dyn_commid = Tag(prog, m, d)
    BY <1>1 DEF InfoOf
  <2>2. /\ e \in RecvDirs(p, prog.dirs[b][GenAt(prog, b, n)])
        /\ RecvInfo(p, b)[e].dyn_commid = Tag(prog, n, e)
    BY <1>2 DEF InfoOf
  <2>3. d \in DirsAt(prog, m)
    BY <1>0, <1>3, <2>1, DirsType DEF RecvDirs, DirsAt
  <2>4. e \in DirsAt(prog, n)
    BY <1>0, <1>4, <2>2, DirsType DEF RecvDirs, DirsAt
  <2> QED
    BY <2>1, <2>2, <2>3, <2>4
<1>6. m \in Nat \ {0} /\ n \in Nat \ {0} /\ m < Len(prog.calls) /\ n < Len(prog.calls)
  BY <1>0, <1>3, <1>4
<1>7. ~(m < n)
  <2> SUFFICES ASSUME m < n PROVE FALSE
    OBVIOUS
  <2>1. \A k \in (m + 1)..(n - 1) : prog.calls[k] # <<"OLD", c>>
    BY <1>0, <1>3, <1>4
  <2>2. n <= Len(prog.calls) /\ prog \in Programs
    BY <1>0, <1>6
  <2>3. Tag(prog, m, d) # Tag(prog, n, e)
    BY <1>3, <1>4, <1>5, <1>6, <2>1, <2>2, TagsLater
  <2> QED
    BY <1>5, <2>3
<1>8. ~(n < m)
  <2> SUFFICES ASSUME n < m PROVE FALSE
    OBVIOUS
  <2>1. \A k \in (n + 1)..(m - 1) : prog.calls[k] # <<"OLD", b>>
    BY <1>0, <1>3, <1>4
  <2>2. m <= Len(prog.calls) /\ prog \in Programs
    BY <1>0, <1>6
  <2>3. Tag(prog, n, e) # Tag(prog, m, d)
    BY <1>3, <1>4, <1>5, <1>6, <2>1, <2>2, TagsLater
  <2> QED
    BY <1>5, <2>3
<1>9. m = n /\ c = b
  BY <1>3, <1>4, <1>7, <1>8
<1>10. d \in Int /\ e \in Int
  BY <1>5, MaxDirsAssumption DEF DirsAt
<1>11. ~(d < e) /\ ~(e < d)
  BY <1>0, <1>3, <1>5, <1>6, <1>9, TagsWithin
<1> QED
  BY <1>9, <1>10, <1>11

(***************************************************************************)
(* Messages.  Between a sender and a receiver there is, at every moment,   *)
(* one message for each direction of each instance that the one has sent   *)
(* and the other has not taken, and the message that the tag of a receive  *)
(* finds first is the one of the receiver's own instance.                  *)
(***************************************************************************)

\* In program pr, q sends x to p.
Edge(pr, q, p, x) ==
  /\ x \in DataSet /\ x.src = q
  /\ x.gen \in 1..Len(pr.dirs[x.cid])
  /\ x.dir \in DOMAIN pr.dirs[x.cid][x.gen]
  /\ pr.dirs[x.cid][x.gen][x.dir][q] = p

\* A sender whose instance of x.cid is i, and that has sent the directions D
\* in the SR it is in, has sent x.
SentIn(i, x, D) ==
  \/ i.gen > x.gen
  \/ i.gen = x.gen /\ (i.done = {} \/ "SR" \in i.done \/ x.dir \in D)

\* A receiver whose instance of x.cid is i, and that has got the directions G
\* of it, has still to get x.
PendIn(i, x, G) ==
  \/ i.gen < x.gen
  \/ i.gen = x.gen /\ i.done # {} /\ "DN" \notin i.done /\ x.dir \notin G

\* What q has sent and p has not got: iq and ip are their instances, out what
\* q has sent in the SRs it is in, got what p has got of its instances.
InFlight(pr, q, p, iq, ip, out, got) ==
  {x \in DataSet : /\ Edge(pr, q, p, x)
                   /\ SentIn(iq[x.cid], x, out[x.cid])
                   /\ PendIn(ip[x.cid], x, got[x.cid])}

\* Nothing is got that was not sent.
NoneEarly(pr, q, p, iq, ip, out, got) ==
  \A x \in DataSet :
    Edge(pr, q, p, x) =>
      SentIn(iq[x.cid], x, out[x.cid]) \/ PendIn(ip[x.cid], x, got[x.cid])

\* The instance that x is of begins at place m.
BeganAt(pr, x, m) ==
  /\ m \in Nat \ {0}
  /\ pr.calls[m] = <<"NEW", x.cid>>
  /\ GenAt(pr, x.cid, m) = x.gen

\* No instance of c ends after place l and up to place n.
OpenTo(pr, c, l, n) == \A k \in (l + 1)..n : pr.calls[k] # <<"OLD", c>>

\* In ch, x is under tag t, and before all that is under this tag.
FirstUnder(ch, x, t) ==
  /\ \A j \in 1..Len(ch) : ch[j].tag = t =>
       ch[j].val = x \/ \E i \in 1..Len(ch) : i < j /\ ch[i].val = x
  /\ \A j \in 1..Len(ch) : ch[j].val = x => ch[j].tag = t

\* ch has the data E, one message each, under the tags of the places up to n
\* where their instances begin; a message was sent while its own was open.
ChanOK(pr, n, ch, E) ==
  /\ \A i \in 1..Len(ch) : ch[i].val \in E
  /\ \A x \in E : \E i \in 1..Len(ch) : ch[i].val = x
  /\ \A i, j \in 1..Len(ch) : ch[i].val = ch[j].val => i = j
  /\ \A i \in 1..Len(ch) : \E m \in 1..n :
       BeganAt(pr, ch[i].val, m) /\ ch[i].tag = Tag(pr, m, ch[i].val.dir)
  /\ \A i, j \in 1..Len(ch) : i < j =>
       \A l, m \in Nat :
         BeganAt(pr, ch[i].val, l) /\ BeganAt(pr, ch[j].val, m) =>
           \A k \in m..l : pr.calls[k] # <<"OLD", ch[j].val.cid>>

-----------------------------------------------------------------------------
LEMMA OnePlace ==
  ASSUME NEW x \in DataSet, NEW l, NEW m, BeganAt(prog, x, l), BeganAt(prog, x, m)
  PROVE  l = m
<1>1. x.cid \in Cid /\ l \in Nat /\ m \in Nat
  BY DEF DataSet, BeganAt
<1>2. ASSUME l < m PROVE FALSE
  BY <1>1, <1>2, GenOrder DEF BeganAt
<1>3. ASSUME m < l PROVE FALSE
  BY <1>1, <1>3, GenOrder DEF BeganAt
<1> QED
  BY <1>1, <1>2, <1>3

\* Data is known by where it comes from.
LEMMA SameData ==
  ASSUME NEW x \in DataSet, NEW y \in DataSet, x.src = y.src, x.cid = y.cid,
         x.gen = y.gen, x.dir = y.dir
  PROVE  x = y
BY DEF DataSet

\* An instance that has begun by p's place and that p has not finished is open
\* since the place where it began.
LEMMA OpenFrom ==
  ASSUME LInv, OpenInv, NEW p \in Proc, NEW x \in DataSet, NEW m,
         BeganAt(prog, x, m), m <= pos[p],
         \/ inst[p][x.cid].gen < x.gen
         \/ inst[p][x.cid].gen = x.gen /\ inst[p][x.cid].done # {}
  PROVE  /\ inst[p][x.cid].gen = x.gen
         /\ OpenSince(p, x.cid, m) /\ InfoOf(p, x.cid, m)
<1>1. /\ x.cid \in Cid /\ m \in Nat /\ pos[p] \in Nat /\ x.gen \in Nat
      /\ inst[p][x.cid].gen = GenAt(prog, x.cid, pos[p])
  BY DEF DataSet, BeganAt, LInv, CallsInv, CallsTypeOK, GensInv
<1>2. inst[p][x.cid].gen = x.gen /\ inst[p][x.cid].done # {}
  BY <1>1, GenOrder DEF BeganAt
<1>3. PICK l \in Nat : OpenSince(p, x.cid, l) /\ InfoOf(p, x.cid, l)
  BY <1>1, <1>2 DEF OpenInv
<1>4. BeganAt(prog, x, l)
  BY <1>2, <1>3, <1>1 DEF OpenSince, BeganAt
<1>5. l = m
  BY <1>4, OnePlace
<1> QED
  BY <1>2, <1>3, <1>5

\* The directions of data that is sent are among those of its instance.
LEMMA EdgeDirs ==
  ASSUME prog \in Programs, NEW q \in Proc, NEW p \in Proc, NEW x, Edge(prog, q, p, x), NEW m,
         BeganAt(prog, x, m)
  PROVE  /\ x.cid \in Cid /\ m \in Nat \ {0}
         /\ GenAt(prog, x.cid, m) \in 1..Len(prog.dirs[x.cid])
         /\ x.dir \in DirsAt(prog, m)
<1>1. x.cid \in Cid /\ x.gen \in 1..Len(prog.dirs[x.cid]) /\ GenAt(prog, x.cid, m) = x.gen
  BY DEF Edge, BeganAt, DataSet
<1>2. x.dir \in 1..MaxDirs
  BY DEF Edge, DataSet
<1> QED
  BY <1>1, <1>2 DEF Edge, BeganAt, DirsAt

\* A message that has the tag of a receive of p, from q, is the one that p's
\* instance is to get, or comes after it.
LEMMA TagFinds ==
  ASSUME prog \in Programs, NEW q \in Proc, NEW p \in Proc,
         NEW n \in Nat, n <= Len(prog.calls), NEW ch, NEW E, ChanOK(prog, n, ch, E),
         \A x \in E : Edge(prog, q, p, x),
         NEW y, Edge(prog, q, p, y), NEW m, BeganAt(prog, y, m), m < Len(prog.calls),
         \* what p has still to get of earlier instances is of open ones
         \A x \in E, l \in Nat : BeganAt(prog, x, l) /\ l < m => OpenTo(prog, x.cid, l, m - 1),
         \* q has sent y, or has not begun its instance, or has it open
         y \in E \/ n < m \/ OpenTo(prog, y.cid, m, n),
         NEW j \in 1..Len(ch), ch[j].tag = Tag(prog, m, y.dir)
  PROVE  ch[j].val = y \/ \E i \in 1..Len(ch) : i < j /\ ch[i].val = y
<1> DEFINE x == ch[j].val
<1>0. x \in E /\ Edge(prog, q, p, x) /\ x \in DataSet /\ y \in DataSet /\ x.src = y.src
  BY DEF ChanOK, Edge
<1>1. PICK l \in 1..n : BeganAt(prog, x, l) /\ ch[j].tag = Tag(prog, l, x.dir)
  BY DEF ChanOK
<1> HIDE DEF x
<1>2. /\ x.cid \in Cid /\ l \in Nat \ {0}
      /\ GenAt(prog, x.cid, l) \in 1..Len(prog.dirs[x.cid])
      /\ x.dir \in DirsAt(prog, l) /\ prog.calls[l] = <<"NEW", x.cid>>
  BY <1>0, <1>1, EdgeDirs DEF BeganAt
<1>3. /\ y.cid \in Cid /\ m \in Nat \ {0}
      /\ GenAt(prog, y.cid, m) \in 1..Len(prog.dirs[y.cid])
      /\ y.dir \in DirsAt(prog, m) /\ prog.calls[m] = <<"NEW", y.cid>>
  BY EdgeDirs DEF BeganAt
<1>4. Tag(prog, l, x.dir) = Tag(prog, m, y.dir)
  BY <1>1
<1>5. Len(prog.calls) \in Nat
  <2>1. prog.calls \in Seq((Op \cup LoopOp) \X Cid)
    BY ProgramsAssumption DEF Program
  <2> QED
    BY <2>1
<1>6. CASE l = m
  <2>1. x.cid = y.cid /\ x.gen = y.gen
    BY <1>1, <1>2, <1>3, <1>6 DEF BeganAt
  <2>2. x.dir \in Int /\ y.dir \in Int
    BY <1>0 DEF DataSet
  <2>3. ~(x.dir < y.dir) /\ ~(y.dir < x.dir)
    BY <1>2, <1>3, <1>4, <1>6, <2>1, TagsWithin
  <2>4. x = y
    BY <1>0, <2>1, <2>2, <2>3, SameData
  <2> QED
    BY <2>4 DEF x
<1>7. CASE l < m
  <2>1. \A k \in (l + 1)..(m - 1) : prog.calls[k] # <<"OLD", x.cid>>
    BY <1>0, <1>1, <1>2, <1>7 DEF OpenTo
  <2>2. m <= Len(prog.calls)
    BY <1>3, <1>5
  <2>3. Tag(prog, l, x.dir) # Tag(prog, m, y.dir)
    BY <1>2, <1>3, <1>7, <2>1, <2>2, TagsLater
  <2> QED
    BY <1>4, <2>3
<1>8. CASE m < l
  <2>1. l <= Len(prog.calls)
    BY <1>2, <1>5
  <2>2. ASSUME \A k \in (m + 1)..(l - 1) : prog.calls[k] # <<"OLD", y.cid>>
        PROVE  FALSE
    <3>1. Tag(prog, m, y.dir) # Tag(prog, l, x.dir)
      BY <1>2, <1>3, <1>8, <2>1, <2>2, TagsLater
    <3> QED
      BY <1>4, <3>1
  <2>3. ~(n < m)
    BY <1>3, <1>8
  <2>4. CASE OpenTo(prog, y.cid, m, n)
    BY <1>2, <1>3, <2>2, <2>4 DEF OpenTo
  <2>5. CASE y \in E
    <3>1. PICK i \in 1..Len(ch) : ch[i].val = y
      BY <2>5 DEF ChanOK
    <3>2. CASE j < i
      <4>1. \A k \in m..l : prog.calls[k] # <<"OLD", y.cid>>
        <5>1. \A a, b \in Nat : BeganAt(prog, ch[j].val, a) /\ BeganAt(prog, ch[i].val, b) =>
                \A k \in b..a : prog.calls[k] # <<"OLD", ch[i].val.cid>>
          BY <3>2 DEF ChanOK
        <5>2. BeganAt(prog, ch[j].val, l) /\ BeganAt(prog, ch[i].val, m)
          BY <1>1, <3>1 DEF x
        <5>3. l \in Nat /\ m \in Nat
          BY <1>2, <1>3
        <5> QED
          BY <3>1, <5>1, <5>2, <5>3
      <4> QED
        BY <1>2, <1>3, <2>2, <4>1
    <3>3. CASE i = j
      BY <3>1, <3>3
    <3>4. i \in Int /\ j \in Int
      OBVIOUS
    <3> QED
      BY <3>1, <3>2, <3>3, <3>4
  <2> QED
    BY <2>3, <2>4, <2>5
<1> QED
  BY <1>2, <1>3, <1>6, <1>7, <1>8

-----------------------------------------------------------------------------
LEMMA ChanEmpty ==
  ASSUME NEW pr, NEW n, NEW E, E = {}
  PROVE  ChanOK(pr, n, <<>>, E)
BY DEF ChanOK

\* The sender's place moves on.
LEMMA ChanLater ==
  ASSUME NEW pr, NEW n \in Nat, NEW m \in Nat, n <= m, NEW ch, NEW E, ChanOK(pr, n, ch, E)
  PROVE  ChanOK(pr, m, ch, E)
<1>1. \A k : k \in 1..n => k \in 1..m
  OBVIOUS
<1> QED
  BY <1>1 DEF ChanOK

\* A message is sent while its communication is open.
LEMMA ChanSend ==
  ASSUME NEW n \in Nat, NEW M, NEW ch \in Seq(M), NEW E \in SUBSET DataSet,
         ChanOK(prog, n, ch, E), NEW msg \in M, msg.val \in DataSet \ E, NEW m \in 1..n,
         BeganAt(prog, msg.val, m), msg.tag = Tag(prog, m, msg.val.dir),
         \A k \in m..n : prog.calls[k] # <<"OLD", msg.val.cid>>
  PROVE  ChanOK(prog, n, Append(ch, msg), E \cup {msg.val})
<1> DEFINE new == Append(ch, msg)
           N == Len(ch)
<1>1. /\ N \in Nat /\ Len(new) = N + 1 /\ new[N + 1] = msg
      /\ \A i \in 1..N : new[i] = ch[i]
  OBVIOUS
<1>2. \A i \in 1..Len(new) : i \in 1..N \/ i = N + 1
  BY <1>1
<1> HIDE DEF new, N
<1>3. \A i \in 1..N : ch[i].val \in E
  BY DEF ChanOK, N
<1>4. \A i \in 1..Len(new) : new[i].val \in E \cup {msg.val}
  BY <1>1, <1>2, <1>3
<1>5. \A x \in E \cup {msg.val} : \E i \in 1..Len(new) : new[i].val = x
  <2>1. \A x \in E : \E i \in 1..N : ch[i].val = x
    BY DEF ChanOK, N
  <2>2. \A i : i \in 1..N => i \in 1..Len(new)
    BY <1>1
  <2>3. N + 1 \in 1..Len(new)
    BY <1>1
  <2> QED
    BY <1>1, <2>1, <2>2, <2>3
<1>6. \A i, j \in 1..Len(new) : new[i].val = new[j].val => i = j
  <2>1. \A i, j \in 1..N : ch[i].val = ch[j].val => i = j
    BY DEF ChanOK, N
  <2> QED
    BY <1>1, <1>2, <1>3, <2>1
<1>7. \A i \in 1..Len(new) : \E l \in 1..n :
        BeganAt(prog, new[i].val, l) /\ new[i].tag = Tag(prog, l, new[i].val.dir)
  <2>1. \A i \in 1..N : \E l \in 1..n :
          BeganAt(prog, ch[i].val, l) /\ ch[i].tag = Tag(prog, l, ch[i].val.dir)
    BY DEF ChanOK, N
  <2> QED
    BY <1>1, <1>2, <2>1
<1>8. ASSUME NEW i \in 1..Len(new), NEW j \in 1..Len(new), i < j, NEW a \in Nat, NEW b \in Nat,
             BeganAt(prog, new[i].val, a), BeganAt(prog, new[j].val, b), NEW k \in b..a
      PROVE  prog.calls[k] # <<"OLD", new[j].val.cid>>
  <2>0. i \in 1..N
    BY <1>1, <1>2, <1>8
  <2>1. CASE j \in 1..N
    <3>1. \A l, h \in Nat : BeganAt(prog, ch[i].val, l) /\ BeganAt(prog, ch[j].val, h) =>
            \A g \in h..l : prog.calls[g] # <<"OLD", ch[j].val.cid>>
      BY <1>8, <2>0, <2>1 DEF ChanOK, N
    <3> QED
      BY <1>1, <1>8, <2>0, <2>1, <3>1
  <2>2. CASE j = N + 1
    <3>1. PICK l \in 1..n : BeganAt(prog, ch[i].val, l)
      BY <2>0 DEF ChanOK, N
    <3>2. l = a
      <4>1. ch[i].val \in DataSet
        BY <1>3, <2>0
      <4> QED
        BY <1>1, <1>8, <2>0, <3>1, <4>1, OnePlace
    <3>3. m = b
      BY <1>1, <1>8, <2>2, OnePlace
    <3>4. k \in m..n
      BY <3>1, <3>2, <3>3
    <3> QED
      BY <1>1, <2>2, <3>4
  <2> QED
    BY <1>2, <2>1, <2>2
<1>9. \A i, j \in 1..Len(new) : i < j =>
        \A l, h \in Nat : BeganAt(prog, new[i].val, l) /\ BeganAt(prog, new[j].val, h) =>
          \A k \in h..l : prog.calls[k] # <<"OLD", new[j].val.cid>>
  BY <1>8
<1>10. ChanOK(prog, n, new, E \cup {msg.val})
  BY <1>4, <1>5, <1>6, <1>7, <1>9 DEF ChanOK
<1> QED
  BY <1>10 DEF new

LEMMA Joined ==
  ASSUME NEW M, NEW a \in Seq(M), NEW b \in Seq(M)
  PROVE  /\ Len(a) \in Nat /\ Len(b) \in Nat /\ Len(a \o b) = Len(a) + Len(b)
         /\ \A j \in 1..(Len(a) + Len(b)) :
              (a \o b)[j] = IF j <= Len(a) THEN a[j] ELSE b[j - Len(a)]
OBVIOUS

\* A message is taken out of its place.
LEMMA Removed ==
  ASSUME NEW M, NEW ch \in Seq(M), NEW i \in 1..Len(ch)
  PROVE  LET new == SubSeq(ch, 1, i - 1) \o SubSeq(ch, i + 1, Len(ch))
         IN /\ Len(new) = Len(ch) - 1 /\ Len(new) \in Nat
            /\ \A j \in 1..Len(new) : new[j] = IF j < i THEN ch[j] ELSE ch[j + 1]
<1> DEFINE a == SubSeq(ch, 1, i - 1)
           b == SubSeq(ch, i + 1, Len(ch))
           new == a \o b
<1>1. /\ a \in Seq(M) /\ Len(a) = i - 1 /\ \A j \in 1..(i - 1) : a[j] = ch[j]
  OBVIOUS
<1>2. /\ b \in Seq(M) /\ Len(b) = Len(ch) - i
      /\ \A j \in 1..(Len(ch) - i) : b[j] = ch[j + i]
  OBVIOUS
<1> HIDE DEF a, b
<1>3. /\ Len(new) = Len(ch) - 1 /\ Len(new) \in Nat
      /\ \A j \in 1..Len(new) : new[j] = IF j <= i - 1 THEN a[j] ELSE b[j - (i - 1)]
  <2>1. Len(new) = Len(a) + Len(b)
    BY <1>1, <1>2, Joined
  <2>2. \A j \in 1..(Len(a) + Len(b)) :
          new[j] = IF j <= Len(a) THEN a[j] ELSE b[j - Len(a)]
    BY <1>1, <1>2, Joined
  <2>3. Len(ch) \in Nat /\ i \in Nat
    OBVIOUS
  <2>4. Len(a) + Len(b) = Len(ch) - 1 /\ Len(ch) - 1 \in Nat
    BY <1>1, <1>2, <2>3
  <2>5. Len(a) = i - 1
    BY <1>1
  <2> HIDE DEF new
  <2> QED
    BY <2>1, <2>2, <2>4, <2>5
<1> HIDE DEF new
<1>4. ASSUME NEW j \in 1..Len(new) PROVE new[j] = IF j < i THEN ch[j] ELSE ch[j + 1]
  <2>1. CASE j < i
    BY <1>1, <1>3, <2>1
  <2>2. CASE ~(j < i)
    <3>0. i \in Nat /\ j \in Nat /\ Len(ch) \in Nat /\ j <= Len(ch) - 1
      BY <1>3
    <3>1. j - (i - 1) \in 1..(Len(ch) - i) /\ (j - (i - 1)) + i = j + 1
      BY <3>0, <2>2
    <3>2. b[j - (i - 1)] = ch[(j - (i - 1)) + i]
      BY <1>2, <3>1
    <3>3. new[j] = b[j - (i - 1)]
      <4>1. ~(j <= i - 1)
        BY <2>2, <3>0
      <4> QED
        BY <1>3, <4>1
    <3> QED
      BY <2>2, <3>1, <3>2, <3>3
  <2> QED
    BY <2>1, <2>2
<1> QED
  BY <1>3, <1>4 DEF new, a, b

LEMMA ChanReceive ==
  ASSUME NEW pr, NEW n, NEW M, NEW ch \in Seq(M), NEW E, ChanOK(pr, n, ch, E),
         NEW i \in 1..Len(ch)
  PROVE  ChanOK(pr, n, SubSeq(ch, 1, i - 1) \o SubSeq(ch, i + 1, Len(ch)), E \ {ch[i].val})
<1> DEFINE new == SubSeq(ch, 1, i - 1) \o SubSeq(ch, i + 1, Len(ch))
           at(j) == IF j < i THEN j ELSE j + 1
<1>0. /\ Len(new) = Len(ch) - 1 /\ Len(new) \in Nat
      /\ \A j \in 1..Len(new) : new[j] = IF j < i THEN ch[j] ELSE ch[j + 1]
  BY Removed
<1> HIDE DEF new
<1>1. \A j \in 1..Len(new) : new[j] = ch[at(j)] /\ at(j) \in 1..Len(ch) /\ at(j) # i
  BY <1>0
<1>2. \A j, k \in 1..Len(new) : /\ at(j) = at(k) => j = k
                                /\ j < k => at(j) < at(k)
  BY <1>0
<1>3. \A k \in 1..Len(ch) : k # i => \E j \in 1..Len(new) : at(j) = k
  <2> SUFFICES ASSUME NEW k \in 1..Len(ch), k # i PROVE \E j \in 1..Len(new) : at(j) = k
    OBVIOUS
  <2>1. CASE k < i
    <3>1. k \in 1..Len(new) /\ at(k) = k
      BY <1>0, <2>1
    <3> QED
      BY <3>1
  <2>2. CASE k > i
    <3>1. k - 1 \in 1..Len(new) /\ at(k - 1) = k
      BY <1>0, <2>2
    <3> QED
      BY <3>1
  <2> QED
    BY <2>1, <2>2
<1> HIDE DEF at
<1>4. /\ \A j \in 1..Len(ch) : ch[j].val \in E
      /\ \A x \in E : \E j \in 1..Len(ch) : ch[j].val = x
      /\ \A j, k \in 1..Len(ch) : ch[j].val = ch[k].val => j = k
  BY DEF ChanOK
<1>5. \A j \in 1..Len(new) : new[j].val \in E \ {ch[i].val}
  BY <1>1, <1>4
<1>6. \A x \in E \ {ch[i].val} : \E j \in 1..Len(new) : new[j].val = x
  <2> SUFFICES ASSUME NEW x \in E, x # ch[i].val PROVE \E j \in 1..Len(new) : new[j].val = x
    OBVIOUS
  <2>1. PICK k \in 1..Len(ch) : ch[k].val = x
    BY <1>4
  <2>2. k # i
    BY <2>1
  <2>3. PICK j \in 1..Len(new) : at(j) = k
    BY <1>3, <2>2
  <2> QED
    BY <1>1, <2>1, <2>3
<1>7. \A j, k \in 1..Len(new) : new[j].val = new[k].val => j = k
  BY <1>1, <1>2, <1>4
<1>8. \A j \in 1..Len(new) : \E m \in 1..n :
        BeganAt(pr, new[j].val, m) /\ new[j].tag = Tag(pr, m, new[j].val.dir)
  <2>1. \A j \in 1..Len(ch) : \E m \in 1..n :
          BeganAt(pr, ch[j].val, m) /\ ch[j].tag = Tag(pr, m, ch[j].val.dir)
    BY DEF ChanOK
  <2> QED
    BY <1>1, <2>1
<1>9. \A j, k \in 1..Len(new) : j < k =>
        \A l, m \in Nat : BeganAt(pr, new[j].val, l) /\ BeganAt(pr, new[k].val, m) =>
          \A h \in m..l : pr.calls[h] # <<"OLD", new[k].val.cid>>
  <2>1. \A j, k \in 1..Len(ch) : j < k =>
          \A l, m \in Nat : BeganAt(pr, ch[j].val, l) /\ BeganAt(pr, ch[k].val, m) =>
            \A h \in m..l : pr.calls[h] # <<"OLD", ch[k].val.cid>>
    BY DEF ChanOK
  <2>2. ASSUME NEW j \in 1..Len(new), NEW k \in 1..Len(new), j < k
        PROVE  \A l, m \in Nat : BeganAt(pr, new[j].val, l) /\ BeganAt(pr, new[k].val, m) =>
                 \A h \in m..l : pr.calls[h] # <<"OLD", new[k].val.cid>>
    <3>1. at(j) \in 1..Len(ch) /\ at(k) \in 1..Len(ch) /\ at(j) < at(k)
      BY <1>1, <1>2, <2>2
    <3>2. \A l, m \in Nat :
            BeganAt(pr, ch[at(j)].val, l) /\ BeganAt(pr, ch[at(k)].val, m) =>
            \A h \in m..l : pr.calls[h] # <<"OLD", ch[at(k)].val.cid>>
      BY <2>1, <3>1
    <3>3. new[j] = ch[at(j)] /\ new[k] = ch[at(k)]
      BY <1>1
    <3> QED
      BY <3>2, <3>3
  <2> QED
    BY <2>2
<1> QED
  BY <1>5, <1>6, <1>7, <1>8, <1>9 DEF ChanOK, new
-----------------------------------------------------------------------------
\* Between q and p, at their instances iq and ip: ch has what is in flight.
PairOK(pr, n, q, p, iq, ip, out, got, ch) ==
  /\ ChanOK(pr, n, ch, InFlight(pr, q, p, iq, ip, out, got))
  /\ NoneEarly(pr, q, p, iq, ip, out, got)

LEMMA InitPair ==
  ASSUME NEW pr, NEW n, NEW q, NEW p, NEW iq, NEW ip, NEW out, NEW got,
         \A c \in Cid : /\ iq[c].gen = 0 /\ ip[c].gen = 0
  PROVE  PairOK(pr, n, q, p, iq, ip, out, got, <<>>)
<1>1. ASSUME NEW x \in DataSet, Edge(pr, q, p, x)
      PROVE  /\ ~SentIn(iq[x.cid], x, out[x.cid])
             /\ PendIn(ip[x.cid], x, got[x.cid])
  <2>1. x.cid \in Cid /\ x.gen \in 1..Len(pr.dirs[x.cid]) /\ x.gen \in Nat
    BY <1>1 DEF Edge, DataSet
  <2>2. x.gen > 0
    BY <2>1
  <2>3. iq[x.cid].gen = 0 /\ ip[x.cid].gen = 0
    BY <2>1
  <2> QED
    BY <2>1, <2>2, <2>3 DEF SentIn, PendIn
<1>2. InFlight(pr, q, p, iq, ip, out, got) = {}
  BY <1>1 DEF InFlight
<1>3. NoneEarly(pr, q, p, iq, ip, out, got)
  BY <1>1 DEF NoneEarly
<1> QED
  BY <1>2, <1>3, ChanEmpty DEF PairOK

\* Nothing is sent or got: the sender's place may move on.
LEMMA QuietPair ==
  ASSUME NEW pr, NEW n \in Nat, NEW m \in Nat, n <= m, NEW q, NEW p,
         NEW iq, NEW ip, NEW out, NEW got, NEW iq2, NEW ip2, NEW out2, NEW got2, NEW ch,
         PairOK(pr, n, q, p, iq, ip, out, got, ch),
         \A x \in DataSet : Edge(pr, q, p, x) =>
           /\ SentIn(iq2[x.cid], x, out2[x.cid]) <=> SentIn(iq[x.cid], x, out[x.cid])
           /\ PendIn(ip2[x.cid], x, got2[x.cid]) <=> PendIn(ip[x.cid], x, got[x.cid])
  PROVE  PairOK(pr, m, q, p, iq2, ip2, out2, got2, ch)
<1>1. InFlight(pr, q, p, iq2, ip2, out2, got2) = InFlight(pr, q, p, iq, ip, out, got)
  BY DEF InFlight
<1>2. NoneEarly(pr, q, p, iq2, ip2, out2, got2)
  BY DEF NoneEarly, PairOK
<1> QED
  BY <1>1, <1>2, ChanLater DEF PairOK

-----------------------------------------------------------------------------
\* The return from a call sends nothing, when SR has sent all before.
LEMMA ReturnSent ==
  ASSUME CallsInv, NEW p \in Proc, NEW o \in Op, NEW c \in Cid, Return(p, o, c),
         NEW x \in DataSet, NEW D, NEW D2,
         o # "SR" \/ x.cid # c => (x.dir \in D2 <=> x.dir \in D),
         o = "NEW" /\ x.cid = c => x.dir \notin D2,
         o = "SR" /\ x.cid = c /\ x.gen = inst[p][c].gen => x.dir \in D
  PROVE  SentIn(inst'[p][x.cid], x, D2) <=> SentIn(inst[p][x.cid], x, D)
<1>0. x.cid \in Cid /\ x.gen \in Nat
  BY DEF DataSet
<1>1. /\ o \notin inst[p][c].done
      /\ Required[o] \subseteq inst[p][c].done
      /\ inst'[p][c] = [done |-> DoneAfter(inst[p][c].done, o), gen |-> Gen(p, c)]
      /\ \A e \in Cid : e # c => inst'[p][e] = inst[p][e]
      /\ Gen(p, c) = IF o = "NEW" THEN inst[p][c].gen + 1 ELSE inst[p][c].gen
  BY ReturnStep
<1>2. inst[p][c].gen \in Nat
  BY DEF CallsInv, CallsTypeOK
<1>3. CASE x.cid # c
  BY <1>0, <1>1, <1>3 DEF SentIn
<1>4. CASE x.cid = c
  <2> DEFINE g == inst[p][c].gen
             done == inst[p][c].done
  <2>1. CASE o = "NEW"
    <3>1. done = {}
      BY <2>1, NewClosed DEF Return
    <3>2. inst'[p][c].done = {"NEW"} /\ inst'[p][c].gen = g + 1
      BY <1>1, <2>1, <3>1 DEF DoneAfter
    <3> QED
      BY <1>0, <1>2, <1>4, <2>1, <3>1, <3>2 DEF SentIn
  <2>2. CASE o \in {"DR", "SR", "DN"}
    <3>1. "NEW" \in done
      BY <1>1, <2>2 DEF Required
    <3>2. inst'[p][c].done = done \cup {o} /\ inst'[p][c].gen = g
      BY <1>1, <2>2 DEF DoneAfter
    <3> QED
      BY <1>0, <1>1, <1>2, <1>4, <2>2, <3>1, <3>2 DEF SentIn
  <2>3. CASE o = "OLD"
    <3>1. "SR" \in done
      BY <1>1, <2>3 DEF Required
    <3>2. inst'[p][c].done = {} /\ inst'[p][c].gen = g
      BY <1>1, <2>3 DEF DoneAfter
    <3> QED
      BY <1>0, <1>2, <1>4, <3>1, <3>2 DEF SentIn
  <2> QED
    BY <2>1, <2>2, <2>3 DEF Op
<1> QED
  BY <1>3, <1>4

\* The return from a call gets nothing, when DN has got all before.
LEMMA ReturnPend ==
  ASSUME CallsInv, NEW p \in Proc, NEW o \in Op, NEW c \in Cid, Return(p, o, c),
         NEW x \in DataSet, NEW G, NEW G2,
         x.cid # c /\ inst[p][x.cid].done # {} => (x.dir \in G2 <=> x.dir \in G),
         o \in {"DR", "SR"} /\ x.cid = c /\ "DN" \notin inst[p][c].done /\ x.gen = inst[p][c].gen =>
           (x.dir \in G2 <=> x.dir \in G),
         o = "NEW" /\ x.cid = c => x.dir \notin G2,
         o = "DN" /\ x.cid = c /\ x.gen = inst[p][c].gen => x.dir \in G
  PROVE  PendIn(inst'[p][x.cid], x, G2) <=> PendIn(inst[p][x.cid], x, G)
<1>0. x.cid \in Cid /\ x.gen \in Nat
  BY DEF DataSet
<1>1. /\ o \notin inst[p][c].done
      /\ Required[o] \subseteq inst[p][c].done
      /\ inst'[p][c] = [done |-> DoneAfter(inst[p][c].done, o), gen |-> Gen(p, c)]
      /\ \A e \in Cid : e # c => inst'[p][e] = inst[p][e]
      /\ Gen(p, c) = IF o = "NEW" THEN inst[p][c].gen + 1 ELSE inst[p][c].gen
  BY ReturnStep
<1>2. inst[p][c].gen \in Nat
  BY DEF CallsInv, CallsTypeOK
<1>3. CASE x.cid # c
  BY <1>0, <1>1, <1>3 DEF PendIn
<1>4. CASE x.cid = c
  <2> DEFINE g == inst[p][c].gen
             done == inst[p][c].done
  <2>1. CASE o = "NEW"
    <3>1. done = {}
      BY <2>1, NewClosed DEF Return
    <3>2. inst'[p][c].done = {"NEW"} /\ inst'[p][c].gen = g + 1
      BY <1>1, <2>1, <3>1 DEF DoneAfter
    <3> QED
      BY <1>0, <1>2, <1>4, <2>1, <3>1, <3>2 DEF PendIn
  <2>2. CASE o \in {"DR", "SR", "DN"}
    <3>1. "NEW" \in done
      BY <1>1, <2>2 DEF Required
    <3>2. inst'[p][c].done = done \cup {o} /\ inst'[p][c].gen = g
      BY <1>1, <2>2 DEF DoneAfter
    <3> QED
      BY <1>0, <1>1, <1>2, <1>4, <2>2, <3>1, <3>2 DEF PendIn
  <2>3. CASE o = "OLD"
    <3>1. "DN" \in done
      BY <1>1, <2>3 DEF Required
    <3>2. inst'[p][c].done = {} /\ inst'[p][c].gen = g
      BY <1>1, <2>3 DEF DoneAfter
    <3> QED
      BY <1>0, <1>2, <1>4, <3>1, <3>2 DEF PendIn
  <2> QED
    BY <2>1, <2>2, <2>3 DEF Op
<1> QED
  BY <1>3, <1>4

\* g is f with d added at c.
Grows(f, g, c, d) == \A e \in Cid : g[e] = IF e = c THEN f[c] \cup {d} ELSE f[e]

\* A tile that a processor leaves out has nothing to send or to get.
LEMMA SkipQuiet ==
  ASSUME CallsInv, NEW p \in Proc, SkipTile(p), NEW x \in DataSet, NEW D, NEW D2
  PROVE  /\ /\ \E r \in Proc : Edge(prog, p, r, x)
            /\ inst[p][x.cid].done # {} => (x.dir \in D2 <=> x.dir \in D)
            => (SentIn(inst'[p][x.cid], x, D2) <=> SentIn(inst[p][x.cid], x, D))
         /\ /\ \E q \in Proc : Edge(prog, q, p, x)
            /\ inst[p][x.cid].done # {} => (x.dir \in D2 <=> x.dir \in D)
            => (PendIn(inst'[p][x.cid], x, D2) <=> PendIn(inst[p][x.cid], x, D))
<1> DEFINE c == x.cid
           g == inst[p][c].gen
           done == inst[p][c].done
<1>0. c \in Cid /\ x.gen \in Nat /\ g \in Nat /\ CallsTypeOK
  BY DEF DataSet, CallsInv, CallsTypeOK
<1>1. PICK n \in (pos[p] + 1)..Len(prog.calls) : SkipTo(p, n)
  BY DEF SkipTile
<1> DEFINE h == GenAfter(p, c, n)
<1>2. inst'[p][c].done = done /\ inst'[p][c].gen = h
  BY <1>0, <1>1 DEF SkipTo, CallsTypeOK
<1>3. /\ Begun(p, c, n) # {} => done = {}
      /\ \A k \in (g + 1)..h : /\ SendDirs(p, prog.dirs[c][k]) = {}
                               /\ RecvDirs(p, prog.dirs[c][k]) = {}
  BY <1>0, <1>1 DEF SkipTo
<1>4. h \in Nat /\ g <= h /\ (done # {} => h = g)
  <2>1. /\ Cardinality(Begun(p, c, n)) \in Nat
        /\ Cardinality(Begun(p, c, n)) = 0 <=> Begun(p, c, n) = {}
    BY <1>0, BegunCount
  <2> QED
    BY <1>0, <1>3, <2>1 DEF GenAfter
<1> HIDE DEF h
<1>5. ASSUME NEW r \in Proc, Edge(prog, p, r, x) PROVE x.gen \notin (g + 1)..h
  <2>1. prog.dirs[c][x.gen][x.dir][p] = r /\ x.dir \in DOMAIN prog.dirs[c][x.gen]
    BY <1>5 DEF Edge
  <2>2. x.dir \in SendDirs(p, prog.dirs[c][x.gen])
    BY <2>1, NoProcAssumption DEF SendDirs
  <2> QED
    BY <1>3, <2>2
<1>6. ASSUME NEW q \in Proc, Edge(prog, q, p, x) PROVE x.gen \notin (g + 1)..h
  <2>1. prog.dirs[c][x.gen][x.dir][q] = p /\ x.dir \in DOMAIN prog.dirs[c][x.gen]
    BY <1>6 DEF Edge
  <2>2. x.dir \in RecvDirs(p, prog.dirs[c][x.gen])
    BY <2>1 DEF RecvDirs
  <2> QED
    BY <1>3, <2>2
<1> HIDE DEF g, done, c
<1>7. ASSUME x.gen \notin (g + 1)..h, done # {} => (x.dir \in D2 <=> x.dir \in D)
      PROVE  /\ SentIn(inst'[p][c], x, D2) <=> SentIn(inst[p][c], x, D)
             /\ PendIn(inst'[p][c], x, D2) <=> PendIn(inst[p][c], x, D)
  <2>1. inst[p][c].gen = g /\ inst[p][c].done = done
    BY DEF g, done
  <2>2. CASE h = g
    BY <1>0, <1>2, <1>7, <2>1, <2>2 DEF SentIn, PendIn
  <2>3. CASE g < h
    <3>1. done = {} /\ (x.gen <= g \/ x.gen > h)
      BY <1>0, <1>4, <1>7, <2>3
    <3> QED
      BY <1>0, <1>2, <1>4, <2>1, <2>3, <3>1 DEF SentIn, PendIn
  <2> QED
    BY <1>0, <1>4, <2>2, <2>3
<1> QED
  BY <1>5, <1>6, <1>7 DEF c, done
-----------------------------------------------------------------------------
\* The instance that x is of is open at q, and x goes under tag t.
OpenUnder(q, x, t) ==
  \E m \in 1..pos[q] :
    /\ BeganAt(prog, x, m)
    /\ t = Tag(prog, m, x.dir)
    /\ \A k \in m..pos[q] : prog.calls[k] # <<"OLD", x.cid>>

\* What a processor sends in direction d of the SR it is in.
LEMMA SendEdge ==
  ASSUME LInv, OpenInv, NEW q \in Proc, NEW c \in Cid, inst[q][c].done # {},
         NEW d \in DOMAIN SendInfo(q, c)
  PROVE  LET x == Data(q, c, inst[q][c].gen, d)
             p == SendInfo(q, c)[d].proc
         IN /\ x \in DataSet /\ p \in Proc /\ SendInfo(q, c)[d].area = c
            /\ d \in SendDirs(q, prog.dirs[c][inst[q][c].gen])
            /\ \A r \in Proc : Edge(prog, q, r, x) <=> r = p
            /\ OpenUnder(q, x, SendInfo(q, c)[d].dyn_commid)
<1> DEFINE g == inst[q][c].gen
           x == Data(q, c, g, d)
           p == SendInfo(q, c)[d].proc
           ds == prog.dirs[c][g]
<1>0. CallsInv /\ BankInv /\ pos[q] \in Nat
  BY DEF LInv, CallsInv, CallsTypeOK
<1>1. PICK m \in Nat : OpenSince(q, c, m) /\ InfoOf(q, c, m)
  BY DEF OpenInv
<1>2. /\ m \in 1..pos[q] /\ prog.calls[m] = <<"NEW", c>>
      /\ g \in 1..Len(prog.dirs[c]) /\ GenAt(prog, c, m) = g
      /\ \A k \in (m + 1)..pos[q] : prog.calls[k] # <<"OLD", c>>
  BY <1>1 DEF OpenSince
<1>3. /\ d \in SendDirs(q, ds)
      /\ SendInfo(q, c)[d] = [proc |-> ds[d][q], dyn_commid |-> Tag(prog, m, d), area |-> c]
  BY <1>1, <1>2 DEF InfoOf
<1>4. d \in 1..MaxDirs /\ p \in Proc
  BY <1>0, InfoInDirs DEF IsMap, PerComm
<1>5. g \in Nat /\ x \in DataSet
  BY <1>0, <1>4, DataType DEF CallsInv, CallsTypeOK
<1>6. /\ p = ds[d][q] /\ d \in DOMAIN ds
      /\ SendInfo(q, c)[d].dyn_commid = Tag(prog, m, d) /\ SendInfo(q, c)[d].area = c
  <2> HIDE DEF ds
  <2>1. d \in DOMAIN ds
    BY <1>3 DEF SendDirs
  <2> QED
    BY <1>3, <2>1
<1>7. x.src = q /\ x.cid = c /\ x.gen = g /\ x.dir = d
  BY DEF Data
<1> HIDE DEF x, p, g
<1>8. \A r \in Proc : Edge(prog, q, r, x) <=> r = p
  BY <1>2, <1>5, <1>6, <1>7 DEF Edge
<1>9. BeganAt(prog, x, m)
  BY <1>2, <1>7 DEF BeganAt
<1>10. \A k \in m..pos[q] : prog.calls[k] # <<"OLD", c>>
  <2>1. \A k \in m..pos[q] : k = m \/ k \in (m + 1)..pos[q]
    BY <1>0
  <2> QED
    BY <1>2, <2>1
<1>11. OpenUnder(q, x, SendInfo(q, c)[d].dyn_commid)
  BY <1>2, <1>6, <1>7, <1>9, <1>10 DEF OpenUnder
<1> QED
  BY <1>2, <1>3, <1>4, <1>5, <1>6, <1>8, <1>11 DEF x, p, g

LEMMA SendPair ==
  ASSUME LInv, OpenInv, NEW q \in Proc, NEW c \in Cid, inst[q][c].done # {},
         "SR" \notin inst[q][c].done, NEW d \in DOMAIN SendInfo(q, c),
         NEW p, p = SendInfo(q, c)[d].proc,
         NEW M, NEW ch \in Seq(M), NEW msg \in M,
         msg.val = Data(q, c, inst[q][c].gen, d), msg.tag = SendInfo(q, c)[d].dyn_commid,
         NEW ip, NEW got, NEW out, NEW out2, d \notin out[c],
         Grows(out, out2, c, d),
         PairOK(prog, pos[q], q, p, inst[q], ip, out, got, ch)
  PROVE  PairOK(prog, pos[q], q, p, inst[q], ip, out2, got, Append(ch, msg))
<1> DEFINE x == Data(q, c, inst[q][c].gen, d)
           E == InFlight(prog, q, p, inst[q], ip, out, got)
           F == InFlight(prog, q, p, inst[q], ip, out2, got)
<1>0. pos[q] \in Nat /\ inst[q][c].gen \in Nat
  BY DEF LInv, CallsInv, CallsTypeOK
<1>1. /\ x \in DataSet /\ Edge(prog, q, p, x)
      /\ \E m \in 1..pos[q] : /\ BeganAt(prog, x, m)
                              /\ msg.tag = Tag(prog, m, d)
                              /\ \A k \in m..pos[q] : prog.calls[k] # <<"OLD", c>>
  <2> DEFINE P == SendInfo(q, c)[d].proc
             t == SendInfo(q, c)[d].dyn_commid
  <2>1. x \in DataSet /\ P \in Proc /\ \A r \in Proc : Edge(prog, q, r, x) <=> r = P
    BY SendEdge
  <2>3. OpenUnder(q, x, t)
    BY SendEdge
  <2>4. x.cid = c /\ x.dir = d
    BY DEF Data
  <2>2. p = P /\ msg.tag = t
    OBVIOUS
  <2> HIDE DEF x, P, t
  <2> QED
    BY <2>1, <2>2, <2>3, <2>4 DEF OpenUnder
<1>2. x.cid = c /\ x.gen = inst[q][c].gen /\ x.dir = d /\ msg.val = x
  BY DEF Data
<1>3. \A y \in DataSet : Edge(prog, q, p, y) /\ y # x =>
        (SentIn(inst[q][y.cid], y, out2[y.cid]) <=> SentIn(inst[q][y.cid], y, out[y.cid]))
  <2> SUFFICES ASSUME NEW y \in DataSet, Edge(prog, q, p, y), y # x
               PROVE  SentIn(inst[q][y.cid], y, out2[y.cid]) <=> SentIn(inst[q][y.cid], y, out[y.cid])
    OBVIOUS
  <2>1. y.cid \in Cid /\ y.src = x.src
    BY <1>1 DEF DataSet, Edge
  <2>2. y.cid = c /\ y.gen = inst[q][c].gen => y.dir # d
    BY <1>1, <1>2, <2>1, SameData
  <2> QED
    BY <2>1, <2>2 DEF SentIn, Grows
<1> HIDE DEF x
<1>4. SentIn(inst[q][x.cid], x, out2[x.cid]) /\ ~SentIn(inst[q][x.cid], x, out[x.cid])
  BY <1>0, <1>2 DEF SentIn, Grows
<1>5. PendIn(ip[x.cid], x, got[x.cid])
  BY <1>1, <1>4 DEF PairOK, NoneEarly
<1>6. F = E \cup {x} /\ x \notin E
  BY <1>1, <1>3, <1>4, <1>5 DEF InFlight
<1>7. NoneEarly(prog, q, p, inst[q], ip, out2, got)
  BY <1>3, <1>4 DEF PairOK, NoneEarly
<1>8. ChanOK(prog, pos[q], ch, E) /\ E \in SUBSET DataSet
  BY DEF PairOK, InFlight
<1> HIDE DEF E, F
<1>9. ChanOK(prog, pos[q], Append(ch, msg), E \cup {msg.val})
  <2>1. PICK m \in 1..pos[q] : /\ BeganAt(prog, x, m)
                               /\ msg.tag = Tag(prog, m, d)
                               /\ \A k \in m..pos[q] : prog.calls[k] # <<"OLD", c>>
    BY <1>1
  <2>2. /\ msg.val \in DataSet \ E /\ BeganAt(prog, msg.val, m)
        /\ msg.tag = Tag(prog, m, msg.val.dir)
        /\ \A k \in m..pos[q] : prog.calls[k] # <<"OLD", msg.val.cid>>
    BY <1>1, <1>2, <1>6, <2>1
  <2> HIDE DEF x
  <2> QED
    BY <1>0, <1>8, <2>2, ChanSend
<1> QED
  BY <1>2, <1>6, <1>7, <1>9 DEF PairOK, F

\* The other neighbours of the sender.
LEMMA SendOther ==
  ASSUME LInv, OpenInv, NEW q \in Proc, NEW c \in Cid, inst[q][c].done # {},
         NEW d \in DOMAIN SendInfo(q, c),
         NEW r \in Proc, r # SendInfo(q, c)[d].proc,
         NEW ip, NEW got, NEW out, NEW out2, NEW ch,
         Grows(out, out2, c, d),
         PairOK(prog, pos[q], q, r, inst[q], ip, out, got, ch)
  PROVE  PairOK(prog, pos[q], q, r, inst[q], ip, out2, got, ch)
<1> DEFINE x == Data(q, c, inst[q][c].gen, d)
<1>1. x \in DataSet /\ ~Edge(prog, q, r, x)
  BY SendEdge
<1>2. \A y \in DataSet : Edge(prog, q, r, y) =>
        (SentIn(inst[q][y.cid], y, out2[y.cid]) <=> SentIn(inst[q][y.cid], y, out[y.cid]))
  <2> SUFFICES ASSUME NEW y \in DataSet, Edge(prog, q, r, y)
               PROVE  SentIn(inst[q][y.cid], y, out2[y.cid]) <=> SentIn(inst[q][y.cid], y, out[y.cid])
    OBVIOUS
  <2>1. y.cid \in Cid /\ y.src = q /\ y # x
    BY <1>1 DEF DataSet, Edge
  <2>2. y.cid = c /\ y.gen = inst[q][c].gen => y.dir # d
    BY <1>1, <2>1, SameData DEF Data
  <2> QED
    BY <2>1, <2>2 DEF SentIn, Grows
<1>3. pos[q] \in Nat /\ pos[q] <= pos[q]
  BY DEF LInv, CallsInv, CallsTypeOK
<1> QED
  BY <1>2, <1>3, QuietPair

-----------------------------------------------------------------------------
\* The instance that x is of has begun at p, and x comes under tag t.
BegunUnder(p, x, t) ==
  \E m \in 1..pos[p] :
    /\ BeganAt(prog, x, m) /\ m < Len(prog.calls)
    /\ t = Tag(prog, m, x.dir)

\* What a processor waits for in direction d of the DN it is in.
LEMMA RecvEdge ==
  ASSUME LInv, OpenInv, NEW p \in Proc, NEW c \in Cid, inst[p][c].done # {},
         NEW d \in DOMAIN RecvInfo(p, c)
  PROVE  LET q == RecvInfo(p, c)[d].proc
             x == Data(q, c, inst[p][c].gen, d)
             ds == prog.dirs[c][inst[p][c].gen]
         IN /\ x \in DataSet /\ q \in Proc /\ RecvInfo(p, c)[d].area = c
            /\ q = Source(p, ds, d) /\ RecvDirs(p, ds) = DOMAIN RecvInfo(p, c)
            /\ Edge(prog, q, p, x)
            /\ \A r \in Proc : ds[d][r] = p => r = q
            /\ inst[p][c].done # {"NEW"} => BegunUnder(p, x, RecvInfo(p, c)[d].dyn_commid)
<1> DEFINE g == inst[p][c].gen
           q == RecvInfo(p, c)[d].proc
           x == Data(q, c, g, d)
           ds == prog.dirs[c][g]
<1>0. CallsInv /\ BankInv /\ prog \in Programs /\ pos[p] \in Nat /\ pos[p] <= Len(prog.calls)
      /\ Len(prog.calls) \in Nat
  <2>1. prog \in Programs /\ CallsInv /\ BankInv
    BY DEF LInv, CallsInv
  <2>2. prog.calls \in Seq((Op \cup LoopOp) \X Cid)
    BY <2>1, ProgramsAssumption DEF Program
  <2> QED
    BY <2>1, <2>2 DEF CallsInv, CallsTypeOK
<1>1. PICK m \in Nat : OpenSince(p, c, m) /\ InfoOf(p, c, m)
  BY DEF OpenInv
<1>2. /\ m \in 1..pos[p] /\ prog.calls[m] = <<"NEW", c>>
      /\ g \in 1..Len(prog.dirs[c]) /\ GenAt(prog, c, m) = g
      /\ inst[p][c].done # {"NEW"} => m < pos[p]
  BY <1>1 DEF OpenSince
<1>3. /\ d \in RecvDirs(p, ds) /\ RecvDirs(p, ds) = DOMAIN RecvInfo(p, c)
      /\ RecvInfo(p, c)[d] = [proc |-> Source(p, ds, d), dyn_commid |-> Tag(prog, m, d), area |-> c]
  BY <1>1, <1>2 DEF InfoOf
<1>4. d \in 1..MaxDirs /\ q \in Proc
  BY <1>0, InfoInDirs DEF IsMap, PerComm
<1>5. g \in Nat /\ x \in DataSet
  BY <1>0, <1>4, DataType DEF CallsInv, CallsTypeOK
<1>6. /\ q = Source(p, ds, d) /\ ds[d][q] = p /\ d \in DOMAIN ds
      /\ RecvInfo(p, c)[d].dyn_commid = Tag(prog, m, d) /\ RecvInfo(p, c)[d].area = c
  <2> HIDE DEF ds
  <2>1. d \in DOMAIN ds /\ ds[d][Source(p, ds, d)] = p
    BY <1>3, SourceType DEF RecvDirs
  <2> QED
    BY <1>3, <2>1
<1>7. ds[d] \in Direction
  <2>1. ds \in Seq(Direction)
    BY <1>0, <1>2, DirsType
  <2> QED
    BY <1>6, <2>1
<1>8. \A r \in Proc : ds[d][r] = p => r = q
  <2>1. p # NoProc
    BY NoProcAssumption
  <2> QED
    BY <1>4, <1>6, <1>7, <2>1 DEF Direction
<1>9. x.src = q /\ x.cid = c /\ x.gen = g /\ x.dir = d
  BY DEF Data
<1> HIDE DEF x, q, g
<1>10. Edge(prog, q, p, x)
  BY <1>2, <1>5, <1>6, <1>9 DEF Edge
<1>11. BeganAt(prog, x, m)
  BY <1>2, <1>9 DEF BeganAt
<1>12. inst[p][c].done # {"NEW"} => BegunUnder(p, x, RecvInfo(p, c)[d].dyn_commid)
  <2>1. inst[p][c].done # {"NEW"} => m < Len(prog.calls)
    BY <1>0, <1>2
  <2> QED
    BY <1>2, <1>6, <1>9, <1>11, <2>1 DEF BegunUnder
<1> QED
  BY <1>2, <1>3, <1>4, <1>5, <1>6, <1>8, <1>10, <1>11, <1>12 DEF x, q, g

\* Only one processor sends data in a direction in which p receives.
SendsTo(r, p, c, d) == prog.dirs[c][inst[p][c].gen][d][r] = p

LEMMA RecvOnly ==
  ASSUME LInv, OpenInv, NEW p \in Proc, NEW c \in Cid, inst[p][c].done # {},
         NEW d \in DOMAIN RecvInfo(p, c), NEW r \in Proc, SendsTo(r, p, c, d)
  PROVE  r = RecvInfo(p, c)[d].proc
BY RecvEdge DEF SendsTo

LEMMA RecvSource ==
  ASSUME LInv, OpenInv, NEW p \in Proc, NEW c \in Cid, inst[p][c].done # {},
         NEW d \in DOMAIN RecvInfo(p, c)
  PROVE  /\ RecvInfo(p, c)[d].proc \in Proc
         /\ RecvInfo(p, c)[d].proc = Source(p, prog.dirs[c][inst[p][c].gen], d)
         /\ RecvInfo(p, c)[d].area = c
BY RecvEdge

LEMMA GetPair ==
  ASSUME LInv, OpenInv, NEW p \in Proc, NEW c \in Cid, inst[p][c].done # {},
         NEW d \in DOMAIN RecvInfo(p, c), NEW q, q = RecvInfo(p, c)[d].proc,
         NEW M, NEW ch \in Seq(M), NEW i \in 1..Len(ch),
         ch[i].val = Data(q, c, inst[p][c].gen, d),
         NEW n, NEW iq, NEW out, NEW got, NEW got2,
         Grows(got, got2, c, d),
         PairOK(prog, n, q, p, iq, inst[p], out, got, ch)
  PROVE  PairOK(prog, n, q, p, iq, inst[p], out, got2,
                SubSeq(ch, 1, i - 1) \o SubSeq(ch, i + 1, Len(ch)))
<1> DEFINE x == Data(q, c, inst[p][c].gen, d)
           E == InFlight(prog, q, p, iq, inst[p], out, got)
           F == InFlight(prog, q, p, iq, inst[p], out, got2)
<1>1. x \in DataSet /\ Edge(prog, q, p, x)
  BY RecvEdge
<1>2. x.cid = c /\ x.gen = inst[p][c].gen /\ x.dir = d /\ ch[i].val = x
  BY DEF Data
<1>3. \A y \in DataSet : Edge(prog, q, p, y) /\ y # x =>
        (PendIn(inst[p][y.cid], y, got2[y.cid]) <=> PendIn(inst[p][y.cid], y, got[y.cid]))
  <2> SUFFICES ASSUME NEW y \in DataSet, Edge(prog, q, p, y), y # x
               PROVE  PendIn(inst[p][y.cid], y, got2[y.cid]) <=> PendIn(inst[p][y.cid], y, got[y.cid])
    OBVIOUS
  <2>1. y.cid \in Cid /\ y.src = x.src
    BY <1>1 DEF DataSet, Edge
  <2>2. y.cid = c /\ y.gen = inst[p][c].gen => y.dir # d
    BY <1>1, <1>2, <2>1, SameData
  <2> QED
    BY <2>1, <2>2 DEF PendIn, Grows
<1> HIDE DEF x
<1>4. ChanOK(prog, n, ch, E)
  BY DEF PairOK
<1>5. x \in E
  BY <1>2, <1>4 DEF ChanOK
<1>6. ~PendIn(inst[p][x.cid], x, got2[x.cid]) /\ SentIn(iq[x.cid], x, out[x.cid])
  <2>1. inst[p][c].gen \in Nat
    BY DEF LInv, CallsInv, CallsTypeOK
  <2> QED
    BY <1>2, <1>5, <2>1 DEF PendIn, InFlight, Grows
<1>7. F = E \ {x}
  BY <1>1, <1>3, <1>6 DEF InFlight
<1>8. NoneEarly(prog, q, p, iq, inst[p], out, got2)
  BY <1>3, <1>6 DEF PairOK, NoneEarly
<1> HIDE DEF E, F
<1>9. ChanOK(prog, n, SubSeq(ch, 1, i - 1) \o SubSeq(ch, i + 1, Len(ch)), E \ {ch[i].val})
  BY <1>4, ChanReceive
<1> QED
  BY <1>2, <1>7, <1>8, <1>9 DEF PairOK, F

\* The other neighbours of the receiver.
LEMMA GetOther ==
  ASSUME LInv, OpenInv, NEW p \in Proc, NEW c \in Cid, inst[p][c].done # {},
         NEW d \in DOMAIN RecvInfo(p, c),
         NEW r \in Proc, r # RecvInfo(p, c)[d].proc,
         NEW n \in Nat, NEW iq, NEW out, NEW got, NEW got2, NEW ch,
         Grows(got, got2, c, d),
         PairOK(prog, n, r, p, iq, inst[p], out, got, ch)
  PROVE  PairOK(prog, n, r, p, iq, inst[p], out, got2, ch)
<1> DEFINE q == RecvInfo(p, c)[d].proc
           x == Data(q, c, inst[p][c].gen, d)
<1>1. /\ x \in DataSet /\ x.src = q
      /\ \A b \in Proc : prog.dirs[c][inst[p][c].gen][d][b] = p => b = q
  <2>1. \A b \in Proc : prog.dirs[c][inst[p][c].gen][d][b] = p => b = q
    BY RecvOnly DEF SendsTo
  <2>0. x \in DataSet
    BY RecvEdge
  <2> HIDE DEF q
  <2>2. x.src = q
    BY DEF Data
  <2> QED
    BY <2>0, <2>1, <2>2
<1>2. \A y \in DataSet : Edge(prog, r, p, y) =>
        (PendIn(inst[p][y.cid], y, got2[y.cid]) <=> PendIn(inst[p][y.cid], y, got[y.cid]))
  <2> SUFFICES ASSUME NEW y \in DataSet, Edge(prog, r, p, y)
               PROVE  PendIn(inst[p][y.cid], y, got2[y.cid]) <=> PendIn(inst[p][y.cid], y, got[y.cid])
    OBVIOUS
  <2>1. y.cid \in Cid /\ prog.dirs[y.cid][y.gen][y.dir][r] = p
    BY DEF DataSet, Edge
  <2>2. y.cid = c /\ y.gen = inst[p][c].gen => y.dir # d
    BY <1>1, <2>1
  <2> QED
    BY <2>1, <2>2 DEF PendIn, Grows
<1> QED
  BY <1>2, QuietPair
-----------------------------------------------------------------------------
\* The tags of the messages from the neighbour in direction d: those that have
\* the tag of the receive are its own message and messages after it.
LEMMA OwnTag ==
  ASSUME LInv, OpenInv, NEW p \in Proc, NEW c \in Cid,
         "NEW" \in inst[p][c].done, inst[p][c].done # {"NEW"}, "DN" \notin inst[p][c].done,
         NEW d \in DOMAIN RecvInfo(p, c), NEW q, q = RecvInfo(p, c)[d].proc,
         NEW x, x = Data(q, c, inst[p][c].gen, d),
         NEW t, t = RecvInfo(p, c)[d].dyn_commid,
         NEW ch, NEW out, NEW got, d \notin got[c],
         PairOK(prog, pos[q], q, p, inst[q], inst[p], out, got, ch)
  PROVE  FirstUnder(ch, x, t)
<1> DEFINE E == InFlight(prog, q, p, inst[q], inst[p], out, got)
<1>0. /\ CallsInv /\ prog \in Programs
      /\ inst[p][c].gen \in Nat
  BY DEF LInv, CallsInv, CallsTypeOK
<1>1. /\ x \in DataSet /\ q \in Proc /\ Edge(prog, q, p, x)
      /\ BegunUnder(p, x, t)
  BY RecvEdge
<1>2. PICK m \in 1..pos[p] : /\ BeganAt(prog, x, m) /\ m < Len(prog.calls)
                             /\ t = Tag(prog, m, x.dir)
  BY <1>1 DEF BegunUnder
<1>3. x.cid = c /\ x.gen = inst[p][c].gen /\ x.dir = d
  BY DEF Data
<1>4. ChanOK(prog, pos[q], ch, E) /\ \A y \in E : Edge(prog, q, p, y)
  BY DEF PairOK, InFlight
<1>5. ASSUME NEW y \in E, NEW l \in Nat, BeganAt(prog, y, l), l < m
      PROVE  OpenTo(prog, y.cid, l, m - 1)
  <2>1. y \in DataSet /\ PendIn(inst[p][y.cid], y, got[y.cid])
    BY DEF InFlight
  <2>2. l <= pos[p] /\ pos[p] \in Nat /\ m \in Nat /\ m <= pos[p]
    BY <1>0, <1>2, <1>5 DEF CallsInv, CallsTypeOK
  <2>3. OpenSince(p, y.cid, l)
    BY <1>5, <2>1, <2>2, OpenFrom DEF PendIn
  <2> QED
    BY <2>2, <2>3 DEF OpenSince, OpenTo
<1>6. x \in E \/ pos[q] < m \/ OpenTo(prog, x.cid, m, pos[q])
  <2>1. PendIn(inst[p][x.cid], x, got[x.cid])
    BY <1>3 DEF PendIn
  <2>2. CASE SentIn(inst[q][x.cid], x, out[x.cid])
    BY <1>1, <2>1, <2>2 DEF InFlight
  <2>3. CASE ~SentIn(inst[q][x.cid], x, out[x.cid])
    <3>1. inst[q][x.cid].gen \in Nat /\ pos[q] \in Nat /\ m \in Nat
      BY <1>0, <1>1, <1>3 DEF CallsInv, CallsTypeOK
    <3>2. \/ inst[q][x.cid].gen < x.gen
          \/ inst[q][x.cid].gen = x.gen /\ inst[q][x.cid].done # {}
      BY <1>0, <1>3, <2>3, <3>1 DEF SentIn
    <3>3. m <= pos[q] => OpenSince(q, x.cid, m)
      BY <1>1, <1>2, <3>2, OpenFrom
    <3>4. CASE m <= pos[q]
      BY <1>2, <3>1, <3>3, <3>4 DEF OpenSince, OpenTo
    <3> QED
      BY <3>1, <3>4
  <2> QED
    BY <2>2, <2>3
<1>7. ASSUME NEW j \in 1..Len(ch), ch[j].tag = t
      PROVE  ch[j].val = x \/ \E i \in 1..Len(ch) : i < j /\ ch[i].val = x
  <2>1. pos[q] \in Nat /\ pos[q] <= Len(prog.calls)
    BY <1>0, <1>1 DEF CallsInv, CallsTypeOK
  <2>2. ch[j].tag = Tag(prog, m, x.dir)
    BY <1>2, <1>7
  <2> HIDE DEF E
  <2>3. \A y \in E, l \in Nat : BeganAt(prog, y, l) /\ l < m => OpenTo(prog, y.cid, l, m - 1)
    BY <1>5
  <2> QED
    BY <1>0, <1>1, <1>2, <1>4, <1>6, <2>1, <2>2, <2>3, TagFinds, SMTT(30)
<1>8. ASSUME NEW j \in 1..Len(ch), ch[j].val = x PROVE ch[j].tag = t
  <2>1. PICK l \in 1..pos[q] : BeganAt(prog, ch[j].val, l) /\ ch[j].tag = Tag(prog, l, ch[j].val.dir)
    BY <1>4 DEF ChanOK
  <2>2. l = m
    BY <1>1, <1>2, <1>8, <2>1, OnePlace
  <2> QED
    BY <1>2, <1>8, <2>1, <2>2
<1> QED
  BY <1>7, <1>8 DEF FirstUnder

\* The first message of ch under tag t is at j.
FirstAt(ch, t, j) ==
  j \in 1..Len(ch) /\ ch[j].tag = t /\ \A i \in 1..(j - 1) : ch[i].tag # t

\* The first message with the tag of the receive is its own.
LEMMA FirstIsOwn ==
  ASSUME LInv, OpenInv, NEW p \in Proc, NEW c \in Cid,
         "NEW" \in inst[p][c].done, inst[p][c].done # {"NEW"}, "DN" \notin inst[p][c].done,
         NEW d \in DOMAIN RecvInfo(p, c), NEW q, q = RecvInfo(p, c)[d].proc,
         NEW ch, NEW out, NEW got, d \notin got[c],
         PairOK(prog, pos[q], q, p, inst[q], inst[p], out, got, ch),
         NEW j \in 1..Len(ch), FirstAt(ch, RecvInfo(p, c)[d].dyn_commid, j)
  PROVE  /\ ch[j].val = Data(q, c, inst[p][c].gen, d)
         /\ SentIn(inst[q][c], ch[j].val, out[c])
<1> DEFINE x == Data(q, c, inst[p][c].gen, d)
           t == RecvInfo(p, c)[d].dyn_commid
<1>1. FirstUnder(ch, x, t)
  BY OwnTag
<1>2. x.cid = c
  BY DEF Data
<1>0. FirstAt(ch, t, j)
  OBVIOUS
<1> HIDE DEF x, t
<1>3. ch[j].val = x
  <2>1. \A k \in 1..Len(ch) : k < j => k \in 1..(j - 1)
    BY <1>0 DEF FirstAt
  <2> QED
    BY <1>1, <1>0, <2>1 DEF FirstAt, FirstUnder
<1>4. ch[j].val \in InFlight(prog, q, p, inst[q], inst[p], out, got)
  BY <1>0 DEF PairOK, ChanOK, FirstAt
<1>5. SentIn(inst[q][c], ch[j].val, out[c])
  BY <1>2, <1>3, <1>4 DEF InFlight
<1> QED
  BY <1>3, <1>5 DEF x

\* When its own message is in flight, there is a first one with its tag.
LEMMA OwnIsFirst ==
  ASSUME LInv, OpenInv, NEW p \in Proc, NEW c \in Cid,
         "NEW" \in inst[p][c].done, inst[p][c].done # {"NEW"}, "DN" \notin inst[p][c].done,
         NEW d \in DOMAIN RecvInfo(p, c), NEW q, q = RecvInfo(p, c)[d].proc,
         NEW ch, NEW out, NEW got, d \notin got[c],
         PairOK(prog, pos[q], q, p, inst[q], inst[p], out, got, ch),
         SentIn(inst[q][c], Data(q, c, inst[p][c].gen, d), out[c])
  PROVE  \E j : FirstAt(ch, RecvInfo(p, c)[d].dyn_commid, j)
<1> DEFINE x == Data(q, c, inst[p][c].gen, d)
           t == RecvInfo(p, c)[d].dyn_commid
<1>1. FirstUnder(ch, x, t)
  BY OwnTag
<1>2. x.cid = c /\ x.gen = inst[p][c].gen /\ x.dir = d
  BY DEF Data
<1>3. x \in InFlight(prog, q, p, inst[q], inst[p], out, got)
  <2>1. x \in DataSet /\ Edge(prog, q, p, x)
    BY RecvEdge
  <2> HIDE DEF x
  <2>2. SentIn(inst[q][x.cid], x, out[x.cid]) /\ PendIn(inst[p][x.cid], x, got[x.cid])
    BY <1>2 DEF PendIn, x
  <2> QED
    BY <2>1, <2>2 DEF InFlight
<1> HIDE DEF x, t
<1>4. PICK j \in 1..Len(ch) : ch[j].val = x
  BY <1>3 DEF PairOK, ChanOK
<1>5. \A i, k \in 1..Len(ch) : ch[i].val = ch[k].val => i = k
  BY DEF PairOK, ChanOK
<1>6. \A i \in 1..(j - 1) : ch[i].tag # t
  <2> SUFFICES ASSUME NEW i \in 1..(j - 1), ch[i].tag = t PROVE FALSE
    OBVIOUS
  <2>1. i \in 1..Len(ch) /\ i < j
    OBVIOUS
  <2>2. PICK k \in 1..Len(ch) : k <= i /\ ch[k].val = x
    BY <1>1, <2>1 DEF FirstUnder
  <2>3. k = j
    BY <1>4, <1>5, <2>2
  <2> QED
    BY <2>1, <2>2, <2>3
<1>7. ch[j].tag = t
  BY <1>1, <1>4 DEF FirstUnder
<1> QED
  BY <1>6, <1>7 DEF t, FirstAt

-----------------------------------------------------------------------------
\* What is done stays what the place says.
LEMMA StepDone ==
  ASSUME LInv, DoneInv, NEW p \in Proc, BankStep(p)
  PROVE  DoneInv'
<1>1. PlaceInv
  BY DEF LInv, PlaceInv
<1>2. \/ \E c \in Cid, o \in Op : Return(p, o, c)
      \/ \E o \in LoopOp : Pass(p, o)
      \/ SkipTile(p)
      \/ UNCHANGED callVars
  BY DEF BankStep, LoopInit, LoopPost, LoopOp, Op
<1> QED
  BY <1>1, <1>2, PlaceStep DEF PlaceInv

\* A processor in DN awaits each one that has yet to send it data.
LEMMA Behind ==
  ASSUME LInv, DoneInv, NEW p \in Proc, NEW q \in Proc, NEW c \in Cid, At(p, "DN", c),
         NEW x, Edge(prog, q, p, x), x.cid = c, x.gen = inst[p][c].gen,
         NEW D, ~SentIn(inst[q][c], x, D)
  PROVE  Undone(AwaitsSR(prog, p, pos[p] + 1), q)
<1>1. x.dir \in Edges(q, p, c, inst[p][c].gen)
  BY DEF Edge, Edges
<1>2. /\ ~(inst[q][c].gen > inst[p][c].gen)
      /\ inst[q][c].gen = inst[p][c].gen =>
           inst[q][c].done # {} /\ "SR" \notin inst[q][c].done
  BY DEF SentIn
<1>3. PlaceInv
  BY DEF LInv, PlaceInv
<1> QED
  BY <1>1, <1>2, <1>3, YetToSend

-----------------------------------------------------------------------------
\* The directions in which a processor sends and receives are those of the
\* program.
LEMMA EdgeInfo ==
  ASSUME LInv, OpenInv, NEW p \in Proc, NEW x \in DataSet, inst[p][x.cid].done # {},
         x.gen = inst[p][x.cid].gen
  PROVE  /\ \A r \in Proc : Edge(prog, p, r, x) => x.dir \in DOMAIN SendInfo(p, x.cid)
         /\ \A q \in Proc : Edge(prog, q, p, x) => x.dir \in DOMAIN RecvInfo(p, x.cid)
<1>1. x.cid \in Cid
  BY DEF DataSet
<1>2. PICK m \in Nat : OpenSince(p, x.cid, m) /\ InfoOf(p, x.cid, m)
  BY <1>1 DEF OpenInv
<1> DEFINE ds == prog.dirs[x.cid][x.gen]
<1>3. DOMAIN SendInfo(p, x.cid) = SendDirs(p, ds) /\ DOMAIN RecvInfo(p, x.cid) = RecvDirs(p, ds)
  BY <1>2 DEF OpenSince, InfoOf
<1> QED
  BY <1>3, NoProcAssumption DEF SendDirs, RecvDirs, Edge

\* What the descriptor of an open communication says is what the program says.
LEMMA OpenDirs ==
  ASSUME OpenInv, NEW p \in Proc, NEW c \in Cid, inst[p][c].done # {}
  PROVE  LET ds == prog.dirs[c][inst[p][c].gen] IN
         /\ DOMAIN SendInfo(p, c) = SendDirs(p, ds)
         /\ DOMAIN RecvInfo(p, c) = RecvDirs(p, ds)
<1>1. PICK m \in Nat : OpenSince(p, c, m) /\ InfoOf(p, c, m)
  BY DEF OpenInv
<1> QED
  BY <1>1 DEF OpenSince, InfoOf

\* A step leaves a communication that is open its descriptor, until OLD
\* has returned from it.
LEMMA OpenKept ==
  ASSUME LInv, NEW p \in Proc, BankStep(p), NEW e \in Cid, inst[p][e].done # {}
  PROVE  handle'[p][e] = handle[p][e] /\ RecvInfo(p, e)' = RecvInfo(p, e)
<1>0. CallsInv /\ BankInv
  BY DEF LInv
<1>1. CASE \E c \in Cid : Return(p, "NEW", c) /\ NewDescriptor(p, c)
  <2>1. PICK c \in Cid : Return(p, "NEW", c) /\ NewDescriptor(p, c)
    BY <1>1
  <2>2. inst[p][c].done = {} /\ e # c
    BY <1>0, <2>1, NewClosed DEF Return
  <2> DEFINE s == freelist[p][Len(freelist[p])]
  <2>3. s \in Slot /\ ~Held(p, s)
    <3>1. freelist[p] # <<>> /\ freelist[p] \in Seq(Slot)
      BY <1>0, <2>2, NotEmpty DEF BankInv, BankTypeOK
    <3>2. s \in Slot /\ Len(freelist[p]) \in 1..Len(freelist[p])
      BY <3>1
    <3> QED
      BY <1>0, <3>2 DEF BankInv, Owned, Free
  <2>4. handle'[p][e] = handle[p][e]
    BY <1>0, <2>1, <2>2 DEF NewDescriptor, BankInv, BankTypeOK
  <2>5. CASE handle[p][e] = NoHandle
    BY <2>4, <2>5 DEF RecvInfo
  <2>6. CASE handle[p][e] # NoHandle
    <3>1. handle[p][e] \in Slot /\ handle[p][e] # s
      BY <1>0, <2>3, <2>6 DEF BankInv, BankTypeOK, Held, InUse
    <3> DEFINE h == handle[p][e]
    <3>2. commbank' = commbank \/ \E v : commbank' = [commbank EXCEPT ![p][s] = v]
      BY <2>1, Zenon DEF NewDescriptor
    <3>3. DOMAIN commbank = Proc /\ DOMAIN commbank[p] = Slot
      BY <1>0 DEF BankInv, BankTypeOK
    <3> HIDE DEF s
    <3>4. commbank'[p][h] = commbank[p][h]
      BY <3>1, <3>2, <3>3
    <3> QED
      BY <2>4, <3>4 DEF RecvInfo
  <2> QED
    BY <2>5, <2>6
<1>2. CASE UNCHANGED <<commbank, handle>>
  BY <1>2 DEF RecvInfo
<1> QED
  BY <1>1, <1>2 DEF BankStep, OldDescriptor, LoopInit, LoopPost, bankVars

\* Ghost areas change one at a time.
IsGhost(f) == \E S : f \in [Proc -> [Cid -> [1..MaxDirs -> S]]]
Changed(f, g, p, c, d, v) == g = [f EXCEPT ![p][c][d] = v]
OneChanged(f, g, p, c, d, v) ==
  \A r \in Proc, e \in Cid, b \in 1..MaxDirs :
    g[r][e][b] = IF r = p /\ e = c /\ b = d THEN v ELSE f[r][e][b]

LEMMA GhostChange ==
  ASSUME NEW f, NEW g, IsGhost(f), NEW p \in Proc, NEW c \in Cid, NEW d \in 1..MaxDirs, NEW v,
         Changed(f, g, p, c, d, v)
  PROVE  OneChanged(f, g, p, c, d, v)
BY DEF Changed, IsGhost, OneChanged
=============================================================================
