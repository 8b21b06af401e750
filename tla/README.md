# Models and proofs of the ZPL runtime and compiler

ZPL is a data-parallel array language. Its compiler turns a program into one C
program that every processor runs; the processors own blocks of the arrays and
exchange the borders of the blocks, the *ghost areas*, through a small
interface called IRONMAN. This directory models the parts of ZPL in which
several parties act at once, or in which a long sequence of legal steps can go
wrong: the interface and its implementations over three communication
libraries; the layer above it, in which processors work out alone what they will
exchange; the turns they take to read and write arrays; and the compiler passes
that place the calls of a communication and give it its id.

Paths below are relative to the root of the repository (`src/...` is the
runtime, `comp/...` the compiler, `include/...` the headers of the runtime).

## 1. Inventory

### Runtime (`src/`, `include/`)

| Component | State | Operations | Interacts with | Hard | Correct when |
|---|---|---|---|---|---|
| IRONMAN interface (`include/ironman.h`) | none of its own | NEW, DR, SR, (SV), DN, OLD | called by `at_comm.c`, `wrap.c`, `reflect.c` | all processors make the same calls at their own pace, and the calls of several communications interleave | after DN the ghost areas hold what the neighbours sent for this instance, until the next DR |
| over MPI (`src/mpi/mpi_ironman.c`, `mpi_commid.c`) | bank of descriptors and free list, requests, dynamic ids | the five calls | MPI | sends that block, receives that complete in any order, tags that start again, buffers freed by OLD | implements the interface; no cyclic wait; tags of open receives differ |
| over PVM (`src/pvm/pvm_ironman.c`, `pvm_commid.c`) | bank, dynamic ids | the five calls, DR empty | PVM | messages arrive long before they are asked for | implements the interface; no message left behind |
| over SHMEM (`src/shmem/shmem_ironman.c`) | bank, flags and addresses that others write to | the five calls | one-sided puts | puts arrive late and out of order between fences, flags are reused, one counter serves three passes | implements the interface; no signal lost; addresses are current |
| @ communication (`src/at_comm.c`) | pairs of descriptions by static id, tables of useful sides by grid and direction, flags of local copies | `_AtComm_New` .. `_AtComm_Old` | generated code above, IRONMAN below | sender and receiver compute by different formulas, with strides, corners, wraps and short blocks; local copies are made by the later of DR and SR; all processors must call IRONMAN alike | what is sent is what is received, and every shifted read finds its element |
| packing (`src/ironman_utils.c`) | none | pack, marshal, unmarshal | IRONMAN, `at_comm.c` | packs in place | packed description covers the same elements in the same order |
| wrap, reflect (`src/wrap.c`, `src/reflect.c`) | handle by id | two halves of one communication | IRONMAN | uses the same ids as @ communication | as for IRONMAN |
| tokens (`src/token.c`, `src/*/..._token.c`) | a flag and a value | send, receive, reset | file I/O, scans | value and flag are separate puts over SHMEM | processors act in order, each with the value of the one before |
| reading and writing arrays (`src/file_io.c`, `file_io_ens.c`) | a file with a position and a buffer on every processor | open, close, stream an array as text or binary | tokens, broadcast, barrier | the turn follows the elements over processors, some of which have none; what one has not flushed another may write over | one processor at a time; the file is in row-major order |
| barriers, signals (`src/shmem/shmem_{barrier,bibarrier,synch}.c`) | two flags for each pair | start, finish | SHMEM parts | the next barrier is entered before the neighbour left this one | nobody leaves before its neighbour entered |
| broadcast, scan, reduction (`src/broadcast.c`, `src/scanred*.c`, `src/*/..._bcast.c`, `..._scanred*.c`) | tree neighbours, buffers | broadcast in a slice, combine along a dimension | dynamic ids | processors outside the slice draw ids, too | everyone gets the combined value; ids stay in step |
| permute (`src/permute.c`, `src/*/..._permute.c`) | index maps, addresses, flags | exchange of indices, of data | SHMEM, MPI | all to all, flags reused | everyone's data arrives at the asked indices |
| grids, distributions, regions, ensembles | bounds and blocks | set up, queries | everything | none: sequential, alike everywhere | index arithmetic |
| dynamic regions, registry, sparse arrays, index lists, temporaries, memory | pointer structures | create, find, release | generated code | none: sequential | no dangling references |
| checkpoints, other file I/O, start, halt, configuration, timers, print servers | files, options, processes | - | operating system | order of output | - |

### Compiler (`comp/`)

| Component | State | Operations | Interacts with | Hard | Correct when |
|---|---|---|---|---|---|
| insertion of communication (`comp/comm/comm.c`) | pending uses, calls placed so far | place the six calls of a use, combine uses, resolve pending ones | dependence analysis before, `setcid` after | a table of relative positions for calls of different uses; combining and uncombining while calls are placed already | calls of each use in order, DN before the use, SR after the last write, SV before the next |
| motion of calls (`comp/opt/permcomm.c`) | the basic block | move statements towards or away from a call | dependences | - | dependences kept |
| static ids (`comp/interproc/setcid.c`, `tasklist.c`) | table of ids, worklist, lower bound of each function | give every communication its id | `Irongen.c` writes the ids, `at_comm.c` indexes by them | ids are reused, communications stay open across calls, functions are handled again and again | communications open at the same time have different ids |
| pipelined loops (`comp/transform/mscan.c`, `include/mscan.h`) | dynamic id before the loop | saves the dynamic id before the tiles, sets it back after each | dynamic ids | processors have different numbers of tiles, and draw the ids of a tile again for the next | ids in step after the loop; messages of a tile not taken for those of another |
| code generation (`comp/ccodegen`, `comp/runtime`, `comp/checkpoint`) | output file | writes C | runtime interface | - | - |
| front end (`comp/parse`, `symbol`, `type`, `statement`) | trees, tables | - | everything | generated parser | - |
| call graph and interprocedural analyses (`comp/interproc`) | sets for each function | fixed points | passes | termination | conservative sets |
| dependences, optimisations, transformations (`comp/graph`, `opt`, `transform`, `temps`, `iregion`) | trees | rewriting | - | - | meaning preserved |
| driver and utilities (`comp/main`, `util`, `adt`, `traverse`, `debug`) | options | - | - | - | - |

`PROJECT.json` lists the same components with their files and says of each
whether it is modelled, and the hazards, each at its line.

## 2. Plan

Done, in this order:

1. `IronmanCalls`, `Ironman`: the callers and the abstract specification of the
   interface, with the freshness of ghost data proved.
2. `IronmanBank` with `IronmanMPI` and `IronmanPVM`, `IronmanSHMEM`: the three
   implementations, each checked to refine `Ironman`.
3. `SetCid`: the pass that assigns static ids, with its safety across one call, and
   across chains of calls as far as it holds, proved.
4. `Blocks`, `AtRect`, `AtComm`: index arithmetic of distributions and regions,
   the rectangles that are exchanged, and the layer of `at_comm.c` over the
   promise of `Ironman`.
5. `Stream`: files with tokens over MPI and SHMEM.
6. `CommInsert`: where the compiler puts the calls, whose result `IronmanCalls`
   takes as given.
7. Proofs about the implementations: over MPI and PVM typing, the ownership of
   descriptors, that all processors draw the same ids, that there is no cycle of waits
   in programs that make none themselves, and that every step is one of `Ironman` or a
   stutter; over MPI that nothing is
   received into a freed buffer and that tags of open receives differ; over PVM that no
   message is left behind; over SHMEM typing, the ownership of descriptors and what
   the counters count, and, for programs whose tiles leave the free list as they find
   it (section 3), that descriptors mean the same at both ends, that data is stored at
   current addresses, that no signal is lost, that there is no cycle of waits (for the
   same programs as over MPI and PVM), and that every step is one of `Ironman` or a stutter.
8. A proof about the arithmetic of `Blocks`: the blocks partition every region.

To do:

9. `BiBarrier`: the SHMEM flags of pairwise barriers, refining an abstract
   barrier.
10. `ImuPack`: packing as operators, checked against a reference by TLC.
11. `ScanTree`, broadcast and permute: trees and exchanges, with dynamic ids in
   step.
12. Proofs: the turns of `Stream`; that the rectangles of `AtRect` pair up; the
   barriers.

How the modules depend on each other: `IronmanMPI` and `IronmanPVM` extend
`IronmanBank`, which like `IronmanSHMEM` and `Ironman` extends `IronmanCalls`, and each
of the three instantiates `Ironman` as its abstraction. `IronmanSHMEMLink` extends
`IronmanSHMEM` with the parts of its inductive invariant. `AtComm` extends `AtRect`,
which like `Stream` extends `Blocks`. `CommInsert` and `SetCid` stand alone, joined to
the others by what they promise: the calls of an id in order (`CommInsert`, assumed
by `IronmanCalls`), ids that differ while open (`SetCid`), directions that pair up
(`AtComm!SendsMatchReceives`, assumed by `IronmanCalls`), and data that has arrived
when DN returns (`Ironman`, assumed by `AtComm` and `CommInsert`).

## 3. IRONMAN: modules and code

`IronmanCalls` models what is above the interface. A *program* is a sequence of
calls `<<op, id>>` and, for every instance of a communication, its directions: a
direction says who sends to whom, a partial injection without edges from a
processor to itself (`at_comm.c` copies those locally). `pos[p]` is how far
processor `p` has come, `inst[p][c]` the instance of id `c` it is in and the calls
it has returned from in that instance. All processors run the same program; each
steps through it alone.

The calls for one id come in the partial order `Required`: NEW, DR, then SR and
DN, then OLD. `comp/comm/comm.c` (`insert_from_info`) emits SR before DN, except in
a pipelined loop, where a processor needs the data of the one before it in the
wave to compute what it sends on, and DN comes first. Between ids any
interleaving is possible. `IM_SV` is a macro that expands to nothing in all
implementations and is left out.

A pipelined loop works tile by tile. INIT stands for `_MSCAN_INIT` before the
tiles, POST for `_MSCAN_POST` after each. A processor whose block has fewer tiles
than those of others has no neighbour in the tiles it lacks, and goes past their
calls (`SkipTile`): if it is not in a communication that begins there, it counts
the instances and goes on after the POST. The calls of a communication are placed in
one basic block, so all calls in a tile are of instances that begin and end in it
(`TilesAssumption`). And every program makes each call of an instance once, in the
order above (`OrderAssumption`).

`Ironman` says what the interface promises. `ghost[p][c][d]` is the content of a
ghost area, as the identity of what was sent: source, id, instance, direction.
Data may arrive from the sender's SR on, and between the receiver's DR and DN.

`IronmanBank` has what MPI and PVM share: `freelist` and `commbank` of descriptors,
`handle` as `at_comm.c` keeps it, `dyncommid` drawn once for every direction, and
`dcid`, to which a pipelined loop sets it back after each tile. `IronmanMPI` adds
`recvreq` (requests) and `net` (messages under way, each possibly of a sender that
waits for its receive: `MPI_Send` may or may not buffer). Messages of one sender
with one tag do not overtake each other, those with other tags may be received
first; requests complete in any order. `IronmanPVM` has `net` only, as `pvm_send`
returns at once and `pvm_recv` takes the oldest message with its tag. `IronmanSHMEM`
has the flags REMMEMREADY, REMMEMWRITABLE, DSTREADY and PUTDONE, the addresses
REMMEM, COUNTER, and `puts`: for every pair of processors a sequence of batches
separated by fences, within which puts arrive in any order.

A call that works through its directions is several actions (`SRSend`.. and
`SRReturn`), with `step[p]` the directions done; a call that reads and writes
only its own memory, or adds to a queue, is one.

| Module | Code |
|---|---|
| `IronmanBank!NewDescriptor`, `OldDescriptor` | `IM_New`, `IM_Old` of MPI and PVM |
| `IronmanBank!GetDynamicCommID` | `_GetDynamicCommID` |
| `IronmanBank!LoopInit`, `LoopPost` | `_MSCAN_INIT`, `_MSCAN_POST`, `_SetDynamicCommID` |
| `IronmanCalls!SkipTile` | the loop bounds `gen_mloop_rec_outer` writes |
| `IronmanMPI!DR`, `SRSend`, `DNWait`, `Match` | `MPI_Irecv`, `MPI_Send`, `MPI_Waitany`, matching inside MPI |
| `IronmanPVM!SRSend`, `DNRecv` | `pvm_send`, `pvm_recv` |
| `IronmanSHMEM!New`, `DR`, `SRAddr`, `SRPut`, `SRReturn`, `DN`, `Old` | the loops of `shmem_ironman.c` |
| `IronmanSHMEM!Deliver` | a put that reaches remote memory |

### What the runs show

| Run | Question |
|---|---|
| `spec` | Is the interface specification what its users need? `Fresh`: from DN to the next DR each ghost area holds what the neighbour sent at the SR of the same instance. With fairness every call returns (`Completes`). |
| `mpi`, `pvm`, `shmem` | Does each implementation refine the interface (`Refines`), for two communications in one program, and with a second instance of one of them, with other neighbours, and in pipelined loops, so that descriptors, flags, addresses and tags are used again? All: there is no cycle of waits (`NoCycleOfWaits`): of any processors still running, one waits neither for another of them nor for one that has finished, where waiting for what is under way does not count. MPI: descriptors in one hand only (`DescriptorsOwned`), no outstanding receive into a freed buffer (`NoReceiveIntoFreed`), processors draw the same ids (`IdsInLockstep`), tags of open receives differ (`TagsDistinct`). PVM: `NoMessageLeft`, and `Completes`. SHMEM: `NoSignalLost`, data is stored at the addresses of the right instance (`AddressesCurrent`) and descriptors mean the same everywhere (`SameDescriptor`). |
| `mpi_three`, `shmem_three` | Every call returns on three processors, in rings, chains and waves (`Completes`). |

`NoCycleOfWaits` is about the implementation and presumes something of the program.
A pipelined loop calls DN before SR, and in a wave that runs round a ring each
processor would wait in DN for the SR of the one before it, over any library; so would
two communications whose waves cross, each DN before the SR of the other. Nothing in
IRONMAN excludes such programs, and they do end in a cycle of waits in the models.
`Runnable` says that a program is not of this kind: wherever the processors are in it,
one of those that have a call left awaits nothing that the others have yet to do. What a
call awaits is read off the program: in DN the SRs of those that send to it
(`AwaitsSR`); where the sender waits for its receivers, over MPI and SHMEM, in SR their
DRs (`AwaitsDR`); and over SHMEM in NEW the OLDs, by its first source, of instances that
had the same descriptor (`AwaitsOLD`). A program without pipelined loops (`Plain`) makes no
cycle; this is proved. The waves of the runs are chains, and TLC evaluates that all
programs of the runs are `Runnable` (`RunnableAssumption`).

Bounds. Two processors are enough for one to be ahead of its neighbour by any number
of calls; three are needed for cycles of waits that are not pairs. Two ids
interleave in every order (252 merges in `spec`, `mpi` and `pvm`; five of them for
SHMEM, chosen to nest, straddle and alternate), and six merges put the two instances
of one id before, after, around and astride the other id. One direction both ways,
two directions to the same neighbour, neighbours on one side only and no neighbour
at all occur. A pipelined loop of two tiles comes before the other communication or
inside it, its second tile on all processors or on none that has a neighbour, and
one tile may need two communications; on three processors a wave passes twice. Over
MPI and PVM a tile with two communications may also be missing on some processors.
Over SHMEM that goes wrong in the model, as it must in the code: the OLDs of a tile
come in the order of its NEWs, so the free list, which is a stack, is permuted by the
tile; a processor that lacks the tile keeps the old order; and the next communication
has different descriptors at its two ends (`SameDescriptor` fails). `_MSCAN_POST`
sets back dynamic ids, which SHMEM does not have, and not the free list. The
SHMEM runs leave this case out. `SkipsRestore` is the condition for it: the free list
is the same before and after a tile that some processor lacks. It holds of a tile with
one communication, and nothing in the compiler sees to it for one with more;
`RestoreAssumption` says, and TLC evaluates, that the programs of the SHMEM runs
satisfy it, and the theorems about pairs of processors over SHMEM have it as their
hypothesis. Four dynamic ids (11..14) make the ids start again within two instances. `EnoughIds`
keeps the number of ids drawn while a communication is open at or below the number
of ids: the code has at least 32756 of them (`src/mpi/mpi_commid.c:13`) and the
calls of one communication are in one basic block; without the assumption tags do
clash.

Fairness. `FairSpec` is weak fairness of each processor's steps, as the
operating system runs every process, and of `Match` and `Deliver`: MPI promises
progress, and SHMEM that a put arrives. PVM needs no more than its processors.
Busy-waiting loops are guards of actions: an iteration that finds its flag down
changes nothing.

Not in these models: sizes and contents of messages, the choice of the widest
put, buffers other than whether one is needed (`Consecutive`). A tile of a pipelined
loop is cut the same way on every processor, across the direction of the wave, so
that each has at most one neighbour on either side of it; where blocks are cut
into different numbers of tiles along the wave, sends and receives would pair up
only over several tiles.

## 4. Static ids: module and code

`SetCid` models the pass `setcid`. A function is the sequence of statements that
`SetCommIDInStmt` looks at: NEW, USE (DR, SR, DN, SV) and OLD of a communication,
TEMP for what takes an id and frees it at once (wrap, reflect, scan, reduction),
CALL. `commIDs` is the table of ids in use, a function on the ids that are not 0;
its array grows as far as needed, which is why the model has no size. `lo` is
`T_LO_COMMID`, `tasks` the list of `tasklist.c`, `iron` is `T_IRON_COMMID`.
Statements are in the order in which the pass meets them. That is program order but
for a pipelined loop: the statements before and after its body, where `comm.c` puts NEW
to OLD of the wave, are visited before the body (`comp/interproc/setcid.c:200-207`). So
for the pass, and for the properties below, the wave is over in the body.

| Action | Code |
|---|---|
| `GetTask`, `EndFunction` | `ProcessTasks`, `HandleFunction` |
| `New` | `C_NEW`, `C_WRAP_PRERECV`: `GetNewCommID` |
| `Use`, `Old` | `GetExistingCommID`, `FreeCommID` |
| `Temporary` | `GetNewCommID(-1)`, `FreeCommID(-1)` |
| `Call`, `TooHigh` | `AnnotateFunction` with `FindTopCommID`, and its internal error |

An `S_EXPR` statement is a TEMP for each scan or reduction and then its CALLs, as
the code takes `FindTopCommID` after the temporaries are free again.

### What the runs show

| Run | Question |
|---|---|
| `setcid` | All programs in which main calls f once or twice or calls f and g, f calls g or nothing, and g calls f or nothing, with none, one or two communications open at each call. When the pass is over a function never begins a communication under an id it holds (`OwnIds`) and never uses one that the function calling it holds at the call (`CalleesClear`). If every caller holds an id of its own at each of its calls, no function uses an id held anywhere up the chain of its callers (`ChainsClearIfHolding`). The pass gives up only on recursion (`GivesUpOnRecursion`), and it ends (`Ends`). |
| `setcid_chains` | `ChainsClear`, no function uses an id held anywhere up the chain of its callers, without the condition on callers: it is violated, see below. |

Bounds. `MaxLo` is 8 instead of 64, above what programs without recursion of this
size reach (at most five ids are held along a chain), and low enough for recursion
to reach it. Three functions give chains of two calls, a function called from two
places, and a function whose lower bound is raised after it was handled.

Fairness. `FairSpec` is weak fairness of the pass as a whole: it is one sequential
program.

### A disagreement

`setcid_chains` finds this. main holds id 0 and calls f; f holds nothing and calls
g. f gets the lower bound 1, but `FindTopCommID` (`comp/interproc/setcid.c:108`)
looks only at the table, which is empty while f is handled, and passes 0 to g. g
gives its communication id 0, and at run time its `_AtComm_New` overwrites
`COMM_HANDLE(0)` (`src/at_comm.c:1459`), which main still needs for its DN and OLD.
The pass relies on lower bounds that grow along chains of calls: it takes a
bound above 64 for infinite recursion (`comp/interproc/setcid.c:125`). Starting
the search of `FindTopCommID` at `startingpoint` at the least would restore that.

## 5. @ communication: modules and code

`Blocks` has the arithmetic of one dimension: the four kinds of distribution and
the owner of an index (`distribution.c`), the block of a region (`region.c`), and the
bounds of an array with ghost areas, which may wrap (`ensemble.c`). `AtRect` has the
cells to send and to receive on one side in one dimension, in the variants of
`at_comm.c` for each sign of the shift, with and without wrap. `AtComm` is the layer
itself. A scenario is a grid, distributions, arrays with their ghost areas,
statements with shifted references, and the calls that all processors make, each
at its own pace. WRITE stands for the computation that gives every element of an
array a new version; an element is known by array, index and version.

| `AtComm` | Code |
|---|---|
| `Dirptr`, `Vects`, `UsefulAt`, `UsefulWrap` | `_InitAtCommPerGrid`: the sides and corners a direction may have neighbours on |
| `FindRect`, `SetupCommInfo`, `MemInfo` | `_FindRect`, `_SetupCommInfo`, `_SetupDenseMemInfo` |
| `New` with `Hand`, `Given` | `_AtComm_New`: pairs with another processor go to IRONMAN (`im`), pairs with itself stay (`at`) |
| `DR`, `SR`, `LocalComm` | `_AtComm_DR`, `_AtComm_SR`: the later of the two copies |
| `DN`, `Old` | `_AtComm_DN`, `_AtComm_Old` |

IRONMAN is here what `Ironman` promises of it: the k-th description that a
processor sends in an instance is what the receiver's k-th asks for, in order for
each pair of processors (`net`), and it is there when DN returns.

### What the runs show

| Run | Question |
|---|---|
| `atcomm` | Every index of a region belongs to one processor, the one the runtime takes for its owner (`RegionPartitioned`). Processors in one instance give IRONMAN equally many pairs, and what one sends to another in the k-th pair the other receives in its k-th (`SendsMatchReceives`). From DN to OLD a processor finds every element it reads through a shift, as it was written last, and elements assigned through a shift are with their owners (`NeededPresent`). Whoever waits in DN waits for a processor that is behind, and in the end nothing is under way (`WaitsPointBackwards`). |
| `atcomm_wrap` | `SendsMatchReceives` for shifts downwards that wrap over a part of an array: it is violated, see below. |

Bounds. Two and three processors in a line, 1x2, 2x1 and 2x2 grids; blocks of two
to four indices, of unequal size or empty at the end, over all four kinds of
distribution; shifts by one, by as much as a block, in both directions at once, of
two arrays at once; statements over every second index; wraps; corners; an array
of one dimension on a grid of two; assignments through a shift; two instances that
follow each other and two that lie astride. Strided shifts are by less than the
stride or by multiples of it (the hazard at `src/at_comm.c:618` says why), shifts
downwards that wrap cover all of the array, distributions in two dimensions cover
the arrays on them. No shift reaches beyond the neighbouring block, which the
runtime does not support. `CHECK_DEADLOCK FALSE` is for the end of the program: the
last conjunct of `WaitsPointBackwards` and its first together say that nobody is
stuck before.

`ScenariosAssumption` says what a scenario must be: distributions as `_blkInit`,
`_cutSetup`, `_gooferSetup` and `_fourferSetup` leave them, with cuts in order and as
many blocks as the grid has processors in that dimension, and regions with positive
strides and no more dimensions than the grid.

Not in these models: sparse arrays, flooded dimensions, changes of grids and
distributions while the program runs, the layout of elements in memory (a block
description is the set of its cells, in row-major order).

### A disagreement

Of the four functions for wrapping shifts, `_ComputeSendNegCompWrap`
(`src/at_comm.c:882`) alone asks whether the end of the statement's region lies in
this block; the other three ask about an end of the array's region. With two
processors, distribution 1..4, an array over 1..3 and a statement over 1..2 that
reads it shifted by -1 with wrap, processor 0 expects cell 3 from processor 1, which
does not hold the end of the statement and sends nothing. Processor 0 waits in DN
for ever.

## 6. Files: module and code

`Stream` models `_StreamEnsembleTxt` and `_StreamEnsembleBin` with the tokens and
file positions they use. Every processor has the file open (`pos` is `file->pos`, `at`
the position of its FILE, `buf` what it wrote and did not flush). `pc[p]` is the place
in the call: `Start` waits for the turn, `Elem` handles one element, `Fell` decides
where the next one lies, `Pass` flushes and sends the token, `Done` and `Update`
broadcast the new position. `_zindex` and the dimensions that ended with the last
element (`felloff`) are as in the code. A token is a message whose send may wait for
its receiver (MPI, PVM), or two puts, value and flag, that arrive in any order
(SHMEM). A barrier counts arrivals.

`OneTurn`: one processor at most has the turn or a token on its way to it.
`InOrder`: what is in the file is in the place that row-major order gives it, with
its line ends; at the end all of it; and what is read is what was written in that
place. Deadlock is checked: every wait for a token, a broadcast or a barrier ends,
without fairness, in the sense that some processor can always move.

Bounds. Lines of two and three processors, 1x2, 2x1 and 2x2 grids, with regions that
leave out the first or last processors, with strides that leave out those between,
of one row, of one column and of one dimension on a grid of two. Two arrays follow
each other, so that a token left behind would be taken for the next. Files are
written and read again, as text twice, and as binary before text.

Two cases are left out of the scenarios because the code does not keep its promise
there: over SHMEM a file with a position, as the value of a token may come after its
flag (`src/shmem/shmem_token.c:23`); and on the standard output an array that lies
on one processor alone, which does not flush it, so that it comes after what others
write later (`src/file_io_ens.c:464`). Binary arrays with strides, sparse arrays,
images and formats are not modelled.

## 7. Insertion of communication: module and code

`CommInsert` models the walk of `comm.c` over one basic block, from its last
statement to its first. For each statement: `Phase1` places NEW and DR of what is
sent further down, if the statement reads one of its arrays; `Phase2Combine` places
SR of what is pending for an array the statement assigns to, with all that can be
combined with it; `Recvs` places its DN, SV and OLD; phase 3 takes up the shifted
reads of the statement, as a new use (`Phase3New`), as one that a pending use covers
(`Phase3Redundant`), or as one that was combined further down and must be taken
apart (`Phase3Uncombine`); `Phase4` records the definitions. `Resolve...` is
`resolve_pending`, at the top of the block and below a call of fixed position.
`uses` are the `use_info_struct`s that were allocated, linked by `next` as in the code.
`InsertBefore` and `InsertAfter` consult the placement table, which is given by the
sets `AfterGreater`, `AfterEqual` and `AfterSmaller`. An internal error of the compiler is a
phase of its own without a successor: a run that checks deadlock shows there is none.

The properties look at the finished block, and take from the code generator that
the arrays of NEW are what a communication carries. `FluffCurrent`: every shifted
read finds the version of the array that the program means, whenever between the
calls the data moves: a communication has brought it, whole and in order, and no
other may write an older version after it. `SourceStable`: nothing that is carried is
assigned to between SR and SV. `NoneSpansFixed`: no call of fixed position stands
between NEW and DN.

Bounds. All blocks of three statements over two arrays, each read once or not at
all, with all options for which combining is used together with the other two; all
blocks of three with two shifts or none of one array; blocks of four that combine two
arrays below and read them again above; combinations of three arrays; a call of
fixed position in second or third place. `copy_use_info` does not copy the kind of
shift, so what memory holds there decides whether uses are combined: both outcomes
are explored.

Some blocks are left out because the code goes wrong on them in the model; the
hazards at `comp/comm/comm.c:739` and `:1401` name them. `uncombine_comm` says that all
calls of a communication have one structure, and removes an entry from SR, DN, SV
and OLD, the one *after* the entry of the use, and none from NEW and DR, which the
code is generated from; and it leaves the chain of uses as it is. With two arrays
that does no harm. With three, `X := c@e + b@e; a := ..; X := a@e + b@e + c@e`, taken from
the bottom, ends in the internal error "Comm info NULL."; `c := b@e; a := ..; X := a@e +
b@e + c@e` gives a communication that carries c although c is assigned to between its
SR and SV; and `c := ..; X := c@e; c := b@e; a := ..; X := a@e + b@e + c@e` one that brings an old c
over the new one. Combining without removal of redundant communication, which only
flags in the pass file can ask for, brings old versions too. And a statement that
reads an array with a shift and assigns to it as well is no definition before which
its own communication ends.

Not modelled: shifts on the left (`lhscomm`), pipelined loops (`AT_PRIME`, whose calls
are placed around the loop at once), masks, dynamic regions.

## 8. Proofs

TLAPS checks eight modules. `IronmanCalls_proofs` has what is common to everything
about the callers; `Ironman_proofs` is about the interface; `IronmanBank_proofs` is
about descriptors, dynamic ids and tags, and stated for any implementation that does to
them what the action `BankStep` says, and then about messages, in terms
of what a sender has sent and a receiver has got, for MPI and PVM alike;
`IronmanMPI_proofs` and `IronmanPVM_proofs` show that those two are such
implementations, and add their own; `IronmanSHMEM_proofs` is about
SHMEM: its descriptors and counters, and what passes between two processors, in the
terms of `IronmanSHMEMLink`; `SetCid_proofs` is about static ids, and
`AtComm_proofs` about the blocks of distributions. The assumptions are the named
ASSUMEs of the modules: on programs (they are sequences of calls with directions that
are partial injections; the calls of an instance come once each and in order; tiles
contain whole instances; while a communication is open no more ids are drawn than
there are; bodies of functions are well formed), on scenarios (section 5), that
there is a descriptor for every static id, and that special values are not members of
the sets they stand beside. TLC evaluates all of them on the runs. No theorem bounds the
number of processors, ids, directions, functions, statements or messages.

**`Typing`, `Freshness`.** The invariant of `Ironman` is its types, that
the program is one of `Programs`, and `GenOK`, which relates `inst` to the
program: an instance a processor is in is one the program has; and `OrderOK`: a
processor that returned from a call has returned from those required before it.
Without it an instance could be past DN and before DR, and its DR would open
areas that `Fresh` says may be read. `Fresh` is
inductive together with these: `Needed` establishes it at DN, `Arrive` cannot
disturb it because it needs an open window, and NEW keeps the instance that is
held (`HeldGen`).

**`MPITyping`, `MPIDescriptors`, `PVMTyping`, `PVMDescriptors`.** `BankInv` says of
each processor that every descriptor is either on the free list, at one place, or
held by one open communication (`Owned`). With no more static ids than descriptors, a
communication that is not open leaves one free, by counting: if the list were empty
all descriptors would be held, by as many ids, and none would be left to begin
(`NotEmpty`). So NEW takes a descriptor that nobody holds, and OLD gives back one that
nobody else holds. Typing needs it too: what NEW takes from the list must exist.

**`MPINoReceiveIntoFreed`.** A request that is not null belongs to the holder of its
descriptor, which is past DR, before the end of DN, and has not yet unmarshalled that
direction (`RequestsOK`). The delicate step is the return of DN, which only
*counts* completed receives: that the count means all needs that `step` holds
directions of this call and no other (`StepOK`). OLD requires DN, so it frees a
descriptor without requests.

**`MPILockstep`, `PVMLockstep`.** Processors never talk about the ids they draw, so
the invariant gives the id in closed form: `LastId(prog, n)` is the id that starts from
`FirstId` and moves by as many as the NEWs before place n have directions, less those of
tiles that have ended (`Counted`; `Kept` for the id a loop goes back to). That is a
cardinality, so every action changes it by a lemma on finite sets (`CountNew`,
`CountPost`, ...) and no induction is needed. `CountSkip` is the case of a processor
that leaves out a tile: at its end nothing of the tile counts for anybody. The
arithmetic of ids that start again is `DrawTwice`.

**`MPITagsDistinct`.** `TagsInv` ties what an open communication receives to the place
of its NEW: the tag of direction d is the id of that place plus d. Take two
receives that are outstanding. If their NEWs are at one place, it is the same
communication, and two directions of it differ by less than a round (`TagsWithin`).
If one began later, the earlier one was open all the while, so it did not
begin in a tile that has ended since (`TilesAssumption`), and its ids still
count (`StillCounted`). The two ids then differ by some of those drawn between the two
NEWs, which are fewer than there are (`EnoughIdsAssumption`), and so are different
(`RoundsApart`, `TagsLater`). Both assumptions are needed: without them tags do clash.

**`PVMNoMessageLeft`, and messages over MPI and PVM.** What is under way from q to p must
be given by where the two are. `DoneInv` says first that the calls a processor has
made of an instance are a function of its place. `InFlight` is then the set of data that
by their places q has sent and p has not got, and `PairOK` says that the channel
holds one message for each member of that set and nothing else, each under the tag of
the place where its instance begins, and that nothing is got that was not sent
(`NoneEarly`). `NoMessageLeft` is a case of it. A send adds to both sides of this
equation (`SendPair`), a receive takes from both (`GetPair`), and returns from calls
leave both alone (`ReturnSent`, `ReturnPend`), NEW and OLD too, and a tile that is left
out (`SkipQuiet`). That a receive takes the *right* message is the heart of it: its tag
may be that of earlier or later instances, since ids start again. `ChanOK` says that
of two messages in a channel the instance of the later one was still open where that
of the earlier one began, if it began before. So an instance whose message stands before
one's own, under the same tag, would be open together with one's own, and then
their tags differ (`OwnTag`, from `TagsLater`); hence the first message under the tag of
a receive is its own (`FirstIsOwn`).

**`MPINoCycleOfWaits`, `PVMNoCycleOfWaits`.** Their hypothesis is that each program is
`Runnable` or `Plain` (section 3). The first step goes from what the library does to what the
program says: whoever waits for q awaits a call that q has yet to make (`WaitsAwait`,
`Undone`). In DN, a message of q that is not under way has by `PairOK` not been sent, so q
has not made the SR (`Behind`); if it is under way, it is first under its tag
(`OwnIsFirst`) and can be taken. Over MPI a processor may also wait in `MPI_Send`: `SyncOK`
says that the message it waits on belongs to the SR it is in, so its receiver has not got
it, and either has yet to make its DR or has posted a receive that finds this message
(`PostedTakes`). A call that q has yet to make stands after q's place (`NotYet`, from
`PlaceInv`, which ties instances to places). The second step is about programs: among any
processors S that are running one awaits nothing that others of S, or those that have
finished, have yet to do; take for the others the end of the program as their place
(`SomeoneFree`). And without pipelined loops each call awaits only calls that stand before
it, so the processor furthest behind waits for nobody (`PlainAwaits`, `BehindRuns`).

**`PVMRefines`, `MPIRefines`.** Each action maps to one of `Ironman` or leaves its state alone:
sends to `Send`, the return of SR to `SentAll`, the return of DN to `Needed`, other calls,
loops and tiles to `Local`. Data comes to its place at `DNRecv` over PVM, and over MPI at
`Match` if the ghost area is contiguous and at `DNWait` if it is not: this is `Arrive`, which
asks that the data be what the sender sent in the same instance and that the window be
open. The invariant for it is `GhostOK` over PVM. Over MPI it is `DataOK`: from DR to DN
there is a request for each direction that DN did not unmarshal, and a complete one
holds the neighbour's data of this instance. The return of DN counts; that the
count means *all* directions was needed for `MPINoReceiveIntoFreed` already. `Refines`
carries no fairness, so it says nothing of liveness.

**`SHMEMTyping`, `SHMEMDescriptors`, `SHMEMCounters`.** Over SHMEM typing is a matter of
counting: `COUNTER` indexes the flags and addresses of a neighbour, and the code never
resets it. NEW, DR and SR each count it through the directions of a neighbour, modulo
their number, and rely on finding it at 0. `SInv` says what the counters are at every
moment: all 0 for a free descriptor (`CountersOK`), and for the descriptor of an open
communication the numbers of its directions, with COUNTER at the number of those to
that neighbour that the SR in progress has sent (`Total`, `Out`), modulo all of them.
So it is back at 0 when SR returns (`StepSRReturn`), DR moves it through a full round
(`StepDR`), and OLD, which only forgets the numbers of directions, leaves a descriptor that
counts nothing (`StepOld`). This needs the ownership of descriptors, as two
communications with one descriptor would count on one counter; it is the argument of
`MPIDescriptors` again, for a bank in which NEW always takes a descriptor.

**`SHMEMSameDescriptor`.** Processors match descriptors by number and never talk about
them, so the free lists have to move in step. `BankAfter(pr)` is the free list and the
descriptors after each place of program pr, for a processor that makes all its
calls. `LockInv` says that every processor has the free list of its place, and the
descriptors of the communications open there. NEW and OLD do at every processor what
`BankNext` says (`LockNew`, `LockOld`). A processor that leaves out a tile keeps its list and goes
on at a place where the others have what the tile made of theirs: hence the hypothesis
`SkipsRestore`, without which the theorem is false (section 3). It is a condition on
programs alone: every program has it that has no pipelined loop, or none with a tile
that a processor may lack and in which two communications are open at once, and all
programs of the SHMEM runs have it. The theorems of the paragraph before do not need
it. Two processors in one instance of a communication then have the descriptor of the
place where it began (`SlotOf`). `BankAfter` is a recursive function; that it has its
values is shown for a least place (`BankIs`).

**`SHMEMAddressesCurrent`, `SHMEMNoSignalLost`.** The invariant `LinkInv` (module
`IronmanSHMEMLink`) looks at each receiver q, each sender p and each communication
from q's NEW to its DN (`Listens`). At each moment it is given by the places of the two which
signals are *due*: REMMEMREADY until p has taken its addresses, DSTREADY for each direction
from q's DR until p has stored the data, PUTDONE from p's SR until q's DN. `Flow` says
that a signal that is due is up or under way, not both and not twice, and that one that is
not due is neither (`Signal`); that addresses stand where p will look for them, or are
under way in an earlier batch than REMMEMREADY (`BlockOK`), and the same of data and
PUTDONE (`DataOK`): that is what the fences are for, and the only thing the proof
knows of the order of puts. `NoStray` says that nothing else is up or under way
from q to p, which is needed because descriptors are used again: a flag left over from
one communication would be taken for that of the next. `NotAhead` bounds how far the two
are apart: p cannot have taken addresses of an instance that q did not begin, nor have sent
what q did not open, and q cannot be past the DN of what p did not send. `AddrOK` says that an
address p holds is that of its own instance, and taken in the order of the directions.

`LinkInv` is inductive with the invariants above, one lemma for each action (`LinkNew` ..
`LinkOld`, `LinkDeliver`). An action of one processor changes what is between it and each
neighbour, and its effect differs for pairs in which it sends, in which it receives,
and of which it is no part (`EffectSends`, `EffectReceives`, `EffectThird`). Two
communications do not disturb each other because their descriptors, and so their flags
and addresses, differ at both ends (`Apart`). NEW opens a link, and may because
nothing of an older one is left (`FlowNew`); DR raises DSTREADY (`FlowOpens`); SR takes
flags and addresses (`FlowTaken`), stores data (`FlowPut`) and raises PUTDONE
(`FlowReturn`); DN closes it (`LinkDN`). A put that arrives moves something from under way to
up, in any order within its batch (`FlowLandsUp`, `FlowLandsDown`). `NoSignalLost` is a
case of `Signal`: what is under way is not up.

**`SHMEMNoCycleOfWaits`.** The second step is the same. In SR and DN the first follows from
`Flow`: the signal waited for is due unless the other processor has yet to make its DR, or
its SR (`ReceiverListens`, `SenderWaits`, `ReceiverWaits`). In NEW a
processor waits for REMMEMWRITABLE, which belongs to no link: it tells of the *last* use
of a descriptor, under whatever id. `WritableOK` says, for each pair and each descriptor,
that the flag is up or on its way unless there is a place behind the receiver
at which an instance began, under this descriptor and with this sender, whose OLD the sender
still has to make (`Unreleased`). OLD, which makes the last such place go away, sends the flag
(`OldReleases`), and NEW, which takes the flag, makes one (`LowersIt`); a sender that leaves
out a tile has no neighbours in it and made nothing go away (`StepReleases`). The receiver
holds the descriptor as free, so it is past the OLD of that instance itself (`OldBefore`): what
NEW awaits stands before it (`NewAwaits`).

**`SHMEMRefines`.** Data reaches its ghost area by a put that arrives: this is `Arrive` of
`Ironman`, by `DataOK` and `NotAhead` (`ArriveAbstract`). `SRPut` is `Send`, the return of SR is
`SentAll`, that of DN is `Needed`, since PUTDONE is up only when all data of the link has arrived;
what takes addresses, and a flag or an address that arrives, changes nothing there;
everything else is `Local`.

**`Partitioned`.** `region.c` computes the block of a processor from the ends of blocks and snaps
them to the stride of the region; `distribution.c` computes the owner of an index by a
division. The proof shows, for each kind of distribution, that an index has an owner
not below l exactly if it is not below `MyLo(l)`, and that `MyHi(l)` is just below
`MyLo(l + 1)` (`PlaceFrom`, `MyHiIs`: that is where the rounding of two formulas has to
agree, by lemmas on division). Snapping to the stride loses no index of the region
(`SnapUpLeast`, `SnapDnMost`). So a block is what its owner owns, in each dimension
(`MyBlockIs`) and in all (`BoxIs`).

**`SetCidTyping`, `OwnIdsAtEnd`, `CalleesClearAtEnd`, `ChainsClearAtEnd`,
`GivesUpAtCall`.** What the pass promises holds
only when it is over; on the way it is wrong for functions that wait to be
handled again. The invariant `IInv` says how much is right already: `Scanned(f)` is
all of f if it was handled under its present lower bound, what is before `at` if
it is being handled, and nothing if it waits in `tasks`. A scanned statement has an
id not below the lower bound the function was handled with, new for NEW and TEMP,
that of the NEW for the other calls; and the lower bound of the callee of a
scanned CALL is above what is held there. `TableOK` says that the table is exactly
what is open in the function being handled. Raising a lower bound leaves calls
right, and takes the callee's own statements out of what is scanned because the
callee then waits. At the end `tasks` is empty, so everything reached is scanned, and
`CalleesClear` follows: ids held at a call are below the callee's lower bound, and
its own are not. `ChainsClearIfHolding` goes further up: by induction on the length of
the chain, what is held in it is below the lower bound of the function it leads to
(`ChainBelow`). The step needs the condition that the caller holds an id of its own:
that id is not below the caller's lower bound, below which the rest of the chain is,
and below the callee's. `HeldAbove` is a recursive function, and that there is one with
its equation has to be shown first (`HeldAboveIs`), with the ids held in explicit
sequences of call sites. The prover cannot instantiate the library's induction
theorems, so both inductions are arguments about a least counterexample
(`LeastExists`). `GivesUpAtCall` says that the pass gives up only at a call where the
ids held pass the bound, so that the internal error of `GetExistingCommID` cannot
happen; it needs that every communication looked up is in the table (`ExistingId`).

Only model-checked: of `GivesUpOnRecursion` that the bound is passed only by recursion,
which is true of the programs of the run but not of a program that holds more than `MaxLo` ids without
it; the rest of `AtComm`, which is true of the scenarios of the run and not of all
(section 5); `Stream` and `CommInsert`; and everything under fairness
(`Completes`, `Ends`), which is beyond the prover.

## 9. Not modelled

Sections 1 and 2 say what and when; sections 5 to 7 what is left out of the parts
that are modelled. Of the parts without a place in the plan, the front end is
generated or sequential tree building, code generation writes text, sparse
regions are pointer structures that one processor uses alone, and options, timers
and output have no protocol of their own.
