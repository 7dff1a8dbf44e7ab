# A TLA+ verification of DreamCore

DreamCore is an out-of-order RV32IM processor that fetches, decodes and renames
four instructions a cycle, issues two and retires four. The repository holds two
implementations, a C++ model (`src/model/model/src`) and the RTL (`src/rtl`),
which is compared with the model trace by trace. The modules here are translated
from the C++ model: it is the reference of the two, and its stages and components
are the ones the RTL repeats. Paths below are relative to `src/model/model/src`.

## 1. The system

### How it runs

`top_source/main.cpp:1061-1123` is the processor's clock. A cycle calls the stages
**from the last to the first** - commit, write back, the execution units, issue,
register read, rename, decode, fetch - and hands the feedback of each to the ones
that run after it in the same cycle. Components that several stages use (alias table,
register file, reorder buffer, checkpoint buffer, store buffer, control registers)
have two kinds of operations: immediate ones, and `..._sync` ones, which only queue a
request; the requests are applied at the end of the cycle, in the order in which they
were queued. There is one thread. The concurrency is that of the pipeline: dozens of
instructions at different places, all of them reading state other stages are about to
change.

### Components

| component | state | operations | talks to |
|---|---|---|---|
| ring (`component/fifo.h`) | buffer, two pointers with stage bits, a saved read pointer | push, pop, flush, reset_pop_status | base class of every queue below |
| alias table (`rat.h`) | architectural register of each physical one; bitmaps valid, visible, commit | set_map, release_map, commit_map, restore_map, save, restore; the same `_sync` | rename, commit |
| register file (`regfile.h`) | value, data_valid | write, restore; `_sync` | write back, commit, register read |
| reorder buffer (`rob.h`) | ring of entries; the slot is the entry's identifier | push, pop, set_item, get_prev_id, flush | rename, commit; units name entries by identifier |
| checkpoint buffer (`checkpoint_buffer.h`) | ring of saved bitmaps and branch histories | push (fetch), set_item (rename), pop, flush (commit) | fetch, rename, commit |
| store buffer (`store_buffer.h`) | ring of stores, each committed or not | push_sync, get_feedback_value, run (drain, cut off, mark), sync | LSU, commit's feedback, bus; fence and fence.i wait for it |
| fetch (`pipeline/fetch.cpp`) | pc, jump_wait | a group per cycle; prediction; a wait for unpredicted jumps | predictor, checkpoint buffer, commit's feedback |
| decode (`decode.cpp`) | - | a table | two FIFOs |
| rename (`rename.cpp`) | - | a group per cycle, as much of it as there is room for | alias table, reorder buffer, checkpoint buffer |
| register read, issue (`readreg.cpp`, `issue.cpp`, `issue_queue.h`) | the issue queue, busy, the rest of a group | operands from four sources, selection, dispatch, wake-up, compression | every unit, write back |
| units (`execute/*.cpp`) | the LSU's busy and the store it holds | one result a cycle, the one after dispatch | write back; feedback to issue |
| write back (`wb.cpp`) | - | a result to the register file and to commit | register file, issue |
| commit (`commit.cpp`) | cur_state, rob_item_id, restore_rob_item_id, interrupt bookkeeping | retire, mispredict, exception, interrupt, walk back; takes results in | all |
| predictor (`branch_predictor.h`) | a global and several local histories, each as guessed and as retired; counters, target caches | predict, guess, mend, train | fetch, BRU, commit |
| return stack (`ras.h`, `stack.h`) | return addresses with counts, the last one popped; one copy, which a flush leaves as it is | push_addr, pop_addr | the predictor, for fetch |
| control registers, interrupts, timer (`csrfile.h`, `interrupt_interface.h`, `slave/clint.h`) | registers, pending and acknowledged causes, mtime | read, write_sync, pending, ack | CSR unit, commit, bus |
| bus, memory (`bus.h`, `slave/memory.h`) | bytes; queued writes | read, write_sync, sync | LSU, store buffer, fetch |

### What is hard in it

* *Undoing.* Renaming runs ahead of retirement. An exception or an interrupt undoes one
  entry per cycle from the youngest; a misprediction restores two bitmaps of a
  checkpoint taken long ago, while the registers it speaks of went on to be released,
  committed and written.
* *Order within a cycle.* Stages decide on the state at the beginning of the cycle,
  their requests meet at its end.
* *Identifiers.* Results, checkpoints and stores are matched with instructions by slot
  numbers, which are handed out again the cycle after a flush.
* *Things left behind.* The walk back does not give back checkpoint slots; a flush
  reaches a dozen queues, and must miss none.
* *Memory.* Stores are executed out of step with retirement, read by loads in between,
  and cut off by flushes in the very cycle some of them retire.
* *Traps.* The control registers are read by units and written at retirement, at the end of
  the cycle; an interrupt is decided cycles before the registers say so, on lines that go on
  changing.
* *Guesses.* Three stages write the guessed histories, in an order that is not that of the
  program.
* *Waiting.* fetch waits for jumps, the LSU for room, fence for an empty store buffer,
  all for the head of the reorder buffer.

`PROJECT.json` lists these hazards at their lines with the properties that watch them.
What makes each component correct:

| component | properties |
|---|---|
| ring | FIFO order, nothing lost or overwritten, announced room is real |
| alias table, rename, commit | one visible and one committed register per architectural register; registers neither lost nor given twice; a flush ends in the committed mapping; the committed mapping changes in program order |
| reorder and checkpoint buffer | a result reaches the entry it is for; live branches own their checkpoints |
| fetch | nothing of a wrong path retires; the wait for a jump ends; a fence.i is fetched when all before it is done; fetch is never stuck |
| LSU, store buffer | memory and loads as in a machine that runs one instruction at a time; retired stores drain |
| register read, issue, units | no operand announcement is missed, operands come from the right producer, an instruction is dispatched once, what must be alone is, memory operations stay in order, everything finishes |
| commit, control registers, interrupts | a program sees one instruction after the other, precise exceptions and interrupts; an enabled interrupt is taken |
| predictor | the history a branch is guessed with is the one its counter is trained with; the return stack forgets only its oldest calls |

## 2. The modules

    BoundedQueue <=refines= Fifo <- QueuesProofs
                             :  (the same ring, as a value)
    Rat <----- Renaming <----+--- RenamingProofs
     ^           ^refines   Ring
     |           |           ^
     +------- Pipeline ------+  <- PipelineProofs -> RingProofs
                             |
    SequentialMemory <=refines= StoreBuffer (over Ring) <- StoreBufferProofs -> RingProofs

    IssueList <=refines= IssueBuffer (over Ring) <- QueuesProofs -> RingProofs

    Issue <- IssueProofs -> RingProofs

    Hart <=refines= Core (both over Isa) <- CoreProofs

    LossyStack <=refines= ReturnStack <- BranchPredictor -> Predictor
                                               ^- PredictorProofs

**BoundedQueue, Fifo.** Fifo has the members of `fifo.h` as its variables and one action
per member function. `pop_status_save` is a variable set at Init, so both modes are
covered. In a registered queue (the two FIFOs of the front end) `is_full` compares with
the read pointer as it was when the cycle began; `flush` does not touch that copy, so
until `reset_pop_status` what the queue says of its room is about a queue that is gone.
BoundedQueue states what a client may rely on regardless: what was pushed comes out in
order, and what is announced as room can be pushed. The variable `flushed` records that
the producer that flushes pushes nothing more in that cycle, as `decode.cpp` and
`fetch.cpp` do.

**Rat.** A table value is a record of the class's members, with bitmaps as sets. Each
function of `rat.h` that changes the table is an operator, and its assertions are
collected in an operator with the suffix `_asserts`.

**Renaming** is the design of renaming without the pipeline: instructions are renamed one
at a time, results arrive in any order, the oldest retires, flushes undo. A checkpoint is
the set of visible registers after its branch (rename stores it as both bitmaps; see
Pipeline for how it gets there). The forced `data_valid` of a restore (`commit.cpp:819`)
is in `Mispredict`: the bits become the checkpoint, whatever they were.

**Ring** is `rob.h`, `checkpoint_buffer.h` and `store_buffer.h` as far as they are rings
whose slots are identifiers. A slot that is not in the queue holds `Dead`, so that a
read of it stands out.

**Pipeline** is the cycle: commit looks at up to COMMIT_WIDTH entries, queues its requests
and says whether it flushes; write back, rename, fetch run, or drop what they hold; the
queues are applied. Variables carry the source's names: `rat_q`, `reg_q`, `rob_q`, `cp_q`
are the `sync_request_q` of the four components, `port` is `wb_commit_port`, `feedback`
is `commit_feedback_pack`. One action is one iteration of a stage's loop. The
execution side is reduced to what these stages see of it: a renamed instruction is in
`inflight` until a unit answers, in any order. Fetch decides an instruction's kind when
it is fetched: a branch is born as one that will be found rightly or wrongly predicted;
`off_path` and the field `wrong` are history variables that say that an instruction was
fetched behind a wrongly predicted branch. They take part in no guard. `SyncedRat`,
`SyncedData`, `RefinedRob` map the machine to Renaming: the components with their queued
requests applied, and the entries with the answer that is on its way to them.

**StoreBuffer** is the store buffer with the two stages that fill and empty it. Loads and
stores reach the unit in program order, since issue lets a load or store go only when no older
one is left in the queue (`issue.cpp:1011-1025`), so that one queue stands between
rename and the unit. Memory is bytes, and forwarding is the byte
arithmetic of `get_feedback_value` with its two kinds of overlap. The other instructions
are there to retire, fail or turn out mispredicted between the stores.

**SequentialMemory** is the abstract machine: loads read what the youngest older stores
wrote, memory changes when a store retires. Stores behind which an instruction failed
are never asked for, since they will not retire.

**IssueBuffer, IssueList.** `issue_queue.h` is a ring from which elements leave anywhere.
`compress` is a fold of the two halves of its loop (`Visit`, `Advance`) with its local
variables as a record. IssueBuffer has the queue and its `sync_request_q`; `Sync` applies
the requests of a cycle after the pushes, which took effect at once. IssueList says what
the issue stage counts on: a list, in place updates, and members that are taken out
while the rest keeps its order. The unit test of the class never calls `compress`.

**Issue** is what lies between rename and write back, a cycle in four steps that follow
the order of the calls in `main.cpp:1066-1122`: `Commit` (or `Flush`), `Execute` (write
back and the units), `Run` (`issue.cpp`) and `ReadregRenameSync`. The queue is the list
that IssueBuffer implements. `Chosen` is the scan that fills `item_id_list`, `Sent` the loop
that dispatches, which may disagree with the scan and then loses instructions;
`Staying` the wake-up, `Entering` and `Enter` the input, with room as it was before
anything left. The flags `has_csr_op` and `has_mret_op` are left out, for the scan ends
when it would set them. An operand's value is the physical register whose present owner computed
it, or `Junk`: a register is `Junk` to the instruction it is given to until that writes
it. Commit and rename are reduced to what these stages see of them; a flush, with the cycles of
its walk back, is one step.

**Isa, Hart, Core.** What a program can see. Isa is a program as far as its order goes: a
function from program counters to instructions that store, fault, branch, read and write
control registers, return from a trap, or do nothing of interest. General registers are left
out, so that a branch goes any of its ways; one with an undefined funct3 has a single way, past it. Hart runs it one instruction after the other,
with exceptions at the instruction that raises them and interrupts between two; what is
peculiar to this processor is written there as it is: an exception leaves interrupts
enabled, mret keeps mpie. Core is fetch with its program counter, the two FIFOs with the
room they had when the cycle began, the reorder buffer, commit with the whole of its two
walk backs, the control registers as the units read them (`csr`) and with the writes queued
in this cycle (`csr_next`), and the interrupt lines. A cycle is the phase "commit", one
action per iteration of commit's loop, and the phase "stages", one action. Pipeline and Issue
are a delay there: an instruction is issued and finishes after any number of cycles, in the
order Issue was shown to keep (`MayIssue`, `RoomFor`). `arch` and `last` are history variables: the
program counter of the next instruction to retire and of the last one that did. They make
the refinement: Hart's pc is `arch`, its registers are `csr_next`, and each of its
steps is one retirement or one entry of a handler.

**Predictor** is the histories of `branch_predictor.h` with the three stages that write them.
What a counter or a target cache answers is left open, so that any guess may be made.
Branches are resolved in any order. The ghosts `upset` and `upset_local` name the cases
in which the code leaves a guessed history wrong until the next misprediction of a
conditional branch: branches dropped by a trap or behind a jalr with a wrong target,
branches whose guess was shifted in though the checkpoint buffer had no slot, and `reset`, which
forgets `local_bht_retired`. **ReturnStack** is `ras.h` over `stack.h`, **LossyStack** the stack it
promises to be. **BranchPredictor** puts them together as the class does: `get_prediction` uses
the stack as the link registers say, and `reset` clears both.

Each definition's lines are in `PROJECT.json`, `map`. Definitions whose name begins with
`Mutant` are plausible mistakes, kept beside what they are mistakes of; each breaks a
property in one of the runs.

## 3. The runs

| run | distinct states | what it shows |
|---|---|---|
| queues | 71 758 | Fifo, both modes, ring of 3: full and empty told apart, room real, refines BoundedQueue; IssueBuffer, ring of 4, implements IssueList: updates, pops, removals and pushes of one cycle, wherever the ring starts |
| renaming | 405 696 | no assertion of rat.h fails; no register lost or freed twice; flushes precise; restored data valid; committed mapping changes in order |
| pipeline_refines | 495 390 | Pipeline implements Renaming with groups of two; queued requests are legal when applied |
| pipeline_flush | 786 438 | nothing of flushed instructions survives; checkpoints of live branches intact; wrong paths never retire |
| pipeline_live | 73 306 | the head leaves, walk backs end, waits for jumps end |
| store_buffer_memory | 557 916 | StoreBuffer implements SequentialMemory, both overlaps, under mispredictions, exceptions and interrupts; the uncommitted stores are those of live instructions |
| store_buffer_live | 26 988 | a held store proceeds, a retired store drains |
| issue_data | 2 258 772 | every operand is caught and is the right one |
| issue_order | 706 746 | no instruction is lost between the scan and the dispatch; CSR instructions are alone, fences separate, loads and stores execute in order |
| issue_live | 77 424 | every renamed instruction finishes or is flushed; rename is let through again and again |
| predictor | 266 537 | histories in step with training, but for the named cases; ReturnStack implements LossyStack |
| core | 100 189 | Core implements Hart: precise traps, control registers in order; a fence.i is alone; fetch is never stuck; enabled interrupts are taken; nothing overflows |

The type invariants of Renaming, Fifo, Predictor, Core, Issue and StoreBuffer are proved
(section 4), those of Renaming and Core are also checked; those of the other modules are stated
as `TypeOK` for the reader.

**Bounds.** Ring of 3 in queues: wrapping, full, empty and one in between, with the copy of
the read pointer one and two behind. The issue queue there has
four slots, so that holes may be at the front, in the middle, at the end and
on both sides of the wrap, and two requests before the compress. The two are different
objects in one run, and one is used at a time. Renaming has two architectural registers, two spare
physical ones and three entries: the free list can run out before the buffer and the other way round;
a register can be overwritten twice in the buffer; the proofs remove this bound. Pipeline
has one architectural register: interference between instructions needs the same
register, and the independence of different ones is in Renaming's proofs. Two entries
and a group of two make every pair of stages meet in a cycle with a wrap of the
identifiers; two checkpoints are needed to see a leaked slot in front of a live one, one
checkpoint is enough for liveness, as a single leak then fills the buffer. The kinds of
instructions are reduced to plain ones and mispredicted branches in pipeline_refines, where the group of two
costs most; pipeline_flush has all kinds. StoreBuffer has three entries, a buffer of two
stores and a word of memory: a load can find a store in memory, one retired in the
buffer and one not retired. `Op` is small: a load of a half word, a store that begins
below it, one inside it with different data, and an instruction that may fail or turn out mispredicted;
the liveness run has one store, whose data does not matter.

In Issue a queue of two behind a port
of two fills up while a CSR instruction waits to be next, which is how an instruction
can sit in the port while both announcements of its operand go by (issue_data, four
entries, two ALUs). issue_order has a port and a queue of three, so that a store may be
ready behind a load that is not, one unit of each kind, so that the scan has to count, and a
store buffer of one, so that the unit holds a store. issue_live has the least of
everything. Between them the runs have every operation; exceptions of CSR instructions and of stores
stand for all, as what follows does not depend on the kind.

The predictor has a global history of two bits, local ones of one bit in two entries, and two
branches in flight, so that a wrong one has another before or behind it; the proofs are
for all of these. The return stack has three places with counts up to two and two
addresses: both limits are met. The histories and the stack share no state, so that
the run uses one of them at a time (`OneInUse`). Core has groups of two, FIFOs of two, a
reorder buffer of five, a store buffer of two and two interrupt causes; its
program of fourteen instructions has every kind of instruction next to what it might
disturb: a fault in the shadow of a branch, interrupts turned off and on again, the handler
moved between a fault and the next, mpie cleared by the program, mepc rewritten just
before mret and read in between, two stores before a fence.i, a branch with an undefined funct3, which fetch
has no prediction for and waits for, and a handler that may leave mepc as it is. But for the two
liveness properties the proofs remove all these bounds, the program's included.

**Deadlock** is checked in every run: the processor has no state in which it stops.

**Fairness.** Liveness runs use `FairSpec`. Weak fairness of Next is the clock: the main
loop never stops. In Pipeline strong fairness is assumed of each unit's answer and of
rename: a unit answers after a fixed number of cycles, and what can take the turn away
is only a flush; issue may hold rename back, but not for ever as it drains. issue_live checks just that: under weak fairness
of Next alone, the clock, every instruction gets its answer and issue lets rename through. No fairness
is assumed of fetch, of interrupts or of predictions. In StoreBuffer the end of the
walk back (it takes as many cycles as there are entries), the handing over of a load or store by issue, and the
answers of other units are fair in the same sense; nothing is assumed of the drain, of
commit or of the unit's retries, which is what the properties are about. In Core strong fairness of `Busiest` says
that cycles in which all moves that can come again and again: this is what issue_live
shows of issue, the units answering after a fixed time. Nothing is assumed of the interrupt lines, of predictions or
of the choice of units in other cycles.

**Flaws found.** None: there is no run that is expected to fail. The slots of the
checkpoint buffer that an exception or an interrupt leaves occupied (`commit.cpp:1123`,
`1236`) were the most suspicious part; the runs show that they cost predictions but harm
no live branch and stop nothing, because later pops and a misprediction's flush take them
away.

What the modules show that a maintainer should know, though no line of the repository says otherwise:

* Only the ALU refuses an instruction that decode found not valid (`alu.cpp:297-302`). A branch with funct3 2 or
  3 is sent to the branch unit (`decode.cpp:246`, 286), which skips it (`bru.cpp:331`) and gives the address
  after it (`bru.cpp:376-379`) without an exception; commit takes it for a branch by its unit
  (`commit.cpp:986`). Fetch, which has no prediction for it, waits for its retirement as for that of a legal
  jump, and goes on behind it. So "jump" is the only answer to an instruction that fetch waits for (`Pipeline!ResultsOf`), and
  Core has it as a branch that is always passed by.
* An exception leaves `mstatus.mie` set, so that an interrupt in the first instructions
  of an exception handler overwrites its mepc (`Hart!Raise`).
* An interrupt is entered although its line may have fallen since it was decided; `get_ack` of
  `interrupt_interface.h` has no reader.
* A CSR instruction waits until commit has come to it (`next_handle_rob_id`), and nothing
  passes it in the queue. Either rule alone keeps the control registers right in Core.
* The mending of the histories by the branch unit never matters to a branch that
  retires: all that is fetched until the wrong branch retires is flushed, and commit then mends
  the histories from the retired ones.
* `cpht` is read and trained with the history as guessed at that time
  (`branch_predictor.h:164-209`), the counters of gshare are trained with the retired one.
* The return stack is not restored on a flush: calls and returns of a wrong path stay.

## 4. The proofs

`QueuesProofs` (every Size, every Elem, every bound on the requests of a cycle), `PredictorProofs` (every width, entry and number of
branches in flight, every size of the return stack and of its counts), `RenamingProofs` (every number of registers with at least as
many physical as architectural ones, every ROB_SIZE), `CoreProofs` (every program, every
size), `IssueProofs` (every program, width, number of units, registers and size),
`StoreBufferProofs` (every program, address space and size) and `PipelineProofs` (every size of the two
rings and of the front queue, every width) are checked by TLAPS. The assumptions are those of Rat,
Renaming, Fifo, MCQueues, Isa, Core, Issue, StoreBuffer, Pipeline, Predictor and BranchPredictor on their constants. `RingProofs` says what each
operation of Ring does to the queue the ring stands for. It begins with the induction the others use,
which is stated for a set of numbers instead of a predicate, since no prover here can instantiate an operator.

* **Fifo.** Pointers are in range (TypeCorrect); equal stage bits mean that the read
  pointer is not past the write pointer (PointersCorrect), from which `get_size` is the
  length of the queue, and each operation is one of BoundedQueue (FifoImplementsQueue).
  The part of the invariant about the saved pointer says that it is behind the
  live one unless a flush came in this cycle.
* **Renaming.** `IInv` is inductive (InvariantHolds). None of the safety properties is:
  that the walk back ends in the committed mapping depends on what every entry on the way
  recorded when it was renamed. IInv says it for each entry: the mapping after the
  first k instructions of the buffer, `VisibleAt(k)`, is the committed registers with the
  new registers of these instructions and without the old ones, and has exactly
  one register per architectural register (MappingsOK); an entry's old register is
  in the mapping of its elders and stands for the same architectural register (ChainOK); a
  checkpoint is the mapping at its branch (CheckpointsOK); allocated registers are
  the committed ones and the entries' (RegistersOK); results have been written (DataOK).
  A retirement shifts all mappings by one and leaves them alone - release and
  commit move the old and the new register within the same mapping - and a restore of
  the head's checkpoint is then the committed mapping. From IInv follow that no assertion
  of `rat.h` fails (AssertsNeverFail), that registers are never lost (NoRegisterIsLost), that
  flushes are precise (FlushIsPrecise), that the data a restore declares valid is there
  (CheckpointsAreReal), and the action property that the committed mapping changes in
  program order (CommittedInOrder).

* **Predictor.** GlobalHistoryInStep and LocalHistoriesInStep are inductive together with
  the type invariant and one fact, that the prediction of a conditional branch is right
  exactly when its direction is. They speak of pairs of places in the pipeline: what is seen at
  place j is what branch i left, when i is the last branch before j and none before j is guessed wrong. Fetch
  adds a last place, a retirement shifts all of them down to the retired history, and the
  branch unit, when it mends a wrong guess, changes only what the places behind that branch
  see, of which nothing is said. Both histories take part in the same way, so that
  the proofs have the same shape.

* **Return stack.** StackRefines: the items with their counts are LossyStack, by the addresses they
  stand for (`Spread`: the copies of each item, one after the other, which is what ReturnStack's
  `Addresses` is). The invariant, StackOK, says that an item whose address is that of the
  next one is full (Parted), that there are at most RAS_SIZE of them, and that with none left
  `last_addr` is the last answer; without the last, a return from an empty stack could answer anything. A push
  that shares an item, one on a new item and a pop are Append and Without of the addresses. The push on a full stack has to
  show that what is forgotten was not needed to be: that the remaining items fill all places. LossyStack
  counts places without items, at the multiples of MaxCnt in each run of equal
  calls; a place at a time, a call begins one (CallBegins) or shares one (CallShares), so that each item of
  a parted stack is one place (ItemFills, SpreadFills), and RAS_SIZE items are RAS_SIZE places.

* **Core.** What commit does is right only because of what fetch did many cycles before, so
  that the refinement of Hart (CoreImplementsHart) rests on an invariant about all that is
  between them (Consistent), in five parts. *PathOK*: reorder buffer and FIFOs, one after the other,
  are one path through the program; it starts at `arch`, each packet is followed by the
  instruction it was guessed to be followed by, and it ends where fetch is, which waits exactly when the
  last one is a branch without a guess; with nothing left, fetch is at `arch` or commit's feedback says
  so. *UnitsOK*: what a finished entry holds are the results of its own instruction, those of
  a CSR instruction or mret computed from the registers as they are now, and such
  an entry is the first of the buffer once it is issued. *ControlOK*: `csr` lags behind `csr_next` only
  in a cycle in which something has retired, and feedback is there only between commit and fetch.
  *WalkOK*: during a walk back the first entry is where the program stopped, and the
  interrupt that was decided is still enabled, since nothing retires. *DataOK*: types and room. A
  retirement takes the first packet off the path and `arch` on by what UnitsOK and the guess say;
  a cycle moves packets along it and adds what fetch took at its end. Then a retirement is
  a step of Hart at `arch` - for mret because it was alone, so nothing retired before it in
  this cycle and both of its reads of the registers see the same - and so is the last step of a
  walk back; nothing else changes what a program sees. FenceIAlone is inductive together with this
  (FenceAlone): fetch adds a fence.i to an empty core only, and all else takes
  away what is in front of it. That a store always finds its place in the store buffer (part
  of TypeCorrect) needs one fact more, that retired and finished stores together fit.
  The assumptions are that the program is a function on 0 .. n - 1 whose branches stay in it and whose CSR
  instructions write values their registers can hold (IsaAssumption), and that no size is zero.

* **Issue.** `IInv` is inductive (InvariantHolds), and the six properties follow from it. Each of them
  speaks of one instruction at one moment, but whether it holds was decided by two instructions many
  cycles apart, so that most of IInv says where things are. *Mappings*: the identifiers of the
  reorder buffer count on from the oldest to the next one to be given, every mapping in between is
  one-to-one, and the register an entry replaced is in no mapping from then on. So a register that
  an unfinished instruction reads has one producer between it and its last release, although
  the same number is given again and again. *PlacesOK*: every unfinished entry is in exactly one place -
  the rename port, the issue port, the queue, a unit's port, a unit, the write back port - and nothing else
  is there; places are in program order where the code keeps it. *DataOK* and *ListeningOK*: an
  operand that is ready holds what its producer computed; one that is not has its producer still ahead of
  the announcement that will reach it, or the result is in the file and will be read, which
  is the argument about the port that waits while both announcements go by. *AloneOK*, *FenceOK* and *MemoryOK*:
  what has to be alone is dispatched only as the oldest entry, a fence with no store before it left to drain,
  and of two accesses to memory the older one is never behind the younger. The folds of the code (scan, dispatch,
  input, rename, retire) are treated by induction on the number of instructions handled:
  each lemma says what one more does.

* **StoreBuffer.** `IInv` is inductive (InvariantHolds). Neither UncommittedAreLive nor the refinement is:
  whether the stores that a flush leaves are the right ones depends on what the unit, the ports and
  the buffer held before, and on how identifiers are matched. IInv compares identifiers by age, the
  place of their entry in the reorder buffer. What waits for the unit is ordered by age, is unanswered, and no
  access older than it is unanswered (PacksRight, PacksOrdered, InOrder); an answer on its way is
  the only one of its entry (AnswersRight); the named identifiers are those of the entries that retire in this
  cycle (Retiring); the buffer, with the store that is being pushed, is first the stores that are retired or
  retiring (CommittedFirst), then, ordered by age, one item for each executed store that has still to
  retire, with its address and data (PendingRight, PendingOrdered, ExecutedPending); after a flush nothing is on
  its way (Turns). StoresAreLive is the last three; that the queue in front of the unit is bounded by the
  reorder buffer (TypeCorrect) follows because it is ordered by age.
  For the refinement (Refines) the byte arithmetic of `get_feedback_value` is shown, by induction on the buffer, to
  give each byte of the youngest item that covers it (FeedbackIs). A load is then a step of SequentialMemory
  because the items that are pending are the executed live stores before it, in the same order, and those in front of
  them make up the abstract memory (LoadedByte); a retirement is one because the item of the
  oldest live store is the first pending one; draining the oldest item, marking and the flush are stutters, as the
  youngest item over each address stays what it was (DrainedMoved).
  The assumptions are that no size is zero, that the initial memory is a function from addresses, natural numbers, to
  bytes, and that loads and stores are aligned, of one, two or four bytes, and inside the memory.

* **Pipeline.** `IInv` is inductive (Safety), with CheckpointsIntact, OneAnswer and JumpAwaited as parts of it or
  direct consequences. The difficulty is that nothing a stage asks for has happened yet. So IInv speaks of
  the rings *with the requests applied*: Founded says that each request, applied after those
  before it, finds an element (a pop something to pop, a set_item an entry that is still there), and Turns
  says whose requests can be queued at which stage. A push by rename or fetch takes effect at once, ahead
  of the requests; it commutes with all of them (PushLater), so that it can be read as the
  last operation of the cycle. Retired entries shift the places of the others (RingShorter, RingPops); answers
  taken in change no place (SetMany). AnswersOK is OneAnswerPerEntry entry by entry.
  The two streams, the checkpoints (LiveCheckpoints) and the jumps (JumpsPending) of all instructions after
  fetch, are read off packs, answers, entries and the front queue by what each says of its place
  (StreamIs). An action then either leaves the streams alone and only
  changes who says it (StreamStays: rename, write back, the taking in of results), takes the first
  place off (RetireStep), adds a group at the end (IntactGroup), or empties them. While commit flushes, nothing is
  said of the streams, only that everything will be dropped; WalkOK keeps the walk back
  inside the buffer. The assumptions are that no size or width is zero and that ROB_SIZE is above one.
  RightPath needs one invariant more, PathOK: in the stream of entries and fetched instructions, whatever is on
  the wrong path comes after the mispredicted branch that will remove it, in whichever of pack, answer or
  entry the misprediction is known; so the entry commit looks at, the first of the stream, cannot be.


  That Pipeline implements Renaming (PipelineImplementsRenaming) is proved from `Whole`: IInv, RequestsLegal, the
  invariant of Renaming for the refined state, and two statements about what the cycle has under way. MapsOK relates
  the table the group being renamed sees (the table of the last cycle with its own mappings, `OldPhy`) to the table with
  *all* requests applied: they show the same registers, and the group sees more allocated, never fewer, as what
  commit releases in the cycle is not given out before the next one; so the register a group takes is free in
  both, and the request it leaves stays legal behind commit's. SavedOK says that rename has
  filled in the checkpoint of each live branch and that the register the branch hides was allocated in it.
  There is one lemma per action (RetireSimulated, WalkBackSimulated, RenameDestSimulated, ...): it is a step of
  Renaming, or none, and keeps MapsOK, SavedOK and RequestsLegal. Retirement, the restoring of a checkpoint and the
  walk back are legal because they are so in Renaming (HeadAsserts, LastAsserts: RatAssertsHold of the refined state);
  the end of a cycle is a stutter; an entry's result is a step of Renaming when the unit answers, not when commit
  takes the answer in. RequestsAreLegal and RestoresAssert follow, the second with Renaming's CheckpointsOK: the
  checkpoint of a branch is the mapping just after it. With the refinement, what is proved of Renaming holds of the
  cycle-level machine: PipelineKeepsPromises says it of its safety properties, of the tables with the
  requests of the cycle applied. The additional assumption is Renaming's: at least as many physical as
  architectural registers.

* **IssueBuffer.** The queue with its requests implements IssueList: QueueImplementsList says so of IssueBuffer's own
  specification, IssueBufferRefines of MCQueues, where it is an instance next to Fifo. There are three parts.

  *The walk of `compress`.* After k elements the list has been followed up to the slots it names among them
  (`Named`), and what is to stay of them (`Rest`) is in front: `RingWith` is the ring in which it has been written over
  the first slots, the elements behind being as they were. `WalkAt` is the state of the loop then: i is the number of
  slots met, next_id the slot after the last element that stays, its stage the one of that place. WalkVisits and WalkAdvances
  show that one round of the loop leads from each to the next (an element is skipped, stays, or moves, SkipOne to
  MoveOne); WalkEnds that the loop ends with the last element, also in a full ring, where the next slot holds an element
  and only the comparison with first_id stops it. CompressDoes: the pointers left behind make a ring
  of exactly what stays, in its order, full or empty told apart.

  *The requests.* `Stages` are the rings `sync` goes through. StagesFit: at each of them the elements not popped so far are in the slots
  they were in, each as the last request for its slot left it, because a replacement keeps every place and a pop moves all by one.
  So the slot a request names denotes the same element when it is applied as when it was made, though
  the read pointer moves meanwhile; that is what makes one list of replacements and one set of leaving elements out of a queue of requests.
  A push in between goes behind all of them (PushDoes).

  *The invariant*, `Sound`: the ring is one of RingProofs' rings, and the requests are replacements and pops that
  fit (each names an element that is there at its stage), with at most one compress behind them, whose list names
  slots in queue order (RequestsAlwaysFit). PushStep, SetStep, PopStep, CompressStep, SyncStep and FlushStep show of each action that it keeps the
  invariant and is the action of IssueList.

  The folds of the model (over the slots, the requests, the list) are used through functions that build the same upwards
  (IsSweepExists, StagesAre, PicksAre), whose existence for every length is an induction over sets of numbers from RingProofs.

**Only model-checked:** all liveness (fairness and ENABLED are beyond the prover). Every safety invariant, action
property and refinement that a run checks is proved.

## 5. What is not modelled, and the plan

Not modelled, with the reasons in `PROJECT.json`: the RTL and its simulation, the
controller, traces and software (no part of the model processor or third party); the
arithmetic of the units (pure functions); the counters and target caches of the predictor
(what they answer costs time only, as Core and Pipeline show for any prediction). Known
simplifications of what is modelled: Pipeline has one queue for the two front-end FIFOs,
no program counter and no values; an instruction's unit is not told apart; in Core the
general registers and checkpoints are left out, and what Pipeline and Issue model is a delay;
peripherals on the bus do not exist in StoreBuffer, so that a load of a device register, which is
read when it executes and not when it retires, is outside, and so is a store that takes
back `msip` of the timer and is still in the store buffer when mret enables interrupts.

What is left to do, in this order:

1. **The back end, composed** - Issue as what stands between rename and the answers in Pipeline, instead of "any order".
2. **Devices** - the timer and its registers behind the store buffer, and loads of devices.
