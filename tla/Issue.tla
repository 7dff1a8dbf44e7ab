-------------------------------- MODULE Issue --------------------------------
(***************************************************************************)
(* Between rename and write back: reading registers (pipeline/readreg.cpp),*)
(* the issue queue and the choice of what to issue (pipeline/issue.cpp),   *)
(* the FIFOs before the execution units and the units                      *)
(* (pipeline/execute), and write back's half of the forwarding             *)
(* (pipeline/wb.cpp).                                                      *)
(*                                                                         *)
(* An instruction may find an operand in the register file or hear it from *)
(* a unit (execute_feedback_pack) or from write back a cycle later         *)
(* (wb_feedback_pack), as it is read, as it enters the queue, while it     *)
(* waits there and as it is issued.  Each result goes by twice and is then *)
(* in the file.  CSR instructions, mret and fence have to be alone; loads  *)
(* and stores go to their unit in program order.                           *)
(*                                                                         *)
(* Commit and rename appear by what they do to these stages; Pipeline has  *)
(* their detail.  Any instruction that retires may be a mispredicted       *)
(* branch, so that a flush may follow it.  Data is left out: the value of  *)
(* an operand is the register whose current producer it comes from, Junk   *)
(* when it comes from another, or Unloaded.  Of the two indices of a unit  *)
(* (round robin, first free) nothing depends on more than whether one of   *)
(* its kind has room, so the FIFOs of a kind, of one place each, are a set.*)
(***************************************************************************)
EXTENDS Naturals, FiniteSets, SequencesExt

CONSTANTS
  Arch,               \* architectural registers
  PHY_REG_NUM, ROB_SIZE, ISSUE_QUEUE_SIZE, STORE_BUFFER_SIZE,
  RENAME_WIDTH, ISSUE_WIDTH, COMMIT_WIDTH,
  ALU_UNIT_NUM,       \* there is one unit of every other kind
  Inst,               \* the instructions of the program
  Raising             \* the operations that may raise an exception

Op == {"alu", "csr", "mret", "fence", "load", "store"}

\* No register: x0 as a destination, an immediate as a source.
NoArch == "none"

ASSUME IssueAssumption ==
  /\ IsFiniteSet(Arch) /\ PHY_REG_NUM \in Nat /\ Cardinality(Arch) <= PHY_REG_NUM
  /\ {ROB_SIZE, ISSUE_QUEUE_SIZE, STORE_BUFFER_SIZE, RENAME_WIDTH, ISSUE_WIDTH,
      COMMIT_WIDTH, ALU_UNIT_NUM} \subseteq Nat \ {0}
  /\ Inst \subseteq [op : Op, rs1 : Arch \cup {NoArch}, rs2 : Arch \cup {NoArch},
                     rd : Arch \cup {NoArch}]
  /\ Raising \subseteq Op /\ NoArch \notin Arch

\* A fence has no operands (decode.cpp:632-637).
ASSUME FenceAssumption ==
  \A inst \in Inst : inst.op = "fence" => inst.rs1 = NoArch /\ inst.rs2 = NoArch

VARIABLES
  rob, next_id,          \* reorder buffer: the entries, the next identifier
  map,                   \* alias table: Arch -> Phy
  data_valid, content,   \* register file
  rename_readreg,        \* port
  readreg_issue,         \* port, without what issue has taken (last_index)
  issue_q, is_inst_waiting, inst_waiting_rob_id,
  fifo,                  \* the issue_*_fifo by kind of unit
  held,                  \* the store that waits in the load/store unit
  wb_port, commit_port,  \* results on their way to wb and to commit
  stores, draining,      \* store buffer: not retired, retired
  committed, next_handle_rob_id,   \* commit_feedback_pack of this cycle
  released,              \* registers given back in this cycle
  stage

robvars   == <<rob, next_id, map, released>>
regfile   == <<data_valid, content>>
ports     == <<rename_readreg, readreg_issue>>
issuevars == <<issue_q, is_inst_waiting, inst_waiting_rob_id>>
units     == <<fifo, held, wb_port>>
stbuf     == <<stores, draining>>
feedback  == <<committed, next_handle_rob_id>>
vars == <<robvars, regfile, ports, issuevars, units, commit_port, stbuf, feedback, stage>>

Unit == {"alu", "bru", "csr", "lsu"}

UnitOf(op) ==
  CASE op \in {"alu", "fence"}  -> "alu"
    [] op = "mret"              -> "bru"
    [] op = "csr"               -> "csr"
    [] op \in {"load", "store"} -> "lsu"

unit_cnt(unit) == IF unit = "alu" THEN ALU_UNIT_NUM ELSE 1

Alone(op) == op \in {"csr", "mret"}

Phy      == 0 .. PHY_REG_NUM - 1
NoPhy    == PHY_REG_NUM
Junk     == PHY_REG_NUM + 1
Unloaded == PHY_REG_NUM + 2

RobId  == 0 .. ROB_SIZE - 1
Source == Phy \cup {NoPhy}
Value  == Phy \cup {NoPhy, Junk}
Pack   == [id : RobId, op : Op, src1 : Source, src2 : Source, rd : Source,
           val1 : Value \cup {Unloaded}, val2 : Value \cup {Unloaded}]
Result == [id : RobId, op : Op, rd : Source, value : Value, raised : BOOLEAN]
Entry  == [id : RobId, op : Op, arch : Arch \cup {NoArch}, new : Source, old : Source,
           finish : {"no", "ok", "exception"}]

\* Any one-to-one map will do to begin with.
Init ==
  /\ rob = << >> /\ next_id = 0
  /\ map = CHOOSE m \in [Arch -> Phy] : IsInjective(m)
  /\ data_valid = Range(map) /\ content = [p \in Phy |-> p]
  /\ rename_readreg = << >> /\ readreg_issue = << >>
  /\ issue_q = << >> /\ is_inst_waiting = FALSE /\ inst_waiting_rob_id = 0
  /\ fifo = [u \in Unit |-> {}] /\ held = {} /\ wb_port = {} /\ commit_port = {}
  /\ stores = {} /\ draining = 0
  /\ committed = {} /\ next_handle_rob_id = 0
  /\ released = {} /\ stage = "commit"

-----------------------------------------------------------------------------
(* Commit: results that arrived a cycle ago are noted, finished entries    *)
(* leave from the front, and the stages are told which and what is next.   *)

\* The entries that can leave in this cycle.
Retirable ==
  LET busy == {i \in 1 .. Len(rob) : rob[i].finish # "ok"} \cup {Len(rob) + 1, COMMIT_WIDTH + 1}
  IN  (CHOOSE i \in busy : \A j \in busy : i <= j) - 1

\* Without an exception something leaves if it can.  A branch ends the group.
Retires == IF Retirable = 0 THEN {0} ELSE 1 .. Retirable

ExceptionNext(n) == n < COMMIT_WIDTH /\ n < Len(rob) /\ rob[n + 1].finish = "exception"

Gone(n) == {rob[i] : i \in 1 .. n}

Noted(e) ==
  LET mine == {r \in commit_port : r.id = e.id}
  IN  IF mine = {} THEN e
      ELSE [e EXCEPT !.finish = IF \E r \in mine : r.raised THEN "exception" ELSE "ok"]

Commit(n) ==
  /\ stage = "commit"
  /\ ~ExceptionNext(n)
  /\ rob' = [i \in 1 .. Len(rob) - n |-> Noted(rob[n + i])]
  /\ released' = {e.old : e \in Gone(n)} \ {NoPhy}
  /\ committed' = {e.id : e \in Gone(n)}
  /\ next_handle_rob_id' =
       IF rob = << >> THEN 0 ELSE (rob[1].id + n) % ROB_SIZE
  /\ commit_port' = {}
  /\ stage' = "execute"
  /\ UNCHANGED <<next_id, map, regfile, ports, issuevars, units, stbuf>>

\* The mapping that the entries after the first n have not changed.
MapBefore(n) ==
  [a \in Arch |->
     LET later == {i \in n + 1 .. Len(rob) : rob[i].arch = a}
     IN  IF later = {} THEN map[a]
         ELSE rob[CHOOSE i \in later : \A j \in later : i <= j].old]

\* What the stages are left with by a flush.
FlushTo(queue, waiting) ==
  /\ rename_readreg' = << >> /\ readreg_issue' = << >>
  /\ issue_q' = queue /\ is_inst_waiting' = waiting
  /\ fifo' = [u \in Unit |-> {}] /\ held' = {} /\ wb_port' = {} /\ commit_port' = {}
  /\ UNCHANGED inst_waiting_rob_id

\* Mutants: the queue, or the wait for an instruction, survives a flush.
MutantQueueSurvives == FlushTo(issue_q, FALSE)
MutantWaitSurvives  == FlushTo(<< >>, is_inst_waiting)

FlushStages == FlushTo(<< >>, FALSE)

\* A misprediction, an exception or an interrupt, and the cycles of a walk
\* back that may follow, in all of which every stage drops what it holds.
Flush(n) ==
  /\ stage = "commit"
  /\ rob # << >>
  /\ rob' = << >> /\ next_id' = 0
  /\ map' = MapBefore(n)
  /\ data_valid' = Range(map')
  /\ FlushStages
  /\ draining' = draining + Cardinality(stores \cap {e.id : e \in Gone(n)})
  /\ stores' = {}
  /\ UNCHANGED <<content, released, feedback, stage>>

-----------------------------------------------------------------------------
(* Write back and the execution units.                                     *)

\* Mutant: the load/store unit takes the next one while it holds a store.
MutantUnitDoesNotWait == held \cup UNION {fifo[u] : u \in Unit}

\* The oldest pack of each unit; the load/store unit finishes what it holds.
Executing == IF held = {} THEN UNION {fifo[u] : u \in Unit}
             ELSE held \cup UNION {fifo[u] : u \in Unit \ {"lsu"}}

StoreBufferFull == Cardinality(stores) + draining = STORE_BUFFER_SIZE

Refused(raises) ==
  {x \in Executing : x.op = "store" /\ x \notin raises /\ StoreBufferFull}

ResultOf(x, raised) ==
  [id |-> x.id, op |-> x.op, rd |-> x.rd, raised |-> raised,
   value |-> IF x.val1 = x.src1 /\ x.val2 = x.src2 THEN x.rd ELSE Junk]

\* A store is in the buffer a little before push_sync has it there; a fence,
\* which alone looks, is not next to retire while an older store executes.
Execute(raises) ==
  /\ stage = "execute"
  /\ commit_port' = wb_port
  /\ wb_port' = {ResultOf(x, x \in raises) : x \in Executing \ Refused(raises)}
  /\ held' = Refused(raises)
  /\ fifo' = [u \in Unit |-> fifo[u] \ Executing]
  /\ stores' = stores \cup {x.id : x \in {y \in Executing \ (raises \cup Refused(raises)) :
                                            y.op = "store"}}
  /\ stage' = "issue"
  /\ UNCHANGED <<robvars, regfile, ports, issuevars, draining, feedback>>

-----------------------------------------------------------------------------
(* Forwarding.                                                             *)

Feedback(results) == {r \in results : r.rd # NoPhy /\ ~r.raised}

execute_feedback_pack == Feedback(wb_port)
wb_feedback_pack      == Feedback(commit_port)

\* An operand that was heard of.  Two results for a register at once would be
\* a choice between the channels.
Heard(src, val) ==
  LET heard == {r \in execute_feedback_pack \cup wb_feedback_pack : r.rd = src}
  IN  IF val # Unloaded \/ heard = {} THEN val ELSE (CHOOSE r \in heard : TRUE).value

Listen(x) == [x EXCEPT !.val1 = Heard(x.src1, @), !.val2 = Heard(x.src2, @)]

\* Mutant: the register file is believed without its valid bit.
MutantReadsStale(src, val) == IF val = Unloaded THEN content[src] ELSE val

FromFile(src, val) == IF val = Unloaded /\ src \in data_valid THEN content[src] ELSE val

Read(x) == Listen([x EXCEPT !.val1 = FromFile(x.src1, @), !.val2 = FromFile(x.src2, @)])

\* Mutant: what enters the queue only listens, as what is in it does.
MutantEnterListens(x) == Listen(x)

\* The register file is read again: the result may have gone by twice while
\* the instruction waited in the port for room.
Enter(x) == Read(x)

-----------------------------------------------------------------------------
(* Issue: the choice.  The scan goes through the queue from the oldest     *)
(* instruction; at is what it knows so far.                                *)

StoreBufferEmpty == stores = {} /\ draining = 0

IsNext(x) == x.id = next_handle_rob_id

\* While waiting for an instruction to be alone nothing else is issued.
MayIssue == is_inst_waiting => inst_waiting_rob_id \in committed

HeardFrom(src, val) == val # Unloaded \/ \E r \in execute_feedback_pack : r.rd = src

OperandsReady(x) == HeardFrom(x.src1, x.val1) /\ HeardFrom(x.src2, x.val2)

\* Mutant: a fence waits for the store buffer only.
MutantFenceLooksAtStores(x, n) == x.op = "fence" /\ ~StoreBufferEmpty

fence_trigger(x, n) ==
  x.op = "fence" /\ (~StoreBufferEmpty \/ n # 0 \/ ~IsNext(x))

\* Mutant: an instruction that wants to be alone is passed over, not waited for.
MutantPassedOver(x, n) == FALSE

\* An instruction that has to be alone is neither first nor next to retire.
NotYetAlone(x, n) == Alone(x.op) /\ (n # 0 \/ ~IsNext(x))

\* Mutant: only an issued load or store keeps the younger ones back.
MutantHoldsBackIssued(at, x, taken) == at.lsu \/ (taken /\ UnitOf(x.op) = "lsu")

\* A load or store keeps the younger ones back, issued or not.
HoldsBack(at, x, taken) == at.lsu \/ UnitOf(x.op) = "lsu"

Consider(at, x, place) ==
  LET n     == Cardinality(at.places)
      taken == /\ OperandsReady(x)
               /\ at.room[UnitOf(x.op)] > 0
               /\ ~(at.lsu /\ UnitOf(x.op) = "lsu")
               /\ ~fence_trigger(x, n)
  IN  IF at.stop \/ n = ISSUE_WIDTH THEN at
      ELSE IF NotYetAlone(x, n) THEN [at EXCEPT !.stop = TRUE]
      ELSE [places |-> IF taken THEN at.places \cup {place} ELSE at.places,
            room   |-> IF taken THEN [at.room EXCEPT ![UnitOf(x.op)] = @ - 1] ELSE at.room,
            lsu    |-> HoldsBack(at, x, taken),
            stop   |-> Alone(x.op) \/ fence_trigger(x, n)]

\* Mutant: whether a unit has room is not asked.
MutantAnyUnit == [u \in Unit |-> ISSUE_WIDTH]

unit_available == [u \in Unit |-> unit_cnt(u) - Cardinality(fifo[u])]

\* What the scan knows after the first i places of the queue.
scan[i \in 0 .. Len(issue_q)] ==
  IF i = 0 THEN [places |-> {}, room |-> unit_available, lsu |-> FALSE, stop |-> FALSE]
  ELSE Consider(scan[i - 1], issue_q[i], i)

\* The places of the chosen ones, item_id_list: they leave the queue.
Chosen == IF MayIssue THEN scan[Len(issue_q)].places ELSE {}

(* Issue: the chosen ones are sent, until one cannot be.                   *)

Loaded(x) == x.val1 # Unloaded /\ x.val2 # Unloaded

Send(at, x) ==
  LET u    == UnitOf(x.op)
      goes == Loaded(x) /\ Cardinality(at.fifo[u]) < unit_cnt(u)
  IN  IF at.stop THEN at
      ELSE [fifo    |-> IF goes THEN [at.fifo EXCEPT ![u] = @ \cup {x}] ELSE at.fifo,
            waiting |-> IF Alone(x.op) THEN {x.id} ELSE at.waiting,
            stop    |-> ~goes \/ Alone(x.op)]

\* What has become of those among the first i places.
sending[i \in 0 .. Len(issue_q)] ==
  IF i = 0 THEN [fifo |-> fifo, waiting |-> {}, stop |-> FALSE]
  ELSE IF i \in Chosen THEN Send(sending[i - 1], Listen(issue_q[i]))
  ELSE sending[i - 1]

Sent == sending[Len(issue_q)]

(* Issue: what stays in the queue listens, and what has come in enters as  *)
(* far as there was room before anything left.                             *)

staying[i \in 0 .. Len(issue_q)] ==
  IF i = 0 THEN << >>
  ELSE IF i \in Chosen THEN staying[i - 1]
  ELSE Append(staying[i - 1], Listen(issue_q[i]))

Staying == staying[Len(issue_q)]

Entering == Min({Len(readreg_issue), ISSUE_QUEUE_SIZE - Len(issue_q)})

Run ==
  /\ stage = "issue"
  /\ fifo' = Sent.fifo
  /\ is_inst_waiting' = IF MayIssue THEN Sent.waiting # {} ELSE is_inst_waiting
  /\ inst_waiting_rob_id' = IF Sent.waiting = {} THEN inst_waiting_rob_id
                            ELSE CHOOSE id \in Sent.waiting : TRUE
  /\ issue_q' = Staying \o [i \in 1 .. Entering |-> Enter(readreg_issue[i])]
  /\ readreg_issue' = SubSeq(readreg_issue, Entering + 1, Len(readreg_issue))
  /\ stage' = "readreg"
  /\ UNCHANGED <<robvars, regfile, rename_readreg, held, wb_port, commit_port, stbuf, feedback>>

\* issue_feedback_pack: what came in has not all entered the queue.
stall == readreg_issue # << >>

-----------------------------------------------------------------------------
(* Reading registers, rename, and the end of the cycle.                    *)

FreePhy ==
  Phy \ (Range(map) \cup {e.new : e \in ToSet(rob)} \cup {e.old : e \in ToSet(rob)} \cup released)

Mapped(m, a) == IF a = NoArch THEN NoPhy ELSE m[a]

\* One instruction after the others of its group.
RenameOne(at, inst) ==
  LET new == IF inst.rd = NoArch THEN NoPhy ELSE Min(at.free)
  IN  [map  |-> IF inst.rd = NoArch THEN at.map ELSE [at.map EXCEPT ![inst.rd] = new],
       free |-> IF inst.rd = NoArch THEN at.free ELSE at.free \ {new},
       rob  |-> Append(at.rob, [id |-> at.id, op |-> inst.op, arch |-> inst.rd, new |-> new,
                                old |-> Mapped(at.map, inst.rd), finish |-> "no"]),
       port |-> Append(at.port, [id |-> at.id, op |-> inst.op, rd |-> new,
                  src1 |-> Mapped(at.map, inst.rs1), src2 |-> Mapped(at.map, inst.rs2),
                  val1 |-> IF inst.rs1 = NoArch THEN NoPhy ELSE Unloaded,
                  val2 |-> IF inst.rs2 = NoArch THEN NoPhy ELSE Unloaded]),
       id   |-> (at.id + 1) % ROB_SIZE]

RenamedUpTo(group) ==
  LET at[i \in 0 .. Len(group)] ==
        IF i = 0 THEN [map |-> map, free |-> FreePhy, rob |-> rob, port |-> << >>, id |-> next_id]
        ELSE RenameOne(at[i - 1], group[i])
  IN  at

Renamed(group) == RenamedUpTo(group)[Len(group)]

\* The places that commit has freed in this cycle are not free yet.
CanRename(group) ==
  /\ Len(rob) + Cardinality(committed) + Len(group) <= ROB_SIZE
  /\ Cardinality({i \in DOMAIN group : group[i].rd # NoArch}) <= Cardinality(FreePhy)

Written == {r.rd : r \in wb_feedback_pack}

\* A register is Junk to the instruction it is given to until that writes it.
ReadregRenameSync(group) ==
  /\ stage = "readreg"
  /\ CanRename(group)
  /\ stall => group = << >>
  /\ readreg_issue' = IF stall THEN readreg_issue
                      ELSE [i \in DOMAIN rename_readreg |-> Read(rename_readreg[i])]
  /\ rename_readreg' = IF stall THEN rename_readreg ELSE Renamed(group).port
  /\ rob' = Renamed(group).rob /\ next_id' = Renamed(group).id /\ map' = Renamed(group).map
  /\ data_valid' = (data_valid \ released) \cup Written
  /\ content' = [p \in Phy |->
       IF p \in FreePhy \ Renamed(group).free THEN Junk
       ELSE IF p \in Written THEN (CHOOSE r \in wb_feedback_pack : r.rd = p).value
       ELSE content[p]]
  /\ stores' = stores \ committed
  /\ draining' = (IF draining > 0 THEN draining - 1 ELSE 0) + Cardinality(stores \cap committed)
  /\ released' = {} /\ committed' = {} /\ next_handle_rob_id' = 0
  /\ stage' = "commit"
  /\ UNCHANGED <<issuevars, units, commit_port>>

-----------------------------------------------------------------------------

Next ==
  \/ \E n \in Retires : Commit(n)
  \/ \E n \in {0} \cup Retires : Flush(n)
  \/ \E raises \in SUBSET {x \in Executing \ held : x.op \in Raising} : Execute(raises)
  \/ Run
  \/ \E group \in BoundedSeq(Inst, RENAME_WIDTH) : ReadregRenameSync(group)

Spec == Init /\ [][Next]_vars

\* Cycles go on.
FairSpec == Spec /\ WF_vars(Next)

-----------------------------------------------------------------------------
(* Properties.                                                             *)

\* Every variable ranges over what its class can hold: no port, queue or FIFO
\* beyond its size (main.cpp:471-499), one store waiting in the unit (lsu.cpp:239-243).
TypeOK ==
  /\ rob \in Seq(Entry) /\ Len(rob) <= ROB_SIZE /\ next_id \in RobId
  /\ map \in [Arch -> Phy] /\ IsInjective(map)
  /\ data_valid \subseteq Phy /\ content \in [Phy -> Value]
  /\ rename_readreg \in Seq(Pack) /\ Len(rename_readreg) <= RENAME_WIDTH
  /\ readreg_issue \in Seq(Pack) /\ Len(readreg_issue) <= RENAME_WIDTH
  /\ issue_q \in Seq(Pack) /\ Len(issue_q) <= ISSUE_QUEUE_SIZE
  /\ is_inst_waiting \in BOOLEAN /\ inst_waiting_rob_id \in RobId
  /\ fifo \in [Unit -> SUBSET Pack] /\ \A u \in Unit : Cardinality(fifo[u]) <= unit_cnt(u)
  /\ held \subseteq Pack /\ Cardinality(held) <= 1
  /\ wb_port \subseteq Result /\ commit_port \subseteq Result
  /\ stores \subseteq RobId /\ draining \in 0 .. STORE_BUFFER_SIZE
  /\ Cardinality(stores) + draining <= STORE_BUFFER_SIZE
  /\ committed \subseteq RobId /\ next_handle_rob_id \in RobId
  /\ released \subseteq Phy
  /\ stage \in {"commit", "execute", "issue", "readreg"}

Ids(things) == {x.id : x \in things}

InUnits == held \cup UNION {fifo[u] : u \in Unit}

Results == wb_port \cup commit_port

Before == ToSet(rename_readreg) \cup ToSet(readreg_issue) \cup ToSet(issue_q)

Unfinished == {e.id : e \in {e \in ToSet(rob) : e.finish = "no"}}

\* Every entry of the reorder buffer that has not finished is in exactly one
\* place between rename and commit, and nothing else is anywhere.  What the
\* scan takes out of the queue (item_id_list, issue.cpp:1014) is sent by a
\* second loop that may stop early (issue.cpp:1109, 1385): the instruction
\* would be gone.  What a flush leaves behind would be there twice.
NothingLostOrDoubled ==
  /\ Ids(Before) \cup Ids(InUnits) \cup Ids(Results) = Unfinished
  /\ Len(rename_readreg) + Len(readreg_issue) + Len(issue_q) + Cardinality(InUnits)
       + Cardinality(Results) = Cardinality(Unfinished)

Awaited(x) ==
  (IF x.val1 = Unloaded THEN {x.src1} ELSE {}) \cup (IF x.val2 = Unloaded THEN {x.src2} ELSE {})

\* What an instruction in the queue waits for is still to come: it is neither
\* in the register file nor has it been announced, for both feedbacks are
\* over once it is written (issue.cpp:1397-1465, 1545-1604; readreg.cpp:306-405).
\* A result announced while the instruction sat in the port would be missed.
NoMissedResult ==
  stage = "commit" =>
    \A x \in ToSet(issue_q) : \A src \in Awaited(x) :
      /\ src \notin data_valid
      /\ \A r \in Results : r.rd = src => r.raised

\* Whatever is sent to a unit carries what the producers of its operands
\* computed, by whichever of the ways it came and however often the physical
\* register was reused (issue.cpp:1067-1147).
OperandsRight == \A x \in InUnits : x.val1 = x.src1 /\ x.val2 = x.src2

\* The i-th entry has left the queue for a unit.
Dispatched(i) == rob[i].finish # "no" \/ rob[i].id \in Ids(InUnits) \cup Ids(Results)

\* "csr and mret instruction must be executed after all instructions that is
\* before it has been commited" (issue.cpp:1053), and nothing after one is sent
\* before it has retired (inst_waiting_rob_id, issue.cpp:818-842, 1388).
AloneInTheMachine ==
  \A i \in DOMAIN rob : Alone(rob[i].op) /\ Dispatched(i) =>
    i = 1 /\ \A j \in DOMAIN rob \ {i} : ~Dispatched(j)

\* A fence is sent as the oldest instruction, when every store before it has
\* reached memory, and until then nothing after it is (fence_trigger,
\* issue.cpp:1007-1040).
FenceOrders ==
  \A i \in DOMAIN rob : rob[i].op = "fence" =>
    IF Dispatched(i) THEN i = 1 /\ draining = 0
    ELSE \A j \in DOMAIN rob : j > i => ~Dispatched(j)

Executed(i) == rob[i].finish # "no" \/ rob[i].id \in Ids(Results)

\* Loads and stores execute in program order, though the younger one may be
\* ready first and the store buffer may hold a store up in the unit
\* (has_lsu_op, issue.cpp:1011-1025; execute/lsu.cpp:235-247).
MemoryInOrder ==
  \A i, j \in DOMAIN rob :
    i < j /\ {UnitOf(rob[i].op), UnitOf(rob[j].op)} = {"lsu"} /\ Executed(j) => Executed(i)

\* Every instruction that has been renamed finishes or is flushed, whatever it
\* waits for: operands, a unit, the store buffer, or to be alone.  Pipeline
\* assumes it of its execution units.
EveryInstructionFinishes ==
  \A id \in RobId : id \in Unfinished ~> id \notin Unfinished

\* Rename is not held up for ever (issue_feedback_pack.stall, issue.cpp:1616).
StallEnds == []<>(stage = "readreg" /\ ~stall)

=============================================================================
