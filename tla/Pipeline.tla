------------------------------ MODULE Pipeline ------------------------------
(***************************************************************************)
(* The loop that makes DreamCore out of order, cycle by cycle: fetch       *)
(* (pipeline/fetch.cpp), rename (pipeline/rename.cpp), write back          *)
(* (pipeline/wb.cpp) and commit (pipeline/commit.cpp) around the alias     *)
(* table, the reorder buffer, the checkpoint buffer and the data-valid     *)
(* bits of the register file.                                              *)
(*                                                                         *)
(* top_source/main.cpp runs the stages from the last to the first within a *)
(* cycle, each handing its feedback to the earlier ones, and applies the   *)
(* requests they queued (the *_sync functions) at the end.  The variable   *)
(* stage says whose turn it is and slot how many iterations of its loop    *)
(* have run, so that one action is one iteration; what fetch does and the  *)
(* end of the cycle, and all that a flush does to the stages before        *)
(* commit, are one action each, since nobody looks in between.             *)
(*                                                                         *)
(* Decode, issue and the execution units appear by what these stages see   *)
(* of them: the two front-end FIFOs are one queue, and a renamed           *)
(* instruction is in flight until some unit hands in a result, in any      *)
(* order.  Values and program counters are left out: a fetched branch is   *)
(* born with the fate of its prediction, and off_path remembers that fetch *)
(* is past a branch that was predicted wrongly.                            *)
(***************************************************************************)
EXTENDS Rat, Ring, FiniteSets

CONSTANTS
  ROB_SIZE, CHECKPOINT_BUFFER_SIZE,
  FRONT_SIZE,     \* room in fetch_decode_fifo and decode_rename_fifo
  FETCH_WIDTH, RENAME_WIDTH, WB_WIDTH, COMMIT_WIDTH,
  Kind            \* the kinds of instructions in the program, see below

\* "jump": a branch fetch could not or did not predict, an mret;
\* "hit", "miss": a branch predicted rightly, wrongly; "plain": the others.
ASSUME KindAssumption == Kind \subseteq {"plain", "jump", "hit", "miss"}

ASSUME PipelineAssumption ==
  /\ {ROB_SIZE, CHECKPOINT_BUFFER_SIZE, FRONT_SIZE, FETCH_WIDTH, RENAME_WIDTH,
      WB_WIDTH, COMMIT_WIDTH} \subseteq Nat \ {0}
  /\ ROB_SIZE > 1

VARIABLES
  rat, data_valid,          \* alias table, register file
  rob, checkpoint_buffer,   \* the two rings
  rat_q, reg_q, rob_q, cp_q,   \* their sync_request_q
  cur_state, rob_item_id, restore_rob_item_id,   \* commit.cpp
  front, jump_wait, off_path,   \* fetch.cpp and the FIFOs after it
  inflight,   \* packs between rename and write back
  port,       \* wb_commit_port
  feedback,   \* commit_feedback_pack of this cycle
  stage, slot

machine == <<rat, data_valid, rob, checkpoint_buffer>>
queues  == <<rat_q, reg_q, rob_q, cp_q>>
walk    == <<cur_state, rob_item_id, restore_rob_item_id>>
fetcher == <<front, jump_wait, off_path>>
units   == <<inflight, port>>
vars    == <<machine, queues, walk, fetcher, units, feedback, stage, slot>>

NoPhy == PHY_REG_NUM
NoId  == -1          \* checkpoint_id_valid is false
RobId  == 0 .. ROB_SIZE - 1
CpId   == 0 .. CHECKPOINT_BUFFER_SIZE - 1

Result == {"ok", "exception", "jump", "hit", "miss"}

FrontItem == [kind : Kind, cp : CpId \cup {NoId}, wrong : BOOLEAN]
Pack      == [id : RobId, rd_phy : Phy \cup {NoPhy}, kind : Kind, cp : CpId \cup {NoId}]
Answer    == [id : RobId, rd_phy : Phy \cup {NoPhy}, result : Result, cp : CpId \cup {NoId}]
RobItem   == [new : Phy \cup {NoPhy}, old : Phy \cup {NoPhy},
              finish : Result \cup {"no"}, cp : CpId \cup {NoId}, wrong : BOOLEAN]

\* A checkpoint as fetch pushes it, before rename has filled it in.
Blank == [valid |-> {}, visible |-> {}]

Init ==
  /\ rat = reset_map
  /\ data_valid = Arch
  /\ rob = empty_ring(ROB_SIZE)
  /\ checkpoint_buffer = empty_ring(CHECKPOINT_BUFFER_SIZE)
  /\ rat_q = << >> /\ reg_q = << >> /\ rob_q = << >> /\ cp_q = << >>
  /\ cur_state = "normal" /\ rob_item_id = 0 /\ restore_rob_item_id = 0
  /\ front = << >> /\ jump_wait = FALSE /\ off_path = FALSE
  /\ inflight = {} /\ port = << >>
  /\ feedback = "none" /\ stage = "commit" /\ slot = 0

-----------------------------------------------------------------------------
(* The requests of the sync queues, and their effect.                      *)

SetMap(a, p)     == [op |-> "set_map", arch |-> a, phy |-> p]
ReleaseMap(p)    == [op |-> "release_map", phy |-> p]
CommitMap(p)     == [op |-> "commit_map", phy |-> p]
RestoreMap(n, o) == [op |-> "restore_map", new |-> n, old |-> o]
Restore(cp)      == [op |-> "restore", cp |-> cp]
Write(p, valid)  == [op |-> "write", phy |-> p, valid |-> valid]
SetItem(id, x)   == [op |-> "set_item", id |-> id, item |-> x]
Pop              == [op |-> "pop"]

ApplyRat(r, q) ==
  CASE q.op = "set_map"     -> set_map(r, q.arch, q.phy)
    [] q.op = "release_map" -> release_map(r, q.phy)
    [] q.op = "commit_map"  -> commit_map(r, q.phy)
    [] q.op = "restore_map" -> restore_map(r, q.new, q.old)
    [] q.op = "restore"     -> restore(r, q.cp)

ApplyReg(valid, q) ==
  CASE q.op = "restore" -> q.cp.data_valid
    [] q.op = "write" /\ q.valid  -> valid \cup {q.phy}
    [] q.op = "write" /\ ~q.valid -> valid \ {q.phy}

ApplyRing(r, q) == IF q.op = "pop" THEN pop(r) ELSE set_item(r, q.id, q.item)

\* What is left of each when the requests of a queue have been applied.
RatAfter(r, q) ==
  LET after[k \in 0 .. Len(q)] == IF k = 0 THEN r ELSE ApplyRat(after[k - 1], q[k])
  IN  after[Len(q)]

RegAfter(valid, q) ==
  LET after[k \in 0 .. Len(q)] == IF k = 0 THEN valid ELSE ApplyReg(after[k - 1], q[k])
  IN  after[Len(q)]

RingAfter(r, q) ==
  LET after[k \in 0 .. Len(q)] == IF k = 0 THEN r ELSE ApplyRing(after[k - 1], q[k])
  IN  after[Len(q)]

SyncedRat  == RatAfter(rat, rat_q)
SyncedData == RegAfter(data_valid, reg_q)
SyncedRob  == RingAfter(rob, rob_q)
SyncedCp   == RingAfter(checkpoint_buffer, cp_q)

flushing == feedback \in {"flush", "flush_jump", "flush_exception"}

CommitEnds == stage' = "wb" /\ slot' = 0

-----------------------------------------------------------------------------
(* Commit, state normal.                                                   *)

\* The entry the loop looks at, and whether there is one.
current_id == (rob.rptr + slot) % ROB_SIZE
rob_item   == get_item(rob, current_id)
Looking    == /\ stage = "commit" /\ cur_state = "normal"
              /\ slot < COMMIT_WIDTH /\ slot < get_size(rob)

StartWalkBack(state) ==
  /\ cur_state' = state
  /\ rob_item_id' = current_id
  /\ restore_rob_item_id' = get_tail_id(rob)
  /\ feedback' = "flush"
  /\ CommitEnds
  /\ UNCHANGED <<machine, queues, fetcher, units>>

\* An interrupt is looked for once a cycle, before any entry retires.
Interrupt == Looking /\ slot = 0 /\ StartWalkBack("interrupt_flush")

Exception == Looking /\ rob_item.finish = "exception" /\ StartWalkBack("flush")

\* What every retirement queues.
Released ==
  IF rob_item.old = NoPhy THEN rat_q
  ELSE rat_q \o <<ReleaseMap(rob_item.old), CommitMap(rob_item.new)>>

Unwritten ==
  IF rob_item.old = NoPhy THEN reg_q ELSE Append(reg_q, Write(rob_item.old, FALSE))

\* Mutant: every instruction that retires gives a checkpoint back.
MutantAlwaysGivesBack == Append(cp_q, Pop)

GivenBack == IF rob_item.finish = "hit" THEN Append(cp_q, Pop) ELSE cp_q

\* Mutant: a jump is reported only from the first place of the group.
MutantJumpOnlyFirst == IF rob_item.finish = "jump" /\ slot = 0 THEN "jump" ELSE feedback

Reported == IF rob_item.finish = "jump" THEN "jump" ELSE feedback

\* A predicted branch that hit gives its checkpoint back and ends the group,
\* as a jump does that was not predicted, whose target fetch is waiting for.
Retire ==
  /\ Looking
  /\ rob_item.finish \in {"ok", "jump", "hit"}
  /\ rob_q' = Append(rob_q, Pop)
  /\ rat_q' = Released
  /\ reg_q' = Unwritten
  /\ cp_q' = GivenBack
  /\ feedback' = Reported
  /\ slot' = IF rob_item.finish = "ok" THEN slot + 1 ELSE COMMIT_WIDTH
  /\ UNCHANGED <<machine, walk, fetcher, units, stage>>

\* The checkpoint with the register the branch itself releases taken out,
\* reduced to the visible registers, all of them declared written.
restored_checkpoint ==
  LET cp == get_item(checkpoint_buffer, rob_item.cp)
  IN  [valid |-> cp.visible, visible |-> cp.visible, data_valid |-> cp.visible]

Mispredict ==
  /\ Looking
  /\ rob_item.finish = "miss"
  /\ rat_q' = Append(Released, Restore(restored_checkpoint))
  /\ reg_q' = Append(Unwritten, Restore(restored_checkpoint))
  /\ rob_q' = Append(rob_q, Pop)
  /\ rob' = flush(rob)
  /\ checkpoint_buffer' = flush(checkpoint_buffer)
  /\ feedback' = "flush_jump"
  /\ CommitEnds
  /\ UNCHANGED <<rat, data_valid, cp_q, walk, fetcher, units>>

\* Mutant: the result of an instruction that raises an exception is ignored.
MutantExceptionIgnored(answer) ==
  IF answer.result = "exception" THEN get_item(rob, answer.id)
  ELSE [get_item(rob, answer.id) EXCEPT !.finish = answer.result, !.cp = answer.cp]

Finished(answer) ==
  [get_item(rob, answer.id) EXCEPT !.finish = answer.result, !.cp = answer.cp]

\* The loop is over; the results that wb sent a cycle ago are taken in.
CommitInput ==
  /\ stage = "commit" /\ cur_state = "normal"
  /\ Looking => rob_item.finish = "no"
  /\ rob_q' = rob_q \o [i \in 1 .. Len(port) |-> SetItem(port[i].id, Finished(port[i]))]
  /\ port' = << >>
  /\ CommitEnds
  /\ UNCHANGED <<machine, rat_q, reg_q, cp_q, walk, fetcher, inflight, feedback>>

(* Commit, states flush and interrupt_flush: one entry a cycle, youngest   *)
(* first, down to the one that raised the exception.                       *)
WalkBack ==
  LET item == get_item(rob, restore_rob_item_id)
      more == /\ restore_rob_item_id # rob_item_id
              /\ check_id_valid(rob, prev_id(rob, restore_rob_item_id))
  IN
  /\ stage = "commit" /\ cur_state # "normal"
  /\ rat_q' = IF item.old = NoPhy THEN rat_q
              ELSE Append(rat_q, RestoreMap(item.new, item.old))
  /\ reg_q' = IF item.old = NoPhy THEN reg_q
              ELSE Append(reg_q, Write(item.new, FALSE))
  /\ IF more
     THEN /\ restore_rob_item_id' = prev_id(rob, restore_rob_item_id)
          /\ feedback' = "flush"
          /\ UNCHANGED <<rob, cur_state, rob_item_id>>
     ELSE /\ rob' = flush(rob)
          /\ feedback' = "flush_exception"
          /\ cur_state' = "normal"
          /\ rob_item_id' = 0 /\ restore_rob_item_id' = 0
  /\ CommitEnds
  /\ UNCHANGED <<rat, data_valid, checkpoint_buffer, rob_q, cp_q, fetcher, units>>

-----------------------------------------------------------------------------
(* Write back.                                                             *)

\* What fetch waits for never raises an exception.  Even a branch with an
\* undefined funct3 is sent to the branch unit, which passes it by, and retires
\* like the others (decode.cpp:246, 286; bru.cpp:331, 376-379): only the ALU and
\* the CSR unit raise exceptions of their own, the LSU's come from issue.
ResultsOf(pack) == IF pack.kind = "plain" THEN {"ok", "exception"} ELSE {pack.kind}

WriteBack(pack, result) ==
  /\ stage = "wb" /\ ~flushing
  /\ slot < WB_WIDTH
  /\ inflight' = inflight \ {pack}
  /\ port' = Append(port, [id |-> pack.id, rd_phy |-> pack.rd_phy,
                           result |-> result, cp |-> pack.cp])
  /\ reg_q' = IF pack.rd_phy = NoPhy \/ result = "exception" THEN reg_q
              ELSE Append(reg_q, Write(pack.rd_phy, TRUE))
  /\ slot' = slot + 1
  /\ UNCHANGED <<machine, rat_q, rob_q, cp_q, walk, fetcher, feedback, stage>>

-----------------------------------------------------------------------------
(* Rename: none, some or all of a group, as far as issue lets it.          *)

\* The mappings this cycle's group has asked for, by their place in the queue.
GroupMaps == {k \in DOMAIN rat_q : rat_q[k].op = "set_map"}

\* Mutant: the group's own mappings are overlooked.
MutantOldFromTable(rd) == get_phy_id(rat, rd)

\* The register a destination replaces: the last one of the group for the
\* same architectural register, else the one in the table.
OldPhy(rd) ==
  LET mine == {k \in GroupMaps : rat_q[k].arch = rd}
  IN  IF mine = {} THEN get_phy_id(rat, rd)
      ELSE {rat_q[CHOOSE k \in mine : \A l \in mine : l <= k].phy}

\* get_free_phy_id: the lowest registers the table shows as free, as many as
\* the group needs with this destination; each takes the next one.
free_phy == Phy \ rat.valid

Below(p) == {q \in free_phy : q < p}

\* Mutant: the whole group is given the same register.
MutantSameRegister == CHOOSE p \in free_phy : Below(p) = {}

new_phy_reg_id ==
  CHOOSE p \in free_phy : Cardinality(Below(p)) = Cardinality(GroupMaps)

\* Mutant: the checkpoint shows the table as the group found it.
MutantCheckpointOfTable(requests) == save(rat)

\* The table with the mappings among the requests alone.
MapsAfter(r, q) ==
  LET after[k \in 0 .. Len(q)] ==
        IF k = 0 THEN r
        ELSE IF q[k].op = "set_map" THEN ApplyRat(after[k - 1], q[k]) ELSE after[k - 1]
  IN  after[Len(q)]

\* The table's bitmaps as the group leaves them, its mappings asked for.
global_cp(requests) == save(MapsAfter(rat, requests))

FillCheckpoint(inst, cp) ==
  cp_q' = IF inst.cp = NoId THEN cp_q ELSE Append(cp_q, SetItem(inst.cp, cp))

\* How many instructions of the group have been renamed.
renamed == IF stage = "rename" THEN slot ELSE 0

\* The front instruction becomes an entry of the buffer and a pack in flight.
Enter(inst, new, old) ==
  /\ rob' = push(rob, [new |-> new, old |-> old, finish |-> "no",
                       cp |-> NoId, wrong |-> inst.wrong])
  /\ inflight' = inflight \cup {[id |-> get_new_id(rob), rd_phy |-> new,
                                 kind |-> inst.kind, cp |-> inst.cp]}
  /\ front' = Tail(front)
  /\ stage' = "rename" /\ slot' = renamed + 1

CanRename ==
  /\ stage \in {"wb", "rename"} /\ ~flushing
  /\ renamed < RENAME_WIDTH
  /\ front # << >>
  /\ get_free_space(rob) >= 1

RenameDest(rd) ==
  /\ CanRename
  /\ Cardinality(free_phy) > Cardinality(GroupMaps)
  /\ rat_q' = Append(rat_q, SetMap(rd, new_phy_reg_id))
  /\ \E old \in OldPhy(rd) : Enter(Head(front), new_phy_reg_id, old)
  /\ FillCheckpoint(Head(front), global_cp(rat_q'))
  /\ UNCHANGED <<rat, data_valid, checkpoint_buffer, reg_q, rob_q, walk,
                 jump_wait, off_path, port, feedback>>

RenameNoDest ==
  /\ CanRename
  /\ Enter(Head(front), NoPhy, NoPhy)
  /\ FillCheckpoint(Head(front), global_cp(rat_q))
  /\ UNCHANGED <<rat, data_valid, checkpoint_buffer, rat_q, reg_q, rob_q, walk,
                 jump_wait, off_path, port, feedback>>

-----------------------------------------------------------------------------
(* Fetch, and the end of the cycle.                                        *)

\* Each component applies the requests in its queue, in their order.  The
\* checkpoint buffer starts from what fetch made of it.
SyncAll(fetched) ==
  /\ rat' = SyncedRat /\ data_valid' = SyncedData
  /\ rob' = SyncedRob /\ checkpoint_buffer' = RingAfter(fetched, cp_q)
  /\ rat_q' = << >> /\ reg_q' = << >> /\ rob_q' = << >> /\ cp_q' = << >>
  /\ feedback' = "none"
  /\ stage' = "commit" /\ slot' = 0

\* What one run of fetch can bring in: a branch is the last of its group.
FetchGroup ==
  {group \in UNION {[1 .. n -> Kind] : n \in 0 .. FETCH_WIDTH} :
     \A i \in 1 .. Len(group) - 1 : group[i] = "plain"}

FetchAndSync(group) ==
  LET branch    == IF group = << >> THEN "plain" ELSE group[Len(group)]
      predicted == branch \in {"hit", "miss"}
  IN
  /\ stage \in {"wb", "rename"} /\ ~flushing
  /\ jump_wait => group = << >>
  /\ Len(front) + Len(group) <= FRONT_SIZE
  /\ predicted => ~is_full(checkpoint_buffer)
  /\ front' = front \o
       [i \in 1 .. Len(group) |->
          [kind |-> group[i], wrong |-> off_path,
           cp |-> IF group[i] \in {"hit", "miss"} THEN get_new_id(checkpoint_buffer)
                  ELSE NoId]]
  /\ jump_wait' = IF jump_wait THEN feedback # "jump" ELSE branch = "jump"
  /\ off_path' = (off_path \/ branch = "miss")
  /\ SyncAll(IF predicted THEN push(checkpoint_buffer, Blank) ELSE checkpoint_buffer)
  /\ UNCHANGED <<walk, units>>

\* The rest of a cycle in which commit flushes, by what the stages are left
\* with.  The next instruction to be fetched is the right one once a
\* mispredicted branch or the end of the walk back has redirected fetch.
FlushTo(packs, answers, queued, waiting) ==
  /\ stage = "wb" /\ flushing
  /\ inflight' = packs /\ port' = answers
  /\ front' = queued /\ jump_wait' = waiting
  /\ off_path' = (off_path /\ feedback = "flush")
  /\ SyncAll(checkpoint_buffer)
  /\ UNCHANGED walk

\* Mutants: wb's port, the FIFOs or the wait for a jump survive the flush.
MutantPortSurvives  == FlushTo({}, port, << >>, FALSE)
MutantFrontSurvives == FlushTo({}, << >>, front, FALSE)
MutantWaitSurvives  == FlushTo({}, << >>, << >>, jump_wait)

\* Every stage and unit drops what it holds.
FlushAndSync == FlushTo({}, << >>, << >>, FALSE)

-----------------------------------------------------------------------------

Next ==
  \/ Interrupt
  \/ Exception
  \/ Retire
  \/ Mispredict
  \/ CommitInput
  \/ WalkBack
  \/ \E pack \in inflight : \E result \in ResultsOf(pack) : WriteBack(pack, result)
  \/ \E rd \in Arch : RenameDest(rd)
  \/ RenameNoDest
  \/ \E group \in FetchGroup : FetchAndSync(group)
  \/ FlushAndSync

Spec == Init /\ [][Next]_vars

\* Every cycle ends, the units answer for every instruction they are not
\* told to drop, and issue does not stall rename for ever.
Fairness ==
  /\ WF_vars(Next)
  /\ \A id \in RobId :
       SF_vars(\E pack \in inflight : \E result \in ResultsOf(pack) :
                 pack.id = id /\ WriteBack(pack, result))
  /\ SF_vars(RenameNoDest \/ \E rd \in Arch : RenameDest(rd))

FairSpec == Spec /\ Fairness

-----------------------------------------------------------------------------
(***************************************************************************)
(* Refinement of Renaming: the rings with the queued requests applied.     *)
(***************************************************************************)

Pops == {k \in DOMAIN rob_q : rob_q[k].op = "pop"}

\* The entries that have neither retired nor been walked back, in order.
LiveRob ==
  LET ids == LiveIds(rob)
  IN  SubSeq(ids, Cardinality(Pops) + 1,
             IF cur_state = "normal" THEN Len(ids)
             ELSE 1 + ((restore_rob_item_id + ROB_SIZE - rob.rptr) % ROB_SIZE))

\* The packs and answers that name an entry.
PacksOf(id)   == {pack \in inflight : pack.id = id}
AnswersOf(id) == {port[k] : k \in {k \in DOMAIN port : port[k].id = id}}

\* The entry with the answer for it, wherever that is on its way.
Known(id) ==
  LET item == get_item(SyncedRob, id)
  IN  CASE cur_state # "normal" -> [item EXCEPT !.finish = "no", !.cp = NoId]
        [] cur_state = "normal" /\ AnswersOf(id) # {} ->
             LET a == CHOOSE a \in AnswersOf(id) : TRUE
             IN  [item EXCEPT !.finish = a.result, !.cp = a.cp]
        [] cur_state = "normal" /\ AnswersOf(id) = {} /\ PacksOf(id) # {} ->
             [item EXCEPT !.cp = (CHOOSE pack \in PacksOf(id) : TRUE).cp]
        [] OTHER -> item

StatusOf(finish) ==
  CASE finish = "no" -> "waiting"
    [] finish \in {"ok", "jump", "hit"} -> "done"
    [] finish = "miss" -> "missed"
    [] finish = "exception" -> "exception"

RefinedItem(id) ==
  LET item == Known(id)
  IN  [new    |-> item.new,
       old    |-> item.old,
       status |-> StatusOf(item.finish),
       cp     |-> IF item.cp = NoId THEN {} ELSE get_item(SyncedCp, item.cp).visible]

RefinedRob == LET ids == LiveRob IN [i \in 1 .. Len(ids) |-> RefinedItem(ids[i])]

R == INSTANCE Renaming
     WITH rat <- SyncedRat, data_valid <- SyncedData, rob <- RefinedRob

(***************************************************************************)
(* The cycle-level machine does to the table, the data-valid bits and the  *)
(* buffer what Renaming allows and nothing else: the order in which        *)
(* commit, wb and rename queue their requests, the delay until they are    *)
(* applied, the reuse of identifiers and the group renamed in one cycle    *)
(* are invisible (main.cpp:1061-1123).                                     *)
(***************************************************************************)
ImplementsRenaming == R!Spec

-----------------------------------------------------------------------------
(***************************************************************************)
(* Safety.                                                                 *)
(***************************************************************************)

TypeOK ==
  /\ rat \in RatType /\ data_valid \subseteq Phy
  /\ \A id \in RobId : get_item(rob, id) \in RobItem \cup {Dead}
  /\ rob.rptr \in RobId /\ rob.wptr \in RobId /\ rob.wrapped \in BOOLEAN
  /\ \A id \in CpId : get_item(checkpoint_buffer, id) \in CheckpointType \cup {Dead}
  /\ checkpoint_buffer.rptr \in CpId /\ checkpoint_buffer.wptr \in CpId
  /\ cur_state \in {"normal", "flush", "interrupt_flush"}
  /\ rob_item_id \in RobId /\ restore_rob_item_id \in RobId
  /\ front \in Seq(FrontItem) /\ Len(front) <= FRONT_SIZE
  /\ jump_wait \in BOOLEAN /\ off_path \in BOOLEAN
  /\ inflight \subseteq Pack /\ port \in Seq(Answer)
  /\ feedback \in {"none", "jump", "flush", "flush_jump", "flush_exception"}
  /\ stage \in {"commit", "wb", "rename"} /\ slot \in Nat

\* The assertions of the function a request calls when it is applied.
Legal(r, q) ==
  CASE q.op = "set_map"     -> set_map_asserts(r, q.arch, q.phy)
    [] q.op = "release_map" -> release_map_asserts(r, q.phy)
    [] q.op = "commit_map"  -> commit_map_asserts(r, q.phy)
    [] q.op = "restore_map" -> restore_map_asserts(r, q.new, q.old)
    [] q.op = "restore"     -> TRUE

(***************************************************************************)
(* When rat.h's sync applies the requests of a cycle one after the other,  *)
(* no assertion of the functions it calls fails (rat.h:518-550): what one  *)
(* stage asked for is still legal after what the others asked before it.   *)
(***************************************************************************)
RequestsLegal ==
  \A i \in 1 .. Len(rat_q) :
    Legal(RatAfter(rat, SubSeq(rat_q, 1, i - 1)), rat_q[i])

(***************************************************************************)
(* The assertions on the way to a restored checkpoint (commit.cpp:825,     *)
(* 803; rat.h:460-466): the checkpoint of a mispredicted branch still has  *)
(* the register the branch hides allocated and hidden, and shows exactly   *)
(* one register per architectural register.                                *)
(***************************************************************************)
RestoreAsserts ==
  Looking /\ rob_item.finish = "miss" =>
    LET cp == get_item(checkpoint_buffer, rob_item.cp)
    IN  /\ cp # Dead
        /\ rob_item.old # NoPhy => cp_release_map_asserts(cp, rob_item.old)
        /\ Cardinality(cp.visible) = ARCH_REG_NUM - 1

\* The checkpoints of the instructions after fetch, oldest first.
LiveCheckpoints ==
  [i \in 1 .. Len(LiveRob) |-> Known(LiveRob[i]).cp] \o [i \in 1 .. Len(front) |-> front[i].cp]

\* The branches after the i-th instruction.
BranchesAfter(i) == {j \in i + 1 .. Len(LiveCheckpoints) : LiveCheckpoints[j] # NoId}

(***************************************************************************)
(* The branches still to retire own the youngest slots of the checkpoint   *)
(* buffer, in order.  An exception or an interrupt leaves the slots of the *)
(* branches it removes in the buffer (commit.cpp:1123, 1236 flush the      *)
(* reorder buffer alone), and every later hit pops the oldest slot, not    *)
(* its own (commit.cpp:777); yet no slot is given up while its branch may  *)
(* still need it.                                                          *)
(***************************************************************************)
LiveCheckpointsIntact ==
  cur_state = "normal" /\ ~flushing =>
    \A i \in DOMAIN LiveCheckpoints : LiveCheckpoints[i] # NoId =>
      LET place == get_size(SyncedCp) - Cardinality(BranchesAfter(i))
      IN  place > 0 /\ LiveCheckpoints[i] = LiveIds(SyncedCp)[place]

(***************************************************************************)
(* An instruction is known to the execution units exactly as long as its   *)
(* entry waits for a result: none is answered twice, and no answer for a   *)
(* removed instruction reaches the entry that took its identifier over     *)
(* (wb.cpp:271, commit.cpp:882-991).                                       *)
(***************************************************************************)
OneAnswerPerEntry ==
  cur_state = "normal" /\ ~flushing =>
    /\ \A id \in RobId :
         LET item == get_item(SyncedRob, id)
         IN  Cardinality(PacksOf(id)) + Cardinality({k \in DOMAIN port : port[k].id = id})
               = IF item # Dead /\ item.finish = "no" THEN 1 ELSE 0
    /\ \A id \in RobId : check_id_valid(rob, id) <=> get_item(rob, id) # Dead

(***************************************************************************)
(* While fetch waits for a jump there is one, it is the youngest           *)
(* instruction, and it is the only one whose retirement could end the wait *)
(* (fetch.cpp:182-193, 306-310; commit.cpp:857-864).                       *)
(***************************************************************************)
JumpsPending ==
  [i \in 1 .. Len(LiveRob) |->
     IF PacksOf(LiveRob[i]) # {} THEN \E pack \in PacksOf(LiveRob[i]) : pack.kind = "jump"
     ELSE Known(LiveRob[i]).finish = "jump"]
  \o [i \in 1 .. Len(front) |-> front[i].kind = "jump"]

JumpWaitHasBranch ==
  cur_state = "normal" /\ ~flushing =>
    LET n == Len(JumpsPending)
    IN  /\ \A i \in 1 .. n - 1 : ~JumpsPending[i]
        /\ (jump_wait /\ feedback # "jump") <=> (n > 0 /\ JumpsPending[n])

(***************************************************************************)
(* No instruction fetched past a wrongly predicted branch retires, raises  *)
(* an exception or restores a checkpoint: the flush that follows the       *)
(* branch removes every one of them, wherever it is.                       *)
(***************************************************************************)
OnlyTheRightPathRetires ==
  [][Retire \/ Mispredict \/ Exception => ~rob_item.wrong]_vars

(***************************************************************************)
(* Liveness.                                                               *)
(***************************************************************************)

(***************************************************************************)
(* Nothing blocks for ever: the oldest instruction leaves the buffer, a    *)
(* flush ends, and fetch gets the target it waits for, even when flushes   *)
(* have left the checkpoint buffer full of slots nobody owns.              *)
(***************************************************************************)
HeadLeaves ==
  \A id \in RobId :
    ~is_empty(rob) /\ rob.rptr = id ~> is_empty(rob) \/ rob.rptr # id

FlushEnds == cur_state # "normal" ~> cur_state = "normal"

JumpWaitEnds == jump_wait ~> ~jump_wait

=============================================================================
