-------------------------------- MODULE Core --------------------------------
(***************************************************************************)
(* How the core keeps a program in order: fetch (pipeline/fetch.cpp) and   *)
(* what it waits for, commit (pipeline/commit.cpp) with its traps, mret    *)
(* and redirections, the control registers (component/csrfile.h) and the   *)
(* interrupt lines (component/interrupt_interface.h).                      *)
(*                                                                         *)
(* A clock cycle of top_source/main.cpp is two phases.  In "commit" each   *)
(* action is one iteration of commit's loop, so that each instruction      *)
(* retires in a step of its own.  "stages" is one action: the units, rename,*)
(* decode and fetch, which read the feedback commit has left, and the      *)
(* requests applied at the end of the cycle.  What Pipeline and Issue      *)
(* model is a delay here: an instruction is issued and later finishes,     *)
(* after any number of cycles, in the order Issue allows; registers and    *)
(* checkpoints are left out, so a branch may be predicted or not.          *)
(***************************************************************************)
EXTENDS Isa, Sequences, FiniteSetsExt

CONSTANTS
  ROB_SIZE, STORE_BUFFER_SIZE,
  FIFO_SIZE,     \* fetch_decode_fifo, decode_rename_fifo
  WIDTH          \* FETCH_WIDTH .. COMMIT_WIDTH

ASSUME CoreAssumption ==
  {ROB_SIZE, STORE_BUFFER_SIZE, FIFO_SIZE, WIDTH} \subseteq Nat \ {0}

VARIABLES
  pc, jump_wait,   \* fetch.cpp
  fetch_decode_fifo, decode_rename_fifo, rob,
  undrained,       \* retired stores still in the store buffer
  csr, csr_next,   \* as the units read them; with the writes queued this cycle
  pending,         \* interrupt lines (meip, msip, mtip)
  cur_state,       \* commit.cpp: normal, flush, interrupt_flush
  restore,         \* entries of rob still to walk back over
  interrupt,       \* interrupt_id and interrupt_pc
  popped,          \* entries of rob retired in this cycle
  feedback,        \* commit_feedback_pack
  phase,
  arch, last       \* ghosts: pc of the next instruction to retire, of the last

fetcher == <<pc, jump_wait, fetch_decode_fifo, decode_rename_fifo>>
walk    == <<cur_state, restore, interrupt>>
vars    == <<fetcher, rob, undrained, csr, csr_next, pending, walk, popped,
             feedback, phase, arch, last>>

NoFeedback ==
  [flush |-> FALSE, jump_enable |-> FALSE, has_exception |-> FALSE,
   jump |-> FALSE, next_pc |-> 0]

Unpredicted == [predicted |-> FALSE, jump |-> FALSE, next |-> 0]
Predicted(o) == [predicted |-> TRUE, jump |-> o.jump, next |-> o.next]

Init ==
  /\ pc = 0 /\ jump_wait = FALSE
  /\ fetch_decode_fifo = << >> /\ decode_rename_fifo = << >> /\ rob = << >>
  /\ undrained = 0
  /\ csr = Boot /\ csr_next = Boot /\ pending \in SUBSET Causes
  /\ cur_state = "normal" /\ restore = 0 /\ interrupt = [id |-> 0, pc |-> 0]
  /\ popped = 0 /\ feedback = NoFeedback /\ phase = "commit"
  /\ arch = 0 /\ last = 0

-----------------------------------------------------------------------------
(* Commit.                                                                 *)

\* mret is a branch to the branch unit and to commit (bru_op).  So is one with
\* an undefined funct3: not valid, but no exception, it is sent to the branch
\* unit, which passes it by (decode.cpp:246, 286; bru.cpp:331, 376-379).
IsBranch(p) == Op(p) \in {"branch", "mret"}

taken == pending \cap csr.mie
has_interrupt == "mie" \in csr.mstatus /\ taken # {}

rob_item == rob[popped + 1]

\* The loop looks at an entry.
Looking ==
  /\ phase = "commit" /\ cur_state = "normal"
  /\ popped < WIDTH /\ popped < Len(rob)

StartWalkBack(state) ==
  /\ cur_state' = state
  /\ restore' = Len(rob) - popped
  /\ feedback' = [NoFeedback EXCEPT !.flush = TRUE]
  /\ phase' = "stages"
  /\ UNCHANGED <<fetcher, rob, undrained, csr, csr_next, pending, popped, arch, last>>

\* Looked for once a cycle, before anything retires.
TakeInterrupt ==
  /\ Looking /\ popped = 0 /\ has_interrupt
  /\ interrupt' = [id |-> Min(taken), pc |-> rob_item.pc]
  /\ StartWalkBack("interrupt_flush")

Retiring == Looking /\ ~has_interrupt /\ rob_item.st = "finish"

TakeException ==
  /\ Retiring /\ Op(rob_item.pc) = "fault"
  /\ UNCHANGED interrupt
  /\ StartWalkBack("flush")

Retire(next) ==
  /\ arch' = next
  /\ last' = rob_item.pc
  /\ UNCHANGED <<fetcher, csr, pending, walk>>

\* What retiring an instruction that is no branch writes to the registers.
Written(e) ==
  [r \in DOMAIN csr_next |-> IF r \in DOMAIN e.write THEN e.write[r] ELSE csr_next[r]]

RetireOne ==
  /\ Retiring /\ ~IsBranch(rob_item.pc) /\ Op(rob_item.pc) # "fault"
  /\ popped' = popped + 1
  /\ csr_next' = Written(rob_item)
  /\ undrained' = IF Op(rob_item.pc) = "store" THEN undrained + 1 ELSE undrained
  /\ Retire(Succ(rob_item.pc))
  /\ UNCHANGED <<rob, feedback, phase>>

\* mstatus is read as it was when the cycle began, and mpie is kept.
Returned(p) ==
  IF Op(p) = "mret"
    THEN [csr_next EXCEPT !.mstatus = {b \in {"mie", "mpie"} : "mpie" \in csr.mstatus}]
    ELSE csr_next

Hit(e) ==
  e.out.jump = e.guess.jump /\ (e.out.next = e.guess.next \/ ~e.guess.jump)

\* After a branch the loop stops.  One that fetch waits for tells it where to
\* go on, one predicted wrongly empties the reorder buffer as well.
RetireBranch ==
  /\ Retiring /\ IsBranch(rob_item.pc)
  /\ csr_next' = Returned(rob_item.pc)
  /\ Retire(rob_item.out.next)
  /\ phase' = "stages"
  /\ IF rob_item.guess.predicted /\ Hit(rob_item)
       THEN /\ popped' = popped + 1
            /\ UNCHANGED <<rob, feedback>>
       ELSE /\ feedback' = [flush |-> rob_item.guess.predicted,
                            jump_enable |-> TRUE, has_exception |-> FALSE,
                            jump |-> rob_item.out.jump, next_pc |-> rob_item.out.next]
            /\ IF rob_item.guess.predicted
                 THEN rob' = << >> /\ popped' = 0
                 ELSE popped' = popped + 1 /\ UNCHANGED rob
  /\ UNCHANGED undrained

LoopEnds ==
  /\ phase = "commit" /\ cur_state = "normal"
  /\ \/ popped \in {WIDTH, Len(rob)}
     \/ Looking /\ ~has_interrupt /\ rob_item.st # "finish"
  /\ phase' = "stages"
  /\ UNCHANGED <<fetcher, rob, undrained, csr, csr_next, pending, walk, popped,
                 feedback, arch, last>>

\* States flush and interrupt_flush: one entry a cycle, back to the first.
WalkBack ==
  /\ phase = "commit" /\ cur_state # "normal" /\ restore > 1
  /\ restore' = restore - 1
  /\ feedback' = [NoFeedback EXCEPT !.flush = TRUE]
  /\ phase' = "stages"
  /\ UNCHANGED <<fetcher, rob, undrained, csr, csr_next, pending, cur_state,
                 interrupt, popped, arch, last>>

\* Mutant: interrupts stay enabled in their handler.
MutantTrapped ==
  IF cur_state = "flush"
    THEN [csr_next EXCEPT !.mepc = rob_item.pc, !.mcause = Exception]
    ELSE [csr_next EXCEPT !.mepc = interrupt.pc, !.mcause = interrupt.id]

\* The registers as the trap leaves them.
Trapped ==
  IF cur_state = "flush"
    THEN [csr_next EXCEPT !.mepc = rob_item.pc, !.mcause = Exception]
    ELSE [csr_next EXCEPT !.mepc = interrupt.pc, !.mcause = interrupt.id,
                          !.mstatus = {"mpie" : b \in csr.mstatus \cap {"mie"}}]

EnterHandler ==
  /\ phase = "commit" /\ cur_state # "normal" /\ restore = 1
  /\ csr_next' = Trapped
  /\ feedback' = [NoFeedback EXCEPT !.flush = TRUE, !.has_exception = TRUE,
                                    !.next_pc = csr.mtvec]
  /\ arch' = csr.mtvec
  /\ rob' = << >> /\ restore' = 0 /\ cur_state' = "normal"
  /\ interrupt' = [id |-> 0, pc |-> 0]
  /\ phase' = "stages"
  /\ UNCHANGED <<fetcher, undrained, csr, pending, popped, last>>

Commit ==
  \/ TakeInterrupt \/ TakeException \/ RetireOne \/ RetireBranch \/ LoopEnds
  \/ WalkBack \/ EnterHandler

-----------------------------------------------------------------------------
(* The units.  A renamed instruction waits, is issued, and finishes.       *)

\* Mutant: control registers are read like general ones.
MutantAlone(p) == Op(p) = "mret"

\* Its control registers are read, and its retirement awaited, one at a time.
Alone(p) == Op(p) \in {"csr", "read_csr", "mret"}

Unretired == popped + 1 .. Len(rob)

\* Nothing passes an instruction that has to be alone, which itself waits
\* until commit has come to it (next_handle_rob_id).
MayIssue(i) ==
  /\ rob[i].st = "wait"
  /\ Alone(rob[i].pc) => i = popped + 1
  /\ \A j \in Unretired : j < i => ~Alone(rob[j].pc)

IsStore(i) == Op(rob[i].pc) = "store"

\* A store takes its place in the store buffer, in program order.
RoomFor(i) ==
  /\ undrained + Cardinality({j \in Unretired : IsStore(j) /\ rob[j].st = "finish"})
       < STORE_BUFFER_SIZE
  /\ \A j \in Unretired : j < i /\ IsStore(j) => rob[j].st = "finish"

MayFinish(i) == rob[i].st = "issued" /\ (IsStore(i) => RoomFor(i))

Branching(moved) == {i \in moved : rob[i].st = "issued" /\ IsBranch(rob[i].pc)}

\* What may move on in a cycle; there is one branch unit and one way for stores.
Moves ==
  {moved \in SUBSET {i \in Unretired : MayIssue(i) \/ MayFinish(i)} :
     Cardinality(Branching(moved)) <= 1}

\* execute/bru.cpp; the units read the registers as the cycle began.
Results(p) == IF Op(p) = "mret" THEN {Jump(csr.mepc)} ELSE Outcomes(p)

Moved(e, out) ==
  IF e.st = "wait" THEN [e EXCEPT !.st = "issued"]
  ELSE [e EXCEPT !.st = "finish", !.out = out,
                 !.write = IF Op(e.pc) = "csr"
                             THEN [r \in {Program[e.pc].csr} |-> csr_newvalue(e.pc, csr)]
                             ELSE @]

\* The reorder buffer after the units and rename, without what has retired.
After(moved, out, renamed) ==
  SubSeq([i \in DOMAIN rob |-> IF i \in moved THEN Moved(rob[i], out) ELSE rob[i]],
         popped + 1, Len(rob)) \o
  [i \in 1 .. renamed |->
     [pc |-> decode_rename_fifo[i].pc, guess |-> decode_rename_fifo[i].guess,
      st |-> "wait", out |-> Pass(0), write |-> << >>]]

-----------------------------------------------------------------------------
(* Fetch.                                                                  *)

At(k) == (pc + k) % Cardinality(Pc)

\* Mutant: what rename has not taken yet is forgotten.
MutantIdle == fetch_decode_fifo = << >> /\ rob = << >> /\ undrained = 0

\* Fetch reads of decode, rename and commit whether they found anything to do
\* in this cycle, and the store buffer as it is.
Idle ==
  /\ fetch_decode_fifo = << >> /\ decode_rename_fifo = << >>
  /\ rob = << >>
  /\ undrained = 0

Blocked(k) == Op(At(k)) = "fence_i" /\ (k # 0 \/ ~Idle)

\* A FIFO has the room it had when the cycle began (pop_status_save).
Fetched ==
  {k \in 0 .. Min({WIDTH, FIFO_SIZE - Len(fetch_decode_fifo)}) - 1 :
     /\ \A j \in 0 .. k : ~Blocked(j)
     /\ \A j \in 0 .. k - 1 : ~IsBranch(At(j))}

LastFetched == At(Cardinality(Fetched) - 1)
FetchesBranch == Fetched # {} /\ IsBranch(LastFetched)

\* get_prediction, which has no answer for mret, for a branch with an undefined
\* funct3 and for some others, or whose answer is given up when the checkpoint
\* buffer is full.
Guesses ==
  {Unpredicted} \cup
  IF Op(LastFetched) = "branch" /\ Program[LastFetched].to # {}
    THEN {Predicted(o) : o \in Outcomes(LastFetched)} ELSE {}

Group(guess) ==
  [i \in 1 .. Cardinality(Fetched) |->
     [pc |-> At(i - 1),
      guess |-> IF i = Cardinality(Fetched) THEN guess ELSE Unpredicted]]

\* Mutant: only a jump ends the wait, not a branch passed by.
MutantFetch(guess) ==
  IF jump_wait
    THEN /\ jump_wait' = ~feedback.jump
         /\ pc' = IF feedback.jump THEN feedback.next_pc ELSE pc
    ELSE /\ jump_wait' = (FetchesBranch /\ ~guess.predicted)
         /\ pc' = IF guess.predicted THEN guess.next ELSE At(Cardinality(Fetched))

\* The pc and jump_wait fetch goes on with.
Fetch(guess) ==
  IF jump_wait
    THEN IF feedback.jump_enable
      THEN jump_wait' = FALSE /\ pc' = IF feedback.jump THEN feedback.next_pc ELSE pc
      ELSE UNCHANGED <<pc, jump_wait>>
    ELSE /\ jump_wait' = (FetchesBranch /\ ~guess.predicted)
         /\ pc' = IF guess.predicted THEN guess.next ELSE At(Cardinality(Fetched))

-----------------------------------------------------------------------------
(* The other half of the cycle.                                            *)

\* sync at the end of the cycle; lines rise and fall as they like.
Sync ==
  /\ csr' = csr_next
  /\ pending' \in SUBSET Causes
  /\ popped' = 0 /\ feedback' = NoFeedback /\ phase' = "commit"
  /\ UNCHANGED <<csr_next, walk, arch, last>>

\* store_buffer.run: a store that retired before this cycle reaches memory.
RetiredNow == Cardinality({i \in 1 .. popped : IsStore(i)})
Drained == undrained - Min({1, undrained - RetiredNow})

Flushed ==
  /\ phase = "stages" /\ feedback.flush
  /\ fetch_decode_fifo' = << >> /\ decode_rename_fifo' = << >>
  /\ rob' = SubSeq(rob, popped + 1, Len(rob))
  /\ jump_wait' = FALSE
  /\ pc' = IF feedback.has_exception \/ feedback.jump_enable THEN feedback.next_pc ELSE pc
  /\ UNCHANGED undrained
  /\ Sync

\* Mutant: the entry commit frees in this cycle is counted as free.
MutantRenamable == Min({WIDTH, Len(decode_rename_fifo), ROB_SIZE - Len(rob) + 1})

Renamable == Min({WIDTH, Len(decode_rename_fifo), ROB_SIZE - Len(rob)})
Decoded == Min({WIDTH, Len(fetch_decode_fifo), FIFO_SIZE - Len(decode_rename_fifo)})

\* moved: what the units do; renamed: how many instructions rename takes,
\* held up by a stall, by registers or by the reorder buffer.
Advance(moved, renamed) ==
  /\ phase = "stages" /\ ~feedback.flush
  /\ \E out \in {o \in {Pass(0)} : Branching(moved) = {}}
                  \cup UNION {Results(rob[i].pc) : i \in Branching(moved)} :
       rob' = After(moved, out, renamed)
  /\ \E guess \in IF FetchesBranch /\ ~jump_wait THEN Guesses ELSE {Unpredicted} :
       /\ Fetch(guess)
       /\ fetch_decode_fifo' =
            SubSeq(fetch_decode_fifo, Decoded + 1, Len(fetch_decode_fifo)) \o
              IF jump_wait THEN << >> ELSE Group(guess)
  /\ decode_rename_fifo' =
       SubSeq(decode_rename_fifo, renamed + 1, Len(decode_rename_fifo)) \o
         SubSeq(fetch_decode_fifo, 1, Decoded)
  /\ undrained' = Drained
  /\ Sync

Stages ==
  \/ Flushed
  \/ \E moved \in Moves, renamed \in 0 .. Renamable : Advance(moved, renamed)

Next == Commit \/ Stages

Spec == Init /\ [][Next]_vars

-----------------------------------------------------------------------------
(* The clock runs, and what Issue and Renaming promise: no instruction is  *)
(* held up for ever, so that cycles in which all that can move does come   *)
(* again and again.                                                        *)

Busiest == \E moved \in Moves :
  /\ \A i \in Unretired : MayIssue(i) \/ (MayFinish(i) /\ ~IsBranch(rob[i].pc)) => i \in moved
  /\ (\E i \in Unretired : MayFinish(i) /\ IsBranch(rob[i].pc)) => Branching(moved) # {}
  /\ Advance(moved, Renamable)

Fairness == WF_vars(Next) /\ SF_vars(Busiest)

FairSpec == Spec /\ Fairness

-----------------------------------------------------------------------------
(* Properties.                                                             *)

TypeOK ==
  /\ {pc, arch, last} \subseteq Pc /\ jump_wait \in BOOLEAN
  /\ Len(fetch_decode_fifo) <= FIFO_SIZE /\ Len(decode_rename_fifo) <= FIFO_SIZE
  /\ Len(rob) <= ROB_SIZE
  /\ undrained \in 0 .. STORE_BUFFER_SIZE
  /\ csr \in Csr /\ csr_next \in Csr /\ pending \subseteq Causes
  /\ cur_state \in {"normal", "flush", "interrupt_flush"}
  /\ restore \in 0 .. Len(rob) /\ popped \in 0 .. Len(rob)

\* Program order, with control registers read and written at once and precise
\* traps, is all a program can see, though registers are written at the end of
\* the cycle in which an instruction retires (commit.cpp:727), mret reads them
\* when it executes and again when it retires (bru.cpp:371, commit.cpp:748), and
\* an interrupt is decided cycles before mstatus changes (commit.cpp:574, 1281).
H == INSTANCE Hart WITH pc <- arch, csr <- csr_next, last <- last
ImplementsHart == H!Spec

\* When a fence.i is anywhere in the core, every instruction before it has
\* retired and every store before it has reached memory, so what is fetched
\* after it is what they wrote (fetch.cpp:249).
InFlight == rob \o decode_rename_fifo \o fetch_decode_fifo
FenceIAlone ==
  \A i \in DOMAIN InFlight : Op(InFlight[i].pc) = "fence_i" =>
    i <= popped + 1 /\ (i = popped + 1 => undrained = 0)

\* Whatever is flushed, mispredicted, trapped or waited for, the program goes
\* on: the jumps and fences fetch waits for are not among what a flush drops
\* (fetch.cpp:184-196, 249, 360-373).
FetchNeverStuck == []<><<RetireOne \/ RetireBranch \/ EnterHandler>>_vars

\* An interrupt that is pending and enabled is taken, or goes away: it is not
\* enough that its handler has been started (commit.cpp:574, 1271-1281).
InterruptTaken == []<>~has_interrupt
=============================================================================
