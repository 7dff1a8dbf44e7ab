---------------------------- MODULE QueuesProofs ----------------------------
(***************************************************************************)
(* Proofs for every size about the two queues of MCQueues.  Of Fifo: the   *)
(* type invariant, the meaning of the pointers, and the refinement of      *)
(* BoundedQueue.  Of IssueBuffer: the refinement of IssueList.             *)
(***************************************************************************)
EXTENDS MCQueues, SequenceTheorems, FiniteSetTheorems, TLAPS


Inv == TypeOK /\ PointersOK

(***************************************************************************)
(* Type correctness of fifo.h's state.  The flags and the numbers are      *)
(* taken apart, each half to the prover that can do it.                    *)
(***************************************************************************)
FlagsOK ==
  /\ wstage \in BOOLEAN /\ rstage \in BOOLEAN
  /\ pop_status_save \in BOOLEAN
  /\ rstage_saved \in BOOLEAN /\ flushed \in BOOLEAN

NumbersOK ==
  /\ buffer \in [Index -> Elem]
  /\ wptr \in Index /\ rptr \in Index /\ rptr_saved \in Index

LEMMA FlagsStep == FlagsOK /\ [Next]_vars => FlagsOK'
<1>. SUFFICES ASSUME FlagsOK, [Next]_vars PROVE FlagsOK'
  OBVIOUS
<1>. USE DEF FlagsOK
<1>1. \A ptr : /\ NextStage(ptr, wstage) \in BOOLEAN
               /\ NextStage(ptr, rstage) \in BOOLEAN
  BY DEF NextStage
<1>2. ASSUME NEW e \in Elem, Push(e) PROVE FlagsOK'
  BY <1>1, <1>2, Zenon DEF Push
<1>3. CASE Pop
  BY <1>1, <1>3, Zenon DEF Pop
<1>4. CASE Flush
  BY <1>4, Zenon DEF Flush
<1>5. CASE ResetPopStatus
  BY <1>5, Zenon DEF ResetPopStatus
<1>6. CASE UNCHANGED vars
  BY <1>6, Zenon DEF vars
<1>. QED  BY <1>2, <1>3, <1>4, <1>5, <1>6, Zenon DEF Next

LEMMA NumbersStep == NumbersOK /\ [Next]_vars => NumbersOK'
<1>. SUFFICES ASSUME NumbersOK, [Next]_vars PROVE NumbersOK'
  OBVIOUS
<1>. USE FifoAssumption DEF NumbersOK, Index
<1>2. ASSUME NEW e \in Elem, Push(e) PROVE NumbersOK'
  BY <1>2 DEF Push, NextPtr
<1>3. CASE Pop
  BY <1>3 DEF Pop, NextPtr
<1>4. CASE Flush
  BY <1>4 DEF Flush
<1>5. CASE ResetPopStatus
  BY <1>5 DEF ResetPopStatus
<1>6. CASE UNCHANGED vars
  BY <1>6 DEF vars
<1>. QED  BY <1>2, <1>3, <1>4, <1>5, <1>6 DEF Next

LEMMA TypeInit == Init => TypeOK
<1>1. Init => FlagsOK
  BY Zenon DEF Init, FlagsOK
<1>2. Init => NumbersOK
  BY FifoAssumption DEF Init, NumbersOK, Index
<1>. QED  BY <1>1, <1>2, Zenon DEF TypeOK, FlagsOK, NumbersOK

THEOREM TypeCorrect == Spec => []TypeOK
<1>1. TypeOK <=> FlagsOK /\ NumbersOK
  BY Zenon DEF TypeOK, FlagsOK, NumbersOK
<1>. QED  BY <1>1, TypeInit, FlagsStep, NumbersStep, PTL DEF Spec

(***************************************************************************)
(* The pointers mean what is_full, is_empty and get_size take them to mean *)
(* (fifo.h:138-164), with and without pop_status_save.                     *)
(***************************************************************************)
LEMMA PointersInit == Init => PointersOK
<1>1. Init => rstage = wstage /\ rstage_saved = wstage
  BY Zenon DEF Init
<1>2. Init => wptr = 0 /\ rptr = 0 /\ rptr_saved = 0
  BY DEF Init
<1>. QED  BY <1>1, <1>2, FifoAssumption DEF PointersOK, Count, Between

THEOREM PointersCorrect == Spec => []PointersOK
<1>. USE FifoAssumption DEF Inv, TypeOK, PointersOK, Index, Count, Between
<1>1. Init => PointersOK
  BY PointersInit
<1>2. Inv /\ [Next]_vars => PointersOK'
  <2>. SUFFICES ASSUME Inv, [Next]_vars PROVE PointersOK'
    OBVIOUS
  <2>1. ASSUME NEW e \in Elem, Push(e) PROVE PointersOK'
    BY <2>1 DEF Push, NextPtr, NextStage, is_full
  <2>2. CASE Pop
    BY <2>2 DEF Pop, NextPtr, NextStage, is_empty
  <2>3. CASE Flush
    BY <2>3 DEF Flush
  <2>4. CASE ResetPopStatus
    BY <2>4 DEF ResetPopStatus
  <2>5. CASE UNCHANGED vars
    BY <2>5 DEF vars
  <2>. QED  BY <2>1, <2>2, <2>3, <2>4, <2>5 DEF Next
<1>. QED  BY <1>1, <1>2, TypeCorrect, PTL DEF Spec, Inv

-----------------------------------------------------------------------------
(***************************************************************************)
(* The refinement.                                                         *)
(***************************************************************************)

\* What the code's modular distance is worth on pointers that are in order.
LEMMA SizeIsDistance ==
  ASSUME NEW w \in Index, NEW p \in Index
  PROVE  /\ p <= w => (w + Size - p) % Size = w - p
         /\ w < p => (w + Size - p) % Size = w + Size - p
<1>. USE FifoAssumption DEF Index
<1>1. ASSUME p <= w PROVE (w + Size - p) % Size = w - p
  <2>. DEFINE d == w - p
  <2>1. d \in 0 .. Size - 1 /\ w + Size - p = d + Size
    BY <1>1
  <2>2. (d + Size) % Size = d
    BY <2>1
  <2>. QED  BY <2>1, <2>2
<1>2. ASSUME w < p PROVE (w + Size - p) % Size = w + Size - p
  <2>. DEFINE d == w + Size - p
  <2>1. d \in 0 .. Size - 1
    BY <1>2
  <2>. QED  BY <2>1
<1>. QED  BY <1>1, <1>2

\* The room the code reports, without the remainder operator.
RoomMeaning ==
  /\ pop_status_save /\ ~flushed =>
       Room = Size - Between(rptr_saved, rstage_saved)
  /\ ~pop_status_save => Room = Size - Count
  /\ pop_status_save /\ flushed => Room = 0

LEMMA RoomValue == Inv => RoomMeaning
<1>. SUFFICES ASSUME Inv PROVE RoomMeaning
  OBVIOUS
<1>. USE DEF RoomMeaning
<1>. USE FifoAssumption DEF Inv, TypeOK, PointersOK, Index
<1>1. CASE pop_status_save /\ ~flushed
  <2>1. CASE rstage_saved = wstage
    BY <1>1, <2>1, SizeIsDistance DEF Room, get_size, is_full, Between
  <2>2. CASE rstage_saved # wstage
    BY <1>1, <2>2, SizeIsDistance DEF Room, get_size, is_full, Between
  <2>. QED  BY <2>1, <2>2
<1>2. CASE ~pop_status_save
  <2>1. CASE rstage = wstage
    BY <1>2, <2>1, SizeIsDistance DEF Room, get_size, is_full, Between, Count
  <2>2. CASE rstage # wstage
    BY <1>2, <2>2, SizeIsDistance DEF Room, get_size, is_full, Between, Count
  <2>. QED  BY <2>1, <2>2
<1>3. CASE pop_status_save /\ flushed
  BY <1>3 DEF Room
<1>. QED  BY <1>1, <1>2, <1>3

\* The ring read from rptr is a sequence of Count elements.
ContentsMeaning ==
  /\ Contents \in Seq(Elem)
  /\ Len(Contents) = Count
  /\ Count \in 0 .. Size
  /\ \A i \in 1 .. Count : Contents[i] = buffer[Slot(i)] /\ Slot(i) \in Index

LEMMA ContentsIsSeq == Inv => ContentsMeaning
<1>. SUFFICES ASSUME Inv PROVE ContentsMeaning
  OBVIOUS
<1>. USE FifoAssumption DEF Inv, TypeOK, PointersOK, Index
<1>1. Count \in 0 .. Size
  BY DEF Count, Between
<1>2. \A i \in 1 .. Count : Slot(i) \in Index
  BY <1>1 DEF Slot
<1>3. \A i \in 1 .. Count : buffer[Slot(i)] \in Elem
  BY <1>2
<1>. HIDE DEF Inv, Count, Slot
<1>4. Contents \in Seq(Elem) /\ Len(Contents) = Count
  BY <1>1, <1>3 DEF Contents
<1>5. \A i \in 1 .. Count : Contents[i] = buffer[Slot(i)]
  BY <1>1 DEF Contents
<1>. QED  BY <1>1, <1>2, <1>4, <1>5 DEF ContentsMeaning

LEMMA QueueInit == Init => Queue!Init
<1>. SUFFICES ASSUME Init PROVE Queue!Init
  OBVIOUS
<1>1. Inv
  <2>1. PointersOK
    BY FifoAssumption, PointersInit
  <2>. QED  BY <2>1, TypeInit DEF Inv
<1>2. wptr = 0 /\ rptr = 0 /\ pop_status_save \in BOOLEAN
  BY DEF Init
<1>3. rstage = wstage /\ rstage_saved = wstage /\ ~flushed /\ rptr_saved = 0
  BY Zenon DEF Init
<1>4. Count = 0
  BY <1>2, <1>3 DEF Count, Between
<1>5. Contents = << >>
  BY <1>1, <1>4, ContentsIsSeq DEF ContentsMeaning
<1>6. Room = Size
  BY <1>1, <1>2, <1>3, <1>4, RoomValue, FifoAssumption DEF Between, RoomMeaning
<1>. QED  BY <1>2, <1>5, <1>6 DEF Queue!Init

\* Both meanings before and after a step.
LEMMA Meanings ==
  Inv /\ Inv' => RoomMeaning /\ RoomMeaning' /\ ContentsMeaning /\ ContentsMeaning'
BY RoomValue, ContentsIsSeq, PTL

LEMMA QueuePush ==
  ASSUME Inv, Inv', NEW e \in Elem, Push(e)
  PROVE  Queue!Push(e)
<1>. USE FifoAssumption
<1>0. RoomMeaning /\ RoomMeaning' /\ ContentsMeaning /\ ContentsMeaning'
  BY Meanings
<1>1. /\ ~is_full /\ ~(pop_status_save /\ flushed)
      /\ buffer' = [buffer EXCEPT ![wptr] = e]
      /\ wptr' = NextPtr(wptr) /\ wstage' = NextStage(wptr, wstage)
      /\ rptr' = rptr /\ rstage' = rstage
      /\ rptr_saved' = rptr_saved /\ rstage_saved' = rstage_saved
  BY DEF Push
<1>1a. pop_status_save' = pop_status_save /\ flushed' = flushed
  BY Zenon DEF Push
<1>2. Count < Size /\ Count' = Count + 1 /\ Slot(Count + 1) = wptr
  BY <1>1 DEF Count, Between, NextPtr, NextStage, Slot, Inv, TypeOK, PointersOK,
              Index, is_full
<1>3. /\ pop_status_save => Between(rptr_saved, rstage_saved) < Size
      /\ pop_status_save =>
           Between(rptr_saved, rstage_saved)' = Between(rptr_saved, rstage_saved) + 1
      /\ Between(rptr_saved, rstage_saved) \in Int
  BY <1>1, <1>1a DEF Between, NextPtr, NextStage, Inv, TypeOK, PointersOK, Index, is_full
<1>4. Room > 0 /\ Room' = Room - 1
  <2>1. CASE pop_status_save
    <3>1. Room = Size - Between(rptr_saved, rstage_saved)
      BY <1>0, <1>1, <2>1 DEF RoomMeaning
    <3>2. Room' = Size - Between(rptr_saved, rstage_saved)'
      BY <1>0, <1>1, <1>1a, <2>1 DEF RoomMeaning
    <3>. QED  BY <1>3, <2>1, <3>1, <3>2
  <2>2. CASE ~pop_status_save
    <3>1. Room = Size - Count
      BY <1>0, <2>2 DEF RoomMeaning
    <3>2. Room' = Size - Count'
      BY <1>0, <1>1a, <2>2 DEF RoomMeaning
    <3>3. Count \in 0 .. Size
      BY <1>0 DEF ContentsMeaning
    <3>. QED  BY <1>2, <3>1, <3>2, <3>3
  <2>. QED  BY <2>1, <2>2
<1>5. Contents' = Append(Contents, e)
  <2>1. /\ Contents \in Seq(Elem) /\ Len(Contents) = Count /\ Count \in 0 .. Size
        /\ \A i \in 1 .. Count : Contents[i] = buffer[Slot(i)] /\ Slot(i) \in Index
    BY <1>0 DEF ContentsMeaning
  <2>2. /\ Contents' \in Seq(Elem) /\ Len(Contents') = Count'
        /\ \A i \in 1 .. Count' : Contents'[i] = buffer'[Slot(i)']
    BY <1>0 DEF ContentsMeaning
  <2>3. \A i \in 1 .. Count + 1 : Slot(i)' = Slot(i)
    BY <1>1 DEF Slot
  <2>4. \A i \in 1 .. Count : Slot(i) # wptr
    BY <1>2 DEF Slot, Count, Between, Inv, TypeOK, PointersOK, Index
  <2>5. buffer \in [Index -> Elem] /\ wptr \in Index
    BY DEF Inv, TypeOK
  <2>6. \A i \in 1 .. Count + 1 :
          Contents'[i] = IF i = Count + 1 THEN e ELSE Contents[i]
    BY <1>1, <1>2, <2>1, <2>2, <2>3, <2>4, <2>5
  <2>7. /\ Append(Contents, e) \in Seq(Elem)
        /\ Len(Append(Contents, e)) = Count + 1
        /\ \A i \in 1 .. Count + 1 :
             Append(Contents, e)[i] = IF i = Count + 1 THEN e ELSE Contents[i]
    BY <2>1, AppendProperties
  <2>. QED  BY <1>2, <2>1, <2>2, <2>6, <2>7, SeqEqual
<1>. QED  BY <1>1a, <1>4, <1>5 DEF Queue!Push

LEMMA QueuePop ==
  ASSUME Inv, Inv', Pop
  PROVE  Queue!Pop
<1>. USE FifoAssumption
<1>0. RoomMeaning /\ RoomMeaning' /\ ContentsMeaning /\ ContentsMeaning'
  BY Meanings
<1>1. /\ ~is_empty /\ buffer' = buffer /\ wptr' = wptr /\ wstage' = wstage
      /\ rptr' = NextPtr(rptr) /\ rstage' = NextStage(rptr, rstage)
      /\ rptr_saved' = rptr_saved /\ rstage_saved' = rstage_saved
  BY DEF Pop
<1>2. pop_status_save' = pop_status_save /\ flushed' = flushed
  BY Zenon DEF Pop
<1>3. Count > 0 /\ Count' = Count - 1
  BY <1>1 DEF Count, Between, NextPtr, NextStage, Inv, TypeOK, PointersOK, Index, is_empty
<1>4. /\ Contents \in Seq(Elem) /\ Len(Contents) = Count /\ Count \in 0 .. Size
      /\ \A i \in 1 .. Count : Contents[i] = buffer[Slot(i)] /\ Slot(i) \in Index
  BY <1>0 DEF ContentsMeaning
<1>5. /\ Contents' \in Seq(Elem) /\ Len(Contents') = Count'
      /\ \A i \in 1 .. Count' : Contents'[i] = buffer'[Slot(i)']
  BY <1>0 DEF ContentsMeaning
<1>6. Contents # << >>
  BY <1>3, <1>4
<1>7. Contents' = Tail(Contents)
  <2>1. \A i \in 1 .. Count' : Slot(i)' = Slot(i + 1)
    BY <1>1, <1>3, <1>4 DEF Slot, NextPtr, Inv, TypeOK, Index
  <2>2. /\ Tail(Contents) \in Seq(Elem) /\ Len(Tail(Contents)) = Count - 1
        /\ \A i \in 1 .. Count - 1 : Tail(Contents)[i] = Contents[i + 1]
    BY <1>4, <1>6, HeadTailProperties
  <2>3. \A i \in 1 .. Count - 1 : Contents'[i] = Contents[i + 1]
    BY <1>1, <1>3, <1>4, <1>5, <2>1
  <2>. QED  BY <1>3, <1>5, <2>2, <2>3, SeqEqual
<1>8. Room' = IF pop_status_save THEN Room ELSE Room + 1
  <2>1. CASE pop_status_save /\ ~flushed
    <3>1. Room = Size - Between(rptr_saved, rstage_saved)
      BY <1>0, <2>1 DEF RoomMeaning
    <3>2. Room' = Size - Between(rptr_saved, rstage_saved)'
      BY <1>0, <1>2, <2>1 DEF RoomMeaning
    <3>. QED  BY <1>1, <2>1, <3>1, <3>2 DEF Between
  <2>2. CASE pop_status_save /\ flushed
    BY <1>2, <2>2 DEF Room
  <2>3. CASE ~pop_status_save
    <3>1. Room = Size - Count
      BY <1>0, <2>3 DEF RoomMeaning
    <3>2. Room' = Size - Count'
      BY <1>0, <1>2, <2>3 DEF RoomMeaning
    <3>. QED  BY <1>3, <1>4, <2>3, <3>1, <3>2
  <2>. QED  BY <2>1, <2>2, <2>3
<1>. QED  BY <1>2, <1>6, <1>7, <1>8 DEF Queue!Pop

LEMMA QueueFlush ==
  ASSUME Inv, Inv', Flush
  PROVE  Queue!Flush
<1>. USE FifoAssumption
<1>0. RoomMeaning' /\ ContentsMeaning'
  BY Meanings
<1>1. wptr' = 0 /\ rptr' = 0
  BY DEF Flush
<1>2. rstage' = wstage' /\ flushed' /\ pop_status_save' = pop_status_save
  BY Zenon DEF Flush
<1>3. Count' = 0
  BY <1>1, <1>2 DEF Count, Between
<1>4. Contents' = << >>
  BY <1>0, <1>3 DEF ContentsMeaning
<1>5. Room' = IF pop_status_save THEN 0 ELSE Size
  BY <1>0, <1>2, <1>3 DEF RoomMeaning
<1>. QED  BY <1>2, <1>4, <1>5 DEF Queue!Flush

LEMMA QueueBeginCycle ==
  ASSUME Inv, Inv', ResetPopStatus
  PROVE  Queue!BeginCycle
<1>. USE FifoAssumption
<1>0. RoomMeaning' /\ ContentsMeaning /\ ContentsMeaning'
  BY Meanings
<1>1. /\ buffer' = buffer /\ wptr' = wptr /\ rptr' = rptr
      /\ wstage' = wstage /\ rstage' = rstage
      /\ rptr_saved' = rptr /\ rstage_saved' = rstage
  BY DEF ResetPopStatus
<1>2. pop_status_save' = pop_status_save /\ ~flushed'
  BY Zenon DEF ResetPopStatus
<1>3. Count' = Count /\ Between(rptr_saved, rstage_saved)' = Count
  BY <1>1 DEF Count, Between
<1>4. Contents' = Contents
  BY <1>1, <1>3 DEF Contents, Slot
<1>5. Room' = Size - Count
  BY <1>0, <1>2, <1>3 DEF RoomMeaning
<1>. QED  BY <1>0, <1>2, <1>4, <1>5 DEF Queue!BeginCycle, ContentsMeaning

(***************************************************************************)
(* The ring buffer of fifo.h implements a bounded FIFO queue for every     *)
(* size and every element type: initially, and by push, pop, flush and     *)
(* reset_pop_status.                                                       *)
(***************************************************************************)
THEOREM FifoImplementsQueue == Spec => ImplementsQueue
<1>1. Init => Queue!Init
  BY QueueInit
<1>2. Inv /\ Inv' /\ [Next]_vars => [Queue!Next]_(Queue!vars)
  <2>. SUFFICES ASSUME Inv, Inv', [Next]_vars
                PROVE  [Queue!Next]_(Queue!vars)
    OBVIOUS
  <2>1. ASSUME NEW e \in Elem, Push(e) PROVE Queue!Next
    BY <2>1, QueuePush DEF Queue!Next
  <2>2. CASE Pop
    BY <2>2, QueuePop DEF Queue!Next
  <2>3. CASE Flush
    BY <2>3, QueueFlush DEF Queue!Next
  <2>4. CASE ResetPopStatus
    BY <2>4, QueueBeginCycle DEF Queue!Next
  <2>5. CASE UNCHANGED vars
    BY <2>5 DEF vars, Queue!vars, Contents, Count, Between, Slot, Room,
                get_size, is_full
  <2>. QED  BY <2>1, <2>2, <2>3, <2>4, <2>5 DEF Next
<1>. QED  BY <1>1, <1>2, TypeCorrect, PointersCorrect, PTL
          DEF Spec, Inv, ImplementsQueue, Queue!Spec

(***************************************************************************)
(* The room the code reports is room the ring has: with the elements it    *)
(* holds it never exceeds Size, so no accepted push overwrites one.        *)
(***************************************************************************)
THEOREM RoomIsAlwaysReal == Spec => []RoomIsReal
<1>1. Inv => RoomIsReal
  <2>. SUFFICES ASSUME Inv PROVE Len(Contents) + Room <= Size
    BY DEF RoomIsReal, Queue!RoomIsReal
  <2>1. RoomMeaning /\ ContentsMeaning
    BY RoomValue, ContentsIsSeq
  <2>2. Count <= Size /\ Count \in Nat /\ Len(Contents) = Count
    BY <2>1, FifoAssumption DEF ContentsMeaning
  <2>3. CASE pop_status_save /\ ~flushed
    BY <2>1, <2>2, <2>3, FifoAssumption
       DEF RoomMeaning, Inv, TypeOK, PointersOK, Index, Between
  <2>4. CASE pop_status_save /\ flushed
    BY <2>1, <2>2, <2>4, FifoAssumption DEF RoomMeaning
  <2>5. CASE ~pop_status_save
    BY <2>1, <2>2, <2>5, FifoAssumption DEF RoomMeaning
  <2>. QED  BY <2>3, <2>4, <2>5
<1>. QED  BY <1>1, TypeCorrect, PointersCorrect, PTL DEF Inv

-----------------------------------------------------------------------------
(* The issue queue over its ring.                                          *)

\* What each operation of a ring does is shown there.
R == INSTANCE RingProofs

\* The operators are the same ones.
LEMMA SameRing ==
  /\ issue_queue!Dead = R!Dead
  /\ \A n : issue_queue!empty_ring(n) = R!empty_ring(n)
  /\ \A r : /\ issue_queue!SizeOf(r) = R!SizeOf(r) /\ issue_queue!get_size(r) = R!get_size(r)
            /\ issue_queue!is_empty(r) = R!is_empty(r) /\ issue_queue!is_full(r) = R!is_full(r)
            /\ issue_queue!pop(r) = R!pop(r) /\ issue_queue!flush(r) = R!flush(r) /\ issue_queue!LiveIds(r) = R!LiveIds(r)
  /\ \A r, x : /\ issue_queue!get_item(r, x) = R!get_item(r, x) /\ issue_queue!push(r, x) = R!push(r, x)
               /\ issue_queue!check_id_valid(r, x) = R!check_id_valid(r, x)
  /\ \A r, x, y : issue_queue!set_item(r, x, y) = R!set_item(r, x, y)
BY Zenon DEF issue_queue!Dead, R!Dead, issue_queue!empty_ring, R!empty_ring, issue_queue!SizeOf, R!SizeOf, issue_queue!get_size, R!get_size,
       issue_queue!is_empty, R!is_empty, issue_queue!is_full, R!is_full, issue_queue!pop, R!pop, issue_queue!flush, R!flush, issue_queue!LiveIds, R!LiveIds,
       issue_queue!get_item, R!get_item, issue_queue!push, R!push, issue_queue!check_id_valid, R!check_id_valid, issue_queue!set_item, R!set_item

\* The largest of the numbers up to n, if it is in the set.
LEMMA MaxUpTo ==
  ASSUME NEW n \in Nat, NEW s \in SUBSET (1 .. n), n \in s
  PROVE  issue_queue!Max(s) = n
<1> DEFINE P(x) == x \in s /\ \A y \in s : x >= y
<1>1. P(n)
  OBVIOUS
<1>2. \A x : P(x) => x = n
  OBVIOUS
<1>3. issue_queue!Max(s) = CHOOSE x : P(x)
  BY Zenon DEF issue_queue!Max
<1> HIDE DEF P
<1>4. P(CHOOSE x : P(x))
  BY <1>1, Zenon
<1> QED
  BY <1>2, <1>3, <1>4, Zenon

\* What FoldLeft, which takes the largest index off first, builds for the requests.
IsFold(g, n, r, q) ==
  g = [s \in SUBSET (1 .. n) |-> IF s = {} THEN r ELSE issue_queue!Apply(g[s \ {issue_queue!Max(s)}], q[issue_queue!Max(s)])]

\* Applying the requests one after the other (issue_queue.h:190-213) is such a fold,
\* and it exists for every number of them.
LEMMA FoldIs ==
  ASSUME NEW n \in Nat, NEW r, NEW q
  PROVE  \E g : IsFold(g, n, r, q)
<1> DEFINE Further(v, i) == issue_queue!Apply(v, q[i])
           Step(g, s) == IF s = {} THEN r ELSE Further(g[s \ {issue_queue!Max(s)}], issue_queue!Max(s))
           S == {m \in Nat : \E g : g = [s \in SUBSET (1 .. m) |-> Step(g, s)]}
<1> HIDE DEF Further
<1>1. 0 \in S
  <2> DEFINE g == [s \in SUBSET (1 .. 0) |-> r]
  <2>1. g = [s \in SUBSET (1 .. 0) |-> Step(g, s)]
    <3>1. \A s \in SUBSET (1 .. 0) : s = {}
      OBVIOUS
    <3> QED
      BY <3>1, Zenon
  <2> QED
    BY <2>1
<1>2. ASSUME NEW m \in Nat, m \in S
      PROVE  m + 1 \in S
  <2>1. PICK g : g = [s \in SUBSET (1 .. m) |-> Step(g, s)]
    BY <1>2
  <2> DEFINE h == [s \in SUBSET (1 .. m + 1) |->
                     IF m + 1 \in s THEN Further(g[s \ {m + 1}], m + 1) ELSE g[s]]
  <2>2. \A s \in SUBSET (1 .. m + 1) : h[s] = Step(h, s)
    <3> SUFFICES ASSUME NEW s \in SUBSET (1 .. m + 1)
                 PROVE  h[s] = Step(h, s)
      OBVIOUS
    <3> DEFINE x == issue_queue!Max(s)
    <3>1. CASE m + 1 \in s
      <4>1. x = m + 1 /\ s # {}
        BY <3>1, MaxUpTo
      <4>2. s \ {m + 1} \in SUBSET (1 .. m + 1) /\ m + 1 \notin s \ {m + 1}
        OBVIOUS
      <4> HIDE DEF x
      <4>3. h[s] = Further(g[s \ {m + 1}], m + 1) /\ h[s \ {m + 1}] = g[s \ {m + 1}]
        BY <3>1, <4>2, Zenon
      <4> QED
        BY <4>1, <4>3, Zenon DEF x
    <3>2. CASE m + 1 \notin s
      <4>1. s \in SUBSET (1 .. m)
        BY <3>2
      <4>2. s \ {x} \in SUBSET (1 .. m + 1) /\ m + 1 \notin s \ {x}
        BY <3>2
      <4>3. h[s] = g[s] /\ h[s \ {x}] = g[s \ {x}]
        BY <3>2, <4>2, Zenon
      <4>4. g[s] = Step(g, s)
        BY <2>1, <4>1, Zenon
      <4> QED
        BY <4>3, <4>4, Zenon
    <3> QED
      BY <3>1, <3>2
  <2>3. h = [s \in SUBSET (1 .. m + 1) |-> Step(h, s)]
    <3> HIDE DEF Step
    <3> QED
      BY <2>2, Zenon
  <2>4. m + 1 \in Nat
    OBVIOUS
  <2> HIDE DEF h, Step
  <2> QED
    BY <2>3, <2>4, Zenon
<1>3. n \in S
  <2> HIDE DEF S
  <2> QED
    BY <1>1, <1>2, R!NatInd
<1> QED
  BY <1>3, Zenon DEF Further, IsFold

\* What a ring is after the first requests of a cycle.
Stages(r, q) == CHOOSE f : f = [k \in 0 .. Len(q) |-> IF k = 0 THEN r ELSE issue_queue!Apply(f[k - 1], q[k])]

\* Each stage is the one before with one more request applied (issue_queue.h:190-213).
LEMMA StagesAre ==
  ASSUME NEW r, NEW q, Len(q) \in Nat
  PROVE  /\ Stages(r, q)[0] = r
         /\ \A k \in 1 .. Len(q) : Stages(r, q)[k] = issue_queue!Apply(Stages(r, q)[k - 1], q[k])
<1> DEFINE Further(v, i) == issue_queue!Apply(v, q[i])
           Step(g, k) == IF k = 0 THEN r ELSE Further(g[k - 1], k)
           S == {m \in Nat : \E g : g = [k \in 0 .. m |-> Step(g, k)]}
           f == Stages(r, q)
<1> HIDE DEF Further
<1>1. 0 \in S
  <2> DEFINE g == [k \in 0 .. 0 |-> r]
  <2>1. g = [k \in 0 .. 0 |-> Step(g, k)]
    OBVIOUS
  <2> QED
    BY <2>1
<1>2. ASSUME NEW m \in Nat, m \in S
      PROVE  m + 1 \in S
  <2>1. PICK g : g = [k \in 0 .. m |-> Step(g, k)]
    BY <1>2
  <2> DEFINE h == [k \in 0 .. m + 1 |-> IF k = m + 1 THEN Further(g[m], m + 1) ELSE g[k]]
  <2>2. \A k \in 0 .. m + 1 : h[k] = Step(h, k)
    <3> SUFFICES ASSUME NEW k \in 0 .. m + 1
                 PROVE  h[k] = Step(h, k)
      OBVIOUS
    <3>1. CASE k = m + 1
      BY <3>1
    <3>2. CASE k \in 0 .. m
      <4>1. g[k] = Step(g, k)
        BY <2>1, <3>2, Zenon
      <4> QED
        BY <4>1, <3>2
    <3> QED
      BY <3>1, <3>2
  <2>3. h = [k \in 0 .. m + 1 |-> Step(h, k)]
    <3> HIDE DEF Step
    <3> QED
      BY <2>2
  <2>4. m + 1 \in Nat
    OBVIOUS
  <2> HIDE DEF h, Step
  <2> QED
    BY <2>3, <2>4, Zenon
<1>3. Len(q) \in S
  <2> HIDE DEF S
  <2> QED
    BY <1>1, <1>2, R!NatInd
<1>4. f = [k \in 0 .. Len(q) |-> Step(f, k)]
  BY <1>3, Zenon DEF Stages, Further
<1>5. f[0] = r
  <2>1. 0 \in 0 .. Len(q)
    OBVIOUS
  <2> HIDE DEF f
  <2> QED
    BY <1>4, <2>1, Zenon
<1>6. \A k \in 1 .. Len(q) : k \in 0 .. Len(q) /\ k # 0
  OBVIOUS
<1> HIDE DEF f
<1>7. \A k \in 1 .. Len(q) : f[k] = Further(f[k - 1], k)
  BY <1>4, <1>6, Zenon
<1> QED
  BY <1>5, <1>7, Zenon DEF Further, f

\* sync applies the requests in the order they came (issue_queue.h:190-213).
LEMMA SyncedIs ==
  ASSUME NEW T, sync_request_q \in Seq(T)
  PROVE  issue_queue!Synced = Stages(ring, sync_request_q)[Len(sync_request_q)]
<1> DEFINE q == sync_request_q
           n == Len(q)
           r == ring
           g == CHOOSE g : IsFold(g, n, r, q)
           f == Stages(r, q)
           U == {k \in Nat : k <= n => g[1 .. k] = f[k]}
<1>1. n \in Nat /\ DOMAIN q = 1 .. n
  OBVIOUS
<1>2. issue_queue!Synced = g[1 .. n]
  BY <1>1, Zenon DEF issue_queue!Synced, issue_queue!FoldLeft, issue_queue!MapThenFoldSet, IsFold
<1>3. IsFold(g, n, r, q)
  BY <1>1, FoldIs
<1>4. f[0] = r /\ \A k \in 1 .. n : f[k] = issue_queue!Apply(f[k - 1], q[k])
  BY <1>1, StagesAre
<1> HIDE DEF g, f
<1>5. g[{}] = r
  <2>1. {} \in SUBSET (1 .. n)
    OBVIOUS
  <2> QED
    BY <1>3, <2>1, Zenon DEF IsFold
<1>6. ASSUME NEW k \in 1 .. n
      PROVE  g[1 .. k] = issue_queue!Apply(g[1 .. k - 1], q[k])
  <2>1. (1 .. k) \in SUBSET (1 .. n) /\ 1 .. k # {} /\ k \in Nat /\ k \in 1 .. k
    OBVIOUS
  <2>2. issue_queue!Max(1 .. k) = k
    BY <2>1, MaxUpTo
  <2>3. (1 .. k) \ {k} = 1 .. k - 1
    OBVIOUS
  <2>4. g[1 .. k] = issue_queue!Apply(g[(1 .. k) \ {issue_queue!Max(1 .. k)}], q[issue_queue!Max(1 .. k)])
    BY <1>3, <2>1, Zenon DEF IsFold
  <2> QED
    BY <2>2, <2>3, <2>4, Zenon
<1>7. 0 \in U
  <2>1. 1 .. 0 = {}
    OBVIOUS
  <2> QED
    BY <1>4, <1>5, <2>1
<1>8. ASSUME NEW k \in Nat, k \in U
      PROVE  k + 1 \in U
  <2>1. CASE k + 1 <= n
    <3>1. k + 1 \in 1 .. n /\ (k + 1) - 1 = k /\ k <= n
      BY <1>1, <2>1
    <3>2. g[1 .. k] = f[k]
      BY <1>8, <3>1
    <3>3. g[1 .. k + 1] = issue_queue!Apply(g[1 .. k], q[k + 1]) /\ f[k + 1] = issue_queue!Apply(f[k], q[k + 1])
      BY <1>4, <1>6, <3>1
    <3>4. g[1 .. k + 1] = f[k + 1]
      BY <3>2, <3>3, Zenon
    <3> QED
      BY <3>4
  <2> QED
    BY <2>1
<1>9. Nat \subseteq U
  <2> HIDE DEF U
  <2> QED
    BY <1>7, <1>8, R!NatInd
<1>10. g[1 .. n] = f[n]
  BY <1>1, <1>9
<1> QED
  BY <1>2, <1>10, Zenon DEF f

\* A further request is applied to what the others lead to.
LEMMA StagesAppend ==
  ASSUME NEW T, NEW q \in Seq(T), NEW x \in T, NEW r
  PROVE  /\ \A k \in 0 .. Len(q) : Stages(r, Append(q, x))[k] = Stages(r, q)[k]
         /\ Stages(r, Append(q, x))[Len(q) + 1] = issue_queue!Apply(Stages(r, q)[Len(q)], x)
<1> DEFINE u == Append(q, x)
           f == Stages(r, q)
           h == Stages(r, u)
           n == Len(q)
           U == {k \in Nat : k <= n => h[k] = f[k]}
<1>1. n \in Nat /\ Len(u) = n + 1 /\ u[n + 1] = x /\ \A k \in 1 .. n : u[k] = q[k]
  OBVIOUS
<1>2. f[0] = r /\ \A k \in 1 .. n : f[k] = issue_queue!Apply(f[k - 1], q[k])
  BY <1>1, StagesAre
<1>3. Len(u) \in Nat
  BY <1>1
<1>4. h[0] = r /\ \A k \in 1 .. n + 1 : h[k] = issue_queue!Apply(h[k - 1], u[k])
  <2>1. h[0] = r /\ \A k \in 1 .. Len(u) : h[k] = issue_queue!Apply(h[k - 1], u[k])
    <3>1. \A v : Len(v) \in Nat =>
             /\ Stages(r, v)[0] = r
             /\ \A k \in 1 .. Len(v) : Stages(r, v)[k] = issue_queue!Apply(Stages(r, v)[k - 1], v[k])
      BY StagesAre
    <3> HIDE DEF u
    <3> QED
      BY <1>3, <3>1
  <2> HIDE DEF u, h
  <2> QED
    BY <1>1, <2>1
<1> HIDE DEF u, f, h
<1>5. 0 \in U
  BY <1>2, <1>4
<1>6. ASSUME NEW k \in Nat, k \in U
      PROVE  k + 1 \in U
  <2>1. CASE k + 1 <= n
    <3>1. k + 1 \in 1 .. n /\ k + 1 \in 1 .. n + 1 /\ (k + 1) - 1 = k /\ k <= n
      BY <1>1, <2>1
    <3>2. h[k] = f[k]
      BY <1>6, <3>1
    <3>3. h[k + 1] = issue_queue!Apply(h[k], u[k + 1]) /\ f[k + 1] = issue_queue!Apply(f[k], q[k + 1]) /\ u[k + 1] = q[k + 1]
      BY <1>1, <1>2, <1>4, <3>1
    <3>4. h[k + 1] = f[k + 1]
      BY <3>2, <3>3, Zenon
    <3> QED
      BY <3>4
  <2> QED
    BY <2>1
<1>7. Nat \subseteq U
  <2> HIDE DEF U
  <2> QED
    BY <1>5, <1>6, R!NatInd
<1>8. \A k \in 0 .. n : h[k] = f[k]
  BY <1>1, <1>7
<1>9. h[n + 1] = issue_queue!Apply(f[n], x)
  <2>1. n + 1 \in 1 .. n + 1 /\ (n + 1) - 1 = n /\ n \in 0 .. n
    BY <1>1
  <2>2. h[n + 1] = issue_queue!Apply(h[n], u[n + 1])
    BY <1>4, <2>1
  <2> QED
    BY <1>1, <1>8, <2>1, <2>2
<1> QED
  BY <1>8, <1>9 DEF u, f, h

-----------------------------------------------------------------------------
(* What the other folds compute, given a function that does so upwards.    *)

\* The first places, and the last of them.
LEMMA FirstOnes ==
  ASSUME NEW n \in Nat, NEW k \in 1 .. n
  PROVE  /\ (1 .. k) \in SUBSET (1 .. n) /\ 1 .. k # {} /\ k \in Nat /\ k \in 1 .. k
         /\ (1 .. k) \ {k} = 1 .. k - 1
OBVIOUS

\* The function that the fold of Without builds, largest index first.
IsRest(g, n, t, P, u) ==
  g = [s \in SUBSET (1 .. n) |->
         IF s = {} THEN << >> ELSE (IF t[issue_queue!Max(s)] \in P THEN g[s \ {issue_queue!Max(s)}] ELSE Append(g[s \ {issue_queue!Max(s)}], u[t[issue_queue!Max(s)]]))]

\* Such a function exists for every length.
LEMMA IsRestExists ==
  ASSUME NEW n \in Nat, NEW t, NEW P, NEW u
  PROVE  \E g : IsRest(g, n, t, P, u)
<1> DEFINE Further(v, i) == (IF t[i] \in P THEN v ELSE Append(v, u[t[i]]))
           Step(g, s) == IF s = {} THEN << >> ELSE Further(g[s \ {issue_queue!Max(s)}], issue_queue!Max(s))
           S == {m \in Nat : \E g : g = [s \in SUBSET (1 .. m) |-> Step(g, s)]}
<1> HIDE DEF Further
<1>1. 0 \in S
  <2> DEFINE g == [s \in SUBSET (1 .. 0) |-> << >>]
  <2>1. g = [s \in SUBSET (1 .. 0) |-> Step(g, s)]
    <3>1. \A s \in SUBSET (1 .. 0) : s = {}
      OBVIOUS
    <3> QED
      BY <3>1, Zenon
  <2> QED
    BY <2>1
<1>2. ASSUME NEW m \in Nat, m \in S
      PROVE  m + 1 \in S
  <2>1. PICK g : g = [s \in SUBSET (1 .. m) |-> Step(g, s)]
    BY <1>2
  <2> DEFINE h == [s \in SUBSET (1 .. m + 1) |->
                     IF m + 1 \in s THEN Further(g[s \ {m + 1}], m + 1) ELSE g[s]]
  <2>2. \A s \in SUBSET (1 .. m + 1) : h[s] = Step(h, s)
    <3> SUFFICES ASSUME NEW s \in SUBSET (1 .. m + 1)
                 PROVE  h[s] = Step(h, s)
      OBVIOUS
    <3> DEFINE x == issue_queue!Max(s)
    <3>1. CASE m + 1 \in s
      <4>1. x = m + 1 /\ s # {}
        BY <3>1, MaxUpTo
      <4>2. s \ {m + 1} \in SUBSET (1 .. m + 1) /\ m + 1 \notin s \ {m + 1}
        OBVIOUS
      <4> HIDE DEF x
      <4>3. h[s] = Further(g[s \ {m + 1}], m + 1) /\ h[s \ {m + 1}] = g[s \ {m + 1}]
        BY <3>1, <4>2, Zenon
      <4> QED
        BY <4>1, <4>3, Zenon DEF x
    <3>2. CASE m + 1 \notin s
      <4>1. s \in SUBSET (1 .. m)
        BY <3>2
      <4>2. s \ {x} \in SUBSET (1 .. m + 1) /\ m + 1 \notin s \ {x}
        BY <3>2
      <4>3. h[s] = g[s] /\ h[s \ {x}] = g[s \ {x}]
        BY <3>2, <4>2, Zenon
      <4>4. g[s] = Step(g, s)
        BY <2>1, <4>1, Zenon
      <4> QED
        BY <4>3, <4>4, Zenon
    <3> QED
      BY <3>1, <3>2
  <2>3. h = [s \in SUBSET (1 .. m + 1) |-> Step(h, s)]
    <3> HIDE DEF Step
    <3> QED
      BY <2>2, Zenon
  <2>4. m + 1 \in Nat
    OBVIOUS
  <2> HIDE DEF h, Step
  <2> QED
    BY <2>3, <2>4, Zenon
<1>3. n \in S
  <2> HIDE DEF S
  <2> QED
    BY <1>1, <1>2, R!NatInd
<1> QED
  BY <1>3, Zenon DEF Further, IsRest

\* What is left of a sequence without some of its places.
LEMMA WithoutIs ==
  ASSUME NEW u, Len(u) \in Nat, NEW P, NEW F,
         F[0] = << >>, \A k \in 1 .. Len(u) : F[k] = IF k \in P THEN F[k - 1] ELSE Append(F[k - 1], u[k])
  PROVE  issue_queue!L!Without(u, P) = F[Len(u)]
<1> DEFINE n == Len(u)
           t == [i \in 1 .. Len(u) |-> i]
           g == CHOOSE g : IsRest(g, n, t, P, u)
           U == {k \in Nat : k <= n => g[1 .. k] = F[k]}
<1>1. n \in Nat /\ DOMAIN t = 1 .. n
  OBVIOUS
<1>2. issue_queue!L!Without(u, P) = g[1 .. n]
  BY <1>1, Zenon DEF issue_queue!L!Without, issue_queue!L!FoldLeft, issue_queue!L!MapThenFoldSet, issue_queue!L!Max, issue_queue!Max, issue_queue!FoldLeft, issue_queue!MapThenFoldSet, IsRest
<1>3. IsRest(g, n, t, P, u)
  BY <1>1, IsRestExists
<1>4. \A k \in 1 .. n : F[k] = (IF t[k] \in P THEN F[k - 1] ELSE Append(F[k - 1], u[t[k]]))
  OBVIOUS
<1> HIDE DEF g, t, n
<1>5. g[{}] = << >>
  <2>1. {} \in SUBSET (1 .. n)
    OBVIOUS
  <2> QED
    BY <1>3, <2>1, Zenon DEF IsRest
<1>6. ASSUME NEW k \in 1 .. n
      PROVE  g[1 .. k] = (IF t[k] \in P THEN g[1 .. k - 1] ELSE Append(g[1 .. k - 1], u[t[k]]))
  <2>1. (1 .. k) \in SUBSET (1 .. n) /\ 1 .. k # {} /\ k \in Nat /\ k \in 1 .. k
    BY <1>1, FirstOnes, Zenon
  <2>2. issue_queue!Max(1 .. k) = k
    BY <2>1, MaxUpTo
  <2>3. (1 .. k) \ {k} = 1 .. k - 1
    BY <1>1, FirstOnes, Zenon
  <2> DEFINE x == issue_queue!Max(1 .. k)
             v == g[(1 .. k) \ {x}]
  <2>4. g[1 .. k] = (IF t[x] \in P THEN v ELSE Append(v, u[t[x]]))
    BY <1>3, <2>1, Zenon DEF IsRest
  <2> QED
    BY <2>2, <2>3, <2>4, Zenon
<1>7. 0 \in U
  <2>1. 1 .. 0 = {}
    OBVIOUS
  <2> QED
    BY <1>5, <2>1
<1>8. ASSUME NEW k \in Nat, k \in U
      PROVE  k + 1 \in U
  <2>1. CASE k + 1 <= n
    <3>1. k + 1 \in 1 .. n /\ (k + 1) - 1 = k /\ k <= n
      BY <1>1, <2>1
    <3>2. g[1 .. k] = F[k]
      BY <1>8, <3>1
    <3>3. g[1 .. k + 1] = (IF t[k + 1] \in P THEN g[1 .. k] ELSE Append(g[1 .. k], u[t[k + 1]])) /\ F[k + 1] = (IF t[k + 1] \in P THEN F[k] ELSE Append(F[k], u[t[k + 1]]))
      BY <1>4, <1>6, <3>1, Zenon
    <3>4. g[1 .. k + 1] = F[k + 1]
      BY <3>2, <3>3
    <3> QED
      BY <3>4
  <2> QED
    BY <2>1
<1>9. Nat \subseteq U
  <2> HIDE DEF U
  <2> QED
    BY <1>7, <1>8, R!NatInd
<1>10. g[1 .. n] = F[n]
  BY <1>1, <1>9
<1> QED
  BY <1>2, <1>10, Zenon DEF n

\* The function that the fold of Listed builds, largest index first.
IsListing(g, n, t, P) ==
  g = [s \in SUBSET (1 .. n) |->
         IF s = {} THEN << >> ELSE (IF t[issue_queue!Max(s)] \in P THEN Append(g[s \ {issue_queue!Max(s)}], t[issue_queue!Max(s)]) ELSE g[s \ {issue_queue!Max(s)}])]

\* Such a function exists for every length: the walk of the issue stage over the queue
\* that fills item_id_list (issue.cpp:1007-1041).
LEMMA IsListingExists ==
  ASSUME NEW n \in Nat, NEW t, NEW P
  PROVE  \E g : IsListing(g, n, t, P)
<1> DEFINE Further(v, i) == (IF t[i] \in P THEN Append(v, t[i]) ELSE v)
           Step(g, s) == IF s = {} THEN << >> ELSE Further(g[s \ {issue_queue!Max(s)}], issue_queue!Max(s))
           S == {m \in Nat : \E g : g = [s \in SUBSET (1 .. m) |-> Step(g, s)]}
<1> HIDE DEF Further
<1>1. 0 \in S
  <2> DEFINE g == [s \in SUBSET (1 .. 0) |-> << >>]
  <2>1. g = [s \in SUBSET (1 .. 0) |-> Step(g, s)]
    <3>1. \A s \in SUBSET (1 .. 0) : s = {}
      OBVIOUS
    <3> QED
      BY <3>1, Zenon
  <2> QED
    BY <2>1
<1>2. ASSUME NEW m \in Nat, m \in S
      PROVE  m + 1 \in S
  <2>1. PICK g : g = [s \in SUBSET (1 .. m) |-> Step(g, s)]
    BY <1>2
  <2> DEFINE h == [s \in SUBSET (1 .. m + 1) |->
                     IF m + 1 \in s THEN Further(g[s \ {m + 1}], m + 1) ELSE g[s]]
  <2>2. \A s \in SUBSET (1 .. m + 1) : h[s] = Step(h, s)
    <3> SUFFICES ASSUME NEW s \in SUBSET (1 .. m + 1)
                 PROVE  h[s] = Step(h, s)
      OBVIOUS
    <3> DEFINE x == issue_queue!Max(s)
    <3>1. CASE m + 1 \in s
      <4>1. x = m + 1 /\ s # {}
        BY <3>1, MaxUpTo
      <4>2. s \ {m + 1} \in SUBSET (1 .. m + 1) /\ m + 1 \notin s \ {m + 1}
        OBVIOUS
      <4> HIDE DEF x
      <4>3. h[s] = Further(g[s \ {m + 1}], m + 1) /\ h[s \ {m + 1}] = g[s \ {m + 1}]
        BY <3>1, <4>2, Zenon
      <4> QED
        BY <4>1, <4>3, Zenon DEF x
    <3>2. CASE m + 1 \notin s
      <4>1. s \in SUBSET (1 .. m)
        BY <3>2
      <4>2. s \ {x} \in SUBSET (1 .. m + 1) /\ m + 1 \notin s \ {x}
        BY <3>2
      <4>3. h[s] = g[s] /\ h[s \ {x}] = g[s \ {x}]
        BY <3>2, <4>2, Zenon
      <4>4. g[s] = Step(g, s)
        BY <2>1, <4>1, Zenon
      <4> QED
        BY <4>3, <4>4, Zenon
    <3> QED
      BY <3>1, <3>2
  <2>3. h = [s \in SUBSET (1 .. m + 1) |-> Step(h, s)]
    <3> HIDE DEF Step
    <3> QED
      BY <2>2, Zenon
  <2>4. m + 1 \in Nat
    OBVIOUS
  <2> HIDE DEF h, Step
  <2> QED
    BY <2>3, <2>4, Zenon
<1>3. n \in S
  <2> HIDE DEF S
  <2> QED
    BY <1>1, <1>2, R!NatInd
<1> QED
  BY <1>3, Zenon DEF Further, IsListing

\* The list of slots that compress is asked to empty.
LEMMA ListedIs ==
  ASSUME NEW P, NEW T, issue_queue!LiveIds(issue_queue!Synced) \in Seq(T), NEW F,
         F[0] = << >>, \A k \in 1 .. Len(issue_queue!LiveIds(issue_queue!Synced)) : F[k] = IF issue_queue!LiveIds(issue_queue!Synced)[k] \in P THEN Append(F[k - 1], issue_queue!LiveIds(issue_queue!Synced)[k]) ELSE F[k - 1]
  PROVE  issue_queue!Listed(P) = F[Len(issue_queue!LiveIds(issue_queue!Synced))]
<1> DEFINE n == Len(issue_queue!LiveIds(issue_queue!Synced))
           t == issue_queue!LiveIds(issue_queue!Synced)
           g == CHOOSE g : IsListing(g, n, t, P)
           U == {k \in Nat : k <= n => g[1 .. k] = F[k]}
<1>1. n \in Nat /\ DOMAIN t = 1 .. n
  OBVIOUS
<1>2. issue_queue!Listed(P) = g[1 .. n]
  BY <1>1, Zenon DEF issue_queue!Listed, issue_queue!FoldLeft, issue_queue!MapThenFoldSet, IsListing
<1>3. IsListing(g, n, t, P)
  BY <1>1, IsListingExists
<1>4. \A k \in 1 .. n : F[k] = (IF t[k] \in P THEN Append(F[k - 1], t[k]) ELSE F[k - 1])
  OBVIOUS
<1> HIDE DEF g, t, n
<1>5. g[{}] = << >>
  <2>1. {} \in SUBSET (1 .. n)
    OBVIOUS
  <2> QED
    BY <1>3, <2>1, Zenon DEF IsListing
<1>6. ASSUME NEW k \in 1 .. n
      PROVE  g[1 .. k] = (IF t[k] \in P THEN Append(g[1 .. k - 1], t[k]) ELSE g[1 .. k - 1])
  <2>1. (1 .. k) \in SUBSET (1 .. n) /\ 1 .. k # {} /\ k \in Nat /\ k \in 1 .. k
    BY <1>1, FirstOnes, Zenon
  <2>2. issue_queue!Max(1 .. k) = k
    BY <2>1, MaxUpTo
  <2>3. (1 .. k) \ {k} = 1 .. k - 1
    BY <1>1, FirstOnes, Zenon
  <2> DEFINE x == issue_queue!Max(1 .. k)
             v == g[(1 .. k) \ {x}]
  <2>4. g[1 .. k] = (IF t[x] \in P THEN Append(v, t[x]) ELSE v)
    BY <1>3, <2>1, Zenon DEF IsListing
  <2> QED
    BY <2>2, <2>3, <2>4, Zenon
<1>7. 0 \in U
  <2>1. 1 .. 0 = {}
    OBVIOUS
  <2> QED
    BY <1>5, <2>1
<1>8. ASSUME NEW k \in Nat, k \in U
      PROVE  k + 1 \in U
  <2>1. CASE k + 1 <= n
    <3>1. k + 1 \in 1 .. n /\ (k + 1) - 1 = k /\ k <= n
      BY <1>1, <2>1
    <3>2. g[1 .. k] = F[k]
      BY <1>8, <3>1
    <3>3. g[1 .. k + 1] = (IF t[k + 1] \in P THEN Append(g[1 .. k], t[k + 1]) ELSE g[1 .. k]) /\ F[k + 1] = (IF t[k + 1] \in P THEN Append(F[k], t[k + 1]) ELSE F[k])
      BY <1>4, <1>6, <3>1, Zenon
    <3>4. g[1 .. k + 1] = F[k + 1]
      BY <3>2, <3>3
    <3> QED
      BY <3>4
  <2> QED
    BY <2>1
<1>9. Nat \subseteq U
  <2> HIDE DEF U
  <2> QED
    BY <1>7, <1>8, R!NatInd
<1>10. g[1 .. n] = F[n]
  BY <1>1, <1>9
<1> QED
  BY <1>2, <1>10, Zenon DEF n

\* Where the walk of compress begins.
Start(r) == [r |-> r, i |-> 0, found |-> FALSE, next |-> r.rptr, wrapped |-> FALSE,
             cur |-> r.rptr, stage |-> FALSE, done |-> FALSE]

\* The function that the fold of compress builds, largest index first.
IsSweep(g, n, r, ids) ==
  g = [s \in SUBSET (1 .. n) |->
         IF s = {} THEN Start(r) ELSE (IF g[s \ {issue_queue!Max(s)}].done THEN g[s \ {issue_queue!Max(s)}] ELSE issue_queue!Advance(r, issue_queue!Visit(r, ids, g[s \ {issue_queue!Max(s)}])))]

\* Such a function exists for every length: the do-while loop of compress
\* (issue_queue.h:140-166).
LEMMA IsSweepExists ==
  ASSUME NEW n \in Nat, NEW r, NEW ids
  PROVE  \E g : IsSweep(g, n, r, ids)
<1> DEFINE Further(v, i) == (IF v.done THEN v ELSE issue_queue!Advance(r, issue_queue!Visit(r, ids, v)))
           Step(g, s) == IF s = {} THEN Start(r) ELSE Further(g[s \ {issue_queue!Max(s)}], issue_queue!Max(s))
           S == {m \in Nat : \E g : g = [s \in SUBSET (1 .. m) |-> Step(g, s)]}
<1> HIDE DEF Further
<1>1. 0 \in S
  <2> DEFINE g == [s \in SUBSET (1 .. 0) |-> Start(r)]
  <2>1. g = [s \in SUBSET (1 .. 0) |-> Step(g, s)]
    <3>1. \A s \in SUBSET (1 .. 0) : s = {}
      OBVIOUS
    <3> QED
      BY <3>1, Zenon
  <2> QED
    BY <2>1
<1>2. ASSUME NEW m \in Nat, m \in S
      PROVE  m + 1 \in S
  <2>1. PICK g : g = [s \in SUBSET (1 .. m) |-> Step(g, s)]
    BY <1>2
  <2> DEFINE h == [s \in SUBSET (1 .. m + 1) |->
                     IF m + 1 \in s THEN Further(g[s \ {m + 1}], m + 1) ELSE g[s]]
  <2>2. \A s \in SUBSET (1 .. m + 1) : h[s] = Step(h, s)
    <3> SUFFICES ASSUME NEW s \in SUBSET (1 .. m + 1)
                 PROVE  h[s] = Step(h, s)
      OBVIOUS
    <3> DEFINE x == issue_queue!Max(s)
    <3>1. CASE m + 1 \in s
      <4>1. x = m + 1 /\ s # {}
        BY <3>1, MaxUpTo
      <4>2. s \ {m + 1} \in SUBSET (1 .. m + 1) /\ m + 1 \notin s \ {m + 1}
        OBVIOUS
      <4> HIDE DEF x
      <4>3. h[s] = Further(g[s \ {m + 1}], m + 1) /\ h[s \ {m + 1}] = g[s \ {m + 1}]
        BY <3>1, <4>2, Zenon
      <4> QED
        BY <4>1, <4>3, Zenon DEF x
    <3>2. CASE m + 1 \notin s
      <4>1. s \in SUBSET (1 .. m)
        BY <3>2
      <4>2. s \ {x} \in SUBSET (1 .. m + 1) /\ m + 1 \notin s \ {x}
        BY <3>2
      <4>3. h[s] = g[s] /\ h[s \ {x}] = g[s \ {x}]
        BY <3>2, <4>2, Zenon
      <4>4. g[s] = Step(g, s)
        BY <2>1, <4>1, Zenon
      <4> QED
        BY <4>3, <4>4, Zenon
    <3> QED
      BY <3>1, <3>2
  <2>3. h = [s \in SUBSET (1 .. m + 1) |-> Step(h, s)]
    <3> HIDE DEF Step
    <3> QED
      BY <2>2, Zenon
  <2>4. m + 1 \in Nat
    OBVIOUS
  <2> HIDE DEF h, Step
  <2> QED
    BY <2>3, <2>4, Zenon
<1>3. n \in S
  <2> HIDE DEF S
  <2> QED
    BY <1>1, <1>2, R!NatInd
<1> QED
  BY <1>3, Zenon DEF Further, IsSweep

\* The walk of compress over all slots.
Ended(r, ids) ==
  issue_queue!FoldLeft(LAMBDA at, n : IF at.done THEN at ELSE issue_queue!Advance(r, issue_queue!Visit(r, ids, at)),
             Start(r), [n \in 1 .. issue_queue!SizeOf(r) |-> n])

\* Where compress gets to when it has been once around.
LEMMA CompressIs ==
  ASSUME NEW r, NEW ids, issue_queue!SizeOf(r) \in Nat, NEW F,
         F[0] = Start(r), \A k \in 1 .. issue_queue!SizeOf(r) : F[k] = IF F[k - 1].done THEN F[k - 1] ELSE issue_queue!Advance(r, issue_queue!Visit(r, ids, F[k - 1]))
  PROVE  Ended(r, ids) = F[issue_queue!SizeOf(r)]
<1> DEFINE n == issue_queue!SizeOf(r)
           t == [k \in 1 .. issue_queue!SizeOf(r) |-> k]
           g == CHOOSE g : IsSweep(g, n, r, ids)
           U == {k \in Nat : k <= n => g[1 .. k] = F[k]}
<1>1. n \in Nat /\ DOMAIN t = 1 .. n
  OBVIOUS
<1>2. Ended(r, ids) = g[1 .. n]
  BY <1>1, Zenon DEF Ended, Start, issue_queue!FoldLeft, issue_queue!MapThenFoldSet, IsSweep
<1>3. IsSweep(g, n, r, ids)
  BY <1>1, IsSweepExists
<1>4. \A k \in 1 .. n : F[k] = (IF F[k - 1].done THEN F[k - 1] ELSE issue_queue!Advance(r, issue_queue!Visit(r, ids, F[k - 1])))
  OBVIOUS
<1> HIDE DEF g, t, n
<1>5. g[{}] = Start(r)
  <2>1. {} \in SUBSET (1 .. n)
    OBVIOUS
  <2> QED
    BY <1>3, <2>1, Zenon DEF IsSweep
<1>6. ASSUME NEW k \in 1 .. n
      PROVE  g[1 .. k] = (IF g[1 .. k - 1].done THEN g[1 .. k - 1] ELSE issue_queue!Advance(r, issue_queue!Visit(r, ids, g[1 .. k - 1])))
  <2>1. (1 .. k) \in SUBSET (1 .. n) /\ 1 .. k # {} /\ k \in Nat /\ k \in 1 .. k
    BY <1>1, FirstOnes, Zenon
  <2>2. issue_queue!Max(1 .. k) = k
    BY <2>1, MaxUpTo
  <2>3. (1 .. k) \ {k} = 1 .. k - 1
    BY <1>1, FirstOnes, Zenon
  <2> DEFINE x == issue_queue!Max(1 .. k)
             v == g[(1 .. k) \ {x}]
  <2>4. g[1 .. k] = (IF v.done THEN v ELSE issue_queue!Advance(r, issue_queue!Visit(r, ids, v)))
    BY <1>3, <2>1, Zenon DEF IsSweep
  <2> QED
    BY <2>2, <2>3, <2>4, Zenon
<1>7. 0 \in U
  <2>1. 1 .. 0 = {}
    OBVIOUS
  <2> QED
    BY <1>5, <2>1
<1>8. ASSUME NEW k \in Nat, k \in U
      PROVE  k + 1 \in U
  <2>1. CASE k + 1 <= n
    <3>1. k + 1 \in 1 .. n /\ (k + 1) - 1 = k /\ k <= n
      BY <1>1, <2>1
    <3>2. g[1 .. k] = F[k]
      BY <1>8, <3>1
    <3>3. g[1 .. k + 1] = (IF g[1 .. k].done THEN g[1 .. k] ELSE issue_queue!Advance(r, issue_queue!Visit(r, ids, g[1 .. k]))) /\ F[k + 1] = (IF F[k].done THEN F[k] ELSE issue_queue!Advance(r, issue_queue!Visit(r, ids, F[k])))
      BY <1>4, <1>6, <3>1, Zenon
    <3>4. g[1 .. k + 1] = F[k + 1]
      BY <3>2, <3>3
    <3> QED
      BY <3>4
  <2> QED
    BY <2>1
<1>9. Nat \subseteq U
  <2> HIDE DEF U
  <2> QED
    BY <1>7, <1>8, R!NatInd
<1>10. g[1 .. n] = F[n]
  BY <1>1, <1>9
<1> QED
  BY <1>2, <1>10, Zenon DEF n

-----------------------------------------------------------------------------
(* The elements of a sequence at some of its places, in order.             *)

\* Those among the first k, for every k.
Picks(s, P) ==
  CHOOSE f : f = [k \in 0 .. Len(s) |-> IF k = 0 THEN << >>
                                        ELSE IF k \in P THEN Append(f[k - 1], s[k]) ELSE f[k - 1]]

\* They grow by the element of one place at a time.
LEMMA PicksAre ==
  ASSUME NEW s, Len(s) \in Nat, NEW P
  PROVE  /\ Picks(s, P)[0] = << >>
         /\ \A k \in 1 .. Len(s) :
              Picks(s, P)[k] = IF k \in P THEN Append(Picks(s, P)[k - 1], s[k]) ELSE Picks(s, P)[k - 1]
<1> DEFINE Further(v, i) == IF i \in P THEN Append(v, s[i]) ELSE v
           Step(g, k) == IF k = 0 THEN << >> ELSE Further(g[k - 1], k)
           S == {m \in Nat : \E g : g = [k \in 0 .. m |-> Step(g, k)]}
           f == Picks(s, P)
<1> HIDE DEF Further
<1>1. 0 \in S
  <2> DEFINE g == [k \in 0 .. 0 |-> << >>]
  <2>1. g = [k \in 0 .. 0 |-> Step(g, k)]
    OBVIOUS
  <2> QED
    BY <2>1
<1>2. ASSUME NEW m \in Nat, m \in S
      PROVE  m + 1 \in S
  <2>1. PICK g : g = [k \in 0 .. m |-> Step(g, k)]
    BY <1>2
  <2> DEFINE h == [k \in 0 .. m + 1 |-> IF k = m + 1 THEN Further(g[m], m + 1) ELSE g[k]]
  <2>2. \A k \in 0 .. m + 1 : h[k] = Step(h, k)
    <3> SUFFICES ASSUME NEW k \in 0 .. m + 1
                 PROVE  h[k] = Step(h, k)
      OBVIOUS
    <3>1. CASE k = m + 1
      BY <3>1
    <3>2. CASE k \in 0 .. m
      <4>1. g[k] = Step(g, k)
        BY <2>1, <3>2, Zenon
      <4> QED
        BY <4>1, <3>2
    <3> QED
      BY <3>1, <3>2
  <2>3. h = [k \in 0 .. m + 1 |-> Step(h, k)]
    <3> HIDE DEF Step
    <3> QED
      BY <2>2
  <2>4. m + 1 \in Nat
    OBVIOUS
  <2> HIDE DEF h, Step
  <2> QED
    BY <2>3, <2>4, Zenon
<1>3. Len(s) \in S
  <2> HIDE DEF S
  <2> QED
    BY <1>1, <1>2, R!NatInd
<1>4. f = [k \in 0 .. Len(s) |-> Step(f, k)]
  BY <1>3, Zenon DEF Picks, Further
<1>5. f[0] = << >>
  <2>1. 0 \in 0 .. Len(s)
    OBVIOUS
  <2> HIDE DEF f
  <2> QED
    BY <1>4, <2>1, Zenon
<1>6. \A k \in 1 .. Len(s) : k \in 0 .. Len(s) /\ k # 0
  OBVIOUS
<1> HIDE DEF f
<1>7. \A k \in 1 .. Len(s) : f[k] = Further(f[k - 1], k)
  BY <1>4, <1>6, Zenon
<1> QED
  BY <1>5, <1>7, Zenon DEF Further, f

\* They are the only function that does so.
LEMMA PicksOnly ==
  ASSUME NEW s, Len(s) \in Nat, NEW P, NEW n \in 0 .. Len(s), NEW g, g[0] = << >>,
         \A k \in 1 .. n : g[k] = IF k \in P THEN Append(g[k - 1], s[k]) ELSE g[k - 1]
  PROVE  \A k \in 0 .. n : g[k] = Picks(s, P)[k]
<1> DEFINE f == Picks(s, P)
           U == {k \in 0 .. n : g[k] = f[k]}
<1>1. f[0] = << >> /\ \A k \in 1 .. Len(s) : f[k] = IF k \in P THEN Append(f[k - 1], s[k]) ELSE f[k - 1]
  BY PicksAre
<1> HIDE DEF f
<1>2. 0 \in U
  BY <1>1
<1>3. ASSUME NEW k \in 0 .. n - 1, k \in U
      PROVE  k + 1 \in U
  <2>1. k + 1 \in 1 .. n /\ k + 1 \in 1 .. Len(s) /\ (k + 1) - 1 = k /\ k + 1 \in 0 .. n
    OBVIOUS
  <2>2. g[k + 1] = IF k + 1 \in P THEN Append(g[k], s[k + 1]) ELSE g[k]
    BY <2>1, Zenon
  <2>3. f[k + 1] = IF k + 1 \in P THEN Append(f[k], s[k + 1]) ELSE f[k]
    BY <1>1, <2>1, Zenon
  <2>4. g[k] = f[k]
    BY <1>3
  <2>5. g[k + 1] = f[k + 1]
    BY <2>2, <2>3, <2>4
  <2> QED
    BY <2>1, <2>5
<1>4. 0 .. n \subseteq U
  <2>1. n \in Nat
    OBVIOUS
  <2> HIDE DEF U
  <2> QED
    BY <1>2, <1>3, <2>1, R!UpTo
<1> QED
  BY <1>4 DEF f

\* They are sequences, no longer than what they were picked from.
LEMMA PickTypes ==
  ASSUME NEW T, NEW s \in Seq(T), NEW P
  PROVE  \A k \in 0 .. Len(s) : Picks(s, P)[k] \in Seq(T) /\ Len(Picks(s, P)[k]) \in 0 .. k
<1> DEFINE f == Picks(s, P)
           n == Len(s)
           U == {k \in 0 .. n : f[k] \in Seq(T) /\ Len(f[k]) \in 0 .. k}
<1>0. n \in Nat /\ \A k \in 1 .. n : s[k] \in T
  OBVIOUS
<1>1. f[0] = << >> /\ \A k \in 1 .. n : f[k] = IF k \in P THEN Append(f[k - 1], s[k]) ELSE f[k - 1]
  BY <1>0, PicksAre
<1> HIDE DEF f, n
<1>2. 0 \in U
  <2>1. << >> \in Seq(T) /\ Len(<< >>) = 0
    OBVIOUS
  <2>2. f[0] \in Seq(T) /\ Len(f[0]) = 0
    BY <1>1, <2>1, Zenon
  <2> QED
    BY <1>0, <2>2
<1>3. ASSUME NEW k \in 0 .. n - 1, k \in U
      PROVE  k + 1 \in U
  <2>1. k + 1 \in 1 .. n /\ (k + 1) - 1 = k /\ k + 1 \in 0 .. n
    BY <1>0
  <2>2. f[k + 1] = IF k + 1 \in P THEN Append(f[k], s[k + 1]) ELSE f[k]
    BY <1>1, <2>1, Zenon
  <2>3. f[k] \in Seq(T) /\ Len(f[k]) \in 0 .. k /\ s[k + 1] \in T
    BY <1>0, <1>3, <2>1
  <2>4. Append(f[k], s[k + 1]) \in Seq(T) /\ Len(Append(f[k], s[k + 1])) = Len(f[k]) + 1
    BY <2>3
  <2>5. f[k + 1] \in Seq(T) /\ Len(f[k + 1]) \in 0 .. k + 1
    BY <2>2, <2>3, <2>4
  <2> QED
    BY <2>1, <2>5
<1>4. 0 .. n \subseteq U
  <2> HIDE DEF U
  <2> QED
    BY <1>0, <1>2, <1>3, R!UpTo
<1> QED
  BY <1>4 DEF f, n

\* Those among the first stay where they are as more come.
LEMMA PickGrows ==
  ASSUME NEW T, NEW s \in Seq(T), NEW P, NEW j \in 0 .. Len(s), NEW k \in j .. Len(s)
  PROVE  /\ Len(Picks(s, P)[j]) <= Len(Picks(s, P)[k])
         /\ \A m \in 1 .. Len(Picks(s, P)[j]) : Picks(s, P)[k][m] = Picks(s, P)[j][m]
<1> DEFINE f == Picks(s, P)
           n == Len(s)
           Kept(i) == Len(f[j]) <= Len(f[i]) /\ \A m \in 1 .. Len(f[j]) : f[i][m] = f[j][m]
           U == {d \in 0 .. n - j : Kept(j + d)}
<1>0. n \in Nat /\ n - j \in Nat /\ k - j \in 0 .. n - j /\ \A i \in 1 .. n : s[i] \in T
  OBVIOUS
<1>1. \A i \in 1 .. n : f[i] = IF i \in P THEN Append(f[i - 1], s[i]) ELSE f[i - 1]
  BY <1>0, PicksAre
<1>2. \A i \in 0 .. n : f[i] \in Seq(T) /\ Len(f[i]) \in 0 .. i
  BY PickTypes
<1> HIDE DEF f, n
<1>3. 0 \in U
  <2>1. Len(f[j]) \in Nat /\ j + 0 = j
    BY <1>2 DEF n
  <2> QED
    BY <1>0, <2>1
<1>4. ASSUME NEW d \in 0 .. n - j - 1, d \in U
      PROVE  d + 1 \in U
  <2> DEFINE i == j + d
  <2>1. i + 1 \in 1 .. n /\ (i + 1) - 1 = i /\ i \in 0 .. n /\ i + 1 = j + (d + 1) /\ d + 1 \in 0 .. n - j
    BY <1>0 DEF n
  <2>2. Kept(i)
    BY <1>4
  <2> HIDE DEF i
  <2>3. f[i + 1] = IF i + 1 \in P THEN Append(f[i], s[i + 1]) ELSE f[i]
    BY <1>1, <2>1, Zenon
  <2>4. f[i] \in Seq(T) /\ Len(f[i]) \in Nat /\ s[i + 1] \in T /\ Len(f[j]) \in Nat
    BY <1>0, <1>2, <2>1 DEF n
  <2>5. Kept(i + 1)
    <3>1. CASE i + 1 \in P
      <4>1. Len(Append(f[i], s[i + 1])) = Len(f[i]) + 1 /\ \A m \in 1 .. Len(f[i]) : Append(f[i], s[i + 1])[m] = f[i][m]
        BY <2>4
      <4> QED
        BY <2>2, <2>3, <2>4, <3>1, <4>1
    <3>2. CASE i + 1 \notin P
      BY <2>2, <2>3, <3>2
    <3> QED
      BY <3>1, <3>2
  <2> HIDE DEF Kept
  <2> QED
    BY <2>1, <2>5
<1>5. 0 .. n - j \subseteq U
  <2> HIDE DEF U
  <2> QED
    BY <1>0, <1>3, <1>4, R!UpTo
<1>6. Kept(j + (k - j))
  <2>1. k - j \in U
    <3> HIDE DEF U
    <3> QED
      BY <1>0, <1>5
  <2> HIDE DEF Kept
  <2> QED
    BY <2>1
<1>7. j + (k - j) = k
  OBVIOUS
<1>8. Kept(k)
  <2> HIDE DEF Kept
  <2> QED
    BY <1>6, <1>7
<1> QED
  BY <1>8 DEF f

\* Every element picked is at one of the places, and every place is picked from.
LEMMA PickElements ==
  ASSUME NEW T, NEW s \in Seq(T), NEW P, NEW k \in 0 .. Len(s)
  PROVE  /\ \A m \in 1 .. Len(Picks(s, P)[k]) : \E i \in 1 .. k : i \in P /\ Picks(s, P)[k][m] = s[i]
         /\ \A i \in 1 .. k : i \in P => /\ Len(Picks(s, P)[i]) = Len(Picks(s, P)[i - 1]) + 1
                                         /\ Len(Picks(s, P)[i]) \in 1 .. Len(Picks(s, P)[k])
                                         /\ Picks(s, P)[k][Len(Picks(s, P)[i])] = s[i]
<1> DEFINE f == Picks(s, P)
           n == Len(s)
           Found(l) == \A m \in 1 .. Len(f[l]) : \E i \in 1 .. l : i \in P /\ f[l][m] = s[i]
           U == {l \in 0 .. n : Found(l)}
<1>0. n \in Nat /\ \A i \in 1 .. n : s[i] \in T
  OBVIOUS
<1>1. f[0] = << >> /\ \A i \in 1 .. n : f[i] = IF i \in P THEN Append(f[i - 1], s[i]) ELSE f[i - 1]
  BY <1>0, PicksAre
<1>2. \A i \in 0 .. n : f[i] \in Seq(T) /\ Len(f[i]) \in 0 .. i
  BY PickTypes
<1>3. \A i \in 1 .. k : /\ Len(f[i]) <= Len(f[k])
                        /\ \A m \in 1 .. Len(f[i]) : f[k][m] = f[i][m]
  <2> SUFFICES ASSUME NEW i \in 1 .. k
               PROVE  /\ Len(f[i]) <= Len(f[k])
                      /\ \A m \in 1 .. Len(f[i]) : f[k][m] = f[i][m]
    OBVIOUS
  <2>1. i \in 0 .. Len(s) /\ k \in i .. Len(s)
    OBVIOUS
  <2> QED
    BY <2>1, PickGrows
<1> HIDE DEF f, n
<1>4. 0 \in U
  <2>1. 1 .. Len(f[0]) = {}
    BY <1>1
  <2> QED
    BY <1>0, <2>1
<1>5. ASSUME NEW l \in 0 .. n - 1, l \in U
      PROVE  l + 1 \in U
  <2>1. l + 1 \in 1 .. n /\ (l + 1) - 1 = l /\ l \in 0 .. n /\ l + 1 \in 0 .. n /\ 1 .. l \subseteq 1 .. l + 1
        /\ l + 1 \in 1 .. l + 1
    BY <1>0
  <2>2. Found(l)
    BY <1>5
  <2>3. f[l + 1] = IF l + 1 \in P THEN Append(f[l], s[l + 1]) ELSE f[l]
    BY <1>1, <2>1, Zenon
  <2>4. f[l] \in Seq(T) /\ Len(f[l]) \in Nat /\ s[l + 1] \in T
    BY <1>0, <1>2, <2>1
  <2>5. Found(l + 1)
    <3>1. CASE l + 1 \in P
      <4>1. /\ Len(Append(f[l], s[l + 1])) = Len(f[l]) + 1
            /\ \A m \in 1 .. Len(f[l]) : Append(f[l], s[l + 1])[m] = f[l][m]
            /\ Append(f[l], s[l + 1])[Len(f[l]) + 1] = s[l + 1]
        BY <2>4
      <4>2. f[l + 1] = Append(f[l], s[l + 1])
        BY <2>3, <3>1
      <4> SUFFICES ASSUME NEW m \in 1 .. Len(f[l + 1])
                   PROVE  \E i \in 1 .. l + 1 : i \in P /\ f[l + 1][m] = s[i]
        OBVIOUS
      <4>3. m \in 1 .. Len(f[l]) \/ m = Len(f[l]) + 1
        BY <2>4, <4>1, <4>2
      <4> QED
        BY <2>1, <2>2, <3>1, <4>1, <4>2, <4>3
    <3>2. CASE l + 1 \notin P
      BY <2>1, <2>2, <2>3, <3>2
    <3> QED
      BY <3>1, <3>2
  <2> HIDE DEF Found
  <2> QED
    BY <2>1, <2>5
<1>6. 0 .. n \subseteq U
  <2> HIDE DEF U
  <2> QED
    BY <1>0, <1>4, <1>5, R!UpTo
<1>7. Found(k)
  <2> HIDE DEF Found
  <2> QED
    BY <1>6 DEF n
<1>8. ASSUME NEW i \in 1 .. k, i \in P
      PROVE  /\ Len(f[i]) = Len(f[i - 1]) + 1 /\ Len(f[i]) \in 1 .. Len(f[k])
             /\ f[k][Len(f[i])] = s[i]
  <2>1. i \in 1 .. n /\ i - 1 \in 0 .. n /\ i \in 0 .. n /\ k \in 0 .. n
    BY <1>0 DEF n
  <2>2. f[i] = Append(f[i - 1], s[i]) /\ f[i - 1] \in Seq(T) /\ s[i] \in T /\ Len(f[i - 1]) \in Nat /\ Len(f[k]) \in Nat
    <3>1. f[i] = Append(f[i - 1], s[i])
      BY <1>1, <1>8, <2>1
    <3>2. s[i] \in T /\ f[i - 1] \in Seq(T) /\ Len(f[i - 1]) \in 0 .. i - 1 /\ Len(f[k]) \in 0 .. k
      BY <1>0, <1>2, <2>1
    <3> QED
      BY <2>1, <3>1, <3>2
  <2>3. Len(f[i]) = Len(f[i - 1]) + 1 /\ f[i][Len(f[i])] = s[i]
    BY <2>2
  <2>4. Len(f[i]) \in 1 .. Len(f[i]) /\ Len(f[i]) \in 1 .. Len(f[k])
    BY <1>3, <2>2, <2>3
  <2> QED
    BY <1>3, <2>3, <2>4
<1> QED
  BY <1>7, <1>8 DEF f

\* One more of two parts is one more of the whole.
LEMMA OneMore ==
  ASSUME NEW a \in Nat, NEW b \in Nat, NEW l \in Nat, a + b = l
  PROVE  (a + 1) + b = l + 1 /\ a + (b + 1) = l + 1
OBVIOUS

\* A place is picked from, or its element is among the others.
LEMMA PickOrLeave ==
  ASSUME NEW T, NEW s \in Seq(T), NEW P, NEW t, Len(t) = Len(s), NEW D, t \in Seq(D),
         NEW k \in 0 .. Len(s)
  PROVE  Len(Picks(s, P)[k]) + Len(Picks(t, (1 .. Len(s)) \ P)[k]) = k
<1> DEFINE f == Picks(s, P)
           n == Len(s)
           others == (1 .. n) \ P
           g == Picks(t, others)
           Sum(l) == Len(f[l]) + Len(g[l]) = l
           U == {l \in 0 .. n : Sum(l)}
<1>0. n \in Nat /\ Len(t) = n /\ (\A i \in 1 .. n : s[i] \in T) /\ (\A i \in 1 .. n : t[i] \in D)
  OBVIOUS
<1>1. f[0] = << >> /\ \A i \in 1 .. n : f[i] = IF i \in P THEN Append(f[i - 1], s[i]) ELSE f[i - 1]
  BY <1>0, PicksAre
<1>2. g[0] = << >> /\ \A i \in 1 .. n : g[i] = IF i \in others THEN Append(g[i - 1], t[i]) ELSE g[i - 1]
  BY <1>0, PicksAre
<1>3. \A i \in 0 .. n : f[i] \in Seq(T) /\ Len(f[i]) \in 0 .. i
  BY PickTypes
<1>4. \A i \in 0 .. n : g[i] \in Seq(D) /\ Len(g[i]) \in 0 .. i
  BY <1>0, PickTypes
<1> HIDE DEF f, n, g
<1>5. 0 \in U
  <2>1. Len(<< >>) = 0
    OBVIOUS
  <2>2. Len(f[0]) = 0 /\ Len(g[0]) = 0
    BY <1>1, <1>2, <2>1, Zenon
  <2> QED
    <3>1. PICK a \in Nat, b \in Nat : a = Len(f[0]) /\ b = Len(g[0]) /\ a = 0 /\ b = 0
      BY <2>2
    <3>2. Sum(0)
      BY <3>1
    <3> HIDE DEF Sum
    <3> QED
      BY <1>0, <3>2
<1>6. ASSUME NEW l \in 0 .. n - 1, l \in U
      PROVE  l + 1 \in U
  <2>1. l \in Nat /\ l + 1 \in 1 .. n /\ (l + 1) - 1 = l /\ l \in 0 .. n /\ l + 1 \in 0 .. n
    BY <1>0
  <2>2. f[l + 1] = IF l + 1 \in P THEN Append(f[l], s[l + 1]) ELSE f[l]
    BY <1>1, <2>1, Zenon
  <2>3. g[l + 1] = IF l + 1 \in others THEN Append(g[l], t[l + 1]) ELSE g[l]
    BY <1>2, <2>1, Zenon
  <2>4. f[l] \in Seq(T) /\ Len(f[l]) \in Nat /\ g[l] \in Seq(D) /\ Len(g[l]) \in Nat /\ s[l + 1] \in T /\ t[l + 1] \in D
    BY <1>0, <1>3, <1>4, <2>1
  <2>5. Len(Append(f[l], s[l + 1])) = Len(f[l]) + 1 /\ Len(Append(g[l], t[l + 1])) = Len(g[l]) + 1
    BY <2>4
  <2>6. l + 1 \in others <=> l + 1 \notin P
    BY <2>1
  <2>7. Sum(l)
    <3> HIDE DEF Sum
    <3> QED
      BY <1>6
  <2>8. Sum(l + 1)
    <3> HIDE DEF others
    <3>1. PICK a \in Nat, b \in Nat : a = Len(f[l]) /\ b = Len(g[l]) /\ a + b = l
      BY <2>4, <2>7
    <3>2. CASE l + 1 \in P
      <4>1. f[l + 1] = Append(f[l], s[l + 1]) /\ g[l + 1] = g[l]
        BY <2>2, <2>3, <2>6, <3>2
      <4>2. Len(f[l + 1]) = Len(f[l]) + 1 /\ Len(g[l + 1]) = Len(g[l])
        BY <2>5, <4>1, Zenon
      <4>3. Len(f[l + 1]) = a + 1 /\ Len(g[l + 1]) = b
        BY <3>1, <4>2
      <4>4. (a + 1) + b = l + 1
        BY <2>1, <3>1, OneMore, Zenon
      <4> QED
        BY <4>3, <4>4, Zenon
    <3>3. CASE l + 1 \notin P
      <4>1. f[l + 1] = f[l] /\ g[l + 1] = Append(g[l], t[l + 1])
        BY <2>2, <2>3, <2>6, <3>3
      <4>2. Len(f[l + 1]) = Len(f[l]) /\ Len(g[l + 1]) = Len(g[l]) + 1
        BY <2>5, <4>1, Zenon
      <4>3. Len(f[l + 1]) = a /\ Len(g[l + 1]) = b + 1
        BY <3>1, <4>2
      <4>4. a + (b + 1) = l + 1
        BY <2>1, <3>1, OneMore, Zenon
      <4> QED
        BY <4>3, <4>4, Zenon
    <3> QED
      BY <3>2, <3>3
  <2> HIDE DEF Sum
  <2> QED
    BY <2>1, <2>8
<1>7. 0 .. n \subseteq U
  <2> HIDE DEF U
  <2> QED
    BY <1>0, <1>5, <1>6, R!UpTo
<1>8. Sum(k)
  <2> HIDE DEF Sum
  <2> QED
    BY <1>7 DEF n
<1> QED
  BY <1>8 DEF f, g, n

-----------------------------------------------------------------------------
(* compress: what is on the way in the slots.                              *)

N == QueueSize

\* A ring of the queue, its elements, and it with other elements in front.
Queued == R!Rings(N, Elem)

Els(r) == [i \in 1 .. R!get_size(r) |-> R!get_item(r, R!Place(r, i))]

SlotsWith(r, v) ==
  [x \in 1 .. N |-> IF R!At(r, x - 1) <= Len(v) THEN v[R!At(r, x - 1)] ELSE r.slots[x]]

RingWith(r, v) == [slots |-> SlotsWith(r, v), rptr |-> r.rptr, wptr |-> r.wptr, wrapped |-> r.wrapped]

\* The constructor's parameter is a number of slots (issue_queue.h:53-56).
LEMMA QueueSizeIs == N \in Nat \ {0}
BY QueueAssumption DEF N

\* The elements of a queue.
LEMMA ElsAre ==
  ASSUME NEW r \in Queued
  PROVE  /\ Els(r) \in Seq(Elem) /\ Len(Els(r)) = R!get_size(r) /\ R!get_size(r) \in 0 .. N
         /\ \A i \in 1 .. R!get_size(r) : /\ Els(r)[i] = R!get_item(r, R!Place(r, i))
                                         /\ Els(r)[i] \in Elem
<1>1. R!get_size(r) \in 0 .. N
  BY QueueSizeIs, R!SizeIs DEF Queued
<1>2. \A i \in 1 .. R!get_size(r) : R!get_item(r, R!Place(r, i)) \in Elem
  BY DEF Queued, R!Rings
<1> QED
  BY <1>1, <1>2, QueueSizeIs DEF Els

\* Slots and places.
LEMMA SlotFacts ==
  ASSUME NEW r \in Queued
  PROVE  /\ \A x \in 1 .. N : R!At(r, x - 1) \in 1 .. N /\ R!Place(r, R!At(r, x - 1)) = x - 1
         /\ \A i \in 1 .. N : R!Place(r, i) + 1 \in 1 .. N /\ R!At(r, R!Place(r, i)) = i
         /\ r.slots \in [1 .. N -> Elem \cup {R!Dead}] /\ R!SizeOf(r) = N
         /\ r = [slots |-> r.slots, rptr |-> r.rptr, wptr |-> r.wptr, wrapped |-> r.wrapped]
         /\ r.rptr \in 0 .. N - 1 /\ r.wptr \in 0 .. N - 1 /\ r.wrapped \in BOOLEAN
<1>1. r \in R!Rings(N, Elem)
  BY DEF Queued
<1>2. ASSUME NEW x \in 1 .. N
      PROVE  R!At(r, x - 1) \in 1 .. N /\ R!Place(r, R!At(r, x - 1)) = x - 1
  <2>1. x - 1 \in 0 .. N - 1
    BY QueueSizeIs
  <2> QED
    BY <1>1, <2>1, QueueSizeIs, R!PlaceAt
<1>3. ASSUME NEW i \in 1 .. N
      PROVE  R!Place(r, i) + 1 \in 1 .. N /\ R!At(r, R!Place(r, i)) = i
  <2>1. R!Place(r, i) \in 0 .. N - 1 /\ R!At(r, R!Place(r, i)) = i
    BY <1>1, QueueSizeIs, R!AtPlace
  <2> QED
    BY <2>1, QueueSizeIs
<1> QED
  BY <1>1, <1>2, <1>3, QueueSizeIs, R!ShapeFacts

\* With its own elements in front a ring is as it was.
LEMMA WithNone ==
  ASSUME NEW r \in Queued
  PROVE  RingWith(r, << >>) = r
<1>1. \A x \in 1 .. N : ~(R!At(r, x - 1) <= Len(<< >>))
  BY SlotFacts, QueueSizeIs
<1>2. \A x \in 1 .. N : SlotsWith(r, << >>)[x] = r.slots[x]
  BY <1>1, Zenon DEF SlotsWith
<1>3. SlotsWith(r, << >>) = r.slots
  <2>1. SlotsWith(r, << >>) = [x \in 1 .. N |-> SlotsWith(r, << >>)[x]]
    BY Zenon DEF SlotsWith
  <2>2. r.slots = [x \in 1 .. N |-> r.slots[x]]
    BY SlotFacts
  <2> QED
    BY <1>2, <2>1, <2>2
<1> QED
  BY <1>3, SlotFacts, Zenon DEF RingWith

\* An element that stays where it is.
LEMMA WithStays ==
  ASSUME NEW r \in Queued, NEW v \in Seq(Elem), Len(v) < R!get_size(r)
  PROVE  RingWith(r, Append(v, Els(r)[Len(v) + 1])) = RingWith(r, v)
<1> DEFINE k == Len(v)
           e == Els(r)[k + 1]
           u == Append(v, e)
<1>1. k \in Nat /\ k + 1 \in 1 .. R!get_size(r) /\ R!get_size(r) \in 0 .. N /\ k + 1 \in 1 .. N
  BY ElsAre, QueueSizeIs
<1>2. e = R!get_item(r, R!Place(r, k + 1)) /\ e \in Elem
  BY <1>1, ElsAre
<1> HIDE DEF e
<1>3. Len(u) = k + 1 /\ u[k + 1] = e /\ \A i \in 1 .. k : u[i] = v[i]
  BY <1>2
<1> HIDE DEF u, k
<1>4. ASSUME NEW x \in 1 .. N
      PROVE  SlotsWith(r, u)[x] = SlotsWith(r, v)[x]
  <2> DEFINE a == R!At(r, x - 1)
  <2>1. a \in 1 .. N /\ R!Place(r, a) = x - 1
    BY SlotFacts
  <2>2. /\ SlotsWith(r, u)[x] = IF a <= k + 1 THEN u[a] ELSE r.slots[x]
        /\ SlotsWith(r, v)[x] = IF a <= k THEN v[a] ELSE r.slots[x]
    BY <1>3 DEF SlotsWith, k
  <2> HIDE DEF a
  <2>3. CASE a = k + 1
    <3>1. e = r.slots[x]
      <4>1. e = r.slots[(x - 1) + 1]
        BY <1>2, <2>1, <2>3 DEF R!get_item
      <4>2. (x - 1) + 1 = x
        BY QueueSizeIs
      <4> QED
        BY <4>1, <4>2, Zenon
    <3>2. a <= k + 1 /\ ~(a <= k)
      BY <1>1, <2>3
    <3> QED
      BY <1>3, <2>2, <2>3, <3>1, <3>2
  <2>4. CASE a # k + 1
    <3>1. a <= k + 1 <=> a <= k
      BY <1>1, <2>1, <2>4, QueueSizeIs
    <3>2. a <= k => a \in 1 .. k
      BY <1>1, <2>1, QueueSizeIs
    <3> QED
      BY <1>3, <2>2, <3>1, <3>2
  <2> QED
    BY <2>3, <2>4
<1>5. SlotsWith(r, u) = SlotsWith(r, v)
  <2>1. \A w : SlotsWith(r, w) = [x \in 1 .. N |-> SlotsWith(r, w)[x]]
    BY Zenon DEF SlotsWith
  <2> QED
    BY <1>4, <2>1
<1> QED
  BY <1>5, Zenon DEF RingWith, u, e, k

\* An element that moves down into the hole.
LEMMA WithMoved ==
  ASSUME NEW r \in Queued, NEW v \in Seq(Elem), NEW k \in Nat, Len(v) <= k, k < R!get_size(r)
  PROVE  LET s == RingWith(r, v)
         IN  issue_queue!set_item(s, R!Place(r, Len(v) + 1), issue_queue!get_item(s, R!Place(r, k + 1)))
               = RingWith(r, Append(v, Els(r)[k + 1]))
<1> DEFINE l == Len(v)
           e == Els(r)[k + 1]
           u == Append(v, e)
           s == RingWith(r, v)
           h == R!Place(r, l + 1) + 1
           c == R!Place(r, k + 1) + 1
<1>1. l \in Nat /\ k + 1 \in 1 .. R!get_size(r) /\ R!get_size(r) \in 0 .. N /\ k + 1 \in 1 .. N /\ l + 1 \in 1 .. N
  BY ElsAre, QueueSizeIs
<1>2. e = r.slots[c] /\ e \in Elem
  BY <1>1, ElsAre DEF R!get_item
<1>3. h \in 1 .. N /\ c \in 1 .. N /\ R!At(r, h - 1) = l + 1 /\ R!At(r, c - 1) = k + 1
  <2>1. R!Place(r, l + 1) + 1 \in 1 .. N /\ R!At(r, R!Place(r, l + 1)) = l + 1
    BY <1>1, SlotFacts
  <2>2. R!Place(r, k + 1) + 1 \in 1 .. N /\ R!At(r, R!Place(r, k + 1)) = k + 1
    BY <1>1, SlotFacts
  <2>3. R!Place(r, l + 1) \in Int /\ R!Place(r, k + 1) \in Int
    <3>1. R!Place(r, l + 1) \in 0 .. N - 1 /\ R!Place(r, k + 1) \in 0 .. N - 1
      BY <1>1, QueueSizeIs, R!AtPlace DEF Queued
    <3> QED
      BY <3>1, QueueSizeIs
  <2>4. h - 1 = R!Place(r, l + 1) /\ c - 1 = R!Place(r, k + 1)
    BY <2>3
  <2> QED
    BY <2>1, <2>2, <2>4, Zenon
<1> HIDE DEF e
<1>4. Len(u) = l + 1 /\ u[l + 1] = e /\ \A i \in 1 .. l : u[i] = v[i]
  BY <1>2
<1>5. issue_queue!set_item(s, R!Place(r, l + 1), issue_queue!get_item(s, R!Place(r, k + 1))) = [s EXCEPT !.slots[h] = s.slots[c]]
  BY Zenon DEF issue_queue!set_item, issue_queue!get_item
<1> HIDE DEF h, c, l, u
<1>6. s.slots = SlotsWith(r, v) /\ SlotsWith(r, v) = [x \in 1 .. N |-> SlotsWith(r, v)[x]]
  <2>1. s.slots = SlotsWith(r, v)
    BY DEF RingWith
  <2> QED
    BY <2>1, Zenon DEF SlotsWith
<1>7. s.slots[c] = e
  <2>1. ~(k + 1 <= l)
    BY <1>1 DEF l
  <2>2. SlotsWith(r, v)[c] = r.slots[c]
    BY <1>3, <2>1 DEF SlotsWith, l
  <2> QED
    BY <1>2, <1>6, <2>2, Zenon
<1>8. ASSUME NEW x \in 1 .. N
      PROVE  SlotsWith(r, u)[x] = IF x = h THEN e ELSE SlotsWith(r, v)[x]
  <2> DEFINE a == R!At(r, x - 1)
  <2>1. a \in 1 .. N /\ R!Place(r, a) = x - 1
    BY SlotFacts
  <2>2. /\ SlotsWith(r, u)[x] = IF a <= l + 1 THEN u[a] ELSE r.slots[x]
        /\ SlotsWith(r, v)[x] = IF a <= l THEN v[a] ELSE r.slots[x]
    BY <1>4 DEF SlotsWith, l
  <2>3. a = l + 1 <=> x = h
    <3>1. x = h => a = l + 1
      BY <1>3
    <3>2. a = l + 1 => x - 1 = R!Place(r, l + 1)
      BY <2>1, Zenon
    <3>3. x - 1 = R!Place(r, l + 1) => x = h
      BY QueueSizeIs DEF h
    <3> QED
      BY <3>1, <3>2, <3>3, Zenon
  <2> HIDE DEF a
  <2>4. CASE x = h
    <3>1. a = l + 1 /\ a <= l + 1
      BY <1>1, <2>3, <2>4
    <3> QED
      BY <1>4, <2>2, <2>4, <3>1
  <2>5. CASE x # h
    <3>1. a <= l + 1 <=> a <= l
      BY <1>1, <2>1, <2>3, <2>5, QueueSizeIs
    <3>2. a <= l => a \in 1 .. l
      BY <1>1, <2>1, QueueSizeIs
    <3> QED
      BY <1>4, <2>2, <2>5, <3>1, <3>2
  <2> QED
    BY <2>4, <2>5
<1>9. SlotsWith(r, u) = [SlotsWith(r, v) EXCEPT ![h] = e]
  <2>1. SlotsWith(r, u) = [x \in 1 .. N |-> SlotsWith(r, u)[x]]
    BY Zenon DEF SlotsWith
  <2>2. [SlotsWith(r, v) EXCEPT ![h] = e] = [x \in 1 .. N |-> IF x = h THEN e ELSE SlotsWith(r, v)[x]]
    BY <1>3, <1>6
  <2> QED
    BY <1>8, <2>1, <2>2
<1>10. [s EXCEPT !.slots[h] = e] = [slots |-> [SlotsWith(r, v) EXCEPT ![h] = e], rptr |-> r.rptr,
                                   wptr |-> r.wptr, wrapped |-> r.wrapped]
  BY DEF RingWith
<1>11. [s EXCEPT !.slots[h] = s.slots[c]] = RingWith(r, u)
  BY <1>7, <1>9, <1>10, Zenon DEF RingWith
<1> QED
  BY <1>5, <1>11, Zenon DEF u, l, e

\* The places of a queue whose slots are in a set; the slots among the first k
\* elements that are, and the elements among the first k whose slots are not.
Taken(r, places) == {k \in 1 .. R!get_size(r) : R!LiveIds(r)[k] \in places}

Named(r, places, k) == Picks(R!LiveIds(r), Taken(r, places))[k]

Rest(r, places, k) == Picks(Els(r), (1 .. R!get_size(r)) \ Taken(r, places))[k]

\* Before the walk of compress begins nothing was named and nothing stays.
LEMMA WalkStarts ==
  ASSUME NEW r \in Queued, NEW places
  PROVE  Named(r, places, 0) = << >> /\ Rest(r, places, 0) = << >>
<1>1. Len(R!LiveIds(r)) \in Nat /\ Len(Els(r)) \in Nat
  BY QueueSizeIs, ElsAre, R!LiveIdsIs DEF Queued
<1> QED
  BY <1>1, PicksAre DEF Named, Rest

\* What is named and what stays are sequences of slots and of elements, and together
\* they are as many as were visited.
LEMMA WalkTypes ==
  ASSUME NEW r \in Queued, NEW places, NEW k \in 0 .. R!get_size(r)
  PROVE  /\ Named(r, places, k) \in Seq(0 .. N - 1) /\ Rest(r, places, k) \in Seq(Elem)
         /\ Len(Named(r, places, k)) \in 0 .. k /\ Len(Rest(r, places, k)) \in 0 .. k
         /\ Len(Named(r, places, k)) + Len(Rest(r, places, k)) = k
<1> DEFINE s == R!LiveIds(r)
           t == Els(r)
           P == Taken(r, places)
           m == R!get_size(r)
<1>1. s \in Seq(0 .. N - 1) /\ Len(s) = m /\ t \in Seq(Elem) /\ Len(t) = m
  BY QueueSizeIs, ElsAre, R!LiveIdsIs DEF Queued
<1>2. k \in 0 .. Len(s) /\ k \in 0 .. Len(t)
  BY <1>1
<1> HIDE DEF s, t, P
<1>3. Picks(s, P)[k] \in Seq(0 .. N - 1) /\ Len(Picks(s, P)[k]) \in 0 .. k
  BY <1>1, <1>2, PickTypes
<1>4. \A O : Picks(t, O)[k] \in Seq(Elem) /\ Len(Picks(t, O)[k]) \in 0 .. k
  BY <1>1, <1>2, PickTypes
<1>5. Len(Picks(s, P)[k]) + Len(Picks(t, (1 .. Len(s)) \ P)[k]) = k
  <2>1. Len(t) = Len(s)
    BY <1>1
  <2> QED
    BY <1>1, <1>2, <2>1, PickOrLeave
<1> QED
  BY <1>1, <1>3, <1>4, <1>5, Zenon DEF Named, Rest, s, t, P

\* Both grow by one place at a time, one or the other: a visit adds to what is named or to what stays, never to both.
LEMMA WalkSteps ==
  ASSUME NEW r \in Queued, NEW places, NEW k \in 0 .. R!get_size(r) - 1
  PROVE  IF k + 1 \in Taken(r, places)
         THEN /\ Named(r, places, k + 1) = Append(Named(r, places, k), R!Place(r, k + 1))
              /\ Len(Named(r, places, k + 1)) = Len(Named(r, places, k)) + 1
              /\ Rest(r, places, k + 1) = Rest(r, places, k)
         ELSE /\ Named(r, places, k + 1) = Named(r, places, k)
              /\ Rest(r, places, k + 1) = Append(Rest(r, places, k), Els(r)[k + 1])
              /\ Len(Rest(r, places, k + 1)) = Len(Rest(r, places, k)) + 1
<1> DEFINE s == R!LiveIds(r)
           t == Els(r)
           P == Taken(r, places)
           m == R!get_size(r)
           O == (1 .. m) \ P
<1>0. m \in Nat
  BY QueueSizeIs, ElsAre
<1>1. /\ s \in Seq(0 .. N - 1) /\ Len(s) = m /\ Len(t) = m
      /\ \A i \in 1 .. m : s[i] = R!Place(r, i) /\ s[i] \in 0 .. N - 1 /\ t[i] \in Elem
  <2>1. s \in Seq(0 .. N - 1) /\ Len(s) = m /\ \A i \in 1 .. m : s[i] = R!Place(r, i)
    BY QueueSizeIs, R!LiveIdsIs DEF Queued
  <2>2. \A i \in 1 .. m : s[i] \in 0 .. N - 1
    <3>1. \A v \in Seq(0 .. N - 1) : \A i \in 1 .. Len(v) : v[i] \in 0 .. N - 1
      BY ElementOfSeq
    <3> HIDE DEF s, m
    <3> QED
      BY <2>1, <3>1
  <2> QED
    BY <2>1, <2>2, ElsAre
<1>2. k + 1 \in 1 .. m /\ (k + 1) - 1 = k /\ k \in 0 .. m
  BY <1>0
<1>3. /\ Picks(s, P)[k + 1] = IF k + 1 \in P THEN Append(Picks(s, P)[k], s[k + 1]) ELSE Picks(s, P)[k]
      /\ Picks(t, O)[k + 1] = IF k + 1 \in O THEN Append(Picks(t, O)[k], t[k + 1]) ELSE Picks(t, O)[k]
  <2> HIDE DEF s, t, P, O, m
  <2>1. Len(s) \in Nat /\ Len(t) \in Nat /\ k + 1 \in 1 .. Len(s) /\ k + 1 \in 1 .. Len(t)
    BY <1>0, <1>1, <1>2
  <2>4. \A v, C : Len(v) \in Nat =>
          \A j \in 1 .. Len(v) : Picks(v, C)[j] = IF j \in C THEN Append(Picks(v, C)[j - 1], v[j]) ELSE Picks(v, C)[j - 1]
    BY PicksAre
  <2>2. Picks(s, P)[k + 1] = IF k + 1 \in P THEN Append(Picks(s, P)[(k + 1) - 1], s[k + 1]) ELSE Picks(s, P)[(k + 1) - 1]
    BY <2>1, <2>4
  <2>3. Picks(t, O)[k + 1] = IF k + 1 \in O THEN Append(Picks(t, O)[(k + 1) - 1], t[k + 1]) ELSE Picks(t, O)[(k + 1) - 1]
    BY <2>1, <2>4
  <2> QED
    BY <1>2, <2>2, <2>3, Zenon
<1>4. k + 1 \in O <=> k + 1 \notin P
  BY <1>2
<1>5. Named(r, places, k) \in Seq(0 .. N - 1) /\ Rest(r, places, k) \in Seq(Elem)
  BY <1>2, WalkTypes
<1>6. s[k + 1] = R!Place(r, k + 1) /\ s[k + 1] \in 0 .. N - 1 /\ t[k + 1] \in Elem
  BY <1>1, <1>2
<1> HIDE DEF s, t, P, O
<1>7. CASE k + 1 \in P
  <2>1. /\ Named(r, places, k + 1) = Append(Named(r, places, k), R!Place(r, k + 1))
        /\ Rest(r, places, k + 1) = Rest(r, places, k)
    BY <1>3, <1>4, <1>6, <1>7, Zenon DEF Named, Rest, s, t, P, O
  <2>2. Len(Append(Named(r, places, k), R!Place(r, k + 1))) = Len(Named(r, places, k)) + 1
    BY <1>5, <1>6
  <2> QED
    BY <1>7, <2>1, <2>2, Zenon DEF P
<1>8. CASE k + 1 \notin P
  <2>1. /\ Named(r, places, k + 1) = Named(r, places, k)
        /\ Rest(r, places, k + 1) = Append(Rest(r, places, k), Els(r)[k + 1])
    BY <1>3, <1>4, <1>8, Zenon DEF Named, Rest, s, t, P, O
  <2>2. Len(Append(Rest(r, places, k), Els(r)[k + 1])) = Len(Rest(r, places, k)) + 1
    BY <1>5, <1>6 DEF t
  <2> QED
    BY <1>8, <2>1, <2>2, Zenon DEF P
<1> QED
  BY <1>7, <1>8

\* The list that compress gets names the element under its eyes exactly when that is to go.
LEMMA ListNext ==
  ASSUME NEW r \in Queued, NEW places, NEW k \in 0 .. R!get_size(r) - 1
  PROVE  LET ids == Named(r, places, R!get_size(r))
             i   == Len(Named(r, places, k))
         IN  (i < Len(ids) /\ R!Place(r, k + 1) = ids[i + 1]) <=> k + 1 \in Taken(r, places)
<1> DEFINE s == R!LiveIds(r)
           P == Taken(r, places)
           m == R!get_size(r)
           ids == Named(r, places, m)
           i == Len(Named(r, places, k))
<1>0. m \in Nat /\ m \in 0 .. m /\ k + 1 \in 1 .. m /\ k \in 0 .. m
  BY QueueSizeIs, ElsAre
<1>1. s \in Seq(0 .. N - 1) /\ Len(s) = m /\ \A j \in 1 .. m : s[j] = R!Place(r, j)
  BY QueueSizeIs, R!LiveIdsIs DEF Queued
<1>2. i \in Nat /\ Len(ids) \in Nat
  BY <1>0, WalkTypes
<1>3. /\ \A j \in 1 .. Len(Picks(s, P)[m]) : \E l \in 1 .. m : l \in P /\ Picks(s, P)[m][j] = s[l]
      /\ \A l \in 1 .. m : l \in P => /\ Len(Picks(s, P)[l]) \in 1 .. Len(Picks(s, P)[m])
                                     /\ Picks(s, P)[m][Len(Picks(s, P)[l])] = s[l]
  <2>1. m \in 0 .. Len(s)
    BY <1>0, <1>1
  <2> HIDE DEF s, P, m
  <2> QED
    BY <1>1, <2>1, PickElements
<1>4. CASE k + 1 \in P
  <2>1. Len(Named(r, places, k + 1)) = i + 1
    BY <1>4, WalkSteps
  <2>2. Len(Named(r, places, k + 1)) \in 1 .. Len(ids) /\ ids[Len(Named(r, places, k + 1))] = s[k + 1]
    <3> HIDE DEF s, P, m
    <3> QED
      BY <1>0, <1>3, <1>4, Zenon DEF Named, s, P, m
  <2>3. ids[i + 1] = R!Place(r, k + 1) /\ i < Len(ids)
    <3> HIDE DEF i, ids, s
    <3> QED
      BY <1>0, <1>1, <1>2, <2>1, <2>2
  <2> QED
    BY <1>4, <2>3
<1>5. CASE k + 1 \notin P
  <2> SUFFICES ASSUME i < Len(ids), R!Place(r, k + 1) = ids[i + 1]
               PROVE  FALSE
    BY <1>5
  <2>1. i + 1 \in 1 .. Len(ids)
    <3> HIDE DEF i, ids
    <3> QED
      BY <1>2
  <2>2. PICK l \in 1 .. m : l \in P /\ ids[i + 1] = s[l]
    <3> HIDE DEF s, P, m, i
    <3> QED
      BY <1>3, <2>1, Zenon DEF Named, s, P, m
  <2>3. s[k + 1] = s[l]
    <3> HIDE DEF s, ids, i
    <3> QED
      BY <1>0, <1>1, <2>2
  <2>4. s[k + 1] \in places
    BY <2>2, <2>3 DEF Taken
  <2> QED
    BY <1>0, <1>5, <2>4 DEF Taken
<1> QED
  BY <1>4, <1>5

\* One step on, around the end of the slots.
LEMMA RoundOnce ==
  ASSUME NEW n \in Nat \ {0}, NEW p \in 0 .. n - 1
  PROVE  (p + 1) % n = IF p + 1 < n THEN p + 1 ELSE p + 1 - n
OBVIOUS

\* The place after a place, and on which side of the end of the slots it is.
LEMMA NextPlace ==
  ASSUME NEW r \in Queued, NEW j \in 1 .. N
  PROVE  /\ (R!Place(r, j) + 1) % N = R!Place(r, j + 1)
         /\ (R!Place(r, j) + 1 >= N) <=> ((r.rptr + j >= N) /\ ~(r.rptr + (j - 1) >= N))
         /\ (r.rptr + (j - 1) >= N) => (r.rptr + j >= N)
<1>1. r \in R!Shapes(N, Elem) /\ r.rptr \in 0 .. N - 1 /\ N \in Nat \ {0}
  BY SlotFacts, QueueSizeIs DEF Queued, R!Rings
<1>2. j \in 1 .. N + 1 /\ j + 1 \in 1 .. N + 1
  BY <1>1
<1>3. R!Place(r, j) = IF r.rptr + j - 1 < N THEN r.rptr + j - 1 ELSE r.rptr + j - 1 - N
  BY <1>1, <1>2, R!PlaceIs
<1>4. R!Place(r, j + 1) = IF r.rptr + (j + 1) - 1 < N THEN r.rptr + (j + 1) - 1 ELSE r.rptr + (j + 1) - 1 - N
  BY <1>1, <1>2, R!PlaceIs
<1>5. PICK p \in 0 .. N - 1 : p = R!Place(r, j)
  BY <1>1, <1>3
<1>7. (p + 1) % N = IF p + 1 < N THEN p + 1 ELSE p + 1 - N
  BY <1>1, RoundOnce
<1> QED
  BY <1>1, <1>3, <1>4, <1>5, <1>7

\* The walk ends with the last element.
LEMMA LastPlace ==
  ASSUME NEW r \in Queued, NEW k \in 0 .. R!get_size(r) - 1
  PROVE  (~issue_queue!check_id_valid(r, R!Place(r, k + 2)) \/ R!Place(r, k + 2) = r.rptr) <=> k + 1 = R!get_size(r)
<1> DEFINE m == R!get_size(r)
           c == R!Place(r, k + 2)
<1>1. m \in 0 .. N /\ k + 1 \in 1 .. m /\ k + 2 \in 1 .. N + 1 /\ r.rptr \in 0 .. N - 1
  BY ElsAre, SlotFacts, QueueSizeIs
<1>2. CASE k + 2 <= N
  <2>1. c \in 0 .. N - 1 /\ R!At(r, c) = k + 2
    BY <1>1, <1>2, QueueSizeIs, R!AtPlace DEF Queued
  <2>2. R!check_id_valid(r, c) <=> R!At(r, c) <= m
    BY <2>1, QueueSizeIs, R!ValidIs DEF Queued
  <2>3. R!At(r, r.rptr) = 1
    BY <1>1, QueueSizeIs DEF R!At
  <2> HIDE DEF c, m
  <2>4. c # r.rptr
    BY <1>1, <2>1, <2>3, QueueSizeIs
  <2>5. issue_queue!check_id_valid(r, c) = R!check_id_valid(r, c)
    BY SameRing
  <2> QED
    BY <1>1, <2>1, <2>2, <2>4, <2>5, QueueSizeIs DEF c, m
<1>3. CASE k + 2 = N + 1
  <2>1. r \in R!Shapes(N, Elem)
    BY DEF Queued, R!Rings
  <2>2. c = IF r.rptr + (k + 2) - 1 < N THEN r.rptr + (k + 2) - 1 ELSE r.rptr + (k + 2) - 1 - N
    BY <1>1, <2>1, QueueSizeIs, R!PlaceIs
  <2>3. c = r.rptr /\ k + 1 = m
    BY <1>1, <1>3, <2>2, QueueSizeIs
  <2> QED
    BY <2>3
<1> QED
  BY <1>1, <1>2, <1>3, QueueSizeIs

\* The walk at the element after the first k.
Walker(rr, i, found, next, wrapped, cur, stage, done) ==
  [r |-> rr, i |-> i, found |-> found, next |-> next, wrapped |-> wrapped,
   cur |-> cur, stage |-> stage, done |-> done]

\* The two values of a flag of the walk, by name.
Yes == TRUE
No == FALSE

\* The element is the next one of the list, and on to the one after it.
IsNext(ids, i, c) == i < Len(ids) /\ c = ids[i + 1]
Up(i) == i + 1

\* Before the first of the list nothing happens.
LEMMA SkipOne ==
  ASSUME NEW r, NEW ids, NEW rr, NEW i, NEW fd, NEW nx, NEW wr, NEW c, NEW st, NEW dn,
         fd = No,
         ~IsNext(ids, i, c)
  PROVE  issue_queue!Visit(r, ids, Walker(rr, i, fd, nx, wr, c, st, dn)) =
           Walker(rr, i, fd, nx, wr, c, st, dn)
<1> DEFINE at == Walker(rr, i, fd, nx, wr, c, st, dn)
<1>1. at.r = rr /\ at.i = i /\ at.found = No /\ at.next = nx /\ at.wrapped = wr /\ at.cur = c /\ at.stage = st /\ at.done = dn
  BY DEF Walker
<1> QED
  BY <1>1 DEF issue_queue!Visit, Yes, No, IsNext

\* With the first a hole opens.
LEMMA FindFirst ==
  ASSUME NEW r, NEW ids, NEW rr, NEW i, NEW fd, NEW nx, NEW wr, NEW c, NEW st, NEW dn,
         fd = No,
         IsNext(ids, i, c)
  PROVE  issue_queue!Visit(r, ids, Walker(rr, i, fd, nx, wr, c, st, dn)) =
           Walker(rr, Up(i), Yes, c, st, c, st, dn)
<1> DEFINE at == Walker(rr, i, fd, nx, wr, c, st, dn)
<1>1. at.r = rr /\ at.i = i /\ at.found = No /\ at.next = nx /\ at.wrapped = wr /\ at.cur = c /\ at.stage = st /\ at.done = dn
  BY DEF Walker
<1>2. issue_queue!Visit(r, ids, at) = [at EXCEPT !.found = TRUE, !.i = @ + 1, !.next = at.cur, !.wrapped = at.stage]
  BY <1>1 DEF issue_queue!Visit, Yes, No, IsNext
<1> QED
  BY <1>2 DEF Walker, Yes, No, Up, issue_queue!get_next_id, issue_queue!get_next_stage

\* The others of the list make it longer.
LEMMA FindNext ==
  ASSUME NEW r, NEW ids, NEW rr, NEW i, NEW fd, NEW nx, NEW wr, NEW c, NEW st, NEW dn,
         fd = Yes,
         IsNext(ids, i, c)
  PROVE  issue_queue!Visit(r, ids, Walker(rr, i, fd, nx, wr, c, st, dn)) =
           Walker(rr, Up(i), fd, nx, wr, c, st, dn)
<1> DEFINE at == Walker(rr, i, fd, nx, wr, c, st, dn)
<1>1. at.r = rr /\ at.i = i /\ at.found = Yes /\ at.next = nx /\ at.wrapped = wr /\ at.cur = c /\ at.stage = st /\ at.done = dn
  BY DEF Walker
<1>2. issue_queue!Visit(r, ids, at) = [at EXCEPT !.i = @ + 1]
  <2> DEFINE listed == at.i < Len(ids) /\ at.cur = ids[at.i + 1]
  <2>1. at.found /\ listed
    BY <1>1 DEF Yes, No, IsNext
  <2> HIDE DEF listed, at
  <2>2. issue_queue!Visit(r, ids, at) =
          CASE ~at.found /\ ~listed -> at
            [] ~at.found /\ listed  ->
                 [at EXCEPT !.found = TRUE, !.i = @ + 1, !.next = at.cur, !.wrapped = at.stage]
            [] at.found /\ listed   -> [at EXCEPT !.i = @ + 1]
            [] at.found /\ ~listed  ->
                 [at EXCEPT !.r = issue_queue!set_item(@, at.next, issue_queue!get_item(@, at.cur)),
                            !.next = issue_queue!get_next_id(r, at.next),
                            !.wrapped = issue_queue!get_next_stage(r, at.next, @)]
    BY Zenon DEF issue_queue!Visit, listed
  <2> QED
    BY <2>1, <2>2
<1> QED
  BY <1>2 DEF Walker, Yes, No, Up, issue_queue!get_next_id, issue_queue!get_next_stage

\* And what stays moves into it.
LEMMA MoveOne ==
  ASSUME NEW r, NEW ids, NEW rr, NEW i, NEW fd, NEW nx, NEW wr, NEW c, NEW st, NEW dn,
         fd = Yes,
         ~IsNext(ids, i, c)
  PROVE  issue_queue!Visit(r, ids, Walker(rr, i, fd, nx, wr, c, st, dn)) =
           Walker(issue_queue!set_item(rr, nx, issue_queue!get_item(rr, c)), i, fd, (nx + 1) % issue_queue!SizeOf(r),
                  (nx + 1 >= issue_queue!SizeOf(r)) # wr, c, st, dn)
<1> DEFINE at == Walker(rr, i, fd, nx, wr, c, st, dn)
<1>1. at.r = rr /\ at.i = i /\ at.found = Yes /\ at.next = nx /\ at.wrapped = wr /\ at.cur = c /\ at.stage = st /\ at.done = dn
  BY DEF Walker
<1>2. issue_queue!Visit(r, ids, at) = [at EXCEPT !.r = issue_queue!set_item(@, at.next, issue_queue!get_item(@, at.cur)),
                        !.next = issue_queue!get_next_id(r, at.next),
                        !.wrapped = issue_queue!get_next_stage(r, at.next, @)]
  <2> DEFINE listed == at.i < Len(ids) /\ at.cur = ids[at.i + 1]
  <2>1. at.found /\ ~listed
    BY <1>1 DEF Yes, No, IsNext
  <2> HIDE DEF listed, at
  <2>2. issue_queue!Visit(r, ids, at) =
          CASE ~at.found /\ ~listed -> at
            [] ~at.found /\ listed  ->
                 [at EXCEPT !.found = TRUE, !.i = @ + 1, !.next = at.cur, !.wrapped = at.stage]
            [] at.found /\ listed   -> [at EXCEPT !.i = @ + 1]
            [] at.found /\ ~listed  ->
                 [at EXCEPT !.r = issue_queue!set_item(@, at.next, issue_queue!get_item(@, at.cur)),
                            !.next = issue_queue!get_next_id(r, at.next),
                            !.wrapped = issue_queue!get_next_stage(r, at.next, @)]
    BY Zenon DEF issue_queue!Visit, listed
  <2> QED
    BY <2>1, <2>2
<1> QED
  BY <1>2 DEF Walker, Yes, No, Up, issue_queue!get_next_id, issue_queue!get_next_stage

\* The slot after a slot, its stage, and whether the walk ends there.
After(r, c) == (c + 1) % issue_queue!SizeOf(r)
AfterStage(r, c, st) == (c + 1 >= issue_queue!SizeOf(r)) # st
Ends(r, id) == ~issue_queue!check_id_valid(r, id) \/ id = r.rptr

\* On to the next element.
LEMMA AdvanceIs ==
  ASSUME NEW r, NEW rr, NEW i, NEW fd, NEW nx, NEW wr, NEW c, NEW st, NEW dn
  PROVE  issue_queue!Advance(r, Walker(rr, i, fd, nx, wr, c, st, dn)) =
           Walker(rr, i, fd, nx, wr, After(r, c), AfterStage(r, c, st), Ends(r, After(r, c)))
<1> DEFINE at == Walker(rr, i, fd, nx, wr, c, st, dn)
           id == After(r, c)
           end == Ends(r, id)
           stage == AfterStage(r, c, st)
<1>1. issue_queue!Advance(r, at) = [at EXCEPT !.cur = After(r, at.cur), !.stage = AfterStage(r, at.cur, @),
               !.done = Ends(r, After(r, at.cur))]
  BY Zenon DEF issue_queue!Advance, issue_queue!get_next_id, issue_queue!get_next_stage, After, AfterStage, Ends
<1>2. at.cur = c /\ at.stage = st
  BY DEF Walker
<1>3. issue_queue!Advance(r, at) = [at EXCEPT !.cur = id, !.stage = stage, !.done = end]
  <2> HIDE DEF at
  <2> QED
    BY <1>1, <1>2
<1> HIDE DEF id, end, stage
<1>4. [at EXCEPT !.cur = id, !.stage = stage, !.done = end] = Walker(rr, i, fd, nx, wr, id, stage, end)
  <2>1. [at EXCEPT !.cur = id] = Walker(rr, i, fd, nx, wr, id, st, dn)
    BY DEF Walker
  <2>2. [Walker(rr, i, fd, nx, wr, id, st, dn) EXCEPT !.stage = stage] = Walker(rr, i, fd, nx, wr, id, stage, dn)
    BY DEF Walker
  <2>3. [Walker(rr, i, fd, nx, wr, id, stage, dn) EXCEPT !.done = end] = Walker(rr, i, fd, nx, wr, id, stage, end)
    BY DEF Walker
  <2> QED
    BY <2>1, <2>2, <2>3
<1> QED
  BY <1>3, <1>4, Zenon DEF at, id, end, stage

\* Where the walk is when it has been past the first k elements.
WalkAt(r, places, k) ==
  LET v == Rest(r, places, k)
      i == Len(Named(r, places, k))
  IN  Walker(RingWith(r, v), i, i > 0, IF i > 0 THEN R!Place(r, Len(v) + 1) ELSE r.rptr,
             i > 0 /\ r.rptr + Len(v) >= N, R!Place(r, k + 1), r.rptr + k >= N,
             k = R!get_size(r))

\* Walkers that agree on every part.
LEMMA SameWalker ==
  ASSUME NEW a, NEW b, NEW c, NEW d, NEW e, NEW f, NEW g, NEW h,
         NEW aa, NEW bb, NEW cc, NEW dd, NEW ee, NEW ff, NEW gg, NEW hh,
         a = aa, b = bb, c = cc, d = dd, e = ee, f = ff, g = gg, h = hh
  PROVE  Walker(a, b, c, d, e, f, g, h) = Walker(aa, bb, cc, dd, ee, ff, gg, hh)
OBVIOUS

\* The first place.
LEMMA FirstPlace ==
  ASSUME NEW r \in Queued
  PROVE  R!Place(r, 1) = r.rptr
<1>1. r \in R!Shapes(N, Elem) /\ r.rptr \in 0 .. N - 1 /\ N \in Nat \ {0} /\ 1 \in 1 .. N + 1
  BY SlotFacts, QueueSizeIs DEF Queued, R!Rings
<1>2. R!Place(r, 1) = IF r.rptr + 1 - 1 < N THEN r.rptr + 1 - 1 ELSE r.rptr + 1 - 1 - N
  BY <1>1, R!PlaceIs
<1> QED
  BY <1>1, <1>2

\* The walk starts where compress does, at the read pointer and with no hole
\* (issue_queue.h:128-138).
LEMMA WalkAtStart ==
  ASSUME NEW r \in Queued, NEW places, R!get_size(r) # 0
  PROVE  WalkAt(r, places, 0) = Start(r)
<1>1. Len(Named(r, places, 0)) = 0 /\ RingWith(r, Rest(r, places, 0)) = r
  BY WalkStarts, WithNone
<1>2. R!Place(r, 0 + 1) = r.rptr
  BY FirstPlace
<1>3. r.rptr \in 0 .. N - 1 /\ N \in Nat \ {0}
  BY SlotFacts, QueueSizeIs
<1>4. ~(Len(Named(r, places, 0)) > 0) /\ ~(r.rptr + 0 >= N) /\ ~(0 = R!get_size(r))
  BY <1>1, <1>3
<1>5. WalkAt(r, places, 0) = Walker(r, 0, FALSE, r.rptr, FALSE, r.rptr, FALSE, FALSE)
  <2> DEFINE v == Rest(r, places, 0)
             i == Len(Named(r, places, 0))
  <2>1. (i > 0) = FALSE /\ (r.rptr + 0 >= N) = FALSE /\ (0 = R!get_size(r)) = FALSE
    BY <1>4
  <2>2. (i > 0 /\ r.rptr + Len(v) >= N) = FALSE
    BY <2>1
  <2>3. (IF i > 0 THEN R!Place(r, Len(v) + 1) ELSE r.rptr) = r.rptr
    BY <2>1
  <2>4. WalkAt(r, places, 0) = Walker(RingWith(r, v), i, i > 0, IF i > 0 THEN R!Place(r, Len(v) + 1) ELSE r.rptr,
             i > 0 /\ r.rptr + Len(v) >= N, R!Place(r, 0 + 1), r.rptr + 0 >= N, 0 = R!get_size(r))
    BY Zenon DEF WalkAt
  <2> QED
    BY <1>1, <1>2, <2>1, <2>2, <2>3, <2>4, SameWalker, Zenon
<1> QED
  BY <1>5 DEF Walker, Start

\* The element under its eyes is skipped, stays where it is, or moves.
LEMMA WalkVisits ==
  ASSUME NEW r \in Queued, NEW places, NEW k \in 0 .. R!get_size(r) - 1
  PROVE  LET v == Rest(r, places, k + 1)
             i == Len(Named(r, places, k + 1))
         IN  issue_queue!Visit(r, Named(r, places, R!get_size(r)), WalkAt(r, places, k)) =
               Walker(RingWith(r, v), i, i > 0, IF i > 0 THEN R!Place(r, Len(v) + 1) ELSE r.rptr,
                      i > 0 /\ r.rptr + Len(v) >= N, R!Place(r, k + 1), r.rptr + k >= N, FALSE)
<1> DEFINE m == R!get_size(r)
           ids == Named(r, places, m)
           i == Len(Named(r, places, k))
           v == Rest(r, places, k)
           ii == Len(Named(r, places, k + 1))
           w == Rest(r, places, k + 1)
           c == R!Place(r, k + 1)
           fd == i > 0
           nx == IF fd THEN R!Place(r, Len(v) + 1) ELSE r.rptr
           wr == fd /\ r.rptr + Len(v) >= N
           st == r.rptr + k >= N
           listed == i < Len(ids) /\ c = ids[i + 1]
           at == WalkAt(r, places, k)
           visited == issue_queue!Visit(r, ids, at)
           wished == Walker(RingWith(r, w), ii, ii > 0, IF ii > 0 THEN R!Place(r, Len(w) + 1) ELSE r.rptr,
                      ii > 0 /\ r.rptr + Len(w) >= N, c, st, FALSE)
<1>1. m \in 0 .. N /\ k \in 0 .. m /\ k < m /\ k + 1 \in 0 .. m /\ r.rptr \in 0 .. N - 1 /\ N \in Nat \ {0}
  BY ElsAre, SlotFacts, QueueSizeIs
<1>2. /\ v \in Seq(Elem) /\ i \in 0 .. k /\ Len(v) \in 0 .. k /\ i + Len(v) = k
      /\ w \in Seq(Elem) /\ ii \in 0 .. k + 1 /\ Len(w) \in 0 .. k + 1
  BY <1>1, WalkTypes
<1>3. IF k + 1 \in Taken(r, places)
      THEN ii = i + 1 /\ w = v
      ELSE ii = i /\ w = Append(v, Els(r)[k + 1]) /\ Len(w) = Len(v) + 1
  BY WalkSteps
<1>4. listed <=> k + 1 \in Taken(r, places)
  BY ListNext
<1>5. at = Walker(RingWith(r, v), i, fd, nx, wr, c, st, FALSE)
  <2>1. (k = m) = FALSE
    BY <1>1
  <2> QED
    BY <2>1, Zenon DEF WalkAt
<1>6. issue_queue!SizeOf(r) = N
  BY SlotFacts, SameRing
<1>7. /\ ~fd /\ ~listed => visited = Walker(RingWith(r, v), i, fd, nx, wr, c, st, FALSE)
      /\ ~fd /\ listed => visited = Walker(RingWith(r, v), i + 1, TRUE, c, st, c, st, FALSE)
      /\ fd /\ listed => visited = Walker(RingWith(r, v), i + 1, fd, nx, wr, c, st, FALSE)
      /\ fd /\ ~listed => visited = Walker(issue_queue!set_item(RingWith(r, v), nx, issue_queue!get_item(RingWith(r, v), c)), i, fd,
                             (nx + 1) % N, (nx + 1 >= N) # wr, c, st, FALSE)
  <2>1. fd \in BOOLEAN
    OBVIOUS
  <2> HIDE DEF fd, nx, wr, c, st, ids, i, v, at
  <2> DEFINE rr == RingWith(r, v)
             a == Walker(rr, i, fd, nx, wr, c, st, No)
  <2> HIDE DEF rr
  <2>2. ASSUME fd = No, ~IsNext(ids, i, c)
        PROVE  issue_queue!Visit(r, ids, a) = a
    BY <2>2, SkipOne
  <2>3. ASSUME fd = No, IsNext(ids, i, c)
        PROVE  issue_queue!Visit(r, ids, a) = Walker(rr, Up(i), Yes, c, st, c, st, No)
    BY <2>3, FindFirst
  <2>4. ASSUME fd = Yes, IsNext(ids, i, c)
        PROVE  issue_queue!Visit(r, ids, a) = Walker(rr, Up(i), fd, nx, wr, c, st, No)
    BY <2>4, FindNext
  <2>5. ASSUME fd = Yes, ~IsNext(ids, i, c)
        PROVE  issue_queue!Visit(r, ids, a) = 
              Walker(issue_queue!set_item(rr, nx, issue_queue!get_item(rr, c)), i, fd, (nx + 1) % issue_queue!SizeOf(r),
                     (nx + 1 >= issue_queue!SizeOf(r)) # wr, c, st, No)
    BY <2>5, MoveOne
  <2>6. (fd <=> fd = Yes) /\ (~fd <=> fd = No)
    BY <2>1 DEF Yes, No
  <2> QED
    BY <1>5, <1>6, <2>2, <2>3, <2>4, <2>5, <2>6, Zenon DEF rr, Yes, No, IsNext, Up
<1> HIDE DEF m, ids, i, v, ii, w, c, visited, at
<1>8. CASE ~fd /\ ~listed
  <2>1. i = 0 /\ ii = 0 /\ Len(v) = k
    BY <1>2, <1>3, <1>4, <1>8
  <2>2. RingWith(r, w) = RingWith(r, v)
    <3>1. Len(v) < R!get_size(r) /\ w = Append(v, Els(r)[Len(v) + 1])
      BY <1>1, <1>3, <1>4, <1>8, <2>1 DEF m
    <3> QED
      BY <1>2, <3>1, WithStays
  <2>3. (ii > 0) = FALSE /\ fd = FALSE
    BY <2>1
  <2>4. visited = Walker(RingWith(r, v), 0, FALSE, r.rptr, FALSE, c, st, FALSE)
    <3>1. visited = Walker(RingWith(r, v), i, fd, nx, wr, c, st, FALSE)
      BY <1>7, <1>8
    <3>2. nx = r.rptr /\ wr = FALSE
      BY <2>3
    <3> QED
      BY <2>1, <2>3, <3>1, <3>2, SameWalker, Zenon
  <2>5. wished = Walker(RingWith(r, v), 0, FALSE, r.rptr, FALSE, c, st, FALSE)
    <3>1. (IF ii > 0 THEN R!Place(r, Len(w) + 1) ELSE r.rptr) = r.rptr
      BY <2>3
    <3>2. (ii > 0 /\ r.rptr + Len(w) >= N) = FALSE
      BY <2>3
    <3> QED
      BY <2>1, <2>2, <2>3, <3>1, <3>2, SameWalker, Zenon
  <2>6. visited = wished
    BY <2>4, <2>5, Zenon
  <2> QED
    BY <2>6, Zenon DEF m, ids, i, v, ii, w, c, visited, at
<1>9. CASE ~fd /\ listed
  <2>1. i = 0 /\ ii = 1 /\ Len(v) = k /\ w = v
    BY <1>2, <1>3, <1>4, <1>9
  <2>2. visited = Walker(RingWith(r, v), 1, TRUE, c, st, c, st, FALSE)
    BY <1>7, <1>9, <2>1
  <2>3. ii > 0 /\ R!Place(r, Len(w) + 1) = c /\ ((ii > 0 /\ r.rptr + Len(w) >= N) = st)
    BY <2>1 DEF c
  <2>4. wished = Walker(RingWith(r, v), 1, TRUE, c, st, c, st, FALSE)
    <3>1. (ii > 0) = TRUE
      BY <2>3
    <3>2. (IF ii > 0 THEN R!Place(r, Len(w) + 1) ELSE r.rptr) = c
      BY <2>3
    <3> HIDE DEF st
    <3> QED
      BY <2>1, <2>3, <3>1, <3>2
  <2>5. visited = wished
    BY <2>2, <2>4, Zenon
  <2> QED
    BY <2>5, Zenon DEF m, ids, i, v, ii, w, c, visited, at
<1>10. CASE fd /\ listed
  <2>1. i > 0 /\ ii = i + 1 /\ w = v /\ ii > 0
    BY <1>2, <1>3, <1>4, <1>10
  <2>2. visited = Walker(RingWith(r, v), ii, TRUE, R!Place(r, Len(v) + 1), r.rptr + Len(v) >= N, c, st, FALSE)
    <3>1. visited = Walker(RingWith(r, v), i + 1, fd, nx, wr, c, st, FALSE)
      BY <1>7, <1>10
    <3>2. fd = TRUE /\ nx = R!Place(r, Len(v) + 1) /\ wr = (r.rptr + Len(v) >= N)
      BY <2>1
    <3> QED
      BY <2>1, <3>1, <3>2
  <2>3. wished = Walker(RingWith(r, v), ii, TRUE, R!Place(r, Len(v) + 1), r.rptr + Len(v) >= N, c, st, FALSE)
    <3>1. (ii > 0) = TRUE /\ (ii > 0 /\ r.rptr + Len(w) >= N) = (r.rptr + Len(v) >= N)
      BY <2>1
    <3>2. (IF ii > 0 THEN R!Place(r, Len(w) + 1) ELSE r.rptr) = R!Place(r, Len(v) + 1)
      BY <2>1
    <3> QED
      BY <2>1, <3>1, <3>2, SameWalker, Zenon
  <2>4. visited = wished
    BY <2>2, <2>3, Zenon
  <2> QED
    BY <2>4, Zenon DEF m, ids, i, v, ii, w, c, visited, at
<1>11. CASE fd /\ ~listed
  <2>1. i > 0 /\ ii = i /\ w = Append(v, Els(r)[k + 1]) /\ Len(w) = Len(v) + 1
    BY <1>2, <1>3, <1>4, <1>11
  <2> DEFINE n == R!Place(r, Len(v) + 1)
  <2>2. nx = n /\ wr = (r.rptr + Len(v) >= N) /\ fd = TRUE
    BY <2>1
  <2>3. issue_queue!set_item(RingWith(r, v), n, issue_queue!get_item(RingWith(r, v), c)) = RingWith(r, w)
    <3>1. k \in Nat /\ Len(v) <= k /\ k < R!get_size(r)
      BY <1>1, <1>2 DEF m
    <3>2. issue_queue!set_item(RingWith(r, v), R!Place(r, Len(v) + 1), issue_queue!get_item(RingWith(r, v), R!Place(r, k + 1)))
               = RingWith(r, Append(v, Els(r)[k + 1]))
      BY <1>2, <3>1, WithMoved
    <3> QED
      BY <2>1, <3>2, Zenon DEF c
  <2>4. /\ (n + 1) % N = R!Place(r, Len(w) + 1)
        /\ ((n + 1 >= N) # (r.rptr + Len(v) >= N)) = (r.rptr + Len(w) >= N)
    <3>1. Len(v) + 1 \in 1 .. N /\ (Len(v) + 1) - 1 = Len(v)
      BY <1>1, <1>2
    <3>2. /\ (R!Place(r, Len(v) + 1) + 1) % N = R!Place(r, (Len(v) + 1) + 1)
          /\ (R!Place(r, Len(v) + 1) + 1 >= N) <=> ((r.rptr + (Len(v) + 1) >= N) /\ ~(r.rptr + ((Len(v) + 1) - 1) >= N))
          /\ (r.rptr + ((Len(v) + 1) - 1) >= N) => (r.rptr + (Len(v) + 1) >= N)
      BY <3>1, NextPlace
    <3> DEFINE A == r.rptr + Len(v) >= N
               B == r.rptr + (Len(v) + 1) >= N
               C == n + 1 >= N
    <3>3. (C <=> (B /\ ~A)) /\ (A => B)
      BY <3>1, <3>2
    <3>4. A \in BOOLEAN /\ B \in BOOLEAN /\ C \in BOOLEAN
      OBVIOUS
    <3>5. (n + 1) % N = R!Place(r, Len(w) + 1)
      BY <2>1, <3>2, Zenon
    <3> HIDE DEF A, B, C, n
    <3>6. (C # A) = B
      BY <3>3, <3>4
    <3>7. B = (r.rptr + Len(w) >= N)
      BY <2>1 DEF B
    <3> QED
      BY <3>5, <3>6, <3>7, Zenon DEF A, C
  <2>5. visited = Walker(issue_queue!set_item(RingWith(r, v), nx, issue_queue!get_item(RingWith(r, v), c)), i, fd,
                             (nx + 1) % N, (nx + 1 >= N) # wr, c, st, FALSE)
    BY <1>7, <1>11
  <2> HIDE DEF n
  <2>6. visited = Walker(RingWith(r, w), ii, TRUE, R!Place(r, Len(w) + 1), r.rptr + Len(w) >= N, c, st, FALSE)
    BY <2>1, <2>2, <2>3, <2>4, <2>5, Zenon
  <2>7. wished = Walker(RingWith(r, w), ii, TRUE, R!Place(r, Len(w) + 1), r.rptr + Len(w) >= N, c, st, FALSE)
    <3>1. (ii > 0) = TRUE /\ (ii > 0 /\ r.rptr + Len(w) >= N) = (r.rptr + Len(w) >= N)
      BY <2>1
    <3>2. (IF ii > 0 THEN R!Place(r, Len(w) + 1) ELSE r.rptr) = R!Place(r, Len(w) + 1)
      BY <2>1
    <3> QED
      BY <3>1, <3>2, SameWalker, Zenon
  <2>8. visited = wished
    BY <2>6, <2>7, Zenon
  <2> QED
    BY <2>8, Zenon DEF m, ids, i, v, ii, w, c, visited, at
<1> QED
  BY <1>8, <1>9, <1>10, <1>11, Zenon

\* From one element to the next.
LEMMA WalkAdvances ==
  ASSUME NEW r \in Queued, NEW places, NEW k \in 0 .. R!get_size(r) - 1
  PROVE  issue_queue!Advance(r, issue_queue!Visit(r, Named(r, places, R!get_size(r)), WalkAt(r, places, k)))
           = WalkAt(r, places, k + 1)
<1> DEFINE m == R!get_size(r)
           v == Rest(r, places, k + 1)
           i == Len(Named(r, places, k + 1))
           rr == RingWith(r, v)
           fd == i > 0
           nx == IF i > 0 THEN R!Place(r, Len(v) + 1) ELSE r.rptr
           wr == i > 0 /\ r.rptr + Len(v) >= N
           c == R!Place(r, k + 1)
           st == r.rptr + k >= N
           visited == issue_queue!Visit(r, Named(r, places, m), WalkAt(r, places, k))
<1>1. m \in 0 .. N /\ k \in 0 .. m /\ k + 1 \in 1 .. N /\ r.rptr \in 0 .. N - 1 /\ N \in Nat \ {0}
  BY ElsAre, SlotFacts, QueueSizeIs
<1>2. visited = Walker(rr, i, fd, nx, wr, c, st, No)
  BY WalkVisits, Zenon DEF No
<1>3. issue_queue!Advance(r, Walker(rr, i, fd, nx, wr, c, st, No)) =
        Walker(rr, i, fd, nx, wr, After(r, c), AfterStage(r, c, st), Ends(r, After(r, c)))
  <2> HIDE DEF rr, i, fd, nx, wr, c, st
  <2> QED
    BY AdvanceIs
<1>4. After(r, c) = R!Place(r, (k + 1) + 1) /\ AfterStage(r, c, st) = (r.rptr + (k + 1) >= N)
  <2>1. issue_queue!SizeOf(r) = N
    BY SlotFacts, SameRing
  <2>2. /\ (R!Place(r, k + 1) + 1) % N = R!Place(r, (k + 1) + 1)
        /\ (R!Place(r, k + 1) + 1 >= N) <=> ((r.rptr + (k + 1) >= N) /\ ~(r.rptr + ((k + 1) - 1) >= N))
        /\ (r.rptr + ((k + 1) - 1) >= N) => (r.rptr + (k + 1) >= N)
    BY <1>1, NextPlace
  <2> DEFINE A == r.rptr + k >= N
             B == r.rptr + (k + 1) >= N
             C == c + 1 >= N
  <2>3. (C <=> (B /\ ~A)) /\ (A => B)
    <3>1. (k + 1) - 1 = k
      BY <1>1
    <3> QED
      BY <2>2, <3>1
  <2>4. A \in BOOLEAN /\ B \in BOOLEAN /\ C \in BOOLEAN
    OBVIOUS
  <2>5. (c + 1) % N = R!Place(r, (k + 1) + 1)
    BY <2>2, Zenon
  <2> HIDE DEF A, B, C, c
  <2>6. (C # A) = B
    BY <2>3, <2>4
  <2>7. AfterStage(r, c, st) = (C # A)
    BY <2>1, Zenon DEF AfterStage, A, C
  <2> QED
    BY <2>1, <2>5, <2>6, <2>7, Zenon DEF After, B
<1>5. Ends(r, R!Place(r, (k + 1) + 1)) = (k + 1 = m)
  <2>1. (k + 1) + 1 = k + 2
    BY <1>1
  <2>2. Ends(r, R!Place(r, k + 2)) <=> k + 1 = m
    BY LastPlace DEF Ends
  <2>3. Ends(r, R!Place(r, k + 2)) \in BOOLEAN
    BY DEF Ends
  <2> QED
    BY <2>1, <2>2, <2>3
<1>6. WalkAt(r, places, k + 1) = Walker(rr, i, fd, nx, wr, R!Place(r, (k + 1) + 1), r.rptr + (k + 1) >= N, k + 1 = m)
  BY Zenon DEF WalkAt
<1> QED
  BY <1>2, <1>3, <1>4, <1>5, <1>6, Zenon

\* The walk ends behind the last element.
LEMMA WalkEnds ==
  ASSUME NEW r \in Queued, NEW places, R!get_size(r) # 0
  PROVE  Ended(r, Named(r, places, R!get_size(r))) = WalkAt(r, places, R!get_size(r))
<1> DEFINE m == R!get_size(r)
           ids == Named(r, places, m)
           W(k) == WalkAt(r, places, k)
           Step(at) == IF at.done THEN at ELSE issue_queue!Advance(r, issue_queue!Visit(r, ids, at))
           F == [k \in 0 .. N |-> IF k <= m THEN W(k) ELSE W(m)]
<1>1. m \in 1 .. N /\ N \in Nat \ {0} /\ issue_queue!SizeOf(r) = N
  BY ElsAre, SlotFacts, SameRing, QueueSizeIs
<1>2. \A k \in 0 .. m : W(k).done = (k = m)
  BY DEF WalkAt, Walker
<1>3. \A k \in 0 .. m - 1 : issue_queue!Advance(r, issue_queue!Visit(r, ids, W(k))) = W(k + 1)
  BY WalkAdvances
<1>4. W(0) = Start(r)
  BY WalkAtStart
<1> HIDE DEF W, ids, m
<1>5. F[0] = Start(r)
  <2>1. 0 \in 0 .. N /\ 0 <= m
    BY <1>1
  <2> QED
    BY <1>4, <2>1, Zenon
<1>6. \A k \in 1 .. N : F[k] = Step(F[k - 1])
  <2> SUFFICES ASSUME NEW k \in 1 .. N PROVE F[k] = Step(F[k - 1])
    OBVIOUS
  <2>1. k \in 0 .. N /\ k - 1 \in 0 .. N
    BY <1>1
  <2>2. CASE k <= m
    <3>1. k - 1 \in 0 .. m - 1 /\ k - 1 \in 0 .. m /\ k - 1 <= m /\ k - 1 # m /\ (k - 1) + 1 = k
      BY <1>1, <2>2
    <3>2. F[k] = W(k) /\ F[k - 1] = W(k - 1)
      BY <2>1, <2>2, <3>1, Zenon
    <3>3. ~W(k - 1).done
      BY <1>2, <3>1
    <3>4. issue_queue!Advance(r, issue_queue!Visit(r, ids, W(k - 1))) = W(k)
      BY <1>3, <3>1
    <3> QED
      BY <3>2, <3>3, <3>4, Zenon
  <2>3. CASE ~(k <= m)
    <3>1. m \in 0 .. m /\ F[k] = W(m)
      BY <1>1, <2>1, <2>3
    <3>2. F[k - 1] = W(m)
      <4>1. CASE k - 1 = m
        BY <1>1, <2>1, <4>1
      <4>2. CASE ~(k - 1 <= m)
        BY <2>1, <4>2
      <4> QED
        BY <1>1, <2>3, <4>1, <4>2
    <3>3. W(m).done
      BY <1>2, <3>1
    <3> QED
      BY <3>1, <3>2, <3>3, Zenon
  <2> QED
    BY <2>2, <2>3
<1>7. F[N] = W(m)
  <2>1. CASE m = N
    BY <1>1, <2>1
  <2>2. CASE ~(N <= m)
    BY <1>1, <2>2
  <2> QED
    BY <1>1, <2>1, <2>2
<1> HIDE DEF F
<1>8. Ended(r, ids) = F[issue_queue!SizeOf(r)]
  BY <1>1, <1>5, <1>6, CompressIs
<1> QED
  BY <1>1, <1>7, <1>8, Zenon DEF W, ids, m

\* A list that names no slot names none that is taken, and all elements stay.
LEMMA NoneNamed ==
  ASSUME NEW r \in Queued, NEW places, Named(r, places, R!get_size(r)) = << >>
  PROVE  Rest(r, places, R!get_size(r)) = Els(r)
<1> DEFINE m == R!get_size(r)
           s == Els(r)
           g == R!LiveIds(r)
           P == (1 .. m) \ Taken(r, places)
           v == Picks(s, P)[m]
<1>1. /\ s \in Seq(Elem) /\ Len(s) = m /\ m \in 0 .. N /\ m \in Nat /\ N \in Nat
      /\ g \in Seq(0 .. N - 1) /\ Len(g) = m
  BY ElsAre, QueueSizeIs, R!LiveIdsIs DEF Queued
<1>2. Len(Picks(g, Taken(r, places))[m]) = 0
  BY DEF Named
<1>3. \A i \in 0 .. m : Len(Named(r, places, i)) = 0
  <2> SUFFICES ASSUME NEW i \in 0 .. m PROVE Len(Named(r, places, i)) = 0
    OBVIOUS
  <2>1. i \in 0 .. Len(g) /\ m \in i .. Len(g)
    BY <1>1
  <2>2. Len(Picks(g, Taken(r, places))[i]) <= Len(Picks(g, Taken(r, places))[m])
    BY <1>1, <2>1, PickGrows
  <2>3. Len(Named(r, places, i)) \in 0 .. i
    BY WalkTypes
  <2> QED
    BY <1>2, <2>2, <2>3 DEF Named
<1>4. \A i \in 0 .. m : Len(Rest(r, places, i)) = i
  <2> SUFFICES ASSUME NEW i \in 0 .. m PROVE Len(Rest(r, places, i)) = i
    OBVIOUS
  <2>1. Len(Named(r, places, i)) + Len(Rest(r, places, i)) = i /\ Len(Rest(r, places, i)) \in 0 .. i
    BY WalkTypes
  <2> QED
    BY <1>3, <2>1
<1>5. v \in Seq(Elem) /\ Len(v) = m /\ v = Rest(r, places, m)
  <2>1. m \in 0 .. m
    BY <1>1
  <2>2. Rest(r, places, m) \in Seq(Elem)
    BY <2>1, WalkTypes
  <2>3. v = Rest(r, places, m)
    BY DEF Rest
  <2> QED
    BY <1>4, <2>1, <2>2, <2>3
<1>6. \A i \in 1 .. m : v[i] = s[i]
  <2> SUFFICES ASSUME NEW i \in 1 .. m PROVE v[i] = s[i]
    OBVIOUS
  <2>1. i \notin Taken(r, places)
    <3> SUFFICES ASSUME i \in Taken(r, places) PROVE FALSE
      OBVIOUS
    <3>1. m \in 0 .. Len(g) /\ i \in 1 .. m
      BY <1>1
    <3>2. Len(Picks(g, Taken(r, places))[i]) \in 1 .. Len(Picks(g, Taken(r, places))[m])
      BY <1>1, <3>1, PickElements
    <3> QED
      BY <1>2, <3>2
  <2>2. m \in 0 .. Len(s) /\ i \in P
    BY <1>1, <2>1
  <2>3. Picks(s, P)[m][Len(Picks(s, P)[i])] = s[i]
    <3> HIDE DEF P, s, m
    <3>1. \A x \in 1 .. m : x \in P => /\ Len(Picks(s, P)[x]) = Len(Picks(s, P)[x - 1]) + 1
                                         /\ Len(Picks(s, P)[x]) \in 1 .. Len(Picks(s, P)[m])
                                         /\ Picks(s, P)[m][Len(Picks(s, P)[x])] = s[x]
      <4>1. s \in Seq(Elem) /\ m \in 0 .. Len(s)
        BY <1>1, <2>2
      <4> QED
        BY <4>1, PickElements
    <3> QED
      BY <2>2, <3>1
  <2>4. Len(Picks(s, P)[i]) = i
    <3>1. i \in 0 .. m
      BY <1>1
    <3>2. Len(Rest(r, places, i)) = i
      BY <1>4, <3>1
    <3> QED
      BY <3>2, Zenon DEF Rest
  <2> QED
    BY <2>3, <2>4
<1> HIDE DEF v, s, m
<1>7. v = s
  BY <1>1, <1>5, <1>6
<1> QED
  BY <1>5, <1>7, Zenon DEF v, s, m

\* The pointers that compress leaves make a ring as long as what stays.
LEMMA PulledBack ==
  ASSUME NEW r \in Queued, NEW v \in Seq(Elem), Len(v) < R!get_size(r)
  PROVE  LET t == [slots |-> SlotsWith(r, v), rptr |-> r.rptr, wptr |-> R!Place(r, Len(v) + 1),
                   wrapped |-> r.rptr + Len(v) >= N]
         IN  t \in Queued /\ R!get_size(t) = Len(v) /\ Els(t) = v
<1> DEFINE p == R!Place(r, Len(v) + 1)
           wr == r.rptr + Len(v) >= N
           t == [slots |-> SlotsWith(r, v), rptr |-> r.rptr, wptr |-> p, wrapped |-> wr]
           n == Len(v)
<1>1. /\ N \in Nat \ {0} /\ r.rptr \in 0 .. N - 1 /\ n \in 0 .. N - 1 /\ R!get_size(r) \in 0 .. N
      /\ r \in R!Shapes(N, Elem) /\ r.slots \in [1 .. N -> Elem \cup {R!Dead}]
      /\ r \in R!Rings(N, Elem) /\ R!SizeOf(r) = N /\ n \in Nat
  BY ElsAre, SlotFacts, QueueSizeIs DEF Queued, R!Rings
<1>2. p = IF r.rptr + n < N THEN r.rptr + n ELSE r.rptr + n - N
  <2>1. n + 1 \in 1 .. N + 1 /\ r.rptr + (n + 1) - 1 = r.rptr + n
    BY <1>1
  <2>2. p = IF r.rptr + (n + 1) - 1 < N THEN r.rptr + (n + 1) - 1 ELSE r.rptr + (n + 1) - 1 - N
    BY <1>1, <2>1, R!PlaceIs
  <2> QED
    BY <2>1, <2>2
<1>3. SlotsWith(r, v) \in [1 .. N -> Elem \cup {R!Dead}]
  <2>1. ASSUME NEW x \in 1 .. N
        PROVE  (IF R!At(r, x - 1) <= Len(v) THEN v[R!At(r, x - 1)] ELSE r.slots[x]) \in Elem \cup {R!Dead}
    <3>1. R!At(r, x - 1) \in 1 .. N
      BY SlotFacts
    <3> QED
      BY <1>1, <3>1
  <2> QED
    BY <2>1 DEF SlotsWith
<1>4. p \in 0 .. N - 1 /\ wr \in BOOLEAN
  BY <1>1, <1>2
<1>5. /\ t.slots = SlotsWith(r, v) /\ t.rptr = r.rptr /\ t.wptr = p /\ t.wrapped = wr
      /\ t \in R!Shapes(N, Elem)
  <2> HIDE DEF p, wr
  <2> QED
    BY <1>1, <1>3, <1>4 DEF R!Shapes
<1> HIDE DEF t
<1>14. (t.wrapped <=> r.rptr + n >= N) /\ t.wptr = p /\ t.rptr = r.rptr
  BY <1>5
<1>6. (t.wrapped => t.wptr <= t.rptr) /\ (~t.wrapped => t.rptr <= t.wptr)
  BY <1>1, <1>2, <1>14
<1>7. R!SizeFormula(t, N) = n
  BY <1>1, <1>2, <1>14 DEF R!SizeFormula
<1>8. R!SizeOf(t) = N
  BY <1>1, <1>3, <1>5 DEF R!SizeOf
<1>9. (\A i : R!Place(t, i) = R!Place(r, i)) /\ (\A id : R!At(t, id) = R!At(r, id))
  BY <1>1, <1>5, <1>8, R!SamePointers
<1>10. \A id \in 0 .. N - 1 : R!At(r, id) <= n => R!get_item(t, id) = v[R!At(r, id)]
  <2> SUFFICES ASSUME NEW id \in 0 .. N - 1, R!At(r, id) <= n PROVE R!get_item(t, id) = v[R!At(r, id)]
    OBVIOUS
  <2>1. id + 1 \in 1 .. N /\ (id + 1) - 1 = id
    BY <1>1
  <2>2. SlotsWith(r, v)[id + 1] = IF R!At(r, (id + 1) - 1) <= Len(v) THEN v[R!At(r, (id + 1) - 1)] ELSE r.slots[id + 1]
    BY <2>1, Zenon DEF SlotsWith
  <2> QED
    BY <1>5, <2>1, <2>2 DEF R!get_item
<1>11. t \in Queued
  <2>1. ASSUME NEW id \in 0 .. N - 1, R!At(t, id) <= R!SizeFormula(t, N)
        PROVE  R!get_item(t, id) \in Elem
    <3>1. R!At(r, id) \in 1 .. N
      BY <1>1, R!PlaceAt
    <3>2. R!At(r, id) \in 1 .. n
      BY <1>1, <1>7, <1>9, <2>1, <3>1
    <3>3. v[R!At(r, id)] \in Elem
      BY <3>2
    <3> QED
      BY <1>10, <3>2, <3>3
  <2> QED
    BY <1>1, <1>5, <1>6, <2>1, R!RingIntro DEF Queued
<1>12. R!get_size(t) = n
  BY <1>1, <1>7, <1>11, R!SizeIs DEF Queued
<1>13. Els(t) = v
  <2>1. Els(t) \in Seq(Elem) /\ Len(Els(t)) = n
    BY <1>11, <1>12, ElsAre
  <2>2. \A i \in 1 .. n : Els(t)[i] = v[i]
    <3> SUFFICES ASSUME NEW i \in 1 .. n PROVE Els(t)[i] = v[i]
      OBVIOUS
    <3>1. Els(t)[i] = R!get_item(t, R!Place(t, i))
      BY <1>11, <1>12, ElsAre
    <3>2. i \in 1 .. N /\ i <= n
      BY <1>1
    <3>3. R!Place(r, i) \in 0 .. N - 1 /\ R!At(r, R!Place(r, i)) = i
      BY <1>1, <3>2, R!AtPlace
    <3> QED
      BY <1>9, <1>10, <3>1, <3>2, <3>3
  <2> QED
    BY <2>1, <2>2
<1> QED
  BY <1>11, <1>12, <1>13 DEF t, p, wr

\* compress takes out of the queue what the list names, and keeps the rest in
\* their order (issue_queue.h:126-171).
LEMMA CompressDoes ==
  ASSUME NEW r \in Queued, NEW places
  PROVE  LET t == issue_queue!compress(r, Named(r, places, R!get_size(r)))
         IN  t \in Queued /\ Els(t) = Rest(r, places, R!get_size(r))
<1> DEFINE m == R!get_size(r)
           ids == Named(r, places, m)
           v == Rest(r, places, m)
           t == issue_queue!compress(r, ids)
           end == Ended(r, ids)
<1>1. m \in 0 .. N /\ m \in 0 .. m /\ m \in Nat /\ (R!is_empty(r) <=> m = 0)
  BY ElsAre, QueueSizeIs, R!SizeIs DEF Queued
<1>2. /\ ids \in Seq(0 .. N - 1) /\ v \in Seq(Elem) /\ Len(ids) \in 0 .. m /\ Len(v) \in 0 .. m
      /\ Len(ids) + Len(v) = m
  BY <1>1, WalkTypes
<1>3. t = IF ids = << >> \/ issue_queue!is_empty(r) THEN r ELSE [end.r EXCEPT !.wptr = end.next, !.wrapped = end.wrapped]
  BY Zenon DEF issue_queue!compress, Ended, Start
<1> HIDE DEF ids, v, t, end
<1>4. CASE ids = << >>
  <2>1. v = Els(r)
    BY <1>4, NoneNamed DEF ids, v
  <2> QED
    BY <1>3, <1>4, <2>1, Zenon DEF ids, v, t
<1>5. CASE ids # << >>
  <2>1. Len(ids) > 0 /\ Len(v) < m /\ m # 0 /\ ~issue_queue!is_empty(r)
    <3>1. Len(ids) # 0
      BY <1>2, <1>5
    <3> QED
      BY <1>1, <1>2, <3>1, SameRing
  <2>2. end = WalkAt(r, places, m)
    BY <2>1, WalkEnds DEF end, ids
  <2>3. end.r = RingWith(r, v) /\ end.next = R!Place(r, Len(v) + 1) /\ end.wrapped = (r.rptr + Len(v) >= N)
    <3> DEFINE i == Len(ids)
    <3>1. end = Walker(RingWith(r, v), i, i > 0, IF i > 0 THEN R!Place(r, Len(v) + 1) ELSE r.rptr,
             i > 0 /\ r.rptr + Len(v) >= N, R!Place(r, m + 1), r.rptr + m >= N, m = m)
      BY <2>2, Zenon DEF WalkAt, ids, v
    <3>2. /\ (IF i > 0 THEN R!Place(r, Len(v) + 1) ELSE r.rptr) = R!Place(r, Len(v) + 1)
          /\ (i > 0 /\ r.rptr + Len(v) >= N) = (r.rptr + Len(v) >= N)
      BY <2>1
    <3>3. /\ end.r = RingWith(r, v)
          /\ end.next = IF i > 0 THEN R!Place(r, Len(v) + 1) ELSE r.rptr
          /\ end.wrapped = (i > 0 /\ r.rptr + Len(v) >= N)
      BY <3>1 DEF Walker
    <3> QED
      BY <3>2, <3>3, Zenon
  <2>4. t = [slots |-> SlotsWith(r, v), rptr |-> r.rptr, wptr |-> R!Place(r, Len(v) + 1),
             wrapped |-> r.rptr + Len(v) >= N]
    <3> DEFINE p == R!Place(r, Len(v) + 1)
               wr == r.rptr + Len(v) >= N
    <3>1. t = [end.r EXCEPT !.wptr = end.next, !.wrapped = end.wrapped]
      BY <1>3, <1>5, <2>1
    <3>2. t = [RingWith(r, v) EXCEPT !.wptr = p, !.wrapped = wr]
      BY <2>3, <3>1, Zenon
    <3> HIDE DEF p, wr
    <3>3. t = [slots |-> SlotsWith(r, v), rptr |-> r.rptr, wptr |-> p, wrapped |-> wr]
      BY <3>2 DEF RingWith
    <3> QED
      BY <3>3, Zenon DEF p, wr
  <2>5. LET u == [slots |-> SlotsWith(r, v), rptr |-> r.rptr, wptr |-> R!Place(r, Len(v) + 1),
                   wrapped |-> r.rptr + Len(v) >= N]
         IN  u \in Queued /\ R!get_size(u) = Len(v) /\ Els(u) = v
    BY <1>2, <2>1, PulledBack
  <2> QED
    BY <2>4, <2>5, Zenon DEF ids, v, t
<1> QED
  BY <1>4, <1>5

\* The requests before the last, and all requests.
OpenCalls == [req : {"set_item"}, id : 0 .. N - 1, item : Elem] \cup {issue_queue!PopFront}
Calls == OpenCalls \cup [req : {"compress"}, item_id_list : Seq(0 .. N - 1)]

\* How many of the first k requests are pops.
PopsTo(q, k) == Cardinality({j \in 1 .. k : q[j].req = "pop"})

\* A request to pop is counted, no other is.
LEMMA PopsStep ==
  ASSUME NEW q, NEW k \in Nat
  PROVE  /\ PopsTo(q, 0) = 0 /\ PopsTo(q, k) \in Nat
         /\ PopsTo(q, k + 1) = IF q[k + 1].req = "pop" THEN PopsTo(q, k) + 1 ELSE PopsTo(q, k)
<1> DEFINE S(n) == {j \in 1 .. n : q[j].req = "pop"}
<1>1. S(0) = {}
  OBVIOUS
<1>2. IsFiniteSet(S(k))
  <2>1. IsFiniteSet(1 .. k) /\ S(k) \subseteq 1 .. k
    BY FS_Interval
  <2> QED
    BY <2>1, FS_Subset
<1>3. k + 1 \notin S(k) /\ S(k + 1) = IF q[k + 1].req = "pop" THEN S(k) \cup {k + 1} ELSE S(k)
  OBVIOUS
<1> HIDE DEF S
<1>4. Cardinality(S(k)) \in Nat
  BY <1>2, FS_CardinalityType
<1>5. Cardinality(S(k) \cup {k + 1}) = Cardinality(S(k)) + 1
  BY <1>2, <1>3, FS_AddElement
<1> QED
  BY <1>1, <1>3, <1>4, <1>5, FS_EmptySet DEF PopsTo, S

\* Every request is for an element that is still there when it is applied.
Fits(r, q) ==
  \A k \in 1 .. Len(q) :
    IF q[k].req = "pop" THEN PopsTo(q, k - 1) < R!get_size(r)
    ELSE R!At(r, q[k].id) \in PopsTo(q, k - 1) + 1 .. R!get_size(r)

\* What the requests make of the element at a place.
SetsTo(r, q, k, i) == {j \in 1 .. k : q[j].req = "set_item" /\ R!At(r, q[j].id) = i}
Latest(r, q, k, i) ==
  IF SetsTo(r, q, k, i) = {} THEN Els(r)[i] ELSE q[issue_queue!Max(SetsTo(r, q, k, i))].item

\* The ring after the first k requests.
StageFits(r, q, k) ==
  LET s == Stages(r, q)[k]
      p == PopsTo(q, k)
  IN  /\ s \in Queued /\ p \in 0 .. R!get_size(r) /\ R!get_size(s) = R!get_size(r) - p
      /\ \A i \in p + 1 .. R!get_size(r) :
           /\ R!Place(s, i - p) = R!Place(r, i) /\ R!At(s, R!Place(r, i)) = i - p
           /\ R!get_item(s, R!Place(r, i)) = Latest(r, q, k, i)

\* Before the first request every element is where the queue has it.
LEMMA StageStarts ==
  ASSUME NEW r \in Queued, NEW q \in Seq(OpenCalls)
  PROVE  StageFits(r, q, 0)
<1>1. Stages(r, q)[0] = r /\ PopsTo(q, 0) = 0
  <2>1. Len(q) \in Nat /\ 0 \in Nat
    OBVIOUS
  <2> QED
    BY <2>1, StagesAre, PopsStep
<1>2. R!get_size(r) \in 0 .. N /\ N \in Nat
  BY ElsAre, QueueSizeIs
<1>3. ASSUME NEW i \in 1 .. R!get_size(r)
      PROVE  /\ R!Place(r, i - 0) = R!Place(r, i) /\ R!At(r, R!Place(r, i)) = i - 0
             /\ R!get_item(r, R!Place(r, i)) = Latest(r, q, 0, i)
  <2>1. i \in 1 .. N /\ i - 0 = i
    BY <1>2
  <2>2. R!At(r, R!Place(r, i)) = i
    BY <2>1, SlotFacts
  <2>3. SetsTo(r, q, 0, i) = {}
    BY DEF SetsTo
  <2>4. Els(r)[i] = R!get_item(r, R!Place(r, i))
    BY ElsAre
  <2> QED
    BY <2>1, <2>2, <2>3, <2>4 DEF Latest
<1>4. 0 + 1 = 1 /\ R!get_size(r) - 0 = R!get_size(r) /\ 0 \in 0 .. R!get_size(r)
  BY <1>2
<1> QED
  BY <1>1, <1>3, <1>4, Zenon DEF StageFits

\* A request to replace an element.
LEMMA SetStage ==
  ASSUME NEW r \in Queued, NEW q \in Seq(OpenCalls), Fits(r, q), NEW k \in 0 .. Len(q) - 1,
         StageFits(r, q, k), q[k + 1].req = "set_item"
  PROVE  StageFits(r, q, k + 1)
<1> DEFINE s == Stages(r, q)[k]
           t == Stages(r, q)[k + 1]
           p == PopsTo(q, k)
           x == q[k + 1]
           m == R!get_size(r)
<1>1. k \in Nat /\ k + 1 \in 1 .. Len(q) /\ (k + 1) - 1 = k /\ Len(q) \in Nat /\ m \in 0 .. N /\ N \in Nat \ {0}
  BY ElsAre, QueueSizeIs
<1>2. x \in [req : {"set_item"}, id : 0 .. N - 1, item : Elem]
  <2>1. x \in OpenCalls
    BY <1>1
  <2> QED
    BY <2>1 DEF OpenCalls, issue_queue!PopFront
<1>3. x.req = "set_item" /\ x.id \in 0 .. N - 1 /\ x.item \in Elem /\ x.req # "pop"
  BY <1>2
<1>4. PopsTo(q, k + 1) = p /\ p \in Nat
  BY <1>1, <1>3, PopsStep
<1>5. R!At(r, x.id) \in p + 1 .. m
  BY <1>1, <1>3 DEF Fits
<1>6. t = R!set_item(s, x.id, x.item)
  <2>1. t = issue_queue!Apply(s, x)
    BY <1>1, StagesAre
  <2> HIDE DEF x, s, t
  <2>2. issue_queue!Apply(s, x) = issue_queue!set_item(s, x.id, x.item)
    BY <1>3 DEF issue_queue!Apply
  <2> QED
    BY <2>1, <2>2, SameRing
<1>7. /\ s \in Queued /\ p \in 0 .. m /\ R!get_size(s) = m - p
      /\ \A i \in p + 1 .. m :
           /\ R!Place(s, i - p) = R!Place(r, i) /\ R!At(s, R!Place(r, i)) = i - p
           /\ R!get_item(s, R!Place(r, i)) = Latest(r, q, k, i)
  BY Zenon DEF StageFits
<1> HIDE DEF s, t, p, x, m
<1>8. /\ t \in R!Rings(N, Elem) /\ R!get_size(t) = R!get_size(s)
      /\ \A i : R!Place(t, i) = R!Place(s, i)
      /\ \A j : R!At(t, j) = R!At(s, j)
      /\ \A j \in 0 .. N - 1 : R!get_item(t, j) = IF j = x.id THEN x.item ELSE R!get_item(s, j)
  BY <1>1, <1>3, <1>6, <1>7, R!ItemSet DEF Queued
<1>9. ASSUME NEW i \in p + 1 .. m
      PROVE  /\ R!Place(t, i - p) = R!Place(r, i) /\ R!At(t, R!Place(r, i)) = i - p
             /\ R!get_item(t, R!Place(r, i)) = Latest(r, q, k + 1, i)
  <2>1. i \in 1 .. N
    BY <1>1, <1>4
  <2>2. R!Place(r, i) \in 0 .. N - 1 /\ R!At(r, R!Place(r, i)) = i
    BY <1>1, <2>1, R!AtPlace DEF Queued
  <2>3. R!Place(r, R!At(r, x.id)) = x.id
    BY <1>1, <1>3, R!PlaceAt DEF Queued
  <2>4. R!get_item(t, R!Place(r, i)) = IF R!At(r, x.id) = i THEN x.item ELSE Latest(r, q, k, i)
    BY <1>7, <1>8, <2>2, <2>3
  <2>5. SetsTo(r, q, k + 1, i) = SetsTo(r, q, k, i) \cup (IF R!At(r, x.id) = i THEN {k + 1} ELSE {})
    BY <1>1, <1>3 DEF SetsTo, x
  <2>6. CASE R!At(r, x.id) = i
    <3>1. k + 1 \in SetsTo(r, q, k + 1, i) /\ SetsTo(r, q, k + 1, i) \in SUBSET (1 .. k + 1) /\ k + 1 \in Nat
      BY <1>1, <2>5, <2>6 DEF SetsTo
    <3>2. issue_queue!Max(SetsTo(r, q, k + 1, i)) = k + 1
      BY <3>1, MaxUpTo
    <3>3. Latest(r, q, k + 1, i) = x.item
      BY <3>1, <3>2 DEF Latest, x
    <3> QED
      BY <1>7, <1>8, <2>4, <2>6, <3>3
  <2>7. CASE R!At(r, x.id) # i
    <3>1. SetsTo(r, q, k + 1, i) = SetsTo(r, q, k, i)
      BY <2>5, <2>7
    <3>2. Latest(r, q, k + 1, i) = Latest(r, q, k, i)
      BY <3>1, Zenon DEF Latest
    <3> QED
      BY <1>7, <1>8, <2>4, <2>7, <3>2
  <2> QED
    BY <2>6, <2>7
<1> QED
  BY <1>4, <1>7, <1>8, <1>9, Zenon DEF StageFits, Queued, s, t, p, x, m

\* A request to remove the oldest element.
LEMMA PopStage ==
  ASSUME NEW r \in Queued, NEW q \in Seq(OpenCalls), Fits(r, q), NEW k \in 0 .. Len(q) - 1,
         StageFits(r, q, k), q[k + 1].req = "pop"
  PROVE  StageFits(r, q, k + 1)
<1> DEFINE s == Stages(r, q)[k]
           t == Stages(r, q)[k + 1]
           p == PopsTo(q, k)
           x == q[k + 1]
           m == R!get_size(r)
<1>1. k \in Nat /\ k + 1 \in 1 .. Len(q) /\ (k + 1) - 1 = k /\ Len(q) \in Nat /\ m \in 0 .. N /\ N \in Nat \ {0}
  BY ElsAre, QueueSizeIs
<1>2. PopsTo(q, k + 1) = p + 1 /\ p \in Nat
  BY <1>1, PopsStep
<1>3. p < m
  BY <1>1 DEF Fits
<1>4. t = R!pop(s)
  <2>1. t = issue_queue!Apply(s, x)
    BY <1>1, StagesAre
  <2> HIDE DEF x, s, t
  <2>2. issue_queue!Apply(s, x) = issue_queue!pop(s)
    <3>1. x.req = "pop"
      BY DEF x
    <3> QED
      BY <3>1 DEF issue_queue!Apply
  <2> QED
    BY <2>1, <2>2, SameRing
<1>5. /\ s \in Queued /\ p \in 0 .. m /\ R!get_size(s) = m - p
      /\ \A i \in p + 1 .. m :
           /\ R!Place(s, i - p) = R!Place(r, i) /\ R!At(s, R!Place(r, i)) = i - p
           /\ R!get_item(s, R!Place(r, i)) = Latest(r, q, k, i)
  BY Zenon DEF StageFits
<1> HIDE DEF s, t, p, m
<1>6. ~R!is_empty(s)
  BY <1>1, <1>2, <1>3, <1>5, R!SizeIs DEF Queued
<1>7. /\ t \in R!Rings(N, Elem) /\ R!get_size(t) = R!get_size(s) - 1
      /\ \A i \in 1 .. N - 1 : R!Place(t, i) = R!Place(s, i + 1)
      /\ \A j \in 0 .. N - 1 : j # s.rptr => R!At(t, j) = R!At(s, j) - 1
      /\ R!At(s, s.rptr) = 1
      /\ \A j \in 0 .. N - 1 : j # s.rptr => R!get_item(t, j) = R!get_item(s, j)
  BY <1>1, <1>4, <1>5, <1>6, R!PopItem DEF Queued
<1>8. ASSUME NEW i \in (p + 1) + 1 .. m
      PROVE  /\ R!Place(t, i - (p + 1)) = R!Place(r, i) /\ R!At(t, R!Place(r, i)) = i - (p + 1)
             /\ R!get_item(t, R!Place(r, i)) = Latest(r, q, k + 1, i)
  <2>1. i \in 1 .. N /\ i \in p + 1 .. m /\ i - (p + 1) \in 1 .. N - 1 /\ (i - (p + 1)) + 1 = i - p /\ i - p >= 2
        /\ (i - p) - 1 = i - (p + 1)
    BY <1>1, <1>2
  <2>2. R!Place(r, i) \in 0 .. N - 1
    BY <1>1, <2>1, R!AtPlace DEF Queued
  <2>3. R!Place(s, i - p) = R!Place(r, i) /\ R!At(s, R!Place(r, i)) = i - p
        /\ R!get_item(s, R!Place(r, i)) = Latest(r, q, k, i)
    BY <1>5, <2>1
  <2>4. R!Place(r, i) # s.rptr
    BY <1>7, <2>1, <2>3
  <2>5. R!Place(t, i - (p + 1)) = R!Place(r, i)
    BY <1>7, <2>1, <2>3
  <2>6. R!At(t, R!Place(r, i)) = i - (p + 1)
    BY <1>7, <2>1, <2>2, <2>3, <2>4
  <2>7. SetsTo(r, q, k + 1, i) = SetsTo(r, q, k, i)
    BY <1>1 DEF SetsTo
  <2>8. Latest(r, q, k + 1, i) = Latest(r, q, k, i)
    BY <2>7, Zenon DEF Latest
  <2>9. R!get_item(t, R!Place(r, i)) = Latest(r, q, k, i)
    BY <1>7, <2>2, <2>3, <2>4
  <2> QED
    BY <2>5, <2>6, <2>8, <2>9
<1>9. p + 1 \in 0 .. m /\ R!get_size(t) = m - (p + 1)
  BY <1>1, <1>2, <1>3, <1>5, <1>7
<1> QED
  BY <1>2, <1>7, <1>8, <1>9, Zenon DEF StageFits, Queued, s, t, p, m

\* So it is after all requests.
LEMMA StagesFit ==
  ASSUME NEW r \in Queued, NEW q \in Seq(OpenCalls), Fits(r, q)
  PROVE  \A k \in 0 .. Len(q) : StageFits(r, q, k)
<1> DEFINE S == {k \in 0 .. Len(q) : StageFits(r, q, k)}
<1>1. Len(q) \in Nat /\ \A k \in 0 .. Len(q) - 1 : k + 1 \in 0 .. Len(q) /\ k + 1 \in 1 .. Len(q)
  OBVIOUS
<1>2. 0 \in S
  BY <1>1, StageStarts
<1>3. ASSUME NEW k \in 0 .. Len(q) - 1, k \in S
      PROVE  k + 1 \in S
  <2>1. q[k + 1] \in OpenCalls
    BY <1>1
  <2>2. q[k + 1].req \in {"set_item", "pop"}
    BY <2>1 DEF OpenCalls, issue_queue!PopFront
  <2>3. StageFits(r, q, k + 1)
    BY <1>3, <2>2, SetStage, PopStage
  <2> QED
    BY <1>1, <2>3
<1>4. 0 .. Len(q) \subseteq S
  <2> HIDE DEF S
  <2> QED
    BY <1>1, <1>2, <1>3, R!UpTo
<1> QED
  BY <1>4

\* The list, its replacements and what is to leave it, by the ring and the requests.
ItemsOf(r) == LET ids == issue_queue!LiveIds(r) IN [i \in DOMAIN ids |-> issue_queue!get_item(r, ids[i])]
SpotOf(r, id) == 1 + ((id + N - r.rptr) % N)
RequestsOf(q, req) == {k \in DOMAIN q : q[k].req = req}
SetsOf(r, q, i) == {k \in RequestsOf(q, "set_item") : SpotOf(r, q[k].id) = i}
SpotsOf(r, q) == {SpotOf(r, q[k].id) : k \in RequestsOf(q, "set_item")}
UpdatesOf(r, q) == [i \in SpotsOf(r, q) |-> q[issue_queue!Max(SetsOf(r, q, i))].item]
LeavingOf(r, q) ==
  1 .. issue_queue!Cardinality(RequestsOf(q, "pop"))
    \cup UNION {{SpotOf(r, id) : id \in issue_queue!ToSet(q[k].item_id_list)} : k \in RequestsOf(q, "compress")}
Replaced(r, q) ==
  [i \in DOMAIN ItemsOf(r) |-> IF i \in DOMAIN UpdatesOf(r, q) THEN UpdatesOf(r, q)[i] ELSE ItemsOf(r)[i]]

\* The list that the queue stands for holds its elements from the oldest on.
LEMMA ItemsAre ==
  ASSUME NEW r \in Queued
  PROVE  ItemsOf(r) = Els(r) /\ DOMAIN ItemsOf(r) = 1 .. R!get_size(r)
<1>1. issue_queue!LiveIds(r) = R!LiveIds(r) /\ \A x : issue_queue!get_item(r, x) = R!get_item(r, x)
  BY SameRing
<1>2. /\ DOMAIN R!LiveIds(r) = 1 .. R!get_size(r)
      /\ \A i \in 1 .. R!get_size(r) : R!LiveIds(r)[i] = R!Place(r, i)
  BY QueueSizeIs, R!LiveIdsIs DEF Queued
<1>3. ItemsOf(r) = [i \in 1 .. R!get_size(r) |-> R!get_item(r, R!LiveIds(r)[i])]
  BY <1>1, <1>2, Zenon DEF ItemsOf
<1> QED
  BY <1>2, <1>3 DEF Els

\* The place that the model gives a slot is the one the ring gives it.
LEMMA SpotIs ==
  ASSUME NEW r \in Queued, NEW id \in 0 .. N - 1
  PROVE  SpotOf(r, id) = R!At(r, id)
<1>1. N \in Nat \ {0} /\ r.rptr \in 0 .. N - 1 /\ R!SizeOf(r) = N
  BY SlotFacts, QueueSizeIs
<1> DEFINE x == id + N - r.rptr
<1>2. x \in 0 .. 2 * N - 1
  BY <1>1
<1>3. x % N = IF x < N THEN x ELSE x - N
  <2> HIDE DEF x
  <2>1. \A n \in Nat \ {0} : \A y \in 0 .. 2 * n - 1 : y % n = IF y < n THEN y ELSE y - n
    BY R!Remainder
  <2> QED
    BY <1>1, <1>2, <2>1
<1>4. SpotOf(r, id) = 1 + (x % N)
  BY DEF SpotOf
<1>5. SpotOf(r, id) = 1 + (IF x < N THEN x ELSE x - N)
  <2> HIDE DEF x
  <2> QED
    BY <1>3, <1>4
<1> QED
  BY <1>1, <1>5 DEF R!At

\* The last request for a slot is the one that its element gets.
LEMMA ReplacedIs ==
  ASSUME NEW r \in Queued, NEW q \in Seq(OpenCalls)
  PROVE  /\ DOMAIN Replaced(r, q) = 1 .. R!get_size(r) /\ Len(Replaced(r, q)) = R!get_size(r)
         /\ \A i \in 1 .. R!get_size(r) : Replaced(r, q)[i] = Latest(r, q, Len(q), i)
<1>1. /\ DOMAIN ItemsOf(r) = 1 .. R!get_size(r) /\ ItemsOf(r) = Els(r) /\ R!get_size(r) \in Nat
  <2>1. R!get_size(r) \in 0 .. N /\ N \in Nat
    BY ElsAre, QueueSizeIs
  <2> QED
    BY <2>1, ItemsAre
<1>2. DOMAIN Replaced(r, q) = 1 .. R!get_size(r) /\ Len(Replaced(r, q)) = R!get_size(r)
  <2>1. Replaced(r, q) = [i \in 1 .. R!get_size(r) |-> IF i \in DOMAIN UpdatesOf(r, q) THEN UpdatesOf(r, q)[i] ELSE Els(r)[i]]
    BY <1>1, Zenon DEF Replaced
  <2> QED
    BY <1>1, <2>1
<1>3. ASSUME NEW i \in 1 .. R!get_size(r)
      PROVE  Replaced(r, q)[i] = Latest(r, q, Len(q), i)
  <2>1. \A k \in RequestsOf(q, "set_item") : k \in 1 .. Len(q) /\ SpotOf(r, q[k].id) = R!At(r, q[k].id)
    <3> SUFFICES ASSUME NEW k \in RequestsOf(q, "set_item")
                 PROVE  k \in 1 .. Len(q) /\ SpotOf(r, q[k].id) = R!At(r, q[k].id)
      OBVIOUS
    <3>1. k \in 1 .. Len(q) /\ q[k].req = "set_item" /\ q[k] \in OpenCalls
      BY DEF RequestsOf
    <3>2. q[k].id \in 0 .. N - 1
      BY <3>1 DEF OpenCalls, issue_queue!PopFront
    <3> QED
      BY <3>1, <3>2, SpotIs
  <2>2. RequestsOf(q, "set_item") = {k \in 1 .. Len(q) : q[k].req = "set_item"}
    BY DEF RequestsOf
  <2>3. SetsOf(r, q, i) = SetsTo(r, q, Len(q), i)
    BY <2>1, <2>2 DEF SetsOf, SetsTo
  <2>4. i \in SpotsOf(r, q) <=> SetsTo(r, q, Len(q), i) # {}
    <3>1. i \in SpotsOf(r, q) <=> SetsOf(r, q, i) # {}
      BY DEF SpotsOf, SetsOf
    <3> QED
      BY <2>3, <3>1
  <2>5. DOMAIN UpdatesOf(r, q) = SpotsOf(r, q)
    BY DEF UpdatesOf
  <2>6. i \in SpotsOf(r, q) => UpdatesOf(r, q)[i] = q[issue_queue!Max(SetsTo(r, q, Len(q), i))].item
    BY <2>3, Zenon DEF UpdatesOf
  <2>7. Replaced(r, q)[i] = IF i \in DOMAIN UpdatesOf(r, q) THEN UpdatesOf(r, q)[i] ELSE Els(r)[i]
    BY <1>1, Zenon DEF Replaced
  <2> QED
    BY <2>4, <2>5, <2>6, <2>7, Zenon DEF Latest
<1> QED
  BY <1>2, <1>3

\* The largest of some of the numbers up to n is one of them.
LEMMA MaxIn ==
  ASSUME NEW n \in Nat, NEW s \in SUBSET (1 .. n), s # {}
  PROVE  issue_queue!Max(s) \in s
<1> DEFINE P(x) == x \in s /\ \A y \in s : x >= y
           S == {k \in Nat : k <= n => \A t \in SUBSET (1 .. k) : t # {} => \E x \in t : \A y \in t : x >= y}
<1>1. 0 \in S
  <2>1. 1 .. 0 = {}
    OBVIOUS
  <2> QED
    BY <2>1
<1>2. ASSUME NEW k \in Nat, k \in S
      PROVE  k + 1 \in S
  <2> SUFFICES ASSUME k + 1 <= n, NEW t \in SUBSET (1 .. k + 1), t # {}
               PROVE  \E x \in t : \A y \in t : x >= y
    OBVIOUS
  <2>1. CASE k + 1 \in t
    BY <2>1
  <2>2. CASE k + 1 \notin t
    <3>1. t \in SUBSET (1 .. k)
      BY <2>2
    <3> QED
      BY <1>2, <3>1
  <2> QED
    BY <2>1, <2>2
<1>3. Nat \subseteq S
  <2> HIDE DEF S
  <2> QED
    BY <1>1, <1>2, R!NatInd
<1>4. \E x : P(x)
  <2>1. n \in S
    BY <1>3
  <2>2. \E x \in s : \A y \in s : x >= y
    BY <2>1
  <2> QED
    BY <2>2
<1>5. issue_queue!Max(s) = CHOOSE x : P(x)
  BY Zenon DEF issue_queue!Max
<1> HIDE DEF P
<1>6. P(CHOOSE x : P(x))
  BY <1>4, Zenon
<1> QED
  BY <1>5, <1>6, Zenon DEF P

\* What a request adds to what is to leave.
LEMMA RequestsAppend ==
  ASSUME NEW q \in Seq(Calls), NEW x \in Calls, NEW req
  PROVE  /\ RequestsOf(Append(q, x), req) = RequestsOf(q, req) \cup (IF x.req = req THEN {Len(q) + 1} ELSE {})
         /\ \A k \in RequestsOf(q, req) : Append(q, x)[k] = q[k]
         /\ Append(q, x)[Len(q) + 1] = x
         /\ Len(q) + 1 \notin RequestsOf(q, req)
BY DEF RequestsOf

\* A request that replaces nothing leaves the replacements noted so far as they are.
LEMMA UpdatesKept ==
  ASSUME NEW r, NEW q \in Seq(Calls), NEW x \in Calls, x.req # "set_item"
  PROVE  UpdatesOf(r, Append(q, x)) = UpdatesOf(r, q)
<1> DEFINE u == Append(q, x)
           D == RequestsOf(q, "set_item")
<1>1. RequestsOf(u, "set_item") = D /\ \A k \in D : u[k] = q[k] /\ k \in DOMAIN q
  <2>1. \A k \in D : k \in DOMAIN q
    BY DEF RequestsOf
  <2>2. RequestsOf(u, "set_item") = D \cup (IF x.req = "set_item" THEN {Len(q) + 1} ELSE {})
    BY RequestsAppend
  <2>3. \A k \in D : u[k] = q[k]
    BY <2>1
  <2> HIDE DEF u, D
  <2> QED
    BY <2>1, <2>2, <2>3
<1>2. \A i \in SpotsOf(r, q) : \E k \in D : SpotOf(r, q[k].id) = i
  BY DEF SpotsOf
<1>3. \A i : SetsOf(r, q, i) \subseteq D /\ D \in SUBSET (1 .. Len(q))
  BY DEF SetsOf, RequestsOf
<1> HIDE DEF u, D
<1>4. SpotsOf(r, u) = SpotsOf(r, q)
  BY <1>1 DEF SpotsOf, D
<1>5. \A i : SetsOf(r, u, i) = SetsOf(r, q, i)
  BY <1>1 DEF SetsOf, D
<1>6. ASSUME NEW i \in SpotsOf(r, q)
      PROVE  u[issue_queue!Max(SetsOf(r, u, i))].item = q[issue_queue!Max(SetsOf(r, q, i))].item
  <2>1. SetsOf(r, q, i) # {}
    BY <1>2 DEF SetsOf, D
  <2>2. issue_queue!Max(SetsOf(r, q, i)) \in SetsOf(r, q, i)
    <3>1. SetsOf(r, q, i) \in SUBSET (1 .. Len(q)) /\ Len(q) \in Nat
      BY <1>3
    <3> QED
      BY <2>1, <3>1, MaxIn
  <2> QED
    BY <1>1, <1>3, <1>5, <2>2
<1> QED
  BY <1>4, <1>6, Zenon DEF UpdatesOf, u

\* Without compress it is as many of the oldest as there are pops.
LEMMA LeavingIs ==
  ASSUME NEW r, NEW q \in Seq(OpenCalls)
  PROVE  /\ LeavingOf(r, q) = 1 .. PopsTo(q, Len(q))
         /\ RequestsOf(q, "compress") = {} /\ issue_queue!Cardinality(RequestsOf(q, "pop")) = PopsTo(q, Len(q))
<1>1. RequestsOf(q, "compress") = {}
  <2>1. \A k \in DOMAIN q : q[k] \in OpenCalls
    OBVIOUS
  <2>2. \A x \in OpenCalls : x.req # "compress"
    BY DEF OpenCalls, issue_queue!PopFront
  <2> QED
    BY <2>1, <2>2 DEF RequestsOf
<1>2. RequestsOf(q, "pop") = {j \in 1 .. Len(q) : q[j].req = "pop"}
  BY DEF RequestsOf
<1>3. issue_queue!Cardinality(RequestsOf(q, "pop")) = PopsTo(q, Len(q))
  BY <1>2, Zenon DEF issue_queue!Cardinality, Cardinality, PopsTo
<1>4. LeavingOf(r, q) = 1 .. PopsTo(q, Len(q)) \cup UNION {{SpotOf(r, id) : id \in issue_queue!ToSet(q[k].item_id_list)} : k \in {}}
  BY <1>1, <1>3, Zenon DEF LeavingOf
<1> QED
  BY <1>1, <1>3, <1>4

\* With it the elements that its list names leave too.
LEMMA LeavingWith ==
  ASSUME NEW r, NEW q \in Seq(OpenCalls), NEW ids \in Seq(0 .. N - 1)
  PROVE  LeavingOf(r, Append(q, issue_queue!Compress(ids)))
           = 1 .. PopsTo(q, Len(q)) \cup {SpotOf(r, ids[j]) : j \in 1 .. Len(ids)}
<1> DEFINE x == issue_queue!Compress(ids)
           u == Append(q, x)
           n == Len(q)
<1>1. x \in Calls /\ x.req = "compress" /\ x.item_id_list = ids /\ x.req # "pop"
  BY DEF issue_queue!Compress, Calls
<1>2. q \in Seq(Calls) /\ u[n + 1] = x
  BY DEF Calls
<1> HIDE DEF x
<1>3. \A req : RequestsOf(u, req) = RequestsOf(q, req) \cup (IF x.req = req THEN {n + 1} ELSE {})
  BY <1>1, <1>2, RequestsAppend
<1> HIDE DEF u, n
<1>4. RequestsOf(u, "compress") = {n + 1} /\ RequestsOf(u, "pop") = RequestsOf(q, "pop")
  <2>1. RequestsOf(q, "compress") = {}
    BY LeavingIs
  <2> QED
    BY <1>1, <1>3, <2>1
<1>5. issue_queue!Cardinality(RequestsOf(u, "pop")) = PopsTo(q, Len(q))
  BY <1>4, LeavingIs
<1>6. issue_queue!ToSet(ids) = {ids[j] : j \in 1 .. Len(ids)}
  BY DEF issue_queue!ToSet
<1>7. {SpotOf(r, id) : id \in issue_queue!ToSet(ids)} = {SpotOf(r, ids[j]) : j \in 1 .. Len(ids)}
  BY <1>6
<1>8. UNION {{SpotOf(r, id) : id \in issue_queue!ToSet(u[k].item_id_list)} : k \in {n + 1}}
        = {SpotOf(r, id) : id \in issue_queue!ToSet(ids)}
  <2>1. u[n + 1].item_id_list = ids
    BY <1>1, <1>2
  <2> DEFINE A(k) == {SpotOf(r, id) : id \in issue_queue!ToSet(u[k].item_id_list)}
  <2>2. A(n + 1) = {SpotOf(r, id) : id \in issue_queue!ToSet(ids)}
    BY <2>1
  <2> HIDE DEF A
  <2>3. UNION {A(k) : k \in {n + 1}} = A(n + 1)
    OBVIOUS
  <2> QED
    BY <2>2, <2>3, Zenon DEF A
<1>9. LeavingOf(r, u) = 1 .. PopsTo(q, Len(q)) \cup UNION {{SpotOf(r, id) : id \in issue_queue!ToSet(u[k].item_id_list)} : k \in {n + 1}}
  BY <1>4, <1>5, Zenon DEF LeavingOf
<1>10. LeavingOf(r, u) = 1 .. PopsTo(q, Len(q)) \cup {SpotOf(r, ids[j]) : j \in 1 .. Len(ids)}
  BY <1>7, <1>8, <1>9, Zenon
<1> QED
  BY <1>10, Zenon DEF u, x

\* The ring when all requests have been applied, and how many pops there are.
Last(r, q) == Stages(r, q)[Len(q)]
Pops(q) == PopsTo(q, Len(q))

\* When all requests are applied the rest of the queue is behind the pops, replaced by
\* the last request for its slot.
LEMMA LastFits ==
  ASSUME NEW r \in Queued, NEW q \in Seq(OpenCalls), Fits(r, q)
  PROVE  /\ Last(r, q) \in Queued /\ Pops(q) \in 0 .. R!get_size(r)
         /\ R!get_size(Last(r, q)) = R!get_size(r) - Pops(q)
         /\ \A i \in Pops(q) + 1 .. R!get_size(r) :
              /\ R!Place(Last(r, q), i - Pops(q)) = R!Place(r, i)
              /\ R!At(Last(r, q), R!Place(r, i)) = i - Pops(q)
              /\ R!get_item(Last(r, q), R!Place(r, i)) = Latest(r, q, Len(q), i)
<1>1. Len(q) \in 0 .. Len(q)
  OBVIOUS
<1>2. StageFits(r, q, Len(q))
  BY <1>1, StagesFit
<1> QED
  BY <1>2, Zenon DEF StageFits, Last, Pops

\* An empty set of slots names nothing, and everything stays.
LEMMA NoneTaken ==
  ASSUME NEW s \in Queued
  PROVE  /\ Named(s, {}, R!get_size(s)) = << >> /\ Rest(s, {}, R!get_size(s)) = Els(s)
         /\ Taken(s, {}) = {}
<1> DEFINE m == R!get_size(s)
           g == R!LiveIds(s)
<1>1. m \in Nat /\ m \in 0 .. m /\ g \in Seq(0 .. N - 1) /\ Len(g) = m
  <2>1. m \in 0 .. N /\ N \in Nat
    BY ElsAre, QueueSizeIs
  <2>2. g \in Seq(0 .. N - 1) /\ Len(g) = m
    BY QueueSizeIs, R!LiveIdsIs DEF Queued
  <2> QED
    BY <2>1, <2>2
<1>2. Taken(s, {}) = {}
  BY DEF Taken
<1>3. Named(s, {}, m) \in Seq(0 .. N - 1)
  BY <1>1, WalkTypes
<1>4. \A j \in 1 .. Len(Named(s, {}, m)) : \E i \in 1 .. m : i \in Taken(s, {}) /\ Named(s, {}, m)[j] = g[i]
  <2>1. g \in Seq(0 .. N - 1) /\ m \in 0 .. Len(g)
    BY <1>1
  <2> HIDE DEF m, g
  <2>2. \A j \in 1 .. Len(Picks(g, Taken(s, {}))[m]) : \E i \in 1 .. m : i \in Taken(s, {}) /\ Picks(g, Taken(s, {}))[m][j] = g[i]
    BY <2>1, PickElements
  <2> QED
    BY <2>2, Zenon DEF Named, g
<1>5. Named(s, {}, m) = << >>
  BY <1>2, <1>3, <1>4
<1> QED
  BY <1>2, <1>5, NoneNamed

\* What leaves when places are to be emptied, too.
OutOf(r, q, places) == 1 .. Pops(q) \cup {Pops(q) + j : j \in Taken(Last(r, q), places)}

\* A compress at the end lets go what the pops remove and what its list names.
LEMMA OutIs ==
  ASSUME NEW r \in Queued, NEW q \in Seq(OpenCalls), Fits(r, q), NEW places
  PROVE  /\ LeavingOf(r, Append(q, issue_queue!Compress(Named(Last(r, q), places, R!get_size(Last(r, q))))))
              = OutOf(r, q, places)
         /\ OutOf(r, q, places) \subseteq 1 .. R!get_size(r)
         /\ Named(Last(r, q), places, R!get_size(Last(r, q))) \in Seq(0 .. N - 1)
<1> DEFINE s == Last(r, q)
           p == Pops(q)
           m == R!get_size(r)
           l == R!get_size(s)
           ids == Named(s, places, l)
           g == R!LiveIds(s)
           D == Taken(s, places)
<1>1. /\ s \in Queued /\ p \in 0 .. m /\ l = m - p /\ m \in 0 .. N /\ N \in Nat \ {0} /\ l \in Nat
      /\ \A i \in p + 1 .. m : R!Place(s, i - p) = R!Place(r, i)
  <2>1. m \in 0 .. N /\ N \in Nat \ {0}
    BY ElsAre, QueueSizeIs
  <2>2. /\ s \in Queued /\ p \in 0 .. m /\ l = m - p
        /\ \A i \in p + 1 .. m : R!Place(s, i - p) = R!Place(r, i)
    BY LastFits
  <2> HIDE DEF s, p, m, l
  <2> QED
    BY <2>1, <2>2
<1>2. g \in Seq(0 .. N - 1) /\ Len(g) = l /\ \A i \in 1 .. l : g[i] = R!Place(s, i)
  BY <1>1, R!LiveIdsIs DEF Queued
<1>3. D \subseteq 1 .. l
  BY DEF Taken
<1>4. ids \in Seq(0 .. N - 1)
  <2>1. l \in 0 .. l
    BY <1>1
  <2> QED
    BY <1>1, <2>1, WalkTypes
<1>5. \A j \in 1 .. l : SpotOf(r, g[j]) = p + j
  <2> SUFFICES ASSUME NEW j \in 1 .. l PROVE SpotOf(r, g[j]) = p + j
    OBVIOUS
  <2> HIDE DEF s, p, m, l, g
  <2>1. p + j \in p + 1 .. m /\ (p + j) - p = j /\ p + j \in 1 .. N
    BY <1>1
  <2>2. g[j] = R!Place(r, p + j)
    BY <1>1, <1>2, <2>1
  <2>3. R!Place(r, p + j) \in 0 .. N - 1 /\ R!At(r, R!Place(r, p + j)) = p + j
    BY <1>1, <2>1, R!AtPlace DEF Queued
  <2> QED
    BY <2>2, <2>3, SpotIs
<1>6. /\ \A j \in 1 .. Len(ids) : \E i \in 1 .. l : i \in D /\ ids[j] = g[i]
      /\ \A i \in 1 .. l : i \in D => \E j \in 1 .. Len(ids) : ids[j] = g[i]
  <2>1. l \in 0 .. Len(g)
    BY <1>1, <1>2
  <2>2. ids = Picks(g, D)[l]
    BY Zenon DEF Named
  <2> HIDE DEF s, p, m, l, g, D, ids
  <2>3. /\ \A j \in 1 .. Len(Picks(g, D)[l]) : \E i \in 1 .. l : i \in D /\ Picks(g, D)[l][j] = g[i]
        /\ \A i \in 1 .. l : i \in D => /\ Len(Picks(g, D)[i]) = Len(Picks(g, D)[i - 1]) + 1
                                         /\ Len(Picks(g, D)[i]) \in 1 .. Len(Picks(g, D)[l])
                                         /\ Picks(g, D)[l][Len(Picks(g, D)[i])] = g[i]
    <3>1. g \in Seq(0 .. N - 1) /\ l \in 0 .. Len(g)
      BY <1>2, <2>1
    <3> QED
      BY <3>1, PickElements
  <2> QED
    BY <2>2, <2>3
<1>7. {SpotOf(r, ids[j]) : j \in 1 .. Len(ids)} = {p + j : j \in D}
  <2> HIDE DEF s, p, m, l, g, D, ids
  <2>1. ASSUME NEW j \in 1 .. Len(ids)
        PROVE  SpotOf(r, ids[j]) \in {p + i : i \in D}
    <3>1. PICK i \in 1 .. l : i \in D /\ ids[j] = g[i]
      BY <1>6
    <3>2. SpotOf(r, ids[j]) = p + i
      BY <1>5, <3>1
    <3> QED
      BY <3>1, <3>2
  <2>2. ASSUME NEW i \in D
        PROVE  p + i \in {SpotOf(r, ids[j]) : j \in 1 .. Len(ids)}
    <3>1. i \in 1 .. l
      BY <1>3
    <3>2. PICK j \in 1 .. Len(ids) : ids[j] = g[i]
      BY <1>6, <3>1
    <3>3. SpotOf(r, ids[j]) = p + i
      BY <1>5, <3>1, <3>2
    <3> QED
      BY <3>3
  <2> QED
    BY <2>1, <2>2
<1>8. LeavingOf(r, Append(q, issue_queue!Compress(ids))) = 1 .. p \cup {SpotOf(r, ids[j]) : j \in 1 .. Len(ids)}
  BY <1>4, LeavingWith, Zenon DEF Pops
<1>9. OutOf(r, q, places) = 1 .. p \cup {p + j : j \in D}
  BY Zenon DEF OutOf
<1>10. 1 .. p \cup {p + j : j \in D} \subseteq 1 .. m
  <2> HIDE DEF s, p, m, l, g, D, ids
  <2> QED
    BY <1>1, <1>3
<1> QED
  BY <1>4, <1>7, <1>8, <1>9, <1>10, Zenon

\* What is left of the list is what compress leaves in the ring.
LEMMA Closes ==
  ASSUME NEW r \in Queued, NEW q \in Seq(OpenCalls), Fits(r, q), NEW places
  PROVE  issue_queue!L!Without(Replaced(r, q), OutOf(r, q, places))
           = Rest(Last(r, q), places, R!get_size(Last(r, q)))
<1> DEFINE s == Last(r, q)
           p == Pops(q)
           m == R!get_size(r)
           l == R!get_size(s)
           y == Replaced(r, q)
           D == Taken(s, places)
           out == OutOf(r, q, places)
           Left(k) == Rest(s, places, k)
           F == [k \in 0 .. m |-> IF k <= p THEN << >> ELSE Left(k - p)]
<1>1. /\ s \in Queued /\ p \in 0 .. m /\ l = m - p /\ m \in 0 .. N /\ N \in Nat \ {0} /\ l \in Nat /\ m \in Nat
      /\ \A i \in p + 1 .. m : /\ R!Place(s, i - p) = R!Place(r, i)
                               /\ R!get_item(s, R!Place(r, i)) = Latest(r, q, Len(q), i)
  <2>1. m \in 0 .. N /\ N \in Nat \ {0}
    BY ElsAre, QueueSizeIs
  <2>2. /\ s \in Queued /\ p \in 0 .. m /\ l = m - p
        /\ \A i \in p + 1 .. m : /\ R!Place(s, i - p) = R!Place(r, i)
                                 /\ R!get_item(s, R!Place(r, i)) = Latest(r, q, Len(q), i)
    BY LastFits
  <2> HIDE DEF s, p, m, l
  <2> QED
    BY <2>1, <2>2
<1>2. Len(y) = m /\ \A i \in 1 .. m : y[i] = Latest(r, q, Len(q), i)
  BY ReplacedIs
<1>3. \A i \in 1 .. l : Els(s)[i] = R!get_item(s, R!Place(s, i))
  BY <1>1, ElsAre
<1>4. \A k \in 0 .. l - 1 : Left(k + 1) = IF k + 1 \in D THEN Left(k) ELSE Append(Left(k), Els(s)[k + 1])
  <2> SUFFICES ASSUME NEW k \in 0 .. l - 1
               PROVE  Left(k + 1) = IF k + 1 \in D THEN Left(k) ELSE Append(Left(k), Els(s)[k + 1])
    OBVIOUS
  <2>1. s \in Queued
    BY <1>1
  <2> HIDE DEF s
  <2> QED
    BY <2>1, WalkSteps
<1>5. Left(0) = << >>
  BY <1>1, WalkStarts
<1>6. D \subseteq 1 .. l /\ out = 1 .. p \cup {p + j : j \in D}
  BY DEF Taken, OutOf
<1> HIDE DEF s, p, m, l, y, D, out, Left
<1>7. F[0] = << >>
  BY <1>1
<1>8. \A k \in 1 .. m : F[k] = IF k \in out THEN F[k - 1] ELSE Append(F[k - 1], y[k])
  <2> SUFFICES ASSUME NEW k \in 1 .. m
               PROVE  F[k] = IF k \in out THEN F[k - 1] ELSE Append(F[k - 1], y[k])
    OBVIOUS
  <2>1. k \in 0 .. m /\ k - 1 \in 0 .. m
    BY <1>1
  <2>2. CASE k <= p
    <3>1. k \in out /\ k - 1 <= p
      BY <1>1, <1>6, <2>2
    <3> QED
      BY <2>1, <2>2, <3>1
  <2>3. CASE ~(k <= p)
    <3> DEFINE j == k - p
    <3>1. j - 1 \in 0 .. l - 1 /\ (j - 1) + 1 = j /\ j \in 1 .. l /\ k \in p + 1 .. m /\ (k - 1) - p = j - 1
      BY <1>1, <2>3
    <3>2. k \in out <=> j \in D
      BY <1>1, <1>6, <2>3
    <3>3. F[k] = Left(j)
      BY <2>1, <2>3
    <3>4. F[k - 1] = Left(j - 1)
      <4>1. CASE k - 1 <= p
        <5>1. j - 1 = 0
          BY <1>1, <2>1, <2>3, <4>1
        <5>2. F[k - 1] = << >>
          BY <2>1, <4>1
        <5> QED
          BY <1>5, <5>1, <5>2
      <4>2. CASE ~(k - 1 <= p)
        BY <2>1, <3>1, <4>2
      <4> QED
        BY <4>1, <4>2
    <3>5. Els(s)[j] = y[k]
      BY <1>1, <1>2, <1>3, <3>1
    <3> HIDE DEF j, F
    <3>6. Left(j) = IF j \in D THEN Left(j - 1) ELSE Append(Left(j - 1), Els(s)[j])
      BY <1>4, <3>1
    <3> QED
      BY <3>2, <3>3, <3>4, <3>5, <3>6, Zenon
  <2> QED
    BY <2>2, <2>3
<1>9. F[m] = Left(l)
  <2>1. m \in 0 .. m
    BY <1>1
  <2>2. CASE m <= p
    <3>1. l = 0
      BY <1>1, <2>2
    <3> QED
      BY <1>5, <2>1, <2>2, <3>1
  <2>3. CASE ~(m <= p)
    BY <1>1, <2>1, <2>3
  <2> QED
    BY <2>2, <2>3
<1> HIDE DEF F
<1>10. issue_queue!L!Without(y, out) = F[Len(y)]
  BY <1>1, <1>2, <1>7, <1>8, WithoutIs
<1> QED
  BY <1>2, <1>9, <1>10, Zenon DEF y, out, s, l, Left

\* Without requests nothing is to change.
LEMMA NothingAsked ==
  ASSUME NEW r
  PROVE  UpdatesOf(r, << >>) = << >> /\ LeavingOf(r, << >>) = {}
<1>1. << >> \in Seq(OpenCalls) /\ Len(<< >>) = 0
  OBVIOUS
<1>2. \A req : RequestsOf(<< >>, req) = {}
  BY DEF RequestsOf
<1>3. SpotsOf(r, << >>) = {}
  BY <1>2 DEF SpotsOf
<1>4. UpdatesOf(r, << >>) = << >>
  BY <1>3 DEF UpdatesOf
<1>5. LeavingOf(r, << >>) = 1 .. PopsTo(<< >>, 0)
  BY <1>1, LeavingIs
<1>6. PopsTo(<< >>, 0) = 0
  BY PopsStep
<1> QED
  BY <1>4, <1>5, <1>6

\* What the requests are for depends on where the queue starts only.
LEMMA SameSpots ==
  ASSUME NEW r, NEW t, t.rptr = r.rptr, NEW q
  PROVE  UpdatesOf(t, q) = UpdatesOf(r, q) /\ LeavingOf(t, q) = LeavingOf(r, q)
<1>1. \A id : SpotOf(t, id) = SpotOf(r, id)
  BY DEF SpotOf
<1>2. SpotsOf(t, q) = SpotsOf(r, q) /\ \A i : SetsOf(t, q, i) = SetsOf(r, q, i)
  BY <1>1 DEF SpotsOf, SetsOf
<1>3. UpdatesOf(t, q) = UpdatesOf(r, q)
  BY <1>2, Zenon DEF UpdatesOf
<1> DEFINE A(x, k) == {SpotOf(x, id) : id \in issue_queue!ToSet(q[k].item_id_list)}
<1>4. \A k : A(t, k) = A(r, k)
  BY <1>1
<1> HIDE DEF A
<1>5. UNION {A(t, k) : k \in RequestsOf(q, "compress")} = UNION {A(r, k) : k \in RequestsOf(q, "compress")}
  BY <1>4
<1> QED
  BY <1>3, <1>5, Zenon DEF LeavingOf, A

\* A further request leaves the pops before it as they were.
LEMMA PopsSame ==
  ASSUME NEW q \in Seq(OpenCalls), NEW x \in OpenCalls
  PROVE  /\ \A k \in 0 .. Len(q) : PopsTo(Append(q, x), k) = PopsTo(q, k)
         /\ Pops(Append(q, x)) = IF x.req = "pop" THEN Pops(q) + 1 ELSE Pops(q)
         /\ Append(q, x) \in Seq(OpenCalls) /\ Pops(q) \in Nat
<1> DEFINE u == Append(q, x)
           n == Len(q)
<1>1. n \in Nat /\ Len(u) = n + 1 /\ u[n + 1] = x /\ u \in Seq(OpenCalls) /\ \A k \in 1 .. n : u[k] = q[k]
  OBVIOUS
<1> HIDE DEF u, n
<1>2. ASSUME NEW k \in 0 .. n
      PROVE  PopsTo(u, k) = PopsTo(q, k)
  <2>1. {j \in 1 .. k : u[j].req = "pop"} = {j \in 1 .. k : q[j].req = "pop"}
    BY <1>1
  <2> QED
    BY <2>1, Zenon DEF PopsTo
<1>3. PopsTo(u, n + 1) = IF u[n + 1].req = "pop" THEN PopsTo(u, n) + 1 ELSE PopsTo(u, n)
  BY <1>1, PopsStep
<1>4. n \in 0 .. n /\ PopsTo(q, n) \in Nat
  BY <1>1, PopsStep
<1>5. PopsTo(u, n) = PopsTo(q, n)
  BY <1>2, <1>4
<1>6. Pops(u) = IF x.req = "pop" THEN Pops(q) + 1 ELSE Pops(q)
  BY <1>1, <1>3, <1>5, Zenon DEF Pops, n
<1> QED
  BY <1>1, <1>2, <1>4, <1>6, Zenon DEF Pops, u, n

\* A further request for an element that is still there fits the others.
LEMMA FitsAppend ==
  ASSUME NEW r, NEW q \in Seq(OpenCalls), Fits(r, q), NEW x \in OpenCalls,
         IF x.req = "pop" THEN Pops(q) < R!get_size(r)
         ELSE R!At(r, x.id) \in Pops(q) + 1 .. R!get_size(r)
  PROVE  Fits(r, Append(q, x))
<1> DEFINE u == Append(q, x)
           n == Len(q)
<1>1. n \in Nat /\ Len(u) = n + 1 /\ u[n + 1] = x /\ (\A k \in 1 .. n : u[k] = q[k])
  OBVIOUS
<1>2. \A k \in 0 .. n : PopsTo(u, k) = PopsTo(q, k)
  BY PopsSame
<1> HIDE DEF u
<1> SUFFICES ASSUME NEW k \in 1 .. n + 1
             PROVE  IF u[k].req = "pop" THEN PopsTo(u, k - 1) < R!get_size(r)
                    ELSE R!At(r, u[k].id) \in PopsTo(u, k - 1) + 1 .. R!get_size(r)
  BY <1>1 DEF Fits, u
<1>3. k - 1 \in 0 .. n
  BY <1>1
<1>4. CASE k = n + 1
  <2>1. k - 1 = n /\ n \in 0 .. n
    BY <1>1, <1>4
  <2>2. u[k] = x /\ PopsTo(u, k - 1) = Pops(q)
    BY <1>1, <1>2, <1>4, <2>1 DEF Pops
  <2> QED
    BY <2>2
<1>5. CASE k # n + 1
  <2>1. k \in 1 .. n
    BY <1>1, <1>5
  <2>2. u[k] = q[k] /\ PopsTo(u, k - 1) = PopsTo(q, k - 1)
    BY <1>1, <1>2, <1>3, <2>1
  <2> QED
    BY <2>1, <2>2 DEF Fits
<1> QED
  BY <1>4, <1>5

\* A push appends to the list, and the requests stay what they were.
LEMMA PushDoes ==
  ASSUME NEW r \in Queued, NEW q \in Seq(OpenCalls), Fits(r, q), ~issue_queue!is_full(r), NEW e \in Elem
  PROVE  LET t == issue_queue!push(r, e)
         IN  /\ t \in Queued /\ Fits(t, q) /\ Len(ItemsOf(r)) < N
             /\ ItemsOf(t) = Append(ItemsOf(r), e)
             /\ UpdatesOf(t, q) = UpdatesOf(r, q) /\ LeavingOf(t, q) = LeavingOf(r, q)
<1> DEFINE t == R!push(r, e)
           m == R!get_size(r)
<1>1. issue_queue!push(r, e) = t /\ ~R!is_full(r)
  BY SameRing
<1>2. m \in 0 .. N /\ N \in Nat \ {0} /\ m < N
  BY <1>1, ElsAre, QueueSizeIs, R!SizeIs DEF Queued
<1>3. /\ t \in Queued /\ R!get_size(t) = m + 1 /\ t.rptr = r.rptr
      /\ \A i : R!Place(t, i) = R!Place(r, i)
      /\ \A j : R!At(t, j) = R!At(r, j)
      /\ R!At(r, r.wptr) = m + 1
      /\ \A j \in 0 .. N - 1 : R!get_item(t, j) = IF j = r.wptr THEN e ELSE R!get_item(r, j)
  BY <1>1, <1>2, R!PushItem DEF Queued
<1> HIDE DEF t
<1>4. Fits(t, q)
  <2> SUFFICES ASSUME NEW k \in 1 .. Len(q)
               PROVE  IF q[k].req = "pop" THEN PopsTo(q, k - 1) < R!get_size(t)
                      ELSE R!At(t, q[k].id) \in PopsTo(q, k - 1) + 1 .. R!get_size(t)
    BY DEF Fits
  <2>1. IF q[k].req = "pop" THEN PopsTo(q, k - 1) < m
        ELSE R!At(r, q[k].id) \in PopsTo(q, k - 1) + 1 .. m
    BY DEF Fits
  <2>2. R!At(t, q[k].id) = R!At(r, q[k].id)
    BY <1>3
  <2>3. k - 1 \in Nat /\ PopsTo(q, k - 1) \in Nat
    BY PopsStep
  <2> QED
    BY <1>2, <1>3, <2>1, <2>2, <2>3
<1>5. Els(t) = Append(Els(r), e)
  <2>1. /\ Els(t) \in Seq(Elem) /\ Len(Els(t)) = m + 1
        /\ Els(r) \in Seq(Elem) /\ Len(Els(r)) = m
        /\ \A i \in 1 .. m + 1 : Els(t)[i] = R!get_item(t, R!Place(t, i))
        /\ \A i \in 1 .. m : Els(r)[i] = R!get_item(r, R!Place(r, i))
    BY <1>3, ElsAre
  <2>2. ASSUME NEW i \in 1 .. m + 1
        PROVE  Els(t)[i] = IF i = m + 1 THEN e ELSE Els(r)[i]
    <3>1. i \in 1 .. N
      BY <1>2
    <3>2. R!Place(r, i) \in 0 .. N - 1 /\ R!At(r, R!Place(r, i)) = i
      BY <1>2, <3>1, R!AtPlace DEF Queued
    <3>3. r.wptr \in 0 .. N - 1
      BY SlotFacts
    <3>4. R!Place(r, m + 1) = r.wptr
      BY <1>2, <1>3, <3>3, R!PlaceAt DEF Queued
    <3>5. Els(t)[i] = IF R!Place(r, i) = r.wptr THEN e ELSE R!get_item(r, R!Place(r, i))
      BY <1>3, <2>1, <3>2
    <3>6. CASE i = m + 1
      BY <3>4, <3>5, <3>6
    <3>7. CASE i # m + 1
      <4>1. i \in 1 .. m /\ R!Place(r, i) # r.wptr
        BY <1>2, <1>3, <3>2, <3>7
      <4> QED
        BY <2>1, <3>5, <3>7, <4>1
    <3> QED
      BY <3>6, <3>7
  <2> QED
    BY <1>2, <2>1, <2>2
<1>6. Len(ItemsOf(r)) < N /\ ItemsOf(t) = Append(ItemsOf(r), e)
  BY <1>2, <1>3, <1>5, ElsAre, ItemsAre
<1>7. UpdatesOf(t, q) = UpdatesOf(r, q) /\ LeavingOf(t, q) = LeavingOf(r, q)
  BY <1>3, SameSpots
<1> QED
  BY <1>1, <1>3, <1>4, <1>6, <1>7, Zenon

\* An element that is still there when the requests so far have been applied
\* is one that they do not take out.
LEMMA StillThere ==
  ASSUME NEW r \in Queued, NEW q \in Seq(OpenCalls), Fits(r, q), NEW id \in 0 .. N - 1,
         issue_queue!check_id_valid(Last(r, q), id)
  PROVE  R!At(r, id) \in Pops(q) + 1 .. R!get_size(r)
<1> DEFINE s == Last(r, q)
           p == Pops(q)
           m == R!get_size(r)
           j == R!At(s, id)
<1>1. /\ s \in Queued /\ p \in 0 .. m /\ R!get_size(s) = m - p
      /\ \A i \in p + 1 .. m : R!Place(s, i - p) = R!Place(r, i)
  BY LastFits
<1>2. m \in 0 .. N /\ N \in Nat \ {0}
  BY ElsAre, QueueSizeIs
<1>3. R!check_id_valid(s, id)
  BY SameRing
<1> HIDE DEF s, p, m
<1>4. j \in 1 .. N /\ R!Place(s, j) = id /\ j <= R!get_size(s)
  BY <1>1, <1>2, <1>3, R!PlaceAt, R!ValidIs DEF Queued
<1> HIDE DEF j
<1>5. p + j \in p + 1 .. m /\ (p + j) - p = j /\ p + j \in 1 .. N
  BY <1>1, <1>2, <1>4
<1>6. R!Place(r, p + j) = id
  BY <1>1, <1>4, <1>5
<1>7. R!At(r, id) = p + j
  BY <1>2, <1>5, <1>6, R!AtPlace DEF Queued
<1> QED
  BY <1>5, <1>7 DEF p, m

\* A request to replace it becomes a replacement in the list.
LEMMA SetDoes ==
  ASSUME NEW r \in Queued, NEW q \in Seq(OpenCalls), Fits(r, q), NEW id \in 0 .. N - 1, NEW e \in Elem,
         issue_queue!check_id_valid(Last(r, q), id)
  PROVE  LET u == Append(q, issue_queue!SetItem(id, e))
             i == R!At(r, id)
         IN  /\ u \in Seq(OpenCalls) /\ Fits(r, u)
             /\ i \in 1 .. R!get_size(r) /\ i \notin LeavingOf(r, q)
             /\ UpdatesOf(r, u) = [j \in DOMAIN UpdatesOf(r, q) \cup {i} |->
                                     IF j = i THEN e ELSE UpdatesOf(r, q)[j]]
             /\ LeavingOf(r, u) = LeavingOf(r, q)
<1> DEFINE x == issue_queue!SetItem(id, e)
           u == Append(q, x)
           i == R!At(r, id)
           n == Len(q)
           m == R!get_size(r)
<1>1. x \in OpenCalls /\ x.req = "set_item" /\ x.id = id /\ x.item = e /\ x.req # "pop" /\ x.req # "compress"
  BY DEF issue_queue!SetItem, OpenCalls
<1> HIDE DEF x
<1>2. i \in Pops(q) + 1 .. m /\ Pops(q) \in Nat /\ m \in 0 .. N /\ N \in Nat
  BY <1>1, StillThere, PopsSame, ElsAre, QueueSizeIs
<1>3. u \in Seq(OpenCalls) /\ Fits(r, u) /\ Pops(u) = Pops(q)
  BY <1>1, <1>2, FitsAppend, PopsSame
<1>4. i \in 1 .. m /\ i \notin LeavingOf(r, q)
  <2>1. LeavingOf(r, q) = 1 .. Pops(q)
    BY LeavingIs DEF Pops
  <2> HIDE DEF i
  <2> QED
    BY <1>2, <2>1
<1>5. LeavingOf(r, u) = LeavingOf(r, q)
  BY <1>3, LeavingIs, Zenon DEF Pops
<1>6. q \in Seq(Calls) /\ x \in Calls /\ n \in Nat
  BY <1>1 DEF Calls
<1> DEFINE D == RequestsOf(q, "set_item")
<1>7. /\ RequestsOf(u, "set_item") = D \cup {n + 1} /\ u[n + 1] = x
      /\ \A k \in D : u[k] = q[k] /\ k \in 1 .. n
      /\ n + 1 \notin D /\ D \subseteq 1 .. n
  <2>1. RequestsOf(u, "set_item") = D \cup (IF x.req = "set_item" THEN {n + 1} ELSE {})
    BY <1>6, RequestsAppend
  <2>2. u[n + 1] = x /\ \A k \in 1 .. n : u[k] = q[k]
    BY <1>6
  <2>3. D \subseteq 1 .. n /\ n + 1 \notin D
    BY <1>6 DEF RequestsOf
  <2> HIDE DEF u, D
  <2> QED
    BY <1>1, <2>1, <2>2, <2>3
<1>8. SpotOf(r, id) = i
  BY SpotIs
<1> HIDE DEF u, D, i, n
<1>9. SpotsOf(r, u) = SpotsOf(r, q) \cup {i}
  BY <1>1, <1>7, <1>8 DEF SpotsOf, D
<1>10. \A j : SetsOf(r, u, j) = SetsOf(r, q, j) \cup (IF j = i THEN {n + 1} ELSE {})
  BY <1>1, <1>7, <1>8 DEF SetsOf, D
<1>11. \A j : SetsOf(r, q, j) \in SUBSET (1 .. n) /\ SetsOf(r, q, j) \subseteq D
  BY <1>7 DEF SetsOf, D
<1>12. u[issue_queue!Max(SetsOf(r, u, i))].item = e
  <2>1. n + 1 \in Nat /\ n + 1 \in SetsOf(r, u, i) /\ SetsOf(r, u, i) \in SUBSET (1 .. n + 1)
    BY <1>6, <1>10, <1>11
  <2>2. issue_queue!Max(SetsOf(r, u, i)) = n + 1
    BY <2>1, MaxUpTo
  <2> QED
    BY <1>1, <1>7, <2>2
<1>13. ASSUME NEW j \in SpotsOf(r, q), j # i
       PROVE  u[issue_queue!Max(SetsOf(r, u, j))].item = q[issue_queue!Max(SetsOf(r, q, j))].item
  <2>1. SetsOf(r, u, j) = SetsOf(r, q, j)
    BY <1>10, <1>13
  <2>2. SetsOf(r, q, j) # {}
    BY DEF SetsOf, SpotsOf
  <2>3. SetsOf(r, q, j) \in SUBSET (1 .. n)
    BY <1>11
  <2>4. issue_queue!Max(SetsOf(r, q, j)) \in SetsOf(r, q, j)
    BY <1>6, <2>2, <2>3, MaxIn
  <2> QED
    BY <1>7, <1>11, <2>1, <2>4
<1>14. UpdatesOf(r, u) = [j \in SpotsOf(r, q) \cup {i} |-> IF j = i THEN e ELSE UpdatesOf(r, q)[j]]
  <2>1. \A j \in SpotsOf(r, q) : UpdatesOf(r, q)[j] = q[issue_queue!Max(SetsOf(r, q, j))].item
    BY DEF UpdatesOf
  <2>2. \A j \in SpotsOf(r, q) \cup {i} :
           u[issue_queue!Max(SetsOf(r, u, j))].item = IF j = i THEN e ELSE UpdatesOf(r, q)[j]
    BY <1>12, <1>13, <2>1
  <2>3. UpdatesOf(r, u) = [j \in SpotsOf(r, q) \cup {i} |-> u[issue_queue!Max(SetsOf(r, u, j))].item]
    BY <1>9, Zenon DEF UpdatesOf
  <2> QED
    BY <2>2, <2>3
<1>15. DOMAIN UpdatesOf(r, q) = SpotsOf(r, q)
  BY DEF UpdatesOf
<1> QED
  BY <1>3, <1>4, <1>5, <1>14, <1>15, Zenon DEF u, x, i, m

\* A request to remove the oldest is for the next place.
LEMMA PopDoes ==
  ASSUME NEW r \in Queued, NEW q \in Seq(OpenCalls), Fits(r, q), ~issue_queue!is_empty(Last(r, q))
  PROVE  LET u == Append(q, issue_queue!PopFront)
         IN  /\ u \in Seq(OpenCalls) /\ Fits(r, u)
             /\ Pops(q) + 1 \in 1 .. R!get_size(r)
             /\ UpdatesOf(r, u) = UpdatesOf(r, q)
             /\ LeavingOf(r, u) = LeavingOf(r, q) \cup {Pops(q) + 1}
<1> DEFINE x == issue_queue!PopFront
           u == Append(q, x)
           m == R!get_size(r)
           s == Last(r, q)
<1>1. x \in OpenCalls /\ x.req = "pop" /\ x.req # "set_item" /\ x \in Calls /\ q \in Seq(Calls)
  BY DEF issue_queue!PopFront, OpenCalls, Calls
<1>2. m \in 0 .. N /\ N \in Nat \ {0}
  BY ElsAre, QueueSizeIs
<1>3. s \in Queued /\ Pops(q) \in 0 .. m /\ R!get_size(s) = m - Pops(q)
  BY LastFits
<1>4. ~R!is_empty(s)
  BY SameRing
<1> HIDE DEF x, s, m
<1>5. Pops(q) < m
  BY <1>2, <1>3, <1>4, R!SizeIs DEF Queued
<1>6. u \in Seq(OpenCalls) /\ Fits(r, u) /\ Pops(u) = Pops(q) + 1
  BY <1>1, <1>5, FitsAppend, PopsSame DEF m
<1>7. LeavingOf(r, u) = 1 .. Pops(q) + 1 /\ LeavingOf(r, q) = 1 .. Pops(q)
  <2>1. LeavingOf(r, u) = 1 .. Pops(u)
    BY <1>6, LeavingIs, Zenon DEF Pops
  <2>2. LeavingOf(r, q) = 1 .. Pops(q)
    BY LeavingIs, Zenon DEF Pops
  <2> QED
    BY <1>6, <2>1, <2>2, Zenon
<1>8. Pops(q) + 1 \in 1 .. m /\ (1 .. Pops(q) + 1) = (1 .. Pops(q)) \cup {Pops(q) + 1}
  BY <1>2, <1>3, <1>5
<1>9. UpdatesOf(r, u) = UpdatesOf(r, q)
  BY <1>1, UpdatesKept
<1> QED
  BY <1>6, <1>7, <1>8, <1>9, Zenon DEF u, x, m

\* The list of slots for compress, as the places of the queue.
LEMMA ListedNames ==
  ASSUME NEW s \in Queued, issue_queue!Synced = s, NEW places
  PROVE  issue_queue!Listed(places) = Named(s, places, R!get_size(s))
<1> DEFINE g == R!LiveIds(s)
           m == R!get_size(s)
           F == Picks(g, Taken(s, places))
<1>1. g \in Seq(0 .. N - 1) /\ Len(g) = m /\ issue_queue!LiveIds(s) = g /\ m \in Nat
  <2>1. g \in Seq(0 .. N - 1) /\ Len(g) = m
    BY QueueSizeIs, R!LiveIdsIs DEF Queued
  <2>2. m \in 0 .. N /\ N \in Nat
    BY ElsAre, QueueSizeIs
  <2> QED
    BY <2>1, <2>2, SameRing
<1>2. \A k \in 1 .. m : k \in Taken(s, places) <=> g[k] \in places
  BY DEF Taken
<1> HIDE DEF g, m
<1>3. /\ F[0] = << >>
      /\ \A k \in 1 .. m : F[k] = IF k \in Taken(s, places) THEN Append(F[k - 1], g[k]) ELSE F[k - 1]
  BY <1>1, PicksAre
<1>4. \A k \in 1 .. m : F[k] = IF g[k] \in places THEN Append(F[k - 1], g[k]) ELSE F[k - 1]
  BY <1>2, <1>3
<1> HIDE DEF F
<1>5. issue_queue!LiveIds(issue_queue!Synced) = g
  BY <1>1
<1>6. issue_queue!Listed(places) = F[Len(issue_queue!LiveIds(issue_queue!Synced))]
  BY <1>1, <1>3, <1>4, <1>5, ListedIs
<1> QED
  BY <1>1, <1>5, <1>6, Zenon DEF F, Named, g, m

\* The requests of a cycle: those without a compress, or those and one.
Whole(r, q) == q \in Seq(OpenCalls) /\ Fits(r, q)
Asked(r, q) ==
  \E b \in Seq(OpenCalls) : \E places \in SUBSET (0 .. N - 1) :
    /\ Fits(r, b)
    /\ q = Append(b, issue_queue!Compress(Named(Last(r, b), places, R!get_size(Last(r, b)))))
Sound(r, q) == r \in Queued /\ (Whole(r, q) \/ Asked(r, q))

\* The requests are requests of the three kinds (issue_queue.h:11-16).
LEMMA RequestsTyped ==
  ASSUME NEW r, NEW q, Sound(r, q)
  PROVE  q \in Seq(Calls)
<1>1. CASE Whole(r, q)
  <2>1. OpenCalls \subseteq Calls
    BY DEF Calls
  <2> HIDE DEF Calls
  <2> QED
    BY <1>1, <2>1 DEF Whole
<1>2. CASE Asked(r, q)
  <2>1. PICK b \in Seq(OpenCalls), places \in SUBSET (0 .. N - 1) :
          Fits(r, b) /\ q = Append(b, issue_queue!Compress(Named(Last(r, b), places, R!get_size(Last(r, b)))))
    BY <1>2 DEF Asked
  <2> DEFINE ids == Named(Last(r, b), places, R!get_size(Last(r, b)))
  <2>2. ids \in Seq(0 .. N - 1)
    BY <2>1, OutIs DEF Sound
  <2> HIDE DEF ids
  <2>3. issue_queue!Compress(ids) \in Calls /\ b \in Seq(Calls)
    BY <2>2 DEF issue_queue!Compress, Calls
  <2>4. Append(b, issue_queue!Compress(ids)) \in Seq(Calls)
    BY <2>3
  <2> QED
    BY <2>1, <2>4 DEF ids
<1> QED
  BY <1>1, <1>2 DEF Sound

\* As long as requests may come there is no compress among them.
LEMMA OpenIsWhole ==
  ASSUME Sound(ring, sync_request_q), issue_queue!Open
  PROVE  /\ ring \in Queued /\ sync_request_q \in Seq(OpenCalls) /\ Fits(ring, sync_request_q)
         /\ issue_queue!Synced = Last(ring, sync_request_q) /\ Last(ring, sync_request_q) \in Queued
<1> DEFINE q == sync_request_q
           r == ring
<1>1. ~Asked(r, q)
  <2> SUFFICES ASSUME Asked(r, q) PROVE FALSE
    OBVIOUS
  <2>1. PICK b \in Seq(OpenCalls), places \in SUBSET (0 .. N - 1) :
          Fits(r, b) /\ q = Append(b, issue_queue!Compress(Named(Last(r, b), places, R!get_size(Last(r, b)))))
    BY DEF Asked
  <2> DEFINE x == issue_queue!Compress(Named(Last(r, b), places, R!get_size(Last(r, b))))
  <2>2. x.req = "compress"
    BY DEF issue_queue!Compress
  <2> HIDE DEF x
  <2>3. Len(b) + 1 \in DOMAIN Append(b, x) /\ Append(b, x)[Len(b) + 1] = x
    OBVIOUS
  <2>4. Len(b) + 1 \in DOMAIN q /\ q[Len(b) + 1].req = "compress"
    BY <2>1, <2>2, <2>3 DEF x
  <2> QED
    BY <2>4 DEF issue_queue!Open
<1>2. r \in Queued /\ q \in Seq(OpenCalls) /\ Fits(r, q)
  BY <1>1 DEF Sound, Whole
<1>3. issue_queue!Synced = Last(r, q)
  BY <1>2, SyncedIs, Zenon DEF Last
<1>4. Last(r, q) \in Queued
  BY <1>2, LastFits
<1> QED
  BY <1>2, <1>3, <1>4

\* What sync leaves is the list without what was to leave.
LEMMA SyncDoes ==
  ASSUME Sound(ring, sync_request_q)
  PROVE  /\ issue_queue!Synced \in Queued
         /\ ItemsOf(issue_queue!Synced) = issue_queue!L!Without(Replaced(ring, sync_request_q), LeavingOf(ring, sync_request_q))
<1> DEFINE q == sync_request_q
           r == ring
<1>1. r \in Queued /\ q \in Seq(Calls)
  BY RequestsTyped DEF Sound
<1>2. issue_queue!Synced = Last(r, q)
  BY <1>1, SyncedIs, Zenon DEF Last
<1>3. CASE Whole(r, q)
  <2>1. Last(r, q) \in Queued
    BY <1>1, <1>3, LastFits DEF Whole
  <2>2. issue_queue!L!Without(Replaced(r, q), OutOf(r, q, {})) = Rest(Last(r, q), {}, R!get_size(Last(r, q)))
    BY <1>1, <1>3, Closes DEF Whole
  <2>3. Rest(Last(r, q), {}, R!get_size(Last(r, q))) = Els(Last(r, q)) /\ Taken(Last(r, q), {}) = {}
    BY <2>1, NoneTaken
  <2>4. OutOf(r, q, {}) = LeavingOf(r, q)
    <3>1. LeavingOf(r, q) = 1 .. Pops(q)
      BY <1>3, LeavingIs DEF Whole, Pops
    <3>2. OutOf(r, q, {}) = 1 .. Pops(q) \cup {Pops(q) + j : j \in {}}
      BY <2>3, Zenon DEF OutOf
    <3> QED
      BY <3>1, <3>2
  <2>5. ItemsOf(Last(r, q)) = Els(Last(r, q))
    BY <2>1, ItemsAre
  <2> QED
    BY <1>2, <2>1, <2>2, <2>3, <2>4, <2>5, Zenon
<1>4. CASE Asked(r, q)
  <2>1. PICK b \in Seq(OpenCalls), places \in SUBSET (0 .. N - 1) :
          Fits(r, b) /\ q = Append(b, issue_queue!Compress(Named(Last(r, b), places, R!get_size(Last(r, b)))))
    BY <1>4 DEF Asked
  <2> DEFINE s == Last(r, b)
             ids == Named(s, places, R!get_size(s))
             x == issue_queue!Compress(ids)
  <2>2. s \in Queued /\ ids \in Seq(0 .. N - 1) /\ LeavingOf(r, q) = OutOf(r, b, places)
    BY <1>1, <2>1, LastFits, OutIs
  <2>3. Last(r, q) = issue_queue!compress(s, ids)
    <3>1. x \in Calls /\ b \in Seq(Calls) /\ Len(q) = Len(b) + 1 /\ q = Append(b, x)
      <4> HIDE DEF ids
      <4>1. x \in Calls /\ b \in Seq(Calls)
        BY <2>2 DEF issue_queue!Compress, Calls
      <4> HIDE DEF x
      <4>2. Len(Append(b, x)) = Len(b) + 1
        BY <4>1
      <4>3. q = Append(b, x)
        BY <2>1, Zenon DEF x, ids
      <4> QED
        BY <4>1, <4>2, <4>3
    <3>2. Stages(r, Append(b, x))[Len(b) + 1] = issue_queue!Apply(Stages(r, b)[Len(b)], x)
      BY <3>1, StagesAppend
    <3>3. issue_queue!Apply(s, x) = issue_queue!compress(s, ids)
      <4> HIDE DEF s, ids
      <4> QED
        BY DEF issue_queue!Apply, issue_queue!Compress
    <3> QED
      BY <3>1, <3>2, <3>3, Zenon DEF Last
  <2>4. issue_queue!compress(s, ids) \in Queued /\ Els(issue_queue!compress(s, ids)) = Rest(s, places, R!get_size(s))
    BY <2>2, CompressDoes
  <2>5. issue_queue!L!Without(Replaced(r, b), OutOf(r, b, places)) = Rest(s, places, R!get_size(s))
    BY <1>1, <2>1, Closes
  <2>6. Replaced(r, q) = Replaced(r, b)
    <3> HIDE DEF ids
    <3>1. x \in Calls /\ b \in Seq(Calls) /\ x.req # "set_item"
      BY <2>2 DEF issue_queue!Compress, Calls
    <3>2. UpdatesOf(r, Append(b, x)) = UpdatesOf(r, b)
      BY <3>1, UpdatesKept
    <3>3. q = Append(b, x)
      BY <2>1, Zenon DEF x, ids, s
    <3> QED
      BY <3>2, <3>3, Zenon DEF Replaced
  <2>7. ItemsOf(issue_queue!compress(s, ids)) = Els(issue_queue!compress(s, ids))
    BY <2>4, ItemsAre
  <2> HIDE DEF s, ids
  <2> QED
    BY <1>2, <2>2, <2>3, <2>4, <2>5, <2>6, <2>7, Zenon
<1> QED
  BY <1>3, <1>4 DEF Sound

\* The state of the list, in the terms used here.
LEMMA ListState ==
  /\ issue_queue!Elements = ItemsOf(ring) /\ issue_queue!Updates = UpdatesOf(ring, sync_request_q)
  /\ issue_queue!Leaving = LeavingOf(ring, sync_request_q)
BY Zenon DEF issue_queue!Elements, issue_queue!Updates, issue_queue!Leaving, ItemsOf, UpdatesOf, LeavingOf, issue_queue!Requested, RequestsOf,
     issue_queue!Place, SpotOf, SpotsOf, SetsOf, N

\* So it is in the next state.
LEMMA ListStateNext ==
  /\ issue_queue!Elements' = ItemsOf(ring') /\ issue_queue!Updates' = UpdatesOf(ring', sync_request_q')
  /\ issue_queue!Leaving' = LeavingOf(ring', sync_request_q')
BY Zenon DEF issue_queue!Elements, issue_queue!Updates, issue_queue!Leaving, ItemsOf, UpdatesOf, LeavingOf, issue_queue!Requested, RequestsOf,
     issue_queue!Place, SpotOf, SpotsOf, SetsOf, N

\* A ring that starts as empty holds nothing.
LEMMA EmptyList ==
  ASSUME NEW r \in Queued, R!get_size(r) = 0
  PROVE  ItemsOf(r) = << >>
<1>1. Els(r) \in Seq(Elem) /\ Len(Els(r)) = 0
  BY ElsAre
<1> QED
  BY <1>1, ItemsAre

\* The constructor leaves an empty queue without requests, which is an empty list
\* (issue_queue.h:53-62).
LEMMA StartsSound ==
  ASSUME issue_queue!Init
  PROVE  Sound(ring, sync_request_q) /\ issue_queue!L!Init
<1>1. ring = R!empty_ring(N) /\ sync_request_q = << >>
  BY SameRing DEF issue_queue!Init, N
<1>2. ring \in Queued /\ R!get_size(ring) = 0
  BY <1>1, QueueSizeIs, R!EmptyRing DEF Queued
<1>3. << >> \in Seq(OpenCalls) /\ Fits(ring, << >>)
  BY DEF Fits
<1>4. Sound(ring, sync_request_q)
  BY <1>1, <1>2, <1>3, Zenon DEF Sound, Whole
<1>5. issue_queue!Elements = << >> /\ issue_queue!Updates = << >> /\ issue_queue!Leaving = {}
  BY <1>1, <1>2, EmptyList, NothingAsked, ListState, Zenon
<1> QED
  BY <1>4, <1>5, Zenon DEF issue_queue!L!Init

\* push appends to the list (fifo.h:76-92).
LEMMA PushStep ==
  ASSUME Sound(ring, sync_request_q), NEW e \in Elem, issue_queue!Push(e)
  PROVE  Sound(ring', sync_request_q') /\ issue_queue!L!Add(e)
<1> DEFINE r == ring
           q == sync_request_q
<1>1. issue_queue!Open /\ ~issue_queue!is_full(r) /\ ring' = issue_queue!push(r, e) /\ sync_request_q' = q
  BY Zenon DEF issue_queue!Push
<1>2. r \in Queued /\ q \in Seq(OpenCalls) /\ Fits(r, q)
  BY <1>1, OpenIsWhole
<1>3. /\ ring' \in Queued /\ Fits(ring', q) /\ Len(ItemsOf(r)) < N
      /\ ItemsOf(ring') = Append(ItemsOf(r), e)
      /\ UpdatesOf(ring', q) = UpdatesOf(r, q) /\ LeavingOf(ring', q) = LeavingOf(r, q)
  BY <1>1, <1>2, PushDoes, Zenon
<1>4. Sound(ring', sync_request_q')
  BY <1>1, <1>2, <1>3, Zenon DEF Sound, Whole
<1>5. /\ Len(issue_queue!Elements) < N /\ issue_queue!Elements' = Append(issue_queue!Elements, e)
      /\ issue_queue!Updates' = issue_queue!Updates /\ issue_queue!Leaving' = issue_queue!Leaving
  BY <1>1, <1>3, ListState, ListStateNext, Zenon
<1> QED
  BY <1>4, <1>5, Zenon DEF issue_queue!L!Add, N

\* set_item_sync notes a replacement (issue_queue.h:81-89).
LEMMA SetStep ==
  ASSUME Sound(ring, sync_request_q), NEW id \in 0 .. N - 1, NEW e \in Elem, issue_queue!SetItemSync(id, e)
  PROVE  Sound(ring', sync_request_q') /\ \E i \in DOMAIN issue_queue!Elements : issue_queue!L!Update(i, e)
<1> DEFINE r == ring
           q == sync_request_q
           i == R!At(r, id)
           u == Append(q, issue_queue!SetItem(id, e))
<1>1. issue_queue!Open /\ issue_queue!check_id_valid(issue_queue!Synced, id) /\ ring' = r /\ sync_request_q' = u
  BY Zenon DEF issue_queue!SetItemSync, issue_queue!Request
<1>2. r \in Queued /\ q \in Seq(OpenCalls) /\ Fits(r, q) /\ issue_queue!Synced = Last(r, q)
  BY <1>1, OpenIsWhole
<1>3. /\ u \in Seq(OpenCalls) /\ Fits(r, u)
      /\ i \in 1 .. R!get_size(r) /\ i \notin LeavingOf(r, q)
      /\ UpdatesOf(r, u) = [j \in DOMAIN UpdatesOf(r, q) \cup {i} |->
                              IF j = i THEN e ELSE UpdatesOf(r, q)[j]]
      /\ LeavingOf(r, u) = LeavingOf(r, q)
  BY <1>1, <1>2, SetDoes
<1> HIDE DEF i, u
<1>4. Sound(ring', sync_request_q')
  BY <1>1, <1>2, <1>3, Zenon DEF Sound, Whole
<1>5. i \in DOMAIN issue_queue!Elements
  <2>1. DOMAIN ItemsOf(r) = 1 .. R!get_size(r)
    BY <1>2, ItemsAre
  <2> QED
    BY <1>3, <2>1, ListState, Zenon
<1>6. /\ i \notin issue_queue!Leaving /\ issue_queue!Elements' = issue_queue!Elements /\ issue_queue!Leaving' = issue_queue!Leaving
      /\ issue_queue!Updates' = [j \in DOMAIN issue_queue!Updates \cup {i} |-> IF j = i THEN e ELSE issue_queue!Updates[j]]
  BY <1>1, <1>3, ListState, ListStateNext, Zenon
<1>7. issue_queue!L!Update(i, e)
  BY <1>6, Zenon DEF issue_queue!L!Update
<1> QED
  BY <1>4, <1>5, <1>7, Zenon

\* pop_sync notes the oldest one (issue_queue.h:182-188).
LEMMA PopStep ==
  ASSUME Sound(ring, sync_request_q), issue_queue!PopSync
  PROVE  Sound(ring', sync_request_q') /\ \E places \in SUBSET DOMAIN issue_queue!Elements : issue_queue!L!TakeOut(places)
<1> DEFINE r == ring
           q == sync_request_q
           i == Pops(q) + 1
           u == Append(q, issue_queue!PopFront)
<1>1. issue_queue!Open /\ ~issue_queue!is_empty(issue_queue!Synced) /\ ring' = r /\ sync_request_q' = u
  BY Zenon DEF issue_queue!PopSync, issue_queue!Request
<1>2. r \in Queued /\ q \in Seq(OpenCalls) /\ Fits(r, q) /\ issue_queue!Synced = Last(r, q)
  BY <1>1, OpenIsWhole
<1>3. /\ u \in Seq(OpenCalls) /\ Fits(r, u) /\ i \in 1 .. R!get_size(r)
      /\ UpdatesOf(r, u) = UpdatesOf(r, q)
      /\ LeavingOf(r, u) = LeavingOf(r, q) \cup {i}
  <2>1. ~issue_queue!is_empty(Last(r, q))
    BY <1>1, <1>2, Zenon
  <2> QED
    BY <1>2, <2>1, PopDoes, Zenon
<1> HIDE DEF i, u
<1>4. Sound(ring', sync_request_q')
  BY <1>1, <1>2, <1>3, Zenon DEF Sound, Whole
<1>5. {i} \in SUBSET DOMAIN issue_queue!Elements
  <2>1. DOMAIN ItemsOf(r) = 1 .. R!get_size(r)
    BY <1>2, ItemsAre
  <2>2. DOMAIN issue_queue!Elements = 1 .. R!get_size(r)
    BY <2>1, ListState, Zenon
  <2> QED
    BY <1>3, <2>2, Zenon
<1>6. issue_queue!Elements' = issue_queue!Elements /\ issue_queue!Updates' = issue_queue!Updates /\ issue_queue!Leaving' = issue_queue!Leaving \cup {i}
  BY <1>1, <1>3, ListState, ListStateNext, Zenon
<1>7. issue_queue!L!TakeOut({i})
  BY <1>6, Zenon DEF issue_queue!L!TakeOut
<1> QED
  BY <1>4, <1>5, <1>7, Zenon

\* compress_sync notes what its list names (issue_queue.h:173-180).
LEMMA CompressStep ==
  ASSUME Sound(ring, sync_request_q), NEW places \in SUBSET (0 .. N - 1), issue_queue!CompressSync(places)
  PROVE  Sound(ring', sync_request_q') /\ \E out \in SUBSET DOMAIN issue_queue!Elements : issue_queue!L!TakeOut(out)
<1> DEFINE r == ring
           q == sync_request_q
           s == Last(r, q)
           x == issue_queue!Compress(Named(s, places, R!get_size(s)))
           u == Append(q, x)
           out == OutOf(r, q, places)
<1>1. issue_queue!Open /\ ring' = r /\ sync_request_q' = Append(q, issue_queue!Compress(issue_queue!Listed(places)))
  BY Zenon DEF issue_queue!CompressSync, issue_queue!Request
<1>2. r \in Queued /\ q \in Seq(OpenCalls) /\ Fits(r, q) /\ issue_queue!Synced = s /\ s \in Queued
  BY <1>1, OpenIsWhole
<1>3. sync_request_q' = u
  BY <1>1, <1>2, ListedNames, Zenon
<1>4. /\ LeavingOf(r, u) = out /\ out \subseteq 1 .. R!get_size(r)
      /\ Named(s, places, R!get_size(s)) \in Seq(0 .. N - 1)
  BY <1>2, OutIs, Zenon
<1>5. UpdatesOf(r, u) = UpdatesOf(r, q)
  <2> DEFINE ids == Named(s, places, R!get_size(s))
  <2> HIDE DEF ids
  <2>1. issue_queue!Compress(ids) \in Calls /\ issue_queue!Compress(ids).req # "set_item" /\ q \in Seq(Calls)
    <3>1. ids \in Seq(0 .. N - 1)
      BY <1>4 DEF ids
    <3> QED
      BY <1>2, <3>1 DEF issue_queue!Compress, Calls
  <2>2. UpdatesOf(r, Append(q, issue_queue!Compress(ids))) = UpdatesOf(r, q)
    BY <2>1, UpdatesKept
  <2> QED
    BY <2>2, Zenon DEF ids
<1>6. Asked(r, u)
  BY <1>2, Zenon DEF Asked
<1>7. out = LeavingOf(r, q) \cup out
  <2>1. LeavingOf(r, q) = 1 .. Pops(q)
    BY <1>2, LeavingIs DEF Pops
  <2> QED
    BY <2>1 DEF OutOf
<1> HIDE DEF s, x, u, out
<1>8. Sound(ring', sync_request_q')
  BY <1>1, <1>2, <1>3, <1>6, Zenon DEF Sound
<1>9. out \in SUBSET DOMAIN issue_queue!Elements
  <2>1. DOMAIN ItemsOf(r) = 1 .. R!get_size(r)
    BY <1>2, ItemsAre
  <2>2. DOMAIN issue_queue!Elements = 1 .. R!get_size(r)
    BY <2>1, ListState, Zenon
  <2> QED
    BY <1>4, <2>2, Zenon
<1>10. issue_queue!Elements' = issue_queue!Elements /\ issue_queue!Updates' = issue_queue!Updates /\ issue_queue!Leaving' = issue_queue!Leaving \cup out
  BY <1>1, <1>3, <1>4, <1>5, <1>7, ListState, ListStateNext, Zenon
<1>11. issue_queue!L!TakeOut(out)
  BY <1>10, Zenon DEF issue_queue!L!TakeOut
<1> QED
  BY <1>8, <1>9, <1>11, Zenon

\* sync applies what was noted (issue_queue.h:190-213).
LEMMA SyncStep ==
  ASSUME Sound(ring, sync_request_q), issue_queue!Sync
  PROVE  Sound(ring', sync_request_q') /\ issue_queue!L!Settle
<1>1. ring' = issue_queue!Synced /\ sync_request_q' = << >>
  BY Zenon DEF issue_queue!Sync
<1>2. /\ ring' \in Queued
      /\ ItemsOf(ring') = issue_queue!L!Without(Replaced(ring, sync_request_q), LeavingOf(ring, sync_request_q))
  BY <1>1, SyncDoes, Zenon
<1>3. << >> \in Seq(OpenCalls) /\ Fits(ring', << >>)
  BY DEF Fits
<1>4. Sound(ring', sync_request_q')
  BY <1>1, <1>2, <1>3, Zenon DEF Sound, Whole
<1>5. issue_queue!Updates' = << >> /\ issue_queue!Leaving' = {}
  BY <1>1, NothingAsked, ListStateNext, Zenon
<1>6. Replaced(ring, sync_request_q) = [i \in DOMAIN issue_queue!Elements |->
                        IF i \in DOMAIN issue_queue!Updates THEN issue_queue!Updates[i] ELSE issue_queue!Elements[i]]
  BY ListState, Zenon DEF Replaced
<1>7. issue_queue!Elements' = issue_queue!L!Without([i \in DOMAIN issue_queue!Elements |->
                        IF i \in DOMAIN issue_queue!Updates THEN issue_queue!Updates[i] ELSE issue_queue!Elements[i]], issue_queue!Leaving)
  BY <1>2, <1>6, ListState, ListStateNext, Zenon
<1> QED
  BY <1>4, <1>5, <1>7, Zenon DEF issue_queue!L!Settle

\* flush empties the list (fifo.h:67-73).
LEMMA FlushStep ==
  ASSUME Sound(ring, sync_request_q), issue_queue!Flush
  PROVE  Sound(ring', sync_request_q') /\ issue_queue!L!Clear
<1>1. sync_request_q = << >> /\ ring' = R!flush(ring) /\ sync_request_q' = << >>
  BY SameRing DEF issue_queue!Flush
<1>2. ring' \in Queued /\ R!get_size(ring') = 0
  BY <1>1, QueueSizeIs, R!FlushRing DEF Sound, Queued
<1>3. << >> \in Seq(OpenCalls) /\ Fits(ring', << >>)
  BY DEF Fits
<1>4. Sound(ring', sync_request_q')
  BY <1>1, <1>2, <1>3, Zenon DEF Sound, Whole
<1>5. issue_queue!Elements' = << >> /\ issue_queue!Updates' = issue_queue!Updates /\ issue_queue!Leaving' = issue_queue!Leaving
  BY <1>1, <1>2, EmptyList, NothingAsked, ListState, ListStateNext, Zenon
<1> QED
  BY <1>4, <1>5, Zenon DEF issue_queue!L!Clear

\* Every step of the queue is one of the list.
LEMMA QueueStep ==
  ASSUME Sound(ring, sync_request_q), issue_queue!Next
  PROVE  Sound(ring', sync_request_q') /\ issue_queue!L!Next
<1>1. CASE \E e \in Elem : issue_queue!Push(e)
  BY <1>1, PushStep, Zenon DEF issue_queue!L!Next
<1>2. CASE \E id \in 0 .. QueueSize - 1, e \in Elem : issue_queue!SetItemSync(id, e)
  BY <1>2, SetStep, Zenon DEF issue_queue!L!Next, N
<1>3. CASE issue_queue!PopSync
  BY <1>3, PopStep, Zenon DEF issue_queue!L!Next
<1>4. CASE \E places \in SUBSET (0 .. QueueSize - 1) : issue_queue!CompressSync(places)
  BY <1>4, CompressStep, Zenon DEF issue_queue!L!Next, N
<1>5. CASE issue_queue!Sync
  BY <1>5, SyncStep, Zenon DEF issue_queue!L!Next
<1>6. CASE issue_queue!Flush
  BY <1>6, FlushStep, Zenon DEF issue_queue!L!Next
<1> QED
  BY <1>1, <1>2, <1>3, <1>4, <1>5, <1>6, Zenon DEF issue_queue!Next

\* While the queue rests the list does.
LEMMA QueueRests ==
  ASSUME UNCHANGED queue
  PROVE  UNCHANGED issue_queue!L!vars /\ (Sound(ring, sync_request_q) => Sound(ring', sync_request_q'))
<1>1. ring' = ring /\ sync_request_q' = sync_request_q
  BY DEF queue
<1>2. issue_queue!Elements' = issue_queue!Elements /\ issue_queue!Updates' = issue_queue!Updates /\ issue_queue!Leaving' = issue_queue!Leaving
  BY <1>1, ListState, ListStateNext, Zenon
<1> QED
  BY <1>1, <1>2, Zenon DEF issue_queue!L!vars

\* In every state of the queue each request of the cycle names an element that is there when
\* the request is applied, and a compress comes last and names slots in queue order: what
\* set_item asserts of the slots that sync gives it (issue_queue.h:75-79, 190-213).
THEOREM RequestsAlwaysFit == issue_queue!Spec => []Sound(ring, sync_request_q)
<1>1. issue_queue!Init => Sound(ring, sync_request_q)
  BY StartsSound, Zenon
<1>2. Sound(ring, sync_request_q) /\ [issue_queue!Next]_issue_queue!vars => Sound(ring, sync_request_q)'
  <2>1. ASSUME Sound(ring, sync_request_q), UNCHANGED issue_queue!vars
        PROVE  Sound(ring', sync_request_q')
    <3>1. UNCHANGED queue
      BY <2>1 DEF queue, issue_queue!vars
    <3> QED
      BY <2>1, <3>1, QueueRests, Zenon
  <2> QED
    BY <2>1, QueueStep, Zenon
<1> QED
  BY <1>1, <1>2, PTL DEF issue_queue!Spec

\* The issue queue by itself implements the list (issue_queue.h:81-213).
THEOREM QueueImplementsList == issue_queue!Spec => ImplementsList
<1> DEFINE I == Sound(ring, sync_request_q)
<1>1. issue_queue!Init => I /\ issue_queue!L!Init
  BY StartsSound, Zenon
<1>2. I /\ [issue_queue!Next]_issue_queue!vars => I' /\ [issue_queue!L!Next]_issue_queue!L!vars
  <2> SUFFICES ASSUME I, [issue_queue!Next]_issue_queue!vars
               PROVE  I' /\ [issue_queue!L!Next]_issue_queue!L!vars
    OBVIOUS
  <2>1. CASE UNCHANGED issue_queue!vars
    <3>1. UNCHANGED queue
      BY <2>1 DEF queue, issue_queue!vars
    <3> QED
      BY <3>1, QueueRests, Zenon
  <2>2. CASE issue_queue!Next
    BY <2>2, QueueStep, Zenon
  <2> QED
    BY <2>1, <2>2, Zenon
<1> QED
  BY <1>1, <1>2, PTL DEF issue_queue!Spec, ImplementsList, issue_queue!ImplementsList, issue_queue!L!Spec

\* The issue queue with the requests of a cycle is the list it promises to be, for every
\* number of slots, every kind of element and every bound on the requests: pushes append,
\* requests take effect together at the end of the cycle, and compress keeps what stays in
\* its order (issue_queue.h:81-213).
THEOREM IssueBufferRefines == QueuesSpec => ImplementsList
<1> DEFINE I == Sound(ring, sync_request_q)
<1>1. QueuesInit => I /\ issue_queue!L!Init
  BY StartsSound, Zenon DEF QueuesInit
<1>2. I /\ [QueuesNext]_<<vars, queue>> => I' /\ [issue_queue!L!Next]_issue_queue!L!vars
  <2> SUFFICES ASSUME I, [QueuesNext]_<<vars, queue>>
               PROVE  I' /\ [issue_queue!L!Next]_issue_queue!L!vars
    OBVIOUS
  <2>1. CASE UNCHANGED queue
    BY <2>1, QueueRests, Zenon
  <2>2. CASE issue_queue!Next
    BY <2>2, QueueStep, Zenon
  <2>3. UNCHANGED queue \/ issue_queue!Next
    BY Zenon DEF QueuesNext
  <2> QED
    BY <2>1, <2>2, <2>3, Zenon
<1> QED
  BY <1>1, <1>2, PTL DEF QueuesSpec, ImplementsList, issue_queue!ImplementsList, issue_queue!L!Spec
=============================================================================
