----------------------------- MODULE IssueBuffer -----------------------------
(***************************************************************************)
(* component/issue_queue.h: a ring from which the issue stage takes        *)
(* elements out of order.  What leaves is named by slot in a list;         *)
(* compress moves what stays over the holes and pulls the write pointer    *)
(* back.  The requests of a cycle (set_item_sync, pop_sync, compress_sync) *)
(* are applied by sync at its end, after pushes that took effect at once.  *)
(***************************************************************************)
EXTENDS Ring, FiniteSets, SequencesExt

CONSTANTS
  Elem,         \* the template parameter T
  Size,         \* the constructor's parameter
  MAX_REQUESTS  \* bound on the requests of one cycle

VARIABLES ring, sync_request_q

vars == <<ring, sync_request_q>>

SetItem(id, e) == [req |-> "set_item", id |-> id, item |-> e]
Compress(ids)  == [req |-> "compress", item_id_list |-> ids]
PopFront       == [req |-> "pop"]

get_next_id(r, id) == (id + 1) % SizeOf(r)

\* Mutant: the stage of the write pointer does not follow it around the end.
MutantStageLeftBehind(r, id, wrapped) == wrapped

get_next_stage(r, id, wrapped) == (id + 1 >= SizeOf(r)) # wrapped

-----------------------------------------------------------------------------
(* compress: cur_id visits the elements from the oldest one on, i counts   *)
(* the slots of the list that were met.  Nothing moves before the first of *)
(* them; from then on next_id is the hole that the next element to stay    *)
(* moves into, and the new write pointer.                                  *)

\* Mutant: the first slot of the list is found, the others are not skipped.
MutantKeepsLater(r, ids, at) ==
  IF at.found
  THEN [at EXCEPT !.r = set_item(@, at.next, get_item(@, at.cur)),
                  !.next = get_next_id(r, at.next),
                  !.wrapped = get_next_stage(r, at.next, @)]
  ELSE IF at.i < Len(ids) /\ at.cur = ids[at.i + 1]
       THEN [at EXCEPT !.found = TRUE, !.i = @ + 1, !.next = at.cur, !.wrapped = at.stage]
       ELSE at

Visit(r, ids, at) ==
  LET listed == at.i < Len(ids) /\ at.cur = ids[at.i + 1]
  IN  CASE ~at.found /\ ~listed -> at
        [] ~at.found /\ listed  ->
             [at EXCEPT !.found = TRUE, !.i = @ + 1, !.next = at.cur, !.wrapped = at.stage]
        [] at.found /\ listed   -> [at EXCEPT !.i = @ + 1]
        [] at.found /\ ~listed  ->
             [at EXCEPT !.r = set_item(@, at.next, get_item(@, at.cur)),
                        !.next = get_next_id(r, at.next),
                        !.wrapped = get_next_stage(r, at.next, @)]

\* On to the next element, until there is none or the ring has been round.
Advance(r, at) ==
  LET id == get_next_id(r, at.cur)
  IN  [at EXCEPT !.cur = id, !.stage = get_next_stage(r, at.cur, @),
                 !.done = ~check_id_valid(r, id) \/ id = r.rptr]

compress(r, ids) ==
  LET start == [r |-> r, i |-> 0, found |-> FALSE, next |-> r.rptr, wrapped |-> FALSE,
                cur |-> r.rptr, stage |-> FALSE, done |-> FALSE]
      end == FoldLeft(LAMBDA at, n : IF at.done THEN at ELSE Advance(r, Visit(r, ids, at)),
                      start, [n \in 1 .. SizeOf(r) |-> n])
  IN  IF ids = << >> \/ is_empty(r) THEN r
      ELSE [end.r EXCEPT !.wptr = end.next, !.wrapped = end.wrapped]

-----------------------------------------------------------------------------

Apply(r, q) ==
  CASE q.req = "set_item" -> set_item(r, q.id, q.item)
    [] q.req = "pop"      -> pop(r)
    [] q.req = "compress" -> compress(r, q.item_id_list)

Synced == FoldLeft(Apply, ring, sync_request_q)

\* compress_sync is the last request of a cycle (issue.cpp:1619-1620).
Open == \A i \in DOMAIN sync_request_q : sync_request_q[i].req # "compress"

Init ==
  /\ ring = empty_ring(Size)
  /\ sync_request_q = << >>

Push(e) ==
  /\ Open
  /\ ~is_full(ring)
  /\ ring' = push(ring, e)
  /\ UNCHANGED sync_request_q

\* A request names an element that is still there when it is applied.
Request(q) ==
  /\ Open
  /\ Len(sync_request_q) < MAX_REQUESTS
  /\ sync_request_q' = Append(sync_request_q, q)
  /\ UNCHANGED ring

SetItemSync(id, e) == check_id_valid(Synced, id) /\ Request(SetItem(id, e))

PopSync == ~is_empty(Synced) /\ Request(PopFront)

\* The list names slots in the order in which the elements are queued.
Listed(places) ==
  FoldLeft(LAMBDA ids, id : IF id \in places THEN Append(ids, id) ELSE ids,
           << >>, LiveIds(Synced))

CompressSync(places) == Request(Compress(Listed(places)))

Sync ==
  /\ sync_request_q # << >>
  /\ ring' = Synced
  /\ sync_request_q' = << >>

\* Requests that are pending when the queue is flushed would still be
\* applied; issue.cpp flushes in cycles in which it makes none.
Flush ==
  /\ sync_request_q = << >>
  /\ ring' = flush(ring)
  /\ UNCHANGED sync_request_q

Next ==
  \/ \E e \in Elem : Push(e)
  \/ \E id \in 0 .. Size - 1, e \in Elem : SetItemSync(id, e)
  \/ PopSync
  \/ \E places \in SUBSET (0 .. Size - 1) : CompressSync(places)
  \/ Sync
  \/ Flush

Spec == Init /\ [][Next]_vars

-----------------------------------------------------------------------------

\* Slots hold elements and the pointers are in range.
TypeOK ==
  /\ ring.rptr \in 0 .. Size - 1 /\ ring.wptr \in 0 .. Size - 1
  /\ ring.wrapped \in BOOLEAN
  /\ \A i \in 1 .. Size : ring.slots[i] \in Elem \cup {Dead}
  /\ Len(sync_request_q) <= MAX_REQUESTS

Elements == LET ids == LiveIds(ring) IN [i \in DOMAIN ids |-> get_item(ring, ids[i])]

Place(id) == 1 + ((id + Size - ring.rptr) % Size)

Requested(req) == {k \in DOMAIN sync_request_q : sync_request_q[k].req = req}

\* The last request for a slot prevails.
Updates ==
  LET Sets(i) == {k \in Requested("set_item") : Place(sync_request_q[k].id) = i}
  IN  [i \in {Place(sync_request_q[k].id) : k \in Requested("set_item")} |->
         sync_request_q[Max(Sets(i))].item]

Leaving ==
  1 .. Cardinality(Requested("pop"))
    \cup UNION {{Place(id) : id \in ToSet(sync_request_q[k].item_id_list)} :
                  k \in Requested("compress")}

L == INSTANCE IssueList WITH list <- Elements, updates <- Updates, leaving <- Leaving

(***************************************************************************)
(* The ring implements the list: set_item, push and compress of one cycle  *)
(* together, in the order in which sync applies them, take out what the    *)
(* list of slots names, lose and repeat nothing, and keep the rest in      *)
(* program order (issue_queue.h:126-171, 190-212).                         *)
(***************************************************************************)
ImplementsList == L!Spec

=============================================================================
