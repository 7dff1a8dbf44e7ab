----------------------------- MODULE RingProofs -----------------------------
(***************************************************************************)
(* What the operations of a ring (Ring) do to the queue it holds: the      *)
(* places of the queue are numbered from 1, the oldest, and each has an    *)
(* identifier.                                                             *)
(***************************************************************************)
EXTENDS Ring, FiniteSetTheorems, WellFoundedInduction, TLAPS

-----------------------------------------------------------------------------
(* Induction over the numbers, in a form that can be used without an       *)
(* operator as a parameter: what is shown for every number is that it      *)
(* belongs to a set.                                                       *)

\* A set that has 0, and with a number the next one, has all of them.
LEMMA NatInd ==
  ASSUME NEW S, 0 \in S, \A n \in Nat : n \in S => n + 1 \in S
  PROVE  Nat \subseteq S
<1> SUFFICES ASSUME NEW k \in Nat, k \notin S
             PROVE  FALSE
  OBVIOUS
<1> DEFINE T == {0 .. n : n \in Nat \ S}
<1>1. T # {} /\ T \subseteq FiniteSubsetsOf(Nat)
  <2>1. \A n \in Nat : IsFiniteSet(0 .. n) /\ 0 .. n \subseteq Nat
    BY FS_Interval
  <2> QED
    BY <2>1 DEF FiniteSubsetsOf
<1>2. PICK m \in T : \A y \in T : <<y, m>> \notin StrictSubsetOrdering(Nat)
  <2> HIDE DEF T
  <2> QED
    BY <1>1, FS_StrictSubsetOrderingWellFounded, WFMin, Zenon
<1>3. PICK n \in Nat \ S : m = 0 .. n
  OBVIOUS
<1>4. n # 0 /\ n - 1 \in Nat
  OBVIOUS
<1>5. n - 1 \in S
  <2> SUFFICES ASSUME n - 1 \notin S
               PROVE  FALSE
    OBVIOUS
  <2>1. 0 .. n - 1 \in T
    BY <1>4
  <2>2. 0 .. n - 1 \subseteq Nat /\ m \subseteq Nat
    BY <1>3
  <2>3. 0 .. n - 1 \subseteq m /\ n \in m /\ n \notin 0 .. n - 1
    BY <1>3, <1>4
  <2> QED
    BY <1>2, <2>1, <2>2, <2>3, Zenon DEF StrictSubsetOrdering
<1> QED
  BY <1>3, <1>4, <1>5

\* The same up to a bound.
LEMMA UpTo ==
  ASSUME NEW m \in Nat, NEW S, 0 \in S, \A n \in 0 .. m - 1 : n \in S => n + 1 \in S
  PROVE  0 .. m \subseteq S
<1> DEFINE T == {n \in Nat : n <= m => n \in S}
<1>1. \A n \in Nat : n \in T => n + 1 \in T
  OBVIOUS
<1>2. Nat \subseteq T
  <2> HIDE DEF T
  <2> QED
    BY <1>1, NatInd DEF T
<1> QED
  BY <1>2

\* A set of numbers that is not empty has a least one.
LEMMA LeastElement ==
  ASSUME NEW S \in SUBSET Nat, S # {}
  PROVE  \E m \in S : \A n \in S : m <= n
<1> SUFFICES ASSUME \A m \in S : \E n \in S : n < m
             PROVE  FALSE
  OBVIOUS
<1> DEFINE T == {n \in Nat : \A k \in S : n < k}
<1>1. 0 \in T
  <2>1. 0 \notin S
    OBVIOUS
  <2> QED
    BY <2>1
<1>2. \A n \in Nat : n \in T => n + 1 \in T
  <2> SUFFICES ASSUME NEW n \in T, NEW k \in S
               PROVE  n + 1 < k
    OBVIOUS
  <2>1. n < k /\ n + 1 # k
    OBVIOUS
  <2> QED
    BY <2>1
<1>3. Nat \subseteq T
  <2> HIDE DEF T
  <2> QED
    BY <1>1, <1>2, NatInd
<1>4. PICK k \in S : k \in Nat
  OBVIOUS
<1>5. k \in T
  BY <1>3, <1>4
<1> QED
  BY <1>4, <1>5

\* A remainder, where it takes one subtraction at most.
LEMMA Remainder ==
  ASSUME NEW n \in Nat \ {0}, NEW x \in 0 .. 2 * n - 1
  PROVE  x % n = IF x < n THEN x ELSE x - n
OBVIOUS

-----------------------------------------------------------------------------
(* The ring.                                                               *)

\* The identifier at a place, and the place of an identifier.
Place(r, i) == (r.rptr + i - 1) % SizeOf(r)
At(r, id)   == IF id >= r.rptr THEN id - r.rptr + 1 ELSE id + SizeOf(r) - r.rptr + 1

\* The rings of size n whose queue has elements of T.
Shapes(n, T) == [slots : [1 .. n -> T \cup {Dead}], rptr : 0 .. n - 1, wptr : 0 .. n - 1,
                 wrapped : BOOLEAN]

Rings(n, T) ==
  {r \in Shapes(n, T) :
     /\ IF r.wrapped THEN r.wptr <= r.rptr ELSE r.rptr <= r.wptr
     /\ \A i \in 1 .. get_size(r) : get_item(r, Place(r, i)) \in T}

LEMMA ShapeFacts ==
  ASSUME NEW n \in Nat \ {0}, NEW T, NEW r \in Rings(n, T)
  PROVE  /\ r.rptr \in 0 .. n - 1 /\ r.wptr \in 0 .. n - 1 /\ r.wrapped \in BOOLEAN
         /\ r.slots \in [1 .. n -> T \cup {Dead}] /\ SizeOf(r) = n
         /\ r = [slots |-> r.slots, rptr |-> r.rptr, wptr |-> r.wptr, wrapped |-> r.wrapped]
         /\ r.wrapped => r.wptr <= r.rptr
         /\ ~r.wrapped => r.rptr <= r.wptr
BY DEF Rings, Shapes, SizeOf

\* How many there are.
SizeFormula(r, n) == IF r.wrapped THEN n + r.wptr - r.rptr ELSE r.wptr - r.rptr

LEMMA SizeOfShape ==
  ASSUME NEW n \in Nat \ {0}, NEW T, NEW r \in Shapes(n, T),
         IF r.wrapped THEN r.wptr <= r.rptr ELSE r.rptr <= r.wptr
  PROVE  get_size(r) = SizeFormula(r, n) /\ SizeOf(r) = n
<1>1. /\ SizeOf(r) = n /\ r.rptr \in 0 .. n - 1 /\ r.wptr \in 0 .. n - 1 /\ r.wrapped \in BOOLEAN
  BY DEF Shapes, SizeOf
<1> DEFINE x == r.wptr + n - r.rptr
<1>2. x \in 0 .. 2 * n - 1
  BY <1>1
<1>3. x % n = IF x < n THEN x ELSE x - n
  <2> HIDE DEF x
  <2> QED
    BY <1>2, Remainder
<1>4. ~is_full(r) => get_size(r) = IF x < n THEN x ELSE x - n
  BY <1>1, <1>3 DEF get_size
<1>5. is_full(r) => get_size(r) = n
  BY <1>1 DEF get_size
<1> QED
  BY <1>1, <1>4, <1>5 DEF is_full, SizeFormula

LEMMA SizeIs ==
  ASSUME NEW n \in Nat \ {0}, NEW T, NEW r \in Rings(n, T)
  PROVE  /\ get_size(r) = SizeFormula(r, n)
         /\ get_size(r) \in 0 .. n
         /\ is_empty(r) <=> get_size(r) = 0
         /\ is_full(r) <=> get_size(r) = n
         /\ get_free_space(r) = n - get_size(r)
<1>1. get_size(r) = SizeFormula(r, n) /\ SizeOf(r) = n
  BY SizeOfShape DEF Rings
<1> QED
  BY <1>1, ShapeFacts DEF SizeFormula, is_empty, is_full, get_free_space

LEMMA PlaceIs ==
  ASSUME NEW n \in Nat \ {0}, NEW T, NEW r \in Shapes(n, T), NEW i \in 1 .. n + 1
  PROVE  Place(r, i) = IF r.rptr + i - 1 < n THEN r.rptr + i - 1 ELSE r.rptr + i - 1 - n
<1>1. SizeOf(r) = n /\ r.rptr \in 0 .. n - 1
  BY DEF Shapes, SizeOf
<1> DEFINE x == r.rptr + i - 1
<1>2. x \in 0 .. 2 * n - 1
  BY <1>1
<1>3. x % n = IF x < n THEN x ELSE x - n
  <2> HIDE DEF x
  <2> QED
    BY <1>2, Remainder
<1> QED
  BY <1>1, <1>3 DEF Place

\* Places and identifiers are in one-to-one correspondence.
LEMMA PlaceAt ==
  ASSUME NEW n \in Nat \ {0}, NEW T, NEW r \in Rings(n, T), NEW id \in 0 .. n - 1
  PROVE  At(r, id) \in 1 .. n /\ Place(r, At(r, id)) = id
<1>1. r \in Shapes(n, T)
  BY DEF Rings
<1>2. At(r, id) \in 1 .. n
  BY ShapeFacts DEF At
<1>3. Place(r, At(r, id)) = IF r.rptr + At(r, id) - 1 < n THEN r.rptr + At(r, id) - 1
                            ELSE r.rptr + At(r, id) - 1 - n
  BY <1>1, <1>2, PlaceIs
<1> QED
  BY <1>2, <1>3, ShapeFacts, SMTT(60) DEF At

LEMMA AtPlace ==
  ASSUME NEW n \in Nat \ {0}, NEW T, NEW r \in Rings(n, T), NEW i \in 1 .. n
  PROVE  Place(r, i) \in 0 .. n - 1 /\ At(r, Place(r, i)) = i
<1>1. r \in Shapes(n, T)
  BY DEF Rings
<1>2. Place(r, i) = IF r.rptr + i - 1 < n THEN r.rptr + i - 1 ELSE r.rptr + i - 1 - n
  BY <1>1, PlaceIs
<1> QED
  BY <1>2, ShapeFacts, SMTT(60) DEF At

\* The identifiers in the queue.
LEMMA ValidIs ==
  ASSUME NEW n \in Nat \ {0}, NEW T, NEW r \in Rings(n, T), NEW id \in 0 .. n - 1
  PROVE  check_id_valid(r, id) <=> At(r, id) <= get_size(r)
BY SizeIs, ShapeFacts, SMTT(60) DEF check_id_valid, At, SizeFormula, is_empty

LEMMA ItemAt ==
  ASSUME NEW n \in Nat \ {0}, NEW T, NEW r \in Rings(n, T), NEW id \in 0 .. n - 1,
         At(r, id) <= get_size(r)
  PROVE  get_item(r, id) \in T
<1>1. At(r, id) \in 1 .. get_size(r) /\ Place(r, At(r, id)) = id
  BY PlaceAt, SizeIs
<1>2. get_item(r, Place(r, At(r, id))) \in T
  BY <1>1 DEF Rings
<1> QED
  BY <1>1, <1>2

LEMMA LiveIdsIs ==
  ASSUME NEW n \in Nat \ {0}, NEW T, NEW r \in Rings(n, T)
  PROVE  /\ LiveIds(r) \in Seq(0 .. n - 1) /\ Len(LiveIds(r)) = get_size(r)
         /\ DOMAIN LiveIds(r) = 1 .. get_size(r)
         /\ \A i \in 1 .. get_size(r) : LiveIds(r)[i] = Place(r, i)
<1>1. \A i \in 1 .. get_size(r) : Place(r, i) \in 0 .. n - 1
  BY AtPlace, SizeIs
<1>2. get_size(r) \in Nat
  BY SizeIs
<1>3. LiveIds(r) = [i \in 1 .. get_size(r) |-> Place(r, i)]
  BY DEF LiveIds, Place
<1> HIDE DEF LiveIds
<1> QED
  BY <1>1, <1>2, <1>3

-----------------------------------------------------------------------------
(* The operations.                                                         *)

\* A ring is one of Rings if its shape is right and its elements are.
LEMMA RingIntro ==
  ASSUME NEW n \in Nat \ {0}, NEW T, NEW r \in Shapes(n, T),
         r.wrapped => r.wptr <= r.rptr, ~r.wrapped => r.rptr <= r.wptr,
         \A id \in 0 .. n - 1 : At(r, id) <= SizeFormula(r, n) => get_item(r, id) \in T
  PROVE  r \in Rings(n, T)
<1>1. get_size(r) = SizeFormula(r, n) /\ SizeOf(r) = n
  BY SizeOfShape
<1>2. r.rptr \in 0 .. n - 1 /\ r.wptr \in 0 .. n - 1 /\ r.wrapped \in BOOLEAN
  BY DEF Shapes
<1>3. get_size(r) \in 0 .. n
  BY <1>1, <1>2 DEF SizeFormula
<1>4. ASSUME NEW i \in 1 .. get_size(r)
      PROVE  get_item(r, Place(r, i)) \in T
  <2>1. i \in 1 .. n
    BY <1>3
  <2>2. Place(r, i) = IF r.rptr + i - 1 < n THEN r.rptr + i - 1 ELSE r.rptr + i - 1 - n
    BY <2>1, PlaceIs
  <2>3. Place(r, i) \in 0 .. n - 1 /\ At(r, Place(r, i)) = i
    BY <1>1, <1>2, <2>1, <2>2 DEF At
  <2>4. i <= SizeFormula(r, n)
    BY <1>1, <1>3
  <2> QED
    BY <2>3, <2>4
<1> QED
  BY <1>4 DEF Rings

LEMMA EmptyRing ==
  ASSUME NEW n \in Nat \ {0}, NEW T
  PROVE  empty_ring(n) \in Rings(n, T) /\ get_size(empty_ring(n)) = 0
<1> DEFINE r == empty_ring(n)
<1>1. r \in Shapes(n, T) /\ r.rptr = 0 /\ r.wptr = 0 /\ r.wrapped = FALSE
  BY DEF Shapes, empty_ring
<1>2. SizeFormula(r, n) = 0 /\ SizeOf(r) = n
  BY <1>1 DEF SizeFormula, SizeOf, Shapes
<1> HIDE DEF r
<1>3. \A id \in 0 .. n - 1 : ~(At(r, id) <= SizeFormula(r, n))
  BY <1>1, <1>2 DEF At
<1>4. r \in Rings(n, T)
  BY <1>1, <1>2, <1>3, RingIntro
<1> QED
  BY <1>2, <1>4, SizeIs DEF r

\* An operation on the slots of the queue that leaves the pointers alone.
LEMMA SamePointers ==
  ASSUME NEW r, NEW s, s.rptr = r.rptr, SizeOf(s) = SizeOf(r)
  PROVE  /\ \A i : Place(s, i) = Place(r, i)
         /\ \A id : At(s, id) = At(r, id)
BY DEF Place, At

\* A write to a slot.
LEMMA WriteSlot ==
  ASSUME NEW n \in Nat \ {0}, NEW T, NEW r \in Rings(n, T), NEW id \in 0 .. n - 1,
         NEW x \in T \cup {Dead}
  PROVE  /\ set_item(r, id, x) = [slots |-> [r.slots EXCEPT ![id + 1] = x], rptr |-> r.rptr,
                                  wptr |-> r.wptr, wrapped |-> r.wrapped]
         /\ [r.slots EXCEPT ![id + 1] = x] \in [1 .. n -> T \cup {Dead}]
<1>1. r = [slots |-> r.slots, rptr |-> r.rptr, wptr |-> r.wptr, wrapped |-> r.wrapped]
  BY ShapeFacts
<1>2. [r.slots EXCEPT ![id + 1] = x] \in [1 .. n -> T \cup {Dead}]
  BY ShapeFacts
<1> QED
  BY <1>1, <1>2 DEF set_item

LEMMA ItemSet ==
  ASSUME NEW n \in Nat \ {0}, NEW T, NEW r \in Rings(n, T), NEW id \in 0 .. n - 1, NEW x \in T
  PROVE  LET s == set_item(r, id, x)
         IN  /\ s \in Rings(n, T) /\ get_size(s) = get_size(r)
             /\ s.rptr = r.rptr /\ s.wptr = r.wptr
             /\ \A i : Place(s, i) = Place(r, i)
             /\ \A j : At(s, j) = At(r, j)
             /\ \A j \in 0 .. n - 1 : get_item(s, j) = IF j = id THEN x ELSE get_item(r, j)
<1> DEFINE s == set_item(r, id, x)
<1>1. /\ s \in Shapes(n, T) /\ s.rptr = r.rptr /\ s.wptr = r.wptr /\ s.wrapped = r.wrapped
      /\ s.slots = [r.slots EXCEPT ![id + 1] = x]
  <2>1. x \in T \cup {Dead}
    OBVIOUS
  <2>2. r.rptr \in 0 .. n - 1 /\ r.wptr \in 0 .. n - 1 /\ r.wrapped \in BOOLEAN
    BY ShapeFacts
  <2>3. /\ s = [slots |-> [r.slots EXCEPT ![id + 1] = x], rptr |-> r.rptr, wptr |-> r.wptr,
                wrapped |-> r.wrapped]
        /\ [r.slots EXCEPT ![id + 1] = x] \in [1 .. n -> T \cup {Dead}]
    BY <2>1, WriteSlot
  <2> HIDE DEF s
  <2> QED
    BY <2>1, <2>2, <2>3 DEF Shapes
<1>2. SizeOf(s) = n /\ SizeOf(r) = n
  BY <1>1, ShapeFacts DEF SizeOf, Shapes
<1>3. \A j \in 0 .. n - 1 : get_item(s, j) = IF j = id THEN x ELSE get_item(r, j)
  BY <1>1, ShapeFacts DEF get_item
<1> HIDE DEF s
<1>4. (\A i : Place(s, i) = Place(r, i)) /\ \A j : At(s, j) = At(r, j)
  BY <1>1, <1>2, SamePointers
<1>5. SizeFormula(s, n) = get_size(r)
  BY <1>1, SizeIs DEF SizeFormula
<1>6. s \in Rings(n, T)
  <2>1. \A j \in 0 .. n - 1 : At(s, j) <= SizeFormula(s, n) => get_item(s, j) \in T
    BY <1>3, <1>4, <1>5, ItemAt
  <2> QED
    BY <1>1, <2>1, RingIntro, ShapeFacts
<1> QED
  BY <1>1, <1>3, <1>4, <1>5, <1>6, SizeIs DEF s

LEMMA PushItem ==
  ASSUME NEW n \in Nat \ {0}, NEW T, NEW r \in Rings(n, T), ~is_full(r), NEW x \in T
  PROVE  LET s == push(r, x)
         IN  /\ s \in Rings(n, T) /\ get_size(s) = get_size(r) + 1 /\ s.rptr = r.rptr
             /\ \A i : Place(s, i) = Place(r, i)
             /\ \A j : At(s, j) = At(r, j)
             /\ At(r, r.wptr) = get_size(r) + 1
             /\ \A j \in 0 .. n - 1 : get_item(s, j) = IF j = r.wptr THEN x ELSE get_item(r, j)
<1> DEFINE s == push(r, x)
           last == r.wptr + 1 = n
<1>1. /\ SizeOf(r) = n /\ r.rptr \in 0 .. n - 1 /\ r.wptr \in 0 .. n - 1
      /\ r.wrapped \in BOOLEAN /\ r.slots \in [1 .. n -> T \cup {Dead}]
      /\ r.wrapped => r.wptr <= r.rptr
      /\ ~r.wrapped => r.rptr <= r.wptr
  BY ShapeFacts
<1>2. /\ s \in Shapes(n, T) /\ s.rptr = r.rptr
      /\ s.wptr = IF last THEN 0 ELSE r.wptr + 1
      /\ s.wrapped <=> IF last THEN ~r.wrapped ELSE r.wrapped
      /\ s.slots = [r.slots EXCEPT ![r.wptr + 1] = x]
  <2> DEFINE t == set_item(r, r.wptr, x)
             wptr == IF last THEN 0 ELSE r.wptr + 1
             rptr == r.rptr
             wrapped == IF last THEN ~r.wrapped ELSE r.wrapped
  <2>1. /\ t = [slots |-> [r.slots EXCEPT ![r.wptr + 1] = x], rptr |-> r.rptr, wptr |-> r.wptr,
                wrapped |-> r.wrapped]
        /\ [r.slots EXCEPT ![r.wptr + 1] = x] \in [1 .. n -> T \cup {Dead}]
    <3>1. t = set_item(r, r.wptr, x)
      OBVIOUS
    <3>2. x \in T \cup {Dead} /\ r.wptr \in 0 .. n - 1
      BY <1>1
    <3>3. PICK p \in 0 .. n - 1 : p = r.wptr
      BY <3>2
    <3>4. /\ set_item(r, p, x) = [slots |-> [r.slots EXCEPT ![p + 1] = x], rptr |-> r.rptr,
                                      wptr |-> r.wptr, wrapped |-> r.wrapped]
          /\ [r.slots EXCEPT ![p + 1] = x] \in [1 .. n -> T \cup {Dead}]
      BY <3>2, WriteSlot
    <3> HIDE DEF t
    <3> QED
      BY <3>1, <3>3, <3>4, Zenon
  <2>2. s = [slots |-> [r.slots EXCEPT ![r.wptr + 1] = x], rptr |-> rptr, wptr |-> wptr,
             wrapped |-> wrapped]
    <3>1. s = [t EXCEPT !.wptr = IF last THEN 0 ELSE r.wptr + 1,
                        !.wrapped = IF last THEN ~@ ELSE @]
      BY <1>1 DEF push
    <3> HIDE DEF t, s
    <3> QED
      BY <2>1, <3>1
  <2>3. wptr \in 0 .. n - 1 /\ rptr \in 0 .. n - 1 /\ wrapped \in BOOLEAN
    <3>1. wptr \in 0 .. n - 1 /\ rptr \in 0 .. n - 1
      BY <1>1
    <3>2. wrapped \in BOOLEAN
      BY <1>1, Zenon
    <3> QED
      BY <3>1, <3>2
  <2> HIDE DEF s, wptr, rptr, wrapped
  <2>4. s \in Shapes(n, T) /\ s.rptr = rptr /\ s.wptr = wptr /\ s.wrapped = wrapped
        /\ s.slots = [r.slots EXCEPT ![r.wptr + 1] = x]
    BY <2>1, <2>2, <2>3 DEF Shapes
  <2> QED
    BY <2>4 DEF wptr, rptr, wrapped
<1>3. SizeOf(s) = n
  BY <1>1, <1>2 DEF SizeOf, Shapes
<1>4. \A j \in 0 .. n - 1 : get_item(s, j) = IF j = r.wptr THEN x ELSE get_item(r, j)
  BY <1>1, <1>2 DEF get_item
<1> HIDE DEF s
<1>5. (\A i : Place(s, i) = Place(r, i)) /\ \A j : At(s, j) = At(r, j)
  BY <1>1, <1>2, <1>3, SamePointers
<1>6. At(r, r.wptr) = get_size(r) + 1
  BY ShapeFacts, SizeIs DEF At, SizeFormula, is_full
<1>7. SizeFormula(s, n) = get_size(r) + 1
  <2>1. get_size(r) = SizeFormula(r, n) /\ ~(r.rptr = r.wptr /\ r.wrapped)
    BY SizeIs DEF is_full
  <2>2. CASE last
    BY <1>1, <1>2, <2>1, <2>2 DEF SizeFormula
  <2>3. CASE ~last
    <3>1. (s.wrapped <=> r.wrapped) /\ s.rptr = r.rptr /\ s.wptr = r.wptr + 1
      BY <1>2, <2>3, Zenon
    <3> QED
      BY <1>1, <2>1, <3>1 DEF SizeFormula
  <2> QED
    BY <2>2, <2>3
<1>8. s.wrapped => s.wptr <= s.rptr
  BY <1>1, <1>2 DEF is_full
<1>9. ~s.wrapped => s.rptr <= s.wptr
  BY <1>1, <1>2 DEF is_full
<1>10. s \in Rings(n, T)
  <2>1. ASSUME NEW j \in 0 .. n - 1, At(s, j) <= SizeFormula(s, n), j # r.wptr
        PROVE  get_item(s, j) \in T
    <3>1. At(r, j) # At(r, r.wptr)
      BY <2>1, PlaceAt, ShapeFacts
    <3>2. At(r, j) <= get_size(r)
      BY <1>5, <1>6, <1>7, <2>1, <3>1, PlaceAt, SizeIs
    <3> QED
      BY <1>4, <2>1, <3>2, ItemAt
  <2>2. \A j \in 0 .. n - 1 : At(s, j) <= SizeFormula(s, n) => get_item(s, j) \in T
    BY <1>4, <2>1
  <2> QED
    BY <1>2, <1>8, <1>9, <2>2, RingIntro
<1> QED
  BY <1>2, <1>4, <1>5, <1>6, <1>7, <1>10, SizeIs DEF s

LEMMA PopItem ==
  ASSUME NEW n \in Nat \ {0}, NEW T, NEW r \in Rings(n, T), ~is_empty(r)
  PROVE  LET s == pop(r)
         IN  /\ s \in Rings(n, T) /\ get_size(s) = get_size(r) - 1
             /\ \A i \in 1 .. n - 1 : Place(s, i) = Place(r, i + 1)
             /\ \A j \in 0 .. n - 1 : j # r.rptr => At(s, j) = At(r, j) - 1
             /\ At(r, r.rptr) = 1
             /\ \A j \in 0 .. n - 1 : j # r.rptr => get_item(s, j) = get_item(r, j)
<1> DEFINE s == pop(r)
           last == r.rptr + 1 = n
<1>1. /\ SizeOf(r) = n /\ r.rptr \in 0 .. n - 1 /\ r.wptr \in 0 .. n - 1
      /\ r.wrapped \in BOOLEAN /\ r.slots \in [1 .. n -> T \cup {Dead}]
      /\ r.wrapped => r.wptr <= r.rptr
      /\ ~r.wrapped => r.rptr <= r.wptr
  BY ShapeFacts
<1>2. /\ s \in Shapes(n, T) /\ s.wptr = r.wptr
      /\ s.rptr = IF last THEN 0 ELSE r.rptr + 1
      /\ s.wrapped <=> IF last THEN ~r.wrapped ELSE r.wrapped
      /\ s.slots = [r.slots EXCEPT ![r.rptr + 1] = Dead]
  <2> DEFINE t == set_item(r, r.rptr, Dead)
             wptr == r.wptr
             rptr == IF last THEN 0 ELSE r.rptr + 1
             wrapped == IF last THEN ~r.wrapped ELSE r.wrapped
  <2>1. /\ t = [slots |-> [r.slots EXCEPT ![r.rptr + 1] = Dead], rptr |-> r.rptr, wptr |-> r.wptr,
                wrapped |-> r.wrapped]
        /\ [r.slots EXCEPT ![r.rptr + 1] = Dead] \in [1 .. n -> T \cup {Dead}]
    <3>1. t = set_item(r, r.rptr, Dead)
      OBVIOUS
    <3>2. Dead \in T \cup {Dead} /\ r.rptr \in 0 .. n - 1
      BY <1>1
    <3>3. PICK p \in 0 .. n - 1 : p = r.rptr
      BY <3>2
    <3>4. /\ set_item(r, p, Dead) = [slots |-> [r.slots EXCEPT ![p + 1] = Dead], rptr |-> r.rptr,
                                      wptr |-> r.wptr, wrapped |-> r.wrapped]
          /\ [r.slots EXCEPT ![p + 1] = Dead] \in [1 .. n -> T \cup {Dead}]
      BY <3>2, WriteSlot
    <3> HIDE DEF t
    <3> QED
      BY <3>1, <3>3, <3>4, Zenon
  <2>2. s = [slots |-> [r.slots EXCEPT ![r.rptr + 1] = Dead], rptr |-> rptr, wptr |-> wptr,
             wrapped |-> wrapped]
    <3>1. s = [t EXCEPT !.rptr = IF last THEN 0 ELSE r.rptr + 1,
                        !.wrapped = IF last THEN ~@ ELSE @]
      BY <1>1 DEF pop
    <3> HIDE DEF t, s
    <3> QED
      BY <2>1, <3>1
  <2>3. wptr \in 0 .. n - 1 /\ rptr \in 0 .. n - 1 /\ wrapped \in BOOLEAN
    <3>1. wptr \in 0 .. n - 1 /\ rptr \in 0 .. n - 1
      BY <1>1
    <3>2. wrapped \in BOOLEAN
      BY <1>1, Zenon
    <3> QED
      BY <3>1, <3>2
  <2> HIDE DEF s, wptr, rptr, wrapped
  <2>4. s \in Shapes(n, T) /\ s.rptr = rptr /\ s.wptr = wptr /\ s.wrapped = wrapped
        /\ s.slots = [r.slots EXCEPT ![r.rptr + 1] = Dead]
    BY <2>1, <2>2, <2>3 DEF Shapes
  <2> QED
    BY <2>4 DEF wptr, rptr, wrapped
<1>3. SizeOf(s) = n
  BY <1>1, <1>2 DEF SizeOf, Shapes
<1>4. \A j \in 0 .. n - 1 : j # r.rptr => get_item(s, j) = get_item(r, j)
  BY <1>1, <1>2 DEF get_item
<1> HIDE DEF s
<1>5. ASSUME NEW i \in 1 .. n - 1
      PROVE  Place(s, i) = Place(r, i + 1)
  <2>1. Place(s, i) = IF s.rptr + i - 1 < n THEN s.rptr + i - 1 ELSE s.rptr + i - 1 - n
    BY <1>2, PlaceIs
  <2>2. r \in Shapes(n, T) /\ i + 1 \in 1 .. n + 1
    BY DEF Rings
  <2>3. Place(r, i + 1) = IF r.rptr + (i + 1) - 1 < n THEN r.rptr + (i + 1) - 1
                          ELSE r.rptr + (i + 1) - 1 - n
    BY <2>2, PlaceIs
  <2> QED
    BY <1>1, <1>2, <2>1, <2>3, SMTT(60)
<1>6. \A j \in 0 .. n - 1 : j # r.rptr => At(s, j) = At(r, j) - 1
  <2>1. CASE last
    BY <1>1, <1>2, <1>3, <2>1 DEF At
  <2>2. CASE ~last
    <3>1. s.rptr = r.rptr + 1
      BY <1>2, <2>2
    <3> SUFFICES ASSUME NEW j \in 0 .. n - 1, j # r.rptr
                 PROVE  At(s, j) = At(r, j) - 1
      OBVIOUS
    <3>2. CASE j > r.rptr
      BY <1>1, <1>3, <3>1, <3>2 DEF At
    <3>3. CASE j < r.rptr
      BY <1>1, <1>3, <3>1, <3>3 DEF At
    <3> QED
      BY <1>1, <3>2, <3>3
  <2> HIDE DEF last
  <2> QED
    BY <2>1, <2>2
<1>7. At(r, r.rptr) = 1
  BY ShapeFacts DEF At
<1>8. SizeFormula(s, n) = get_size(r) - 1
  <2>1. get_size(r) = SizeFormula(r, n) /\ ~(r.rptr = r.wptr /\ ~r.wrapped)
    BY SizeIs DEF is_empty
  <2>2. CASE last
    BY <1>1, <1>2, <2>1, <2>2 DEF SizeFormula
  <2>3. CASE ~last
    <3>1. (s.wrapped <=> r.wrapped) /\ s.rptr = r.rptr + 1 /\ s.wptr = r.wptr
      BY <1>2, <2>3, Zenon
    <3> QED
      BY <1>1, <2>1, <3>1 DEF SizeFormula
  <2> QED
    BY <2>2, <2>3
<1>9. s.wrapped => s.wptr <= s.rptr
  BY <1>1, <1>2 DEF is_empty
<1>10. ~s.wrapped => s.rptr <= s.wptr
  BY <1>1, <1>2 DEF is_empty
<1>11. s \in Rings(n, T)
  <2>1. ASSUME NEW j \in 0 .. n - 1, At(s, j) <= SizeFormula(s, n)
        PROVE  get_item(s, j) \in T
    <3>1. get_size(r) \in 0 .. n
      BY SizeIs
    <3>2. j # r.rptr
      BY <1>1, <1>2, <1>3, <1>8, <2>1, <3>1, ShapeFacts DEF At
    <3>3. At(r, j) <= get_size(r)
      BY <1>6, <1>8, <2>1, <3>1, <3>2, PlaceAt
    <3> QED
      BY <1>4, <3>2, <3>3, ItemAt
  <2> QED
    BY <1>2, <1>9, <1>10, <2>1, RingIntro
<1> QED
  BY <1>4, <1>5, <1>6, <1>7, <1>8, <1>11, SizeIs DEF s

LEMMA FlushRing ==
  ASSUME NEW n \in Nat \ {0}, NEW T, NEW r \in Rings(n, T)
  PROVE  flush(r) \in Rings(n, T) /\ get_size(flush(r)) = 0
<1>1. SizeOf(r) = n
  BY ShapeFacts
<1> QED
  BY <1>1, EmptyRing DEF flush

LEMMA Truncate ==
  ASSUME NEW n \in Nat \ {0}, NEW T, NEW r \in Rings(n, T), NEW k \in 0 .. get_size(r)
  PROVE  LET s == truncate(r, k)
         IN  /\ s \in Rings(n, T) /\ get_size(s) = k
             /\ \A i : Place(s, i) = Place(r, i)
             /\ \A j : At(s, j) = At(r, j)
             /\ \A i \in 1 .. k : get_item(s, Place(r, i)) = get_item(r, Place(r, i))
<1> DEFINE s == truncate(r, k)
<1>1. SizeOf(r) = n /\ r.rptr \in 0 .. n - 1
  BY ShapeFacts
<1>2. k \in 0 .. n /\ get_size(r) \in 0 .. n
  BY SizeIs
<1> DEFINE x == r.rptr + k
<1>3. x % n = IF x < n THEN x ELSE x - n
  <2>1. x \in 0 .. 2 * n - 1
    BY <1>1, <1>2
  <2> HIDE DEF x
  <2> QED
    BY <2>1, Remainder
<1>4. /\ s.rptr = r.rptr /\ s.wptr = IF x < n THEN x ELSE x - n
      /\ s.wrapped <=> x >= n
      /\ s.wrapped \in BOOLEAN
      /\ s.slots = [i \in 1 .. n |->
                      IF (i - 1 + n - r.rptr) % n < k THEN r.slots[i] ELSE Dead]
      /\ s = [slots |-> s.slots, rptr |-> s.rptr, wptr |-> s.wptr, wrapped |-> s.wrapped]
  <2> DEFINE slots == [i \in 1 .. n |-> IF (i - 1 + n - r.rptr) % n < k THEN r.slots[i] ELSE Dead]
  <2>1. s = [slots |-> slots, rptr |-> r.rptr, wptr |-> x % n, wrapped |-> x >= n]
    BY <1>1 DEF truncate
  <2> HIDE DEF s, slots
  <2>2. /\ s.slots = slots /\ s.rptr = r.rptr /\ s.wptr = x % n /\ s.wrapped = (x >= n)
        /\ s = [slots |-> s.slots, rptr |-> s.rptr, wptr |-> s.wptr, wrapped |-> s.wrapped]
    BY <2>1
  <2> HIDE DEF x
  <2>3. s.wrapped \in BOOLEAN /\ (s.wrapped <=> x >= n)
    <3>1. (x >= n) \in BOOLEAN
      OBVIOUS
    <3> QED
      BY <2>2, <3>1, Zenon
  <2> QED
    BY <1>3, <2>2, <2>3 DEF slots
<1>5. s \in Shapes(n, T)
  <2>1. s.wptr \in 0 .. n - 1 /\ s.rptr \in 0 .. n - 1 /\ s.wrapped \in BOOLEAN
    <3> HIDE DEF s
    <3> QED
      BY <1>1, <1>2, <1>4
  <2>2. s.slots \in [1 .. n -> T \cup {Dead}]
    BY <1>4, ShapeFacts
  <2> HIDE DEF s
  <2> QED
    BY <1>4, <2>1, <2>2 DEF Shapes
<1>6. SizeOf(s) = n
  BY <1>5 DEF SizeOf, Shapes
<1>7. ASSUME NEW j \in 0 .. n - 1, At(r, j) <= k
      PROVE  get_item(s, j) = get_item(r, j)
  <2>1. (j + n - r.rptr) % n = At(r, j) - 1
    <3> DEFINE y == j + n - r.rptr
    <3>1. y \in 0 .. 2 * n - 1
      BY <1>1
    <3>2. y % n = IF y < n THEN y ELSE y - n
      <4> HIDE DEF y
      <4> QED
        BY <3>1, Remainder
    <3> QED
      BY <1>1, <3>2 DEF At
  <2>2. At(r, j) \in 1 .. n
    BY PlaceAt
  <2>3. s.slots[j + 1] = IF (j + n - r.rptr) % n < k THEN r.slots[j + 1] ELSE Dead
    <3>1. j + 1 \in 1 .. n /\ (j + 1) - 1 = j
      OBVIOUS
    <3> HIDE DEF s
    <3> QED
      BY <1>4, <3>1
  <2> HIDE DEF s
  <2> QED
    BY <1>2, <1>7, <2>1, <2>2, <2>3 DEF get_item
<1> HIDE DEF s
<1>8. (\A i : Place(s, i) = Place(r, i)) /\ \A j : At(s, j) = At(r, j)
  BY <1>1, <1>4, <1>6, SamePointers
<1>9. SizeFormula(s, n) = k
  BY <1>1, <1>2, <1>4 DEF SizeFormula
<1>10. s \in Rings(n, T)
  <2>1. \A j \in 0 .. n - 1 : At(r, j) <= k => get_item(s, j) \in T
    <3> SUFFICES ASSUME NEW j \in 0 .. n - 1, At(r, j) <= k
                 PROVE  get_item(s, j) \in T
      OBVIOUS
    <3>1. At(r, j) <= get_size(r)
      BY <1>2, PlaceAt
    <3> QED
      BY <1>7, <3>1, ItemAt
  <2>2. (s.wrapped => s.wptr <= s.rptr) /\ (~s.wrapped => s.rptr <= s.wptr)
    BY <1>1, <1>2, <1>4
  <2> QED
    BY <1>5, <1>8, <1>9, <2>1, <2>2, RingIntro
<1>11. \A i \in 1 .. k : get_item(s, Place(r, i)) = get_item(r, Place(r, i))
  <2> SUFFICES ASSUME NEW i \in 1 .. k
               PROVE  get_item(s, Place(r, i)) = get_item(r, Place(r, i))
    OBVIOUS
  <2>1. i \in 1 .. n
    BY <1>2
  <2>2. Place(r, i) \in 0 .. n - 1 /\ At(r, Place(r, i)) = i
    BY <2>1, AtPlace
  <2> QED
    BY <1>7, <2>2
<1> QED
  BY <1>8, <1>9, <1>10, <1>11, SizeIs DEF s

=============================================================================
