---------------------- MODULE DCCPacketSchedulerProofs ----------------------
(***************************************************************************)
(* Theorems about the scheduler, for every size of the queues and of the   *)
(* slot array, every set of applications and every number of repeats, and  *)
(* the lemmas about its two data structures they rest on.                  *)
(***************************************************************************)
EXTENDS DCCPacketScheduler, WellFoundedInduction, SequenceTheorems, FiniteSetTheorems, TLAPS

-----------------------------------------------------------------------------
(***************************************************************************)
(* The slot array: what one lookup does to it, for every number of slots   *)
(* and every loco but 0.                                                   *)
(***************************************************************************)

(* The types of the array, whatever set R the registers are in.            *)
IsArray(R) == slots \in [Slot -> R] /\ slotFullNext \in Slot

(* No two registers with the same address, and the empty ones at the end:   *)
(* each is needed to show that a lookup preserves the other.                *)
RegisterInv == NoLocoBehindHole /\ OneSlotPerLoco

(* A set of natural numbers that is not empty has a least element.           *)
LEMMA LeastElement ==
  ASSUME NEW S, S \subseteq Nat, S # {}
  PROVE  \E i \in S : \A j \in S : i <= j
<1>1. IsWellFoundedOn(OpToRel(<, Nat), Nat)
  BY NatLessThanWellFounded
<1>2. PICK i \in S : \A j \in S : <<j, i>> \notin OpToRel(<, Nat)
  BY <1>1, WFMin
<1>3. ASSUME NEW j \in S PROVE i <= j
  <2>1. <<j, i>> \in Nat \X Nat /\ ~(j < i)
    BY <1>2 DEF OpToRel
  <2> QED
    BY <2>1
<1> QED
  BY <1>2, <1>3

-----------------------------------------------------------------------------
(* The search of LokStsgetSlot ends in a slot of the array: the first one    *)
(* it may stop at, or the one whose turn it is to be evicted.                *)
LEMMA SlotOfIsASlot ==
  ASSUME NEW s, NEW next \in Slot, NEW a
  PROVE  /\ SlotOf(s, next, a) \in Slot
         /\ StopsAt(s, a) = {} => SlotOf(s, next, a) = next
         /\ StopsAt(s, a) # {} =>
              /\ SlotOf(s, next, a) \in StopsAt(s, a)
              /\ \A j \in StopsAt(s, a) : SlotOf(s, next, a) <= j
<1>1. CASE StopsAt(s, a) = {}
  BY <1>1 DEF SlotOf
<1>2. CASE StopsAt(s, a) # {}
  <2>1. StopsAt(s, a) \subseteq Nat /\ StopsAt(s, a) \subseteq Slot
    BY SlotMaxAssumption DEF StopsAt, Slot
  <2>2. \E i \in StopsAt(s, a) : \A j \in StopsAt(s, a) : i <= j
    BY <1>2, <2>1, LeastElement
  <2> QED
    BY <1>2, <2>1, <2>2 DEF SlotOf
<1> QED
  BY <1>1, <1>2

(* Looking a loco up finds its register, or makes a fresh one.               *)
LEMMA LookupFinds ==
  ASSUME NEW R, IsArray(R), NEW a
  PROVE  LET i == SlotOf(slots, slotFullNext, a)
         IN  /\ RegisterOf(a) = IF slots[i].adr = a THEN slots[i] ELSE NewSlot(a)
             /\ RegisterOf(a).adr = a
             /\ AfterLookup(slots, slotFullNext, a) = [slots EXCEPT ![i] = RegisterOf(a)]
<1> DEFINE i == SlotOf(slots, slotFullNext, a)
<1>1. i \in Slot /\ slots \in [Slot -> R]
  BY SlotOfIsASlot DEF IsArray
<1>2. CASE slots[i].adr = a
  BY <1>1, <1>2 DEF AfterLookup, RegisterOf
<1>3. CASE slots[i].adr # a
  <2>1. AfterLookup(slots, slotFullNext, a) = [slots EXCEPT ![i] = NewSlot(a)]
    BY <1>3 DEF AfterLookup
  <2>2. RegisterOf(a) = NewSlot(a) /\ NewSlot(a).adr = a
    BY <1>1, <2>1 DEF RegisterOf, NewSlot
  <2> QED
    BY <1>3, <2>1, <2>2
<1> QED
  BY <1>2, <1>3

(* So a getter writes one register, too: that of the loco it is about.       *)
LEMMA GetterWrites ==
  ASSUME NEW R, IsArray(R), NEW a, LokStsgetSlot(a)
  PROVE  LookupAndWrite(a, RegisterOf(a))
BY LookupFinds DEF LokStsgetSlot, LookupAndWrite

-----------------------------------------------------------------------------
(* A write leaves every slot but the one the search ends in.                 *)
LEMMA OneSlotWritten ==
  ASSUME NEW R, IsArray(R), NEW a, NEW reg, reg.adr = a, LookupAndWrite(a, reg)
  PROVE  LET w == SlotOf(slots, slotFullNext, a)
         IN  /\ w \in Slot
             /\ slots' \in [Slot -> R \union {reg}]
             /\ slots'[w] = reg
             /\ \A j \in Slot : j # w => slots'[j] = slots[j]
             /\ slotFullNext' \in Slot
<1> DEFINE w == SlotOf(slots, slotFullNext, a)
<1>1. w \in Slot /\ slots \in [Slot -> R] /\ slots' = [slots EXCEPT ![w] = reg]
  BY SlotOfIsASlot DEF LookupAndWrite, IsArray
<1>2. slotFullNext' \in Slot
  BY SlotMaxAssumption DEF LookupAndWrite, NextToEvict, IsArray, Slot
<1> HIDE DEF w
<1>3. slots' \in [Slot -> R \union {reg}]
  BY <1>1
<1>4. slots'[w] = reg /\ \A j \in Slot : j # w => slots'[j] = slots[j]
  BY <1>1
<1> QED
  BY <1>1, <1>2, <1>3, <1>4 DEF w

(* Such a write keeps the invariant: the search would have stopped at an      *)
(* earlier register of the loco, and at the first empty slot.                 *)
LEMMA WriteKeepsInv ==
  ASSUME NEW R, IsArray(R), RegisterInv, NEW a, a # 0,
         NEW reg, reg.adr = a, LookupAndWrite(a, reg)
  PROVE  RegisterInv'
<1> DEFINE w == SlotOf(slots, slotFullNext, a)
<1>1. /\ w \in Slot
      /\ StopsAt(slots, a) = {} => w = slotFullNext
      /\ StopsAt(slots, a) # {} =>
           w \in StopsAt(slots, a) /\ \A j \in StopsAt(slots, a) : w <= j
  BY SlotOfIsASlot DEF IsArray
<1>2. /\ slots'[w].adr = a
      /\ \A j \in Slot : j # w => slots'[j] = slots[j]
  BY OneSlotWritten
<1> HIDE DEF w
<1>3. StopsAt(slots, a) = {j \in Slot : slots[j].adr = a \/ slots[j].adr = 0}
  BY DEF StopsAt
<1>4. Slot \subseteq Int
  BY SlotMaxAssumption DEF Slot
<1>5. NoLocoBehindHole'
  <2> SUFFICES ASSUME NEW i \in Slot, NEW j \in Slot, i < j, slots'[i].adr = 0
               PROVE  slots'[j].adr = 0
    BY DEF NoLocoBehindHole
  <2>1. i # w /\ slots[i].adr = 0
    BY <1>2
  <2>2. i \in StopsAt(slots, a) /\ w <= i
    BY <1>1, <1>3, <2>1
  <2>3. j # w
    BY <1>1, <1>4, <2>2
  <2> QED
    BY <1>2, <2>1, <2>3 DEF RegisterInv, NoLocoBehindHole
<1>6. OneSlotPerLoco'
  <2>1. ASSUME NEW j \in Slot, j # w, slots[j].adr = a PROVE FALSE
    <3>1. j \in StopsAt(slots, a) /\ w \in StopsAt(slots, a) /\ w < j
      BY <1>1, <1>3, <1>4, <2>1
    <3>2. CASE slots[w].adr = 0
      BY <1>1, <2>1, <3>1, <3>2 DEF RegisterInv, NoLocoBehindHole
    <3>3. CASE slots[w].adr = a
      BY <1>1, <2>1, <3>3 DEF RegisterInv, OneSlotPerLoco, Occupied
    <3> QED
      BY <1>3, <3>1, <3>2, <3>3
  <2> QED
    BY <1>2, <2>1 DEF RegisterInv, OneSlotPerLoco, Occupied
<1> QED
  BY <1>5, <1>6 DEF RegisterInv

(* The search that does not end at a register of the loco has missed none.   *)
LEMMA NotFoundIsNowhere ==
  ASSUME NEW R, IsArray(R), RegisterInv, NEW a, a # 0,
         slots[SlotOf(slots, slotFullNext, a)].adr # a
  PROVE  \A j \in Slot : slots[j].adr # a
<1> DEFINE w == SlotOf(slots, slotFullNext, a)
<1>1. /\ w \in Slot
      /\ StopsAt(slots, a) # {} =>
           w \in StopsAt(slots, a) /\ \A j \in StopsAt(slots, a) : w <= j
  BY SlotOfIsASlot DEF IsArray
<1> HIDE DEF w
<1>2. Slot \subseteq Int
  BY SlotMaxAssumption DEF Slot
<1> SUFFICES ASSUME NEW j \in Slot, slots[j].adr = a PROVE FALSE
  OBVIOUS
<1>3. j \in StopsAt(slots, a) /\ w <= j /\ slots[w].adr = 0
  BY <1>1 DEF StopsAt, w
<1>4. w < j
  BY <1>1, <1>2, <1>3
<1> QED
  BY <1>1, <1>3, <1>4 DEF RegisterInv, NoLocoBehindHole

(* A loco loses its register to such a write only when all slots are taken.  *)
LEMMA WriteEvictsInTurn ==
  ASSUME NEW R, IsArray(R), NEW a, NEW reg, reg.adr = a, LookupAndWrite(a, reg),
         NEW i \in Occupied, slots'[i].adr # slots[i].adr
  PROVE  /\ Occupied = Slot
         /\ i = slotFullNext
         /\ \A j \in Slot \ {i} : slots'[j] = slots[j]
<1> DEFINE w == SlotOf(slots, slotFullNext, a)
<1>1. /\ w \in Slot
      /\ StopsAt(slots, a) = {} => w = slotFullNext
      /\ StopsAt(slots, a) # {} => w \in StopsAt(slots, a)
  BY SlotOfIsASlot DEF IsArray
<1>2. slots'[w].adr = a /\ \A j \in Slot : j # w => slots'[j] = slots[j]
  BY OneSlotWritten
<1> HIDE DEF w
<1>3. i \in Slot /\ i = w /\ slots[w].adr # 0 /\ slots[w].adr # a
  BY <1>2 DEF Occupied
<1>4. StopsAt(slots, a) = {}
  BY <1>1, <1>3 DEF StopsAt
<1>5. Occupied = Slot
  BY <1>4 DEF StopsAt, Occupied
<1> QED
  BY <1>1, <1>2, <1>3, <1>4, <1>5

(* The zeroed array satisfies the invariant.                                 *)
LEMMA RegisterInitInv ==
  ASSUME RegisterInit
  PROVE  IsArray({EmptySlot}) /\ RegisterInv
<1>1. IsArray({EmptySlot})
  BY SlotMaxAssumption DEF RegisterInit, NoSlots, IsArray, Slot
<1>2. \A j \in Slot : slots[j].adr = 0
  BY DEF RegisterInit, NoSlots, EmptySlot
<1> QED
  BY <1>1, <1>2 DEF RegisterInv, NoLocoBehindHole, OneSlotPerLoco, Occupied

-----------------------------------------------------------------------------
(***************************************************************************)
(* The packet queues: what inserting and reading do to the set of packets  *)
(* that wait, as long as at most one of each address and kind does.        *)
(***************************************************************************)

(* Packets that the queues take for orders about the same thing.           *)
Same(p, q) == p.addr = q.addr /\ p.kind = q.kind

(* One packet at most for each.                                             *)
OnePerKey(s) == \A i, j \in 1..Len(s) : Same(s[i], s[j]) => i = j

Others(s, p) == {e \in Entries(s) : ~Same(e, p)}

-----------------------------------------------------------------------------
(* The two ways an insertion can go in a queue that is not full.             *)
LEMMA InsertCases ==
  ASSUME NEW P, NEW s \in Seq(P), NEW p \in P, NEW cap \in Nat, Len(s) < cap
  PROVE  \/ Hits(s, p) = {} /\ Insert(s, cap, p) = Append(s, p)
         \/ \E k \in Hits(s, p) : Insert(s, cap, p) = [s EXCEPT ![k] = p]
<1>1. CASE Hits(s, p) = {}
  BY <1>1 DEF Insert, Accepts
<1>2. CASE Hits(s, p) # {}
  <2>0. Hits(s, p) \subseteq Nat
    BY DEF Hits
  <2>1. \E k \in Hits(s, p) : \A j \in Hits(s, p) : k <= j
    BY <1>2, <2>0, LeastElement
  <2>2. Least(Hits(s, p)) \in Hits(s, p)
    BY <2>1 DEF Least
  <2> QED
    BY <1>2, <2>2 DEF Insert, Accepts
<1> QED
  BY <1>1, <1>2

(* An insertion adds nothing but the packet, and never overfills the queue.  *)
LEMMA InsertIsASequence ==
  ASSUME NEW P, NEW s \in Seq(P), NEW p \in P, NEW cap \in Nat, Len(s) <= cap
  PROVE  Insert(s, cap, p) \in Seq(P) /\ Len(Insert(s, cap, p)) <= cap
<1>1. CASE Len(s) = cap
  BY <1>1 DEF Insert, Accepts
<1>2. CASE Len(s) < cap
  <2>1. CASE Insert(s, cap, p) = Append(s, p)
    BY <1>2, <2>1, AppendProperties
  <2>2. ASSUME NEW k \in Hits(s, p), Insert(s, cap, p) = [s EXCEPT ![k] = p]
        PROVE  Insert(s, cap, p) \in Seq(P) /\ Len(Insert(s, cap, p)) <= cap
    BY <1>2, <2>2, ExceptSeq DEF Hits
  <2> QED
    BY <1>2, <2>1, <2>2, InsertCases
<1> QED
  BY <1>1, <1>2

(* It takes the place of the packet about the same thing, if there is one.   *)
LEMMA InsertReplaces ==
  ASSUME NEW P, NEW s \in Seq(P), NEW p \in P, NEW cap \in Nat, Len(s) < cap,
         OnePerKey(s), p.kind \notin AppendOnlyKinds
  PROVE  /\ OnePerKey(Insert(s, cap, p))
         /\ Entries(Insert(s, cap, p)) = Others(s, p) \union {p}
<1>0. Len(s) \in Nat
  OBVIOUS
<1>1. \A k \in 1..Len(s) : k \in Hits(s, p) <=> Same(s[k], p)
  BY DEF Hits, SameKey, Same
<1>2. CASE Hits(s, p) = {} /\ Insert(s, cap, p) = Append(s, p)
  <2> DEFINE t == Append(s, p)
  <2>1. /\ Len(t) = Len(s) + 1 /\ t[Len(s) + 1] = p
        /\ \A k \in 1..Len(s) : t[k] = s[k] /\ ~Same(s[k], p)
    BY <1>1, <1>2, AppendProperties
  <2>2. \A k \in 1..Len(t) : k \in 1..Len(s) \/ k = Len(s) + 1
    BY <1>0, <2>1
  <2>3. Len(s) + 1 \in 1..Len(t) /\ 1..Len(s) \subseteq 1..Len(t)
    BY <1>0, <2>1
  <2> HIDE DEF t
  <2>4. OnePerKey(t)
    <3> SUFFICES ASSUME NEW i \in 1..Len(t), NEW j \in 1..Len(t), Same(t[i], t[j])
                 PROVE  i = j
      BY DEF OnePerKey
    <3>1. CASE i \in 1..Len(s) /\ j \in 1..Len(s)
      BY <2>1, <3>1 DEF OnePerKey
    <3>2. CASE i = Len(s) + 1 /\ j \in 1..Len(s)
      BY <2>1, <3>2 DEF Same
    <3>3. CASE i \in 1..Len(s) /\ j = Len(s) + 1
      BY <2>1, <3>3 DEF Same
    <3> QED
      BY <2>2, <3>1, <3>2, <3>3
  <2>5. Entries(t) = Others(s, p) \union {p}
    BY <2>1, <2>2, <2>3 DEF Entries, Others
  <2> QED
    BY <1>2, <2>4, <2>5 DEF t
<1>3. ASSUME NEW k \in Hits(s, p), Insert(s, cap, p) = [s EXCEPT ![k] = p]
      PROVE  /\ OnePerKey(Insert(s, cap, p))
             /\ Entries(Insert(s, cap, p)) = Others(s, p) \union {p}
  <2> DEFINE t == [s EXCEPT ![k] = p]
  <2>1. k \in 1..Len(s) /\ Same(s[k], p)
    BY <1>1 DEF Hits
  <2>2. Len(t) = Len(s) /\ \A j \in 1..Len(s) : t[j] = IF j = k THEN p ELSE s[j]
    BY <2>1, ExceptSeq
  <2>3. \A j \in 1..Len(s) : j # k => ~Same(s[j], p)
    BY <2>1 DEF OnePerKey, Same
  <2> HIDE DEF t
  <2>4. OnePerKey(t)
    BY <2>1, <2>2, <2>3 DEF OnePerKey, Same
  <2>5. Entries(t) = Others(s, p) \union {p}
    <3>1. \A e \in Entries(t) : e \in Others(s, p) \union {p}
      BY <2>2, <2>3 DEF Entries, Others
    <3>2. p \in Entries(t)
      BY <2>1, <2>2 DEF Entries
    <3>3. \A e \in Others(s, p) : e \in Entries(t)
      BY <2>1, <2>2 DEF Entries, Others
    <3> QED
      BY <3>1, <3>2, <3>3
  <2> QED
    BY <1>3, <2>4, <2>5 DEF t
<1> QED
  BY <1>2, <1>3, InsertCases

-----------------------------------------------------------------------------
(* Taking the oldest packet out.                                             *)
LEMMA TailDrops ==
  ASSUME NEW P, NEW s \in Seq(P), s # << >>, OnePerKey(s)
  PROVE  /\ Head(s) \in P /\ Head(s) \in Entries(s)
         /\ Tail(s) \in Seq(P) /\ Len(Tail(s)) < Len(s)
         /\ OnePerKey(Tail(s))
         /\ Entries(Tail(s)) = Others(s, Head(s))
<1>1. /\ Head(s) \in P /\ Tail(s) \in Seq(P) /\ Len(Tail(s)) = Len(s) - 1
      /\ \A i \in 1..Len(Tail(s)) : Tail(s)[i] = s[i + 1]
  BY HeadTailProperties
<1>2. Len(s) \in Nat \ {0} /\ Head(s) = s[1]
  BY EmptySeq
<1>3. \A i \in 1..Len(Tail(s)) : i + 1 \in 1..Len(s) /\ i + 1 # 1
  BY <1>1, <1>2
<1>4. \A i \in 1..Len(s) : i # 1 => i - 1 \in 1..Len(Tail(s)) /\ (i - 1) + 1 = i
  BY <1>1, <1>2
<1>5. OnePerKey(Tail(s))
  <2> SUFFICES ASSUME NEW i \in 1..Len(Tail(s)), NEW j \in 1..Len(Tail(s)),
                      Same(Tail(s)[i], Tail(s)[j])
               PROVE  i = j
    BY DEF OnePerKey
  <2>1. i + 1 = j + 1
    BY <1>1, <1>3 DEF OnePerKey
  <2> QED
    BY <1>1, <1>2, <2>1
<1>6. ASSUME NEW e \in Entries(Tail(s)) PROVE e \in Others(s, Head(s))
  <2>1. PICK i \in 1..Len(Tail(s)) : e = Tail(s)[i]
    BY DEF Entries
  <2>2. e = s[i + 1] /\ i + 1 \in 1..Len(s) /\ i + 1 # 1 /\ 1 \in 1..Len(s)
    BY <1>1, <1>2, <1>3, <2>1
  <2>3. ~Same(s[i + 1], s[1])
    BY <2>2 DEF OnePerKey
  <2> QED
    BY <1>2, <2>2, <2>3 DEF Entries, Others
<1>7. ASSUME NEW e \in Others(s, Head(s)) PROVE e \in Entries(Tail(s))
  <2>1. PICK i \in 1..Len(s) : e = s[i]
    BY DEF Entries, Others
  <2>2. i # 1
    BY <1>2, <2>1 DEF Others, Same
  <2>3. e = Tail(s)[i - 1] /\ i - 1 \in 1..Len(Tail(s))
    BY <1>1, <1>4, <2>1, <2>2
  <2> QED
    BY <2>3 DEF Entries
<1>8. Head(s) \in Entries(s) /\ Len(Tail(s)) < Len(s)
  BY <1>1, <1>2 DEF Entries
<1> QED
  BY <1>1, <1>5, <1>6, <1>7, <1>8

(* The oldest packet comes back with one repeat less, unless it was the last. *)
LEMMA RepeatReadRest ==
  ASSUME NEW P, NEW s \in Seq(P), s # << >>, OnePerKey(s), NEW cap \in Nat, Len(s) <= cap,
         Head(s).rep # 0, Head(s).kind \notin AppendOnlyKinds,
         RepeatRead(s, cap).packet \in P, Same(RepeatRead(s, cap).packet, Head(s))
  PROVE  LET r == RepeatRead(s, cap)
         IN  /\ r.rest \in Seq(P) /\ Len(r.rest) <= cap /\ OnePerKey(r.rest)
             /\ Entries(r.rest) = Others(s, Head(s)) \union {e \in {r.packet} : e.rep # 0}
<1> DEFINE r == RepeatRead(s, cap)
           p == SetRepeat(Head(s), Head(s).rep - 1)
<1>1. r.packet = p /\ r.rest = IF p.rep = 0 THEN Tail(s) ELSE Insert(Tail(s), cap, p)
  BY DEF RepeatRead, RepeatInsert
<1>0. p \in P /\ Same(p, Head(s))
  BY <1>1
<1> HIDE DEF p
<1>2. /\ Tail(s) \in Seq(P) /\ Len(Tail(s)) < Len(s) /\ OnePerKey(Tail(s))
      /\ Entries(Tail(s)) = Others(s, Head(s))
  BY TailDrops
<1>3. Len(Tail(s)) < cap /\ Len(Tail(s)) <= cap
  BY <1>2
<1>4. CASE p.rep = 0
  BY <1>1, <1>2, <1>3, <1>4
<1>5. CASE p.rep # 0
  <2>1. Insert(Tail(s), cap, p) \in Seq(P) /\ Len(Insert(Tail(s), cap, p)) <= cap
    BY <1>0, <1>2, <1>3, InsertIsASequence
  <2>2. p.kind \notin AppendOnlyKinds
    BY <1>0 DEF Same
  <2>3. /\ OnePerKey(Insert(Tail(s), cap, p))
        /\ Entries(Insert(Tail(s), cap, p)) = Others(Tail(s), p) \union {p}
    <3> DEFINE t == Tail(s)
    <3>1. t \in Seq(P) /\ Len(t) < cap /\ OnePerKey(t)
      BY <1>2, <1>3
    <3> HIDE DEF t
    <3>2. OnePerKey(Insert(t, cap, p)) /\ Entries(Insert(t, cap, p)) = Others(t, p) \union {p}
      BY <1>0, <2>2, <3>1, InsertReplaces
    <3> QED
      BY <3>2 DEF t
  <2>4. Others(Tail(s), p) = Others(s, Head(s))
    BY <1>0, <1>2 DEF Others, Same
  <2> QED
    BY <1>1, <1>5, <2>1, <2>3, <2>4
<1> QED
  BY <1>4, <1>5

(* A packet of the periodic refresh goes to the end of the queue.            *)
LEMMA TemporalReadRest ==
  ASSUME NEW P, NEW s \in Seq(P), s # << >>, OnePerKey(s), NEW cap \in Nat, Len(s) <= cap,
         Head(s).kind \notin AppendOnlyKinds
  PROVE  LET r == TemporalRead(s, cap)
         IN  /\ r.packet = Head(s)
             /\ r.rest \in Seq(P) /\ Len(r.rest) <= cap /\ OnePerKey(r.rest)
             /\ Entries(r.rest) = Entries(s)
<1>1. /\ Head(s) \in P /\ Head(s) \in Entries(s)
      /\ Tail(s) \in Seq(P) /\ Len(Tail(s)) < Len(s) /\ OnePerKey(Tail(s))
      /\ Entries(Tail(s)) = Others(s, Head(s))
  BY TailDrops
<1>2. Len(Tail(s)) < cap /\ Len(Tail(s)) <= cap
  BY <1>1
<1>3. /\ Insert(Tail(s), cap, Head(s)) \in Seq(P)
      /\ Len(Insert(Tail(s), cap, Head(s))) <= cap
  BY <1>1, <1>2, InsertIsASequence
<1>4. /\ OnePerKey(Insert(Tail(s), cap, Head(s)))
      /\ Entries(Insert(Tail(s), cap, Head(s))) = Others(Tail(s), Head(s)) \union {Head(s)}
  <2> DEFINE t == Tail(s)
             h == Head(s)
  <2>1. t \in Seq(P) /\ Len(t) < cap /\ OnePerKey(t) /\ h \in P /\ h.kind \notin AppendOnlyKinds
    BY <1>1, <1>2
  <2> HIDE DEF t, h
  <2>2. OnePerKey(Insert(t, cap, h)) /\ Entries(Insert(t, cap, h)) = Others(t, h) \union {h}
    BY <2>1, InsertReplaces
  <2> QED
    BY <2>2 DEF t, h
<1>5. ASSUME NEW e \in Entries(s), Same(e, Head(s)) PROVE e = Head(s)
  <2>1. PICK i \in 1..Len(s) : e = s[i]
    BY DEF Entries
  <2>2. 1 \in 1..Len(s) /\ Head(s) = s[1]
    BY EmptySeq
  <2> QED
    BY <1>5, <2>1, <2>2 DEF OnePerKey
<1>6. Others(Tail(s), Head(s)) \union {Head(s)} = Entries(s)
  BY <1>1, <1>5 DEF Others
<1> QED
  BY <1>3, <1>4, <1>6 DEF TemporalRead

-----------------------------------------------------------------------------
(* A queue with one packet for each of the keys K holds no more than that.   *)
LEMMA NoMoreThanKeys ==
  ASSUME NEW P, NEW s \in Seq(P), OnePerKey(s),
         NEW K, IsFiniteSet(K), \A p \in Entries(s) : <<p.addr, p.kind>> \in K
  PROVE  Len(s) <= Cardinality(K)
<1> DEFINE f == [i \in 1..Len(s) |-> <<s[i].addr, s[i].kind>>]
<1>1. Len(s) \in Nat
  OBVIOUS
<1>2. \A i \in 1..Len(s) : s[i] \in Entries(s)
  BY DEF Entries
<1>3. f \in [1..Len(s) -> K]
  BY <1>2
<1>4. f \in Injection(1..Len(s), K)
  BY <1>3 DEF Injection, IsInjective, OnePerKey, Same
<1>5. Cardinality(1..Len(s)) <= Cardinality(K)
  BY <1>4, FS_Injection
<1>6. Cardinality(1..Len(s)) = IF 1 > Len(s) THEN 0 ELSE Len(s) - 1 + 1
  BY <1>1, FS_Interval
<1> HIDE DEF f
<1> QED
  BY <1>1, <1>5, <1>6

-----------------------------------------------------------------------------
(***************************************************************************)
(* The registers of the scheduler.                                         *)
(***************************************************************************)

(* No call names loco 0: the setters refuse it, the getters do not.        *)
NoLocoZero == \A x \in Applications : 0 \notin x.loco \union x.queried

(* The slots hold registers of locos that were asked for.                  *)
SlotsOK == app \in Applications /\ IsArray(Register)

-----------------------------------------------------------------------------
(* Every call that looks a loco up writes one register, its own; the others *)
(* leave the registers alone.                                               *)
TouchesOneRegister ==
  \/ UNCHANGED register
  \/ \E a \in Loco \union Queried, reg \in Register :
       reg.adr = a /\ LookupAndWrite(a, reg)

(* A lookup yields a register of the right type.                            *)
LEMMA RegisterIsTyped ==
  ASSUME SlotsOK, NEW a \in Loco \union Queried
  PROVE  RegisterOf(a) \in Register /\ RegisterOf(a).adr = a
<1>1. NewSlot(a) \in Register
  BY DEF NewSlot, Register
<1>2. SlotOf(slots, slotFullNext, a) \in Slot /\ slots \in [Slot -> Register]
  BY SlotOfIsASlot DEF SlotsOK, IsArray
<1> QED
  BY <1>1, <1>2, LookupFinds DEF SlotsOK

LEMMA NextTouchesOneRegister ==
  ASSUME SlotsOK, Next
  PROVE  TouchesOneRegister /\ app' = app
<1>1. CASE update
  <2>1. UNCHANGED registers
    BY <1>1 DEF update, UpdateFromOps, UpdateFromEStop, UpdateFromRepeat, UpdateFromPeriodic
  <2> QED
    BY <1>1, <2>1 DEF update, TouchesOneRegister, registers
<1>2. ASSUME Application, UNCHANGED app PROVE TouchesOneRegister
  <2>1. ASSUME NEW a \in Loco, NEW s \in Speed, SetSpeed(a, s) PROVE TouchesOneRegister
    <3> DEFINE reg == [RegisterOf(a) EXCEPT !.speed = s]
    <3>1. RegisterOf(a) \in Register /\ RegisterOf(a).adr = a
      BY RegisterIsTyped
    <3>2. reg \in Register /\ reg.adr = a
      BY <3>1 DEF Register
    <3>3. LookupAndWrite(a, reg)
      BY <2>1 DEF SetSpeed
    <3> QED
      BY <3>2, <3>3 DEF TouchesOneRegister
  <2>2. ASSUME NEW a \in Loco, NEW f \in Function, NEW type \in {"AUS", "EIN", "UM"},
               SetLocoFunc(a, f, type)
        PROVE  TouchesOneRegister
    <3> DEFINE group == FunctionGroup[GroupOf(f)]
               base == RegisterOf(a).fn \intersect group
               on == type = "EIN" \/ (type = "UM" /\ f \notin base)
               bits == IF on THEN base \union {f} ELSE base \ {f}
               stored == (RegisterOf(a).fn \ group) \union (bits \intersect Stored)
               reg == [RegisterOf(a) EXCEPT !.fn = stored]
    <3>1. RegisterOf(a) \in Register /\ RegisterOf(a).adr = a
      BY RegisterIsTyped
    <3>2. RegisterOf(a).fn \subseteq Function \intersect Stored
      BY <3>1 DEF Register
    <3>3. stored \subseteq Function \intersect Stored
      BY <3>2
    <3>4. reg \in Register /\ reg.adr = a
      <4> HIDE DEF stored
      <4> QED
        BY <3>1, <3>3 DEF Register
    <3>5. LookupAndWrite(a, reg)
      BY <2>2 DEF SetLocoFunc
    <3> QED
      BY <3>4, <3>5 DEF TouchesOneRegister
  <2>3. ASSUME NEW a \in Queried, Query(a) PROVE TouchesOneRegister
    <3>1. LookupAndWrite(a, RegisterOf(a))
      BY <2>3, GetterWrites DEF Query, SlotsOK
    <3> QED
      BY <3>1, RegisterIsTyped DEF TouchesOneRegister
  <2>4. ASSUME NEW a, NEW b, SetLocoFuncBinary(a, b) PROVE TouchesOneRegister
    BY <2>4 DEF SetLocoFuncBinary, TouchesOneRegister, registers
  <2>5. ASSUME NEW t, NEW pos, NEW activ, SetBasicAccessoryPos(t, pos, activ)
        PROVE  TouchesOneRegister
    BY <2>5 DEF SetBasicAccessoryPos, TouchesOneRegister
  <2>6. ASSUME NEW t, NEW aspect, SetExtAccessoryPos(t, aspect) PROVE TouchesOneRegister
    BY <2>6 DEF SetExtAccessoryPos, TouchesOneRegister, registers
  <2>7. ASSUME NEW a, NEW order, ProgramOnMain(a, order) PROVE TouchesOneRegister
    BY <2>7 DEF ProgramOnMain, TouchesOneRegister, registers
  <2>8. ASSUME NEW state, SetPower(state) PROVE TouchesOneRegister
    BY <2>8 DEF SetPower, TouchesOneRegister, registers
  <2>9. CASE EStop
    BY <2>9 DEF EStop, TouchesOneRegister, registers
  <2> QED
    BY <1>2, <2>1, <2>2, <2>3, <2>4, <2>5, <2>6, <2>7, <2>8, <2>9 DEF Application
<1> QED
  BY <1>1, <1>2 DEF Next, update

-----------------------------------------------------------------------------
RegisterIInv == SlotsOK /\ RegisterInv

(* The registers are sound after setup().                                   *)
LEMMA InitRegisterIInv == Init => RegisterIInv
<1> SUFFICES ASSUME Init PROVE RegisterIInv
  OBVIOUS
<1>1. IsArray({EmptySlot}) /\ RegisterInv
  BY RegisterInitInv DEF Init
<1>2. EmptySlot \in Register
  BY DEF EmptySlot, Register
<1> QED
  BY <1>1, <1>2 DEF Init, RegisterIInv, SlotsOK, IsArray

(* Every step keeps them so.                                                *)
LEMMA NextRegisterIInv ==
  ASSUME NoLocoZero, RegisterIInv, [Next]_vars
  PROVE  RegisterIInv'
<1>1. TouchesOneRegister /\ app' = app
  <2>1. CASE Next
    BY <2>1, NextTouchesOneRegister DEF RegisterIInv
  <2>2. CASE UNCHANGED vars
    BY <2>2 DEF vars, registers, TouchesOneRegister
  <2> QED
    BY <2>1, <2>2
<1>2. Register' = Register
  BY <1>1 DEF Register, Loco, Queried, Speed, Function
<1>3. CASE UNCHANGED register
  BY <1>1, <1>2, <1>3 DEF register, RegisterIInv, SlotsOK, IsArray, RegisterInv,
     NoLocoBehindHole, OneSlotPerLoco, Occupied
<1>4. ASSUME NEW a \in Loco \union Queried, NEW reg \in Register,
             reg.adr = a, LookupAndWrite(a, reg)
      PROVE  RegisterIInv'
  <2>1. a # 0
    BY DEF NoLocoZero, RegisterIInv, SlotsOK, Loco, Queried
  <2>2. RegisterInv'
    BY <1>4, <2>1, WriteKeepsInv DEF RegisterIInv, SlotsOK
  <2>3. Register \union {reg} = Register
    OBVIOUS
  <2>4. slots' \in [Slot -> Register'] /\ slotFullNext' \in Slot
    BY <1>2, <1>4, <2>3, OneSlotWritten DEF RegisterIInv, SlotsOK
  <2> QED
    BY <1>1, <2>2, <2>4 DEF RegisterIInv, SlotsOK, IsArray
<1> QED
  BY <1>1, <1>3, <1>4 DEF TouchesOneRegister

LEMMA SpecRegisterIInv == ASSUME NoLocoZero PROVE Spec => []RegisterIInv
BY InitRegisterIInv, NextRegisterIInv, PTL DEF Spec

-----------------------------------------------------------------------------
(* The search of LokStsgetSlot is right to stop at an empty slot: no loco is  *)
(* ever registered behind one.                                               *)
THEOREM NoHoles == ASSUME NoLocoZero PROVE Spec => []NoLocoBehindHole
<1>1. RegisterIInv => NoLocoBehindHole
  BY DEF RegisterIInv, RegisterInv
<1> QED
  BY <1>1, SpecRegisterIInv, PTL

(* However lookups, orders and evictions follow each other, a loco has one    *)
(* register: what one call stores the next one reads.                        *)
THEOREM OneRegister == ASSUME NoLocoZero PROVE Spec => []OneSlotPerLoco
<1>1. RegisterIInv => OneSlotPerLoco
  BY DEF RegisterIInv, RegisterInv
<1> QED
  BY <1>1, SpecRegisterIInv, PTL

(* A call costs another loco its register only when every slot is taken, and  *)
(* then only the loco whose turn it is.                                      *)
THEOREM EvictionIsFair == ASSUME NoLocoZero PROVE Spec => EvictsOnlyWhenFull
<1> DEFINE A == \A i \in Occupied : slots'[i].adr # slots[i].adr =>
                  /\ Occupied = Slot
                  /\ i = slotFullNext
                  /\ \A j \in Slot \ {i} : slots'[j] = slots[j]
<1>1. ASSUME RegisterIInv, [Next]_vars PROVE [A]_register
  <2>1. CASE Next
    <3>1. TouchesOneRegister
      BY <1>1, <2>1, NextTouchesOneRegister DEF RegisterIInv
    <3>2. ASSUME NEW a \in Loco \union Queried, NEW reg \in Register,
                 reg.adr = a, LookupAndWrite(a, reg)
          PROVE  A
      BY <1>1, <3>2, WriteEvictsInTurn DEF RegisterIInv, SlotsOK
    <3> QED
      BY <3>1, <3>2 DEF TouchesOneRegister
  <2>2. CASE UNCHANGED vars
    BY <2>2 DEF vars, registers
  <2> QED
    BY <1>1, <2>1, <2>2
<1> QED
  BY <1>1, SpecRegisterIInv, PTL DEF Spec, EvictsOnlyWhenFull

-----------------------------------------------------------------------------
(***************************************************************************)
(* The types of the state: every queue holds the kinds of packet it is     *)
(* meant for and never more than it has places.                            *)
(***************************************************************************)

Accessory == Turnout \union Signal

(* What the setters make of the arguments the program gives them.           *)
OrderPackets ==
  {p \in [addr : Loco, kind : {"speed"} \union FunctionKinds,
          data : Speed \union [group : 1..10, on : SUBSET (0..68)], rep : 0..RepeatMod - 1] :
     IsLocoPacket(p)}

RepeatPackets == {p \in OrderPackets : p.rep # 0}

EStopPackets ==
  [addr : {0} \union Loco \union {(t + TrntFormat) \div 4 : t \in Accessory},
   kind : {"e_stop", "fn_b", "basic_accessory", "extended_accessory"},
   data : {"none"} \union app.binaryState \union
          [port : {(t + TrntFormat) % 4 : t \in Accessory},
           order : (Position \X app.activ) \union {"red", "green"}],
   rep : 0..RepeatMod - 1]

ProgPackets ==
  [addr : {0} \union Loco, kind : {"ops_mode", "pom"},
   data : {"none"} \union app.pomOrder, rep : 0..RepeatMod - 1]

Told(w, none) ==
  w \in [speed : [Loco -> none \union Speed], fn : {w.fn}, turnout : {w.turnout},
         signal : {w.signal}, pom : {w.pom}, resets : {w.resets}]

QueueTyped(s, P, cap) == s \in Seq(P) /\ Len(s) <= cap

QueuesTyped ==
  /\ QueueTyped(repeat_queue, RepeatPackets, REPEAT_QUEUE_SIZE)
  /\ QueueTyped(periodic_refresh_queue, OrderPackets, PERIODIC_REFRESH_QUEUE_SIZE)
  /\ QueueTyped(e_stop_queue, EStopPackets, E_STOP_QUEUE_SIZE)
  /\ QueueTyped(ops_programmming_queue, ProgPackets, PROG_QUEUE_SIZE)

TypeIInv ==
  /\ RegisterIInv
  /\ railpower \in {"ON", "OFF", "ESTOP", "SHORT"}
  /\ BasicAccessory \in [Turnout -> Position]
  /\ QueuesTyped
  /\ packet_counter \in 0..ONCE_REFRESH_INTERVAL - 1
  /\ Told(heard, {"none", "estop"})
  /\ Told(wanted, {"none"})

-----------------------------------------------------------------------------
LEMMA GroupOfAny ==
  ASSUME NEW f \in 0..68
  PROVE  GroupOf(f) \in 1..10 /\ FunctionGroup[GroupOf(f)] \subseteq 0..68 /\ f \in FunctionGroup[GroupOf(f)]
<1>1. /\ DOMAIN FunctionGroup = 1..10
      /\ \A g \in 1..10 : FunctionGroup[g] \subseteq 0..68
      /\ \E g \in 1..10 : f \in FunctionGroup[g]
  BY DEF FunctionGroup
<1>2. GroupOf(f) \in DOMAIN FunctionGroup /\ f \in FunctionGroup[GroupOf(f)]
  BY <1>1 DEF GroupOf
<1> QED
  BY <1>1, <1>2

LEMMA KindOfAny == \A g \in 1..10 : FunctionKind(g) \in FunctionKinds
BY DEF FunctionKind, FunctionKinds

(* Six bits of a repeat count.                                               *)
LEMMA Masked == \A n \in Int : n % RepeatMod \in 0..RepeatMod - 1
BY ConfigurationAssumption

LEMMA SpeedPacketTyped ==
  ASSUME NEW a \in Loco, NEW s \in Speed
  PROVE  SpeedPacket(a, s) \in OrderPackets
<1>1. SPEED_REPEAT % RepeatMod \in 0..RepeatMod - 1
  BY Masked, ConfigurationAssumption
<1> QED
  BY <1>1 DEF SpeedPacket, DCCPacket, SetRepeat, OrderPackets, IsLocoPacket

LEMMA FunctionPacketTyped ==
  ASSUME NEW a \in Loco, NEW f \in 0..68, NEW bits \in SUBSET FunctionGroup[GroupOf(f)]
  PROVE  FunctionPacket(a, GroupOf(f), bits) \in OrderPackets
<1> DEFINE g == GroupOf(f)
<1>1. FUNCTION_REPEAT % RepeatMod \in 0..RepeatMod - 1
  BY Masked, ConfigurationAssumption
<1>2. g \in 1..10 /\ bits \subseteq FunctionGroup[g] /\ bits \subseteq 0..68 /\ FunctionKind(g) \in FunctionKinds
  BY GroupOfAny, KindOfAny
<1> HIDE DEF g
<1>3. FunctionPacket(a, g, bits) \in OrderPackets
  BY <1>1, <1>2 DEF FunctionPacket, DCCPacket, SetRepeat, OrderPackets, IsLocoPacket
<1> QED
  BY <1>3 DEF g

(* Counting down a repeat count keeps the type of a packet.                  *)
LEMMA StillTyped ==
  /\ \A p \in OrderPackets : SetRepeat(p, p.rep - 1) \in OrderPackets
  /\ \A p \in EStopPackets : SetRepeat(p, p.rep - 1) \in EStopPackets
  /\ \A p \in ProgPackets : SetRepeat(p, p.rep - 1) \in ProgPackets
<1>1. \A r \in 0..RepeatMod - 1 : (r - 1) % RepeatMod \in 0..RepeatMod - 1
  BY Masked, ConfigurationAssumption
<1>2. ASSUME NEW p \in OrderPackets PROVE SetRepeat(p, p.rep - 1) \in OrderPackets
  BY <1>1 DEF OrderPackets, SetRepeat, IsLocoPacket
<1>3. ASSUME NEW p \in EStopPackets PROVE SetRepeat(p, p.rep - 1) \in EStopPackets
  BY <1>1 DEF EStopPackets, SetRepeat
<1>4. ASSUME NEW p \in ProgPackets PROVE SetRepeat(p, p.rep - 1) \in ProgPackets
  BY <1>1 DEF ProgPackets, SetRepeat
<1> QED
  BY <1>2, <1>3, <1>4

-----------------------------------------------------------------------------
(* An emergency queue hands out its first packet and keeps its type.         *)
LEMMA EmergencyReadTyped ==
  ASSUME NEW P, NEW s, s # << >>, NEW cap \in Nat, QueueTyped(s, P, cap),
         \A p \in P : SetRepeat(p, p.rep - 1) \in P
  PROVE  LET r == EmergencyRead(s) IN r.packet \in P /\ QueueTyped(r.rest, P, cap)
<1> DEFINE p == SetRepeat(Head(s), Head(s).rep - 1)
<1>1. s \in Seq(P) /\ Len(s) \in Nat \ {0} /\ Len(s) <= cap
  BY EmptySeq DEF QueueTyped
<1>2. Head(s) \in P /\ Tail(s) \in Seq(P) /\ Len(Tail(s)) = Len(s) - 1
  BY <1>1, HeadTailProperties
<1>3. p \in P
  BY <1>2
<1> HIDE DEF p
<1>4. [s EXCEPT ![1] = p] \in Seq(P) /\ Len([s EXCEPT ![1] = p]) = Len(s)
  BY <1>1, <1>3, ExceptSeq
<1>5. QueueTyped(Tail(s), P, cap) /\ QueueTyped([s EXCEPT ![1] = p], P, cap)
  BY <1>1, <1>2, <1>4 DEF QueueTyped
<1> QED
  BY <1>3, <1>5 DEF EmergencyRead, p

(* A packet that is sent changes what the decoders know by its kind.         *)
LEMMA SendTyped ==
  ASSUME TypeIInv, app' = app, NEW p, Send(p),
         p \in OrderPackets \/ p \in EStopPackets \/ p \in ProgPackets \/ p = IdlePacket
  PROVE  Told(heard, {"none", "estop"})' /\ packet_counter' \in 0..ONCE_REFRESH_INTERVAL - 1
<1>1. packet_counter' \in 0..ONCE_REFRESH_INTERVAL - 1
  <2>1. packet_counter + 1 \in Int /\ ONCE_REFRESH_INTERVAL \in Nat \ {0}
    BY ConfigurationAssumption DEF TypeIInv
  <2> QED
    BY <2>1 DEF Send
<1>2. p.kind = "speed" => p.data \in Speed
  BY DEF OrderPackets, IsLocoPacket, FunctionKinds, EStopPackets, ProgPackets,
     IdlePacket, DCCPacket, SetRepeat
<1>3. Told(Heed(heard, p), {"none", "estop"})
  BY <1>2 DEF TypeIInv, Told, Heed
<1>4. Loco' = Loco /\ Speed' = Speed
  BY DEF Loco, Speed
<1>5. heard' = Heed(heard, p) \/ heard' = heard
  BY DEF Send
<1> QED
  BY <1>1, <1>3, <1>4, <1>5 DEF TypeIInv, Told

(* The two ways a packet gets into a queue.                                  *)
LEMMA InsertTyped ==
  ASSUME NEW P, NEW s, NEW cap \in Nat, QueueTyped(s, P, cap), NEW p \in P
  PROVE  QueueTyped(Insert(s, cap, p), P, cap) /\ QueueTyped(RepeatInsert(s, cap, p), P, cap)
BY InsertIsASequence DEF QueueTyped, RepeatInsert

LEMMA RepeatInsertTyped ==
  ASSUME NEW s, QueueTyped(s, RepeatPackets, REPEAT_QUEUE_SIZE), NEW p \in OrderPackets
  PROVE  QueueTyped(RepeatInsert(s, REPEAT_QUEUE_SIZE, p), RepeatPackets, REPEAT_QUEUE_SIZE)
<1>1. CASE p.rep = 0
  BY <1>1 DEF RepeatInsert
<1>2. CASE p.rep # 0
  <2>1. p \in RepeatPackets /\ REPEAT_QUEUE_SIZE \in Nat
    BY <1>2, ConfigurationAssumption DEF RepeatPackets
  <2> QED
    BY <2>1, InsertTyped
<1> QED
  BY <1>1, <1>2

(* The first packet of a queue, and the queue without it.                    *)
LEMMA TailTyped ==
  ASSUME NEW P, NEW s, s # << >>, NEW cap \in Nat, QueueTyped(s, P, cap)
  PROVE  Head(s) \in P /\ QueueTyped(Tail(s), P, cap)
<1>1. s \in Seq(P) /\ Len(s) \in Nat \ {0} /\ Len(s) <= cap
  BY EmptySeq DEF QueueTyped
<1>2. Head(s) \in P /\ Tail(s) \in Seq(P) /\ Len(Tail(s)) = Len(s) - 1
  BY <1>1, HeadTailProperties
<1> QED
  BY <1>1, <1>2 DEF QueueTyped

LEMMA QueueSizes ==
  /\ REPEAT_QUEUE_SIZE \in Nat /\ PERIODIC_REFRESH_QUEUE_SIZE \in Nat
  /\ E_STOP_QUEUE_SIZE \in Nat /\ PROG_QUEUE_SIZE \in Nat
BY ConfigurationAssumption

(* What the sets of packets are made of does not change.                     *)
LEMMA SetsFixed ==
  ASSUME app' = app
  PROVE  /\ RepeatPackets' = RepeatPackets /\ OrderPackets' = OrderPackets
         /\ EStopPackets' = EStopPackets /\ ProgPackets' = ProgPackets
         /\ Loco' = Loco /\ Speed' = Speed /\ Turnout' = Turnout
<1>1. Loco' = Loco /\ Speed' = Speed /\ Turnout' = Turnout /\ Signal' = Signal
  BY DEF Loco, Speed, Turnout, Signal
<1>2. OrderPackets' = OrderPackets
  BY <1>1 DEF OrderPackets, IsLocoPacket
<1> QED
  BY <1>1, <1>2 DEF RepeatPackets, EStopPackets, ProgPackets, Accessory

-----------------------------------------------------------------------------
LEMMA InitTypeIInv == ASSUME Init PROVE TypeIInv
<1>1. RegisterIInv
  BY InitRegisterIInv
<1>2. ResetPacket \in ProgPackets
  <2>1. RSTsRepeat % RepeatMod \in 0..RepeatMod - 1
    BY Masked, ConfigurationAssumption
  <2> QED
    BY <2>1 DEF ResetPacket, DCCPacket, SetRepeat, ProgPackets
<1>3. QueuesTyped
  <2>1. PROG_QUEUE_SIZE \in Nat \ {0}
    BY ConfigurationAssumption
  <2> QED
    BY <1>2, <2>1, QueueSizes DEF Init, QueuesTyped, QueueTyped
<1>4. packet_counter \in 0..ONCE_REFRESH_INTERVAL - 1
  BY ConfigurationAssumption DEF Init
<1>5. Told(heard, {"none", "estop"}) /\ Told(wanted, {"none"})
  BY DEF Init, Told
<1> QED
  BY <1>1, <1>3, <1>4, <1>5 DEF TypeIInv, Init, Position

(* update(), whichever queue the packet comes from.                          *)
LEMMA UpdateTyped ==
  ASSUME TypeIInv, RegisterIInv', update
  PROVE  TypeIInv'
<1>1. UNCHANGED <<app, railpower, register, BasicAccessory, wanted>>
  BY DEF update, UpdateFromOps, UpdateFromEStop, UpdateFromRepeat, UpdateFromPeriodic, registers
<1>2. Told(wanted, {"none"})'
  BY <1>1, SetsFixed DEF TypeIInv, Told
<1>3. SUFFICES /\ QueuesTyped'
               /\ Told(heard, {"none", "estop"})' /\ packet_counter' \in 0..ONCE_REFRESH_INTERVAL - 1
  BY <1>1, <1>2, SetsFixed DEF TypeIInv
<1>4. CASE UpdateFromOps
  <2>1. LET r == EmergencyRead(ops_programmming_queue)
        IN  r.packet \in ProgPackets /\ QueueTyped(r.rest, ProgPackets, PROG_QUEUE_SIZE)
    BY <1>4, EmergencyReadTyped, StillTyped, QueueSizes DEF UpdateFromOps, TypeIInv, QueuesTyped
  <2> QED
    BY <1>1, <1>4, <2>1, SendTyped, SetsFixed DEF UpdateFromOps, TypeIInv, QueuesTyped
<1>5. CASE UpdateFromEStop
  <2>1. LET r == EmergencyRead(e_stop_queue)
        IN  r.packet \in EStopPackets /\ QueueTyped(r.rest, EStopPackets, E_STOP_QUEUE_SIZE)
    BY <1>5, EmergencyReadTyped, StillTyped, QueueSizes
       DEF UpdateFromEStop, EStopTurn, EStopRetry, TypeIInv, QueuesTyped
  <2> QED
    BY <1>1, <1>5, <2>1, SendTyped, SetsFixed DEF UpdateFromEStop, TypeIInv, QueuesTyped
<1>6. CASE UpdateFromRepeat
  <2> DEFINE h == Head(repeat_queue)
             p == SetRepeat(h, h.rep - 1)
             r == RepeatRead(repeat_queue, REPEAT_QUEUE_SIZE)
  <2>1. h \in RepeatPackets /\ QueueTyped(Tail(repeat_queue), RepeatPackets, REPEAT_QUEUE_SIZE)
    BY <1>6, TailTyped, QueueSizes DEF UpdateFromRepeat, TypeIInv, QueuesTyped
  <2>2. p \in OrderPackets
    BY <2>1, StillTyped DEF RepeatPackets
  <2>3. r.packet = p /\ r.rest = RepeatInsert(Tail(repeat_queue), REPEAT_QUEUE_SIZE, p)
    BY <2>1 DEF RepeatRead, RepeatPackets
  <2>4. QueueTyped(r.rest, RepeatPackets, REPEAT_QUEUE_SIZE)
    BY <2>1, <2>2, <2>3, RepeatInsertTyped
  <2>5. QueueTyped(Insert(periodic_refresh_queue, PERIODIC_REFRESH_QUEUE_SIZE, p),
                   OrderPackets, PERIODIC_REFRESH_QUEUE_SIZE)
    BY <2>2, InsertTyped, QueueSizes DEF TypeIInv, QueuesTyped
  <2>6. /\ repeat_queue' = r.rest /\ Send(p) /\ UNCHANGED <<e_stop_queue, ops_programmming_queue>>
        /\ periodic_refresh_queue' = Insert(periodic_refresh_queue, PERIODIC_REFRESH_QUEUE_SIZE, p)
    BY <1>6, <2>3 DEF UpdateFromRepeat
  <2> HIDE DEF h, p, r
  <2> QED
    BY <1>1, <2>2, <2>4, <2>5, <2>6, SendTyped, SetsFixed DEF TypeIInv, QueuesTyped
<1>7. CASE UpdateFromPeriodic
  <2> DEFINE r == TemporalRead(periodic_refresh_queue, PERIODIC_REFRESH_QUEUE_SIZE)
  <2>1. UNCHANGED <<e_stop_queue, repeat_queue, ops_programmming_queue>>
    BY <1>7 DEF UpdateFromPeriodic
  <2>2. CASE periodic_refresh_queue = << >>
    <3>1. Send(IdlePacket) /\ UNCHANGED periodic_refresh_queue
      BY <1>7, <2>2 DEF UpdateFromPeriodic
    <3> QED
      BY <1>1, <2>1, <3>1, SendTyped, SetsFixed DEF TypeIInv, QueuesTyped
  <2>3. CASE periodic_refresh_queue # << >>
    <3>1. /\ Head(periodic_refresh_queue) \in OrderPackets
          /\ QueueTyped(Tail(periodic_refresh_queue), OrderPackets, PERIODIC_REFRESH_QUEUE_SIZE)
      BY <2>3, TailTyped, QueueSizes DEF TypeIInv, QueuesTyped
    <3>2. r.packet \in OrderPackets /\ QueueTyped(r.rest, OrderPackets, PERIODIC_REFRESH_QUEUE_SIZE)
      BY <3>1, InsertTyped, QueueSizes DEF TemporalRead
    <3>3. Send(r.packet) /\ periodic_refresh_queue' = r.rest
      BY <1>7, <2>3 DEF UpdateFromPeriodic
    <3> HIDE DEF r
    <3> QED
      BY <1>1, <2>1, <3>2, <3>3, SendTyped, SetsFixed DEF TypeIInv, QueuesTyped
  <2> QED
    BY <2>2, <2>3
<1> QED
  BY <1>4, <1>5, <1>6, <1>7 DEF update

(* The packets that the application puts into the emergency queue.           *)
LEMMA EmergencyPackets ==
  /\ EStopPacket \in EStopPackets
  /\ \A a \in Loco, b \in app.binaryState : DCCPacket(a, "fn_b", b, FUNCTION_REPEAT) \in EStopPackets
  /\ \A t \in Accessory, order \in (Position \X app.activ) \union {"red", "green"} :
       TurnoutPacket(t, order) \in EStopPackets /\ SignalPacket(t, order) \in EStopPackets
<1>1. \A n \in Nat : n % RepeatMod \in 0..RepeatMod - 1
  BY Masked
<1>2. E_STOP_REPEAT \in Nat /\ FUNCTION_REPEAT \in Nat /\ OTHER_REPEAT \in Nat
  BY ConfigurationAssumption
<1>3. EStopPacket \in EStopPackets
  BY <1>1, <1>2 DEF EStopPacket, DCCPacket, SetRepeat, EStopPackets
<1>4. \A a \in Loco, b \in app.binaryState : DCCPacket(a, "fn_b", b, FUNCTION_REPEAT) \in EStopPackets
  BY <1>1, <1>2 DEF DCCPacket, SetRepeat, EStopPackets
<1>5. \A t \in Accessory, order \in (Position \X app.activ) \union {"red", "green"} :
        TurnoutPacket(t, order) \in EStopPackets /\ SignalPacket(t, order) \in EStopPackets
  BY <1>1, <1>2 DEF TurnoutPacket, SignalPacket, AccessoryPacket, DCCPacket, SetRepeat, EStopPackets
<1> QED
  BY <1>3, <1>4, <1>5

(* The calls of the application.                                             *)
LEMMA ApplicationTyped ==
  ASSUME TypeIInv, RegisterIInv', Application, app' = app
  PROVE  TypeIInv'
<1>0. QueuesTyped /\ SlotsOK /\ app \in Applications
  BY DEF TypeIInv, RegisterIInv, SlotsOK
<1>1. ASSUME NEW a \in Loco, NEW s \in Speed, SetSpeed(a, s) PROVE TypeIInv'
  <2> DEFINE p == SpeedPacket(a, s)
  <2>1. p \in OrderPackets
    BY SpeedPacketTyped
  <2>2. QueueTyped(RepeatInsert(repeat_queue, REPEAT_QUEUE_SIZE, p), RepeatPackets, REPEAT_QUEUE_SIZE)
    BY <1>0, <2>1, RepeatInsertTyped DEF QueuesTyped
  <2>3. QueueTyped(Insert(periodic_refresh_queue, PERIODIC_REFRESH_QUEUE_SIZE, p),
                   OrderPackets, PERIODIC_REFRESH_QUEUE_SIZE)
    BY <1>0, <2>1, InsertTyped, QueueSizes DEF QueuesTyped
  <2>4. /\ UNCHANGED <<railpower, BasicAccessory, e_stop_queue, ops_programmming_queue,
                       packet_counter, heard>>
        /\ repeat_queue' \in {repeat_queue, RepeatInsert(repeat_queue, REPEAT_QUEUE_SIZE, p)}
        /\ periodic_refresh_queue' \in
             {periodic_refresh_queue, Insert(periodic_refresh_queue, PERIODIC_REFRESH_QUEUE_SIZE, p)}
        /\ wanted' = wanted \/ wanted' = [wanted EXCEPT !.speed[a] = s]
    BY <1>1 DEF SetSpeed
  <2> HIDE DEF p
  <2>5. Told(wanted, {"none"})'
    BY <2>4, SetsFixed DEF TypeIInv, Told
  <2>6. Told(heard, {"none", "estop"})'
    BY <2>4, SetsFixed DEF TypeIInv, Told
  <2>7. QueuesTyped'
    BY <1>0, <2>2, <2>3, <2>4, SetsFixed DEF QueuesTyped
  <2> QED
    BY <2>4, <2>5, <2>6, <2>7, SetsFixed DEF TypeIInv
<1>2. ASSUME NEW a \in Loco, NEW f \in Function, NEW type \in {"AUS", "EIN", "UM"},
             SetLocoFunc(a, f, type)
      PROVE  TypeIInv'
  <2> DEFINE group == FunctionGroup[GroupOf(f)]
             base == RegisterOf(a).fn \intersect group
             on == type = "EIN" \/ (type = "UM" /\ f \notin base)
             bits == IF on THEN base \union {f} ELSE base \ {f}
             p == FunctionPacket(a, GroupOf(f), bits)
  <2>1. f \in 0..68
    BY <1>0, ApplicationsAssumption DEF Function
  <2>2. bits \subseteq group
    BY <2>1, GroupOfAny
  <2>3. p \in OrderPackets
    <3> HIDE DEF bits
    <3> QED
      BY <2>1, <2>2, FunctionPacketTyped
  <2>4. /\ UNCHANGED <<railpower, BasicAccessory, e_stop_queue, periodic_refresh_queue,
                       ops_programmming_queue, packet_counter, heard>>
        /\ repeat_queue' = RepeatInsert(repeat_queue, REPEAT_QUEUE_SIZE, p)
        /\ wanted' = wanted \/ wanted' = [wanted EXCEPT !.fn[a] = IF on THEN @ \union {f} ELSE @ \ {f}]
    BY <1>2 DEF SetLocoFunc
  <2> HIDE DEF p, on, bits, base, group
  <2>5. Told(wanted, {"none"})'
    BY <2>4, SetsFixed DEF TypeIInv, Told
  <2>6. Told(heard, {"none", "estop"})'
    BY <2>4, SetsFixed DEF TypeIInv, Told
  <2>7. QueuesTyped'
    BY <1>0, <2>3, <2>4, RepeatInsertTyped, SetsFixed DEF QueuesTyped
  <2> QED
    BY <2>4, <2>5, <2>6, <2>7, SetsFixed DEF TypeIInv
<1>3. ASSUME UNCHANGED <<BasicAccessory, packet_counter, heard, repeat_queue, periodic_refresh_queue>>,
             UNCHANGED <<railpower, e_stop_queue, ops_programmming_queue, wanted>>
      PROVE  TypeIInv'
  BY <1>3, SetsFixed DEF TypeIInv, Told, QueuesTyped
<1>4. ASSUME UNCHANGED <<packet_counter, heard, repeat_queue, periodic_refresh_queue, ops_programmming_queue>>,
             NEW p \in EStopPackets,
             e_stop_queue' = Insert(e_stop_queue, E_STOP_QUEUE_SIZE, p)
      PROVE  QueuesTyped' /\ Told(heard, {"none", "estop"})'
  BY <1>0, <1>4, InsertTyped, QueueSizes, SetsFixed DEF TypeIInv, Told, QueuesTyped
<1>5. ASSUME NEW a \in Loco, NEW b \in app.binaryState, SetLocoFuncBinary(a, b) PROVE TypeIInv'
  <2>1. DCCPacket(a, "fn_b", b, FUNCTION_REPEAT) \in EStopPackets
    BY EmergencyPackets
  <2> QED
    BY <1>4, <1>5, <2>1, SetsFixed DEF SetLocoFuncBinary, TypeIInv, Told, registers
<1>6. ASSUME NEW a \in Queried, Query(a) PROVE TypeIInv'
  BY <1>3, <1>6 DEF Query, queues
<1>7. ASSUME NEW t \in Turnout, NEW pos \in Position, NEW activ \in app.activ,
             SetBasicAccessoryPos(t, pos, activ)
      PROVE  TypeIInv'
  <2>1. TurnoutPacket(t, <<pos, activ>>) \in EStopPackets
    BY EmergencyPackets DEF Accessory
  <2>2. BasicAccessory' \in [Turnout -> Position] /\ UNCHANGED <<railpower, packet_counter>>
    BY <1>7 DEF SetBasicAccessoryPos, TypeIInv
  <2>3. QueuesTyped' /\ Told(heard, {"none", "estop"})'
    BY <1>4, <1>7, <2>1 DEF SetBasicAccessoryPos
  <2>4. wanted' = wanted \/ wanted' = [wanted EXCEPT !.turnout[t] = <<pos, activ>>]
    BY <1>7 DEF SetBasicAccessoryPos
  <2>5. Told(wanted, {"none"})'
    BY <2>4, SetsFixed DEF TypeIInv, Told
  <2> QED
    BY <2>2, <2>3, <2>5, SetsFixed DEF TypeIInv
<1>8. ASSUME NEW t \in Signal, NEW aspect \in {"red", "green"}, SetExtAccessoryPos(t, aspect)
      PROVE  TypeIInv'
  <2>1. SignalPacket(t, aspect) \in EStopPackets
    BY EmergencyPackets DEF Accessory
  <2>2. UNCHANGED <<railpower, BasicAccessory, packet_counter>>
    BY <1>8 DEF SetExtAccessoryPos, registers
  <2>3. QueuesTyped' /\ Told(heard, {"none", "estop"})'
    BY <1>4, <1>8, <2>1 DEF SetExtAccessoryPos
  <2>4. wanted' = wanted \/ wanted' = [wanted EXCEPT !.signal[t] = aspect]
    BY <1>8 DEF SetExtAccessoryPos
  <2>5. Told(wanted, {"none"})'
    BY <2>4, SetsFixed DEF TypeIInv, Told
  <2> QED
    BY <2>2, <2>3, <2>5, SetsFixed DEF TypeIInv
<1>9. ASSUME NEW a \in Loco, NEW order \in app.pomOrder, ProgramOnMain(a, order) PROVE TypeIInv'
  <2> DEFINE p == DCCPacket(a, "pom", order, ProgRepeat)
  <2>1. ProgRepeat % RepeatMod \in 0..RepeatMod - 1
    BY Masked, ConfigurationAssumption
  <2>2. p \in ProgPackets
    BY <2>1 DEF DCCPacket, SetRepeat, ProgPackets
  <2>3. /\ UNCHANGED <<railpower, BasicAccessory, packet_counter, heard, e_stop_queue,
                       repeat_queue, periodic_refresh_queue>>
        /\ ops_programmming_queue' = Insert(ops_programmming_queue, PROG_QUEUE_SIZE, p)
        /\ wanted' = wanted \/ wanted' = [wanted EXCEPT !.pom[a] = @ \union {order}]
    BY <1>9 DEF ProgramOnMain, registers
  <2> HIDE DEF p
  <2>4. QueuesTyped'
    BY <1>0, <2>2, <2>3, InsertTyped, QueueSizes, SetsFixed DEF QueuesTyped
  <2>5. Told(wanted, {"none"})' /\ Told(heard, {"none", "estop"})'
    BY <2>3, SetsFixed DEF TypeIInv, Told
  <2> QED
    BY <2>3, <2>4, <2>5, SetsFixed DEF TypeIInv
<1>10. ASSUME NEW state \in app.power, SetPower(state) PROVE TypeIInv'
  <2>1. state \in {"ON", "OFF", "ESTOP", "SHORT"}
    BY <1>0, ApplicationsAssumption
  <2> QED
    BY <1>10, <2>1, SetsFixed DEF SetPower, registers, queues, TypeIInv, Told, QueuesTyped
<1>11. CASE EStop
  BY <1>4, <1>11, EmergencyPackets, SetsFixed DEF EStop, TypeIInv, Told, registers
<1> QED
  BY <1>1, <1>2, <1>5, <1>6, <1>7, <1>8, <1>9, <1>10, <1>11 DEF Application

LEMMA NextTypeIInv == ASSUME NoLocoZero, TypeIInv, [Next]_vars PROVE TypeIInv'
<1>1. RegisterIInv'
  BY NextRegisterIInv DEF TypeIInv
<1>2. CASE UNCHANGED vars
  BY <1>1, <1>2, SetsFixed DEF vars, registers, queues, TypeIInv, Told, QueuesTyped
<1> QED
  BY <1>1, <1>2, UpdateTyped, ApplicationTyped DEF Next

-----------------------------------------------------------------------------
(* Only loco orders get into the refresh cycle, with the bits of their own    *)
(* group and a repeat left while they wait to be repeated; no queue ever      *)
(* holds more packets than it has places, whatever it is asked to take.       *)
THEOREM SchedulerTypeOK == ASSUME NoLocoZero PROVE Spec => []TypeOK
<1>1. ASSUME TypeIInv PROVE TypeOK
  <2>1. /\ \A p \in Entries(repeat_queue) : p \in RepeatPackets
        /\ \A p \in Entries(periodic_refresh_queue) : p \in OrderPackets
        /\ \A p \in Entries(e_stop_queue) : p \in EStopPackets
        /\ \A p \in Entries(ops_programmming_queue) : p \in ProgPackets
    BY <1>1 DEF TypeIInv, QueuesTyped, QueueTyped, Entries
  <2>2. /\ \A p \in Entries(repeat_queue) : IsLocoPacket(p) /\ p.rep # 0
        /\ \A p \in Entries(periodic_refresh_queue) : IsLocoPacket(p)
    BY <2>1 DEF RepeatPackets, OrderPackets
  <2>3. /\ \A p \in Entries(e_stop_queue) :
              p.kind \in {"e_stop", "fn_b", "basic_accessory", "extended_accessory"}
        /\ \A p \in Entries(ops_programmming_queue) : p.kind \in {"ops_mode", "pom"}
    BY <2>1 DEF EStopPackets, ProgPackets
  <2>4. heard.speed \in [Loco -> {"none", "estop"} \union Speed] /\ wanted.speed \in [Loco -> {"none"} \union Speed]
    BY <1>1 DEF TypeIInv, Told
  <2>5. slots \in [Slot -> Register] /\ slotFullNext \in Slot
    BY <1>1 DEF TypeIInv, RegisterIInv, SlotsOK, IsArray
  <2>6. /\ Len(repeat_queue) <= REPEAT_QUEUE_SIZE
        /\ Len(periodic_refresh_queue) <= PERIODIC_REFRESH_QUEUE_SIZE
        /\ Len(e_stop_queue) <= E_STOP_QUEUE_SIZE
        /\ Len(ops_programmming_queue) <= PROG_QUEUE_SIZE
    BY <1>1 DEF TypeIInv, QueuesTyped, QueueTyped
  <2> QED
    BY <1>1, <2>2, <2>3, <2>4, <2>5, <2>6 DEF TypeOK, TypeIInv
<1> QED
  BY <1>1, InitTypeIInv, NextTypeIInv, PTL DEF Spec
-----------------------------------------------------------------------------
(***************************************************************************)
(* Loco orders on their way through the queues: what waits is what was     *)
(* ordered last, and it always waits somewhere, as long as the queues and  *)
(* the slots have room for what the program drives.  Then the same for     *)
(* accessories, and for programming on the main.                           *)
(***************************************************************************)

(* What the orders of a program are about: the packets that overwrite each  *)
(* other have the same key.                                                 *)
LocoKinds == {"speed"} \union FunctionKinds

Keys(x) ==
  x.loco \X ({k \in {"speed"} : x.speed # {}} \union {FunctionKind(GroupOf(f)) : f \in x.function})

(* No speed is ordered during an emergency stop, no group of functions       *)
(* shares its packet kind, each queue has a place to spare, and no slot is  *)
(* taken from a loco whose functions are used.                              *)
RoomFor(x) ==
  /\ ~x.driveInEStop
  /\ x.function \subseteq 0..28
  /\ IsFiniteSet(Keys(x))
  /\ Cardinality(Keys(x)) < REPEAT_QUEUE_SIZE
  /\ Cardinality(Keys(x)) < PERIODIC_REFRESH_QUEUE_SIZE
  /\ x.function # {} =>
       IsFiniteSet(x.loco \union x.queried) /\ Cardinality(x.loco \union x.queried) <= SlotMax

RoomForAll ==
  /\ NoLocoZero
  /\ \A x \in Applications : RoomFor(x)
  /\ SPEED_REPEAT % RepeatMod # 0 /\ FUNCTION_REPEAT % RepeatMod # 0

-----------------------------------------------------------------------------
(* Orders as sets: RQ waits to be repeated, PQ is refreshed, last is what   *)
(* was ordered last for each key.                                           *)
Fresh(RQ, PQ, last) ==
  /\ \A p \in RQ : p.data = last[<<p.addr, p.kind>>]
  /\ \A p \in PQ : p.data = last[<<p.addr, p.kind>>] \/ \E q \in RQ : Same(q, p)

Kept(RQ, PQ, ordered) ==
  \A key \in ordered : \E p \in RQ \union PQ : <<p.addr, p.kind>> = key

-----------------------------------------------------------------------------
(* The group whose packets have a kind, for the kinds F0 to F28 need.        *)
KindGroup == [fn1 |-> 1, fn2 |-> 2, fn3 |-> 3, fn4 |-> 4, fn5 |-> 5]

LEMMA FunctionGroups ==
  /\ DOMAIN FunctionGroup = 1..10
  /\ \A g \in 1..5 : FunctionGroup[g] \subseteq 0..28
  /\ \A g \in 6..10 : FunctionGroup[g] \intersect 0..28 = {}
  /\ \A g, h \in 1..5 : g # h => FunctionGroup[g] \intersect FunctionGroup[h] = {}
  /\ \A f \in 0..28 : \E g \in 1..5 : f \in FunctionGroup[g]
BY DEF FunctionGroup

LEMMA GroupOfF ==
  ASSUME NEW f \in 0..28
  PROVE  GroupOf(f) \in 1..5 /\ f \in FunctionGroup[GroupOf(f)]
<1>1. \E g \in DOMAIN FunctionGroup : f \in FunctionGroup[g]
  BY FunctionGroups
<1>2. GroupOf(f) \in DOMAIN FunctionGroup /\ f \in FunctionGroup[GroupOf(f)]
  BY <1>1 DEF GroupOf
<1> QED
  BY <1>2, FunctionGroups

LEMMA KindsOfGroups ==
  /\ \A g \in 1..5 : FunctionKind(g) \in FunctionKinds /\ KindGroup[FunctionKind(g)] = g
  /\ \A k \in FunctionKinds : KindGroup[k] \in 1..5 /\ FunctionKind(KindGroup[k]) = k
  /\ "speed" \notin FunctionKinds
BY DEF FunctionKind, FunctionKinds, KindGroup

-----------------------------------------------------------------------------
(* What was ordered last for each key, and the keys something was ordered for. *)
LastOrder ==
  [key \in Loco \X LocoKinds |->
     IF key[2] = "speed" THEN wanted.speed[key[1]]
     ELSE [group |-> KindGroup[key[2]],
           on |-> wanted.fn[key[1]] \intersect FunctionGroup[KindGroup[key[2]]]]]

Ordered ==
  {key \in Loco \X LocoKinds :
     IF key[2] = "speed" THEN wanted.speed[key[1]] # "none"
     ELSE wanted.fn[key[1]] \intersect FunctionGroup[KindGroup[key[2]]] # {}}

WantedOK ==
  wanted \in [speed : [Loco -> Speed \union {"none"}], fn : [Loco -> SUBSET Function],
              turnout : {wanted.turnout}, signal : {wanted.signal}, pom : {wanted.pom},
              resets : {wanted.resets}]

(* The packets of the loco queues, and what holds of each of the two queues. *)
LocoPackets ==
  {p \in [addr : Loco, kind : LocoKinds,
          data : Speed \union [group : 1..5, on : SUBSET Function], rep : 0..RepeatMod - 1] :
     /\ <<p.addr, p.kind>> \in Keys(app)
     /\ p.kind \in FunctionKinds => p.data.group = KindGroup[p.kind]}

QueueOK(s, cap) == s \in Seq(LocoPackets) /\ Len(s) <= cap /\ OnePerKey(s)

QueuesOK ==
  /\ QueueOK(repeat_queue, REPEAT_QUEUE_SIZE)
  /\ QueueOK(periodic_refresh_queue, PERIODIC_REFRESH_QUEUE_SIZE)
  /\ \A p \in Entries(repeat_queue) : p.rep # 0

(* The function bits of the register are the ones last ordered: a packet is  *)
(* made of them.                                                             *)
BitsOK ==
  \A a \in Loco :
    /\ \A i \in Slot : slots[i].adr = a => slots[i].fn = wanted.fn[a]
    /\ wanted.fn[a] # {} => \E i \in Slot : slots[i].adr = a

OrdersInv ==
  /\ RegisterIInv /\ WantedOK /\ QueuesOK /\ BitsOK
  /\ Fresh(Entries(repeat_queue), Entries(periodic_refresh_queue), LastOrder)
  /\ Kept(Entries(repeat_queue), Entries(periodic_refresh_queue), Ordered)

-----------------------------------------------------------------------------
(* A queue with a place for every key always has room.                       *)
LEMMA RoomLeft ==
  ASSUME RoomForAll, app \in Applications, NEW s, NEW cap \in {REPEAT_QUEUE_SIZE, PERIODIC_REFRESH_QUEUE_SIZE},
         QueueOK(s, cap)
  PROVE  Len(s) < cap
<1>1. IsFiniteSet(Keys(app)) /\ Cardinality(Keys(app)) < cap
  BY DEF RoomForAll, RoomFor
<1>2. s \in Seq(LocoPackets) /\ OnePerKey(s)
  BY DEF QueueOK
<1>3. \A p \in Entries(s) : <<p.addr, p.kind>> \in Keys(app)
  BY <1>2 DEF Entries, LocoPackets
<1>4. Len(s) <= Cardinality(Keys(app))
  BY <1>1, <1>2, <1>3, NoMoreThanKeys
<1>5. Len(s) \in Nat /\ Cardinality(Keys(app)) \in Nat /\ cap \in Nat
  BY <1>1, <1>2, FS_CardinalityType, ConfigurationAssumption
<1> QED
  BY <1>1, <1>4, <1>5

(* No slot is taken from a loco while functions are used.                    *)
LEMMA NoEviction ==
  ASSUME RoomForAll, RegisterIInv, Function # {}, NEW a \in Loco \union Queried
  PROVE  StopsAt(slots, a) # {}
<1> DEFINE L == app.loco \union app.queried
<1>1. /\ IsFiniteSet(L) /\ Cardinality(L) <= SlotMax
      /\ a \in L /\ L = Loco \union Queried
      /\ slots \in [Slot -> Register]
  BY DEF RoomForAll, RoomFor, RegisterIInv, SlotsOK, Function, Loco, Queried, IsArray
<1> HIDE DEF L
<1> SUFFICES ASSUME StopsAt(slots, a) = {} PROVE FALSE
  OBVIOUS
<1>2. \A i \in Slot : slots[i].adr \in L \ {a} /\ slots[i].adr # 0
  BY <1>1 DEF StopsAt, Register
<1> DEFINE f == [i \in Slot |-> slots[i].adr]
<1>3. f \in Injection(Slot, L \ {a})
  BY <1>2 DEF Injection, IsInjective, RegisterIInv, RegisterInv, OneSlotPerLoco, Occupied
<1>4. IsFiniteSet(L \ {a}) /\ Cardinality(L \ {a}) = Cardinality(L) - 1
  BY <1>1, FS_RemoveElement
<1>5. Cardinality(Slot) <= Cardinality(L \ {a})
  BY <1>3, <1>4, FS_Injection
<1>6. Cardinality(Slot) = SlotMax
  BY SlotMaxAssumption, FS_Interval DEF Slot
<1>7. Cardinality(L) \in Nat /\ SlotMax \in Nat
  BY <1>1, FS_CardinalityType, SlotMaxAssumption
<1> QED
  BY <1>1, <1>4, <1>5, <1>6, <1>7

-----------------------------------------------------------------------------
(* A new order in the repeat queue.                                          *)
LEMMA OrderQueued ==
  ASSUME RoomForAll, OrdersInv, app' = app, UNCHANGED periodic_refresh_queue,
         NEW p \in LocoPackets, p.rep # 0,
         repeat_queue' = RepeatInsert(repeat_queue, REPEAT_QUEUE_SIZE, p),
         LastOrder'[<<p.addr, p.kind>>] = p.data,
         \A key \in Loco \X LocoKinds :
           key # <<p.addr, p.kind>> => LastOrder'[key] = LastOrder[key],
         Ordered' \subseteq Ordered \union {<<p.addr, p.kind>>}
  PROVE  /\ QueuesOK'
         /\ Fresh(Entries(repeat_queue), Entries(periodic_refresh_queue), LastOrder)'
         /\ Kept(Entries(repeat_queue), Entries(periodic_refresh_queue), Ordered)'
<1> DEFINE RQ == Entries(repeat_queue)
           PQ == Entries(periodic_refresh_queue)
<1>1. LocoPackets' = LocoPackets
  BY DEF LocoPackets, Loco, Speed, Function
<1>2. /\ repeat_queue \in Seq(LocoPackets) /\ OnePerKey(repeat_queue)
      /\ Len(repeat_queue) < REPEAT_QUEUE_SIZE /\ REPEAT_QUEUE_SIZE \in Nat
      /\ Len(repeat_queue) <= REPEAT_QUEUE_SIZE
  BY RoomLeft, ConfigurationAssumption DEF OrdersInv, QueuesOK, QueueOK, RegisterIInv, SlotsOK
<1>3. p.kind \notin AppendOnlyKinds
  BY ConfigurationAssumption DEF LocoPackets, LocoKinds, FunctionKinds
<1>4. repeat_queue' = Insert(repeat_queue, REPEAT_QUEUE_SIZE, p)
  BY DEF RepeatInsert
<1>5. /\ repeat_queue' \in Seq(LocoPackets) /\ Len(repeat_queue') <= REPEAT_QUEUE_SIZE
      /\ OnePerKey(repeat_queue') /\ Entries(repeat_queue') = Others(repeat_queue, p) \union {p}
  BY <1>2, <1>3, <1>4, InsertIsASequence, InsertReplaces
<1>6. QueuesOK'
  BY <1>1, <1>5 DEF OrdersInv, QueuesOK, QueueOK, Others
<1>7. \A q \in RQ \union PQ : <<q.addr, q.kind>> \in Loco \X LocoKinds
  BY DEF OrdersInv, QueuesOK, QueueOK, Entries, LocoPackets
<1>8. \A q \in RQ \union PQ : ~Same(q, p) =>
        LastOrder'[<<q.addr, q.kind>>] = LastOrder[<<q.addr, q.kind>>]
  BY <1>7 DEF Same
<1>9. Entries(repeat_queue') = {q \in RQ : ~Same(q, p)} \union {p}
  BY <1>5 DEF Others
<1>10. Fresh(RQ, PQ, LastOrder) /\ Kept(RQ, PQ, Ordered)
  BY DEF OrdersInv
<1> DEFINE RN == Entries(repeat_queue')
           last == LastOrder
           lastNew == LastOrder'
           ordered == Ordered
           orderedNew == Ordered'
<1>11. lastNew[<<p.addr, p.kind>>] = p.data /\ orderedNew \subseteq ordered \union {<<p.addr, p.kind>>}
  OBVIOUS
<1> HIDE DEF RQ, PQ, RN, last, lastNew, ordered, orderedNew
<1>12. Fresh(RN, PQ, lastNew) /\ Kept(RN, PQ, orderedNew)
  <2>1. Fresh(RQ, PQ, last) /\ Kept(RQ, PQ, ordered)
    BY <1>10 DEF last, ordered
  <2>2. \A q \in RQ \union PQ : ~Same(q, p) =>
          lastNew[<<q.addr, q.kind>>] = last[<<q.addr, q.kind>>]
    BY <1>8 DEF last, lastNew
  <2>3. RN = {q \in RQ : ~Same(q, p)} \union {p}
    BY <1>9 DEF RN
  <2>4. ASSUME NEW q \in RN PROVE q.data = lastNew[<<q.addr, q.kind>>]
    BY <1>11, <2>1, <2>2, <2>3 DEF Fresh
  <2>5. ASSUME NEW q \in PQ PROVE q.data = lastNew[<<q.addr, q.kind>>] \/ \E e \in RN : Same(e, q)
    <3>1. CASE Same(q, p)
      BY <2>3, <3>1 DEF Same
    <3>2. CASE ~Same(q, p)
      BY <2>1, <2>2, <2>3, <3>2 DEF Fresh, Same
    <3> QED
      BY <3>1, <3>2
  <2>6. ASSUME NEW key \in orderedNew PROVE \E q \in RN \union PQ : <<q.addr, q.kind>> = key
    <3>1. CASE key = <<p.addr, p.kind>>
      BY <2>3, <3>1
    <3>2. CASE key # <<p.addr, p.kind>>
      <4>1. PICK q \in RQ \union PQ : <<q.addr, q.kind>> = key
        BY <1>11, <2>1, <3>2 DEF Kept
      <4>2. ~Same(q, p)
        BY <3>2, <4>1 DEF Same
      <4> QED
        BY <2>3, <4>1, <4>2
    <3> QED
      BY <3>1, <3>2
  <2> QED
    BY <2>4, <2>5, <2>6 DEF Fresh, Kept
<1> QED
  BY <1>6, <1>12 DEF PQ, RN, lastNew, orderedNew

(* A lookup writes its register back, or one with the bits just ordered.     *)
LEMMA BitsFollow ==
  ASSUME RoomForAll, OrdersInv, RegisterIInv', app' = app, WantedOK',
         NEW a \in Loco \union Queried, NEW reg \in Register,
         reg.adr = a, LookupAndWrite(a, reg),
         \A b \in Loco : b # a => wanted'.fn[b] = wanted.fn[b],
         a \in Loco => wanted'.fn[a] = reg.fn
  PROVE  BitsOK'
<1> DEFINE w == SlotOf(slots, slotFullNext, a)
<1>1. Loco' = Loco /\ Function' = Function
  BY DEF Loco, Function
<1>2. IsArray(Register) /\ app \in Applications /\ (\A b \in Loco \union Queried : b # 0)
  BY DEF OrdersInv, RegisterIInv, SlotsOK, RoomForAll, NoLocoZero, Loco, Queried
<1>3. /\ w \in Slot /\ slots'[w] = reg /\ \A j \in Slot : j # w => slots'[j] = slots[j]
      /\ StopsAt(slots, a) # {} => slots[w].adr \in {a, 0}
  <2>1. w \in Slot /\ slots'[w] = reg /\ \A j \in Slot : j # w => slots'[j] = slots[j]
    BY <1>2, OneSlotWritten
  <2>2. StopsAt(slots, a) # {} => w \in StopsAt(slots, a)
    BY <1>2, SlotOfIsASlot DEF IsArray
  <2> QED
    BY <2>1, <2>2 DEF StopsAt
<1> HIDE DEF w
<1>4. ASSUME NEW b \in Loco, NEW i \in Slot, slots'[i].adr = b
      PROVE  slots'[i].fn = wanted'.fn[b]
  <2>1. CASE i = w
    BY <1>3, <1>4, <2>1
  <2>2. CASE i # w /\ b = a
    BY <1>2, <1>3, <1>4, <2>2 DEF RegisterIInv, RegisterInv, OneSlotPerLoco, Occupied
  <2>3. CASE i # w /\ b # a
    BY <1>3, <1>4, <2>3 DEF OrdersInv, BitsOK
  <2> QED
    BY <2>1, <2>2, <2>3
<1>5. ASSUME NEW b \in Loco, wanted'.fn[b] # {} PROVE \E i \in Slot : slots'[i].adr = b
  <2>1. CASE b = a
    BY <1>3, <2>1
  <2>2. CASE b # a
    <3>1. PICK i \in Slot : slots[i].adr = b
      BY <1>5, <2>2 DEF OrdersInv, BitsOK
    <3>2. Function # {}
      BY <1>1, <1>5 DEF WantedOK
    <3>3. StopsAt(slots, a) # {}
      BY <3>2, NoEviction DEF OrdersInv
    <3>4. i # w
      BY <1>2, <1>3, <2>2, <3>1, <3>3
    <3> QED
      BY <1>3, <3>1, <3>4
  <2> QED
    BY <2>1, <2>2
<1> QED
  BY <1>1, <1>4, <1>5 DEF BitsOK

(* The register of a loco that orders are given to, as the next call reads it. *)
LEMMA BitsRead ==
  ASSUME RoomForAll, OrdersInv, NEW a \in Loco
  PROVE  RegisterOf(a) \in Register /\ RegisterOf(a).adr = a /\ RegisterOf(a).fn = wanted.fn[a]
<1> DEFINE i == SlotOf(slots, slotFullNext, a)
<1>1. IsArray(Register) /\ SlotsOK /\ RegisterInv /\ a # 0 /\ i \in Slot
  BY SlotOfIsASlot DEF OrdersInv, RegisterIInv, SlotsOK, RoomForAll, NoLocoZero, Loco, IsArray
<1>2. RegisterOf(a) \in Register /\ RegisterOf(a).adr = a
  BY <1>1, RegisterIsTyped
<1>3. RegisterOf(a) = IF slots[i].adr = a THEN slots[i] ELSE NewSlot(a)
  BY <1>1, LookupFinds
<1>4. CASE slots[i].adr = a
  BY <1>1, <1>2, <1>3, <1>4 DEF OrdersInv, BitsOK
<1>5. CASE slots[i].adr # a
  <2>1. \A j \in Slot : slots[j].adr # a
    BY <1>1, <1>5, NotFoundIsNowhere
  <2>2. wanted.fn[a] = {}
    BY <2>1 DEF OrdersInv, BitsOK
  <2> QED
    BY <1>2, <1>3, <1>5, <2>2 DEF NewSlot
<1> QED
  BY <1>4, <1>5

(* What does not touch the orders leaves what they are measured by alone.    *)
LEMMA OrdersUntouched ==
  ASSUME UNCHANGED <<app, wanted>>
  PROVE  /\ LocoPackets' = LocoPackets /\ LastOrder' = LastOrder /\ Ordered' = Ordered
         /\ WantedOK' = WantedOK
<1>1. Loco' = Loco /\ Speed' = Speed /\ Function' = Function
  BY DEF Loco, Speed, Function
<1> QED
  BY <1>1 DEF LocoPackets, LastOrder, Ordered, WantedOK

(* A packet of the repeat queue is sent: one with a repeat less stays there,  *)
(* unless it was the last, and takes the place of an older one in the refresh. *)
LEMMA RepeatSent ==
  ASSUME RoomForAll, OrdersInv, UNCHANGED <<app, wanted>>, UpdateFromRepeat
  PROVE  /\ QueuesOK'
         /\ Fresh(Entries(repeat_queue), Entries(periodic_refresh_queue), LastOrder)'
         /\ Kept(Entries(repeat_queue), Entries(periodic_refresh_queue), Ordered)'
<1> DEFINE RQ == Entries(repeat_queue)
           PQ == Entries(periodic_refresh_queue)
           RN == Entries(repeat_queue')
           PN == Entries(periodic_refresh_queue')
           h == Head(repeat_queue)
           p == SetRepeat(h, h.rep - 1)
<1>1. /\ repeat_queue \in Seq(LocoPackets) /\ OnePerKey(repeat_queue) /\ repeat_queue # << >>
      /\ Len(repeat_queue) <= REPEAT_QUEUE_SIZE /\ REPEAT_QUEUE_SIZE \in Nat
      /\ periodic_refresh_queue \in Seq(LocoPackets) /\ OnePerKey(periodic_refresh_queue)
      /\ Len(periodic_refresh_queue) < PERIODIC_REFRESH_QUEUE_SIZE
      /\ PERIODIC_REFRESH_QUEUE_SIZE \in Nat
      /\ Len(periodic_refresh_queue) <= PERIODIC_REFRESH_QUEUE_SIZE
  BY RoomLeft, ConfigurationAssumption
     DEF OrdersInv, QueuesOK, QueueOK, RegisterIInv, SlotsOK, UpdateFromRepeat
<1>2. h \in LocoPackets /\ h \in RQ /\ h.rep # 0
  BY <1>1, TailDrops DEF OrdersInv, QueuesOK
<1>3. p.addr = h.addr /\ p.kind = h.kind /\ p.data = h.data /\ p.rep = (h.rep - 1) % RepeatMod
  BY <1>2 DEF LocoPackets, SetRepeat
<1>4. p \in LocoPackets /\ Same(p, h)
  <2>0. h.rep - 1 \in Int /\ RepeatMod \in Nat \ {0}
    BY <1>2, ConfigurationAssumption DEF LocoPackets
  <2>1. (h.rep - 1) % RepeatMod \in 0..RepeatMod - 1
    BY <2>0
  <2>2. p \in [addr : Loco, kind : LocoKinds,
               data : Speed \union [group : 1..5, on : SUBSET Function], rep : 0..RepeatMod - 1]
    BY <1>2, <2>1 DEF LocoPackets, SetRepeat
  <2> QED
    BY <1>2, <1>3, <2>2 DEF LocoPackets, Same
<1>5. h.kind \notin AppendOnlyKinds /\ p.kind \notin AppendOnlyKinds
  BY <1>2, <1>3, ConfigurationAssumption DEF LocoPackets, LocoKinds, FunctionKinds
<1>6. LET r == RepeatRead(repeat_queue, REPEAT_QUEUE_SIZE)
      IN  /\ r.packet = p
          /\ r.rest \in Seq(LocoPackets) /\ Len(r.rest) <= REPEAT_QUEUE_SIZE /\ OnePerKey(r.rest)
          /\ Entries(r.rest) = Others(repeat_queue, h) \union {e \in {p} : e.rep # 0}
  <2>1. RepeatRead(repeat_queue, REPEAT_QUEUE_SIZE).packet = p
    BY <1>2 DEF RepeatRead
  <2> QED
    BY SMTT(30), <1>1, <1>2, <1>4, <1>5, <2>1, RepeatReadRest
<1>7. /\ repeat_queue' \in Seq(LocoPackets) /\ Len(repeat_queue') <= REPEAT_QUEUE_SIZE
      /\ OnePerKey(repeat_queue')
      /\ Entries(repeat_queue') = Others(repeat_queue, h) \union {e \in {p} : e.rep # 0}
      /\ periodic_refresh_queue' =
           Insert(periodic_refresh_queue, PERIODIC_REFRESH_QUEUE_SIZE, p)
  BY <1>6 DEF UpdateFromRepeat
<1> HIDE DEF p, h
<1>8. /\ periodic_refresh_queue' \in Seq(LocoPackets)
      /\ Len(periodic_refresh_queue') <= PERIODIC_REFRESH_QUEUE_SIZE
      /\ OnePerKey(periodic_refresh_queue')
      /\ Entries(periodic_refresh_queue') = Others(periodic_refresh_queue, p) \union {p}
  BY <1>1, <1>4, <1>5, <1>7, InsertIsASequence, InsertReplaces
<1>9. /\ RN = {q \in RQ : ~Same(q, h)} \/ RN = {q \in RQ : ~Same(q, h)} \union {p}
      /\ PN = {q \in PQ : ~Same(q, p)} \union {p}
  BY <1>7, <1>8 DEF Others
<1>10. \A q \in Entries(repeat_queue') : q.rep # 0
  BY <1>7 DEF Others, OrdersInv, QueuesOK
<1>11. QueuesOK'
  BY <1>7, <1>8, <1>10, OrdersUntouched DEF QueuesOK, QueueOK
<1> DEFINE last == LastOrder
           ordered == Ordered
<1>12. Fresh(RQ, PQ, last) /\ Kept(RQ, PQ, ordered)
  BY DEF OrdersInv
<1> HIDE DEF RQ, PQ, RN, PN, last, ordered
<1>13. p.data = last[<<p.addr, p.kind>>]
  BY <1>2, <1>3, <1>12 DEF Fresh
<1>14. \A q \in RN : q.data = last[<<q.addr, q.kind>>]
  BY <1>9, <1>12, <1>13 DEF Fresh
<1>15. ASSUME NEW q \in PN
       PROVE  q.data = last[<<q.addr, q.kind>>] \/ \E e \in RN : Same(e, q)
  <2>1. CASE q = p
    BY <1>13, <2>1
  <2>2. CASE q \in PQ /\ ~Same(q, p)
    <3>1. q.data = last[<<q.addr, q.kind>>] \/ \E e \in RQ : Same(e, q)
      BY <1>12, <2>2 DEF Fresh
    <3>2. ASSUME NEW e \in RQ, Same(e, q) PROVE e \in RN
      BY <1>4, <1>9, <2>2, <3>2 DEF Same
    <3> QED
      BY <3>1, <3>2
  <2> QED
    BY <1>9, <1>15, <2>1, <2>2
<1>16. ASSUME NEW key \in ordered PROVE \E q \in RN \union PN : <<q.addr, q.kind>> = key
  <2>1. PICK q \in RQ \union PQ : <<q.addr, q.kind>> = key
    BY <1>12 DEF Kept
  <2>2. CASE Same(q, p)
    BY <1>9, <2>1, <2>2 DEF Same
  <2>3. CASE ~Same(q, p)
    BY <1>4, <1>9, <2>1, <2>3 DEF Same
  <2> QED
    BY <2>2, <2>3
<1>17. Fresh(RN, PN, last) /\ Kept(RN, PN, ordered)
  BY <1>14, <1>15, <1>16 DEF Fresh, Kept
<1> QED
  BY <1>11, <1>17, OrdersUntouched DEF RN, PN, last, ordered

(* A packet of the periodic refresh is sent and stays.                       *)
LEMMA RefreshSent ==
  ASSUME RoomForAll, OrdersInv, UNCHANGED <<app, wanted>>, UpdateFromPeriodic
  PROVE  /\ QueuesOK'
         /\ Fresh(Entries(repeat_queue), Entries(periodic_refresh_queue), LastOrder)'
         /\ Kept(Entries(repeat_queue), Entries(periodic_refresh_queue), Ordered)'
<1> DEFINE PQ == Entries(periodic_refresh_queue)
           h == Head(periodic_refresh_queue)
<1>1. UNCHANGED repeat_queue
  BY DEF UpdateFromPeriodic
<1>2. QueueOK(periodic_refresh_queue', PERIODIC_REFRESH_QUEUE_SIZE) /\ Entries(periodic_refresh_queue') = PQ
  <2>1. CASE periodic_refresh_queue = << >>
    BY <2>1 DEF UpdateFromPeriodic, OrdersInv, QueuesOK
  <2>2. CASE periodic_refresh_queue # << >>
    <3>1. /\ periodic_refresh_queue \in Seq(LocoPackets) /\ OnePerKey(periodic_refresh_queue)
          /\ PERIODIC_REFRESH_QUEUE_SIZE \in Nat
          /\ Len(periodic_refresh_queue) <= PERIODIC_REFRESH_QUEUE_SIZE
      BY ConfigurationAssumption DEF OrdersInv, QueuesOK, QueueOK
    <3>2. h \in LocoPackets
      BY <2>2, <3>1, TailDrops
    <3>3. h.kind \notin AppendOnlyKinds
      BY <3>2, ConfigurationAssumption DEF LocoPackets, LocoKinds, FunctionKinds
    <3>4. LET r == TemporalRead(periodic_refresh_queue, PERIODIC_REFRESH_QUEUE_SIZE)
          IN  /\ r.rest \in Seq(LocoPackets) /\ Len(r.rest) <= PERIODIC_REFRESH_QUEUE_SIZE
              /\ OnePerKey(r.rest) /\ Entries(r.rest) = Entries(periodic_refresh_queue)
      BY <2>2, <3>1, <3>3, TemporalReadRest
    <3> QED
      BY <2>2, <3>4 DEF UpdateFromPeriodic, QueueOK
  <2> QED
    BY <2>1, <2>2
<1>3. QueuesOK'
  BY <1>1, <1>2, OrdersUntouched DEF OrdersInv, QueuesOK, QueueOK
<1> QED
  BY <1>1, <1>2, <1>3, OrdersUntouched DEF OrdersInv

-----------------------------------------------------------------------------
(* A speed order.                                                            *)
LEMMA SpeedOrdered ==
  ASSUME RoomForAll, OrdersInv, RegisterIInv', app' = app,
         NEW a \in Loco, NEW s \in Speed, SetSpeed(a, s)
  PROVE  OrdersInv'
<1> DEFINE p == SpeedPacket(a, s)
<1>1. railpower # "ESTOP" /\ a \in app.loco /\ app.speed # {}
  BY DEF SetSpeed, RoomForAll, RoomFor, OrdersInv, RegisterIInv, SlotsOK, Loco, Speed
<1>2. /\ p.addr = a /\ p.kind = "speed" /\ p.data = s /\ p.rep = SPEED_REPEAT % RepeatMod
      /\ p \in LocoPackets /\ p.rep # 0
  <2>1. SPEED_REPEAT % RepeatMod \in 0..RepeatMod - 1 /\ SPEED_REPEAT % RepeatMod # 0
    BY ConfigurationAssumption, Masked DEF RoomForAll
  <2>2. <<a, "speed">> \in Keys(app)
    BY <1>1 DEF Keys
  <2> QED
    BY <2>1, <2>2, KindsOfGroups DEF SpeedPacket, DCCPacket, SetRepeat, LocoPackets, LocoKinds
<1>3. /\ UNCHANGED periodic_refresh_queue
      /\ repeat_queue' = RepeatInsert(repeat_queue, REPEAT_QUEUE_SIZE, p)
      /\ LookupAndWrite(a, [RegisterOf(a) EXCEPT !.speed = s])
  BY <1>1 DEF SetSpeed
<1>4. RepeatAccepts(repeat_queue, REPEAT_QUEUE_SIZE, p)
  BY <1>2, RoomLeft DEF RepeatAccepts, Accepts, OrdersInv, QueuesOK, RegisterIInv, SlotsOK
<1>5. wanted' = [wanted EXCEPT !.speed[a] = s]
  BY <1>1, <1>4 DEF SetSpeed
<1> HIDE DEF p
<1>6. /\ wanted'.speed = [wanted.speed EXCEPT ![a] = s] /\ wanted'.fn = wanted.fn
      /\ WantedOK'
  BY <1>5 DEF OrdersInv, WantedOK, Loco, Speed, Function
<1>7. Loco' = Loco
  BY DEF Loco
<1>8. /\ LastOrder'[<<p.addr, p.kind>>] = p.data
      /\ \A key \in Loco \X LocoKinds :
           key # <<p.addr, p.kind>> => LastOrder'[key] = LastOrder[key]
      /\ Ordered' \subseteq Ordered \union {<<p.addr, p.kind>>}
  BY <1>2, <1>6, <1>7 DEF LastOrder, Ordered, LocoKinds, OrdersInv, WantedOK
<1>9. BitsOK'
  <2> DEFINE reg == [RegisterOf(a) EXCEPT !.speed = s]
  <2>1. reg \in Register /\ reg.adr = a /\ reg.fn = wanted.fn[a]
    BY BitsRead DEF Register
  <2> HIDE DEF reg
  <2>2. LookupAndWrite(a, reg)
    BY <1>3 DEF reg
  <2> QED
    BY <1>6, <2>1, <2>2, BitsFollow
<1> QED
  BY <1>2, <1>3, <1>6, <1>8, <1>9, OrderQueued DEF OrdersInv

(* A function order: the packet carries the bits of its whole group.         *)
LEMMA FunctionOrdered ==
  ASSUME RoomForAll, OrdersInv, RegisterIInv', app' = app,
         NEW a \in Loco, NEW f \in Function, NEW type, SetLocoFunc(a, f, type)
  PROVE  OrdersInv'
<1> DEFINE g == GroupOf(f)
           group == FunctionGroup[g]
           base == RegisterOf(a).fn \intersect group
           on == type = "EIN" \/ (type = "UM" /\ f \notin base)
           bits == IF on THEN base \union {f} ELSE base \ {f}
           fn == (RegisterOf(a).fn \ group) \union (bits \intersect Stored)
           p == FunctionPacket(a, g, bits)
<1>1. /\ f \in 0..28 /\ a \in app.loco /\ f \in app.function
      /\ app \in Applications /\ Function \subseteq 0..28
  BY DEF RoomForAll, RoomFor, OrdersInv, RegisterIInv, SlotsOK, Loco, Function
<1>2. g \in 1..5 /\ f \in group /\ group \subseteq Stored
  BY <1>1, GroupOfF, FunctionGroups DEF Stored
<1>3. /\ RegisterOf(a) \in Register /\ RegisterOf(a).adr = a
      /\ RegisterOf(a).fn = wanted.fn[a] /\ wanted.fn[a] \subseteq Function
  BY BitsRead DEF OrdersInv, WantedOK
<1>4. /\ LookupAndWrite(a, [RegisterOf(a) EXCEPT !.fn = fn])
      /\ repeat_queue' = RepeatInsert(repeat_queue, REPEAT_QUEUE_SIZE, p)
      /\ wanted' = IF RepeatAccepts(repeat_queue, REPEAT_QUEUE_SIZE, p)
                   THEN [wanted EXCEPT !.fn[a] = IF on THEN @ \union {f} ELSE @ \ {f}]
                   ELSE wanted
      /\ UNCHANGED periodic_refresh_queue
  BY DEF SetLocoFunc
<1>5. fn = (IF on THEN wanted.fn[a] \union {f} ELSE wanted.fn[a] \ {f}) /\ fn \intersect group = bits
  BY <1>2, <1>3
<1>6. bits \subseteq Function /\ fn \subseteq Function \intersect Stored
  <2> HIDE DEF group, bits, on, fn
  <2>1. fn \subseteq Function /\ bits \subseteq fn
    BY <1>3, <1>5
  <2>2. Function \subseteq Stored
    BY <1>1 DEF Stored
  <2> QED
    BY <2>1, <2>2
<1> HIDE DEF g, group, bits, on, fn
<1>7. /\ p.addr = a /\ p.kind = FunctionKind(g) /\ p.data = [group |-> g, on |-> bits]
      /\ p \in LocoPackets /\ p.rep # 0
  <2>1. FUNCTION_REPEAT % RepeatMod \in 0..RepeatMod - 1 /\ FUNCTION_REPEAT % RepeatMod # 0
    BY ConfigurationAssumption, Masked DEF RoomForAll
  <2>2. <<a, FunctionKind(g)>> \in Keys(app)
    BY <1>1 DEF Keys, g
  <2>3. FunctionKind(g) \in LocoKinds /\ KindGroup[FunctionKind(g)] = g
    BY <1>2, KindsOfGroups DEF LocoKinds
  <2> QED
    BY <1>2, <1>6, <2>1, <2>2, <2>3 DEF FunctionPacket, DCCPacket, SetRepeat, LocoPackets
<1>8. RepeatAccepts(repeat_queue, REPEAT_QUEUE_SIZE, p)
  BY <1>7, RoomLeft DEF RepeatAccepts, Accepts, OrdersInv, QueuesOK, RegisterIInv, SlotsOK
<1> HIDE DEF p
<1>9. wanted' = [wanted EXCEPT !.fn[a] = fn]
  BY <1>4, <1>5, <1>8 DEF OrdersInv, WantedOK
<1>10. /\ wanted'.fn = [wanted.fn EXCEPT ![a] = fn] /\ wanted'.speed = wanted.speed
       /\ WantedOK'
  BY <1>6, <1>9 DEF OrdersInv, WantedOK, Loco, Speed, Function
<1>11. Loco' = Loco
  BY DEF Loco
<1>12. ASSUME NEW key \in Loco \X LocoKinds, key # <<a, FunctionKind(g)>>
       PROVE  LastOrder'[key] = LastOrder[key] /\ (key \in Ordered' => key \in Ordered)
  <2> DEFINE k == key[2]
  <2>1. key[1] \in Loco /\ k \in LocoKinds /\ key = <<key[1], k>>
    OBVIOUS
  <2>2. CASE k = "speed" \/ key[1] # a
    BY <1>10, <1>11, <2>1, <2>2 DEF LastOrder, Ordered, OrdersInv, WantedOK
  <2>3. CASE k # "speed" /\ key[1] = a
    <3>1. k \in FunctionKinds /\ k # FunctionKind(g)
      BY <1>12, <2>1, <2>3 DEF LocoKinds
    <3>2. KindGroup[k] \in 1..5 /\ KindGroup[k] # g
      BY <3>1, KindsOfGroups
    <3>3. f \notin FunctionGroup[KindGroup[k]]
      BY <1>2, <3>2, FunctionGroups DEF group
    <3>4. fn \intersect FunctionGroup[KindGroup[k]] = wanted.fn[a] \intersect FunctionGroup[KindGroup[k]]
      BY <1>5, <3>3
    <3>5. wanted'.fn[a] = fn
      BY <1>10 DEF OrdersInv, WantedOK
    <3> QED
      BY <1>11, <2>1, <2>3, <3>4, <3>5 DEF LastOrder, Ordered
  <2> QED
    BY <2>2, <2>3
<1>13. LastOrder'[<<p.addr, p.kind>>] = p.data
  <2>1. FunctionKind(g) \in LocoKinds /\ FunctionKind(g) # "speed" /\ KindGroup[FunctionKind(g)] = g
    BY <1>2, KindsOfGroups DEF LocoKinds
  <2>2. wanted'.fn[a] \intersect FunctionGroup[g] = bits
    BY <1>5, <1>10 DEF OrdersInv, WantedOK, group
  <2> QED
    BY <1>7, <1>11, <2>1, <2>2 DEF LastOrder
<1>14. BitsOK'
  <2> DEFINE reg == [RegisterOf(a) EXCEPT !.fn = fn]
  <2>1. reg \in Register /\ reg.adr = a /\ reg.fn = fn
    BY <1>3, <1>6 DEF Register
  <2> HIDE DEF reg
  <2>2. LookupAndWrite(a, reg)
    BY <1>4 DEF reg
  <2>3. wanted'.fn[a] = fn /\ \A b \in Loco : b # a => wanted'.fn[b] = wanted.fn[b]
    BY <1>10 DEF OrdersInv, WantedOK
  <2> QED
    BY <1>10, <2>1, <2>2, <2>3, BitsFollow
<1>15. /\ \A key \in Loco \X LocoKinds :
            key # <<p.addr, p.kind>> => LastOrder'[key] = LastOrder[key]
       /\ Ordered' \subseteq Ordered \union {<<p.addr, p.kind>>}
  BY <1>7, <1>11, <1>12 DEF Ordered
<1> QED
  BY <1>4, <1>7, <1>10, <1>13, <1>14, <1>15, OrderQueued DEF OrdersInv

-----------------------------------------------------------------------------
(* What leaves the orders, their queues and the registers alone.             *)
LEMMA OrdersStutter ==
  ASSUME OrdersInv, RegisterIInv', UNCHANGED <<app, wanted, register, repeat_queue, periodic_refresh_queue>>
  PROVE  OrdersInv'
<1>1. QueuesOK'
  BY OrdersUntouched DEF OrdersInv, QueuesOK, QueueOK
<1>2. BitsOK'
  BY DEF OrdersInv, BitsOK, Loco, register
<1> QED
  BY <1>1, <1>2, OrdersUntouched DEF OrdersInv

(* Orders for accessories and programming on the main are no loco orders.    *)
LEMMA OtherOrder ==
  ASSUME OrdersInv, RegisterIInv', app' = app, UNCHANGED <<register, repeat_queue, periodic_refresh_queue>>,
         wanted' \in {wanted} \union
           {[wanted EXCEPT !.turnout = x] : x \in {wanted'.turnout}} \union
           {[wanted EXCEPT !.signal = x] : x \in {wanted'.signal}} \union
           {[wanted EXCEPT !.pom = x] : x \in {wanted'.pom}}
  PROVE  OrdersInv'
<1>1. wanted'.speed = wanted.speed /\ wanted'.fn = wanted.fn /\ WantedOK'
  BY DEF OrdersInv, WantedOK, Loco, Speed, Function
<1>2. Loco' = Loco /\ LocoPackets' = LocoPackets
  BY DEF Loco, Speed, Function, LocoPackets
<1>3. LastOrder' = LastOrder /\ Ordered' = Ordered
  BY <1>1, <1>2 DEF LastOrder, Ordered
<1>4. QueuesOK'
  BY <1>2 DEF OrdersInv, QueuesOK, QueueOK
<1>5. BitsOK'
  BY <1>1, <1>2 DEF OrdersInv, BitsOK, register
<1> QED
  BY <1>1, <1>3, <1>4, <1>5 DEF OrdersInv

LEMMA InitOrdersInv == ASSUME RoomForAll, Init PROVE OrdersInv
<1>1. RegisterIInv
  BY InitRegisterIInv
<1>2. /\ wanted = [speed |-> [a \in Loco |-> "none"], fn |-> [a \in Loco |-> {}],
                  turnout |-> [t \in Turnout |-> <<"none", FALSE>>],
                  signal |-> [t \in Signal |-> "none"],
                  pom |-> [a \in Loco |-> {}], resets |-> 0]
      /\ repeat_queue = << >> /\ periodic_refresh_queue = << >>
      /\ slots = NoSlots
  BY DEF Init, RegisterInit
<1>3. WantedOK
  BY <1>2 DEF WantedOK
<1>4. Entries(repeat_queue) = {} /\ Entries(periodic_refresh_queue) = {}
  BY <1>2 DEF Entries
<1>5. QueuesOK
  BY <1>2, <1>4, ConfigurationAssumption DEF QueuesOK, QueueOK, OnePerKey
<1>6. BitsOK
  <2>1. \A a \in Loco : a # 0 /\ wanted.fn[a] = {}
    BY <1>2 DEF Init, RoomForAll, NoLocoZero, Loco
  <2>2. \A i \in Slot : slots[i].adr = 0
    BY <1>2 DEF NoSlots, EmptySlot
  <2> QED
    BY <2>1, <2>2 DEF BitsOK
<1>7. Ordered = {}
  BY <1>2 DEF Ordered
<1> QED
  BY <1>1, <1>3, <1>4, <1>5, <1>6, <1>7 DEF OrdersInv, Fresh, Kept

LEMMA NextOrdersInv ==
  ASSUME RoomForAll, OrdersInv, [Next]_vars
  PROVE  OrdersInv'
<1>1. RegisterIInv'
  BY NextRegisterIInv DEF OrdersInv, RoomForAll
<1>2. CASE UNCHANGED vars
  BY <1>1, <1>2, OrdersStutter DEF vars, registers, queues
<1>3. CASE update
  <2>1. UNCHANGED <<app, wanted, register>>
    BY <1>3 DEF update, UpdateFromOps, UpdateFromEStop, UpdateFromRepeat, UpdateFromPeriodic, registers
  <2>2. BitsOK' = BitsOK
    BY <2>1 DEF BitsOK, Loco, register
  <2>3. CASE UNCHANGED <<repeat_queue, periodic_refresh_queue>>
    BY <1>1, <2>1, <2>3, OrdersStutter
  <2>4. CASE UpdateFromRepeat
    BY <1>1, <2>1, <2>2, <2>4, RepeatSent, OrdersUntouched DEF OrdersInv
  <2>5. CASE UpdateFromPeriodic
    BY <1>1, <2>1, <2>2, <2>5, RefreshSent, OrdersUntouched DEF OrdersInv
  <2> QED
    BY <1>3, <2>3, <2>4, <2>5 DEF update, UpdateFromOps, UpdateFromEStop
<1>4. ASSUME Application, UNCHANGED app PROVE OrdersInv'
  <2>1. ASSUME NEW a \in Loco, NEW s \in Speed, SetSpeed(a, s) PROVE OrdersInv'
    BY <1>1, <1>4, <2>1, SpeedOrdered
  <2>2. ASSUME NEW a \in Loco, NEW f \in Function, NEW type \in {"AUS", "EIN", "UM"},
               SetLocoFunc(a, f, type)
        PROVE  OrdersInv'
    BY <1>1, <1>4, <2>2, FunctionOrdered
  <2>3. ASSUME NEW a \in Queried, Query(a) PROVE OrdersInv'
    <3>1. SlotsOK /\ IsArray(Register) /\ UNCHANGED <<app, wanted, repeat_queue, periodic_refresh_queue>>
      BY <1>4, <2>3 DEF OrdersInv, RegisterIInv, SlotsOK, Query, queues
    <3>2. RegisterOf(a) \in Register /\ RegisterOf(a).adr = a /\ LookupAndWrite(a, RegisterOf(a))
      BY <2>3, <3>1, RegisterIsTyped, GetterWrites DEF Query
    <3>3. a \in Loco => wanted'.fn[a] = RegisterOf(a).fn
      BY <3>1, BitsRead
    <3>4. WantedOK'
      BY <3>1, OrdersUntouched DEF OrdersInv
    <3>5. BitsOK'
      <4> DEFINE reg == RegisterOf(a)
      <4>1. reg \in Register /\ reg.adr = a /\ LookupAndWrite(a, reg) /\ (a \in Loco => wanted'.fn[a] = reg.fn)
        BY <3>2, <3>3
      <4>2. \A b \in Loco : b # a => wanted'.fn[b] = wanted.fn[b]
        BY <3>1
      <4> HIDE DEF reg
      <4> QED
        BY <1>1, <1>4, <3>4, <4>1, <4>2, BitsFollow
    <3>6. QueuesOK'
      BY <3>1, OrdersUntouched DEF OrdersInv, QueuesOK, QueueOK
    <3> QED
      BY <1>1, <3>1, <3>4, <3>5, <3>6, OrdersUntouched DEF OrdersInv
  <2>4. ASSUME NEW a, NEW b, SetLocoFuncBinary(a, b) PROVE OrdersInv'
    BY <1>1, <1>4, <2>4, OrdersStutter DEF SetLocoFuncBinary, registers
  <2>5. ASSUME NEW t, NEW pos, NEW activ, SetBasicAccessoryPos(t, pos, activ) PROVE OrdersInv'
    BY <1>1, <1>4, <2>5, OtherOrder DEF SetBasicAccessoryPos
  <2>6. ASSUME NEW t, NEW aspect, SetExtAccessoryPos(t, aspect) PROVE OrdersInv'
    BY <1>1, <1>4, <2>6, OtherOrder DEF SetExtAccessoryPos, registers
  <2>7. ASSUME NEW a, NEW order, ProgramOnMain(a, order) PROVE OrdersInv'
    BY <1>1, <1>4, <2>7, OtherOrder DEF ProgramOnMain, registers
  <2>8. ASSUME NEW state, SetPower(state) PROVE OrdersInv'
    BY <1>1, <1>4, <2>8, OrdersStutter DEF SetPower, registers, queues
  <2>9. CASE EStop
    BY <1>1, <1>4, <2>9, OrdersStutter DEF EStop, registers
  <2> QED
    BY <1>4, <2>1, <2>2, <2>3, <2>4, <2>5, <2>6, <2>7, <2>8, <2>9 DEF Application
<1> QED
  BY <1>2, <1>3, <1>4 DEF Next

LEMMA SpecOrdersInv == ASSUME RoomForAll PROVE Spec => []OrdersInv
BY InitOrdersInv, NextOrdersInv, PTL DEF Spec

-----------------------------------------------------------------------------
(* What the packets of one loco and kind in a queue say.                     *)
LEMMA PacketsKnown ==
  ASSUME OrdersInv, NEW p \in Entries(repeat_queue) \union Entries(periodic_refresh_queue)
  PROVE  /\ p.addr \in Loco /\ p.kind \in LocoKinds
         /\ p.kind \in FunctionKinds => p.data.group = KindGroup[p.kind]
<1>1. p \in LocoPackets
  BY DEF OrdersInv, QueuesOK, QueueOK, Entries
<1> QED
  BY <1>1 DEF LocoPackets

(* A packet that waits to be repeated says what was ordered last, and one in  *)
(* the periodic refresh, too, unless its successor still waits: of all the    *)
(* interleavings of orders and packets sent, for any number of repeats.       *)
THEOREM WhatWaitsIsFresh == ASSUME RoomForAll PROVE Spec => []RefreshIsFresh
<1>1. ASSUME OrdersInv PROVE RefreshIsFresh
  <2> DEFINE RQ == Entries(repeat_queue)
             PQ == Entries(periodic_refresh_queue)
             bits(a, g) == wanted.fn[a] \intersect FunctionGroup[g]
  <2>1. ASSUME NEW p \in RQ \union PQ, p.kind = "speed", p.data = LastOrder[<<p.addr, p.kind>>]
        PROVE  p.data = wanted.speed[p.addr]
    BY <1>1, <2>1, PacketsKnown DEF LastOrder
  <2>2. ASSUME NEW p \in RQ \union PQ, p.kind \in FunctionKinds,
               p.data = LastOrder[<<p.addr, p.kind>>]
        PROVE  p.data.on = bits(p.addr, p.data.group)
    <3>1. p.addr \in Loco /\ p.kind \in LocoKinds /\ p.kind # "speed"
      BY <1>1, <2>2, PacketsKnown, KindsOfGroups
    <3>2. p.data = [group |-> KindGroup[p.kind], on |-> bits(p.addr, KindGroup[p.kind])]
      BY <2>2, <3>1 DEF LastOrder
    <3> QED
      BY <3>2
  <2>3. /\ \A p \in RQ : p.data = LastOrder[<<p.addr, p.kind>>]
        /\ \A p \in PQ : p.data = LastOrder[<<p.addr, p.kind>>] \/ \E q \in RQ : Same(q, p)
    BY <1>1 DEF OrdersInv, Fresh
  <2>4. ASSUME NEW q \in RQ, NEW p \in PQ, Same(q, p), p.kind \in FunctionKinds
        PROVE  q.data.group = p.data.group
    BY <1>1, <2>4, PacketsKnown DEF Same
  <2> HIDE DEF RQ, PQ, bits
  <2>5. ASSUME NEW a \in Loco
        PROVE  /\ \A p \in SpeedPackets(repeat_queue, a) : p.data = wanted.speed[a]
               /\ \A p \in SpeedPackets(periodic_refresh_queue, a) :
                    p.data = wanted.speed[a] \/ SpeedPackets(repeat_queue, a) # {}
    <3>1. \A p \in SpeedPackets(repeat_queue, a) : p \in RQ /\ p.addr = a /\ p.kind = "speed"
      BY DEF SpeedPackets, RQ
    <3>2. \A p \in SpeedPackets(periodic_refresh_queue, a) :
            p \in PQ /\ p.addr = a /\ p.kind = "speed"
      BY DEF SpeedPackets, PQ
    <3>3. ASSUME NEW p \in SpeedPackets(periodic_refresh_queue, a), p.data # wanted.speed[a]
          PROVE  SpeedPackets(repeat_queue, a) # {}
      <4>1. PICK q \in RQ : Same(q, p)
        BY <2>1, <2>3, <3>2, <3>3
      <4>2. q.addr = a /\ q.kind = "speed"
        BY <3>2, <4>1 DEF Same
      <4> QED
        BY <4>2 DEF SpeedPackets, RQ
    <3>4. \A p \in SpeedPackets(repeat_queue, a) : p.data = wanted.speed[a]
      BY <2>1, <2>3, <3>1
    <3> QED
      BY <3>3, <3>4
  <2>6. ASSUME NEW a \in Loco, NEW g \in DOMAIN FunctionGroup
        PROVE  /\ \A p \in FunctionPackets(repeat_queue, a, g) : p.data.on = bits(a, g)
               /\ \A p \in FunctionPackets(periodic_refresh_queue, a, g) :
                    p.data.on = bits(a, g) \/ FunctionPackets(repeat_queue, a, g) # {}
    <3>1. ASSUME NEW p \in FunctionPackets(repeat_queue, a, g) PROVE p.data.on = bits(a, g)
      BY <2>2, <2>3 DEF FunctionPackets, RQ
    <3>2. ASSUME NEW p \in FunctionPackets(periodic_refresh_queue, a, g),
                 FunctionPackets(repeat_queue, a, g) = {}
          PROVE  p.data.on = bits(a, g)
      <4>1. p \in PQ /\ p.kind \in FunctionKinds /\ p.addr = a /\ p.data.group = g
        BY DEF FunctionPackets, PQ
      <4>2. ASSUME NEW q \in RQ, Same(q, p) PROVE FALSE
        BY <2>4, <3>2, <4>1, <4>2 DEF FunctionPackets, Same, RQ
      <4> QED
        BY <2>2, <2>3, <4>1, <4>2
    <3> QED
      BY <3>1, <3>2
  <2> QED
    BY <2>5, <2>6 DEF RefreshIsFresh, bits
<1> QED
  BY <1>1, SpecOrdersInv, PTL

(* No order that was accepted drops out: however often it was overtaken,      *)
(* replaced or repeated, a packet about it waits in one of the queues.        *)
THEOREM NothingDropsOut == ASSUME RoomForAll PROVE Spec => []NothingForgotten
<1>1. ASSUME OrdersInv PROVE NothingForgotten
  <2> DEFINE RQ == Entries(repeat_queue)
             PQ == Entries(periodic_refresh_queue)
             both == repeat_queue \o periodic_refresh_queue
  <2>1. RQ \union PQ \subseteq Entries(both)
    <3>1. repeat_queue \in Seq(LocoPackets) /\ periodic_refresh_queue \in Seq(LocoPackets)
      BY <1>1 DEF OrdersInv, QueuesOK, QueueOK
    <3> DEFINE m == Len(repeat_queue)
               n == Len(periodic_refresh_queue)
    <3>2. /\ m \in Nat /\ n \in Nat /\ Len(both) = m + n
          /\ \A i \in 1..m : both[i] = repeat_queue[i]
          /\ \A j \in 1..n : both[m + j] = periodic_refresh_queue[j]
      BY <3>1, ConcatProperties
    <3> HIDE DEF m, n, both
    <3>3. \A i \in 1..m : i \in 1..Len(both)
      BY <3>2
    <3>4. \A j \in 1..n : m + j \in 1..Len(both)
      BY <3>2
    <3>5. \A p \in RQ : p \in Entries(both)
      BY <3>2, <3>3 DEF Entries, m
    <3>6. \A p \in PQ : p \in Entries(both)
      BY <3>2, <3>4 DEF Entries, n
    <3> QED
      BY <3>5, <3>6
  <2>2. \A key \in Ordered : \E p \in RQ \union PQ : <<p.addr, p.kind>> = key
    BY <1>1 DEF OrdersInv, Kept
  <2> HIDE DEF RQ, PQ, both
  <2>3. ASSUME NEW a \in Loco, wanted.speed[a] # "none"
        PROVE  SpeedPackets(both, a) # {}
    <3>1. <<a, "speed">> \in Ordered
      BY <2>3 DEF Ordered, LocoKinds
    <3> QED
      BY <2>1, <2>2, <3>1 DEF SpeedPackets
  <2>4. ASSUME NEW a \in Loco, NEW g \in DOMAIN FunctionGroup,
               wanted.fn[a] \intersect FunctionGroup[g] # {}
        PROVE  FunctionPackets(both, a, g) # {}
    <3>1. wanted.fn[a] \subseteq 0..28
      BY <1>1 DEF OrdersInv, WantedOK, RoomForAll, RoomFor, RegisterIInv, SlotsOK, Function
    <3>2. g \in 1..5
      BY <2>4, <3>1, FunctionGroups
    <3>3. FunctionKind(g) \in FunctionKinds /\ KindGroup[FunctionKind(g)] = g
      BY <3>2, KindsOfGroups
    <3>4. <<a, FunctionKind(g)>> \in Ordered
      BY <2>4, <3>3, KindsOfGroups DEF Ordered, LocoKinds
    <3>5. PICK p \in RQ \union PQ : <<p.addr, p.kind>> = <<a, FunctionKind(g)>>
      BY <2>2, <3>4
    <3>6. p.data.group = g
      BY <1>1, <3>3, <3>5, PacketsKnown DEF RQ, PQ
    <3> QED
      BY <2>1, <3>3, <3>5, <3>6 DEF FunctionPackets
  <2> QED
    BY <2>3, <2>4 DEF NothingForgotten, both
<1> QED
  BY <1>1, SpecOrdersInv, PTL

-----------------------------------------------------------------------------
(***************************************************************************)
(* Accessories and programming on the main: an order waits in its queue     *)
(* until it was sent with all its repeats.                                  *)
(***************************************************************************)

(* The rails keep their power, and no two signals share a packet address:   *)
(* of the orders for two of them the second would overwrite the first.       *)
AccessoriesApart ==
  \A x \in Applications :
    /\ x.turnout \union x.signal \subseteq Nat
    /\ x.turnout \union x.signal # {} => x.power \intersect {"OFF", "SHORT"} = {}
    /\ \A t, u \in x.signal : (t + TrntFormat) \div 4 = (u + TrntFormat) \div 4 => t = u

About(p, kind, t) == p.kind = kind /\ Addressed(p) = t

(* The last order that waits for t is the last that was accepted, wanted; if  *)
(* none waits, the decoder was told.                                         *)
LastWaits(s, kind, t, told, last) ==
  /\ (\A i \in 1..Len(s) : ~About(s[i], kind, t)) => told = last
  /\ \A i \in 1..Len(s) :
       About(s[i], kind, t) /\ (\A j \in 1..Len(s) : j > i => ~About(s[j], kind, t))
         => s[i].data.order = last

LEMMA AppendedLast ==
  ASSUME NEW P, NEW s \in Seq(P), NEW p \in P, NEW kind, NEW t, NEW told, NEW last,
         LastWaits(s, kind, t, told, last)
  PROVE  /\ About(p, kind, t) => LastWaits(Append(s, p), kind, t, told, p.data.order)
         /\ ~About(p, kind, t) => LastWaits(Append(s, p), kind, t, told, last)
<1> DEFINE q == Append(s, p)
           n == Len(s)
<1>1. n \in Nat /\ Len(q) = n + 1 /\ q[n + 1] = p /\ \A i \in 1..n : q[i] = s[i]
  BY AppendProperties
<1> HIDE DEF q
<1>2. n + 1 \in 1..Len(q) /\ \A i \in 1..n : i \in 1..Len(q) /\ n + 1 > i
  BY <1>1
<1>3. \A i \in 1..Len(q) : i \in 1..n \/ i = n + 1
  BY <1>1
<1>4. ASSUME About(p, kind, t) PROVE LastWaits(q, kind, t, told, p.data.order)
  <2>1. ~(\A i \in 1..Len(q) : ~About(q[i], kind, t))
    BY <1>1, <1>2, <1>4
  <2>2. ASSUME NEW i \in 1..Len(q), \A j \in 1..Len(q) : j > i => ~About(q[j], kind, t)
        PROVE  q[i] = p
    BY <1>1, <1>2, <1>3, <1>4, <2>2
  <2> QED
    BY <2>1, <2>2 DEF LastWaits
<1>5. ASSUME ~About(p, kind, t) PROVE LastWaits(q, kind, t, told, last)
  <2>1. (\A i \in 1..Len(q) : ~About(q[i], kind, t)) => told = last
    BY <1>1, <1>2 DEF LastWaits
  <2>2. ASSUME NEW i \in 1..Len(q), About(q[i], kind, t),
               \A j \in 1..Len(q) : j > i => ~About(q[j], kind, t)
        PROVE  q[i].data.order = last
    BY <1>1, <1>2, <1>3, <1>5, <2>2 DEF LastWaits
  <2> QED
    BY <2>1, <2>2 DEF LastWaits
<1> QED
  BY <1>4, <1>5 DEF q

LEMMA ReplacedLast ==
  ASSUME NEW P, NEW s \in Seq(P), NEW p \in P, NEW kind, NEW t, NEW told, NEW last,
         LastWaits(s, kind, t, told, last), NEW k \in 1..Len(s)
  PROVE  /\ ~About(p, kind, t) /\ ~About(s[k], kind, t)
              => LastWaits([s EXCEPT ![k] = p], kind, t, told, last)
         /\ About(p, kind, t) /\ (\A j \in 1..Len(s) : j # k => ~About(s[j], kind, t))
              => LastWaits([s EXCEPT ![k] = p], kind, t, told, p.data.order)
<1> DEFINE q == [s EXCEPT ![k] = p]
<1>1. Len(q) = Len(s) /\ q[k] = p /\ \A i \in 1..Len(s) : i # k => q[i] = s[i]
  BY ExceptSeq
<1> HIDE DEF q
<1>2. ASSUME ~About(p, kind, t), ~About(s[k], kind, t)
      PROVE  LastWaits(q, kind, t, told, last)
  BY <1>1, <1>2 DEF LastWaits
<1>3. ASSUME About(p, kind, t), \A j \in 1..Len(s) : j # k => ~About(s[j], kind, t)
      PROVE  LastWaits(q, kind, t, told, p.data.order)
  BY <1>1, <1>3 DEF LastWaits
<1> QED
  BY <1>2, <1>3 DEF q

(* The oldest packet is sent: it stays with one repeat less, or leaves.      *)
LEMMA ReadLast ==
  ASSUME NEW P, NEW s \in Seq(P), s # << >>, NEW kind, NEW t, NEW told, NEW last,
         LastWaits(s, kind, t, told, last),
         NEW p \in P, p = EmergencyRead(s).packet,
         p.addr = Head(s).addr, p.kind = Head(s).kind, p.data = Head(s).data
  PROVE  LastWaits(EmergencyRead(s).rest, kind, t,
                   IF About(p, kind, t) THEN p.data.order ELSE told, last)
<1> DEFINE sent == IF About(p, kind, t) THEN p.data.order ELSE told
           r == EmergencyRead(s).rest
<1>1. Len(s) \in Nat \ {0} /\ 1 \in 1..Len(s) /\ Head(s) = s[1]
  BY EmptySeq
<1>2. About(p, kind, t) <=> About(s[1], kind, t)
  BY <1>1 DEF About, Addressed
<1>3. r = Tail(s) \/ r = [s EXCEPT ![1] = p]
  BY DEF EmergencyRead
<1>4. CASE r = Tail(s)
  <2> DEFINE q == Tail(s)
  <2>1. Len(q) = Len(s) - 1 /\ \A i \in 1..Len(q) : q[i] = s[i + 1]
    BY <1>1, HeadTailProperties
  <2>2. \A i \in 1..Len(q) : i + 1 \in 1..Len(s) /\ i + 1 # 1
    BY <1>1, <2>1
  <2>3. \A i \in 1..Len(s) : i # 1 => i - 1 \in 1..Len(q) /\ q[i - 1] = s[i]
    BY <1>1, <2>1
  <2>4. \A i \in 1..Len(q), j \in 1..Len(s) : j > i + 1 => j # 1 /\ j - 1 > i
    BY <1>1, <2>1
  <2> HIDE DEF q
  <2>5. ASSUME \A i \in 1..Len(q) : ~About(q[i], kind, t) PROVE sent = last
    <3>1. \A j \in 1..Len(s) : j # 1 => ~About(s[j], kind, t)
      BY <2>3, <2>5
    <3>2. CASE About(s[1], kind, t)
      <4>1. s[1].data.order = last
        BY <1>1, <3>1, <3>2 DEF LastWaits
      <4> QED
        BY <1>1, <1>2, <3>2, <4>1
    <3>3. CASE ~About(s[1], kind, t)
      BY <1>2, <3>1, <3>3 DEF LastWaits
    <3> QED
      BY <3>2, <3>3
  <2>6. ASSUME NEW i \in 1..Len(q), About(q[i], kind, t),
               \A j \in 1..Len(q) : j > i => ~About(q[j], kind, t)
        PROVE  q[i].data.order = last
    <3>1. \A j \in 1..Len(s) : j > i + 1 => ~About(s[j], kind, t)
      BY <2>3, <2>4, <2>6
    <3> QED
      BY <2>1, <2>2, <2>6, <3>1 DEF LastWaits
  <2> QED
    BY <1>4, <2>5, <2>6 DEF LastWaits, q
<1>5. CASE r = [s EXCEPT ![1] = p]
  <2> DEFINE q == [s EXCEPT ![1] = p]
  <2>1. Len(q) = Len(s) /\ q[1] = p /\ \A i \in 1..Len(s) : i # 1 => q[i] = s[i]
    BY <1>1, ExceptSeq
  <2> HIDE DEF q
  <2>2. \A i \in 1..Len(s) : /\ About(q[i], kind, t) <=> About(s[i], kind, t)
                             /\ q[i].data = s[i].data
    BY <1>1, <1>2, <2>1
  <2>3. ASSUME \A i \in 1..Len(q) : ~About(q[i], kind, t) PROVE sent = last
    BY <1>1, <1>2, <2>1, <2>2, <2>3 DEF LastWaits
  <2>4. ASSUME NEW i \in 1..Len(q), About(q[i], kind, t),
               \A j \in 1..Len(q) : j > i => ~About(q[j], kind, t)
        PROVE  q[i].data.order = last
    BY <2>1, <2>2, <2>4 DEF LastWaits
  <2> QED
    BY <1>5, <2>3, <2>4 DEF LastWaits, q
<1> QED
  BY <1>3, <1>4, <1>5

-----------------------------------------------------------------------------
(* Each signal has one order waiting at most, in packets of its own address. *)
OneOrderEach(s) ==
  /\ \A i, j \in 1..Len(s) : s[i].kind = "extended_accessory" /\ Same(s[i], s[j]) => i = j
  /\ \A i \in 1..Len(s) : s[i].kind = "extended_accessory" =>
       \E t \in Signal : s[i].addr = (t + TrntFormat) \div 4 /\ Addressed(s[i]) = t

AccessoriesOK(s, told, last) ==
  /\ DOMAIN told.turnout = Turnout /\ DOMAIN last.turnout = Turnout
  /\ DOMAIN told.signal = Signal /\ DOMAIN last.signal = Signal
  /\ OneOrderEach(s)
  /\ \A t \in Turnout :
       LastWaits(s, "basic_accessory", t, told.turnout[t], last.turnout[t])
  /\ \A t \in Signal :
       LastWaits(s, "extended_accessory", t, told.signal[t], last.signal[t])

AccessoryInv ==
  /\ TypeIInv
  /\ Turnout \union Signal # {} => Powered
  /\ AccessoriesOK(e_stop_queue, heard, wanted)

AccessoryKinds == {"basic_accessory", "extended_accessory"}

(* What an accessory packet tells whom.                                      *)
LEMMA HeedAccessories ==
  ASSUME Told(heard, {"none", "estop"}), NEW p,
         DOMAIN heard.turnout = Turnout, DOMAIN heard.signal = Signal
  PROVE  LET h == Heed(heard, p)
         IN  /\ DOMAIN h.turnout = Turnout /\ DOMAIN h.signal = Signal
             /\ \A t \in Turnout : h.turnout[t] =
                  IF About(p, "basic_accessory", t) THEN p.data.order ELSE heard.turnout[t]
             /\ \A t \in Signal : h.signal[t] =
                  IF About(p, "extended_accessory", t) THEN p.data.order ELSE heard.signal[t]
<1> DEFINE h == Heed(heard, p)
<1>1. CASE p.kind = "basic_accessory"
  <2>1. h = [heard EXCEPT !.turnout[Addressed(p)] = p.data.order]
    BY <1>1 DEF Heed, FunctionKinds
  <2>2. h.turnout = [heard.turnout EXCEPT ![Addressed(p)] = p.data.order] /\ h.signal = heard.signal
    BY <2>1 DEF Told
  <2> QED
    BY <1>1, <2>2 DEF About
<1>2. CASE p.kind = "extended_accessory"
  <2>1. h = [heard EXCEPT !.signal[Addressed(p)] = p.data.order]
    BY <1>2 DEF Heed, FunctionKinds
  <2>2. h.signal = [heard.signal EXCEPT ![Addressed(p)] = p.data.order] /\ h.turnout = heard.turnout
    BY <2>1 DEF Told
  <2> QED
    BY <1>2, <2>2 DEF About
<1>3. CASE p.kind \notin AccessoryKinds
  <2>1. h.turnout = heard.turnout /\ h.signal = heard.signal
    BY <1>3 DEF Heed, Told, AccessoryKinds
  <2> QED
    BY <1>3, <2>1 DEF About, AccessoryKinds
<1> QED
  BY <1>1, <1>2, <1>3 DEF AccessoryKinds

(* The other queues hold nothing for an accessory.                           *)
LEMMA OthersSent ==
  ASSUME TypeIInv, UpdateFromOps \/ UpdateFromRepeat \/ UpdateFromPeriodic
  PROVE  \E p : Send(p) /\ p.kind \notin AccessoryKinds
<1> USE DEF AccessoryKinds
<1>1. CASE UpdateFromOps
  <2>1. EmergencyRead(ops_programmming_queue).packet \in ProgPackets
    BY <1>1, EmergencyReadTyped, StillTyped, QueueSizes DEF UpdateFromOps, TypeIInv, QueuesTyped
  <2> QED
    BY <1>1, <2>1 DEF UpdateFromOps, ProgPackets
<1>2. CASE UpdateFromRepeat
  <2>1. Head(repeat_queue) \in OrderPackets
    BY <1>2, TailTyped, QueueSizes DEF UpdateFromRepeat, TypeIInv, QueuesTyped, RepeatPackets
  <2>2. SetRepeat(Head(repeat_queue), Head(repeat_queue).rep - 1) \in OrderPackets
    BY <2>1, StillTyped
  <2>3. RepeatRead(repeat_queue, REPEAT_QUEUE_SIZE).packet \in OrderPackets
    BY <2>1, <2>2 DEF RepeatRead, FifoRead
  <2> QED
    BY <1>2, <2>3 DEF UpdateFromRepeat, OrderPackets, FunctionKinds
<1>3. CASE UpdateFromPeriodic
  <2>1. CASE periodic_refresh_queue = << >>
    BY <1>3, <2>1 DEF UpdateFromPeriodic, IdlePacket, DCCPacket, SetRepeat
  <2>2. CASE periodic_refresh_queue # << >>
    <3>1. Head(periodic_refresh_queue) \in OrderPackets
      BY <2>2, TailTyped, QueueSizes DEF TypeIInv, QueuesTyped
    <3> QED
      BY <1>3, <2>2, <3>1 DEF UpdateFromPeriodic, TemporalRead, OrderPackets, FunctionKinds
  <2> QED
    BY <2>1, <2>2
<1> QED
  BY <1>1, <1>2, <1>3

(* A packet of another kind tells the accessories nothing.                   *)
LEMMA OthersTellNothing ==
  ASSUME AccessoryInv, UNCHANGED <<app, e_stop_queue, wanted>>,
         NEW p, Send(p), p.kind \notin AccessoryKinds
  PROVE  AccessoriesOK(e_stop_queue, heard, wanted)'
<1>1. Turnout' = Turnout /\ Signal' = Signal
  BY DEF Turnout, Signal
<1>2. AccessoriesOK(e_stop_queue, heard, wanted) /\ Told(heard, {"none", "estop"})
  BY DEF AccessoryInv, TypeIInv
<1>3. \A t : ~About(p, "basic_accessory", t) /\ ~About(p, "extended_accessory", t)
  BY DEF About, AccessoryKinds
<1>4. /\ DOMAIN heard'.turnout = Turnout /\ DOMAIN heard'.signal = Signal
      /\ \A t \in Turnout : heard'.turnout[t] = heard.turnout[t]
      /\ \A t \in Signal : heard'.signal[t] = heard.signal[t]
  <2>1. CASE heard' = heard
    BY <1>2, <2>1 DEF AccessoriesOK
  <2>2. CASE heard' = Heed(heard, p)
    BY <1>2, <1>3, <2>2, HeedAccessories DEF AccessoriesOK
  <2> QED
    BY <2>1, <2>2 DEF Send
<1>5. e_stop_queue' = e_stop_queue /\ wanted' = wanted
  OBVIOUS
<1> QED
  BY <1>1, <1>2, <1>4, <1>5 DEF AccessoriesOK, OneOrderEach, LastWaits, About, Addressed

(* The first packet of the emergency queue is sent.                          *)
LEMMA EStopSent ==
  ASSUME AccessoryInv, UNCHANGED app, UpdateFromEStop
  PROVE  AccessoriesOK(e_stop_queue, heard, wanted)'
<1> DEFINE s == e_stop_queue
           r == EmergencyRead(s)
           p == r.packet
<1>0. s # << >> /\ s' = r.rest /\ Send(p) /\ wanted' = wanted
  BY DEF UpdateFromEStop, EStopTurn, EStopRetry
<1>1. Turnout' = Turnout /\ Signal' = Signal
  BY DEF Turnout, Signal
<1>2. AccessoriesOK(s, heard, wanted) /\ Told(heard, {"none", "estop"})
  BY DEF AccessoryInv, TypeIInv
<1>3. s \in Seq(EStopPackets) /\ Head(s) \in EStopPackets /\ p \in EStopPackets
  BY <1>0, EmergencyReadTyped, TailTyped, StillTyped, QueueSizes
  DEF AccessoryInv, TypeIInv, QueuesTyped, QueueTyped
<1>4. p.addr = Head(s).addr /\ p.kind = Head(s).kind /\ p.data = Head(s).data
  BY <1>3 DEF EmergencyRead, SetRepeat, EStopPackets
<1>5. ASSUME NEW t \in Turnout
      PROVE  /\ LastWaits(s', "basic_accessory", t, heard'.turnout[t], wanted'.turnout[t])
  <2>1. heard'.turnout[t] = IF About(p, "basic_accessory", t) THEN p.data.order ELSE heard.turnout[t]
    BY <1>0, <1>2, HeedAccessories DEF AccessoriesOK, AccessoryInv, Send
  <2> HIDE DEF p
  <2>2. LastWaits(r.rest, "basic_accessory", t,
                  IF About(p, "basic_accessory", t) THEN p.data.order ELSE heard.turnout[t],
                  wanted.turnout[t])
    BY <1>0, <1>2, <1>3, <1>4, ReadLast DEF AccessoriesOK, p
  <2> QED
    BY <1>0, <2>1, <2>2
<1>6. ASSUME NEW t \in Signal
      PROVE  /\ LastWaits(s', "extended_accessory", t, heard'.signal[t], wanted'.signal[t])
  <2>1. heard'.signal[t] = IF About(p, "extended_accessory", t) THEN p.data.order ELSE heard.signal[t]
    BY <1>0, <1>2, HeedAccessories DEF AccessoriesOK, AccessoryInv, Send
  <2> HIDE DEF p
  <2>2. LastWaits(r.rest, "extended_accessory", t,
                  IF About(p, "extended_accessory", t) THEN p.data.order ELSE heard.signal[t],
                  wanted.signal[t])
    BY <1>0, <1>2, <1>3, <1>4, ReadLast DEF AccessoriesOK, p
  <2> QED
    BY <1>0, <2>1, <2>2
<1>7. OneOrderEach(r.rest)
  <2>1. OneOrderEach(s)
    BY <1>2 DEF AccessoriesOK
  <2>2. Len(s) \in Nat \ {0} /\ 1 \in 1..Len(s) /\ Head(s) = s[1]
    BY <1>0, <1>3, EmptySeq
  <2>3. CASE r.rest = Tail(s)
    <3> DEFINE q == Tail(s)
    <3>1. Len(q) = Len(s) - 1 /\ \A i \in 1..Len(q) : q[i] = s[i + 1] /\ i + 1 \in 1..Len(s)
      BY <1>0, <1>3, <2>2, HeadTailProperties
    <3> HIDE DEF q
    <3>2. \A i, j \in 1..Len(q) : i + 1 = j + 1 => i = j
      BY <2>2, <3>1
    <3>3. ASSUME NEW i \in 1..Len(q), q[i].kind = "extended_accessory"
          PROVE  /\ \A j \in 1..Len(q) : Same(q[i], q[j]) => i = j
                 /\ \E t \in Signal : q[i].addr = (t + TrntFormat) \div 4 /\ Addressed(q[i]) = t
      <4>1. i + 1 \in 1..Len(s) /\ q[i] = s[i + 1]
        BY <3>1
      <4>2. \A j \in 1..Len(q) : Same(q[i], q[j]) => i + 1 = j + 1
        BY <2>1, <3>1, <3>3, <4>1 DEF OneOrderEach
      <4> QED
        BY <2>1, <3>2, <3>3, <4>1, <4>2 DEF OneOrderEach
    <3>4. OneOrderEach(q)
      BY <3>3 DEF OneOrderEach
    <3> QED
      BY <2>3, <3>4 DEF q
  <2>4. CASE r.rest = [s EXCEPT ![1] = p]
    <3> DEFINE q == [s EXCEPT ![1] = p]
    <3>1. Len(q) = Len(s) /\ q[1] = p /\ \A i \in 1..Len(s) : i # 1 => q[i] = s[i]
      BY <1>3, <2>2, ExceptSeq
    <3> HIDE DEF q, p
    <3>2. \A i \in 1..Len(s) : /\ q[i].addr = s[i].addr /\ q[i].kind = s[i].kind
                               /\ q[i].data = s[i].data
      BY <1>4, <2>2, <3>1
    <3>3. OneOrderEach(q)
      BY <2>1, <3>1, <3>2 DEF OneOrderEach, Same, Addressed
    <3> QED
      BY <2>4, <3>3 DEF q
  <2> QED
    BY <2>3, <2>4 DEF EmergencyRead
<1>8. OneOrderEach(s)'
  BY <1>0, <1>1, <1>7 DEF OneOrderEach, Addressed
<1>9. DOMAIN heard'.turnout = Turnout /\ DOMAIN heard'.signal = Signal
  BY <1>0, <1>2, HeedAccessories DEF AccessoriesOK, Send
<1> QED
  BY <1>0, <1>1, <1>2, <1>5, <1>6, <1>8, <1>9 DEF AccessoriesOK, LastWaits, About, Addressed

(* The ways a packet gets into the emergency queue: rejected, appended, or in *)
(* the place of one about the same thing.                                    *)
Appended(s, p, new) ==
  /\ new = Append(s, p)
  /\ p.kind \in AppendOnlyKinds \/ \A k \in 1..Len(s) : ~Same(s[k], p)

Replaced(s, p, new) ==
  \E k \in 1..Len(s) : Same(s[k], p) /\ p.kind \notin AppendOnlyKinds /\ new = [s EXCEPT ![k] = p]

LEMMA InsertedHow ==
  ASSUME NEW P, NEW s \in Seq(P), NEW p \in P, NEW cap \in Nat
  PROVE  /\ ~Accepts(s, cap) => Insert(s, cap, p) = s
         /\ Accepts(s, cap) => Appended(s, p, Insert(s, cap, p)) \/ Replaced(s, p, Insert(s, cap, p))
<1>1. \A k \in Hits(s, p) : k \in 1..Len(s) /\ Same(s[k], p) /\ p.kind \notin AppendOnlyKinds
  BY DEF Hits, SameKey, Same
<1>2. Hits(s, p) = {} => p.kind \in AppendOnlyKinds \/ \A k \in 1..Len(s) : ~Same(s[k], p)
  BY DEF Hits, SameKey, Same
<1>3. ASSUME Accepts(s, cap)
      PROVE  Appended(s, p, Insert(s, cap, p)) \/ Replaced(s, p, Insert(s, cap, p))
  <2>1. Len(s) < cap
    BY <1>3 DEF Accepts
  <2> QED
    BY <1>1, <1>2, <2>1, InsertCases DEF Appended, Replaced
<1> QED
  BY <1>3 DEF Insert

(* Whatever is inserted, each signal still has one order at most.            *)
LEMMA InsertKeepsOne ==
  ASSUME NEW P, NEW s \in Seq(P), OneOrderEach(s), NEW p \in P, NEW new,
         p.kind = "extended_accessory" =>
           \E t \in Signal : p.addr = (t + TrntFormat) \div 4 /\ Addressed(p) = t,
         Appended(s, p, new) \/ Replaced(s, p, new)
  PROVE  OneOrderEach(new)
<1> DEFINE n == Len(s)
<1>0. "extended_accessory" \notin AppendOnlyKinds /\ n \in Nat
  BY ConfigurationAssumption
<1>1. CASE Appended(s, p, new)
  <2>1. Len(new) = n + 1 /\ new[n + 1] = p /\ \A i \in 1..n : new[i] = s[i]
    BY <1>1, AppendProperties DEF Appended
  <2>2. \A i \in 1..Len(new) : i \in 1..n \/ i = n + 1
    BY <1>0, <2>1
  <2>3. p.kind = "extended_accessory" => \A k \in 1..n : ~Same(s[k], p)
    BY <1>0, <1>1 DEF Appended
  <2>4. ASSUME NEW i \in 1..Len(new), NEW j \in 1..Len(new),
               new[i].kind = "extended_accessory", Same(new[i], new[j])
        PROVE  i = j
    <3>1. CASE i \in 1..n /\ j \in 1..n
      BY <2>1, <2>4, <3>1 DEF OneOrderEach
    <3>2. CASE i = n + 1 /\ j \in 1..n
      BY <2>1, <2>3, <2>4, <3>2 DEF Same
    <3>3. CASE i \in 1..n /\ j = n + 1
      BY <2>1, <2>3, <2>4, <3>3 DEF Same
    <3> QED
      BY <2>2, <3>1, <3>2, <3>3
  <2>5. \A i \in 1..Len(new) : new[i].kind = "extended_accessory" =>
          \E t \in Signal : new[i].addr = (t + TrntFormat) \div 4 /\ Addressed(new[i]) = t
    BY <2>1, <2>2 DEF OneOrderEach
  <2> QED
    BY <2>4, <2>5 DEF OneOrderEach
<1>2. ASSUME NEW k \in 1..n, Same(s[k], p), new = [s EXCEPT ![k] = p] PROVE OneOrderEach(new)
  <2>1. Len(new) = n /\ new[k] = p /\ \A i \in 1..n : i # k => new[i] = s[i]
    BY <1>2, ExceptSeq
  <2>2. \A i \in 1..n : new[i].addr = s[i].addr /\ new[i].kind = s[i].kind
    BY <1>2, <2>1 DEF Same
  <2>3. \A i, j \in 1..Len(new) : new[i].kind = "extended_accessory" /\ Same(new[i], new[j]) => i = j
    BY <2>1, <2>2 DEF OneOrderEach, Same
  <2>4. \A i \in 1..Len(new) : new[i].kind = "extended_accessory" =>
          \E t \in Signal : new[i].addr = (t + TrntFormat) \div 4 /\ Addressed(new[i]) = t
    BY <2>1 DEF OneOrderEach
  <2> QED
    BY <2>3, <2>4 DEF OneOrderEach
<1> QED
  BY <1>1, <1>2 DEF Replaced

(* An insertion that is not about t leaves the orders for t as they were.    *)
LEMMA InsertOther ==
  ASSUME NEW P, NEW s \in Seq(P), NEW p \in P, NEW new, NEW kind, NEW t, NEW told, NEW last,
         LastWaits(s, kind, t, told, last), ~About(p, kind, t),
         \A k \in 1..Len(s) : Same(s[k], p) /\ p.kind \notin AppendOnlyKinds => ~About(s[k], kind, t),
         Appended(s, p, new) \/ Replaced(s, p, new)
  PROVE  LastWaits(new, kind, t, told, last)
<1>1. CASE Appended(s, p, new)
  BY <1>1, AppendedLast DEF Appended
<1>2. CASE Replaced(s, p, new)
  <2>1. PICK k \in 1..Len(s) : Same(s[k], p) /\ p.kind \notin AppendOnlyKinds /\ new = [s EXCEPT ![k] = p]
    BY <1>2 DEF Replaced
  <2> QED
    BY <2>1, ReplacedLast
<1> QED
  BY <1>1, <1>2

(* One that is about t makes it the last order for t.                        *)
LEMMA InsertThis ==
  ASSUME NEW P, NEW s \in Seq(P), NEW p \in P, NEW new, NEW kind, NEW t, NEW told, NEW last,
         LastWaits(s, kind, t, told, last), About(p, kind, t),
         p.kind \notin AppendOnlyKinds =>
           \A i, j \in 1..Len(s) : About(s[i], kind, t) /\ Same(s[j], p) => i = j,
         Appended(s, p, new) \/ Replaced(s, p, new)
  PROVE  LastWaits(new, kind, t, told, p.data.order)
<1>1. CASE Appended(s, p, new)
  BY <1>1, AppendedLast DEF Appended
<1>2. CASE Replaced(s, p, new)
  <2>1. PICK k \in 1..Len(s) : Same(s[k], p) /\ p.kind \notin AppendOnlyKinds /\ new = [s EXCEPT ![k] = p]
    BY <1>2 DEF Replaced
  <2>2. \A j \in 1..Len(s) : j # k => ~About(s[j], kind, t)
    BY <2>1
  <2> QED
    BY <2>1, <2>2, ReplacedLast
<1> QED
  BY <1>1, <1>2

-----------------------------------------------------------------------------
(* The address and the port of an accessory packet give its accessory back.  *)
LEMMA AccessoryPackets ==
  ASSUME NEW t \in Nat, NEW kind, NEW order
  PROVE  LET p == AccessoryPacket(t, kind, order)
         IN  /\ About(p, kind, t) /\ \A u : About(p, kind, u) => u = t
             /\ p.kind = kind /\ p.addr = (t + TrntFormat) \div 4 /\ p.data.order = order
<1> DEFINE p == AccessoryPacket(t, kind, order)
<1>1. /\ p.addr = (t + TrntFormat) \div 4 /\ p.data.port = (t + TrntFormat) % 4
      /\ p.data.order = order /\ p.kind = kind
  BY DEF AccessoryPacket, DCCPacket, SetRepeat
<1>2. TrntFormat \in Nat
  BY ConfigurationAssumption
<1>3. Addressed(p) = t
  BY <1>1, <1>2 DEF Addressed
<1> QED
  BY <1>1, <1>3 DEF About

(* Emergency stops and binary states tell the accessories nothing, and take   *)
(* the place of none of their orders.                                        *)
LEMMA OtherInserted ==
  ASSUME AccessoryInv, UNCHANGED <<app, heard, wanted>>,
         NEW p \in EStopPackets, p.kind \notin AccessoryKinds,
         e_stop_queue' = Insert(e_stop_queue, E_STOP_QUEUE_SIZE, p)
  PROVE  AccessoriesOK(e_stop_queue, heard, wanted)'
<1> DEFINE s == e_stop_queue
           new == Insert(s, E_STOP_QUEUE_SIZE, p)
<1>1. Turnout' = Turnout /\ Signal' = Signal
  BY DEF Turnout, Signal
<1>2. AccessoriesOK(s, heard, wanted) /\ s \in Seq(EStopPackets) /\ E_STOP_QUEUE_SIZE \in Nat
  BY QueueSizes DEF AccessoryInv, TypeIInv, QueuesTyped, QueueTyped
<1>3. /\ ~Accepts(s, E_STOP_QUEUE_SIZE) => new = s
      /\ Accepts(s, E_STOP_QUEUE_SIZE) => Appended(s, p, new) \/ Replaced(s, p, new)
  BY <1>2, InsertedHow
<1> HIDE DEF new
<1>4. AccessoriesOK(new, heard, wanted)
  <2>1. CASE new = s
    BY <1>2, <2>1
  <2>2. CASE Appended(s, p, new) \/ Replaced(s, p, new)
    <3>1. OneOrderEach(new)
      BY <1>2, <2>2, InsertKeepsOne DEF AccessoriesOK, AccessoryKinds
    <3>2. ASSUME NEW kind \in AccessoryKinds, NEW t, NEW told, NEW last, LastWaits(s, kind, t, told, last)
          PROVE  LastWaits(new, kind, t, told, last)
      <4>1. ~About(p, kind, t) /\ \A k \in 1..Len(s) : Same(s[k], p) => ~About(s[k], kind, t)
        BY DEF About, Same
      <4> QED
        BY <1>2, <2>2, <3>2, <4>1, InsertOther
    <3> QED
      BY <1>2, <3>1, <3>2 DEF AccessoriesOK, AccessoryKinds
  <2> QED
    BY <1>3, <2>1, <2>2
<1>5. e_stop_queue' = new /\ heard' = heard /\ wanted' = wanted
  BY DEF new
<1> QED
  BY <1>1, <1>4, <1>5 DEF AccessoriesOK, OneOrderEach, LastWaits, About, Addressed

(* A turnout is ordered.                                                     *)
LEMMA TurnoutOrdered ==
  ASSUME AccessoriesApart, AccessoryInv, app' = app,
         NEW t \in Turnout, NEW pos \in Position, NEW activ \in app.activ,
         SetBasicAccessoryPos(t, pos, activ)
  PROVE  AccessoriesOK(e_stop_queue, heard, wanted)'
<1> DEFINE s == e_stop_queue
           order == <<pos, activ>>
           p == TurnoutPacket(t, order)
           new == Insert(s, E_STOP_QUEUE_SIZE, p)
<1>1. Turnout' = Turnout /\ Signal' = Signal /\ t \in Nat
  BY DEF Turnout, Signal, AccessoriesApart, AccessoryInv, TypeIInv, RegisterIInv, SlotsOK
<1>2. /\ AccessoriesOK(s, heard, wanted) /\ s \in Seq(EStopPackets) /\ E_STOP_QUEUE_SIZE \in Nat
      /\ Told(wanted, {"none"})
  BY QueueSizes DEF AccessoryInv, TypeIInv, QueuesTyped, QueueTyped
<1>3. p \in EStopPackets
  BY EmergencyPackets DEF Accessory
<1>4. /\ About(p, "basic_accessory", t) /\ \A u : About(p, "basic_accessory", u) => u = t
      /\ p.kind = "basic_accessory" /\ p.data.order = order
  BY <1>1, AccessoryPackets DEF TurnoutPacket
<1>5. /\ ~Accepts(s, E_STOP_QUEUE_SIZE) => new = s
      /\ Accepts(s, E_STOP_QUEUE_SIZE) => Appended(s, p, new) \/ Replaced(s, p, new)
  BY <1>2, <1>3, InsertedHow
<1>6. /\ s' = new /\ heard' = heard
      /\ Accepts(s, E_STOP_QUEUE_SIZE) => wanted' = [wanted EXCEPT !.turnout[t] = order]
      /\ ~Accepts(s, E_STOP_QUEUE_SIZE) => wanted' = wanted
  BY DEF SetBasicAccessoryPos
<1> HIDE DEF new, p, order
<1>7. CASE ~Accepts(s, E_STOP_QUEUE_SIZE)
  BY <1>1, <1>2, <1>5, <1>6, <1>7 DEF AccessoriesOK, OneOrderEach, LastWaits, About, Addressed
<1>8. CASE Accepts(s, E_STOP_QUEUE_SIZE)
  <2>1. Appended(s, p, new) \/ Replaced(s, p, new)
    BY <1>5, <1>8
  <2>2. /\ wanted'.turnout = [wanted.turnout EXCEPT ![t] = order] /\ wanted'.signal = wanted.signal
    BY <1>2, <1>6, <1>8 DEF Told
  <2>3. OneOrderEach(new)
    BY <1>2, <1>3, <1>4, <2>1, InsertKeepsOne DEF AccessoriesOK
  <2>4. p.kind \in AppendOnlyKinds
    BY <1>4, ConfigurationAssumption
  <2>5. ASSUME NEW u \in Turnout
        PROVE  LastWaits(new, "basic_accessory", u, heard.turnout[u], wanted'.turnout[u])
    <3>1. LastWaits(s, "basic_accessory", u, heard.turnout[u], wanted.turnout[u])
      BY <1>2 DEF AccessoriesOK
    <3>2. CASE u = t
      BY <1>2, <1>3, <1>4, <2>1, <2>2, <2>4, <3>1, <3>2, InsertThis DEF AccessoriesOK
    <3>3. CASE u # t
      BY <1>2, <1>3, <1>4, <2>1, <2>2, <2>4, <3>1, <3>3, InsertOther DEF AccessoriesOK
    <3> QED
      BY <3>2, <3>3
  <2>6. ASSUME NEW u \in Signal
        PROVE  LastWaits(new, "extended_accessory", u, heard.signal[u], wanted'.signal[u])
    <3>1. LastWaits(s, "extended_accessory", u, heard.signal[u], wanted.signal[u])
      BY <1>2 DEF AccessoriesOK
    <3>2. ~About(p, "extended_accessory", u)
      BY <1>4 DEF About
    <3> QED
      BY <1>2, <1>3, <2>1, <2>2, <2>4, <3>1, <3>2, InsertOther
  <2>7. DOMAIN wanted'.turnout = Turnout /\ DOMAIN wanted'.signal = Signal
    BY <1>2, <2>2 DEF AccessoriesOK
  <2> QED
    BY <1>1, <1>2, <1>6, <2>3, <2>5, <2>6, <2>7
    DEF AccessoriesOK, OneOrderEach, LastWaits, About, Addressed
<1> QED
  BY <1>7, <1>8

(* A signal is ordered: its order takes the place of one that waits.         *)
LEMMA SignalOrdered ==
  ASSUME AccessoriesApart, AccessoryInv, app' = app,
         NEW t \in Signal, NEW aspect \in {"red", "green"}, SetExtAccessoryPos(t, aspect)
  PROVE  AccessoriesOK(e_stop_queue, heard, wanted)'
<1> DEFINE s == e_stop_queue
           p == SignalPacket(t, aspect)
           new == Insert(s, E_STOP_QUEUE_SIZE, p)
<1>1. /\ Turnout' = Turnout /\ Signal' = Signal /\ t \in Nat
      /\ \A u, v \in Signal : (u + TrntFormat) \div 4 = (v + TrntFormat) \div 4 => u = v
  BY DEF Turnout, Signal, AccessoriesApart, AccessoryInv, TypeIInv, RegisterIInv, SlotsOK
<1>2. /\ AccessoriesOK(s, heard, wanted) /\ s \in Seq(EStopPackets) /\ E_STOP_QUEUE_SIZE \in Nat
      /\ Told(wanted, {"none"})
  BY QueueSizes DEF AccessoryInv, TypeIInv, QueuesTyped, QueueTyped
<1>3. p \in EStopPackets
  BY EmergencyPackets DEF Accessory
<1>4. /\ About(p, "extended_accessory", t) /\ \A u : About(p, "extended_accessory", u) => u = t
      /\ p.kind = "extended_accessory" /\ p.data.order = aspect /\ p.addr = (t + TrntFormat) \div 4
  BY <1>1, AccessoryPackets DEF SignalPacket
<1>5. /\ ~Accepts(s, E_STOP_QUEUE_SIZE) => new = s
      /\ Accepts(s, E_STOP_QUEUE_SIZE) => Appended(s, p, new) \/ Replaced(s, p, new)
  BY <1>2, <1>3, InsertedHow
<1>6. /\ s' = new /\ heard' = heard
      /\ Accepts(s, E_STOP_QUEUE_SIZE) => wanted' = [wanted EXCEPT !.signal[t] = aspect]
      /\ ~Accepts(s, E_STOP_QUEUE_SIZE) => wanted' = wanted
  BY DEF SetExtAccessoryPos
<1> HIDE DEF new, p
<1>7. CASE ~Accepts(s, E_STOP_QUEUE_SIZE)
  BY <1>1, <1>2, <1>5, <1>6, <1>7 DEF AccessoriesOK, OneOrderEach, LastWaits, About, Addressed
<1>8. CASE Accepts(s, E_STOP_QUEUE_SIZE)
  <2>1. Appended(s, p, new) \/ Replaced(s, p, new)
    BY <1>5, <1>8
  <2>2. /\ wanted'.signal = [wanted.signal EXCEPT ![t] = aspect] /\ wanted'.turnout = wanted.turnout
    BY <1>2, <1>6, <1>8 DEF Told
  <2>3. OneOrderEach(new)
    BY <1>2, <1>3, <1>4, <2>1, InsertKeepsOne DEF AccessoriesOK, About
  <2>4. \A k \in 1..Len(s) : Same(s[k], p) => About(s[k], "extended_accessory", t)
    <3>1. ASSUME NEW k \in 1..Len(s), Same(s[k], p) PROVE About(s[k], "extended_accessory", t)
      <4>1. s[k].kind = "extended_accessory" /\ s[k].addr = (t + TrntFormat) \div 4
        BY <1>4, <3>1 DEF Same
      <4>2. PICK u \in Signal : s[k].addr = (u + TrntFormat) \div 4 /\ Addressed(s[k]) = u
        BY <1>2, <4>1 DEF AccessoriesOK, OneOrderEach
      <4>3. u = t
        BY <1>1, <4>1, <4>2
      <4> QED
        BY <4>1, <4>2, <4>3 DEF About
    <3> QED
      BY <3>1
  <2>5. \A i, j \in 1..Len(s) : About(s[i], "extended_accessory", t) /\ Same(s[j], p) => i = j
    <3>1. ASSUME NEW i \in 1..Len(s), NEW j \in 1..Len(s), About(s[i], "extended_accessory", t), Same(s[j], p)
          PROVE  i = j
      <4>1. PICK u \in Signal : s[i].addr = (u + TrntFormat) \div 4 /\ Addressed(s[i]) = u
        BY <1>2, <3>1 DEF AccessoriesOK, OneOrderEach, About
      <4>2. Same(s[i], s[j]) /\ s[i].kind = "extended_accessory"
        BY <1>4, <3>1, <4>1 DEF About, Same
      <4> QED
        BY <1>2, <4>2 DEF AccessoriesOK, OneOrderEach
    <3> QED
      BY <3>1
  <2>6. ASSUME NEW u \in Signal
        PROVE  LastWaits(new, "extended_accessory", u, heard.signal[u], wanted'.signal[u])
    <3>1. LastWaits(s, "extended_accessory", u, heard.signal[u], wanted.signal[u])
      BY <1>2 DEF AccessoriesOK
    <3>2. CASE u = t
      BY <1>2, <1>3, <1>4, <2>1, <2>2, <2>5, <3>1, <3>2, InsertThis DEF AccessoriesOK
    <3>3. CASE u # t
      <4>1. ~About(p, "extended_accessory", u)
        BY <1>4, <3>3
      <4>2. \A k \in 1..Len(s) : Same(s[k], p) => ~About(s[k], "extended_accessory", u)
        BY <2>4, <3>3 DEF About
      <4>3. wanted'.signal[u] = wanted.signal[u]
        BY <1>2, <2>2, <3>3 DEF AccessoriesOK
      <4> QED
        BY <1>2, <1>3, <2>1, <3>1, <4>1, <4>2, <4>3, InsertOther
    <3> QED
      BY <3>2, <3>3
  <2>7. ASSUME NEW u \in Turnout
        PROVE  LastWaits(new, "basic_accessory", u, heard.turnout[u], wanted'.turnout[u])
    <3>1. LastWaits(s, "basic_accessory", u, heard.turnout[u], wanted.turnout[u])
      BY <1>2 DEF AccessoriesOK
    <3>2. ~About(p, "basic_accessory", u) /\ \A k \in 1..Len(s) : Same(s[k], p) => ~About(s[k], "basic_accessory", u)
      BY <1>4 DEF About, Same
    <3> QED
      BY <1>2, <1>3, <2>1, <2>2, <3>1, <3>2, InsertOther
  <2>8. DOMAIN wanted'.turnout = Turnout /\ DOMAIN wanted'.signal = Signal
    BY <1>2, <2>2 DEF AccessoriesOK
  <2> QED
    BY <1>1, <1>2, <1>6, <2>3, <2>6, <2>7, <2>8
    DEF AccessoriesOK, OneOrderEach, LastWaits, About, Addressed
<1> QED
  BY <1>7, <1>8

(* What leaves the emergency queue and the accessories alone.                *)
LEMMA AccessoriesUntouched ==
  ASSUME AccessoryInv, UNCHANGED <<app, e_stop_queue>>,
         heard'.turnout = heard.turnout, heard'.signal = heard.signal,
         wanted'.turnout = wanted.turnout, wanted'.signal = wanted.signal
  PROVE  AccessoriesOK(e_stop_queue, heard, wanted)'
BY DEF AccessoryInv, AccessoriesOK, OneOrderEach, LastWaits, About, Addressed, Turnout, Signal

LEMMA InitAccessoryInv == ASSUME Init PROVE AccessoryInv
<1>1. TypeIInv
  BY InitTypeIInv
<1>2. /\ e_stop_queue = << >> /\ wanted = heard /\ Powered
      /\ DOMAIN heard.turnout = Turnout /\ DOMAIN heard.signal = Signal
  BY DEF Init, Powered
<1>3. Len(e_stop_queue) = 0
  BY <1>2
<1>4. OneOrderEach(e_stop_queue)
  BY <1>3 DEF OneOrderEach
<1>5. ASSUME NEW kind, NEW t, NEW told PROVE LastWaits(e_stop_queue, kind, t, told, told)
  BY <1>3 DEF LastWaits
<1> QED
  BY <1>1, <1>2, <1>4, <1>5 DEF AccessoryInv, AccessoriesOK

(* Only a program that takes the power off the rails takes it away.          *)
LEMMA StaysPowered ==
  ASSUME app.power \intersect {"OFF", "SHORT"} = {}, Powered, [Next]_vars
  PROVE  Powered'
<1>1. railpower' = railpower \/ railpower' = "ESTOP" \/ railpower' \in app.power
  <2>1. CASE update
    <3>1. CASE UpdateFromOps \/ UpdateFromEStop
      BY <3>1 DEF UpdateFromOps, UpdateFromEStop
    <3>2. CASE UpdateFromRepeat \/ UpdateFromPeriodic
      BY <3>2 DEF UpdateFromRepeat, UpdateFromPeriodic
    <3> QED
      BY <2>1, <3>1, <3>2 DEF update
  <2>2. CASE Application
    <3>1. CASE \/ \E a \in Loco, s \in Speed : SetSpeed(a, s)
               \/ \E a \in Loco, b \in app.binaryState : SetLocoFuncBinary(a, b)
      BY <3>1 DEF SetSpeed, SetLocoFuncBinary
    <3>5. ASSUME NEW a \in Loco, NEW f \in Function, NEW type \in {"AUS", "EIN", "UM"},
                 SetLocoFunc(a, f, type)
          PROVE  railpower' = railpower
      BY <3>5 DEF SetLocoFunc
    <3>4. CASE \E a \in Queried : Query(a)
      BY <3>4 DEF Query
    <3>2. CASE \/ \E t \in Turnout, pos \in Position, activ \in app.activ :
                    SetBasicAccessoryPos(t, pos, activ)
               \/ \E t \in Signal, aspect \in {"red", "green"} : SetExtAccessoryPos(t, aspect)
               \/ \E a \in Loco, order \in app.pomOrder : ProgramOnMain(a, order)
      BY <3>2 DEF SetBasicAccessoryPos, SetExtAccessoryPos, ProgramOnMain
    <3>3. CASE (\E state \in app.power : SetPower(state)) \/ EStop
      BY <3>3 DEF SetPower, EStop
    <3> QED
      BY <2>2, <3>1, <3>2, <3>3, <3>4, <3>5 DEF Application
  <2> QED
    BY <2>1, <2>2 DEF Next, vars
<1> QED
  BY <1>1 DEF Powered

LEMMA NextAccessoryInv ==
  ASSUME NoLocoZero, AccessoriesApart, AccessoryInv, [Next]_vars
  PROVE  AccessoryInv'
<1>1. TypeIInv'
  BY NextTypeIInv DEF AccessoryInv
<1>2. (Turnout \union Signal # {} => Powered)'
  <2>1. app' = app
    BY DEF Next, update, vars
  <2>2. Turnout \union Signal # {} => app.power \intersect {"OFF", "SHORT"} = {} /\ Powered
    BY DEF AccessoriesApart, Turnout, Signal, AccessoryInv, TypeIInv, RegisterIInv, SlotsOK
  <2> QED
    BY <2>1, <2>2, StaysPowered DEF Turnout, Signal
<1>3. Told(wanted, {"none"})
  BY DEF AccessoryInv, TypeIInv
<1> DEFINE Agreed == AccessoriesOK(e_stop_queue, heard, wanted)'
<1>4. ASSUME UNCHANGED vars PROVE Agreed
  BY <1>4, AccessoriesUntouched DEF vars, queues
<1>5. ASSUME update PROVE Agreed
  <2>1. UNCHANGED <<app, wanted>>
    BY <1>5 DEF update, UpdateFromOps, UpdateFromEStop, UpdateFromRepeat, UpdateFromPeriodic
  <2>2. CASE UpdateFromOps \/ UpdateFromRepeat \/ UpdateFromPeriodic
    <3>1. e_stop_queue' = e_stop_queue
      BY <2>2 DEF UpdateFromOps, UpdateFromRepeat, UpdateFromPeriodic
    <3> QED
      BY <2>1, <2>2, <3>1, OthersSent, OthersTellNothing DEF AccessoryInv
  <2>3. CASE UpdateFromEStop
    BY <2>1, <2>3, EStopSent
  <2> QED
    BY <1>5, <2>2, <2>3 DEF update
<1>6. ASSUME Application, app' = app PROVE Agreed
  <2>1. ASSUME NEW a, NEW s, SetSpeed(a, s) PROVE Agreed
    <3>1. wanted'.turnout = wanted.turnout /\ wanted'.signal = wanted.signal
      BY <1>3, <2>1 DEF SetSpeed, Told
    <3> QED
      BY <1>6, <2>1, <3>1, AccessoriesUntouched DEF SetSpeed
  <2>2. ASSUME NEW a, NEW f, NEW type, SetLocoFunc(a, f, type) PROVE Agreed
    <3>1. wanted' = wanted \/ \E x : wanted' = [wanted EXCEPT !.fn[a] = x]
      BY <2>2 DEF SetLocoFunc
    <3>2. wanted'.turnout = wanted.turnout /\ wanted'.signal = wanted.signal
      BY <1>3, <3>1 DEF Told
    <3> QED
      BY <1>6, <2>2, <3>2, AccessoriesUntouched DEF SetLocoFunc
  <2>3. ASSUME NEW a \in Loco, NEW b \in app.binaryState, SetLocoFuncBinary(a, b) PROVE Agreed
    <3> DEFINE p == DCCPacket(a, "fn_b", b, FUNCTION_REPEAT)
    <3>1. p \in EStopPackets
      BY EmergencyPackets
    <3>2. p.kind \notin AccessoryKinds
      BY DEF DCCPacket, SetRepeat, AccessoryKinds
    <3>3. /\ e_stop_queue' = Insert(e_stop_queue, E_STOP_QUEUE_SIZE, p)
          /\ UNCHANGED <<heard, wanted>>
      BY <2>3 DEF SetLocoFuncBinary
    <3> HIDE DEF p
    <3> QED
      BY <1>6, <3>1, <3>2, <3>3, OtherInserted
  <2>4. ASSUME NEW a, Query(a) PROVE Agreed
    BY <1>6, <2>4, AccessoriesUntouched DEF Query, queues
  <2>5. ASSUME NEW t \in Turnout, NEW pos \in Position, NEW activ \in app.activ,
               SetBasicAccessoryPos(t, pos, activ)
        PROVE  Agreed
    BY <1>6, <2>5, TurnoutOrdered
  <2>6. ASSUME NEW t \in Signal, NEW aspect \in {"red", "green"}, SetExtAccessoryPos(t, aspect)
        PROVE  Agreed
    BY <1>6, <2>6, SignalOrdered
  <2>7. ASSUME NEW a, NEW order, ProgramOnMain(a, order) PROVE Agreed
    <3>1. wanted'.turnout = wanted.turnout /\ wanted'.signal = wanted.signal
      BY <1>3, <2>7 DEF ProgramOnMain, Told
    <3> QED
      BY <1>6, <2>7, <3>1, AccessoriesUntouched DEF ProgramOnMain
  <2>8. ASSUME NEW state, SetPower(state) PROVE Agreed
    BY <1>6, <2>8, AccessoriesUntouched DEF SetPower, queues
  <2>9. CASE EStop
    <3>1. EStopPacket.kind \notin AccessoryKinds
      BY DEF EStopPacket, DCCPacket, SetRepeat, AccessoryKinds
    <3> QED
      BY <1>6, <2>9, <3>1, EmergencyPackets, OtherInserted DEF EStop
  <2> QED
    BY <1>6, <2>1, <2>2, <2>3, <2>4, <2>5, <2>6, <2>7, <2>8, <2>9 DEF Application
<1> QED
  BY <1>1, <1>2, <1>4, <1>5, <1>6 DEF AccessoryInv, Next

(* Every turnout and signal with no order waiting shows the last order that   *)
(* was accepted for it: overwriting, repeats, emergency stops, binary states  *)
(* and full queues lose none and let none overtake a later one.              *)
THEOREM AccessoriesGetLastOrder ==
  ASSUME NoLocoZero, AccessoriesApart
  PROVE  Spec => []AccessoriesAgree
<1>1. ASSUME AccessoryInv PROVE AccessoriesAgree
  <2>1. \A kind, t : Waiting(kind, t) = {} =>
          \A i \in 1..Len(e_stop_queue) : ~About(e_stop_queue[i], kind, t)
    BY DEF Waiting, Entries, About
  <2> QED
    BY <1>1, <2>1 DEF AccessoryInv, AccessoriesOK, LastWaits, AccessoriesAgree
<1> QED
  BY <1>1, InitAccessoryInv, NextAccessoryInv, PTL DEF Spec

-----------------------------------------------------------------------------
(* A program that programs on the main keeps the power on the rails and gives *)
(* a loco one order only: of two that wait the second overwrites the first.  *)
OnePomOrder ==
  \A x \in Applications :
    x.pomOrder # {} => /\ x.power \intersect {"OFF", "SHORT"} = {}
                       /\ \A c, d \in x.pomOrder : c = d

PomFor(s, a) == {p \in Entries(s) : p.kind = "pom" /\ p.addr = a}

PomOK(s, told, last) ==
  /\ DOMAIN told.pom = Loco
  /\ last.pom \in [Loco -> SUBSET app.pomOrder]
  /\ \A p \in Entries(s) : p.kind = "pom" => p.data \in app.pomOrder
  /\ \A a \in Loco : PomFor(s, a) = {} => last.pom[a] \subseteq told.pom[a]

PomInv ==
  /\ TypeIInv
  /\ app.pomOrder # {} => Powered
  /\ PomOK(ops_programmming_queue, heard, wanted)

(* What a read leaves in a queue: all but the first packet, and the packet    *)
(* that was sent when it has a repeat left.                                  *)
LEMMA ReadEntries ==
  ASSUME NEW P, NEW s \in Seq(P), s # << >>
  PROVE  LET r == EmergencyRead(s)
         IN  /\ Head(s) \in Entries(s)
             /\ Entries(r.rest) \subseteq Entries(s) \union {r.packet}
             /\ Entries(s) \subseteq Entries(r.rest) \union {Head(s)}
<1> DEFINE p == EmergencyRead(s).packet
<1>1. Len(s) \in Nat \ {0} /\ 1 \in 1..Len(s) /\ Head(s) = s[1]
  BY EmptySeq
<1>2. Head(s) \in Entries(s)
  BY <1>1 DEF Entries
<1>3. Entries(Tail(s)) \subseteq Entries(s) /\ Entries(s) \subseteq Entries(Tail(s)) \union {Head(s)}
  <2> DEFINE q == Tail(s)
  <2>1. Len(q) = Len(s) - 1 /\ \A i \in 1..Len(q) : q[i] = s[i + 1]
    BY <1>1, HeadTailProperties
  <2> HIDE DEF q
  <2>2. \A i \in 1..Len(q) : i + 1 \in 1..Len(s)
    BY <1>1, <2>1
  <2>3. \A i \in 1..Len(s) : i # 1 => i - 1 \in 1..Len(q) /\ q[i - 1] = s[i]
    BY <1>1, <2>1
  <2>4. Entries(q) \subseteq Entries(s)
    BY <2>1, <2>2 DEF Entries
  <2>5. ASSUME NEW i \in 1..Len(s) PROVE s[i] \in Entries(q) \union {Head(s)}
    BY <1>1, <2>3 DEF Entries
  <2>6. Entries(s) \subseteq Entries(q) \union {Head(s)}
    BY <2>5 DEF Entries
  <2> QED
    BY <2>4, <2>6 DEF q
<1>4. LET q == [s EXCEPT ![1] = p]
      IN  Entries(q) \subseteq Entries(s) \union {p} /\ Entries(s) \subseteq Entries(q) \union {Head(s)}
  <2> DEFINE q == [s EXCEPT ![1] = p]
  <2>1. Len(q) = Len(s) /\ q[1] = p /\ \A i \in 1..Len(s) : i # 1 => q[i] = s[i]
    <3> HIDE DEF p
    <3>1. s \in Seq(P \union {p})
      OBVIOUS
    <3> QED
      BY <1>1, <3>1, ExceptSeq
  <2> HIDE DEF q, p
  <2>2. Entries(q) \subseteq Entries(s) \union {p}
    BY <2>1 DEF Entries
  <2>3. Entries(s) \subseteq Entries(q) \union {Head(s)}
    BY <1>1, <2>1 DEF Entries
  <2> QED
    BY <2>2, <2>3 DEF q
<1> QED
  BY <1>2, <1>3, <1>4 DEF EmergencyRead

(* The first packet of the programming queue is sent.                        *)
LEMMA PomSent ==
  ASSUME OnePomOrder, NoLocoZero, PomInv, UNCHANGED app, UpdateFromOps
  PROVE  PomOK(ops_programmming_queue, heard, wanted)'
<1> DEFINE s == ops_programmming_queue
           r == EmergencyRead(s)
           p == r.packet
<1>1. s # << >> /\ s' = r.rest /\ Send(p) /\ wanted' = wanted /\ Loco' = Loco
  BY DEF UpdateFromOps, Loco
<1>2. /\ PomOK(s, heard, wanted) /\ Told(heard, {"none", "estop"}) /\ app \in Applications
      /\ s \in Seq(ProgPackets) /\ Head(s) \in ProgPackets /\ p \in ProgPackets
  BY <1>1, EmergencyReadTyped, TailTyped, StillTyped, QueueSizes
  DEF PomInv, TypeIInv, QueuesTyped, QueueTyped, RegisterIInv, SlotsOK
<1>3. p.addr = Head(s).addr /\ p.kind = Head(s).kind /\ p.data = Head(s).data
  BY <1>2 DEF EmergencyRead, SetRepeat, ProgPackets
<1>4. /\ Head(s) \in Entries(s)
      /\ Entries(s') \subseteq Entries(s) \union {p} /\ Entries(s) \subseteq Entries(s') \union {Head(s)}
  BY <1>1, <1>2, ReadEntries
<1> HIDE DEF p, r
<1>5. \A e \in Entries(s') : e.kind = "pom" => e.data \in app.pomOrder
  BY <1>2, <1>3, <1>4 DEF PomOK
<1>6. /\ DOMAIN heard'.pom = Loco
      /\ Powered => \A a \in Loco : heard'.pom[a] =
           heard.pom[a] \union (IF p.kind = "pom" /\ p.addr = a THEN {p.data} ELSE {})
  <2>1. p.kind \in {"ops_mode", "pom"}
    BY <1>2 DEF ProgPackets
  <2>2. CASE ~Powered
    BY <1>1, <1>2, <2>2 DEF Send, PomOK
  <2>3. CASE Powered /\ p.kind = "pom"
    <3>1. heard' = [heard EXCEPT !.pom[p.addr] = @ \union {p.data}]
      BY <1>1, <2>3 DEF Send, Heed, FunctionKinds
    <3>2. heard'.pom = [heard.pom EXCEPT ![p.addr] = @ \union {p.data}]
      BY <1>2, <3>1 DEF Told
    <3> QED
      BY <1>2, <2>3, <3>2 DEF PomOK
  <2>4. CASE Powered /\ p.kind = "ops_mode"
    <3>1. heard' = [heard EXCEPT !.resets = @ + 1]
      BY <1>1, <2>4 DEF Send, Heed, FunctionKinds
    <3>2. heard'.pom = heard.pom
      BY <1>2, <3>1 DEF Told
    <3> QED
      BY <1>2, <2>4, <3>2 DEF PomOK
  <2> QED
    BY <2>1, <2>2, <2>3, <2>4
<1>7. ASSUME NEW a \in Loco, PomFor(s', a) = {} PROVE wanted.pom[a] \subseteq heard'.pom[a]
  <2>1. wanted.pom[a] \subseteq app.pomOrder
    BY <1>2 DEF PomOK
  <2>2. CASE app.pomOrder = {}
    BY <2>1, <2>2
  <2>3. CASE app.pomOrder # {} /\ p.kind = "pom" /\ p.addr = a
    <3>1. p.data \in app.pomOrder /\ p.data \in heard'.pom[a]
      BY <1>2, <1>3, <1>4, <1>6, <2>3 DEF PomOK, PomInv
    <3>2. \A c \in app.pomOrder : c = p.data
      BY <1>2, <3>1 DEF OnePomOrder
    <3> QED
      BY <2>1, <3>1, <3>2
  <2>4. CASE app.pomOrder # {} /\ ~(p.kind = "pom" /\ p.addr = a)
    <3>1. PomFor(s, a) = {}
      BY <1>3, <1>4, <1>7, <2>4 DEF PomFor
    <3>2. wanted.pom[a] \subseteq heard.pom[a]
      BY <1>2, <3>1 DEF PomOK
    <3> QED
      BY <1>6, <2>4, <3>2 DEF PomInv
  <2> QED
    BY <2>2, <2>3, <2>4
<1> QED
  BY <1>1, <1>2, <1>5, <1>6, <1>7 DEF PomOK, PomFor

(* A loco is programmed.                                                     *)
LEMMA PomOrdered ==
  ASSUME PomInv, app' = app, NEW a \in Loco, NEW order \in app.pomOrder, ProgramOnMain(a, order)
  PROVE  PomOK(ops_programmming_queue, heard, wanted)'
<1> DEFINE s == ops_programmming_queue
           p == DCCPacket(a, "pom", order, ProgRepeat)
           new == Insert(s, PROG_QUEUE_SIZE, p)
<1>1. /\ s' = new /\ heard' = heard /\ Loco' = Loco
      /\ Accepts(s, PROG_QUEUE_SIZE) => wanted' = [wanted EXCEPT !.pom[a] = @ \union {order}]
      /\ ~Accepts(s, PROG_QUEUE_SIZE) => wanted' = wanted
  BY DEF ProgramOnMain, Loco
<1>2. /\ PomOK(s, heard, wanted) /\ Told(wanted, {"none"})
      /\ s \in Seq(ProgPackets) /\ PROG_QUEUE_SIZE \in Nat
  BY QueueSizes DEF PomInv, TypeIInv, QueuesTyped, QueueTyped
<1>3. p.addr = a /\ p.kind = "pom" /\ p.data = order /\ p \in ProgPackets
  <2>1. ProgRepeat % RepeatMod \in 0..RepeatMod - 1
    BY Masked, ConfigurationAssumption
  <2> QED
    BY <2>1 DEF DCCPacket, SetRepeat, ProgPackets
<1>4. /\ ~Accepts(s, PROG_QUEUE_SIZE) => new = s
      /\ Accepts(s, PROG_QUEUE_SIZE) => Appended(s, p, new) \/ Replaced(s, p, new)
  BY <1>2, <1>3, InsertedHow
<1> HIDE DEF new, p
<1>5. CASE ~Accepts(s, PROG_QUEUE_SIZE)
  BY <1>1, <1>2, <1>4, <1>5 DEF PomOK, PomFor
<1>6. CASE Accepts(s, PROG_QUEUE_SIZE)
  <2>1. /\ p \in Entries(new) /\ Entries(new) \subseteq Entries(s) \union {p}
        /\ \A e \in Entries(s) : e \in Entries(new) \/ Same(e, p)
    <3>1. CASE Appended(s, p, new)
      <4>1. /\ Len(s) \in Nat /\ Len(new) = Len(s) + 1 /\ new[Len(s) + 1] = p
            /\ \A i \in 1..Len(s) : new[i] = s[i]
        BY <1>2, <1>3, <3>1, AppendProperties DEF Appended
      <4> QED
        BY <4>1 DEF Entries
    <3>2. CASE Replaced(s, p, new)
      <4>1. PICK k \in 1..Len(s) : Same(s[k], p) /\ new = [s EXCEPT ![k] = p]
        BY <3>2 DEF Replaced
      <4>2. Len(new) = Len(s) /\ new[k] = p /\ \A i \in 1..Len(s) : i # k => new[i] = s[i]
        BY <1>2, <1>3, <4>1, ExceptSeq
      <4> QED
        BY <4>1, <4>2 DEF Entries
    <3> QED
      BY <1>4, <1>6, <3>1, <3>2
  <2>2. wanted'.pom = [wanted.pom EXCEPT ![a] = @ \union {order}]
    BY <1>1, <1>2, <1>6 DEF Told
  <2>3. wanted'.pom \in [Loco -> SUBSET app.pomOrder]
    BY <1>2, <2>2 DEF PomOK
  <2>4. \A e \in Entries(new) : e.kind = "pom" => e.data \in app.pomOrder
    BY <1>2, <1>3, <2>1 DEF PomOK
  <2>5. ASSUME NEW b \in Loco, PomFor(new, b) = {} PROVE wanted'.pom[b] \subseteq heard.pom[b]
    <3>1. b # a
      BY <1>3, <2>1, <2>5 DEF PomFor
    <3>2. PomFor(s, b) = {}
      BY <1>3, <2>1, <2>5, <3>1 DEF PomFor, Same
    <3>3. wanted'.pom[b] = wanted.pom[b]
      BY <1>2, <2>2, <3>1 DEF PomOK
    <3> QED
      BY <1>2, <3>2, <3>3 DEF PomOK
  <2> QED
    BY <1>1, <1>2, <2>3, <2>4, <2>5 DEF PomOK, PomFor
<1> QED
  BY <1>5, <1>6

(* What leaves the programming queue, and what it is about, alone.           *)
LEMMA PomUntouched ==
  ASSUME PomInv, UNCHANGED <<app, ops_programmming_queue>>,
         heard'.pom = heard.pom, wanted'.pom = wanted.pom
  PROVE  PomOK(ops_programmming_queue, heard, wanted)'
BY DEF PomInv, PomOK, PomFor, Loco

(* No other queue holds anything that programs.                              *)
LEMMA OthersProgramNothing ==
  ASSUME TypeIInv, UpdateFromEStop \/ UpdateFromRepeat \/ UpdateFromPeriodic
  PROVE  heard'.pom = heard.pom
<1>1. Told(heard, {"none", "estop"})
  BY DEF TypeIInv
<1>2. ASSUME NEW p, Send(p), p.kind # "pom" PROVE heard'.pom = heard.pom
  <2>1. Heed(heard, p).pom = heard.pom
    <3>1. CASE p.kind = "ops_mode"
      BY <1>1, <3>1 DEF Heed, Told, FunctionKinds
    <3>2. CASE p.kind = "speed"
      BY <1>1, <3>2 DEF Heed, Told, FunctionKinds
    <3>3. CASE p.kind \in FunctionKinds
      <4>1. Heed(heard, p) =
              [heard EXCEPT !.fn[p.addr] = (@ \ FunctionGroup[p.data.group]) \union p.data.on]
        BY <3>3 DEF Heed, FunctionKinds
      <4> QED
        BY <1>1, <4>1 DEF Told
    <3>4. CASE p.kind = "e_stop"
      BY <1>1, <3>4 DEF Heed, Told, FunctionKinds
    <3>5. CASE p.kind \in AccessoryKinds
      BY <1>1, <3>5 DEF Heed, Told, FunctionKinds, AccessoryKinds
    <3>6. CASE p.kind \notin {"ops_mode", "speed", "e_stop"} \union FunctionKinds \union AccessoryKinds
      BY <1>1, <1>2, <3>6 DEF Heed, Told, AccessoryKinds
    <3> QED
      BY <3>1, <3>2, <3>3, <3>4, <3>5, <3>6
  <2> QED
    BY <1>2, <2>1 DEF Send
<1>3. CASE UpdateFromEStop
  <2>1. e_stop_queue # << >>
    BY <1>3 DEF UpdateFromEStop, EStopTurn, EStopRetry
  <2>2. EmergencyRead(e_stop_queue).packet \in EStopPackets
    BY <2>1, EmergencyReadTyped, StillTyped, QueueSizes DEF TypeIInv, QueuesTyped
  <2> QED
    BY <1>2, <1>3, <2>2 DEF UpdateFromEStop, EStopPackets
<1>4. CASE UpdateFromRepeat
  <2>1. Head(repeat_queue) \in OrderPackets
    BY <1>4, TailTyped, QueueSizes DEF UpdateFromRepeat, TypeIInv, QueuesTyped, RepeatPackets
  <2>2. RepeatRead(repeat_queue, REPEAT_QUEUE_SIZE).packet \in OrderPackets
    BY <2>1, StillTyped DEF RepeatRead, FifoRead
  <2> QED
    BY <1>2, <1>4, <2>2 DEF UpdateFromRepeat, OrderPackets, FunctionKinds
<1>5. CASE UpdateFromPeriodic
  <2>1. CASE periodic_refresh_queue = << >>
    BY <1>2, <1>5, <2>1 DEF UpdateFromPeriodic, IdlePacket, DCCPacket, SetRepeat
  <2>2. CASE periodic_refresh_queue # << >>
    <3>1. Head(periodic_refresh_queue) \in OrderPackets
      BY <2>2, TailTyped, QueueSizes DEF TypeIInv, QueuesTyped
    <3> QED
      BY <1>2, <1>5, <2>2, <3>1 DEF UpdateFromPeriodic, TemporalRead, OrderPackets, FunctionKinds
  <2> QED
    BY <2>1, <2>2
<1> QED
  BY <1>3, <1>4, <1>5

LEMMA InitPomInv == ASSUME Init PROVE PomInv
<1>1. TypeIInv /\ Powered
  BY InitTypeIInv DEF Init, Powered
<1>2. heard.pom = [a \in Loco |-> {}] /\ wanted.pom = [a \in Loco |-> {}]
  BY DEF Init
<1>3. ops_programmming_queue = <<ResetPacket>> /\ ResetPacket.kind # "pom"
  BY DEF Init, ResetPacket, DCCPacket, SetRepeat
<1>4. \A p \in Entries(ops_programmming_queue) : p.kind # "pom"
  <2>1. Len(ops_programmming_queue) = 1 /\ ops_programmming_queue[1] = ResetPacket
    BY <1>3
  <2> QED
    BY <1>3, <2>1 DEF Entries
<1> QED
  BY <1>1, <1>2, <1>4 DEF PomInv, PomOK

LEMMA NextPomInv ==
  ASSUME NoLocoZero, OnePomOrder, PomInv, [Next]_vars
  PROVE  PomInv'
<1>1. TypeIInv'
  BY NextTypeIInv DEF PomInv
<1>2. app' = app /\ app \in Applications
  BY DEF Next, update, vars, PomInv, TypeIInv, RegisterIInv, SlotsOK
<1>3. (app.pomOrder # {} => Powered)'
  BY <1>2, StaysPowered DEF OnePomOrder, PomInv
<1>4. Told(wanted, {"none"})
  BY DEF PomInv, TypeIInv
<1> DEFINE Performed == PomOK(ops_programmming_queue, heard, wanted)'
<1>5. ASSUME UNCHANGED vars PROVE Performed
  BY <1>5, PomUntouched DEF vars, queues
<1>6. ASSUME update PROVE Performed
  <2>1. CASE UpdateFromOps
    BY <1>2, <2>1, PomSent
  <2>2. CASE UpdateFromEStop \/ UpdateFromRepeat \/ UpdateFromPeriodic
    <3>1. heard'.pom = heard.pom
      BY <2>2, OthersProgramNothing DEF PomInv
    <3>2. UNCHANGED <<ops_programmming_queue, wanted>>
      BY <2>2 DEF UpdateFromEStop, UpdateFromRepeat, UpdateFromPeriodic
    <3> QED
      BY <1>2, <3>1, <3>2, PomUntouched
  <2> QED
    BY <1>6, <2>1, <2>2 DEF update
<1>7. ASSUME UNCHANGED <<ops_programmming_queue, heard>>, wanted'.pom = wanted.pom PROVE Performed
  BY <1>2, <1>7, PomUntouched
<1>8. ASSUME Application PROVE Performed
  <2>1. ASSUME NEW a, NEW s, SetSpeed(a, s) PROVE Performed
    <3>1. wanted'.pom = wanted.pom
      BY <1>4, <2>1 DEF SetSpeed, Told
    <3> QED
      BY <1>7, <2>1, <3>1 DEF SetSpeed
  <2>2. ASSUME NEW a, NEW f, NEW type, SetLocoFunc(a, f, type) PROVE Performed
    <3>1. wanted' = wanted \/ \E x : wanted' = [wanted EXCEPT !.fn[a] = x]
      BY <2>2 DEF SetLocoFunc
    <3>2. wanted'.pom = wanted.pom
      BY <1>4, <3>1 DEF Told
    <3> QED
      BY <1>7, <2>2, <3>2 DEF SetLocoFunc
  <2>3. ASSUME NEW a, NEW b, SetLocoFuncBinary(a, b) PROVE Performed
    BY <1>7, <2>3 DEF SetLocoFuncBinary
  <2>4. ASSUME NEW a, Query(a) PROVE Performed
    BY <1>7, <2>4 DEF Query, queues
  <2>5. ASSUME NEW t, NEW pos, NEW activ, SetBasicAccessoryPos(t, pos, activ) PROVE Performed
    <3>1. wanted'.pom = wanted.pom
      BY <1>4, <2>5 DEF SetBasicAccessoryPos, Told
    <3> QED
      BY <1>7, <2>5, <3>1 DEF SetBasicAccessoryPos
  <2>6. ASSUME NEW t, NEW aspect, SetExtAccessoryPos(t, aspect) PROVE Performed
    <3>1. wanted'.pom = wanted.pom
      BY <1>4, <2>6 DEF SetExtAccessoryPos, Told
    <3> QED
      BY <1>7, <2>6, <3>1 DEF SetExtAccessoryPos
  <2>7. ASSUME NEW a \in Loco, NEW order \in app.pomOrder, ProgramOnMain(a, order) PROVE Performed
    BY <1>2, <2>7, PomOrdered
  <2>8. ASSUME NEW state, SetPower(state) PROVE Performed
    BY <1>7, <2>8 DEF SetPower, queues
  <2>9. CASE EStop
    BY <1>7, <2>9 DEF EStop
  <2> QED
    BY <1>8, <2>1, <2>2, <2>3, <2>4, <2>5, <2>6, <2>7, <2>8, <2>9 DEF Application
<1> QED
  BY <1>1, <1>3, <1>5, <1>6, <1>8 DEF PomInv, Next

(* Every programming order that was accepted is carried out before its packet *)
(* leaves the queue, with whatever repeats, emergency stops and other orders  *)
(* come between.                                                             *)
THEOREM ProgrammingIsPerformed ==
  ASSUME NoLocoZero, OnePomOrder
  PROVE  Spec => []PomPerformed
<1>1. ASSUME PomInv PROVE PomPerformed
  BY <1>1 DEF PomInv, PomOK, PomFor, PomPerformed
<1> QED
  BY <1>1, InitPomInv, NextPomInv, PTL DEF Spec
=============================================================================
