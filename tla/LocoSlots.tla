------------------------------ MODULE LocoSlots ------------------------------
(***************************************************************************)
(* The slot array of the scheduler (LokDataUpdate): one register per loco  *)
(* with its last speed and its function bits.  Operators only; the array   *)
(* and slotFullNext are passed as arguments.                               *)
(***************************************************************************)
EXTENDS Integers

CONSTANT SlotMax  (* 15, 36, 80 or 255, by the RAM of the board *)

ASSUME SlotMaxAssumption == SlotMax \in 1..255

Slot == 0..SlotMax - 1

(* The array is a member of a global object: zero before the first use.    *)
EmptySlot == [adr |-> 0, speed |-> "unset", fn |-> {}]

NoSlots == [i \in Slot |-> EmptySlot]

(* LokStsSetNew: speed 0x80 is "stop, forward"; no function is on.         *)
NewSlot(a) == [adr |-> a, speed |-> "stop", fn |-> {}]

(* Deliberate error: every empty slot ends the search, the loco's own slot  *)
(* is not recognised.                                                      *)
StopsAtEmpty(slots, a) == {i \in Slot : slots[i].adr = 0}

(* The search of LokStsgetSlot stops at the loco's slot or at an empty one. *)
StopsAt(slots, a) == {i \in Slot : slots[i].adr \in {a, 0}}

(* Deliberate error: a loco without a slot takes the one next in turn, even *)
(* when another one is empty.                                              *)
SlotInTurn(slots, next, a) ==
  IF \A i \in Slot : slots[i].adr # a THEN next
  ELSE CHOOSE i \in Slot : slots[i].adr = a

SlotOf(slots, next, a) ==
  IF StopsAt(slots, a) = {} THEN next
  ELSE CHOOSE i \in StopsAt(slots, a) : \A j \in StopsAt(slots, a) : i <= j

(* The array after LokStsgetSlot(a): unchanged when the loco has a slot,   *)
(* else a fresh register in the empty slot, or in the slot next in turn    *)
(* when there is none, whoever had it.                                     *)
AfterLookup(slots, next, a) ==
  LET i == SlotOf(slots, next, a)
  IN  IF slots[i].adr = a THEN slots ELSE [slots EXCEPT ![i] = NewSlot(a)]

NextToEvict(slots, next, a) ==
  IF StopsAt(slots, a) = {} THEN (next + 1) % SlotMax ELSE next

=============================================================================
