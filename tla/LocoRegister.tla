---------------------------- MODULE LocoRegister ----------------------------
(***************************************************************************)
(* The slot array of the scheduler (LokDataUpdate): one register per loco  *)
(* with its last speed and its function bits.  A lookup is also a write: a *)
(* loco without a slot gets one, at the cost of another loco when the      *)
(* array is full.  DCCPacketScheduler.tla extends this module; its calls   *)
(* are the ones that look locos up.                                        *)
(***************************************************************************)
EXTENDS LocoSlots

VARIABLES
  slots,          (* LokDataUpdate *)
  slotFullNext

register == <<slots, slotFullNext>>

RegisterInit ==
  /\ slots = NoSlots
  /\ slotFullNext = 0

(* getLocoData, getLocoDir, getLocoSpeed, getFunktion0to4...               *)
LokStsgetSlot(a) ==
  /\ slots' = AfterLookup(slots, slotFullNext, a)
  /\ slotFullNext' = NextToEvict(slots, slotFullNext, a)

(* The register of the loco, as a lookup finds or makes it.                *)
RegisterOf(a) ==
  AfterLookup(slots, slotFullNext, a)[SlotOf(slots, slotFullNext, a)]

(* LokDataUpdate[LokStsgetSlot(a)].field = value                           *)
LookupAndWrite(a, reg) ==
  /\ slots' = [slots EXCEPT ![SlotOf(slots, slotFullNext, a)] = reg]
  /\ slotFullNext' = NextToEvict(slots, slotFullNext, a)

-----------------------------------------------------------------------------
Occupied == {i \in Slot : slots[i].adr # 0}

(* The search may stop at an empty slot only because no loco is behind it. *)
NoLocoBehindHole ==
  \A i, j \in Slot : i < j /\ slots[i].adr = 0 => slots[j].adr = 0

(* A loco never has two registers: what one call stores the next one reads. *)
OneSlotPerLoco ==
  \A i, j \in Occupied : slots[i].adr = slots[j].adr => i = j

(* A call for one loco costs at most one other loco its register, and only  *)
(* when every slot is taken; the register of every other loco is untouched. *)
EvictsOnlyWhenFull ==
  [][ \A i \in Occupied : slots'[i].adr # slots[i].adr =>
        /\ Occupied = Slot
        /\ i = slotFullNext
        /\ \A j \in Slot \ {i} : slots'[j] = slots[j] ]_register

=============================================================================
