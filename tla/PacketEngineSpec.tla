-------------------------- MODULE PacketEngineSpec --------------------------
(***************************************************************************)
(* What DCCHardware.h promises to the scheduler about packets, whatever    *)
(* the board: a packet given to send() is the next new one on the rails;   *)
(* until then canAcceptPacket is off.  A Service Mode packet is repeated   *)
(* before anything else follows it; when nothing was sent the engine fills *)
(* in a default packet (idle, or reset in Service Mode).                   *)
(***************************************************************************)
EXTENDS Naturals, Sequences

CONSTANTS
  Packet,          (* what send() is called with                        *)
  ServicePacket,   (* those that begin with 0111 in the first byte       *)
  Idle, Reset,     (* the default packets                                *)
  MaxRepeats       (* repeats of a Service Mode packet after the first   *)

VARIABLES
  pending,     (* << >>, or the packet that waits as a sequence of one    *)
  asService,   (* whether it was sent as a Service Mode packet            *)
  onAir,       (* the packet on the rails                                 *)
  repeats,     (* how often that packet is to be sent again               *)
  service      (* Service Mode is on                                      *)

vars == <<pending, asService, onAir, repeats, service>>

Init ==
  /\ pending = << >>
  /\ asService = FALSE
  /\ onAir = << >> \/ onAir = Idle
  /\ repeats = 0
  /\ service = FALSE

Send(p) ==
  /\ pending = << >>
  /\ pending' = <<p>>
  /\ asService' = (service /\ p \in ServicePacket)
  /\ UNCHANGED <<onAir, repeats, service>>

Enter ==
  /\ service' = TRUE
  /\ UNCHANGED <<pending, asService, onAir, repeats>>

Leave ==
  /\ service' = FALSE
  /\ repeats' = 0
  /\ UNCHANGED <<pending, asService, onAir>>

StopRepeats ==
  /\ repeats' = 0
  /\ UNCHANGED <<pending, asService, onAir, service>>

Repeat ==
  /\ repeats > 0
  /\ repeats' = repeats - 1
  /\ UNCHANGED <<pending, asService, onAir, service>>

StartNew ==
  /\ repeats = 0
  /\ pending # << >>
  /\ onAir' = Head(pending)
  /\ pending' = << >>
  /\ repeats' = IF asService THEN MaxRepeats ELSE 0
  /\ asService' = FALSE
  /\ UNCHANGED service

StartDefault ==
  /\ repeats = 0
  /\ pending = << >>
  /\ onAir' = IF service THEN Reset ELSE Idle
  /\ UNCHANGED <<pending, asService, repeats, service>>

Next ==
  \/ \E p \in Packet : Send(p)
  \/ Enter
  \/ Leave
  \/ StopRepeats
  \/ Repeat
  \/ StartNew
  \/ StartDefault

Spec == Init /\ [][Next]_vars

=============================================================================
