-------------------------- MODULE DCCPacketScheduler --------------------------
(***************************************************************************)
(* Normal operation of the command station: the calls of the application   *)
(* that store orders and queue packets, and update(), which picks the next *)
(* packet for the waveform generator.  Service Mode (railpower = SERVICE)  *)
(* is not part of this module.                                             *)
(*                                                                         *)
(* The application and update() run in the same loop() and never preempt   *)
(* each other, so each call is one step.  update() returns at once while   *)
(* the generator cannot accept a packet; a step of this module is an       *)
(* update() that finds canAcceptPacket set.                                *)
(*                                                                         *)
(* What the decoders on the track have been told (heard) is external to    *)
(* the program: it is what the packets sent mean to a decoder, provided    *)
(* that the rails have power when the packet is on them.                   *)
(***************************************************************************)
EXTENDS LocoRegister, PacketFifo

CONSTANTS
  Applications,  (* the programs around the library, see Application       *)
  (* Configuration *)
  TrntFormat,    (* ROCO = 0, IB = 4 *)
  E_STOP_QUEUE_SIZE, REPEAT_QUEUE_SIZE, PERIODIC_REFRESH_QUEUE_SIZE, PROG_QUEUE_SIZE,
  SPEED_REPEAT, FUNCTION_REPEAT, E_STOP_REPEAT, OTHER_REPEAT,
  ProgRepeat, RSTsRepeat,
  ONCE_REFRESH_INTERVAL

(* An interval of 1 would never serve e_stop_queue.                          *)
ASSUME ConfigurationAssumption ==
  /\ ONCE_REFRESH_INTERVAL # 1
  /\ AppendOnlyKinds = {"basic_accessory", "ops_mode"}
  /\ {RepeatMod, ONCE_REFRESH_INTERVAL, E_STOP_QUEUE_SIZE, REPEAT_QUEUE_SIZE,
      PERIODIC_REFRESH_QUEUE_SIZE, PROG_QUEUE_SIZE} \subseteq Nat \ {0}
  /\ {TrntFormat, SPEED_REPEAT, FUNCTION_REPEAT, E_STOP_REPEAT, OTHER_REPEAT,
      ProgRepeat, RSTsRepeat} \subseteq Nat

(* Functions have numbers up to 68.                                         *)
ASSUME ApplicationsAssumption ==
  \A x \in Applications :
    /\ x.function \subseteq 0..68
    /\ x.power \subseteq {"ON", "OFF", "ESTOP", "SHORT"}

VARIABLES
  app,                        (* the program around the library: one of Applications *)
  railpower,
  BasicAccessory,             (* the stored position of every turnout      *)
  e_stop_queue,               (* DCCEmergencyQueue                         *)
  repeat_queue,               (* DCCRepeatQueue                            *)
  periodic_refresh_queue,     (* DCCTemporalQueue                          *)
  ops_programmming_queue,     (* DCCEmergencyQueue                         *)
  packet_counter,             (* modulo ONCE_REFRESH_INTERVAL, which divides 256 *)
  heard,                      (* external: what the decoders were told     *)
  wanted                      (* ghost: the last order that was accepted   *)

queues == <<e_stop_queue, repeat_queue, periodic_refresh_queue, ops_programmming_queue>>
registers == <<register, BasicAccessory>>
vars == <<app, railpower, registers, queues, packet_counter, heard, wanted>>

(* What the program calls the library with; with an empty set, or FALSE, it  *)
(* never makes that call.                                                    *)
Loco == app.loco             (* addresses given to setSpeed and setLocoFunc  *)
Speed == app.speed           (* speed bytes given to setSpeed                *)
Function == app.function     (* function numbers given to setLocoFunc        *)
Queried == app.queried       (* addresses given to the getters               *)
Turnout == app.turnout       (* addresses given to setBasicAccessoryPos      *)
Position == {"straight", "thrown"}
Signal == app.signal         (* addresses given to setExtAccessoryPos        *)

-----------------------------------------------------------------------------
(* Packets. A loco is told a speed, or the functions of a group that are    *)
(* on; the groups F21-F28 and above share one packet kind.                  *)
FunctionGroup == <<0..4, 5..8, 9..12, 13..20, 21..28,
                   29..36, 37..44, 45..52, 53..60, 61..68>>

GroupOf(f) == CHOOSE g \in DOMAIN FunctionGroup : f \in FunctionGroup[g]

FunctionKind(g) == <<"fn1", "fn2", "fn3", "fn4", "fn5",
                     "fn5", "fn5", "fn5", "fn5", "fn5">>[g]

(* The functions a slot has a bit for: f0 keeps F29 to F31 of its group.    *)
Stored == 0..31

DCCPacket(a, k, d, r) == SetRepeat([addr |-> a, kind |-> k, data |-> d, rep |-> 0], r)

IdlePacket == DCCPacket(255, "idle", "none", 0)
SpeedPacket(a, s) == DCCPacket(a, "speed", s, SPEED_REPEAT)
FunctionPacket(a, g, on) ==
  DCCPacket(a, FunctionKind(g), [group |-> g, on |-> on], FUNCTION_REPEAT)
EStopPacket == DCCPacket(0, "e_stop", "none", E_STOP_REPEAT)
ResetPacket == DCCPacket(0, "ops_mode", "none", RSTsRepeat)

(* An accessory packet carries the decoder number in its address and the    *)
(* port in its data: four turnouts or signals share a packet address.       *)
AccessoryPacket(t, kind, order) ==
  DCCPacket((t + TrntFormat) \div 4, kind,
            [port |-> (t + TrntFormat) % 4, order |-> order], OTHER_REPEAT)
TurnoutPacket(t, order) == AccessoryPacket(t, "basic_accessory", order)
SignalPacket(t, aspect) == AccessoryPacket(t, "extended_accessory", aspect)
Addressed(p) == p.addr * 4 + p.data.port - TrntFormat

(* external: the effect of a packet on the decoders it is addressed to.     *)
Powered == railpower \notin {"OFF", "SHORT"}

FunctionKinds == {"fn1", "fn2", "fn3", "fn4", "fn5"}

Heed(h, p) ==
  CASE p.kind = "ops_mode" -> [h EXCEPT !.resets = @ + 1]
    [] p.kind = "speed" -> [h EXCEPT !.speed[p.addr] = p.data]
    [] p.kind \in FunctionKinds ->
         [h EXCEPT !.fn[p.addr] = (@ \ FunctionGroup[p.data.group]) \union p.data.on]
    [] p.kind = "e_stop" -> [h EXCEPT !.speed = [a \in Loco |-> "estop"]]
    [] p.kind = "basic_accessory" -> [h EXCEPT !.turnout[Addressed(p)] = p.data.order]
    [] p.kind = "extended_accessory" -> [h EXCEPT !.signal[Addressed(p)] = p.data.order]
    [] p.kind = "pom" -> [h EXCEPT !.pom[p.addr] = @ \union {p.data}]
    [] OTHER -> h

(* The end of update(): the packet goes to the generator.                   *)
Send(p) ==
  /\ heard' = IF Powered THEN Heed(heard, p) ELSE heard
  /\ packet_counter' = (packet_counter + 1) % ONCE_REFRESH_INTERVAL

-----------------------------------------------------------------------------
(* The state after setup(): power on, one reset packet queued.              *)
Init ==
  /\ app \in Applications
  /\ railpower = "ON"
  /\ RegisterInit
  /\ BasicAccessory = [t \in Turnout |-> "straight"]
  /\ e_stop_queue = << >>
  /\ repeat_queue = << >>
  /\ periodic_refresh_queue = << >>
  /\ ops_programmming_queue = <<ResetPacket>>
  /\ packet_counter = 1
  /\ heard = [speed |-> [a \in Loco |-> "none"], fn |-> [a \in Loco |-> {}],
              turnout |-> [t \in Turnout |-> <<"none", FALSE>>], signal |-> [t \in Signal |-> "none"],
              pom |-> [a \in Loco |-> {}], resets |-> 0]
  /\ wanted = heard

(* setSpeed14, setSpeed28, setSpeed128: the register is written first; the  *)
(* packet waits in the refresh queue during an emergency stop.              *)
SetSpeed(a, s) ==
  LET p == SpeedPacket(a, s)
      ok == IF railpower = "ESTOP"
            THEN Accepts(periodic_refresh_queue, PERIODIC_REFRESH_QUEUE_SIZE)
            ELSE RepeatAccepts(repeat_queue, REPEAT_QUEUE_SIZE, p)
  IN  /\ app.driveInEStop \/ railpower # "ESTOP"
      /\ LookupAndWrite(a, [RegisterOf(a) EXCEPT !.speed = s])
      /\ IF railpower = "ESTOP"
         THEN /\ periodic_refresh_queue' =
                   Insert(periodic_refresh_queue, PERIODIC_REFRESH_QUEUE_SIZE, p)
              /\ UNCHANGED repeat_queue
         ELSE /\ repeat_queue' = RepeatInsert(repeat_queue, REPEAT_QUEUE_SIZE, p)
              /\ UNCHANGED periodic_refresh_queue
      /\ wanted' = IF ok THEN [wanted EXCEPT !.speed[a] = s] ELSE wanted
      /\ UNCHANGED <<railpower, BasicAccessory, e_stop_queue, ops_programmming_queue,
                     packet_counter, heard>>

(* setLocoFunc, type AUS, EIN or UM: the functions of the group come from   *)
(* the register, and count as off when the register has no bit for them.    *)
SetLocoFunc(a, f, type) ==
  LET group == FunctionGroup[GroupOf(f)]
      reg == RegisterOf(a)
      base == reg.fn \intersect group
      on == type = "EIN" \/ (type = "UM" /\ f \notin base)
      bits == IF on THEN base \union {f} ELSE base \ {f}
      p == FunctionPacket(a, GroupOf(f), bits)
  IN  /\ LookupAndWrite(a, [reg EXCEPT !.fn = (@ \ group) \union (bits \intersect Stored)])
      /\ repeat_queue' = RepeatInsert(repeat_queue, REPEAT_QUEUE_SIZE, p)
      /\ wanted' = IF RepeatAccepts(repeat_queue, REPEAT_QUEUE_SIZE, p)
                   THEN [wanted EXCEPT !.fn[a] = IF on THEN @ \union {f} ELSE @ \ {f}]
                   ELSE wanted
      /\ UNCHANGED <<railpower, BasicAccessory, e_stop_queue, periodic_refresh_queue,
                     ops_programmming_queue, packet_counter, heard>>

(* setLocoFuncBinary *)
SetLocoFuncBinary(a, b) ==
  /\ e_stop_queue' = Insert(e_stop_queue, E_STOP_QUEUE_SIZE,
                            DCCPacket(a, "fn_b", b, FUNCTION_REPEAT))
  /\ UNCHANGED <<railpower, registers, repeat_queue, periodic_refresh_queue,
                 ops_programmming_queue, packet_counter, heard, wanted>>

(* getLocoData, getLocoDir, getLocoSpeed, getFunktion...: all look up.      *)
Query(a) ==
  /\ LokStsgetSlot(a)
  /\ UNCHANGED <<railpower, BasicAccessory, queues, packet_counter, heard, wanted>>

(* setBasicAccessoryPos: an output of the decoder, one for each position,   *)
(* is switched on or off.  The position is stored whichever it is, and      *)
(* whether or not the packet finds room.                                    *)
SetBasicAccessoryPos(t, pos, activ) ==
  /\ BasicAccessory' = [BasicAccessory EXCEPT ![t] = pos]
  /\ e_stop_queue' = Insert(e_stop_queue, E_STOP_QUEUE_SIZE, TurnoutPacket(t, <<pos, activ>>))
  /\ wanted' = IF Accepts(e_stop_queue, E_STOP_QUEUE_SIZE)
               THEN [wanted EXCEPT !.turnout[t] = <<pos, activ>>] ELSE wanted
  /\ UNCHANGED <<railpower, register, repeat_queue, periodic_refresh_queue,
                 ops_programmming_queue, packet_counter, heard>>

SetExtAccessoryPos(t, aspect) ==
  /\ e_stop_queue' = Insert(e_stop_queue, E_STOP_QUEUE_SIZE, SignalPacket(t, aspect))
  /\ wanted' = IF Accepts(e_stop_queue, E_STOP_QUEUE_SIZE)
               THEN [wanted EXCEPT !.signal[t] = aspect] ELSE wanted
  /\ UNCHANGED <<railpower, registers, repeat_queue, periodic_refresh_queue,
                 ops_programmming_queue, packet_counter, heard>>

(* opsProgramCV, opsPOMwriteBit, opsPOMreadCV *)
ProgramOnMain(a, order) ==
  /\ ops_programmming_queue' = Insert(ops_programmming_queue, PROG_QUEUE_SIZE,
                                      DCCPacket(a, "pom", order, ProgRepeat))
  /\ wanted' = IF Accepts(ops_programmming_queue, PROG_QUEUE_SIZE)
               THEN [wanted EXCEPT !.pom[a] = @ \union {order}] ELSE wanted
  /\ UNCHANGED <<railpower, registers, e_stop_queue, repeat_queue, periodic_refresh_queue,
                 packet_counter, heard>>

SetPower(state) ==
  /\ railpower' = state
  /\ UNCHANGED <<registers, queues, packet_counter, heard, wanted>>

(* eStop: nobody looks at what insertPacket returns.                        *)
EStop ==
  /\ app.eStop
  /\ e_stop_queue' = Insert(e_stop_queue, E_STOP_QUEUE_SIZE, EStopPacket)
  /\ railpower' = "ESTOP"
  /\ UNCHANGED <<registers, repeat_queue, periodic_refresh_queue,
                 ops_programmming_queue, packet_counter, heard, wanted>>

-----------------------------------------------------------------------------
(* update(), by the queue the next packet comes from.                       *)
UpdateFromOps ==
  LET r == EmergencyRead(ops_programmming_queue)
  IN  /\ ops_programmming_queue # << >>
      /\ ops_programmming_queue' = r.rest
      /\ Send(r.packet)
      /\ UNCHANGED <<railpower, registers, e_stop_queue, repeat_queue,
                     periodic_refresh_queue, wanted>>

(* Deliberate error: loco orders go first.                                 *)
EStopTurnAfterRepeats == e_stop_queue # << >> /\ repeat_queue = << >>

(* Three packets of four may come from e_stop_queue.                        *)
EStopTurn == e_stop_queue # << >> /\ packet_counter % ONCE_REFRESH_INTERVAL # 0

EStopRetry == e_stop_queue # << >> /\ repeat_queue = << >> /\ railpower = "ESTOP"

UpdateFromEStop ==
  LET r == EmergencyRead(e_stop_queue)
  IN  /\ ops_programmming_queue = << >>
      /\ EStopTurn \/ EStopRetry
      /\ e_stop_queue' = r.rest
      /\ Send(r.packet)
      /\ UNCHANGED <<railpower, registers, repeat_queue, periodic_refresh_queue,
                     ops_programmming_queue, wanted>>

(* Deliberate error: the packet is not stored for the refresh.             *)
UpdateFromRepeatOnly ==
  LET r == RepeatRead(repeat_queue, REPEAT_QUEUE_SIZE)
  IN  /\ ops_programmming_queue = << >>
      /\ ~EStopTurn
      /\ repeat_queue # << >>
      /\ repeat_queue' = r.rest
      /\ Send(r.packet)
      /\ UNCHANGED <<railpower, registers, e_stop_queue, periodic_refresh_queue,
                     ops_programmming_queue, wanted>>

(* Every packet sent from repeat_queue is stored for the periodic refresh.  *)
UpdateFromRepeat ==
  LET r == RepeatRead(repeat_queue, REPEAT_QUEUE_SIZE)
  IN  /\ ops_programmming_queue = << >>
      /\ ~EStopTurn
      /\ repeat_queue # << >>
      /\ repeat_queue' = r.rest
      /\ periodic_refresh_queue' =
           Insert(periodic_refresh_queue, PERIODIC_REFRESH_QUEUE_SIZE, r.packet)
      /\ Send(r.packet)
      /\ UNCHANGED <<railpower, registers, e_stop_queue, ops_programmming_queue, wanted>>

(* With nothing to refresh the packet stays what its constructor made it.   *)
UpdateFromPeriodic ==
  LET r == TemporalRead(periodic_refresh_queue, PERIODIC_REFRESH_QUEUE_SIZE)
  IN  /\ ops_programmming_queue = << >>
      /\ ~EStopTurn
      /\ repeat_queue = << >>
      /\ railpower # "ESTOP"
      /\ IF periodic_refresh_queue = << >>
         THEN Send(IdlePacket) /\ UNCHANGED periodic_refresh_queue
         ELSE Send(r.packet) /\ periodic_refresh_queue' = r.rest
      /\ UNCHANGED <<railpower, registers, e_stop_queue, repeat_queue,
                     ops_programmming_queue, wanted>>

update ==
  /\ UNCHANGED app
  /\ \/ UpdateFromOps
     \/ UpdateFromEStop
     \/ UpdateFromRepeat
     \/ UpdateFromPeriodic

Application ==
  \/ \E a \in Loco, s \in Speed : SetSpeed(a, s)
  \/ \E a \in Loco, f \in Function, type \in {"AUS", "EIN", "UM"} : SetLocoFunc(a, f, type)
  \/ \E a \in Loco, b \in app.binaryState : SetLocoFuncBinary(a, b)
  \/ \E a \in Queried : Query(a)
  \/ \E t \in Turnout, pos \in Position, activ \in app.activ : SetBasicAccessoryPos(t, pos, activ)
  \/ \E t \in Signal, aspect \in {"red", "green"} : SetExtAccessoryPos(t, aspect)
  \/ \E a \in Loco, order \in app.pomOrder : ProgramOnMain(a, order)
  \/ \E state \in app.power : SetPower(state)
  \/ EStop

Next == update \/ (Application /\ UNCHANGED app)

(* loop() calls update() again and again, and the generator, driven by a    *)
(* timer, keeps asking for packets; nothing makes the application call.     *)
Spec == Init /\ [][Next]_vars /\ WF_vars(update)

-----------------------------------------------------------------------------
SpeedPackets(q, a) == {p \in Entries(q) : p.kind = "speed" /\ p.addr = a}

FunctionPackets(q, a, g) ==
  {p \in Entries(q) : p.kind \in FunctionKinds /\ p.addr = a /\ p.data.group = g}

IsLocoPacket(p) ==
  /\ p.addr \in Loco
  /\ \/ p.kind = "speed" /\ p.data \in Speed
     \/ p.kind \in FunctionKinds /\ p.data.group \in 1..10
          /\ p.data.on \subseteq FunctionGroup[p.data.group]
  /\ p.rep \in 0..RepeatMod - 1

Register ==
  [adr : {0} \union Loco \union Queried, speed : {"unset", "stop"} \union Speed,
   fn : SUBSET (Function \intersect Stored)]

TypeOK ==
  /\ railpower \in {"ON", "OFF", "ESTOP", "SHORT"}
  /\ slots \in [Slot -> Register]
  /\ slotFullNext \in Slot
  /\ BasicAccessory \in [Turnout -> Position]
  /\ \A p \in Entries(repeat_queue) : IsLocoPacket(p) /\ p.rep # 0
  /\ \A p \in Entries(periodic_refresh_queue) : IsLocoPacket(p)
  /\ \A p \in Entries(e_stop_queue) :
       p.kind \in {"e_stop", "fn_b", "basic_accessory", "extended_accessory"}
  /\ \A p \in Entries(ops_programmming_queue) : p.kind \in {"ops_mode", "pom"}
  /\ Len(repeat_queue) <= REPEAT_QUEUE_SIZE
  /\ Len(periodic_refresh_queue) <= PERIODIC_REFRESH_QUEUE_SIZE
  /\ Len(e_stop_queue) <= E_STOP_QUEUE_SIZE
  /\ Len(ops_programmming_queue) <= PROG_QUEUE_SIZE
  /\ packet_counter \in 0..ONCE_REFRESH_INTERVAL - 1
  /\ heard.speed \in [Loco -> {"none", "estop"} \union Speed]
  /\ wanted.speed \in [Loco -> {"none"} \union Speed]

-----------------------------------------------------------------------------
(* Nothing that waits is out of date: what waits to be repeated is the last  *)
(* order accepted for that loco, and the periodic refresh holds an older one *)
(* only while the newer one is still on its way through repeat_queue.        *)
RefreshIsFresh ==
  \A a \in Loco :
    /\ \A p \in SpeedPackets(repeat_queue, a) : p.data = wanted.speed[a]
    /\ \A p \in SpeedPackets(periodic_refresh_queue, a) :
         p.data = wanted.speed[a] \/ SpeedPackets(repeat_queue, a) # {}
    /\ \A g \in DOMAIN FunctionGroup :
         LET bits == wanted.fn[a] \intersect FunctionGroup[g]
         IN  /\ \A p \in FunctionPackets(repeat_queue, a, g) : p.data.on = bits
             /\ \A p \in FunctionPackets(periodic_refresh_queue, a, g) :
                  p.data.on = bits \/ FunctionPackets(repeat_queue, a, g) # {}

(* An order that was accepted never drops out of the cycle: it waits in      *)
(* repeat_queue or has a place in the periodic refresh.                      *)
NothingForgotten ==
  \A a \in Loco :
    /\ wanted.speed[a] # "none" =>
         SpeedPackets(repeat_queue \o periodic_refresh_queue, a) # {}
    /\ \A g \in DOMAIN FunctionGroup :
         wanted.fn[a] \intersect FunctionGroup[g] # {} =>
           FunctionPackets(repeat_queue \o periodic_refresh_queue, a, g) # {}

(* Once the application is quiet and the power is on, every decoder ends up  *)
(* with the last order that was accepted for it, whatever power failures and *)
(* emergency stops it missed packets in.                                     *)
LocosAgree ==
  \A a \in Loco : heard.fn[a] = wanted.fn[a]
                  /\ (wanted.speed[a] # "none" => heard.speed[a] = wanted.speed[a])

LocosSettle ==
  (<>[][~Application]_vars /\ <>[](railpower = "ON")) => <>[]LocosAgree

-----------------------------------------------------------------------------
(* The program never takes the power off the rails. *)
PowerStays == app.power \intersect {"OFF", "SHORT"} = {}

(* What can keep the others from the rails for ever: programming on the main *)
(* comes first, and an order that takes the place of a waiting one of its    *)
(* key takes its place in the queue too, with all its repeats.               *)
Programming == \E a \in Loco, order \in app.pomOrder : ProgramOnMain(a, order)

Overwriting ==
  \/ \E a \in Loco, b \in app.binaryState : SetLocoFuncBinary(a, b)
  \/ \E t \in Signal, aspect \in {"red", "green"} : SetExtAccessoryPos(t, aspect)

Waiting(kind, t) ==
  {p \in Entries(e_stop_queue) : p.kind = kind /\ Addressed(p) = t}

(* No turnout order waits for ever, however many loco orders keep arriving.  *)
(* Turnout orders do not replace each other, so the oldest leaves first.     *)
TurnoutWaits == \E t \in Turnout : Waiting("basic_accessory", t) # {}

TurnoutLeaves ==
  e_stop_queue # << >> /\ Head(e_stop_queue).kind = "basic_accessory"
  /\ e_stop_queue' = Tail(e_stop_queue)

TurnoutsServed ==
  <>[][~(Programming \/ Overwriting \/ EStop)]_vars =>
    []<>~TurnoutWaits \/ []<><<TurnoutLeaves>>_vars

(* When no order for it waits any more, a turnout or a signal shows what the *)
(* last accepted order said: none was lost, and none overtook a later one.   *)
AccessoriesAgree ==
  /\ \A t \in Turnout :
       Waiting("basic_accessory", t) = {} => heard.turnout[t] = wanted.turnout[t]
  /\ \A t \in Signal :
       Waiting("extended_accessory", t) = {} => heard.signal[t] = wanted.signal[t]

(* An emergency stop that found room is broadcast, however many speed and    *)
(* turnout orders keep arriving and whatever waits with it in e_stop_queue.  *)
(* Two streams must end: programming on the main, whose queue comes first,   *)
(* and orders that overwrite a waiting one and start its repeats again.      *)
EStopWaits == \E p \in Entries(e_stop_queue) : p.kind = "e_stop"

EStopServed ==
  <>[][~(Programming \/ Overwriting)]_vars =>
    ((PowerStays /\ EStopWaits) ~> (\A a \in Loco : heard.speed[a] = "estop"))

(* When the programming queue has drained, every programming order that was  *)
(* accepted has been carried out.                                            *)
PomPerformed ==
  \A a \in Loco :
    (\A p \in Entries(ops_programmming_queue) : p.kind # "pom" \/ p.addr # a)
      => wanted.pom[a] \subseteq heard.pom[a]

(* Before anything else the rails get the reset packets that setup() asked   *)
(* for, unless the program takes the power away meanwhile.                   *)
StartupResets ==
  PowerStays /\ ops_programmming_queue = << >> => heard.resets = RSTsRepeat

-----------------------------------------------------------------------------
(* What the documentation promises and the code does not keep.               *)

(* ESTOP is "no Loco drive but rails have power": if the emergency stop      *)
(* lasts, the locos end up standing.                                         *)
EStopHolds ==
  <>[](railpower = "ESTOP") => <>[](\A a \in Loco : heard.speed[a] # "go")

(* A speed order given during ESTOP is stored for the later refresh, and     *)
(* stays stored as long as nothing else is ordered.                          *)
EStopOrderStored ==
  [][ \A a \in Loco :
        railpower = "ESTOP" /\ wanted' = wanted
        /\ (\E p \in SpeedPackets(periodic_refresh_queue, a) : p.data = wanted.speed[a])
          => \E p \in SpeedPackets(periodic_refresh_queue', a) : p.data = wanted.speed[a] ]_vars

(* eStop() sends a broadcast emergency stop packet.                          *)
EStopQueued == [][ EStop => EStopWaits' ]_vars

==============================================================================
