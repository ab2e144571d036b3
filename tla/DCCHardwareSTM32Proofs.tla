----------------------- MODULE DCCHardwareSTM32Proofs ------------------------
(***************************************************************************)
(* The STM32 engine, for every set of packets, every number of repeats and *)
(* every combination of the uses: what AUX does, and that the DMA buffers  *)
(* get the packets that PacketEngineSpec promises.                         *)
(***************************************************************************)
EXTENDS DCCHardwareSTM32, TLAPS

(* How far a method may have got, and what it has already changed then.      *)
AuxSteps == {<<"activeHigh">>, <<"activeLow">>, <<"pinOff">>, <<"pinOn">>}
StepsToDo ==
  {<< >>, <<"copy">>, <<"default">>, <<"cancel", "default">>} \union AuxSteps

MethodOK ==
  /\ doing \in StepsToDo
  /\ defaultPacket \in {Idle, Reset}
  /\ doing \in {<< >>, <<"copy">>} \union AuxSteps => (smActive <=> defaultPacket = Reset)
  /\ doing = <<"copy">> =>
       /\ canAcceptPacket
       /\ sending \in Packet
       /\ isServiceModePacket <=> smActive /\ sending \in ServicePacket
  /\ doing = <<"cancel", "default">> => ~smActive

(* Who is repeated, and when: the packet that was put into a buffer last, in *)
(* Service Mode only.  leaveServiceMode() has yet to cancel what is left.    *)
RepeatsKept ==
  /\ ~canAcceptPacket /\ isServiceModePacket => smActive
  /\ smActive /\ smRepeatsRemaining > 0 => currentPacket = buffer[Other(Buf_in_Use)]
  /\ ~smActive /\ smRepeatsRemaining > 0 => doing = <<"cancel", "default">>

RepeatsOK == Without({"leaveEarly", "invert"}) => RepeatsKept

(* With the output stopped there is no timer running that could switch AUX,  *)
(* and no method that switches it on.                                        *)
AuxKept ==
  /\ ~railPower => /\ railComTimer = "off"
                   /\ doing # <<"pinOff">> => auxPin # AuxActiveLevel
  /\ doing \in {<<"activeHigh">>, <<"activeLow">>, <<"pinOn">>} => railPower

AuxOK == Without({"startOff", "stopInCutout", "levelWhileOff"}) => AuxKept

IInv == TypeOK /\ MethodOK /\ RepeatsOK /\ AuxOK

-----------------------------------------------------------------------------
(* The types of the flags, and those of the rest.                            *)
Flags ==
  /\ canAcceptPacket \in BOOLEAN /\ smActive \in BOOLEAN /\ isServiceModePacket \in BOOLEAN
  /\ railCom \in BOOLEAN /\ railComActiveOnAux \in BOOLEAN
  /\ railPower \in BOOLEAN /\ railComCutoutInProgress \in BOOLEAN
  /\ auxPin \in BOOLEAN /\ AuxActiveLevel \in BOOLEAN

Data ==
  /\ uses \in Programs
  /\ nextPacket \in Packets /\ currentPacket \in Packets
  /\ defaultPacket \in Packets /\ sending \in Packets
  /\ smRepeatsRemaining \in 0..SM_REPEATS
  /\ buffer \in [1..2 -> Packets] /\ Buf_in_Use \in 1..2
  /\ railComTimer \in {"off", "predelay", "cutout"}

LEMMA InitTypeOK == Init => TypeOK
<1> SUFFICES ASSUME Init PROVE TypeOK
  OBVIOUS
<1>1. Flags
  BY Zenon DEF Init, Flags
<1>2. Data
  BY RepeatsAssumption DEF Init, Data, Packets
<1> QED
  BY <1>1, <1>2 DEF Flags, Data, TypeOK

LEMMA StepFlags ==
  ASSUME Flags, [Next]_vars
  PROVE  Flags'
<1> USE DEF Flags
<1>1. CASE DMA1_Stream4_IRQHandler
  BY Zenon, <1>1 DEF DMA1_Stream4_IRQHandler, TakeNextPacket, TakeDefaultPacket, RepeatPacket,
       ChangeBuffers, StartCutout, railComSettings, method
<1>2. CASE RailComCutoutIRQ
  BY Zenon, <1>2 DEF RailComCutoutIRQ, CutoutStarts, CutoutEnds, packets, sm, railComSettings
<1>3. CASE Continue
  BY ZenonT(30), <1>3 DEF Continue, SendCopy, LeaveCancel, WriteDefaultPacket,
       WriteActiveLevel, WritePin, packets, sm, dma, railComSettings, aux
<1>4. CASE Method
  <2>1. CASE \/ \E p \in Packet : SendBegin(p)
             \/ enterServiceMode \/ leaveServiceMode \/ stopServiceModeRepeats
    BY ZenonT(30), <2>1 DEF SendBegin, enterServiceMode, leaveServiceMode,
         stopServiceModeRepeats, packets, railComSettings, aux
  <2>2. ASSUME NEW active \in BOOLEAN,
               setRailCom(active) \/ setRailComGapInAux(active) \/ setAuxActiveLevel(active)
        PROVE  Flags'
    BY ZenonT(30), <2>2 DEF setRailCom, setRailComGapInAux, setAuxActiveLevel, packets, sm,
         railComSettings, aux
  <2>3. CASE setDccSignalInverted \/ StopOutputSignal \/ RunOutputSignal
    BY ZenonT(30), <2>3 DEF setDccSignalInverted, StopOutputSignal, RunOutputSignal, packets,
         sm, railComSettings, aux
  <2> QED
    BY <1>4, <2>1, <2>2, <2>3 DEF Method
<1>5. CASE UNCHANGED vars
  BY Zenon, <1>5 DEF vars, packets, sm, railComSettings, aux
<1> QED
  BY <1>1, <1>2, <1>3, <1>4, <1>5 DEF Next

LEMMA StepData ==
  ASSUME Data, Flags, [Next]_vars
  PROVE  Data'
<1> USE DEF Data, Packets
<1>1. ASSUME NEW p \in Packets, ChangeBuffers(p)
      PROVE  /\ buffer' \in [1..2 -> Packets] /\ Buf_in_Use' \in 1..2
             /\ railComTimer' \in {"off", "predelay", "cutout"}
             /\ UNCHANGED <<uses, nextPacket, defaultPacket, sending>>
  BY <1>1 DEF ChangeBuffers, StartCutout, Other, method
<1>2. CASE TakeNextPacket
  BY <1>1, <1>2, RepeatsAssumption DEF TakeNextPacket
<1>3. CASE TakeDefaultPacket
  BY <1>1, <1>3 DEF TakeDefaultPacket
<1>4. CASE RepeatPacket
  BY <1>1, <1>4, RepeatsAssumption DEF RepeatPacket, isServiceModeRepeating
<1>5. CASE RailComCutoutIRQ
  BY <1>5 DEF RailComCutoutIRQ, CutoutStarts, CutoutEnds, packets, sm, dma, method
<1>6. CASE Continue
  BY <1>6, RepeatsAssumption DEF Continue, SendCopy, LeaveCancel, WriteDefaultPacket,
       WriteActiveLevel, WritePin, packets, sm, dma, aux
<1>7. CASE Method
  BY <1>7, RepeatsAssumption DEF Method, SendBegin, enterServiceMode, leaveServiceMode,
       stopServiceModeRepeats, setRailCom, setRailComGapInAux, setAuxActiveLevel,
       setDccSignalInverted, StopOutputSignal, RunOutputSignal, packets, sm, dma,
       aux
<1>8. CASE UNCHANGED vars
  BY <1>8 DEF vars, packets, sm, dma, aux, method
<1> QED
  BY <1>2, <1>3, <1>4, <1>5, <1>6, <1>7, <1>8 DEF Next, DMA1_Stream4_IRQHandler

-----------------------------------------------------------------------------
LEMMA InitIInv == Init => IInv
<1> SUFFICES ASSUME Init PROVE IInv
  OBVIOUS
<1>1. TypeOK
  BY InitTypeOK
<1>2. MethodOK
  BY DefaultsAssumption DEF Init, MethodOK, StepsToDo, AuxSteps
<1>3. RepeatsOK
  BY DEF Init, RepeatsOK, RepeatsKept
<1>4. AuxOK
  <2>1. railPower <=> "startOff" \notin uses
    BY Zenon DEF Init
  <2>2. doing \notin {<<"activeHigh">>, <<"activeLow">>, <<"pinOn">>}
    BY DEF Init
  <2> QED
    BY <2>1, <2>2 DEF AuxOK, AuxKept, Without
<1> QED
  BY <1>1, <1>2, <1>3, <1>4 DEF IInv

(* Which step a method can be at, and what it has yet to do after that.      *)
LEMMA StepsInTurn ==
  ASSUME doing \in StepsToDo
  PROVE  /\ Step("copy") => doing = <<"copy">> /\ doing' = << >>
         /\ Step("default") => doing = <<"default">> /\ doing' = << >>
         /\ Step("cancel") => doing = <<"cancel", "default">> /\ doing' = <<"default">>
         /\ \A name \in {"activeHigh", "activeLow", "pinOff", "pinOn"} :
              Step(name) => doing = <<name>> /\ doing' = << >>
<1>1. Head(<<"copy">>) = "copy" /\ Tail(<<"copy">>) = << >>
  OBVIOUS
<1>2. Head(<<"default">>) = "default" /\ Tail(<<"default">>) = << >>
  OBVIOUS
<1>3. Head(<<"cancel", "default">>) = "cancel" /\ Tail(<<"cancel", "default">>) = <<"default">>
  OBVIOUS
<1>4. \A name : Head(<<name>>) = name /\ Tail(<<name>>) = << >>
  OBVIOUS
<1> QED
  BY <1>1, <1>2, <1>3, <1>4 DEF Step, StepsToDo, AuxSteps

(* A method that has begun goes on step by step, whatever interrupts it.     *)
LEMMA StepMethodOK ==
  ASSUME TypeOK, MethodOK, [Next]_vars
  PROVE  MethodOK'
<1> USE DEF MethodOK, StepsToDo, AuxSteps
<1>1. CASE DMA1_Stream4_IRQHandler
  BY <1>1 DEF DMA1_Stream4_IRQHandler, TakeNextPacket, TakeDefaultPacket, RepeatPacket,
       ChangeBuffers, method
<1>2. CASE RailComCutoutIRQ
  BY <1>2 DEF RailComCutoutIRQ, CutoutStarts, CutoutEnds, packets, sm, method
<1>3. CASE SendCopy
  BY <1>3, StepsInTurn DEF SendCopy, sm
<1>4. CASE LeaveCancel
  BY <1>4, StepsInTurn DEF LeaveCancel, packets
<1>5. CASE WriteDefaultPacket
  BY <1>5, StepsInTurn, DefaultsAssumption DEF WriteDefaultPacket, packets, sm
<1>6. ASSUME NEW p \in Packet, SendBegin(p) PROVE MethodOK'
  <2>1. isServiceModePacket' <=> smActive /\ p \in ServicePacket
    BY Zenon, <1>6 DEF SendBegin
  <2> QED
    BY <1>6, <2>1 DEF SendBegin, Call, packets
<1>7. CASE enterServiceMode \/ leaveServiceMode
  BY <1>7 DEF enterServiceMode, leaveServiceMode, Call, packets
<1>8. CASE stopServiceModeRepeats \/ setDccSignalInverted
  BY <1>8 DEF stopServiceModeRepeats, setDccSignalInverted, Call, packets, sm
<1>9. CASE StopOutputSignal \/ RunOutputSignal
  BY <1>9 DEF StopOutputSignal, RunOutputSignal, Call, packets, sm
<1>10. ASSUME NEW active \in BOOLEAN, setRailCom(active) \/ setRailComGapInAux(active)
       PROVE  MethodOK'
  BY <1>10 DEF setRailCom, setRailComGapInAux, Call, packets, sm
<1>11. ASSUME NEW activeHigh \in BOOLEAN, setAuxActiveLevel(activeHigh) PROVE MethodOK'
  <2>1. doing = << >> /\ doing' \in {<<"activeHigh">>, <<"activeLow">>}
    BY <1>11 DEF setAuxActiveLevel, Call
  <2>2. UNCHANGED <<defaultPacket, smActive, canAcceptPacket, sending, isServiceModePacket>>
    BY <1>11 DEF setAuxActiveLevel, packets, sm
  <2> QED
    BY <2>1, <2>2
<1>12. CASE WriteActiveLevel \/ WritePin
  <2>1. doing \in AuxSteps /\ doing' = << >>
    BY <1>12, StepsInTurn DEF WriteActiveLevel, WritePin
  <2>2. UNCHANGED <<defaultPacket, smActive, canAcceptPacket, sending, isServiceModePacket>>
    BY <1>12 DEF WriteActiveLevel, WritePin, packets, sm
  <2> QED
    BY <2>1, <2>2
<1>13. CASE UNCHANGED vars
  BY <1>13 DEF vars, packets, sm, method
<1> QED
  BY <1>1, <1>2, <1>3, <1>4, <1>5, <1>6, <1>7, <1>8, <1>9, <1>10, <1>11, <1>12, <1>13
  DEF Next, Method, Continue

(* The program stays the same.                                               *)
LEMMA UsesFixed ==
  ASSUME [Next]_vars
  PROVE  uses' = uses
BY DEF Next, vars, DMA1_Stream4_IRQHandler, TakeNextPacket, TakeDefaultPacket, RepeatPacket,
     ChangeBuffers, RailComCutoutIRQ, CutoutStarts, CutoutEnds, Continue, SendCopy,
     LeaveCancel, WriteDefaultPacket, WriteActiveLevel, WritePin, Method, SendBegin, enterServiceMode, leaveServiceMode,
     stopServiceModeRepeats, setRailCom, setRailComGapInAux, setAuxActiveLevel,
     setDccSignalInverted, StopOutputSignal, RunOutputSignal

(* Leaving Service Mode with nothing to wait and cancelling the repeats keep *)
(* the repeats to the packet that was taken last.                            *)
LEMMA StepRepeatsOK ==
  ASSUME TypeOK, MethodOK, RepeatsOK, [Next]_vars
  PROVE  RepeatsOK'
<1> SUFFICES ASSUME Without({"leaveEarly", "invert"})' PROVE RepeatsKept'
  BY DEF RepeatsOK
<1>0. /\ Without({"leaveEarly", "invert"})
      /\ "leaveEarly" \notin uses /\ "invert" \notin uses
  <2>1. uses' = uses
    BY UsesFixed
  <2> QED
    BY <2>1 DEF Without
<1> USE DEF RepeatsOK, RepeatsKept
<1>1. ASSUME NEW p, ChangeBuffers(p)
      PROVE  buffer'[Other(Buf_in_Use')] = p
  BY <1>1 DEF ChangeBuffers, Other, TypeOK
<1>2. CASE TakeNextPacket
  BY <1>0, <1>1, <1>2, RepeatsAssumption DEF TakeNextPacket, isServiceModeRepeating, ChangeBuffers, method, TypeOK
<1>3. CASE TakeDefaultPacket
  BY <1>0, <1>1, <1>3 DEF TakeDefaultPacket, isServiceModeRepeating, ChangeBuffers, method, TypeOK
<1>4. CASE RepeatPacket
  BY <1>0, <1>1, <1>4 DEF RepeatPacket, isServiceModeRepeating, ChangeBuffers, method, TypeOK
<1>5. CASE RailComCutoutIRQ
  BY <1>0, <1>5 DEF RailComCutoutIRQ, CutoutStarts, CutoutEnds, packets, sm, dma, method
<1>6. CASE SendCopy
  BY <1>0, <1>6, StepsInTurn DEF SendCopy, sm, dma, MethodOK
<1>7. CASE LeaveCancel
  BY <1>0, <1>7, StepsInTurn DEF LeaveCancel, packets, dma, MethodOK
<1>8. CASE WriteDefaultPacket
  BY <1>0, <1>8, StepsInTurn DEF WriteDefaultPacket, packets, sm, dma, MethodOK
<1>9. ASSUME NEW p \in Packet, SendBegin(p) PROVE RepeatsKept'
  BY <1>0, <1>9 DEF SendBegin, Call, packets, dma
<1>10. CASE enterServiceMode
  BY <1>0, <1>10, RepeatsAssumption DEF enterServiceMode, Call, packets, dma, TypeOK
<1>11. CASE leaveServiceMode
  BY <1>0, <1>11 DEF leaveServiceMode, Call, packets, dma
<1>12. CASE stopServiceModeRepeats
  BY <1>0, <1>12 DEF stopServiceModeRepeats, Call, packets, dma
<1>13. ASSUME \/ setDccSignalInverted \/ StopOutputSignal \/ RunOutputSignal
              \/ WriteActiveLevel \/ WritePin
              \/ \E active \in BOOLEAN : setAuxActiveLevel(active)
       PROVE  RepeatsKept'
  <2>1. UNCHANGED <<packets, sm, dma>>
    BY <1>0, <1>13 DEF setDccSignalInverted, StopOutputSignal, RunOutputSignal,
         WriteActiveLevel, WritePin, setAuxActiveLevel
  <2>2. doing # <<"cancel", "default">>
    BY <1>13, StepsInTurn DEF setDccSignalInverted, StopOutputSignal, RunOutputSignal,
         WriteActiveLevel, WritePin, setAuxActiveLevel, Call, MethodOK
  <2> QED
    BY <1>0, <2>1, <2>2 DEF packets, sm, dma
<1>14. ASSUME NEW active \in BOOLEAN, setRailCom(active) \/ setRailComGapInAux(active)
       PROVE  RepeatsKept'
  BY <1>0, <1>14 DEF setRailCom, setRailComGapInAux, Call, packets, sm, dma
<1>15. CASE UNCHANGED vars
  BY <1>0, <1>15 DEF vars, packets, sm, dma, method
<1> QED
  BY <1>2, <1>3, <1>4, <1>5, <1>6, <1>7, <1>8, <1>9, <1>10, <1>11, <1>12, <1>13, <1>14, <1>15
  DEF Next, Method, Continue, DMA1_Stream4_IRQHandler

(* A stopped output starts no cutout, and StopOutputSignal() meets none.     *)
LEMMA StepAuxOK ==
  ASSUME TypeOK, MethodOK, AuxOK, [Next]_vars
  PROVE  AuxOK'
<1> SUFFICES ASSUME Without({"startOff", "stopInCutout", "levelWhileOff"})' PROVE AuxKept'
  BY DEF AuxOK
<1>0. "stopInCutout" \notin uses /\ "levelWhileOff" \notin uses /\ AuxKept
  BY UsesFixed DEF Without, AuxOK
<1> USE <1>0 DEF AuxKept
<1>1. ASSUME UNCHANGED <<railPower, railComTimer, auxPin, AuxActiveLevel, doing>> PROVE AuxKept'
  BY Zenon, <1>1
<1>2. CASE DMA1_Stream4_IRQHandler
  <2>1. UNCHANGED <<railPower, auxPin, AuxActiveLevel, doing>>
    BY <1>2 DEF DMA1_Stream4_IRQHandler, TakeNextPacket, TakeDefaultPacket, RepeatPacket,
         ChangeBuffers, method
  <2>2. ~railPower => railComTimer' = railComTimer
    BY <1>2 DEF DMA1_Stream4_IRQHandler, TakeNextPacket, TakeDefaultPacket, RepeatPacket,
         ChangeBuffers, StartCutout
  <2> QED
    BY Zenon, <2>1, <2>2
<1>3. CASE RailComCutoutIRQ
  <2>1. UNCHANGED <<railPower, AuxActiveLevel, doing>> /\ railComTimer # "off"
    BY <1>3 DEF RailComCutoutIRQ, CutoutStarts, CutoutEnds, method
  <2> QED
    BY <2>1
<1>4. CASE WritePin
  <2>1. \/ doing = <<"pinOff">> /\ auxPin' = ~AuxActiveLevel
        \/ doing = <<"pinOn">> 
    BY <1>4, StepsInTurn DEF WritePin, MethodOK
  <2>2. doing' = << >>
    BY <1>4, StepsInTurn DEF WritePin, MethodOK
  <2>3. UNCHANGED <<railPower, AuxActiveLevel, railComTimer>>
    BY <1>4 DEF WritePin
  <2>4. doing' # <<"pinOff">> /\ doing' \notin {<<"activeHigh">>, <<"activeLow">>, <<"pinOn">>}
    BY <2>2
  <2> QED
    BY <2>1, <2>3, <2>4 DEF TypeOK
<1>5. CASE WriteActiveLevel
  <2>1. doing \in {<<"activeHigh">>, <<"activeLow">>} /\ doing' = << >>
    BY <1>5, StepsInTurn DEF WriteActiveLevel, MethodOK
  <2>2. railPower /\ railPower' = railPower
    BY <1>5, <2>1 DEF WriteActiveLevel
  <2> QED
    BY <2>1, <2>2
<1>6. CASE SendCopy \/ LeaveCancel \/ WriteDefaultPacket
  <2>1. UNCHANGED aux /\ doing' \in {<< >>, <<"default">>}
        /\ doing \in {<<"copy">>, <<"default">>, <<"cancel", "default">>}
    BY <1>6, StepsInTurn DEF SendCopy, LeaveCancel, WriteDefaultPacket, MethodOK
  <2> QED
    BY <2>1 DEF aux
<1>7. CASE StopOutputSignal
  <2>1. railComTimer' = "off" /\ doing' = <<"pinOff">>
    BY <1>7 DEF StopOutputSignal, Call
  <2> QED
    BY <2>1
<1>8. CASE RunOutputSignal
  <2>1. railPower'
    BY Zenon, <1>8 DEF RunOutputSignal
  <2> QED
    BY <2>1
<1>9. ASSUME NEW activeHigh \in BOOLEAN, setAuxActiveLevel(activeHigh) PROVE AuxKept'
  <2>1. railPower'
    BY Zenon, <1>9 DEF setAuxActiveLevel
  <2> QED
    BY <2>1
<1>10. ASSUME \/ \E p \in Packet : SendBegin(p)
              \/ enterServiceMode \/ leaveServiceMode \/ stopServiceModeRepeats
              \/ \E active \in BOOLEAN : setRailCom(active) \/ setRailComGapInAux(active)
              \/ setDccSignalInverted
       PROVE  AuxKept'
  <2>1. UNCHANGED aux /\ doing = << >>
        /\ doing' \in {<< >>, <<"copy">>, <<"default">>, <<"cancel", "default">>}
    BY <1>10 DEF SendBegin, enterServiceMode, leaveServiceMode, stopServiceModeRepeats,
         setRailCom, setRailComGapInAux, setDccSignalInverted, Call
  <2> QED
    BY <2>1 DEF aux
<1>11. CASE UNCHANGED vars
  BY <1>1, <1>11 DEF vars, aux, method
<1> QED
  BY <1>2, <1>3, <1>4, <1>5, <1>6, <1>7, <1>8, <1>9, <1>10, <1>11 DEF Next, Method, Continue

LEMMA StepIInv == IInv /\ [Next]_vars => IInv'
<1> SUFFICES ASSUME IInv, [Next]_vars PROVE IInv'
  OBVIOUS
<1>1. TypeOK'
  BY StepFlags, StepData DEF IInv, TypeOK, Flags, Data
<1> QED
  BY <1>1, StepMethodOK, StepRepeatsOK, StepAuxOK DEF IInv

LEMMA SpecIInv == Spec => []IInv
  BY InitIInv, StepIInv, PTL DEF Spec

(* Every variable keeps its type.                                            *)
THEOREM EngineTypeOK == Spec => []TypeOK
  BY SpecIInv, PTL DEF IInv

(* StopOutputSignal() takes the power off the rails for every program that   *)
(* begins with the output on, stops it outside cutouts and sets the active   *)
(* level of AUX while it runs: no later cutout enables the H-bridge.         *)
THEOREM StoppedOutputStaysOff == Spec => []OffMeansOff
<1>1. IInv => OffMeansOff
  BY DEF IInv, AuxOK, AuxKept, OffMeansOff, BridgeOff, Enabled
<1> QED
  BY <1>1, SpecIInv, PTL

-----------------------------------------------------------------------------
(* The DMA buffers implement the engine of PacketEngineSpec.                 *)
LEMMA InitIsEngineInit == Init => Engine!Init
  BY DefaultsAssumption DEF Init, Engine!Init, Other

(* What the engine of PacketEngineSpec is made of here.                      *)
pending == IF canAcceptPacket THEN << >> ELSE <<nextPacket>>
asService == ~canAcceptPacket /\ isServiceModePacket
onAir == buffer[Other(Buf_in_Use)]
repeats == IF smActive THEN smRepeatsRemaining ELSE 0
service == defaultPacket = Reset

EngineState == <<pending, asService, onAir, repeats, service>>

(* The interrupt takes the packet that waits, or the default packet, unless  *)
(* one is repeated.                                                          *)
LEMMA InterruptIsEngineStep ==
  ASSUME IInv, RepeatsKept, DMA1_Stream4_IRQHandler
  PROVE  Engine!StartNew \/ Engine!StartDefault \/ Engine!Repeat
<1> USE DEF IInv, TypeOK
<1>1. ASSUME NEW p, ChangeBuffers(p)
      PROVE  /\ onAir' = p
             /\ UNCHANGED <<nextPacket, defaultPacket, smActive, isServiceModePacket>>
  BY <1>1 DEF ChangeBuffers, Other, onAir
<1>2. repeats \in Nat /\ (repeats > 0 <=> isServiceModeRepeating)
  BY RepeatsAssumption DEF repeats, isServiceModeRepeating
<1>3. CASE TakeNextPacket
  <2>1. repeats = 0 /\ pending = <<nextPacket>> /\ (asService <=> isServiceModePacket)
    BY <1>2, <1>3 DEF TakeNextPacket, pending, asService
  <2>2. pending' = << >> /\ onAir' = nextPacket /\ service' = service
    BY <1>1, <1>3 DEF TakeNextPacket, pending, service
  <2>3. asService' = FALSE
    BY Zenon, <1>3 DEF TakeNextPacket, asService
  <2>4. repeats' = IF asService THEN SM_REPEATS ELSE 0
    BY <1>1, <1>3, <2>1 DEF TakeNextPacket, repeats, RepeatsKept
  <2>5. Head(pending) = nextPacket /\ pending # << >>
    BY <2>1
  <2> QED
    BY <2>1, <2>2, <2>3, <2>4, <2>5
    DEF Engine!StartNew, pending, asService, onAir, repeats, service
<1>4. CASE TakeDefaultPacket
  <2>1. repeats = 0 /\ pending = << >>
    BY <1>2, <1>4 DEF TakeDefaultPacket, pending
  <2>2. onAir' = IF service THEN Reset ELSE Idle
    BY <1>1, <1>4 DEF TakeDefaultPacket, service, MethodOK
  <2>3. UNCHANGED <<pending, asService, repeats, service>>
    BY <1>1, <1>4 DEF TakeDefaultPacket, pending, asService, repeats, service
  <2> QED
    BY <2>1, <2>2, <2>3 DEF Engine!StartDefault, pending, asService, onAir, repeats, service
<1>5. CASE RepeatPacket
  <2>1. repeats > 0 /\ repeats' = repeats - 1
    BY <1>1, <1>5 DEF RepeatPacket, isServiceModeRepeating, repeats
  <2>2. onAir' = onAir
    BY <1>1, <1>5 DEF RepeatPacket, isServiceModeRepeating, onAir, RepeatsKept
  <2>3. UNCHANGED <<pending, asService, service>>
    BY <1>1, <1>5 DEF RepeatPacket, pending, asService, service
  <2> QED
    BY <2>1, <2>2, <2>3 DEF Engine!Repeat, pending, asService, onAir, repeats, service
<1> QED
  BY <1>3, <1>4, <1>5 DEF DMA1_Stream4_IRQHandler

(* send() hands a packet over in its second step; the mode changes are seen  *)
(* when the default packet has been written.                                 *)
LEMMA MethodIsEngineStep ==
  ASSUME IInv, RepeatsKept, Method \/ Continue, "invert" \notin uses
  PROVE  \/ \E p \in Packet : Engine!Send(p)
         \/ Engine!Enter \/ Engine!Leave \/ Engine!StopRepeats
         \/ UNCHANGED EngineState
<1> USE DEF IInv, TypeOK, MethodOK, EngineState, pending, asService, onAir, repeats, service
<1>1. CASE SendCopy
  BY <1>1, StepsInTurn DEF SendCopy, sm, dma, Engine!Send
<1>2. CASE LeaveCancel
  BY <1>2, StepsInTurn DEF LeaveCancel, packets, dma
<1>3. CASE WriteDefaultPacket
  <2>1. CASE smActive
    BY <1>3, <2>1, StepsInTurn DEF WriteDefaultPacket, packets, sm, dma, Engine!Enter
  <2>2. CASE ~smActive
    BY <1>3, <2>2, StepsInTurn, DefaultsAssumption
    DEF WriteDefaultPacket, packets, sm, dma, Engine!Leave
  <2> QED
    BY <2>1, <2>2
<1>4. ASSUME NEW p \in Packet, SendBegin(p) PROVE UNCHANGED EngineState
  BY <1>4 DEF SendBegin, packets, dma
<1>5. CASE enterServiceMode
  BY <1>5 DEF enterServiceMode, Call, packets, dma, RepeatsKept
<1>6. CASE leaveServiceMode
  BY <1>6 DEF leaveServiceMode, Call, packets, dma, Engine!StopRepeats
<1>7. CASE stopServiceModeRepeats
  BY <1>7 DEF stopServiceModeRepeats, packets, dma, Engine!StopRepeats
<1>8. ASSUME \/ StopOutputSignal \/ RunOutputSignal \/ WriteActiveLevel \/ WritePin
             \/ \E activeHigh \in BOOLEAN : setAuxActiveLevel(activeHigh)
      PROVE  UNCHANGED EngineState
  BY <1>8 DEF StopOutputSignal, RunOutputSignal, WriteActiveLevel, WritePin,
       setAuxActiveLevel, packets, sm, dma
<1>9. ASSUME NEW active \in BOOLEAN, setRailCom(active) \/ setRailComGapInAux(active)
      PROVE  UNCHANGED EngineState
  BY <1>9 DEF setRailCom, setRailComGapInAux, packets, sm, dma
<1> QED
  BY <1>1, <1>2, <1>3, <1>4, <1>5, <1>6, <1>7, <1>8, <1>9
  DEF Method, Continue, setDccSignalInverted

LEMMA StepIsEngineStep ==
  IInv /\ [Next]_vars => [Without({"leaveEarly", "invert"}) => Engine!Next]_Engine!vars
<1> SUFFICES ASSUME IInv, [Next]_vars, Without({"leaveEarly", "invert"})
             PROVE  Engine!Next \/ UNCHANGED EngineState
  BY DEF Engine!vars, EngineState, pending, asService, onAir, repeats, service
<1>1. RepeatsKept /\ "invert" \notin uses
  BY DEF IInv, RepeatsOK, Without
<1>2. CASE DMA1_Stream4_IRQHandler
  BY <1>1, <1>2, InterruptIsEngineStep DEF Engine!Next
<1>3. CASE RailComCutoutIRQ
  BY <1>3 DEF RailComCutoutIRQ, CutoutStarts, CutoutEnds, packets, sm, dma, EngineState, pending,
       asService, onAir, repeats, service
<1>4. CASE Method \/ Continue
  BY <1>1, <1>4, MethodIsEngineStep DEF Engine!Next
<1>5. CASE UNCHANGED vars
  BY <1>5 DEF vars, packets, sm, dma, EngineState, pending, asService, onAir, repeats, service
<1> QED
  BY <1>2, <1>3, <1>4, <1>5 DEF Next

(* Packets go into the DMA buffers as PacketEngineSpec promises, for every   *)
(* program that leaves Service Mode with no packet waiting and does not      *)
(* invert the signal, wherever the interrupts come within the methods.       *)
THEOREM BuffersImplementEngine == Spec => ImplementsEngine
  BY InitIsEngineInit, StepIsEngineStep, SpecIInv, PTL DEF Spec, ImplementsEngine
=============================================================================
