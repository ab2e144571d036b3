------------------------- MODULE ServiceModeProofs --------------------------
(***************************************************************************)
(* CV programming: what the acknowledge pulse is taken for, and why an     *)
(* answer is right in spite of slow loops, aborted and replaced requests.  *)
(***************************************************************************)
EXTENDS ServiceMode, TLAPS

Working == {"ProgBitRead", "ProgWriteByte", "ProgVerifyCV", "ProgACKRead"}

-----------------------------------------------------------------------------
(* Types, of one part of the state after the other.                         *)
EngineTypes ==
  /\ canAcceptPacket \in BOOLEAN
  /\ pending = << >> \/ \E p \in Packet : pending = <<p>>
  /\ onAir \in Packet \union {<< >>}
  /\ asService \in BOOLEAN /\ service \in BOOLEAN
  /\ repeats \in 0..MaxRepeats

DecoderTypes ==
  /\ cv \in CVRange /\ heard \in Packet /\ times \in 0..3
  /\ present \in BOOLEAN /\ listening \in BOOLEAN /\ pulse \in BOOLEAN
  /\ sampled \in BOOLEAN

AckTypes ==
  /\ LASTVAmpSence \in {0, QuietLoad, PulseLoad}
  /\ current_ack_status \in {"NON_PROG_OP", "WAIT_FOR_ACK", "ACK_DETECTED",
                             "ACK_READ_SUCCESS", "ACK_READ_FAIL"}

(* The value that is put together bit by bit has no more bits than were read, *)
(* and no retry is one too many.                                             *)
ProgressTypes ==
  /\ uses \in SUBSET AllUses
  /\ railpower \in {"ON", "SERVICE"}
  /\ ProgState \in {"ProgStart", "ProgACKRead", "ProgBitRead", "ProgVerifyCV",
                    "ProgWriteByte", "ProgEnde"}
  /\ ProgMode \in {"none", "ProgModeBit", "ProgModeBitVerify", "ProgModeByte",
                   "ProgModeByteVerify", "ProgModeWriteByte"}
  /\ ProgReadMode \in ReadModes
  /\ current_cv_value \in CVRange /\ current_cv_bit \in 0..CVBits
  /\ cv_read_count \in 0..CV_BIT_MAX_TRY_READ
  /\ ProgState = "ProgBitRead" => ProgMode = "ProgModeBit"
  /\ ProgState = "ProgVerifyCV" => ProgMode # "ProgModeBit"
  /\ ProgState = "ProgWriteByte" => ProgMode = "ProgModeWriteByte"
  /\ ProgMode = "ProgModeBit" /\ ProgState \in {"ProgBitRead", "ProgACKRead"} =>
       current_cv_bit < CVBits /\ current_cv_value < 2^current_cv_bit
  /\ ProgState \in Working => cv_read_count < CV_BIT_MAX_TRY_READ
  /\ resets \in Nat
  /\ phase \in {"loop", "feed"}
  /\ asked = << >> \/ \E r \in Requests : asked = <<r>>

TypeIInv == EngineTypes /\ DecoderTypes /\ AckTypes /\ ProgressTypes

-----------------------------------------------------------------------------
(* The packets that are on their way.                                       *)
PacketInv ==
  /\ canAcceptPacket => pending = << >> /\ repeats = 0
  /\ repeats > 0 => pending = << >> /\ onAir \in ServicePacket
  /\ asService => pending # << >> /\ Head(pending) \in ServicePacket
  /\ repeats > 0 /\ repeats < MaxRepeats => heard = onAir

(* A pulse is the answer to the packet that was heard last.                 *)
PulseInv ==
  pulse => /\ present /\ heard \in ServicePacket
           /\ Answers(heard)
           /\ heard.op = "write" => heard.data = cv

TheWrite == WritePacket(current_cv_value)
TheVerify == VerifyPacket(current_cv_value)
TheTest == IF ProgMode = "ProgModeBit" THEN BitPacket(current_cv_bit) ELSE TheVerify

(* The last packet sent is the one of ProgState, if no reset packet follows  *)
(* it.                                                                       *)
SentInv ==
  railpower = "SERVICE" =>
    /\ ProgState \in Working => service
    /\ ProgState \in {"ProgBitRead", "ProgWriteByte"} =>
         pending = <<Reset>> \/ (pending = << >> /\ onAir = Reset)
    /\ ProgState = "ProgVerifyCV" =>
         \/ pending = <<Reset>>
         \/ pending = <<TheWrite>> /\ asService /\ resets = 0 /\ onAir = Reset
         \/ pending = << >> /\ onAir \in {Reset, TheWrite}
    /\ ProgState = "ProgACKRead" =>
         /\ resets = 0
         /\ \/ pending = <<TheTest>> /\ asService /\ onAir \in {Reset, TheWrite}
            \/ pending = << >> /\ onAir \in {Reset, TheTest}

(* An acknowledge that was seen is the decoder's; a rise alone may also be    *)
(* the current itself, when the base was set to 0 meanwhile, but then no fall *)
(* follows.                                                                  *)
Evidence == present /\ cv = current_cv_value

Credit ==
  /\ current_ack_status = "ACK_READ_SUCCESS" => Evidence
  /\ current_ack_status = "ACK_DETECTED" =>
       Evidence \/ (LASTVAmpSence = 0 /\ QuietLoad > ACK_SENSE_VALUE)

(* In a fast loop the base is taken in the first packet.                     *)
FastInv ==
  /\ railpower = "SERVICE" /\ ProgState = "ProgACKRead" /\ ProgMode # "ProgModeBit"
  /\ pending = << >>
  /\ ~(onAir = TheVerify /\ repeats = MaxRepeats /\ ~sampled)
  => Credit

(* In a slow one it may be missed, but when no request is cut off, nothing is *)
(* left of an earlier one.                                                   *)
ClearedInv ==
  /\ asked = << >> => ProgState = "ProgEnde" \/ (ProgState = "ProgStart" /\ railpower = "ON")
  /\ ProgState \in Working => railpower = "SERVICE"
  /\ ProgState \notin {"ProgVerifyCV", "ProgACKRead"} =>
       current_ack_status = "NON_PROG_OP" /\ ~asService /\ repeats = 0
  /\ ProgState = "ProgVerifyCV" /\ (pending = <<Reset>> \/ resets > 0) =>
       current_ack_status = "NON_PROG_OP" /\ repeats = 0
  /\ \/ ProgState = "ProgVerifyCV"
     \/ ProgState = "ProgACKRead" /\ ProgMode # "ProgModeBit"
     => Credit

(* What was answered stays true: no packet that writes is left.             *)
AnswerInv ==
  told # << >> =>
    /\ ProgState = "ProgEnde"
    /\ told[1].ok => present /\ told[1].value = cv
    /\ pending # << >> => Head(pending).op # "write"
    /\ onAir # << >> => onAir.op # "write"

Attended == Without({"earlyEngine"}) /\ (FastLoop \/ Without({"overlap", "abort"}))

AnswerIInv ==
  /\ TypeIInv
  /\ Attended =>
       /\ PacketInv /\ PulseInv /\ SentInv /\ AnswerInv
       /\ FastLoop => FastInv
       /\ Without({"overlap", "abort"}) => ClearedInv

-----------------------------------------------------------------------------
(* What is used of the packets.                                             *)
LEMMA PacketFacts ==
  /\ ServicePacket \subseteq Packet
  /\ {Idle, Reset} \subseteq Packet \ ServicePacket
  /\ Idle # Reset /\ Idle.op = "idle" /\ Reset.op = "reset"
  /\ \A b \in 0..CVBits - 1 : BitPacket(b) \in ServicePacket
  /\ \A v \in CVRange : VerifyPacket(v) \in ServicePacket /\ WritePacket(v) \in ServicePacket
  /\ \A p \in ServicePacket : p.op \in {"bit", "verify", "write"}
  /\ << >> \notin Packet
<1>1. \A p \in ServicePacket : p.op \in {"bit", "verify", "write"}
  BY DEF ServicePacket, BitPacket, VerifyPacket, WritePacket
<1>2. \A p \in Packet : p.op \in {"bit", "verify", "write", "idle", "reset"}
  BY <1>1 DEF Packet, Idle, Reset
<1>3. << >> \notin Packet
  BY DEF Packet, ServicePacket, BitPacket, VerifyPacket, WritePacket, Idle, Reset
<1>4. Idle.op = "idle" /\ Reset.op = "reset"
  BY DEF Idle, Reset
<1> QED
  BY <1>1, <1>3, <1>4 DEF ServicePacket, Packet

(* The packets of a value are different things.                             *)
LEMMA PacketFields ==
  /\ \A b : BitPacket(b).op = "bit" /\ BitPacket(b).data = b
  /\ \A v : VerifyPacket(v).op = "verify" /\ VerifyPacket(v).data = v
  /\ \A v : WritePacket(v).op = "write" /\ WritePacket(v).data = v
BY DEF BitPacket, VerifyPacket, WritePacket

LEMMA Values ==
  /\ 0 \in CVRange /\ 2^CVBits \in Nat \ {0}
  /\ \A v \in Int : v \in CVRange <=> 0 <= v /\ v < 2^CVBits
  /\ \A v \in CVRange : v \in Nat /\ (v + 1) % 2^CVBits \in CVRange
<1>1. 2^CVBits \in Nat \ {0}
  BY ConfigurationAssumption, PowersOfTwo
<1> DEFINE n == 2^CVBits
<1> HIDE DEF n
<1>2. n \in Nat \ {0} /\ CVRange = 0..n - 1
  BY <1>1 DEF n, CVRange
<1>3. \A v \in 0..n - 1 : (v + 1) % n \in 0..n - 1
  BY <1>2
<1> QED
  BY <1>2, <1>3 DEF n

-----------------------------------------------------------------------------
(* Types.                                                                   *)
LEMMA TypesAreOK == TypeIInv => TypeOK
<1>1. pending \in {<< >>} \union {<<p>> : p \in Packet}
        <=> pending = << >> \/ \E p \in Packet : pending = <<p>>
  OBVIOUS
<1>2. asked \in {<< >>} \union {<<r>> : r \in Requests}
        <=> asked = << >> \/ \E r \in Requests : asked = <<r>>
  OBVIOUS
<1>3. {present, listening, pulse, sampled} \subseteq BOOLEAN
        <=> /\ present \in BOOLEAN /\ listening \in BOOLEAN /\ pulse \in BOOLEAN
            /\ sampled \in BOOLEAN
  BY Zenon
<1> QED
  BY Zenon, <1>1, <1>2, <1>3 DEF TypeIInv, TypeOK, EngineTypes, DecoderTypes,
       AckTypes, ProgressTypes

LEMMA InitTypeIInv == Init => TypeIInv
<1> SUFFICES ASSUME Init PROVE TypeIInv
  OBVIOUS
<1>1. ProgressTypes
  BY ProgramsAssumption, ConfigurationAssumption, Values DEF Init, ProgressTypes, Working
<1>2. Idle \in Packet
  BY PacketFacts
<1>3. EngineTypes
  <2>1. /\ pending = << >> /\ asService = FALSE /\ service = FALSE /\ repeats = 0
        /\ onAir = << >> \/ onAir = Idle
    BY DEF Init, Engine!Init
  <2>2. repeats \in 0..MaxRepeats
    BY <2>1, ConfigurationAssumption
  <2>3. canAcceptPacket \in BOOLEAN /\ asService \in BOOLEAN /\ service \in BOOLEAN
    BY Zenon, <2>1 DEF Init
  <2> QED
    BY <1>2, <2>1, <2>2, <2>3 DEF EngineTypes
<1>4. DecoderTypes
  <2>1. present \in BOOLEAN /\ listening \in BOOLEAN /\ pulse \in BOOLEAN /\ sampled \in BOOLEAN
    BY Zenon, ProgramsAssumption DEF Init
  <2> QED
    BY <1>2, <2>1 DEF Init, DecoderTypes
<1>5. AckTypes
  BY DEF Init, AckTypes
<1> QED
  BY <1>1, <1>3, <1>4, <1>5 DEF TypeIInv

LEMMA HearsTyped ==
  ASSUME DecoderTypes, NEW p \in Packet, Hears(p), sampled' = FALSE
  PROVE  DecoderTypes'
<1>1. cv' \in CVRange
  <2>1. \A q \in ServicePacket : q.op = "write" => q.data \in CVRange
    BY DEF ServicePacket, BitPacket, VerifyPacket, WritePacket
  <2> QED
    BY <2>1 DEF Hears, DecoderTypes
<1>2. heard' \in Packet /\ times' \in 0..3
  BY DEF Hears, DecoderTypes
<1>3. listening' \in BOOLEAN
  BY Zenon DEF Hears
<1>4. pulse' \in BOOLEAN
  BY Zenon DEF Hears
<1>5. present' \in BOOLEAN /\ sampled' \in BOOLEAN
  BY Zenon DEF Hears, DecoderTypes
<1> QED
  BY <1>1, <1>2, <1>3, <1>4, <1>5 DEF DecoderTypes

LEMMA InterruptTyped ==
  ASSUME TypeIInv, Interrupt, UNCHANGED uses
  PROVE  TypeIInv'
<1>0. EngineTypes /\ DecoderTypes /\ AckTypes /\ ProgressTypes
  BY DEF TypeIInv
<1>1. /\ UNCHANGED <<railpower, progress, ProgReadMode, ack, resets, phase, program>>
      /\ sampled' = FALSE /\ PacketEnds
  BY DEF Interrupt, StartPacket, RepeatPacket, PacketEnds
<1>2. AckTypes' /\ ProgressTypes'
  BY <1>0, <1>1 DEF AckTypes, ProgressTypes, progress, ack, program, Working
<1>3. DecoderTypes'
  <2>1. CASE onAir = << >>
    <3>1. UNCHANGED decoder /\ sampled' \in BOOLEAN
      BY Zenon, <1>1, <2>1 DEF PacketEnds
    <3> QED
      BY <1>0, <3>1 DEF decoder, DecoderTypes
  <2>2. CASE onAir # << >>
    <3>1. onAir \in Packet /\ Hears(onAir)
      BY <1>0, <1>1, <2>2 DEF PacketEnds, EngineTypes
    <3> QED
      BY <1>0, <1>1, <3>1, HearsTyped
  <2> QED
    BY <2>1, <2>2
<1>4. canAcceptPacket' \in BOOLEAN
  BY Zenon, <1>0 DEF Interrupt, StartPacket, RepeatPacket, EngineTypes
<1>5. MaxRepeats \in Nat
  BY ConfigurationAssumption
<1>6. EngineTypes'
  <2>1. CASE Engine!StartNew
    <3>1. asService' \in BOOLEAN /\ service' \in BOOLEAN
      BY Zenon, <1>0, <2>1 DEF Engine!StartNew, EngineTypes
    <3>2. Head(pending) \in Packet
      BY <1>0, <2>1 DEF Engine!StartNew, EngineTypes
    <3> QED
      BY <1>4, <1>5, <2>1, <3>1, <3>2 DEF Engine!StartNew, EngineTypes
  <2>2. CASE Engine!StartDefault
    BY <1>0, <1>4, <2>2, PacketFacts DEF Engine!StartDefault, EngineTypes
  <2>3. CASE Engine!Repeat
    BY <1>0, <1>4, <1>5, <2>3 DEF Engine!Repeat, EngineTypes
  <2> QED
    BY <2>1, <2>2, <2>3 DEF Interrupt, StartPacket, RepeatPacket
<1> QED
  BY <1>2, <1>3, <1>6 DEF TypeIInv

LEMMA OutsideTyped ==
  ASSUME TypeIInv, UNCHANGED uses,
         PulseEnds \/ (\E r \in Requests : Request(r)) \/ Abort \/ Sense
  PROVE  TypeIInv'
<1>0. EngineTypes /\ DecoderTypes /\ AckTypes /\ ProgressTypes
  BY DEF TypeIInv
<1>1. CASE PulseEnds
  <2>1. pulse' \in BOOLEAN /\ sampled' \in BOOLEAN
    BY Zenon, <1>1 DEF PulseEnds
  <2>2. DecoderTypes'
    BY <1>0, <1>1, <2>1 DEF PulseEnds, DecoderTypes
  <2>3. EngineTypes' /\ AckTypes'
    BY <1>0, <1>1 DEF PulseEnds, EngineTypes, AckTypes, ack, engine
  <2>4. ProgressTypes'
    BY <1>0, <1>1 DEF PulseEnds, ProgressTypes, progress, program, Working
  <2> QED
    BY <2>2, <2>3, <2>4 DEF TypeIInv
<1>2. CASE Abort
  <2>1. EngineTypes' /\ AckTypes' /\ DecoderTypes'
    BY <1>0, <1>2 DEF Abort, EngineTypes, AckTypes, DecoderTypes, ack, engine, decoder
  <2>2. ProgressTypes'
    BY <1>0, <1>2 DEF Abort, ProgressTypes, progress, Working
  <2> QED
    BY <2>1, <2>2 DEF TypeIInv
<1>3. CASE Sense
  <2>1. sampled' \in BOOLEAN
    BY Zenon, <1>3 DEF Sense
  <2>2. EngineTypes' /\ DecoderTypes'
    BY <1>0, <1>3, <2>1 DEF Sense, EngineTypes, DecoderTypes, engine, decoder
  <2>3. AckTypes'
    BY <1>0, <1>3 DEF Sense, TakeBase, SeeRise, SeeFall, NothingToSee, Load, Measured, ack, AckTypes
  <2>4. ProgressTypes'
    BY <1>0, <1>3 DEF Sense, ProgressTypes, progress, program, Working
  <2> QED
    BY <2>2, <2>3, <2>4 DEF TypeIInv
<1>4. ASSUME NEW r \in Requests, Request(r) PROVE TypeIInv'
  <2>1. r.op \in {"read", "verify", "write"} /\ r.value \in CVRange
    BY RequestsAssumption
  <2>2. ModeOf(r) \in {"ProgModeBit", "ProgModeByte", "ProgModeByteVerify", "ProgModeWriteByte"}
    BY <2>1 DEF ModeOf
  <2>3. EngineTypes' /\ AckTypes' /\ DecoderTypes'
    BY <1>0, <1>4 DEF Request, EngineTypes, AckTypes, DecoderTypes, ack, engine, decoder
  <2>4. ProgressTypes'
    BY <1>0, <1>4, <2>1, <2>2 DEF Request, ops, ProgressTypes, Working
  <2> QED
    BY <2>3, <2>4 DEF TypeIInv
<1> QED
  BY <1>1, <1>2, <1>3, <1>4

(* What update() sends leaves the engine well-typed, and the decoder alone.  *)
LEMMA SendTyped ==
  ASSUME EngineTypes, NEW p \in Packet, FeedSend(p)
  PROVE  EngineTypes'
<1>1. canAcceptPacket' \in BOOLEAN /\ asService' \in BOOLEAN /\ service' \in BOOLEAN
  BY Zenon DEF FeedSend, Engine!Send, EngineTypes
<1> QED
  BY <1>1 DEF FeedSend, Engine!Send, EngineTypes

LEMMA FeedLeaves ==
  ASSUME DecoderTypes, Feed
  PROVE  DecoderTypes' /\ phase' = "loop" /\ ProgReadMode' = ProgReadMode
BY DEF Feed, decoder, DecoderTypes

LEMMA AnswerTyped ==
  ASSUME ProgressTypes, NEW ok, NEW value \in CVRange, NEW bit \in 0..CVBits,
         NEW mode \in {"ProgModeBit", "ProgModeByte", "ProgModeByteVerify"},
         NEW count \in 0..CV_BIT_MAX_TRY_READ, Answer(ok, mode, value, bit, count),
         phase' = "loop", ProgReadMode' = ProgReadMode, UNCHANGED uses
  PROVE  ProgressTypes'
<1>1. resets' \in Nat
  BY ConfigurationAssumption DEF Answer
<1>2. CASE asked' = << >> /\ ProgMode' = mode /\ current_cv_value' = value /\ UNCHANGED railpower
  BY <1>1, <1>2 DEF Answer, ProgressTypes, Working
<1>3. ASSUME NEW r \in Requests, ops(r),
             current_cv_value' = IF r.op = "read" THEN value ELSE r.value
      PROVE  ProgressTypes'
  <2>1. r.op \in {"read", "verify", "write"} /\ r.value \in CVRange
    BY RequestsAssumption
  <2>2. ModeOf(r) \in {"ProgModeBit", "ProgModeByte", "ProgModeByteVerify", "ProgModeWriteByte"}
    BY <2>1 DEF ModeOf
  <2> QED
    BY <1>1, <1>3, <2>1, <2>2 DEF Answer, ops, ProgressTypes, Working
<1> QED
  BY <1>2, <1>3 DEF Answer

LEMMA GoTyped ==
  ASSUME ProgressTypes, NEW value \in CVRange, NEW bit \in 0..CVBits,
         NEW state \in {"ProgStart", "ProgBitRead", "ProgVerifyCV"},
         NEW mode \in {"ProgModeBit", "ProgModeBitVerify", "ProgModeByte"},
         NEW count \in 0..CV_BIT_MAX_TRY_READ, Go(state, mode, value, bit, count),
         state = "ProgBitRead" => mode = "ProgModeBit" /\ bit < CVBits /\ value < 2^bit,
         state = "ProgVerifyCV" => mode # "ProgModeBit",
         state # "ProgStart" => count < CV_BIT_MAX_TRY_READ,
         phase' = "loop", ProgReadMode' = ProgReadMode, UNCHANGED uses
  PROVE  ProgressTypes'
<1>1. resets' \in Nat
  BY ConfigurationAssumption DEF Go
<1> QED
  BY <1>1 DEF Go, ProgressTypes, program, Working

LEMMA AckTyped ==
  ASSUME TypeIInv, ACKRead, UNCHANGED uses
  PROVE  TypeIInv'
<1>0. EngineTypes /\ DecoderTypes /\ AckTypes /\ ProgressTypes
  BY DEF TypeIInv
<1>1. EngineTypes'
  BY <1>0, PacketFacts, SendTyped DEF ACKRead
<1>2. DecoderTypes' /\ phase' = "loop" /\ ProgReadMode' = ProgReadMode
  BY <1>0, FeedLeaves DEF ACKRead, FeedSend
<1>3. AckTypes'
  BY DEF ACKRead, AckTypes
<1>4. /\ current_cv_value \in CVRange /\ current_cv_bit \in 0..CVBits /\ CVBits \in Nat \ {0}
      /\ cv_read_count \in 0..CV_BIT_MAX_TRY_READ /\ CV_BIT_MAX_TRY_READ \in Nat \ {0}
      /\ cv_read_count < CV_BIT_MAX_TRY_READ /\ 0 \in CVRange
      /\ ProgState = "ProgACKRead"
  BY <1>0, ConfigurationAssumption, Values DEF ProgressTypes, ACKRead, InState, Working
<1> DEFINE tries == cv_read_count + 1
           next == (current_cv_value + 1) % 2^CVBits
<1>5. tries \in 0..CV_BIT_MAX_TRY_READ /\ next \in CVRange
  BY <1>4, Values
<1> HIDE DEF next
<1>6. ASSUME AckOfBit PROVE ProgressTypes'
  <2> DEFINE value == IF Acked THEN current_cv_value + 2^current_cv_bit ELSE current_cv_value
             bit == current_cv_bit + 1
  <2>1. current_cv_bit < CVBits /\ current_cv_value < 2^current_cv_bit
    BY <1>0, <1>4, <1>6 DEF ProgressTypes, AckOfBit
  <2>2. bit \in 0..CVBits /\ 2^bit = 2 * 2^current_cv_bit /\ 2^bit \in Nat /\ 2^bit <= 2^CVBits
        /\ 2^current_cv_bit \in Nat
    BY <1>4, <2>1, PowersOfTwo
  <2>3. value \in Int /\ 0 <= value /\ value < 2^bit /\ value \in CVRange
    BY <1>4, <2>1, <2>2, Values
  <2>4. \/ bit < CVBits /\ Go("ProgBitRead", "ProgModeBit", value, bit, cv_read_count)
        \/ Go("ProgVerifyCV", "ProgModeBitVerify", value, bit, cv_read_count)
    BY <1>6 DEF AckOfBit
  <2> HIDE DEF value, bit
  <2> QED
    BY <1>0, <1>2, <1>4, <2>2, <2>3, <2>4, GoTyped
<1>7. ASSUME AckOfValueRead PROVE ProgressTypes'
  <2>1. \/ Answer(TRUE, "ProgModeBit", current_cv_value, 0, cv_read_count)
        \/ Answer(FALSE, "ProgModeBit", 0, 0, tries)
        \/ tries # CV_BIT_MAX_TRY_READ /\ Go("ProgBitRead", "ProgModeBit", 0, 0, tries)
        \/ Go("ProgStart", "ProgModeByte", 0, 0, tries)
    BY <1>7 DEF AckOfValueRead
  <2>2. 0 < 2^0 /\ 0 \in 0..CVBits
    BY <1>4, PowersOfTwo
  <2>3. CASE \/ Answer(TRUE, "ProgModeBit", current_cv_value, 0, cv_read_count)
             \/ Answer(FALSE, "ProgModeBit", 0, 0, tries)
    <3> HIDE DEF tries
    <3> QED
      BY <1>0, <1>2, <1>4, <1>5, <2>2, <2>3, AnswerTyped
  <2>4. CASE tries # CV_BIT_MAX_TRY_READ /\ Go("ProgBitRead", "ProgModeBit", 0, 0, tries)
    <3>1. tries < CV_BIT_MAX_TRY_READ /\ 0 < CVBits
      BY <1>4, <1>5, <2>4
    <3> DEFINE bit == 0
    <3>2. bit \in 0..CVBits /\ bit < CVBits /\ 0 < 2^bit
      BY <2>2, <3>1
    <3>3. Go("ProgBitRead", "ProgModeBit", 0, bit, tries)
      BY <2>4
    <3> HIDE DEF tries, bit
    <3> QED
      BY <1>0, <1>2, <1>4, <1>5, <3>1, <3>2, <3>3, GoTyped
  <2>5. CASE Go("ProgStart", "ProgModeByte", 0, 0, tries)
    <3> HIDE DEF tries
    <3> QED
      BY <1>0, <1>2, <1>4, <1>5, <2>2, <2>5, GoTyped
  <2> QED
    BY <2>1, <2>3, <2>4, <2>5
<1>8. ASSUME AckOfVerify PROVE ProgressTypes'
  <2>1. ProgMode = "ProgModeByteVerify"
        /\ Answer(Acked, ProgMode, current_cv_value, current_cv_bit, cv_read_count)
    BY <1>8 DEF AckOfVerify
  <2> QED
    BY <1>0, <1>2, <1>4, <2>1, AnswerTyped
<1>9. ASSUME AckOfByte PROVE ProgressTypes'
  <2>1. /\ ProgMode = "ProgModeByte"
        /\ \/ Answer(TRUE, ProgMode, current_cv_value, current_cv_bit, cv_read_count)
           \/ Answer(FALSE, ProgMode, next, current_cv_bit, tries)
           \/ Go("ProgVerifyCV", ProgMode, next, current_cv_bit, cv_read_count)
           \/ Go("ProgStart", ProgMode, next, current_cv_bit, tries)
    BY <1>9 DEF AckOfByte, next
  <2> HIDE DEF tries
  <2>2. CASE \/ Answer(TRUE, ProgMode, current_cv_value, current_cv_bit, cv_read_count)
             \/ Answer(FALSE, ProgMode, next, current_cv_bit, tries)
    BY <1>0, <1>2, <1>4, <1>5, <2>1, <2>2, AnswerTyped
  <2>3. CASE \/ Go("ProgVerifyCV", ProgMode, next, current_cv_bit, cv_read_count)
             \/ Go("ProgStart", ProgMode, next, current_cv_bit, tries)
    BY <1>0, <1>2, <1>4, <1>5, <2>1, <2>3, GoTyped
  <2> QED
    BY <2>1, <2>2, <2>3
<1>10. ProgressTypes'
  BY <1>6, <1>7, <1>8, <1>9 DEF ACKRead
<1> QED
  BY <1>1, <1>2, <1>3, <1>10 DEF TypeIInv

LEMMA FeedTyped ==
  ASSUME TypeIInv, update, UNCHANGED uses
  PROVE  TypeIInv'
<1>0. EngineTypes /\ DecoderTypes /\ AckTypes /\ ProgressTypes
  BY DEF TypeIInv
<1>1. Feed /\ DecoderTypes' /\ phase' = "loop" /\ ProgReadMode' = ProgReadMode
  BY <1>0, FeedLeaves
  DEF update, FeedNothing, FeedReset, FeedSend, FeedNormal, Start, BitRead, VerifyCV, WriteByte,
      ACKRead, End
<1>2. {Idle, Reset} \subseteq Packet
  BY PacketFacts
<1>3. CASE FeedNothing
  BY <1>0, <1>1, <1>3 DEF FeedNothing, TypeIInv, EngineTypes, AckTypes, ProgressTypes, engine,
     ack, progress, program, Working
<1>4. CASE FeedReset
  <2>1. EngineTypes'
    BY <1>0, <1>2, <1>4, SendTyped DEF FeedReset
  <2> QED
    BY <1>0, <1>1, <1>4, <2>1 DEF FeedReset, TypeIInv, AckTypes, ProgressTypes, ack, progress,
       program, Working
<1>5. CASE FeedNormal
  <2>1. canAcceptPacket' \in BOOLEAN /\ asService' \in BOOLEAN /\ service' \in BOOLEAN
    BY Zenon, <1>5 DEF FeedNormal
  <2>2. MaxRepeats \in Nat
    BY ConfigurationAssumption
  <2>3. EngineTypes'
    BY <1>0, <1>2, <1>5, <2>1, <2>2 DEF FeedNormal, EngineTypes
  <2> QED
    BY <1>0, <1>1, <1>5, <2>3 DEF FeedNormal, TypeIInv, AckTypes, ProgressTypes, ack, progress,
       program, Working
<1>6. CASE Start
  <2>1. canAcceptPacket' \in BOOLEAN /\ asService' \in BOOLEAN /\ service' \in BOOLEAN
    BY Zenon, <1>6 DEF Start
  <2>2. EngineTypes'
    BY <1>0, <1>2, <1>6, <2>1 DEF Start, EngineTypes
  <2>3. /\ RSTsRepeat - 1 \in Nat /\ CVBits \in Nat \ {0} /\ 0 < 2^0
        /\ CV_BIT_MAX_TRY_READ \in Nat \ {0} /\ 0 \in CVRange
    BY ConfigurationAssumption, PowersOfTwo, Values
  <2>4. /\ current_cv_value' \in CVRange
        /\ ProgMode \in {"ProgModeBit", "ProgModeByte"} => current_cv_value' = 0
    BY <1>0, <1>6, <2>3 DEF Start, ProgressTypes
  <2>5. /\ ProgState' \in {"ProgBitRead", "ProgWriteByte", "ProgVerifyCV"}
        /\ ProgState' = "ProgBitRead" => ProgMode = "ProgModeBit"
        /\ ProgState' = "ProgVerifyCV" => ProgMode # "ProgModeBit"
        /\ ProgState' = "ProgWriteByte" => ProgMode = "ProgModeWriteByte"
    BY <1>6 DEF Start
  <2>6. /\ ProgMode' = ProgMode /\ current_cv_bit' = 0 /\ cv_read_count' = 0
        /\ resets' = RSTsRepeat - 1 /\ LASTVAmpSence' = 0
        /\ UNCHANGED <<railpower, current_ack_status, asked>>
    BY <1>6 DEF Start, program
  <2>7. current_cv_bit' < CVBits /\ 0 < 2^current_cv_bit' /\ current_cv_bit' \in 0..CVBits
    BY <2>3, <2>6
  <2>8. ProgressTypes'
    BY <1>0, <1>1, <2>3, <2>4, <2>5, <2>6, <2>7 DEF ProgressTypes, Working
  <2>9. AckTypes'
    BY <1>0, <2>6 DEF AckTypes
  <2> QED
    BY <1>1, <2>2, <2>8, <2>9 DEF TypeIInv
<1>7. CASE BitRead
  <2>1. BitPacket(current_cv_bit) \in Packet
    BY <1>0, <1>7, PacketFacts, ConfigurationAssumption DEF BitRead, InState, ProgressTypes
  <2>2. EngineTypes'
    BY <1>0, <1>7, <2>1, SendTyped DEF BitRead
  <2> QED
    BY <1>0, <1>1, <1>7, <2>2 DEF BitRead, InState, TypeIInv, AckTypes, ProgressTypes, ack,
       program, Working
<1>8. CASE VerifyCV
  <2>1. VerifyPacket(current_cv_value) \in Packet
    BY <1>0, PacketFacts DEF ProgressTypes
  <2>2. EngineTypes'
    BY <1>0, <1>8, <2>1, SendTyped DEF VerifyCV
  <2> QED
    BY <1>0, <1>1, <1>8, <2>2 DEF VerifyCV, InState, TypeIInv, AckTypes, ProgressTypes, ack,
       program, Working
<1>9. CASE WriteByte
  <2>1. WritePacket(current_cv_value) \in Packet
    BY <1>0, PacketFacts DEF ProgressTypes
  <2>2. EngineTypes'
    BY <1>0, <1>9, <2>1, SendTyped DEF WriteByte
  <2> QED
    BY <1>0, <1>1, <1>9, <2>2 DEF WriteByte, InState, TypeIInv, AckTypes, ProgressTypes, ack,
       program, Working
<1>10. CASE End
  <2>1. canAcceptPacket' \in BOOLEAN /\ asService' \in BOOLEAN /\ service' \in BOOLEAN
    BY Zenon, <1>0, <1>10 DEF End, Engine!Leave, EngineTypes
  <2>2. MaxRepeats \in Nat
    BY ConfigurationAssumption
  <2>3. EngineTypes'
    BY <1>0, <1>10, <2>1, <2>2 DEF End, Engine!Leave, EngineTypes
  <2> QED
    BY <1>0, <1>1, <1>10, <2>3 DEF End, TypeIInv, AckTypes, ProgressTypes, ack, progress,
       program, Working
<1> QED
  BY <1>3, <1>4, <1>5, <1>6, <1>7, <1>8, <1>9, <1>10, AckTyped DEF update

LEMMA NextTypeIInv ==
  ASSUME TypeIInv, [Next]_vars
  PROVE  TypeIInv'
<1>1. CASE UNCHANGED vars
  BY <1>1 DEF vars, device, progress, ack, engine, decoder, program, TypeIInv, EngineTypes,
     DecoderTypes, AckTypes, ProgressTypes, Working
<1> QED
  BY <1>1, InterruptTyped, OutsideTyped, FeedTyped DEF Next

(* The variables of CV programming keep their types, for any sizes of the     *)
(* CV, any number of resets and repeats, and programs that do what they like: *)
(* the value put together from single bits stays in a byte, the bit in it.   *)
THEOREM ServiceTypeOK == Spec => []TypeOK
<1>1. Spec => []TypeIInv
  BY InitTypeIInv, NextTypeIInv, PTL DEF Spec
<1> QED
  BY <1>1, TypesAreOK, PTL

-----------------------------------------------------------------------------
(* Which steps change what.                                                 *)
LEMMA OnlyInterrupts ==
  ASSUME Next, ~Interrupt, ~PulseEnds
  PROVE  UNCHANGED decoder
BY DEF Next, Request, Abort, Sense, update, FeedNothing, FeedReset, FeedSend, FeedNormal, Start,
   BitRead, VerifyCV, WriteByte, ACKRead, End, Feed

LEMMA InterruptUnchanged ==
  ASSUME Interrupt
  PROVE  /\ UNCHANGED <<railpower, ProgState, ProgMode, current_cv_value, current_cv_bit,
                        LASTVAmpSence, current_ack_status, resets, phase, asked, told, service>>
         /\ ~pulse /\ (FastLoop => sampled) /\ sampled' = FALSE
         /\ IF onAir = << >> THEN UNCHANGED decoder ELSE Hears(onAir)
BY DEF Interrupt, StartPacket, RepeatPacket, PacketEnds, progress, ack, program,
   Engine!StartNew, Engine!StartDefault, Engine!Repeat

(* The decoder changes its CV only when it hears a packet that writes.      *)
LEMMA HearsLeaves ==
  ASSUME NEW p, Hears(p)
  PROVE  /\ heard' = p /\ present' = present
         /\ p.op # "write" => cv' = cv
         /\ cv' = cv \/ (cv' = p.data /\ p.op = "write")
BY DEF Hears

LEMMA NextPacketInv ==
  ASSUME TypeIInv, PacketInv, ~AcceptEarly, [Next]_vars
  PROVE  PacketInv'
<1>0. EngineTypes /\ MaxRepeats \in Nat \ {0}
  BY ConfigurationAssumption DEF TypeIInv
<1>1. CASE UNCHANGED <<canAcceptPacket, engine, heard>>
  BY <1>1 DEF PacketInv, engine
<1>2. CASE Interrupt
  <2>1. CASE StartPacket /\ Engine!StartNew
    <3>1. PICK p \in Packet : pending = <<p>> /\ Head(pending) = p
      BY <1>0, <2>1 DEF EngineTypes, Engine!StartNew
    <3> QED
      BY <1>0, <2>1, <3>1 DEF PacketInv, StartPacket, Engine!StartNew, EngineTypes
  <2>2. CASE StartPacket /\ Engine!StartDefault
    BY <1>0, <2>2 DEF PacketInv, StartPacket, Engine!StartDefault, EngineTypes
  <2>3. CASE RepeatPacket
    <3>1. repeats > 0 /\ onAir \in ServicePacket /\ pending = << >> /\ ~canAcceptPacket
      BY <1>0, <2>3 DEF PacketInv, RepeatPacket, Engine!Repeat, EngineTypes
    <3>2. heard' = onAir
      BY <1>2, <3>1, InterruptUnchanged, PacketFacts, HearsLeaves
    <3> QED
      BY <1>0, <2>3, <3>1, <3>2 DEF PacketInv, RepeatPacket, Engine!Repeat, EngineTypes
  <2> QED
    BY <1>2, <2>1, <2>2, <2>3 DEF Interrupt, StartPacket
<1>3. ASSUME NEW p \in Packet, FeedSend(p) PROVE PacketInv'
  <2>1. heard' = heard /\ pending' # << >> /\ Head(pending') = p
    BY <1>3 DEF FeedSend, Feed, decoder, Engine!Send
  <2>2. repeats = 0 /\ repeats' = 0 /\ ~canAcceptPacket'
    BY <1>3 DEF FeedSend, PacketInv, Engine!Send
  <2>3. asService' => p \in ServicePacket
    BY <1>3 DEF FeedSend, Engine!Send
  <2> QED
    BY <1>0, <2>1, <2>2, <2>3 DEF PacketInv
<1>4. CASE FeedNormal
  BY <1>0, <1>4 DEF FeedNormal, PacketInv
<1>5. CASE Start
  <2>1. repeats = 0 /\ repeats' = 0 /\ ~canAcceptPacket' /\ ~asService'
    BY <1>5 DEF Start, PacketInv
  <2> QED
    BY <1>0, <2>1 DEF PacketInv
<1>6. CASE End
  BY <1>0, <1>6 DEF End, PacketInv, Engine!Leave
<1>7. {Idle, Reset} \subseteq Packet
  BY PacketFacts
<1>8. CASE BitRead
  <2>1. BitPacket(current_cv_bit) \in Packet
    BY <1>8, PacketFacts, ConfigurationAssumption DEF BitRead, InState, TypeIInv, ProgressTypes
  <2> QED
    BY <1>3, <1>8, <2>1 DEF BitRead
<1>9. CASE VerifyCV \/ WriteByte
  <2>1. VerifyPacket(current_cv_value) \in Packet /\ WritePacket(current_cv_value) \in Packet
    BY PacketFacts DEF TypeIInv, ProgressTypes
  <2> QED
    BY <1>3, <1>9, <2>1 DEF VerifyCV, WriteByte
<1>10. CASE FeedReset \/ ACKRead
  BY <1>3, <1>7, <1>10 DEF FeedReset, ACKRead
<1>11. CASE PulseEnds \/ (\E r \in Requests : Request(r)) \/ Abort \/ Sense \/ FeedNothing
  BY <1>1, <1>11 DEF PulseEnds, Request, Abort, Sense, FeedNothing, Feed, decoder
<1>12. CASE UNCHANGED vars
  BY <1>1, <1>12 DEF vars, device, decoder
<1> QED
  BY <1>2, <1>4, <1>5, <1>6, <1>8, <1>9, <1>10, <1>11, <1>12 DEF Next, update

LEMMA NextPulseInv ==
  ASSUME TypeIInv, PacketInv, PulseInv, [Next]_vars
  PROVE  PulseInv'
<1>1. CASE UNCHANGED decoder
  BY <1>1 DEF PulseInv, decoder, Answers, BitOf
<1>2. CASE PulseEnds
  BY <1>2 DEF PulseEnds, PulseInv
<1>3. CASE Interrupt
  <2>1. CASE onAir = << >>
    BY <1>1, <1>3, <2>1, InterruptUnchanged
  <2>2. ASSUME onAir # << >>, pulse' PROVE PulseInv'
    <3>1. /\ present /\ onAir \in ServicePacket /\ Answers(onAir)
          /\ heard' = onAir /\ present' = present
          /\ cv' = IF onAir.op = "write" THEN onAir.data ELSE cv
      BY <1>3, <2>2, InterruptUnchanged DEF Hears
    <3>2. CASE onAir.op = "write"
      BY <3>1, <3>2 DEF PulseInv, Answers
    <3>3. CASE onAir.op # "write"
      <4>1. cv' = cv
        BY <3>1, <3>3
      <4>2. Answers(heard)' <=> Answers(onAir)
        BY <3>1, <4>1 DEF Answers, BitOf
      <4> QED
        BY <3>1, <3>3, <4>2 DEF PulseInv
    <3> QED
      BY <3>2, <3>3
  <2> QED
    BY <2>1, <2>2 DEF PulseInv
<1> QED
  BY <1>1, <1>2, <1>3, OnlyInterrupts DEF vars, device

(* A packet may be sent when the last one is on the rails.                  *)
LEMMA AcceptedOnRails ==
  ASSUME PacketInv, SentInv, canAcceptPacket, railpower = "SERVICE"
  PROVE  /\ pending = << >> /\ repeats = 0
         /\ ProgState \in {"ProgBitRead", "ProgWriteByte"} => onAir = Reset
         /\ ProgState = "ProgVerifyCV" => onAir \in {Reset, TheWrite}
         /\ ProgState = "ProgACKRead" => onAir \in {Reset, TheTest}
<1>1. pending = << >> /\ repeats = 0
  BY DEF PacketInv
<1>2. \A p : pending # <<p>>
  BY <1>1
<1> QED
  BY <1>1, <1>2 DEF SentInv, Working

(* How ProgACKRead goes on.                                                 *)
LEMMA AckGoesOn ==
  ASSUME ACKRead
  PROVE  /\ pending' = <<Reset>> /\ pending' # << >> /\ Head(pending') = Reset
         /\ asService' = (service /\ Reset \in ServicePacket)
         /\ UNCHANGED <<onAir, repeats, service, decoder, sampled>>
         /\ LASTVAmpSence' = 0 /\ current_ack_status' = "NON_PROG_OP"
         /\ canAcceptPacket /\ resets = 0 /\ railpower = "SERVICE" /\ ProgState = "ProgACKRead"
         /\ \/ /\ ProgState' \in {"ProgStart", "ProgBitRead", "ProgVerifyCV"}
               /\ UNCHANGED <<railpower, program>>
            \/ /\ ProgState' = "ProgEnde" /\ asked' = << >> /\ UNCHANGED railpower
               /\ \E ok, value : told' = <<[ok |-> ok, value |-> value, of |-> asked]>>
            \/ /\ ProgState' = "ProgEnde" /\ told' = << >> /\ railpower' = "SERVICE"
               /\ \E r : asked' = <<r>>
<1> DEFINE Goes == \/ /\ ProgState' \in {"ProgStart", "ProgBitRead", "ProgVerifyCV"}
                      /\ UNCHANGED <<railpower, program>>
                   \/ /\ ProgState' = "ProgEnde" /\ asked' = << >> /\ UNCHANGED railpower
                      /\ \E ok, value :
                           told' = <<[ok |-> ok, value |-> value, of |-> asked]>>
                   \/ /\ ProgState' = "ProgEnde" /\ told' = << >> /\ railpower' = "SERVICE"
                      /\ \E r : asked' = <<r>>
<1>1. ASSUME NEW state \in {"ProgStart", "ProgBitRead", "ProgVerifyCV"}, NEW mode, NEW value,
             NEW bit, NEW count, Go(state, mode, value, bit, count)
      PROVE  Goes
  BY <1>1 DEF Go
<1>2. ASSUME NEW ok \in BOOLEAN, NEW mode, NEW value, NEW bit, NEW count,
             Answer(ok, mode, value, bit, count)
      PROVE  Goes
  BY <1>2 DEF Answer, ops
<1>3. Acked \in BOOLEAN
  BY Zenon DEF Acked
<1> HIDE DEF Goes
<1>4. Goes
  <2>1. CASE AckOfBit
    BY <1>1, <2>1 DEF AckOfBit
  <2>2. CASE AckOfValueRead
    BY <1>1, <1>2, <2>2 DEF AckOfValueRead
  <2>3. CASE AckOfVerify
    BY <1>2, <1>3, <2>3 DEF AckOfVerify
  <2>4. CASE AckOfByte
    BY <1>1, <1>2, <2>4 DEF AckOfByte
  <2> QED
    BY <2>1, <2>2, <2>3, <2>4 DEF ACKRead
<1> QED
  BY <1>4 DEF ACKRead, FeedSend, Feed, Engine!Send, InState, Goes

LEMMA NextSentInv ==
  ASSUME TypeIInv, PacketInv, SentInv, [Next]_vars
  PROVE  SentInv'
<1> USE DEF TheWrite, TheVerify
<1>0. EngineTypes /\ ProgressTypes
  BY DEF TypeIInv
<1>1. CASE UNCHANGED <<railpower, ProgState, ProgMode, current_cv_value, current_cv_bit, resets,
                       service, pending, asService, onAir>>
  BY <1>1 DEF SentInv, TheTest
<1>2. CASE Interrupt
  <2>1. UNCHANGED <<railpower, ProgState, ProgMode, current_cv_value, current_cv_bit, resets,
                    service>>
    BY <1>2, InterruptUnchanged
  <2>2. CASE Engine!StartNew
    <3>1. pending' = << >> /\ onAir' = Head(pending) /\ pending # << >>
      BY <2>2 DEF Engine!StartNew
    <3>2. \A p : pending = <<p>> => onAir' = p
      BY <3>1
    <3> QED
      BY <2>1, <3>1, <3>2 DEF SentInv, TheTest
  <2>3. CASE Engine!StartDefault
    BY <2>1, <2>3 DEF SentInv, TheTest, Working, Engine!StartDefault
  <2>4. CASE Engine!Repeat
    BY <2>1, <2>4 DEF SentInv, TheTest, Engine!Repeat
  <2> QED
    BY <1>2, <2>2, <2>3, <2>4 DEF Interrupt, StartPacket, RepeatPacket
<1>3. CASE PulseEnds \/ Sense \/ FeedNothing
  BY <1>1, <1>3 DEF PulseEnds, Sense, FeedNothing, progress, engine
<1>4. ASSUME NEW r \in Requests, Request(r) PROVE SentInv'
  BY <1>4 DEF Request, SentInv, Working
<1>5. CASE Abort
  BY <1>5 DEF Abort, SentInv
<1>6. CASE FeedReset
  BY <1>6 DEF FeedReset, FeedSend, Engine!Send, SentInv, progress
<1>7. CASE FeedNormal
  BY <1>7 DEF FeedNormal, SentInv
<1>8. CASE Start
  BY <1>0, <1>8 DEF Start, SentInv, Working, ProgressTypes
<1>9. CASE BitRead
  <2> DEFINE p == BitPacket(current_cv_bit)
  <2>1. railpower = "SERVICE" /\ ProgState = "ProgBitRead" /\ resets = 0 /\ canAcceptPacket
        /\ ProgMode = "ProgModeBit"
    BY <1>0, <1>9 DEF BitRead, InState, FeedSend, ProgressTypes
  <2>2. service /\ onAir = Reset
    BY <2>1, AcceptedOnRails DEF SentInv, Working
  <2>3. p \in ServicePacket
    BY <1>0, <2>1, PacketFacts, ConfigurationAssumption DEF ProgressTypes
  <2>4. /\ pending' = <<p>> /\ asService' /\ onAir' = onAir /\ service'
        /\ ProgState' = "ProgACKRead" /\ UNCHANGED <<resets, ProgMode, current_cv_bit>>
    BY <1>9, <2>2, <2>3 DEF BitRead, FeedSend, Engine!Send
  <2> QED
    BY <2>1, <2>2, <2>4 DEF SentInv, TheTest
<1>10. CASE VerifyCV
  <2>1. railpower = "SERVICE" /\ ProgState = "ProgVerifyCV" /\ resets = 0 /\ canAcceptPacket
    BY <1>10 DEF VerifyCV, InState, FeedSend
  <2>2. service /\ onAir \in {Reset, TheWrite}
    BY <2>1, AcceptedOnRails DEF SentInv, Working
  <2>3. TheVerify \in ServicePacket
    BY <1>0, PacketFacts DEF ProgressTypes
  <2>4. /\ pending' = <<TheVerify>> /\ asService' /\ onAir' = onAir /\ service'
        /\ ProgState' = "ProgACKRead" /\ UNCHANGED <<resets, ProgMode, current_cv_value>>
    BY <1>10, <2>2, <2>3 DEF VerifyCV, FeedSend, Engine!Send
  <2>5. ProgMode # "ProgModeBit"
    BY <1>0, <2>1 DEF ProgressTypes
  <2> QED
    BY <2>1, <2>2, <2>4, <2>5 DEF SentInv, TheTest
<1>11. CASE WriteByte
  <2>1. railpower = "SERVICE" /\ ProgState = "ProgWriteByte" /\ resets = 0 /\ canAcceptPacket
    BY <1>11 DEF WriteByte, InState, FeedSend
  <2>2. service /\ onAir = Reset
    BY <2>1, AcceptedOnRails DEF SentInv, Working
  <2>3. TheWrite \in ServicePacket
    BY <1>0, PacketFacts DEF ProgressTypes
  <2>4. /\ pending' = <<TheWrite>> /\ asService' /\ onAir' = onAir /\ service'
        /\ ProgState' = "ProgVerifyCV" /\ UNCHANGED <<resets, current_cv_value>>
    BY <1>11, <2>2, <2>3 DEF WriteByte, FeedSend, Engine!Send
  <2> QED
    BY <2>1, <2>2, <2>4 DEF SentInv
<1>12. CASE ACKRead
  <2>1. service
    BY <1>12, AckGoesOn DEF SentInv, Working
  <2>2. service' /\ pending' = <<Reset>>
        /\ ProgState' \in {"ProgStart", "ProgBitRead", "ProgVerifyCV", "ProgEnde"}
    BY <1>12, <2>1, AckGoesOn
  <2> QED
    BY <2>2 DEF SentInv
<1>13. CASE End
  BY <1>13 DEF End, SentInv
<1>14. CASE UNCHANGED vars
  BY <1>1, <1>14 DEF vars, device, progress, engine
<1> QED
  BY <1>2, <1>3, <1>4, <1>5, <1>6, <1>7, <1>8, <1>9, <1>10, <1>11, <1>12, <1>13, <1>14
  DEF Next, update

(* A rise is a pulse, or the base was set to 0; after the latter no fall is   *)
(* seen.                                                                     *)
LEMMA SenseCredit ==
  ASSUME TypeIInv, PacketInv, PulseInv, Credit, Sense,
         repeats > 0 /\ repeats < MaxRepeats => heard \in {TheWrite, TheVerify}
  PROVE  Credit'
<1>0. /\ LASTVAmpSence \in {0, QuietLoad, PulseLoad} /\ repeats \in 0..MaxRepeats
      /\ MaxRepeats \in Nat \ {0} /\ pulse \in BOOLEAN
      /\ QuietLoad \in Nat /\ PulseLoad \in Nat /\ ACK_SENSE_VALUE \in Nat
      /\ PulseLoad > QuietLoad + ACK_SENSE_VALUE
  BY ConfigurationAssumption DEF TypeIInv, AckTypes, EngineTypes, DecoderTypes
<1>1. UNCHANGED <<present, cv, current_cv_value>>
  BY DEF Sense, progress, decoder
<1>2. Evidence' <=> Evidence
  BY <1>1 DEF Evidence
<1>3. CASE TakeBase
  BY <1>3 DEF TakeBase, Credit
<1>4. CASE SeeRise
  <2>1. repeats > 0 /\ repeats < MaxRepeats /\ AboveBase
    BY <1>0, <1>4 DEF SeeRise, isServiceModeRepeating, isFirstServiceModePacket
  <2>2. CASE pulse
    <3>1. Evidence
      BY <2>1, <2>2, PacketFields DEF PulseInv, Answers, Evidence, TheWrite, TheVerify
    <3> QED
      BY <1>2, <3>1 DEF Credit
  <2>3. CASE ~pulse
    <3>1. LASTVAmpSence = 0 /\ QuietLoad > ACK_SENSE_VALUE
      BY <1>0, <2>1, <2>3 DEF AboveBase, Load
    <3> QED
      BY <1>4, <3>1 DEF SeeRise, Credit
  <2> QED
    BY <1>0, <2>2, <2>3
<1>5. CASE SeeFall
  <2>1. current_ack_status = "ACK_DETECTED" /\ ~AboveBase
    BY <1>5 DEF SeeFall
  <2>2. Evidence
    BY <1>0, <2>1 DEF Credit, AboveBase, Load
  <2> QED
    BY <1>2, <2>2 DEF Credit
<1>6. CASE UNCHANGED ack
  BY <1>2, <1>6 DEF ack, Credit
<1> QED
  BY <1>3, <1>4, <1>5, <1>6 DEF Sense, NothingToSee

(* What was seen stays true while no other value is written.                *)
LEMMA CreditStays ==
  ASSUME Credit, Interrupt, onAir \in {Reset, TheWrite, TheVerify}
  PROVE  Credit'
<1>1. UNCHANGED <<current_cv_value, LASTVAmpSence, current_ack_status>>
  BY InterruptUnchanged
<1>2. present' = present /\ (cv' = cv \/ cv' = current_cv_value)
  <2>1. CASE onAir = << >>
    BY <2>1, InterruptUnchanged DEF decoder
  <2>2. CASE onAir # << >>
    BY <2>2, InterruptUnchanged, HearsLeaves, PacketFacts, PacketFields DEF TheWrite, TheVerify
  <2> QED
    BY <2>1, <2>2
<1> QED
  BY <1>1, <1>2 DEF Credit, Evidence

LEMMA NextFastInv ==
  ASSUME TypeIInv, PacketInv, PulseInv, SentInv, FastInv, FastLoop, ~AcceptEarly, [Next]_vars
  PROVE  FastInv'
<1> DEFINE Waiting == railpower = "SERVICE" /\ ProgState = "ProgACKRead" /\ ProgMode # "ProgModeBit"
           First == onAir = TheVerify /\ repeats = MaxRepeats
<1>0. SUFFICES ASSUME Waiting', pending' = << >>, ~(First' /\ ~sampled') PROVE Credit'
  BY DEF FastInv
<1>1. CASE Interrupt
  <2>1. UNCHANGED <<railpower, ProgState, ProgMode, current_cv_value>> /\ sampled /\ ~sampled'
    BY <1>1, InterruptUnchanged
  <2>2. Waiting
    BY <1>0, <2>1
  <2>3. CASE Engine!StartNew
    <3>1. pending = <<TheVerify>> /\ asService /\ Head(pending) = TheVerify
      BY <2>2, <2>3 DEF SentInv, TheTest, Engine!StartNew
    <3>2. First'
      BY <2>1, <2>3, <3>1 DEF Engine!StartNew, TheVerify
    <3> QED
      BY <1>0, <2>1, <3>2
  <2>4. CASE Engine!StartDefault \/ Engine!Repeat
    <3>1. pending = << >>
      BY <1>0, <2>4 DEF Engine!StartDefault, Engine!Repeat
    <3>2. \A p : pending # <<p>>
      BY <3>1
    <3>3. Credit /\ onAir \in {Reset, TheVerify}
      BY <2>1, <2>2, <3>1, <3>2 DEF FastInv, SentInv, TheTest
    <3> QED
      BY <1>1, <3>3, CreditStays
  <2> QED
    BY <1>1, <2>3, <2>4 DEF Interrupt, StartPacket, RepeatPacket
<1>2. CASE PulseEnds
  BY <1>0, <1>2 DEF PulseEnds, FastInv, Credit, Evidence, progress, ack, engine, TheVerify
<1>3. CASE Sense
  <2>1. Waiting /\ pending = << >>
    BY <1>0, <1>3 DEF Sense, progress, engine
  <2>2. \A p : pending # <<p>>
    BY <2>1
  <2>3. onAir \in {Reset, TheVerify} /\ service
    BY <2>1, <2>2 DEF SentInv, TheTest, Working
  <2>4. CASE First
    <3>1. repeats > 0
      BY <2>4, ConfigurationAssumption
    <3>2. current_ack_status' = "WAIT_FOR_ACK"
      BY <1>3, <2>3, <2>4, <3>1 DEF Sense, TakeBase, SeeRise, SeeFall, NothingToSee, ack,
         isServiceModeRepeating, isFirstServiceModePacket
    <3> QED
      BY <3>2 DEF Credit
  <2>5. CASE ~First
    <3>1. Credit
      BY <2>1, <2>5 DEF FastInv
    <3>2. repeats > 0 /\ repeats < MaxRepeats => heard \in {TheWrite, TheVerify}
      BY <2>3, PacketFacts DEF PacketInv
    <3> QED
      BY <1>3, <3>1, <3>2, SenseCredit
  <2> QED
    BY <2>4, <2>5
<1>4. CASE FeedNothing \/ UNCHANGED vars
  <2>1. UNCHANGED <<railpower, ProgState, ProgMode, current_cv_value, pending, onAir, repeats,
                    sampled, present, cv, LASTVAmpSence, current_ack_status>>
    BY <1>4 DEF FeedNothing, Feed, progress, ack, engine, decoder, vars, device
  <2> QED
    BY <1>0, <2>1 DEF FastInv, Credit, Evidence, TheVerify
<1>5. ASSUME NEW r \in Requests, Request(r) PROVE FALSE
  BY <1>0, <1>5 DEF Request
<1>6. ~Abort /\ ~End /\ ~FeedNormal
  BY <1>0 DEF Abort, End, FeedNormal
<1>7. ~FeedReset /\ ~VerifyCV /\ ~ACKRead
  BY <1>0, AckGoesOn DEF FeedReset, VerifyCV, FeedSend, Engine!Send
<1>8. ~Start /\ ~WriteByte
  BY <1>0 DEF Start, WriteByte
<1>9. ~BitRead
  BY <1>0 DEF BitRead, InState, TypeIInv, ProgressTypes
<1> QED
  BY <1>1, <1>2, <1>3, <1>4, <1>5, <1>6, <1>7, <1>8, <1>9 DEF Next, update

LEMMA NextClearedInv ==
  ASSUME TypeIInv, PacketInv, PulseInv, SentInv, ClearedInv, Without({"overlap", "abort"}), [Next]_vars
  PROVE  ClearedInv'
<1> DEFINE Reading == \/ ProgState = "ProgVerifyCV"
                      \/ ProgState = "ProgACKRead" /\ ProgMode # "ProgModeBit"
<1>0. ProgressTypes /\ EngineTypes /\ Reset \notin ServicePacket
  BY PacketFacts DEF TypeIInv
<1>1. CASE UNCHANGED <<railpower, ProgState, ProgMode, current_cv_value, asked, resets, asService,
                       repeats, pending, cv, present, ack>>
  BY <1>1 DEF ClearedInv, Credit, Evidence, ack
<1>2. CASE Interrupt
  <2>1. UNCHANGED <<railpower, ProgState, ProgMode, current_cv_value, LASTVAmpSence,
                    current_ack_status, resets, asked>>
    BY <1>2, InterruptUnchanged
  <2>2. ASSUME ~asService, repeats = 0
        PROVE  ~asService' /\ repeats' = 0 /\ pending' = << >>
    BY <1>2, <2>2 DEF Interrupt, StartPacket, RepeatPacket, Engine!StartNew, Engine!StartDefault,
       Engine!Repeat
  <2>3. pending' = << >>
    BY <1>0, <1>2 DEF PacketInv, EngineTypes, Interrupt, StartPacket, RepeatPacket, Engine!StartNew,
       Engine!StartDefault, Engine!Repeat
  <2>4. ASSUME ProgState = "ProgVerifyCV", resets > 0
        PROVE  current_ack_status = "NON_PROG_OP" /\ repeats' = 0
    <3>1. pending = <<Reset>> \/ pending = << >>
      BY <1>0, <2>4 DEF SentInv, ClearedInv, Working
    <3>2. ~asService
      <4>1. CASE pending = << >>
        BY <4>1 DEF PacketInv
      <4>2. CASE pending = <<Reset>>
        BY <1>0, <4>2 DEF PacketInv
      <4> QED
        BY <3>1, <4>1, <4>2
    <3> QED
      BY <2>2, <2>4, <3>2 DEF ClearedInv
  <2>5. ASSUME Reading PROVE Credit'
    <3>1. railpower = "SERVICE" /\ Credit
      BY <2>5 DEF ClearedInv, Working
    <3>2. CASE ProgState = "ProgVerifyCV" /\ pending = <<Reset>>
      BY <2>1, <3>2 DEF ClearedInv, Credit
    <3>3. CASE ~(ProgState = "ProgVerifyCV" /\ pending = <<Reset>>)
      <4>1. onAir \in {Reset, TheWrite, TheVerify}
        BY <2>5, <3>1, <3>3 DEF SentInv, TheTest
      <4> QED
        BY <1>2, <3>1, <4>1, CreditStays
    <3> QED
      BY <3>2, <3>3
  <2>6. \A p : pending' # <<p>>
    BY <2>3
  <2> QED
    BY <2>1, <2>2, <2>4, <2>5, <2>6 DEF ClearedInv
<1>3. CASE Sense
  <2>1. UNCHANGED <<railpower, ProgState, ProgMode, current_cv_value, resets, asked, pending,
                    asService, repeats>>
    BY <1>3 DEF Sense, progress, engine, program
  <2>2. repeats = 0 => UNCHANGED ack
    BY <1>3 DEF Sense, TakeBase, SeeRise, SeeFall, NothingToSee, isServiceModeRepeating
  <2>3. ASSUME Reading PROVE Credit'
    <3>1. railpower = "SERVICE" /\ Credit
      BY <2>3 DEF ClearedInv, Working
    <3>2. ASSUME repeats > 0, repeats < MaxRepeats PROVE heard \in {TheWrite, TheVerify}
      <4>1. pending = << >> /\ onAir \in ServicePacket /\ heard = onAir
        BY <3>2 DEF PacketInv
      <4>2. \A p : pending # <<p>>
        BY <4>1
      <4> QED
        BY <1>0, <2>3, <3>1, <4>1, <4>2 DEF SentInv, TheTest
    <3> QED
      BY <1>3, <3>1, <3>2, SenseCredit
  <2> QED
    BY <2>1, <2>2, <2>3 DEF ClearedInv, ack
<1>4. CASE PulseEnds \/ FeedNothing \/ UNCHANGED vars
  BY <1>1, <1>4 DEF PulseEnds, FeedNothing, Feed, vars, device, progress, ack, engine, decoder,
     program
<1>5. ASSUME NEW r \in Requests, Request(r) PROVE ClearedInv'
  <2>1. asked = << >> /\ asked' = <<r>> /\ asked' # << >> /\ ProgState' = "ProgStart"
        /\ UNCHANGED <<current_ack_status, asService, repeats>>
    BY <1>5 DEF Request, ops, Without, ack, engine
  <2>2. ProgState \notin {"ProgVerifyCV", "ProgACKRead"}
    BY <2>1 DEF ClearedInv
  <2> QED
    BY <2>1, <2>2 DEF ClearedInv, Working
<1>6. ~Abort
  BY DEF Abort, Without
<1>7. CASE FeedReset
  <2>1. /\ resets > 0 /\ ~asService'
        /\ UNCHANGED <<railpower, ProgState, ProgMode, current_cv_value, asked, repeats, cv, present,
                       LASTVAmpSence, current_ack_status>>
    BY <1>0, <1>7 DEF FeedReset, FeedSend, Feed, Engine!Send, progress, ack, decoder, program
  <2>2. Credit => Credit'
    BY <2>1 DEF Credit, Evidence
  <2> QED
    BY <2>1, <2>2 DEF ClearedInv
<1>8. CASE FeedNormal
  <2>1. /\ railpower # "SERVICE" /\ ~asService' /\ repeats' = 0
        /\ UNCHANGED <<railpower, ProgState, current_ack_status, asked>>
    BY <1>8 DEF FeedNormal, progress, ack, program
  <2>2. ProgState \notin Working
    BY <2>1 DEF ClearedInv
  <2> QED
    BY <2>1, <2>2 DEF ClearedInv, Working
<1>9. CASE Start
  <2>1. /\ railpower = "SERVICE" /\ railpower' = "SERVICE" /\ ProgState = "ProgStart"
        /\ ProgState' \in {"ProgBitRead", "ProgWriteByte", "ProgVerifyCV"}
        /\ ~asService' /\ UNCHANGED <<current_ack_status, repeats, asked>>
    BY <1>9 DEF Start, InState, program
  <2>2. current_ack_status = "NON_PROG_OP" /\ repeats = 0 /\ asked # << >>
    BY <2>1 DEF ClearedInv
  <2> QED
    BY <2>1, <2>2 DEF ClearedInv, Credit
<1>10. CASE BitRead
  <2>1. /\ railpower' = "SERVICE" /\ ProgState' = "ProgACKRead" /\ ProgMode' = "ProgModeBit"
        /\ ProgState = "ProgBitRead" /\ asked' = asked
    BY <1>0, <1>10 DEF BitRead, InState, ProgressTypes, program
  <2> QED
    BY <2>1 DEF ClearedInv
<1>11. CASE VerifyCV
  <2>1. /\ railpower' = "SERVICE" /\ ProgState' = "ProgACKRead" /\ ProgState = "ProgVerifyCV"
        /\ UNCHANGED <<asked, current_cv_value, present, cv, LASTVAmpSence, current_ack_status>>
    BY <1>11 DEF VerifyCV, InState, FeedSend, Feed, program, decoder, ack
  <2>2. Credit'
    BY <2>1 DEF ClearedInv, Credit, Evidence
  <2> QED
    BY <2>1, <2>2 DEF ClearedInv
<1>12. CASE WriteByte
  <2>1. /\ railpower' = "SERVICE" /\ ProgState' = "ProgVerifyCV" /\ ProgState = "ProgWriteByte"
        /\ UNCHANGED <<asked, current_ack_status, repeats>>
    BY <1>12 DEF WriteByte, InState, FeedSend, Engine!Send, program, ack
  <2>2. current_ack_status = "NON_PROG_OP" /\ repeats = 0 /\ asked # << >>
    BY <2>1 DEF ClearedInv
  <2> QED
    BY <2>1, <2>2 DEF ClearedInv, Credit
<1>13. CASE ACKRead
  <2>1. /\ current_ack_status' = "NON_PROG_OP" /\ ~asService' /\ repeats' = 0
        /\ ProgState = "ProgACKRead" /\ railpower = "SERVICE"
    BY <1>0, <1>13, AckGoesOn DEF PacketInv
  <2>2. asked # << >>
    BY <2>1 DEF ClearedInv
  <2>3. \/ /\ ProgState' \in {"ProgStart", "ProgBitRead", "ProgVerifyCV"} /\ asked' = asked
           /\ railpower' = railpower
        \/ ProgState' = "ProgEnde"
    BY <1>13, AckGoesOn DEF program
  <2> QED
    BY <2>1, <2>2, <2>3 DEF ClearedInv, Credit, Working
<1>14. CASE End
  <2>1. ProgState = "ProgEnde" /\ ProgState' = "ProgEnde" /\ repeats' = 0
        /\ UNCHANGED <<current_ack_status, asService>>
    BY <1>14 DEF End, InState, Engine!Leave, progress, ack
  <2> QED
    BY <2>1 DEF ClearedInv, Working
<1> QED
  BY <1>2, <1>3, <1>4, <1>5, <1>6, <1>7, <1>8, <1>9, <1>10, <1>11, <1>12, <1>13, <1>14
  DEF Next, update

(* A value is reported when it was verified.                                *)
LEMMA AckTells ==
  ASSUME ACKRead, told' # << >>, told = << >>
  PROVE  /\ ProgMode # "ProgModeBit" /\ ProgState' = "ProgEnde"
         /\ told'[1].ok => Acked /\ told'[1].value = current_cv_value
<1> DEFINE Tells == /\ ProgMode # "ProgModeBit" /\ ProgState' = "ProgEnde"
                    /\ told'[1].ok => Acked /\ told'[1].value = current_cv_value
<1>1. ASSUME NEW state, NEW mode, NEW value, NEW bit, NEW count, Go(state, mode, value, bit, count)
      PROVE  FALSE
  BY <1>1 DEF Go, program
<1>2. ASSUME NEW ok, NEW mode, NEW value, NEW bit, NEW count,
             Answer(ok, mode, value, bit, count), ok => Acked /\ value = current_cv_value,
             ProgMode # "ProgModeBit"
      PROVE  Tells
  <2>1. /\ told' = <<[ok |-> ok, value |-> value, of |-> asked]>>
        /\ ProgState' = "ProgEnde"
    BY <1>2 DEF Answer, ops
  <2>2. told'[1].ok = ok /\ told'[1].value = value
    BY <2>1
  <2> QED
    BY <1>2, <2>1, <2>2
<1> HIDE DEF Tells
<1>3. ~AckOfBit
  BY <1>1 DEF AckOfBit
<1>4. ASSUME AckOfValueRead PROVE Tells
  BY <1>1, <1>2, <1>4 DEF AckOfValueRead
<1>5. ASSUME AckOfVerify PROVE Tells
  BY <1>2, <1>5 DEF AckOfVerify
<1>6. ASSUME AckOfByte PROVE Tells
  BY <1>1, <1>2, <1>6 DEF AckOfByte
<1> QED
  BY <1>3, <1>4, <1>5, <1>6 DEF ACKRead, Tells

LEMMA NextAnswerInv ==
  ASSUME TypeIInv, PacketInv, SentInv, AnswerInv, [Next]_vars,
         railpower = "SERVICE" /\ ProgState = "ProgACKRead" /\ ProgMode # "ProgModeBit"
           /\ canAcceptPacket => Credit
  PROVE  AnswerInv'
<1>0. EngineTypes
  BY DEF TypeIInv
<1>1. CASE UNCHANGED <<told, ProgState, present, cv, pending, onAir>>
  BY <1>1 DEF AnswerInv
<1>2. ASSUME told' = << >> PROVE AnswerInv'
  BY <1>2 DEF AnswerInv
<1>3. CASE Interrupt
  <2>1. told' = told /\ ProgState' = ProgState
    BY <1>3, InterruptUnchanged
  <2>2. CASE told # << >>
    <3>1. present' = present /\ cv' = cv
      BY <1>3, <2>2, InterruptUnchanged, HearsLeaves DEF AnswerInv, decoder
    <3>2. \/ onAir' = onAir \/ onAir' \in {Reset, Idle}
          \/ pending # << >> /\ onAir' = Head(pending)
      BY <1>3 DEF Interrupt, StartPacket, RepeatPacket, Engine!StartNew, Engine!StartDefault,
         Engine!Repeat
    <3>3. pending' = << >> \/ pending' = pending
      BY <1>3 DEF Interrupt, StartPacket, RepeatPacket, Engine!StartNew, Engine!StartDefault,
         Engine!Repeat
    <3>4. onAir' # << >> => onAir'.op # "write"
      BY <2>2, <3>2, PacketFacts DEF AnswerInv
    <3> QED
      BY <2>1, <2>2, <3>1, <3>3, <3>4 DEF AnswerInv
  <2> QED
    BY <1>2, <2>1, <2>2
<1>4. CASE PulseEnds \/ Sense \/ Abort \/ FeedNothing \/ End \/ UNCHANGED vars
  BY <1>1, <1>4 DEF PulseEnds, Sense, Abort, FeedNothing, End, Engine!Leave, Feed, vars, device,
     progress, engine, decoder, program
<1>5. ASSUME NEW r \in Requests, Request(r) PROVE AnswerInv'
  BY <1>2, <1>5 DEF Request, ops
<1>6. CASE FeedReset \/ FeedNormal
  <2>1. /\ pending' = <<Reset>> \/ pending' = <<Idle>>
        /\ UNCHANGED <<told, ProgState, present, cv, onAir>>
    BY <1>6 DEF FeedReset, FeedNormal, FeedSend, Feed, Engine!Send, progress, program, decoder
  <2>2. Head(pending').op # "write"
    BY <2>1, PacketFacts
  <2> QED
    BY <2>1, <2>2 DEF AnswerInv
<1>7. CASE Start \/ BitRead \/ VerifyCV \/ WriteByte
  <2>1. told' = told /\ ProgState # "ProgEnde"
    BY <1>7 DEF Start, BitRead, VerifyCV, WriteByte, InState, program
  <2> QED
    BY <1>2, <2>1 DEF AnswerInv
<1>8. CASE ACKRead
  <2>1. /\ Head(pending') = Reset /\ UNCHANGED <<onAir, present, cv>>
        /\ railpower = "SERVICE" /\ ProgState = "ProgACKRead" /\ canAcceptPacket
    BY <1>8, AckGoesOn DEF decoder
  <2>2. told = << >>
    BY <2>1 DEF AnswerInv
  <2>3. CASE told' # << >>
    <3>1. /\ ProgMode # "ProgModeBit" /\ ProgState' = "ProgEnde"
          /\ told'[1].ok => Acked /\ told'[1].value = current_cv_value
      BY <1>8, <2>2, <2>3, AckTells
    <3>2. told'[1].ok => Evidence
      BY <2>1, <3>1 DEF Credit, Acked
    <3>3. onAir.op # "write" /\ Reset.op # "write"
      BY <2>1, <3>1, AcceptedOnRails, PacketFacts, PacketFields DEF TheTest, TheVerify
    <3> QED
      BY <2>1, <3>1, <3>2, <3>3 DEF AnswerInv, Evidence
  <2> QED
    BY <1>2, <2>3
<1> QED
  BY <1>3, <1>4, <1>5, <1>6, <1>7, <1>8 DEF Next, update

LEMMA NextAnswerIInv ==
  ASSUME AnswerIInv, [Next]_vars
  PROVE  AnswerIInv'
<1>1. TypeIInv'
  BY NextTypeIInv DEF AnswerIInv
<1>2. uses' = uses
  BY DEF Next, vars
<1>3. /\ (Attended' <=> Attended) /\ (FastLoop' <=> FastLoop)
      /\ Without({"overlap", "abort"})' <=> Without({"overlap", "abort"})
  BY <1>2 DEF Attended, FastLoop, Without
<1>4. ASSUME Attended
      PROVE  /\ PacketInv' /\ PulseInv' /\ SentInv' /\ AnswerInv'
             /\ FastLoop => FastInv'
             /\ Without({"overlap", "abort"}) => ClearedInv'
  <2>1. TypeIInv /\ PacketInv /\ PulseInv /\ SentInv /\ AnswerInv /\ ~AcceptEarly
    BY <1>4 DEF AnswerIInv, Attended, Without, AcceptEarly
  <2>2. FastLoop => FastInv'
    BY <1>4, <2>1, NextFastInv DEF AnswerIInv
  <2>3. Without({"overlap", "abort"}) => ClearedInv'
    BY <1>4, <2>1, NextClearedInv DEF AnswerIInv
  <2>4. ASSUME railpower = "SERVICE", ProgState = "ProgACKRead", ProgMode # "ProgModeBit",
               canAcceptPacket
        PROVE  Credit
    <3>1. pending = << >> /\ repeats # MaxRepeats
      BY <2>1, <2>4, ConfigurationAssumption DEF PacketInv
    <3> QED
      BY <1>4, <2>4, <3>1 DEF AnswerIInv, Attended, FastInv, ClearedInv
  <2> QED
    BY <2>1, <2>2, <2>3, <2>4, NextPacketInv, NextPulseInv, NextSentInv, NextAnswerInv
<1> QED
  BY <1>1, <1>3, <1>4 DEF AnswerIInv

LEMMA InitAnswerIInv == Init => AnswerIInv
<1> SUFFICES ASSUME Init PROVE AnswerIInv
  OBVIOUS
<1>1. TypeIInv
  BY InitTypeIInv
<1>2. PacketInv
  BY DEF Init, Engine!Init, PacketInv
<1>3. PulseInv /\ SentInv /\ AnswerInv /\ FastInv
  BY DEF Init, PulseInv, SentInv, AnswerInv, FastInv
<1>4. ClearedInv
  BY DEF Init, Engine!Init, ClearedInv, Credit, Working
<1> QED
  BY <1>1, <1>2, <1>3, <1>4 DEF AnswerIInv

(* A value that is reported as the CV's is the CV's: however slow the loop,    *)
(* wherever the interrupt comes, and whatever request was replaced, aborted or *)
(* made in a callback, except where a slow loop meets replaced or aborted      *)
(* requests; for CVs of any width and any number of resets and repeats.        *)
THEOREM ReportedValueIsTrue == Spec => []AnswerIsTrue
<1>1. AnswerIInv => AnswerIsTrue
  BY DEF AnswerIInv, AnswerIsTrue, Attended, AnswerInv, VerifiedValueIsTrue
<1> QED
  BY <1>1, InitAnswerIInv, NextAnswerIInv, PTL DEF Spec

-----------------------------------------------------------------------------
(* The acknowledge is not missed either: the pulse comes after the packet was *)
(* heard twice, and while it is repeated the rise and the fall are measured.  *)
Confirms(p) == present /\ Answers(p)

StatusInv ==
  /\ repeats = MaxRepeats /\ sampled => current_ack_status = "WAIT_FOR_ACK"
  /\ repeats = MaxRepeats - 1 => current_ack_status = "WAIT_FOR_ACK"
  /\ repeats <= MaxRepeats - 2 =>
       IF ~Confirms(onAir) THEN current_ack_status = "WAIT_FOR_ACK"
       ELSE IF pulse
       THEN current_ack_status = IF sampled THEN "ACK_DETECTED" ELSE "WAIT_FOR_ACK"
       ELSE current_ack_status =
              IF repeats = MaxRepeats - 2 /\ ~sampled THEN "ACK_DETECTED" ELSE "ACK_READ_SUCCESS"

HeardInv ==
  /\ repeats = MaxRepeats => heard # onAir
  /\ repeats = MaxRepeats - 1 => heard = onAir /\ times = 1
  /\ repeats = MaxRepeats - 2 => heard = onAir /\ times = 2
  /\ repeats < MaxRepeats - 2 => heard = onAir /\ times = 3
  /\ repeats <= MaxRepeats - 2 /\ onAir.op = "write" /\ present => cv = onAir.data

RailsInv ==
  /\ repeats > 0 \/ asService => service
  /\ pending # << >> /\ Head(pending) \in ServicePacket => asService
  /\ current_ack_status \in {"WAIT_FOR_ACK", "ACK_DETECTED"} => LASTVAmpSence = QuietLoad
  /\ pulse => onAir \in ServicePacket /\ repeats = MaxRepeats - 2
  /\ onAir \in ServicePacket => listening /\ HeardInv /\ (pending = << >> => StatusInv)

ResultInv ==
  ProgState = "ProgACKRead" /\ pending = << >> /\ onAir = Reset =>
    (Acked <=> Confirms(TheTest))

(* What is known of the CV while it is read, verified or written.           *)
ValueInv ==
  present =>
    /\ ProgState \in {"ProgBitRead", "ProgACKRead"} /\ ProgMode = "ProgModeBit" =>
         current_cv_value = cv % 2^current_cv_bit
    /\ ProgState \in {"ProgVerifyCV", "ProgACKRead"} /\ ProgMode = "ProgModeBitVerify" =>
         current_cv_value = cv
    /\ ProgState \in {"ProgVerifyCV", "ProgACKRead"} /\ ProgMode = "ProgModeByte" =>
         current_cv_value <= cv

AskedFor(r) ==
  /\ r.op = "read" =>
       /\ ProgMode \in {"ProgModeBit", "ProgModeBitVerify", "ProgModeByte"}
       /\ ProgState = "ProgStart" => ProgMode # "ProgModeBitVerify"
  /\ r.op = "verify" => ProgMode = "ProgModeByteVerify" /\ current_cv_value = r.value
  /\ r.op = "write" =>
       /\ current_cv_value = r.value
       /\ \/ ProgState \in {"ProgStart", "ProgWriteByte"} /\ ProgMode = "ProgModeWriteByte"
          \/ ProgState \in {"ProgVerifyCV", "ProgACKRead"} /\ ProgMode = "ProgModeByteVerify"
       /\ ProgState = "ProgVerifyCV" =>
            /\ resets = 0 /\ pending # <<Reset>>
            /\ pending = << >> /\ onAir = Reset /\ present => cv = current_cv_value
       /\ ProgState = "ProgACKRead" /\ present => cv = current_cv_value

AskedInv == \A r \in Requests : asked = <<r>> /\ ProgState # "ProgEnde" => AskedFor(r)

NackInv ==
  told # << >> /\ ~told[1].ok /\ told[1].of # << >> =>
    \/ ~present
    \/ told[1].of[1].op = "verify" /\ told[1].of[1].value # cv

Calm == Without({"earlyEngine", "slowLoop", "overlap", "abort"})

NackIInv ==
  Calm => RailsInv /\ ResultInv /\ ValueInv /\ AskedInv /\ NackInv

(* The decoder acts when it hears the packet the second time, and only then. *)
LEMMA ActsOnce ==
  ASSUME TypeIInv, RailsInv, Interrupt, MaxRepeats >= 3, onAir # << >>
  PROVE  /\ heard' = onAir /\ present' = present
         /\ listening' = (onAir = Reset \/ (listening /\ onAir \in ServicePacket))
         /\ onAir \in ServicePacket /\ repeats = MaxRepeats - 1 =>
              /\ times' = 2 /\ UNCHANGED onAir /\ (pulse' <=> Confirms(onAir)')
              /\ onAir.op = "write" /\ present => cv' = onAir.data
              /\ onAir.op # "write" => cv' = cv
         /\ ~(onAir \in ServicePacket /\ repeats = MaxRepeats - 1) => ~pulse' /\ cv' = cv
         /\ onAir \in ServicePacket /\ repeats = MaxRepeats => times' = 1
         /\ onAir \in ServicePacket /\ repeats <= MaxRepeats - 2 => times' = 3
<1>0. /\ repeats \in 0..MaxRepeats /\ MaxRepeats \in Nat /\ times \in 0..3
      /\ Hears(onAir) /\ present \in BOOLEAN
  BY ConfigurationAssumption, InterruptUnchanged DEF TypeIInv, EngineTypes, DecoderTypes
<1>1. /\ heard' = onAir /\ present' = present
      /\ listening' = (onAir = Reset \/ (listening /\ onAir \in ServicePacket))
      /\ times' = IF onAir # heard THEN 1 ELSE IF times < 3 THEN times + 1 ELSE times
  BY <1>0 DEF Hears
<1>2. ASSUME ~(present /\ listening /\ onAir \in ServicePacket /\ times' = 2)
      PROVE  ~pulse' /\ cv' = cv
  BY <1>0, <1>2 DEF Hears
<1>3. CASE onAir \notin ServicePacket
  BY <1>1, <1>2, <1>3
<1>4. CASE onAir \in ServicePacket /\ repeats = MaxRepeats - 1
  <2>1. listening /\ times' = 2
    BY <1>0, <1>1, <1>4 DEF RailsInv, HeardInv
  <2>0. UNCHANGED onAir
    <3>1. repeats > 0
      BY <1>0, <1>4
    <3>2. Engine!StartNew \/ Engine!StartDefault \/ Engine!Repeat
      BY DEF Interrupt, StartPacket, RepeatPacket
    <3>3. ~Engine!StartNew /\ ~Engine!StartDefault
      BY <1>0, <3>1 DEF Engine!StartNew, Engine!StartDefault
    <3> QED
      BY <3>2, <3>3 DEF Engine!Repeat
  <2>2. CASE ~present
    BY <1>0, <1>1, <1>2, <1>4, <2>0, <2>1, <2>2, PacketFacts DEF Confirms
  <2>3. CASE present
    <3>1. (pulse' <=> Answers(onAir)) /\ cv' = IF onAir.op = "write" THEN onAir.data ELSE cv
      BY <1>0, <1>4, <2>1, <2>3 DEF Hears
    <3>2. Answers(onAir)' <=> Answers(onAir)
      <4>1. CASE onAir.op = "write"
        BY <2>0, <4>1 DEF Answers
      <4>2. CASE onAir.op # "write"
        BY <2>0, <3>1, <4>2 DEF Answers, BitOf
      <4> QED
        BY <4>1, <4>2
    <3>3. Confirms(onAir)' <=> Answers(onAir)
      BY <1>1, <2>3, <3>2 DEF Confirms
    <3> QED
      BY <1>1, <1>4, <2>0, <2>1, <2>3, <3>1, <3>3, <1>0
  <2> QED
    BY <1>0, <2>2, <2>3
<1>5. CASE onAir \in ServicePacket /\ repeats # MaxRepeats - 1
  <2>1. /\ repeats = MaxRepeats => times' = 1
        /\ repeats <= MaxRepeats - 2 => times' = 3
    BY <1>0, <1>1, <1>5 DEF RailsInv, HeardInv
  <2> QED
    BY <1>0, <1>1, <1>2, <1>5, <2>1
<1> QED
  BY <1>3, <1>4, <1>5

(* No packet that is sent meets an answer of another: it follows a reset or  *)
(* another kind of packet.                                                   *)
LEMMA NewOnRails ==
  ASSUME TypeIInv, PacketInv, SentInv, ClearedInv, RailsInv, asService
  PROVE  /\ Head(pending) \in ServicePacket /\ onAir \in {Reset} \union ServicePacket
         /\ onAir # Head(pending)
<1>1. pending # << >> /\ Head(pending) \in ServicePacket
  BY DEF PacketInv
<1>2. pending # <<Reset>> /\ \A p : pending = <<p>> => Head(pending) = p
  BY <1>1, PacketFacts
<1>3. ProgState \in {"ProgVerifyCV", "ProgACKRead"} /\ railpower = "SERVICE"
  BY DEF ClearedInv, Working
<1>4. current_cv_value \in CVRange
  BY DEF TypeIInv, ProgressTypes
<1>5. CASE ProgState = "ProgVerifyCV"
  <2>1. pending = <<TheWrite>> /\ onAir = Reset
    BY <1>1, <1>2, <1>3, <1>5 DEF SentInv
  <2> QED
    BY <1>1, <2>1, PacketFacts
<1>6. CASE ProgState = "ProgACKRead"
  <2>1. pending = <<TheTest>> /\ onAir \in {Reset, TheWrite}
    BY <1>1, <1>2, <1>3, <1>6 DEF SentInv
  <2>2. TheTest # TheWrite /\ TheWrite \in ServicePacket
    BY <1>4, PacketFacts, PacketFields DEF TheTest, TheVerify, TheWrite
  <2> QED
    BY <1>1, <1>2, <2>1, <2>2, PacketFacts
<1> QED
  BY <1>3, <1>5, <1>6

LEMMA InterruptRailsInv ==
  ASSUME TypeIInv, PacketInv, SentInv, ClearedInv, RailsInv, FastLoop, MaxRepeats >= 3, Interrupt
  PROVE  RailsInv'
<1>0. /\ repeats \in 0..MaxRepeats /\ MaxRepeats \in Nat /\ times \in 0..3
      /\ present \in BOOLEAN /\ pulse \in BOOLEAN /\ sampled \in BOOLEAN
      /\ onAir \in Packet \union {<< >>}
  BY ConfigurationAssumption DEF TypeIInv, EngineTypes, DecoderTypes
<1>1. /\ UNCHANGED <<LASTVAmpSence, current_ack_status, service>>
      /\ ~pulse /\ sampled /\ ~sampled'
      /\ onAir = << >> => UNCHANGED decoder
  BY InterruptUnchanged
<1>2. CASE Engine!StartNew \/ Engine!StartDefault
  <2>1. /\ repeats = 0 /\ ~asService' /\ pending' = << >>
        /\ repeats' > 0 => asService
    BY <1>0, <1>2 DEF Engine!StartNew, Engine!StartDefault, PacketInv
  <2>2. ~pulse'
    <3>1. CASE onAir = << >>
      BY <1>1, <3>1 DEF decoder
    <3>2. CASE onAir # << >>
      BY <1>0, <2>1, <3>2, ActsOnce
    <3> QED
      BY <3>1, <3>2
  <2>3. ASSUME onAir' \in ServicePacket
        PROVE  listening' /\ repeats' = MaxRepeats /\ heard' # onAir' /\ ~sampled'
    <3>1. Engine!StartNew /\ onAir' = Head(pending)
      BY <1>2, <2>3, PacketFacts DEF Engine!StartNew, Engine!StartDefault
    <3>2. asService
      BY <2>3, <3>1 DEF RailsInv, Engine!StartNew
    <3>3. onAir \in {Reset} \union ServicePacket /\ onAir # << >> /\ onAir # onAir'
      BY <3>1, <3>2, NewOnRails, PacketFacts
    <3>4. heard' = onAir /\ listening'
      BY <3>3, ActsOnce DEF RailsInv
    <3> QED
      BY <1>1, <3>1, <3>2, <3>3, <3>4 DEF Engine!StartNew
  <2> QED
    <3>1. (HeardInv' /\ StatusInv') \/ onAir' \notin ServicePacket
      BY <1>0, <1>1, <2>1, <2>3 DEF HeardInv, StatusInv
    <3>2. repeats' > 0 => service'
      BY <1>1, <2>1 DEF RailsInv
    <3>3. \A p : pending' # <<p>>
      BY <2>1
    <3> QED
      BY <1>1, <2>1, <2>2, <2>3, <3>1, <3>2, <3>3 DEF RailsInv
<1>3. CASE Engine!Repeat
  <2>1. /\ repeats > 0 /\ repeats' = repeats - 1 /\ UNCHANGED <<pending, asService, onAir>>
        /\ pending = << >> /\ onAir \in ServicePacket /\ onAir # << >> /\ listening
        /\ HeardInv /\ StatusInv /\ onAir # Reset
    BY <1>3, PacketFacts DEF Engine!Repeat, PacketInv, RailsInv
  <2>2. heard' = onAir /\ present' = present /\ listening'
    BY <2>1, ActsOnce
  <2>3. CASE repeats = MaxRepeats
    <3>1. times' = 1 /\ ~pulse' /\ current_ack_status = "WAIT_FOR_ACK"
      BY <1>0, <1>1, <2>1, <2>3, ActsOnce DEF StatusInv
    <3>2. HeardInv' /\ StatusInv'
      BY <1>0, <1>1, <2>1, <2>2, <2>3, <3>1 DEF HeardInv, StatusInv
    <3> QED
      BY <1>0, <1>1, <2>1, <2>2, <3>1, <3>2 DEF RailsInv
  <2>4. CASE repeats = MaxRepeats - 1
    <3>1. /\ times' = 2 /\ (pulse' <=> Confirms(onAir)') /\ current_ack_status = "WAIT_FOR_ACK"
          /\ onAir.op = "write" /\ present => cv' = onAir.data
      BY <1>0, <1>1, <2>1, <2>4, ActsOnce DEF StatusInv
    <3>2. HeardInv'
      BY <1>0, <1>1, <2>1, <2>2, <2>4, <3>1 DEF HeardInv
    <3>3. StatusInv'
      BY <1>0, <1>1, <2>1, <2>2, <2>4, <3>1 DEF StatusInv
    <3> QED
      BY <1>0, <1>1, <2>1, <2>2, <2>4, <3>1, <3>2, <3>3 DEF RailsInv
  <2>5. CASE repeats <= MaxRepeats - 2
    <3>1. times' = 3 /\ ~pulse' /\ cv' = cv
      BY <1>0, <1>1, <2>1, <2>5, ActsOnce
    <3>2. Confirms(onAir)' <=> Confirms(onAir)
      BY <2>1, <2>2, <3>1 DEF Confirms, Answers, BitOf
    <3>3. HeardInv'
      BY <1>0, <1>1, <2>1, <2>2, <2>5, <3>1 DEF HeardInv
    <3>4. StatusInv'
      BY <1>0, <1>1, <2>1, <2>2, <2>5, <3>1, <3>2 DEF StatusInv
    <3> QED
      BY <1>0, <1>1, <2>1, <2>2, <2>5, <3>1, <3>3, <3>4 DEF RailsInv
  <2> QED
    BY <1>0, <2>3, <2>4, <2>5
<1> QED
  BY <1>2, <1>3 DEF Interrupt, StartPacket, RepeatPacket

LEMMA PulseConfirms ==
  ASSUME PulseInv, RailsInv, pulse, MaxRepeats >= 3, MaxRepeats \in Nat
  PROVE  Confirms(onAir)
<1>1. heard = onAir /\ present /\ Answers(heard)
  BY DEF PulseInv, RailsInv, HeardInv
<1> QED
  BY <1>1 DEF Confirms

LEMMA SenseRailsInv ==
  ASSUME TypeIInv, PacketInv, PulseInv, RailsInv, FastLoop, MaxRepeats >= 3, Sense
  PROVE  RailsInv'
<1>0. /\ repeats \in 0..MaxRepeats /\ MaxRepeats \in Nat /\ pulse \in BOOLEAN
      /\ sampled \in BOOLEAN
      /\ QuietLoad \in Nat /\ PulseLoad \in Nat /\ ACK_SENSE_VALUE \in Nat
      /\ PulseLoad > QuietLoad + ACK_SENSE_VALUE
  BY ConfigurationAssumption DEF TypeIInv, EngineTypes, DecoderTypes
<1>1. /\ UNCHANGED <<service, repeats, asService, pending, onAir, pulse, listening, present, cv,
                     heard, times>>
      /\ sampled'
  BY DEF Sense, engine, decoder
<1>2. HeardInv => HeardInv'
  BY <1>1 DEF HeardInv
<1>3. Confirms(onAir)' <=> Confirms(onAir)
  BY <1>1 DEF Confirms, Answers, BitOf
<1>4. CASE repeats = 0
  <2>1. UNCHANGED ack /\ ~pulse
    BY <1>0, <1>4 DEF Sense, TakeBase, SeeRise, SeeFall, NothingToSee, isServiceModeRepeating,
       RailsInv
  <2>2. StatusInv => StatusInv'
    BY <1>0, <1>1, <1>3, <1>4, <2>1 DEF StatusInv, ack
  <2> QED
    BY <1>1, <1>2, <2>1, <2>2 DEF RailsInv, ack
<1>5. CASE repeats > 0
  <2>1. service /\ onAir \in ServicePacket /\ pending = << >> /\ StatusInv /\ isServiceModeRepeating
    BY <1>5 DEF RailsInv, PacketInv, isServiceModeRepeating
  <2>2. CASE repeats = MaxRepeats
    <3>1. ~pulse /\ Load = QuietLoad /\ isFirstServiceModePacket
      BY <1>0, <2>1, <2>2 DEF RailsInv, Load, isFirstServiceModePacket
    <3>2. current_ack_status' = "WAIT_FOR_ACK" /\ LASTVAmpSence' = QuietLoad
      BY <2>1, <3>1 DEF Sense, TakeBase, SeeRise, SeeFall, NothingToSee, ack, RailsInv
    <3>3. StatusInv'
      BY <1>0, <1>1, <2>2, <3>2 DEF StatusInv
    <3> QED
      BY <1>0, <1>1, <1>2, <3>1, <3>2, <3>3 DEF RailsInv
  <2>3. CASE repeats < MaxRepeats
    <3>0. ~isFirstServiceModePacket
      BY <1>0, <2>3 DEF isFirstServiceModePacket
    <3>1. current_ack_status \in {"WAIT_FOR_ACK", "ACK_DETECTED"} => (AboveBase <=> pulse)
      BY <1>0 DEF RailsInv, AboveBase, Load
    <3>2. current_ack_status' =
            IF current_ack_status = "WAIT_FOR_ACK" /\ pulse THEN "ACK_DETECTED"
            ELSE IF current_ack_status = "ACK_DETECTED" /\ ~pulse THEN "ACK_READ_SUCCESS"
            ELSE current_ack_status
      BY <2>1, <3>0, <3>1 DEF Sense, TakeBase, SeeRise, SeeFall, NothingToSee, ack, Measured
    <3>3. LASTVAmpSence' = LASTVAmpSence
      BY <2>1, <3>0 DEF Sense, TakeBase, SeeRise, SeeFall, NothingToSee, ack
    <3>4. StatusInv'
      <4>1. CASE repeats = MaxRepeats - 1
        <5>1. ~pulse /\ current_ack_status = "WAIT_FOR_ACK"
          BY <1>0, <2>1, <4>1 DEF StatusInv, RailsInv
        <5> QED
          BY <1>0, <1>1, <3>2, <4>1, <5>1 DEF StatusInv
      <4>2. CASE repeats <= MaxRepeats - 2
        <5>1. CASE ~Confirms(onAir)
          <6>1. ~pulse /\ current_ack_status = "WAIT_FOR_ACK"
            BY <1>0, <2>1, <4>2, <5>1, PulseConfirms DEF StatusInv
          <6> QED
            BY <1>0, <1>1, <1>3, <3>2, <4>2, <5>1, <6>1 DEF StatusInv
        <5>2. CASE Confirms(onAir) /\ pulse
          BY <1>0, <1>1, <1>3, <2>1, <3>2, <4>2, <5>2 DEF StatusInv
        <5>3. CASE Confirms(onAir) /\ ~pulse
          BY <1>0, <1>1, <1>3, <2>1, <3>2, <4>2, <5>3 DEF StatusInv
        <5> QED
          BY <1>0, <5>1, <5>2, <5>3
      <4> QED
        BY <1>0, <2>3, <4>1, <4>2
    <3>5. current_ack_status' \in {"WAIT_FOR_ACK", "ACK_DETECTED"} =>
            current_ack_status \in {"WAIT_FOR_ACK", "ACK_DETECTED"}
      BY <3>2
    <3> QED
      BY <1>1, <1>2, <3>3, <3>4, <3>5 DEF RailsInv
  <2> QED
    BY <1>0, <2>2, <2>3
<1> QED
  BY <1>0, <1>4, <1>5

(* What update() sends leaves the rails alone.                              *)
LEMMA FeedRailsInv ==
  ASSUME TypeIInv, PacketInv, SentInv, ClearedInv, RailsInv, update
  PROVE  RailsInv'
<1>0. EngineTypes /\ ProgressTypes
  BY DEF TypeIInv
<1>1. UNCHANGED <<present, cv, listening, heard, times, pulse, sampled>>
  BY DEF update, FeedNothing, FeedReset, FeedSend, FeedNormal, Start, BitRead, VerifyCV, WriteByte,
     ACKRead, End, Feed, decoder
<1>2. HeardInv /\ onAir' = onAir /\ repeats' = repeats => HeardInv'
  BY <1>1 DEF HeardInv
<1>3. ASSUME NEW p \in Packet, FeedSend(p), p \in ServicePacket => service,
             current_ack_status' \in {"WAIT_FOR_ACK", "ACK_DETECTED"} =>
               UNCHANGED <<current_ack_status, LASTVAmpSence>>
      PROVE  RailsInv'
  <2>1. /\ pending' # << >> /\ Head(pending') = p /\ repeats = 0
        /\ UNCHANGED <<onAir, repeats, service>>
    BY <1>3 DEF FeedSend, Engine!Send, PacketInv
  <2>2. asService' <=> (service /\ p \in ServicePacket)
    BY Zenon, <1>3 DEF FeedSend, Engine!Send
  <2> QED
    BY <1>1, <1>2, <1>3, <2>1, <2>2 DEF RailsInv
<1>4. CASE FeedNothing
  <2>1. UNCHANGED <<service, asService, pending, onAir, repeats, LASTVAmpSence, current_ack_status>>
    BY <1>4 DEF FeedNothing, engine, ack
  <2>2. StatusInv => StatusInv'
    BY <1>1, <2>1 DEF StatusInv, Confirms, Answers, BitOf
  <2> QED
    BY <1>1, <1>2, <2>1, <2>2 DEF RailsInv
<1>5. CASE FeedReset \/ ACKRead
  BY <1>3, <1>5, PacketFacts DEF FeedReset, ACKRead, ack
<1>6. CASE FeedNormal
  <2>1. /\ pending' = <<Idle>> /\ pending' # << >> /\ Head(pending') \notin ServicePacket
        /\ repeats = 0 /\ repeats' = 0 /\ ~asService'
        /\ UNCHANGED <<onAir, LASTVAmpSence, current_ack_status>>
    BY <1>6, PacketFacts DEF FeedNormal, PacketInv, ack
  <2> QED
    BY <1>1, <1>2, <2>1 DEF RailsInv
<1>7. CASE Start
  <2>1. /\ pending' = <<Reset>> /\ pending' # << >> /\ Head(pending') \notin ServicePacket
        /\ ~asService' /\ service' /\ ProgState = "ProgStart"
        /\ UNCHANGED <<onAir, repeats, current_ack_status>>
    BY <1>7, PacketFacts DEF Start, InState
  <2>2. current_ack_status' = "NON_PROG_OP"
    BY <2>1 DEF ClearedInv
  <2> QED
    BY <1>1, <1>2, <2>1, <2>2 DEF RailsInv
<1>8. CASE BitRead \/ VerifyCV \/ WriteByte
  <2>1. UNCHANGED <<LASTVAmpSence, current_ack_status>> /\ service
    BY <1>8 DEF BitRead, VerifyCV, WriteByte, InState, SentInv, Working, ack
  <2>2. current_cv_value \in CVRange /\ (BitRead => current_cv_bit \in 0..CVBits - 1)
    BY <1>0, ConfigurationAssumption DEF ProgressTypes, BitRead, InState
  <2>3. \E p \in Packet : FeedSend(p)
    BY <1>8, <2>2, PacketFacts DEF BitRead, VerifyCV, WriteByte
  <2> QED
    BY <1>3, <2>1, <2>3
<1>9. CASE End
  <2>1. /\ repeats = 0 /\ repeats' = 0 /\ pending = << >> /\ ProgState = "ProgEnde"
        /\ UNCHANGED <<onAir, pending, asService, LASTVAmpSence, current_ack_status>>
    BY <1>9 DEF End, InState, Engine!Leave, PacketInv, ack
  <2>2. ~asService
    BY <2>1 DEF ClearedInv
  <2>3. StatusInv => StatusInv'
    BY <1>1, <2>1 DEF StatusInv, Confirms, Answers, BitOf
  <2> QED
    BY <1>1, <1>2, <2>1, <2>2, <2>3 DEF RailsInv
<1> QED
  BY <1>4, <1>5, <1>6, <1>7, <1>8, <1>9 DEF update

LEMMA NextRailsInv ==
  ASSUME TypeIInv, PacketInv, PulseInv, SentInv, ClearedInv, RailsInv, FastLoop, MaxRepeats >= 3,
         [Next]_vars
  PROVE  RailsInv'
<1>1. CASE UNCHANGED <<ack, engine, decoder, sampled>>
  BY <1>1 DEF RailsInv, HeardInv, StatusInv, Confirms, Answers, BitOf, ack, engine, decoder
<1>2. CASE PulseEnds
  <2>1. /\ repeats \in 0..MaxRepeats /\ MaxRepeats \in Nat
    BY ConfigurationAssumption DEF TypeIInv, EngineTypes
  <2>2. /\ pulse /\ sampled /\ ~pulse' /\ ~sampled'
        /\ UNCHANGED <<LASTVAmpSence, current_ack_status, service, asService, pending, onAir, repeats,
                       present, cv, listening, heard, times>>
    BY <1>2 DEF PulseEnds, ack, engine
  <2>3. repeats = MaxRepeats - 2 /\ Confirms(onAir) /\ HeardInv
    BY <2>1, <2>2, PulseConfirms DEF RailsInv
  <2>4. Confirms(onAir)' <=> Confirms(onAir)
    BY <2>2 DEF Confirms, Answers, BitOf
  <2>5. HeardInv'
    BY <2>2, <2>3 DEF HeardInv
  <2>6. StatusInv => StatusInv'
    BY <2>1, <2>2, <2>3, <2>4 DEF StatusInv
  <2> QED
    BY <2>2, <2>5, <2>6 DEF RailsInv
<1>3. CASE (\E r \in Requests : Request(r)) \/ Abort \/ UNCHANGED vars
  BY <1>1, <1>3 DEF Request, Abort, vars, device
<1> QED
  BY <1>2, <1>3, InterruptRailsInv, SenseRailsInv, FeedRailsInv DEF Next

(* The bits of a value below a bit, with that bit.                          *)
LEMMA DivideOnce ==
  ASSUME NEW n \in Nat \ {0}, NEW a \in Nat, NEW s \in 0..n - 1
  PROVE  (n * a + s) % n = s
<1>1. n * a + s \in Nat
  OBVIOUS
<1> DEFINE v == n * a + s
<1>2. v = n * (v \div n) + (v % n) /\ (v % n) \in 0..n - 1 /\ v \div n \in Int
  BY <1>1
<1> QED
  BY <1>1, <1>2

LEMMA NextBit ==
  ASSUME NEW v \in CVRange, NEW b \in 0..CVBits - 1
  PROVE  /\ BitOf(v, b) \in {0, 1}
         /\ v % 2^(b + 1) = IF BitOf(v, b) = 1 THEN (v % 2^b) + 2^b ELSE (v % 2^b)
<1> DEFINE m == 2^b
           q == v \div m
<1>1. m \in Nat \ {0} /\ 2^(b + 1) = 2 * m /\ v \in Nat
  BY PowersOfTwo, Values, ConfigurationAssumption
<1> HIDE DEF m
<1>2. q \in Nat /\ v = m * q + (v % m) /\ (v % m) \in 0..m - 1
  BY <1>1
<1> HIDE DEF q
<1>3. (q % 2) \in {0, 1} /\ q = 2 * (q \div 2) + (q % 2) /\ q \div 2 \in Nat
  BY <1>2
<1> DEFINE a == q \div 2
           s == IF (q % 2) = 1 THEN (v % m) + m ELSE (v % m)
<1>4. a \in Nat /\ s \in 0..2 * m - 1 /\ 2 * m \in Nat \ {0}
  BY <1>1, <1>2, <1>3
<1>5. v = (2 * m) * a + s
  <2>1. CASE (q % 2) = 1
    <3>1. q = 2 * a + 1
      BY <1>3, <2>1
    <3>2. m * (2 * a + 1) = (2 * m) * a + m
      BY <1>1, <1>4
    <3> QED
      BY <1>1, <1>2, <2>1, <3>1, <3>2, <1>4
  <2>2. CASE (q % 2) = 0
    <3>1. q = 2 * a
      BY <1>3, <2>2
    <3>2. m * (2 * a) = (2 * m) * a
      BY <1>1, <1>4
    <3> QED
      BY <1>1, <1>2, <2>2, <3>1, <3>2, <1>4
  <2> QED
    BY <1>3, <2>1, <2>2
<1> HIDE DEF a, s
<1>6. v % (2 * m) = s
  BY <1>4, <1>5, DivideOnce
<1> QED
  BY <1>1, <1>3, <1>6 DEF m, q, s, BitOf

LEMMA NextValue ==
  ASSUME NEW v \in CVRange, NEW w \in CVRange, w <= v, w # v
  PROVE  (w + 1) % 2^CVBits = w + 1 /\ w + 1 <= v /\ w + 1 # 0
<1> DEFINE n == 2^CVBits
<1>1. n \in Nat \ {0} /\ v \in 0..n - 1 /\ w \in 0..n - 1
  BY Values DEF CVRange
<1> HIDE DEF n
<1>2. (w + 1) % n = w + 1 /\ w + 1 <= v /\ w + 1 # 0
  BY <1>1
<1> QED
  BY <1>2 DEF n

LEMMA AllBits ==
  ASSUME NEW v \in CVRange
  PROVE  v % 2^0 = 0 /\ v % 2^CVBits = v
<1> DEFINE n == 2^CVBits
<1>1. n \in Nat \ {0} /\ v \in 0..n - 1 /\ v \in Nat
  BY Values DEF CVRange
<1> HIDE DEF n
<1>2. v % n = v
  BY <1>1
<1> QED
  BY <1>1, <1>2, PowersOfTwo DEF n

-----------------------------------------------------------------------------
(* When ProgACKRead goes on, the acknowledge says what the decoder thinks of  *)
(* the test.                                                                 *)
LEMMA AckMeans ==
  ASSUME TypeIInv, SentInv, RailsInv, ResultInv, MaxRepeats >= 3, MaxRepeats \in Nat,
         railpower = "SERVICE", ProgState = "ProgACKRead", pending = << >>, repeats = 0
  PROVE  /\ onAir \in {Reset, TheTest} /\ TheTest \in ServicePacket
         /\ Acked <=> Confirms(TheTest)
<1>1. TheTest \in ServicePacket
  BY PacketFacts, ConfigurationAssumption DEF TheTest, TheVerify, TypeIInv, ProgressTypes
<1>2. \A p : pending # <<p>>
  OBVIOUS
<1>3. onAir \in {Reset, TheTest}
  BY <1>2 DEF SentInv
<1>4. CASE onAir = Reset
  BY <1>1, <1>4 DEF ResultInv
<1>5. CASE onAir = TheTest
  <2>1. StatusInv /\ ~pulse
    BY <1>1, <1>5 DEF RailsInv
  <2>2. 0 <= MaxRepeats - 2 /\ 0 # MaxRepeats - 2
    OBVIOUS
  <2> QED
    BY <1>1, <1>5, <2>1, <2>2 DEF StatusInv, Acked
<1> QED
  BY <1>1, <1>3, <1>4, <1>5

(* A CV is written with the value asked for, before it is verified.         *)
LEMMA CVWritten ==
  ASSUME TypeIInv, PacketInv, SentInv, ClearedInv, RailsInv, MaxRepeats >= 3,
         Interrupt, cv' # cv
  PROVE  /\ railpower = "SERVICE" /\ ProgState = "ProgVerifyCV" /\ cv' = current_cv_value
         /\ onAir \in ServicePacket /\ repeats > 0
<1>1. onAir # << >>
  BY InterruptUnchanged DEF decoder
<1>2. onAir \in ServicePacket /\ repeats = MaxRepeats - 1 /\ onAir.op = "write" /\ cv' = onAir.data
  BY <1>1, ActsOnce, InterruptUnchanged, HearsLeaves
<1>3. repeats > 0 /\ pending = << >>
  BY <1>2, ConfigurationAssumption DEF PacketInv
<1>4. ProgState \in {"ProgVerifyCV", "ProgACKRead"} /\ railpower = "SERVICE"
  BY <1>3 DEF ClearedInv, Working
<1>5. \A p : pending # <<p>>
  BY <1>3
<1>6. onAir # Reset
  BY <1>2, PacketFacts
<1>7. onAir = IF ProgState = "ProgVerifyCV" THEN TheWrite ELSE TheTest
  BY <1>4, <1>5, <1>6 DEF SentInv
<1>8. TheTest.op # "write"
  BY PacketFields DEF TheTest, TheVerify
<1> QED
  BY <1>2, <1>3, <1>4, <1>7, <1>8, PacketFields DEF TheWrite

LEMMA NextResultInv ==
  ASSUME TypeIInv, PacketInv, SentInv, ClearedInv, RailsInv, ResultInv, MaxRepeats >= 3, [Next]_vars
  PROVE  ResultInv'
<1> SUFFICES ASSUME ProgState' = "ProgACKRead", pending' = << >>, onAir' = Reset
             PROVE  (Acked <=> Confirms(TheTest))'
  BY DEF ResultInv
<1>0. \A p : pending' # <<p>>
  OBVIOUS
<1>1. ASSUME UNCHANGED <<ProgMode, current_cv_value, current_cv_bit, cv, present>>
      PROVE  Confirms(TheTest)' <=> Confirms(TheTest)
  BY <1>1 DEF Confirms, TheTest, TheVerify, BitPacket, VerifyPacket, Answers, BitOf
<1>2. CASE Interrupt
  <2>1. UNCHANGED <<railpower, ProgState, ProgMode, current_cv_value, current_cv_bit,
                    current_ack_status, service>>
    BY <1>2, InterruptUnchanged
  <2>2. cv' = cv
    BY <1>2, <2>1, CVWritten
  <2>3. railpower = "SERVICE" /\ MaxRepeats \in Nat
    BY <2>1, ConfigurationAssumption DEF ClearedInv, Working
  <2>4. CASE Engine!StartDefault
    <3>1. Acked <=> Confirms(TheTest)
      BY <2>1, <2>3, <2>4, AckMeans DEF Engine!StartDefault
    <3>2. onAir \in {Reset, TheTest} /\ TheTest \in ServicePacket
      BY <2>1, <2>3, <2>4, AckMeans DEF Engine!StartDefault
    <3>3. present' = present
      BY <1>2, <3>2, PacketFacts, InterruptUnchanged, HearsLeaves
    <3> QED
      BY <1>1, <2>1, <2>2, <3>1, <3>3 DEF Acked
  <2>5. CASE Engine!StartNew
    <3>1. /\ onAir' = Head(pending) /\ pending # << >>
      BY <2>5 DEF Engine!StartNew
    <3>2. \A p : pending = <<p>> => Head(pending) = p
      OBVIOUS
    <3>3. onAir' = TheTest
      BY <2>1, <2>3, <3>1, <3>2 DEF SentInv
    <3>4. TheTest # Reset
      BY PacketFields, PacketFacts DEF TheTest, TheVerify
    <3> QED
      BY <3>3, <3>4
  <2>6. CASE Engine!Repeat
    BY <2>6, PacketFacts DEF Engine!Repeat, PacketInv
  <2> QED
    BY <1>2, <2>4, <2>5, <2>6 DEF Interrupt, StartPacket, RepeatPacket
<1>3. CASE Sense
  <2>1. UNCHANGED <<ProgState, ProgMode, current_cv_value, current_cv_bit, cv, present, pending,
                    onAir, repeats>>
    BY <1>3 DEF Sense, progress, decoder, engine
  <2>2. ~(repeats > 0)
    BY <2>1, PacketFacts DEF PacketInv
  <2>3. UNCHANGED current_ack_status
    BY <1>3, <2>2 DEF Sense, TakeBase, SeeRise, SeeFall, NothingToSee, isServiceModeRepeating, ack
  <2> QED
    BY <1>1, <2>1, <2>3 DEF ResultInv, Acked
<1>4. CASE PulseEnds \/ Abort \/ FeedNothing \/ UNCHANGED vars
  <2>1. UNCHANGED <<ProgState, ProgMode, current_cv_value, current_cv_bit, cv, present, pending,
                    onAir, current_ack_status>>
    BY <1>4 DEF PulseEnds, Abort, FeedNothing, Feed, vars, device, progress, decoder, engine, ack
  <2> QED
    BY <1>1, <2>1 DEF ResultInv, Acked
<1>5. ~ \E r \in Requests : Request(r)
  BY DEF Request
<1>6. ~FeedReset /\ ~FeedNormal /\ ~BitRead /\ ~VerifyCV /\ ~WriteByte /\ ~ACKRead
  BY <1>0 DEF FeedReset, FeedNormal, BitRead, VerifyCV, WriteByte, ACKRead, FeedSend, Engine!Send
<1>7. ~Start /\ ~End
  BY <1>0 DEF Start, End, InState, progress
<1> QED
  BY <1>2, <1>3, <1>4, <1>5, <1>6, <1>7 DEF Next, update

-----------------------------------------------------------------------------
(* What ProgACKRead goes on with.                                           *)
LEMMA AckGoesOnWith ==
  ASSUME ACKRead, ProgState' # "ProgEnde"
  PROVE  /\ asked' = asked
         /\ \/ /\ ProgMode = "ProgModeBit" /\ current_cv_bit' = current_cv_bit + 1
               /\ current_cv_value' = IF Acked THEN current_cv_value + 2^current_cv_bit
                                      ELSE current_cv_value
               /\ IF current_cv_bit + 1 < CVBits
                  THEN ProgState' = "ProgBitRead" /\ ProgMode' = "ProgModeBit"
                  ELSE ProgState' = "ProgVerifyCV" /\ ProgMode' = "ProgModeBitVerify"
            \/ /\ ProgMode = "ProgModeBitVerify"
               /\ current_cv_value' = 0 /\ current_cv_bit' = 0
               /\ \/ ProgState' = "ProgBitRead" /\ ProgMode' = "ProgModeBit"
                  \/ ProgState' = "ProgStart" /\ ProgMode' = "ProgModeByte"
            \/ /\ ProgMode = "ProgModeByte" /\ ProgMode' = "ProgModeByte" /\ ~Acked
               /\ current_cv_value' = (current_cv_value + 1) % 2^CVBits
               /\ ProgState' = "ProgStart" \/ (ProgState' = "ProgVerifyCV" /\ current_cv_value' # 0)
<1>1. ASSUME NEW ok, NEW mode, NEW value, NEW bit, NEW count, Answer(ok, mode, value, bit, count)
      PROVE  FALSE
  BY <1>1 DEF Answer
<1>2. CASE AckOfBit
  BY <1>2 DEF AckOfBit, Go, program
<1>3. CASE AckOfValueRead
  BY <1>1, <1>3 DEF AckOfValueRead, Go, program
<1>4. ~AckOfVerify
  BY <1>1 DEF AckOfVerify
<1>5. CASE AckOfByte
  BY <1>1, <1>5 DEF AckOfByte, Go, program
<1> QED
  BY <1>2, <1>3, <1>4, <1>5 DEF ACKRead

LEMMA AckRefuses ==
  ASSUME ACKRead, told = << >>, told' # << >>, ~told'[1].ok
  PROVE  /\ told'[1].of = asked /\ ~Acked
         /\ \/ ProgMode \in {"ProgModeBitVerify", "ProgModeByteVerify"}
            \/ ProgMode = "ProgModeByte" /\ (current_cv_value + 1) % 2^CVBits = 0
<1>1. ASSUME NEW state, NEW mode, NEW value, NEW bit, NEW count, Go(state, mode, value, bit, count)
      PROVE  FALSE
  BY <1>1 DEF Go, program
<1>2. ASSUME NEW ok, NEW mode, NEW value, NEW bit, NEW count, Answer(ok, mode, value, bit, count)
      PROVE  told'[1].of = asked /\ ~ok
  <2>1. told' = <<[ok |-> ok, value |-> value, of |-> asked]>>
    BY <1>2 DEF Answer, ops
  <2>2. told'[1].ok = ok /\ told'[1].of = asked
    BY <2>1
  <2> QED
    BY <2>2
<1>3. ~AckOfBit
  BY <1>1 DEF AckOfBit
<1>4. CASE AckOfValueRead
  BY <1>1, <1>2, <1>4 DEF AckOfValueRead
<1>5. CASE AckOfVerify
  BY <1>2, <1>5 DEF AckOfVerify
<1>6. CASE AckOfByte
  BY <1>1, <1>2, <1>6 DEF AckOfByte
<1> QED
  BY <1>3, <1>4, <1>5, <1>6 DEF ACKRead

(* In ProgACKRead a missing acknowledge says that the CV is another one.    *)
LEMMA NotAcked ==
  ASSUME TypeIInv, PacketInv, SentInv, RailsInv, ResultInv, MaxRepeats >= 3, ACKRead
  PROVE  /\ ProgMode = "ProgModeBit" => (Acked <=> present /\ BitOf(cv, current_cv_bit) = 1)
         /\ ProgMode # "ProgModeBit" => (Acked <=> present /\ cv = current_cv_value)
<1>1. railpower = "SERVICE" /\ ProgState = "ProgACKRead" /\ pending = << >> /\ repeats = 0
  BY AckGoesOn DEF PacketInv
<1>2. Acked <=> Confirms(TheTest)
  BY <1>1, AckMeans, ConfigurationAssumption
<1>3. ProgMode = "ProgModeBit" => (Answers(TheTest) <=> BitOf(cv, current_cv_bit) = 1)
  BY PacketFields DEF TheTest, Answers
<1>4. ProgMode # "ProgModeBit" => (Answers(TheTest) <=> cv = current_cv_value)
  BY PacketFields DEF TheTest, TheVerify, Answers
<1> QED
  BY <1>2, <1>3, <1>4 DEF Confirms

LEMMA NextValueInv ==
  ASSUME TypeIInv, PacketInv, SentInv, ClearedInv, RailsInv, ResultInv, AskedInv, ValueInv,
         MaxRepeats >= 3, [Next]_vars
  PROVE  ValueInv'
<1> SUFFICES ASSUME present' PROVE ValueInv'
  BY DEF ValueInv
<1>0. /\ cv \in CVRange /\ current_cv_value \in CVRange /\ current_cv_bit \in 0..CVBits
      /\ ProgressTypes /\ CVBits \in Nat \ {0}
  BY ConfigurationAssumption DEF TypeIInv, ProgressTypes, DecoderTypes
<1>1. CASE UNCHANGED <<ProgState, ProgMode, current_cv_value, current_cv_bit, cv, present>>
  BY <1>1 DEF ValueInv
<1>2. ASSUME ProgState' \notin {"ProgBitRead", "ProgVerifyCV", "ProgACKRead"} PROVE ValueInv'
  BY <1>2 DEF ValueInv
<1>3. CASE Interrupt
  <2>1. UNCHANGED <<ProgState, ProgMode, current_cv_value, current_cv_bit, present>>
    BY <1>3, InterruptUnchanged, HearsLeaves DEF decoder
  <2>2. CASE cv' = cv
    BY <1>1, <2>1, <2>2
  <2>3. CASE cv' # cv
    <3>1. ProgState = "ProgVerifyCV" /\ cv' = current_cv_value
      BY <1>3, <2>3, CVWritten
    <3>2. current_cv_value <= cv'
      BY <1>0, <3>1, Values
    <3> QED
      BY <2>1, <3>1, <3>2 DEF ValueInv
  <2> QED
    BY <2>2, <2>3
<1>4. CASE PulseEnds \/ Sense \/ Abort \/ FeedNothing \/ FeedReset \/ FeedNormal \/ UNCHANGED vars
  BY <1>1, <1>4 DEF PulseEnds, Sense, Abort, FeedNothing, FeedReset, FeedSend, FeedNormal, Feed, vars,
     device, progress, decoder
<1>5. CASE (\E r \in Requests : Request(r)) \/ WriteByte \/ End
  <2>1. CASE WriteByte
    BY <2>1 DEF WriteByte, ValueInv
  <2> QED
    BY <1>2, <1>5, <2>1 DEF Request, End, InState, progress
<1>6. CASE Start
  <2>1. /\ railpower = "SERVICE" /\ ProgState = "ProgStart" /\ cv' = cv /\ ProgMode' = ProgMode
        /\ current_cv_bit' = 0
        /\ ProgMode \in {"ProgModeBit", "ProgModeByte"} => current_cv_value' = 0
        /\ ProgState' \in {"ProgBitRead", "ProgWriteByte", "ProgVerifyCV"}
    BY <1>6 DEF Start, InState, Feed, decoder
  <2>2. ProgMode # "ProgModeBitVerify"
    <3>1. PICK r \in Requests : asked = <<r>>
      BY <2>1 DEF ClearedInv, ProgressTypes, TypeIInv
    <3>2. AskedFor(r) /\ r.op \in {"read", "verify", "write"}
      BY <2>1, <3>1, RequestsAssumption DEF AskedInv
    <3> QED
      BY <2>1, <3>2 DEF AskedFor
  <2>3. cv % 2^0 = 0 /\ 0 <= cv
    BY <1>0, AllBits, Values
  <2> QED
    BY <2>1, <2>2, <2>3 DEF ValueInv
<1>7. CASE BitRead \/ VerifyCV
  <2>1. UNCHANGED <<ProgMode, current_cv_value, current_cv_bit, cv, present>>
        /\ ProgState' = "ProgACKRead"
        /\ ProgState = IF ProgMode = "ProgModeBit" THEN "ProgBitRead" ELSE "ProgVerifyCV"
    BY <1>0, <1>7 DEF BitRead, VerifyCV, InState, FeedSend, Feed, decoder, ProgressTypes
  <2> QED
    BY <2>1 DEF ValueInv
<1>8. CASE ACKRead
  <2>1. cv' = cv /\ present' = present /\ ProgState = "ProgACKRead"
    BY <1>8, AckGoesOn DEF decoder
  <2>2. CASE ProgState' = "ProgEnde"
    BY <1>2, <2>2
  <2>3. CASE ProgState' # "ProgEnde" /\ ProgMode = "ProgModeBit"
    <3> DEFINE b == current_cv_bit
    <3>1. b \in 0..CVBits - 1 /\ current_cv_value = cv % 2^b
      BY <1>0, <2>1, <2>3 DEF ValueInv, ProgressTypes
    <3>2. Acked <=> BitOf(cv, b) = 1
      BY <1>8, <2>1, <2>3, NotAcked
    <3>3. /\ current_cv_bit' = b + 1
          /\ current_cv_value' = IF Acked THEN current_cv_value + 2^b ELSE current_cv_value
          /\ IF b + 1 < CVBits
             THEN ProgState' = "ProgBitRead" /\ ProgMode' = "ProgModeBit"
             ELSE ProgState' = "ProgVerifyCV" /\ ProgMode' = "ProgModeBitVerify"
      BY <1>8, <2>3, AckGoesOnWith
    <3>4. current_cv_value' = cv % 2^(b + 1)
      BY <1>0, <3>1, <3>2, <3>3, NextBit
    <3>5. CASE b + 1 < CVBits
      BY <2>1, <3>3, <3>4, <3>5 DEF ValueInv
    <3>6. CASE ~(b + 1 < CVBits)
      <4>1. b + 1 = CVBits
        BY <1>0, <3>1, <3>6
      <4>2. current_cv_value' = cv
        BY <1>0, <3>4, <4>1, AllBits
      <4> QED
        BY <2>1, <3>3, <3>6, <4>2 DEF ValueInv
    <3> QED
      BY <3>5, <3>6
  <2>4. CASE ProgState' # "ProgEnde" /\ ProgMode = "ProgModeBitVerify"
    <3>1. cv % 2^0 = 0
      BY <1>0, AllBits
    <3> QED
      BY <1>8, <2>1, <2>4, <3>1, AckGoesOnWith DEF ValueInv
  <2>5. CASE ProgState' # "ProgEnde" /\ ProgMode = "ProgModeByte"
    <3>1. current_cv_value <= cv /\ current_cv_value # cv
      BY <1>8, <2>1, <2>5, AckGoesOnWith, NotAcked DEF ValueInv
    <3>2. (current_cv_value + 1) % 2^CVBits = current_cv_value + 1 /\ current_cv_value + 1 <= cv
      BY <1>0, <3>1, NextValue
    <3> QED
      BY <1>8, <2>1, <2>5, <3>2, AckGoesOnWith DEF ValueInv
  <2> QED
    BY <1>8, <2>2, <2>3, <2>4, <2>5, AckGoesOnWith
<1> QED
  BY <1>3, <1>4, <1>5, <1>6, <1>7, <1>8 DEF Next, update

LEMMA NextAskedInv ==
  ASSUME TypeIInv, PacketInv, SentInv, ClearedInv, RailsInv, ResultInv, AskedInv, MaxRepeats >= 3,
         Without({"overlap", "abort"}), [Next]_vars
  PROVE  AskedInv'
<1> SUFFICES ASSUME NEW r \in Requests, asked' = <<r>>, ProgState' # "ProgEnde"
             PROVE  AskedFor(r)'
  BY DEF AskedInv
<1>0. /\ r.op \in {"read", "verify", "write"} /\ ProgressTypes /\ EngineTypes
      /\ 0 <= MaxRepeats - 2
  BY RequestsAssumption, ConfigurationAssumption DEF TypeIInv
<1>1. ASSUME UNCHANGED asked, ProgState # "ProgEnde" PROVE AskedFor(r)
  BY <1>1 DEF AskedInv
<1>2. CASE UNCHANGED <<asked, ProgState, ProgMode, current_cv_value, resets, pending, onAir, present, cv>>
  BY <1>1, <1>2 DEF AskedFor
<1>3. ASSUME r.op = "write", ProgState = "ProgVerifyCV", pending = << >>, present, AskedFor(r),
             repeats = 0
      PROVE  cv = current_cv_value
  <2>1. railpower = "SERVICE" /\ \A p : pending # <<p>>
    BY <1>3 DEF ClearedInv, Working
  <2>2. CASE onAir = Reset
    BY <1>3, <2>2 DEF AskedFor
  <2>3. CASE onAir = TheWrite
    <3>1. onAir \in ServicePacket /\ onAir.op = "write" /\ onAir.data = current_cv_value
      BY <1>0, <2>3, PacketFacts, PacketFields DEF TheWrite, ProgressTypes
    <3> QED
      BY <1>0, <1>3, <3>1 DEF RailsInv, HeardInv
  <2> QED
    BY <1>3, <2>1, <2>2, <2>3 DEF SentInv
<1>4. CASE Interrupt
  <2>1. UNCHANGED <<asked, ProgState, ProgMode, current_cv_value, resets, present>>
    BY <1>4, InterruptUnchanged, HearsLeaves DEF decoder
  <2>2. AskedFor(r)
    BY <1>1, <2>1
  <2>3. cv' = cv \/ (ProgState = "ProgVerifyCV" /\ cv' = current_cv_value)
    BY <1>4, CVWritten
  <2>4. pending' = << >>
    BY <1>0, <1>4 DEF PacketInv, EngineTypes, Interrupt, StartPacket, RepeatPacket, Engine!StartNew,
       Engine!StartDefault, Engine!Repeat
  <2>5. ASSUME r.op = "write", ProgState = "ProgVerifyCV", onAir' = Reset, present
        PROVE  cv' = current_cv_value
    <3>1. CASE Engine!Repeat
      BY <2>5, <3>1, PacketFacts DEF Engine!Repeat, PacketInv
    <3>2. CASE Engine!StartDefault
      <4>1. cv = current_cv_value
        BY <1>3, <2>2, <2>5, <3>2 DEF Engine!StartDefault
      <4> QED
        BY <2>3, <4>1
    <3>3. CASE Engine!StartNew
      <4>1. /\ onAir' = Head(pending) /\ pending # << >> /\ pending # <<Reset>>
            /\ railpower = "SERVICE"
        BY <2>2, <2>5, <3>3 DEF Engine!StartNew, AskedFor, ClearedInv, Working
      <4>2. \A p : pending = <<p>> => Head(pending) = p
        OBVIOUS
      <4>3. onAir' = TheWrite
        BY <2>5, <4>1, <4>2 DEF SentInv
      <4> QED
        BY <2>5, <4>3, PacketFacts, PacketFields DEF TheWrite
    <3> QED
      BY <1>4, <3>1, <3>2, <3>3 DEF Interrupt, StartPacket, RepeatPacket
  <2> QED
    BY <2>1, <2>2, <2>3, <2>4, <2>5 DEF AskedFor
<1>5. CASE PulseEnds \/ Sense \/ FeedNothing \/ UNCHANGED vars
  BY <1>2, <1>5 DEF PulseEnds, Sense, FeedNothing, Feed, vars, device, progress, program, engine,
     decoder
<1>6. ~Abort
  BY DEF Abort, Without
<1>7. ASSUME NEW q \in Requests, Request(q) PROVE AskedFor(r)'
  <2>1. /\ asked' = <<q>> /\ ProgState' = "ProgStart" /\ ProgMode' = ModeOf(q)
        /\ current_cv_value' = IF q.op = "read" THEN current_cv_value ELSE q.value
    BY <1>7 DEF Request, ops
  <2>2. q = r
    BY <2>1
  <2> QED
    BY <1>0, <2>1, <2>2 DEF AskedFor, ModeOf
<1>8. CASE FeedReset \/ FeedNormal
  <2>1. UNCHANGED <<asked, ProgState, ProgMode, current_cv_value, present, cv>>
    BY <1>8 DEF FeedReset, FeedNormal, FeedSend, Feed, program, progress, decoder
  <2>2. AskedFor(r)
    BY <1>1, <2>1
  <2>3. resets > 0 \/ ProgState \notin Working
    BY <1>8 DEF FeedReset, FeedNormal, ClearedInv
  <2> QED
    BY <1>8, <2>1, <2>2, <2>3 DEF AskedFor, Working
<1>9. CASE Start
  <2>1. /\ ProgState = "ProgStart" /\ asked' = asked /\ ProgMode' = ProgMode
        /\ ProgState' = CASE ProgMode = "ProgModeBit" -> "ProgBitRead"
                          [] ProgMode = "ProgModeWriteByte" -> "ProgWriteByte"
                          [] OTHER -> "ProgVerifyCV"
        /\ ProgMode \notin {"ProgModeBit", "ProgModeByte"} => current_cv_value' = current_cv_value
    BY <1>9 DEF Start, InState, program
  <2>2. AskedFor(r)
    BY <1>1, <2>1
  <2> QED
    BY <1>0, <2>1, <2>2 DEF AskedFor
<1>10. CASE BitRead \/ VerifyCV
  <2>1. /\ UNCHANGED <<asked, ProgMode, current_cv_value, present, cv>>
        /\ ProgState' = "ProgACKRead" /\ canAcceptPacket
        /\ ProgState = IF ProgMode = "ProgModeBit" THEN "ProgBitRead" ELSE "ProgVerifyCV"
    BY <1>0, <1>10 DEF BitRead, VerifyCV, InState, FeedSend, Feed, decoder, program, ProgressTypes
  <2>2. AskedFor(r)
    BY <1>1, <2>1
  <2>3. ASSUME r.op = "write", present PROVE cv = current_cv_value
    <3>1. ProgState = "ProgVerifyCV" /\ pending = << >> /\ repeats = 0
      BY <2>1, <2>2, <2>3 DEF AskedFor, PacketInv
    <3> QED
      BY <1>3, <2>2, <2>3, <3>1
  <2> QED
    BY <2>1, <2>2, <2>3 DEF AskedFor
<1>11. CASE WriteByte
  <2>1. /\ UNCHANGED <<asked, current_cv_value>> /\ ProgState = "ProgWriteByte"
        /\ ProgState' = "ProgVerifyCV" /\ ProgMode' = "ProgModeByteVerify"
        /\ resets = 0 /\ resets' = 0 /\ pending' = <<TheWrite>> /\ ProgMode = "ProgModeWriteByte"
    BY <1>0, <1>11 DEF WriteByte, InState, FeedSend, Engine!Send, program, ProgressTypes, TheWrite
  <2>2. AskedFor(r)
    BY <1>1, <2>1
  <2>3. r.op = "write" /\ pending' # << >> /\ pending' # <<Reset>>
    BY <1>0, <2>1, <2>2, PacketFacts, PacketFields DEF AskedFor, TheWrite
  <2> QED
    BY <2>1, <2>2, <2>3 DEF AskedFor
<1>12. CASE ACKRead
  <2>1. /\ asked' = asked /\ ProgState = "ProgACKRead"
        /\ ProgMode \in {"ProgModeBit", "ProgModeBitVerify", "ProgModeByte"}
        /\ ProgMode' \in {"ProgModeBit", "ProgModeBitVerify", "ProgModeByte"}
        /\ ProgState' = "ProgStart" => ProgMode' # "ProgModeBitVerify"
    BY <1>12, AckGoesOnWith, AckGoesOn
  <2>2. AskedFor(r)
    BY <1>1, <2>1
  <2> QED
    BY <1>0, <2>1, <2>2 DEF AskedFor
<1>13. ~End
  BY DEF End, InState, progress
<1> QED
  BY <1>4, <1>5, <1>6, <1>7, <1>8, <1>9, <1>10, <1>11, <1>12, <1>13 DEF Next, update

(* Nothing writes the CV once the answer is there, so that it stays true.   *)
LEMMA NextNackInv ==
  ASSUME TypeIInv, PacketInv, SentInv, ClearedInv, AnswerInv, RailsInv, ResultInv, ValueInv, AskedInv,
         NackInv, MaxRepeats >= 3, [Next]_vars
  PROVE  NackInv'
<1>1. CASE UNCHANGED <<told, present, cv>>
  BY <1>1 DEF NackInv
<1>2. ASSUME told' = << >> PROVE NackInv'
  BY <1>2 DEF NackInv
<1>3. CASE Interrupt
  <2>1. told' = told /\ present' = present
    BY <1>3, InterruptUnchanged, HearsLeaves DEF decoder
  <2>2. told # << >> => cv' = cv
    BY <1>3, CVWritten DEF AnswerInv
  <2> QED
    BY <1>1, <1>2, <2>1, <2>2
<1>4. CASE /\ ~Interrupt /\ ~ACKRead
  <2>1. UNCHANGED <<present, cv>>
    BY <1>4, OnlyInterrupts DEF PulseEnds, decoder, vars, device
  <2>2. told' = told \/ told' = << >>
    BY <1>4 DEF Next, PulseEnds, Request, ops, Abort, Sense, update, FeedNothing, FeedReset,
       FeedNormal, Start, BitRead, VerifyCV, WriteByte, End, program, vars, device
  <2> QED
    BY <1>1, <1>2, <2>1, <2>2
<1>5. CASE ACKRead
  <2>1. UNCHANGED <<present, cv>> /\ told = << >> /\ asked # << >> /\ ProgState = "ProgACKRead"
    BY <1>5, AckGoesOn DEF decoder, AnswerInv, ClearedInv
  <2>2. SUFFICES ASSUME told' # << >>, ~told'[1].ok, present
                 PROVE  told'[1].of[1].op = "verify" /\ told'[1].of[1].value # cv
    BY <2>1 DEF NackInv
  <2>3. told'[1].of = asked /\ ~Acked
    BY <1>5, <2>1, <2>2, AckRefuses
  <2>4. PICK r \in Requests : asked = <<r>>
    BY <2>1 DEF TypeIInv, ProgressTypes
  <2>5. AskedFor(r) /\ r.op \in {"read", "verify", "write"} /\ asked[1] = r
    BY <2>1, <2>4, RequestsAssumption DEF AskedInv
  <2>6. cv \in CVRange /\ current_cv_value \in CVRange
    BY DEF TypeIInv, DecoderTypes, ProgressTypes
  <2>7. ProgMode # "ProgModeBit" => cv # current_cv_value
    BY <1>5, <2>2, <2>3, NotAcked
  <2>8. ProgMode # "ProgModeBitVerify"
    BY <2>1, <2>2, <2>7 DEF ValueInv
  <2>9. ~(ProgMode = "ProgModeByte" /\ (current_cv_value + 1) % 2^CVBits = 0)
    BY <2>1, <2>2, <2>6, <2>7, NextValue DEF ValueInv
  <2>10. ProgMode = "ProgModeByteVerify"
    BY <1>5, <2>1, <2>2, <2>8, <2>9, AckRefuses
  <2>11. r.op = "verify" /\ r.value # cv
    BY <2>1, <2>2, <2>5, <2>7, <2>10 DEF AskedFor
  <2> QED
    BY <2>3, <2>4, <2>5, <2>11
<1> QED
  BY <1>3, <1>4, <1>5

LEMMA NextNackIInv ==
  ASSUME AnswerIInv, NackIInv, MaxRepeats >= 3, [Next]_vars
  PROVE  NackIInv'
<1>1. uses' = uses
  BY DEF Next, vars
<1>2. Calm' <=> Calm
  BY <1>1 DEF Calm, Without
<1>3. ASSUME Calm PROVE RailsInv' /\ ResultInv' /\ ValueInv' /\ AskedInv' /\ NackInv'
  <2>1. Attended /\ FastLoop /\ Without({"overlap", "abort"})
    BY <1>3 DEF Calm, Attended, Without, FastLoop
  <2>2. /\ TypeIInv /\ PacketInv /\ PulseInv /\ SentInv /\ AnswerInv /\ ClearedInv
        /\ RailsInv /\ ResultInv /\ ValueInv /\ AskedInv /\ NackInv
    BY <1>3, <2>1 DEF AnswerIInv, NackIInv
  <2> QED
    BY <2>1, <2>2, NextRailsInv, NextResultInv, NextValueInv, NextAskedInv, NextNackInv
<1> QED
  BY <1>2, <1>3 DEF NackIInv

LEMMA InitNackIInv == Init => NackIInv
<1> SUFFICES ASSUME Init PROVE NackIInv
  OBVIOUS
<1>1. onAir \notin ServicePacket /\ pending = << >> /\ ~asService /\ repeats = 0
  BY PacketFacts DEF Init, Engine!Init
<1>2. RailsInv
  BY <1>1 DEF Init, RailsInv
<1>3. ResultInv /\ ValueInv /\ AskedInv /\ NackInv
  BY DEF Init, ResultInv, ValueInv, AskedInv, NackInv
<1> QED
  BY <1>2, <1>3 DEF NackIInv

(* notifyCVNack is called for a reason: no decoder answers, or the value to   *)
(* be verified is another one.  A packet must come four times, so that the    *)
(* current can be measured while the second one is answered (smMaxRepeats is  *)
(* 10 when nobody sets it).                                                  *)
THEOREM RefusalIsTrue ==
  ASSUME MaxRepeats >= 3
  PROVE  Spec => []NackIsTrue
<1>1. NackIInv => NackIsTrue
  BY DEF NackIInv, NackIsTrue, Calm, NackInv
<1>2. Init => AnswerIInv /\ NackIInv
  BY InitAnswerIInv, InitNackIInv
<1>3. AnswerIInv /\ NackIInv /\ [Next]_vars => AnswerIInv' /\ NackIInv'
  BY NextAnswerIInv, NextNackIInv
<1> QED
  BY <1>1, <1>2, <1>3, PTL DEF Spec

=============================================================================
