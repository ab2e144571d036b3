----------------------------- MODULE ServiceMode -----------------------------
(***************************************************************************)
(* CV programming: the requests opsReadDirectCV, opsVerifyDirectCV and     *)
(* opsProgDirectCV, the part of DCCPacketScheduler::update() that carries   *)
(* them out with reset, verify and write packets, and the detection of the *)
(* decoder's acknowledge pulse.  The packets go through the engine of      *)
(* PacketEngineSpec; its interrupt may come anywhere between the           *)
(* measurement at the start of update() and the packet chosen at its end.  *)
(*                                                                         *)
(* One CV and one decoder, which is external: it acts when it has heard a  *)
(* Service Mode packet twice and answers with a pulse shorter than one     *)
(* packet.  CV numbers above 1023, which each request refuses at once with  *)
(* notifyCVNack, are left out.                                             *)
(***************************************************************************)
EXTENDS Integers, Sequences, FiniteSets

CONSTANTS
  CVBits,             (* bits of a CV: 8                                    *)
  RSTsRepeat, RSTcRepeat,
  CV_BIT_MAX_TRY_READ, CV_BYTE_MAX_TRY_READ,
  ACK_SENSE_VALUE,
  QuietLoad,          (* external: the current without a pulse ...          *)
  PulseLoad,          (* ... and with one                                   *)
  MaxRepeats,         (* smMaxRepeats                                       *)
  Decoders,           (* external: whether there is a decoder               *)
  (* what the program around update() does *)
  Requests,           (* the requests it makes: [op, value]                 *)
  ReadModes,          (* values of ProgReadMode                             *)
  Programs            (* what else it does: subsets of AllUses              *)

AllUses == {
  "earlyEngine",       (* the engine takes a packet while one is repeated    *)
  "slowLoop",          (* update() runs less often than every millisecond    *)
  "overlap",           (* a request is made before the last was answered     *)
  "callback",          (* one is made in notifyCVVerify or notifyCVNack      *)
  "abort"}             (* the power is set to ON before the answer           *)

ASSUME ProgramsAssumption ==
  /\ Programs \subseteq SUBSET AllUses
  /\ ReadModes \subseteq {1, 2, 3}
  /\ Decoders \subseteq BOOLEAN

(* The packets of a request come at least once; a pulse is higher than what  *)
(* the detection takes for one.                                              *)
ASSUME ConfigurationAssumption ==
  /\ {CVBits, RSTsRepeat, RSTcRepeat, MaxRepeats, CV_BIT_MAX_TRY_READ} \subseteq Nat \ {0}
  /\ {ACK_SENSE_VALUE, QuietLoad, PulseLoad} \subseteq Nat
  /\ PulseLoad > QuietLoad + ACK_SENSE_VALUE

(* The arithmetic of powers of two, which is not known to the prover.        *)
ASSUME PowersOfTwo ==
  /\ 2^0 = 1
  /\ \A b \in 0..CVBits : 2^b \in Nat \ {0} /\ 2^b <= 2^CVBits /\ 2^(b + 1) = 2 * 2^b

VARIABLES
  uses,            (* one of Programs                                       *)
  (* DCCPacketScheduler *)
  railpower, ProgState, ProgMode, ProgReadMode,
  current_cv_value, current_cv_bit, cv_read_count,
  LASTVAmpSence, current_ack_status,
  resets,          (* reset packets left in ops_programmming_queue          *)
  phase,           (* between two calls of update(), or within one          *)
  (* the packet engine *)
  canAcceptPacket, pending, asService, onAir, repeats, service,
  (* external: the decoder *)
  present, cv, listening, heard, times, pulse,
  sampled,         (* the current was measured since it last changed        *)
  (* the program *)
  asked,           (* << >>, or the request that waits for its answer       *)
  told             (* << >>, or the last request with the answer it got     *)

progress == <<ProgState, ProgMode, current_cv_value, current_cv_bit, cv_read_count>>
ack == <<LASTVAmpSence, current_ack_status>>
engine == <<pending, asService, onAir, repeats, service>>
decoder == <<present, cv, listening, heard, times, pulse>>
program == <<asked, told>>
device == <<railpower, progress, ProgReadMode, ack, resets, phase, canAcceptPacket, engine,
            decoder, sampled, program>>
vars == <<uses, device>>

FastLoop == "slowLoop" \notin uses
AcceptEarly == "earlyEngine" \in uses

CVRange == 0..2^CVBits - 1
BitOf(v, b) == (v \div 2^b) % 2

ASSUME RequestsAssumption ==
  Requests \subseteq [op : {"read", "verify", "write"}, value : CVRange]

Idle == [op |-> "idle", data |-> 0]
Reset == [op |-> "reset", data |-> 0]
BitPacket(b) == [op |-> "bit", data |-> b]
VerifyPacket(v) == [op |-> "verify", data |-> v]
WritePacket(v) == [op |-> "write", data |-> v]
ServicePacket == {BitPacket(b) : b \in 0..CVBits - 1}
                   \union {VerifyPacket(v) : v \in CVRange}
                   \union {WritePacket(v) : v \in CVRange}
Packet == ServicePacket \union {Idle, Reset}

Engine == INSTANCE PacketEngineSpec

(* After setup() and its reset packets.                                     *)
Init ==
  /\ uses \in Programs
  /\ railpower = "ON"
  /\ ProgState = "ProgStart" /\ ProgMode = "none"
  /\ ProgReadMode \in ReadModes
  /\ current_cv_value = 0 /\ current_cv_bit = 0 /\ cv_read_count = 0
  /\ LASTVAmpSence = 0 /\ current_ack_status = "NON_PROG_OP"
  /\ resets = 0
  /\ phase = "loop"
  /\ canAcceptPacket = TRUE
  /\ Engine!Init
  /\ present \in Decoders
  /\ cv \in CVRange
  /\ listening = FALSE /\ heard = Idle /\ times = 0 /\ pulse = FALSE
  /\ sampled = FALSE
  /\ asked = << >> /\ told = << >>

-----------------------------------------------------------------------------
(* The decoder has heard packet p to its end.  It obeys from the first      *)
(* reset packet to the first packet of normal operation.                    *)
Answers(p) ==
  CASE p.op = "bit" -> BitOf(cv, p.data) = 1
    [] p.op = "verify" -> p.data = cv
    [] p.op = "write" -> TRUE
    [] OTHER -> FALSE

Hears(p) ==
  /\ heard' = p
  /\ times' = IF p # heard THEN 1 ELSE IF times < 3 THEN times + 1 ELSE times
  /\ listening' = (p = Reset \/ (listening /\ p \in ServicePacket))
  /\ LET acts == present /\ listening /\ p \in ServicePacket /\ times' = 2
     IN  /\ cv' = IF acts /\ p.op = "write" THEN p.data ELSE cv
         /\ pulse' = (acts /\ Answers(p))
  /\ UNCHANGED present

(* The interrupt at the end of a packet starts the next one.  The engines   *)
(* differ in when they ask for more.                                        *)
PacketEnds ==
  /\ ~pulse
  /\ FastLoop => sampled
  /\ IF onAir = << >> THEN UNCHANGED decoder ELSE Hears(onAir)
  /\ sampled' = FALSE
  /\ UNCHANGED <<railpower, progress, ProgReadMode, ack, resets, phase, program>>

StartPacket ==
  /\ PacketEnds
  /\ Engine!StartNew \/ Engine!StartDefault
  /\ canAcceptPacket' = IF AcceptEarly \/ repeats' = 0 THEN TRUE ELSE canAcceptPacket

RepeatPacket ==
  /\ PacketEnds
  /\ Engine!Repeat
  /\ canAcceptPacket' = IF ~AcceptEarly /\ repeats' = 0 THEN TRUE ELSE canAcceptPacket

PulseEnds ==
  /\ pulse
  /\ FastLoop => sampled
  /\ pulse' = FALSE
  /\ sampled' = FALSE
  /\ UNCHANGED <<railpower, progress, ProgReadMode, ack, resets, phase, canAcceptPacket,
                 engine, present, cv, listening, heard, times, program>>

-----------------------------------------------------------------------------
(* The requests.                                                            *)
ModeOf(r) ==
  CASE r.op = "write" -> "ProgModeWriteByte"
    [] r.op = "verify" -> "ProgModeByteVerify"
    [] r.op = "read" -> IF ProgReadMode = 2 THEN "ProgModeByte" ELSE "ProgModeBit"

ops(r) ==
  /\ railpower' = "SERVICE"
  /\ ProgMode' = ModeOf(r)
  /\ asked' = <<r>>
  /\ told' = << >>

Request(r) ==
  /\ phase = "loop"
  /\ asked = << >> \/ "overlap" \in uses
  /\ ops(r)
  /\ ProgState' = "ProgStart"
  /\ current_cv_value' = IF r.op = "read" THEN current_cv_value ELSE r.value
  /\ UNCHANGED <<current_cv_bit, cv_read_count, ProgReadMode, ack, resets, phase,
                 canAcceptPacket, engine, decoder, sampled>>

(* setpower(ON): nothing else of the request is undone.                     *)
Abort ==
  /\ "abort" \in uses
  /\ phase = "loop"
  /\ railpower = "SERVICE"
  /\ railpower' = "ON"
  /\ asked' = << >>
  /\ UNCHANGED <<progress, ProgReadMode, ack, resets, phase, canAcceptPacket, engine,
                 decoder, sampled, told>>

-----------------------------------------------------------------------------
(* update(), first part: look for the pulse.                                *)
Load == IF pulse THEN PulseLoad ELSE QuietLoad
isServiceModeRepeating == service /\ repeats > 0
isFirstServiceModePacket == service /\ repeats = MaxRepeats
AboveBase == Load > LASTVAmpSence + ACK_SENSE_VALUE

(* How long the pulse seemed: a loop that is too slow measures anything.    *)
Measured ==
  IF FastLoop THEN {"ACK_READ_SUCCESS"}
  ELSE {"ACK_READ_SUCCESS", "ACK_READ_FAIL", "WAIT_FOR_ACK"}

TakeBase ==
  /\ isServiceModeRepeating /\ isFirstServiceModePacket
  /\ current_ack_status # "WAIT_FOR_ACK"
  /\ LASTVAmpSence' = Load
  /\ current_ack_status' = "WAIT_FOR_ACK"

SeeRise ==
  /\ isServiceModeRepeating /\ ~isFirstServiceModePacket
  /\ AboveBase /\ current_ack_status = "WAIT_FOR_ACK"
  /\ current_ack_status' = "ACK_DETECTED"
  /\ UNCHANGED LASTVAmpSence

SeeFall ==
  /\ isServiceModeRepeating /\ ~isFirstServiceModePacket
  /\ ~AboveBase /\ current_ack_status = "ACK_DETECTED"
  /\ current_ack_status' \in Measured
  /\ UNCHANGED LASTVAmpSence

NothingToSee ==
  /\ \/ ~isServiceModeRepeating
     \/ /\ isFirstServiceModePacket
        /\ current_ack_status = "WAIT_FOR_ACK"
     \/ /\ ~isFirstServiceModePacket
        /\ current_ack_status # (IF AboveBase THEN "WAIT_FOR_ACK" ELSE "ACK_DETECTED")
  /\ UNCHANGED ack

Sense ==
  /\ phase = "loop"
  /\ phase' = "feed"
  /\ TakeBase \/ SeeRise \/ SeeFall \/ NothingToSee
  /\ sampled' = TRUE
  /\ UNCHANGED <<railpower, progress, ProgReadMode, resets, canAcceptPacket, engine,
                 decoder, program>>

-----------------------------------------------------------------------------
(* update(), second part: choose the next packet.                           *)
Feed ==
  /\ phase = "feed"
  /\ phase' = "loop"
  /\ UNCHANGED <<ProgReadMode, decoder, sampled>>

FeedSend(p) ==
  /\ Feed
  /\ canAcceptPacket
  /\ Engine!Send(p)
  /\ canAcceptPacket' = FALSE

FeedNothing ==
  /\ Feed
  /\ ~canAcceptPacket
  /\ UNCHANGED <<railpower, progress, ack, resets, canAcceptPacket, engine, program>>

(* Deliberate error: the reset packets are never used up.                   *)
FeedResetAgain ==
  /\ resets > 0
  /\ FeedSend(Reset)
  /\ UNCHANGED <<railpower, progress, ack, resets, program>>

FeedReset ==
  /\ resets > 0
  /\ FeedSend(Reset)
  /\ resets' = resets - 1
  /\ UNCHANGED <<railpower, progress, ack, program>>

(* Deliberate error: the engine is left in Service Mode.                    *)
FeedNormalOnly ==
  /\ resets = 0 /\ railpower # "SERVICE"
  /\ FeedSend(Idle)
  /\ UNCHANGED <<railpower, progress, ack, resets, program>>

(* leaveServiceMode(), then a packet of normal operation.                   *)
FeedNormal ==
  /\ resets = 0 /\ railpower # "SERVICE"
  /\ Feed /\ canAcceptPacket
  /\ service' = FALSE /\ repeats' = 0
  /\ pending' = <<Idle>> /\ asService' = FALSE /\ canAcceptPacket' = FALSE
  /\ UNCHANGED <<railpower, progress, ack, resets, onAir, program>>

InState(state) == resets = 0 /\ railpower = "SERVICE" /\ ProgState = state

(* Deliberate error: the decoders are not reset first.                      *)
StartWithoutResets ==
  /\ InState("ProgStart")
  /\ Feed /\ canAcceptPacket
  /\ ProgState' = CASE ProgMode = "ProgModeBit" -> "ProgBitRead"
                    [] ProgMode = "ProgModeWriteByte" -> "ProgWriteByte"
                    [] OTHER -> "ProgVerifyCV"
  /\ current_cv_value' = IF ProgMode \in {"ProgModeBit", "ProgModeByte"}
                         THEN 0 ELSE current_cv_value
  /\ current_cv_bit' = 0 /\ cv_read_count' = 0 /\ LASTVAmpSence' = 0
  /\ service' = TRUE
  /\ UNCHANGED <<railpower, ProgMode, current_ack_status, resets, program, canAcceptPacket,
                 pending, asService, onAir, repeats>>

(* enterServiceMode(), then the first of RSTsRepeat reset packets.          *)
Start ==
  /\ InState("ProgStart")
  /\ Feed /\ canAcceptPacket
  /\ ProgState' = CASE ProgMode = "ProgModeBit" -> "ProgBitRead"
                    [] ProgMode = "ProgModeWriteByte" -> "ProgWriteByte"
                    [] OTHER -> "ProgVerifyCV"
  /\ current_cv_value' = IF ProgMode \in {"ProgModeBit", "ProgModeByte"}
                         THEN 0 ELSE current_cv_value
  /\ current_cv_bit' = 0 /\ cv_read_count' = 0 /\ LASTVAmpSence' = 0
  /\ resets' = RSTsRepeat - 1
  /\ service' = TRUE
  /\ pending' = <<Reset>> /\ asService' = FALSE /\ canAcceptPacket' = FALSE
  /\ UNCHANGED <<railpower, ProgMode, current_ack_status, onAir, repeats, program>>

BitRead ==
  /\ InState("ProgBitRead")
  /\ FeedSend(BitPacket(current_cv_bit))
  /\ ProgState' = "ProgACKRead"
  /\ UNCHANGED <<railpower, ProgMode, current_cv_value, current_cv_bit, cv_read_count, ack,
                 resets, program>>

VerifyCV ==
  /\ InState("ProgVerifyCV")
  /\ FeedSend(VerifyPacket(current_cv_value))
  /\ ProgState' = "ProgACKRead"
  /\ UNCHANGED <<railpower, ProgMode, current_cv_value, current_cv_bit, cv_read_count, ack,
                 resets, program>>

WriteByte ==
  /\ InState("ProgWriteByte")
  /\ FeedSend(WritePacket(current_cv_value))
  /\ ProgState' = "ProgVerifyCV"
  /\ ProgMode' = "ProgModeByteVerify"
  /\ UNCHANGED <<railpower, current_cv_value, current_cv_bit, cv_read_count, ack, resets,
                 program>>

-----------------------------------------------------------------------------
(* ProgACKRead.                                                             *)
Acked == current_ack_status = "ACK_READ_SUCCESS"

Go(state, mode, value, bit, count) ==
  /\ ProgState' = state /\ ProgMode' = mode
  /\ current_cv_value' = value /\ current_cv_bit' = bit /\ cv_read_count' = count
  /\ resets' = RSTcRepeat - 1
  /\ UNCHANGED <<railpower, program>>

(* notifyCVVerify or notifyCVNack, then ProgEnde.  A request made in the    *)
(* callback has set ProgState before that.                                  *)
Answer(ok, mode, value, bit, count) ==
  /\ resets' = RSTsRepeat - 1
  /\ ProgState' = "ProgEnde"
  /\ current_cv_bit' = bit /\ cv_read_count' = count
  /\ \/ /\ told' = <<[ok |-> ok, value |-> value, of |-> asked]>>
        /\ asked' = << >>
        /\ ProgMode' = mode
        /\ current_cv_value' = value
        /\ UNCHANGED railpower
     \/ /\ "callback" \in uses
        /\ \E r \in Requests :
             /\ ops(r)
             /\ current_cv_value' = IF r.op = "read" THEN value ELSE r.value

AckOfBit ==
  /\ ProgMode = "ProgModeBit"
  /\ LET value == IF Acked THEN current_cv_value + 2^current_cv_bit ELSE current_cv_value
         bit == current_cv_bit + 1
     IN  IF bit < CVBits
         THEN Go("ProgBitRead", "ProgModeBit", value, bit, cv_read_count)
         ELSE Go("ProgVerifyCV", "ProgModeBitVerify", value, bit, cv_read_count)

AckOfValueRead ==
  /\ ProgMode = "ProgModeBitVerify"
  /\ LET tries == cv_read_count + 1
     IN  \/ /\ Acked
           /\ Answer(TRUE, "ProgModeBit", current_cv_value, 0, cv_read_count)
        \/ /\ ~Acked /\ current_cv_value = 0
           /\ Answer(FALSE, "ProgModeBit", 0, 0, tries)
        \/ /\ ~Acked /\ current_cv_value > 0 /\ tries # CV_BIT_MAX_TRY_READ
           /\ Go("ProgBitRead", "ProgModeBit", 0, 0, tries)
        \/ /\ ~Acked /\ current_cv_value > 0 /\ tries = CV_BIT_MAX_TRY_READ
           /\ IF ProgReadMode = 3
              THEN Go("ProgStart", "ProgModeByte", 0, 0, tries)
              ELSE Answer(FALSE, "ProgModeBit", 0, 0, tries)

AckOfVerify ==
  /\ ProgMode = "ProgModeByteVerify"
  /\ Answer(Acked, ProgMode, current_cv_value, current_cv_bit, cv_read_count)

(* Deliberate error: the next value is tried after the right one, too.      *)
AckOfByteOneLate ==
  /\ ProgMode = "ProgModeByte"
  /\ LET next == (current_cv_value + 1) % 2^CVBits
         tries == cv_read_count + 1
     IN  \/ /\ Acked
            /\ Answer(TRUE, ProgMode, next, current_cv_bit, cv_read_count)
         \/ /\ ~Acked /\ next # 0
            /\ Go("ProgVerifyCV", ProgMode, next, current_cv_bit, cv_read_count)
         \/ /\ ~Acked /\ next = 0
            /\ IF tries = CV_BYTE_MAX_TRY_READ
               THEN Answer(FALSE, ProgMode, next, current_cv_bit, tries)
               ELSE Go("ProgStart", ProgMode, next, current_cv_bit, tries)

AckOfByte ==
  /\ ProgMode = "ProgModeByte"
  /\ LET next == (current_cv_value + 1) % 2^CVBits
         tries == cv_read_count + 1
     IN  \/ /\ Acked
            /\ Answer(TRUE, ProgMode, current_cv_value, current_cv_bit, cv_read_count)
         \/ /\ ~Acked /\ next # 0
            /\ Go("ProgVerifyCV", ProgMode, next, current_cv_bit, cv_read_count)
         \/ /\ ~Acked /\ next = 0
            /\ IF tries = CV_BYTE_MAX_TRY_READ
               THEN Answer(FALSE, ProgMode, next, current_cv_bit, tries)
               ELSE Go("ProgStart", ProgMode, next, current_cv_bit, tries)

(* What the acknowledge meant, then reset packets before anything else.     *)
ACKRead ==
  /\ InState("ProgACKRead")
  /\ FeedSend(Reset)
  /\ LASTVAmpSence' = 0
  /\ current_ack_status' = "NON_PROG_OP"
  /\ AckOfBit \/ AckOfValueRead \/ AckOfVerify \/ AckOfByte

End ==
  /\ InState("ProgEnde")
  /\ Feed /\ canAcceptPacket
  /\ railpower' = "ON"
  /\ Engine!Leave
  /\ UNCHANGED <<progress, ack, resets, canAcceptPacket, program>>

update ==
  \/ FeedNothing
  \/ FeedReset
  \/ FeedNormal
  \/ Start
  \/ BitRead
  \/ VerifyCV
  \/ WriteByte
  \/ ACKRead
  \/ End

Interrupt == StartPacket \/ RepeatPacket

Next ==
  /\ UNCHANGED uses
  /\ \/ Interrupt
     \/ PulseEnds
     \/ \E r \in Requests : Request(r)
     \/ Abort
     \/ Sense
     \/ update

(* loop() calls update() for ever, the interrupt keeps coming, a pulse ends. *)
Spec ==
  /\ Init /\ [][Next]_vars
  /\ WF_device(Interrupt) /\ WF_device(PulseEnds) /\ WF_device(Sense)
  /\ WF_device(update)

-----------------------------------------------------------------------------
TypeOK ==
  /\ railpower \in {"ON", "SERVICE"}
  /\ ProgState \in {"ProgStart", "ProgACKRead", "ProgBitRead", "ProgVerifyCV",
                    "ProgWriteByte", "ProgEnde"}
  /\ ProgMode \in {"none", "ProgModeBit", "ProgModeBitVerify", "ProgModeByte",
                   "ProgModeByteVerify", "ProgModeWriteByte"}
  /\ ProgReadMode \in ReadModes
  /\ current_cv_value \in CVRange /\ current_cv_bit \in 0..CVBits
  /\ cv_read_count \in 0..CV_BIT_MAX_TRY_READ
  /\ LASTVAmpSence \in {0, QuietLoad, PulseLoad}
  /\ current_ack_status \in {"NON_PROG_OP", "WAIT_FOR_ACK", "ACK_DETECTED",
                             "ACK_READ_SUCCESS", "ACK_READ_FAIL"}
  /\ resets \in Nat
  /\ phase \in {"loop", "feed"}
  /\ canAcceptPacket \in BOOLEAN
  /\ pending \in {<< >>} \union {<<p>> : p \in Packet}
  /\ onAir \in Packet \union {<< >>}
  /\ asService \in BOOLEAN /\ service \in BOOLEAN
  /\ repeats \in 0..MaxRepeats
  /\ cv \in CVRange /\ heard \in Packet /\ times \in 0..3
  /\ {present, listening, pulse, sampled} \subseteq BOOLEAN
  /\ asked \in {<< >>} \union {<<r>> : r \in Requests}

(* The properties below hold for every program that avoids the uses they     *)
(* name, and fail with each of these.                                        *)
Without(S) == uses \intersect S = {}

(* A value that notifyCVVerify reports is the value of the CV.              *)
VerifiedValueIsTrue == told # << >> /\ told[1].ok => present /\ told[1].value = cv

AnswerIsTrue ==
  Without({"earlyEngine"}) /\ (FastLoop \/ Without({"overlap", "abort"}))
  => VerifiedValueIsTrue

(* notifyCVNack is called only when nobody is there to answer, or when the  *)
(* value to be verified is really another one.                              *)
NackIsTrue ==
  Without({"earlyEngine", "slowLoop", "overlap", "abort"})
  /\ told # << >> /\ ~told[1].ok /\ told[1].of # << >> =>
    \/ ~present
    \/ told[1].of[1].op = "verify" /\ told[1].of[1].value # cv

(* A request that was accepted is answered.                                 *)
RequestsAnswered ==
  Without({"callback", "overlap"}) /\ asked # << >> ~> asked = << >>

(* When there are no more requests, normal operation comes back.            *)
NormalAgain == <>[](asked = << >>) => <>[](~service /\ railpower = "ON")

=============================================================================
