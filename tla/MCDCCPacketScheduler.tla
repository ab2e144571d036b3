------------------------ MODULE MCDCCPacketScheduler ------------------------
(***************************************************************************)
(* Instances of the scheduler for TLC.  Each application uses one group of *)
(* calls, the ones that meet in the same queues; a run takes them all.     *)
(***************************************************************************)
EXTENDS DCCPacketScheduler

Silent ==
  [loco |-> {3}, speed |-> {}, function |-> {}, queried |-> {}, turnout |-> {},
   activ |-> {TRUE}, signal |-> {}, binaryState |-> {}, pomOrder |-> {}, power |-> {},
   eStop |-> FALSE, driveInEStop |-> FALSE]

(* Two locos, with emergency stops.                                        *)
Driving ==
  [Silent EXCEPT !.loco = {3, 4}, !.speed = {"stop", "go"},
                 !.power = {"ON"}, !.eStop = TRUE]

(* Orders for a loco, with emergency stops between them.                   *)
Stopping ==
  [Silent EXCEPT !.speed = {"stop", "go"}, !.power = {"ON", "ESTOP"}, !.eStop = TRUE]

(* Functions of two groups, and a binary state.                            *)
Switching ==
  [Silent EXCEPT !.speed = {"go"}, !.function = {0, 5}, !.binaryState = {"on"}]

(* Speeds and functions, with shorts.                                      *)
Shorts ==
  [Silent EXCEPT !.speed = {"go"}, !.function = {1}, !.power = {"ON", "SHORT"}]

(* The outputs of a turnout are switched on and off while a loco drives.   *)
Pulses == [Silent EXCEPT !.speed = {"go"}, !.turnout = {0}, !.activ = BOOLEAN]

(* Two turnouts and a signal, all of one packet address.                   *)
Accessories == [Silent EXCEPT !.turnout = {0, 1}, !.signal = {0}]

(* Emergency stops among turnout orders and a binary state, which share     *)
(* e_stop_queue with them, while a loco drives.                            *)
Emergencies ==
  [Silent EXCEPT !.speed = {"go"}, !.turnout = {0}, !.binaryState = {"on"},
                 !.power = {"ON"}, !.eStop = TRUE]

(* Programming on the main and signals, with emergency stops.              *)
Programs ==
  [Silent EXCEPT !.loco = {3, 4}, !.pomOrder = {"cv1"}, !.signal = {0}, !.eStop = TRUE]

(* More locos than slots: two are driven, one is asked about.              *)
Evictions == [Silent EXCEPT !.loco = {3, 4}, !.speed = {"go"}, !.queried = {9}]

AllApplications ==
  {Driving, Stopping, Switching, Shorts, Pulses, Accessories, Emergencies, Programs, Evictions}

-----------------------------------------------------------------------------
StoppedForGood == {[Silent EXCEPT !.speed = {"stop", "go"}, !.eStop = TRUE]}
=============================================================================
