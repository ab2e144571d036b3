---------------------------- MODULE MCServiceMode ----------------------------
(* Instances of ServiceMode for TLC: a CV of two bits, three repeats.       *)
EXTENDS ServiceMode

Reads == {[op |-> "read", value |-> 0]}
Anything == Reads \union [op : {"verify", "write"}, value : {2}]

(* The plain use, each of the others by itself, and two together.           *)
SomeUses ==
  {{}} \union {{use} : use \in AllUses}
    \union {{"slowLoop", "callback"}, {"overlap", "abort"}}
EarlyEngine == {{"earlyEngine"}}
=============================================================================
