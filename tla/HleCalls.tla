------------------------------- MODULE HleCalls --------------------------------
(***************************************************************************)
(* hle/device_calls.py and the code checks of hle/common.py: routines of   *)
(* the firmware whose result a hook at their entry supplies, and the DSP   *)
(* download of the MSM5500, whose completion is exposed where the routine  *)
(* polls for it.                                                           *)
(*                                                                         *)
(* Overlays put other code at the address of a routine, and the firmware   *)
(* may change it; a hook stays where it is.                                *)
(***************************************************************************)
EXTENDS Integers

CONSTANTS Width,     \* bits of a register
          Counter,   \* bits of the counter of the CRC routine
          Codes,     \* what may lie at the address: the routines, and other code
          Source     \* lengths up to which the CRC's source is memory

Routines == {"delay", "crc", "adc", "flash id", "probe", "ma2"}

HleCallsAssumption ==
  /\ Counter \in Nat \ {0} /\ Width \in Nat /\ Counter < Width
  /\ Routines \subseteq Codes /\ Source \in Nat

VARIABLE call

Signed == -(2^(Width - 1))..(2^(Width - 1) - 1)
Ready == [code |-> "none", value |-> 0]

TypeOK ==
  /\ call.code \in Codes /\ call.hook \in Routines
  /\ call.at \in {"caller", "entry", "inside"}
  /\ call.arg \in Signed /\ call.pending \in BOOLEAN
  /\ call.start \in {"zero", "ones"} /\ call.completion \in {"zero", "ones"}

Init ==
  \E hook \in Routines :
    call = [hook |-> hook, code |-> hook, at |-> "caller", arg |-> 0,
            result |-> Ready,        \* what the caller got, and from whom
            start |-> "ones", completion |-> "zero", pending |-> FALSE,
            phase |-> "idle",        \* where the download routine is
            starts |-> 0, completions |-> 0]

-------------------------------------------------------------------------------
(* What the routines do.                                                   *)

(* SUBS, BGT; the counter is tested after it was decremented.              *)
DelayEnd(arg) == IF arg > 0 THEN 0 ELSE arg - 1

(* The counter is signed at first, and cut after each byte.                *)
Bytes(arg) ==
  LET left[n \in 0..2^Counter] == IF n = 0 THEN arg ELSE (left[n - 1] - 1) % 2^Counter
  IN CHOOSE n \in 0..2^Counter : left[n] <= 0 /\ \A m \in 0..(n - 1) : left[m] > 0

Native(code, arg) ==
  CASE code = "delay" -> [code |-> code, value |-> DelayEnd(arg)]
    [] code = "crc"   -> [code |-> code, value |-> Bytes(arg)]
    [] OTHER          -> [code |-> code, value |-> 0]

-------------------------------------------------------------------------------
(* What the hooks do.                                                      *)

(* Wrong: the hook believes its address.                                   *)
Matches_Address == TRUE

(* _thumb_runtime_matches.                                                 *)
Matches == call.code = call.hook

(* Wrong: the length is taken as it is.                                    *)
Length_Raw(raw) == IF raw < 0 THEN 0 ELSE raw

Length(raw) == IF raw <= 0 THEN 0 ELSE ((raw - 1) % 2^Counter) + 1

Answers ==
  /\ Matches
  /\ call.hook = "adc" => call.arg = 0
  /\ call.hook = "crc" => Length(call.arg) <= Source

Answer ==
  CASE call.hook = "delay" -> 0
    [] call.hook = "crc"   -> Length(call.arg)
    [] OTHER               -> 0

Call(arg) ==
  /\ call.at = "caller" /\ call.phase = "idle"
  /\ call' = [call EXCEPT !.at = "entry", !.arg = arg, !.result = Ready]

Hook ==
  /\ call.at = "entry"
  /\ call' = IF Answers
             THEN [call EXCEPT !.at = "caller", !.result = [code |-> call.hook, value |-> Answer]]
             ELSE [call EXCEPT !.at = "inside"]

Return ==
  /\ call.at = "inside"
  /\ call' = [call EXCEPT !.at = "caller", !.result = Native(call.code, call.arg)]

LoadCode(code) == call.at = "caller" /\ call' = [call EXCEPT !.code = code, !.result = Ready]

-------------------------------------------------------------------------------
(* The download.                                                           *)

Armed(exact) == exact /\ call.start = "ones" /\ call.completion = "zero"

(* A zero is written to the start register, by the routine or elsewhere.   *)
DmdStart(exact) ==
  /\ call.phase = "idle"
  /\ call' = [call EXCEPT !.pending = @ \/ Armed(exact), !.start = "zero",
                          !.phase = IF exact THEN "waits" ELSE "idle",
                          !.starts = IF exact THEN 1 ELSE @, !.completions = IF exact THEN 0 ELSE @]

(* Wrong: a completion stays pending once it was exposed.                  *)
PendingAfter_Still == call.pending

PendingAfter == FALSE

(* The poll, whose hook runs before the read.                              *)
DmdPoll ==
  /\ call.phase = "waits"
  /\ LET completes == call.pending
         completion == IF completes THEN "ones" ELSE call.completion
     IN call' = [call EXCEPT
          !.completion = IF completion = "ones" THEN "zero" ELSE @,
          !.pending = PendingAfter, !.completions = @ + IF completes THEN 1 ELSE 0,
          !.phase = IF completion = "ones" THEN "idle" ELSE "waits"]

(* The DSP's words are written from outside the routine.                   *)
DmdWritten(start, completion) ==
  /\ call.phase = "idle"
  /\ call' = [call EXCEPT !.start = start, !.completion = completion]

Next ==
  \/ \E arg \in Signed : Call(arg)
  \/ Hook \/ Return
  \/ \E code \in Codes : LoadCode(code)
  \/ \E exact \in BOOLEAN : DmdStart(exact)
  \/ DmdPoll
  \/ \E start, completion \in {"zero", "ones"} : DmdWritten(start, completion)

Spec == Init /\ [][Next]_call

-------------------------------------------------------------------------------
(* Properties.                                                             *)

(* The caller gets what the code at the address would have given it: a     *)
(* delay that was asked for ends with 0, and the CRC goes over as many     *)
(* bytes.                                                                  *)
CallsAnswerAsNative ==
  call.at = "caller" /\ call.result # Ready /\ ~(call.hook = "delay" /\ call.arg <= 0) =>
    call.result = Native(call.code, call.arg)

(* A completion answers the start before it, and none is kept for a later  *)
(* one.                                                                    *)
CompletionAnswersStart ==
  /\ call.completions <= call.starts
  /\ call.phase = "idle" => ~call.pending
===============================================================================
