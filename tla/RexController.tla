--------------------------- MODULE RexController ---------------------------
(***************************************************************************)
(* The timer interrupt of a REX handset (soc/rex.py) and the firmware that  *)
(* uses it.  The emulator raises a 5 ms tick in a shadow of the interrupt   *)
(* controller's status register; the block hook delivers it at a block      *)
(* boundary; the firmware's handler reads and acknowledges it through       *)
(* memory hooks.  The addresses of handler, callback and registers (the     *)
(* route) are known from static detection, or a gate promotes a candidate   *)
(* once the running firmware is seen to have installed it.                  *)
(*                                                                          *)
(* Abstractions: the retired instructions, which grow only between two      *)
(* chunks of guest code, appear as the distances `wait` and `retry` to the  *)
(* counts the code compares them with; only the tick's bit of the first     *)
(* status bank is ever set, so `pending` is that bit; a piece of firmware   *)
(* state the code compares byte by byte is one Boolean of `guest`.          *)
(***************************************************************************)
EXTENDS Integers

CONSTANTS
  Interval,     \* REX_TICK_INTERVAL, in units of the shortest chunk
  Firmwares     \* what detection may have found, see FirmwareType

ASSUME IntervalAssumption == Interval \in Nat \ {0}

Gates == {"candidate", "copied"}

\* fields: the route fields of the configuration after detection; arm: it names
\* the arm register too; candidate: the class of an accepted static candidate;
\* copied: an accepted copied-vector observation; experimental: the user's
\* opt-in; wellformed: the metadata of candidate and observation agree.
FirmwareType ==
  [fields : {"none", "call", "bare", "route", "direct"}, arm : BOOLEAN,
   candidate : {"none", "c80", "m620"}, copied : BOOLEAN,
   experimental : BOOLEAN, wellformed : BOOLEAN]

ASSUME FirmwareAssumption ==
  /\ Firmwares \subseteq FirmwareType
  /\ \A f \in Firmwares : f.arm => f.fields = "route"

(* What detection finds on the handsets the repository names, one record for *)
(* each way a tick can come about, and the combinations in which two gates   *)
(* compete or a gate meets fields that are already set.                      *)
Plain == [fields |-> "none", arm |-> FALSE, candidate |-> "none",
          copied |-> FALSE, experimental |-> FALSE, wellformed |-> TRUE]

KnownFirmwares ==
  { [Plain EXCEPT !.fields = f] : f \in {"call", "bare", "route", "direct"} }
  \cup
  { [Plain EXCEPT !.fields = "route", !.arm = TRUE],
    [Plain EXCEPT !.candidate = "c80", !.experimental = TRUE],
    [Plain EXCEPT !.candidate = "c80", !.experimental = TRUE, !.copied = TRUE],
    [Plain EXCEPT !.candidate = "m620", !.experimental = TRUE],
    [Plain EXCEPT !.candidate = "m620"],
    [Plain EXCEPT !.copied = TRUE],
    [Plain EXCEPT !.copied = TRUE, !.wellformed = FALSE],
    [Plain EXCEPT !.fields = "call", !.candidate = "m620", !.experimental = TRUE] }

VARIABLES
  firmware,   \* a member of Firmwares, fixed for a session
  rex,        \* the emulator's side: route, gates, arm latch, pending tick
  guest,      \* the firmware's side: what it installed and what it executes
  history     \* what only the properties use

vars == <<firmware, rex, guest, history>>

RexType ==
  [owner : {"none", "call", "bare", "route", "direct"} \cup Gates,
   routes : SUBSET Gates, shadow : SUBSET ({"detected"} \cup Gates),
   required : BOOLEAN, armed : BOOLEAN,
   asked : SUBSET Gates, closed : SUBSET Gates, retry : [Gates -> 0..Interval],
   wait : 0..Interval, pending : BOOLEAN]

GuestSwitches == {"installed", "intact", "stacked", "enabled", "masked"}
Handler == {"entered", "read", "acknowledged"}

GuestType ==
  [installed : BOOLEAN, intact : BOOLEAN, stacked : BOOLEAN, enabled : BOOLEAN,
   masked : BOOLEAN, at : {"task", "call"} \cup Handler]

HistoryType == [fresh : BOOLEAN, since : 0..Interval, wroteArm : BOOLEAN]

-----------------------------------------------------------------------------
(* Routes *)

FullRoute(r) == r.owner \in {"route", "direct"} \cup Gates

\* _rex_legacy_irq_route finds a route: the direct one or the candidate's.
Legacy(r) == firmware.fields = "direct" \/ "candidate" \in r.routes

\* Only code of the handler itself reaches the shadow of a C80 controller.
HandlerOnly(r) ==
  Legacy(r) /\ (firmware.fields = "direct" \/ firmware.candidate = "c80")

ConsumeOnRead(r) ==
  /\ firmware.fields # "direct"
  /\ "candidate" \in r.routes
  /\ firmware.candidate = "m620"

\* The firmware has installed vector, handler and callback, its code is the
\* image's, and it could take an interrupt: not in FIQ or IRQ mode, and with
\* mapped stacks.
Standing(g) ==
  /\ g.intact
  /\ g.installed
  /\ g.at \notin Handler
  /\ g.stacked

\* _rex_irq_route_valid(stack=True)
RouteValid(r, g) == FullRoute(r) /\ Standing(g)

(* The gates *)

MayTry(r, gate) ==
  /\ gate \notin r.routes \cup r.closed
  /\ r.retry[gate] = 0
  /\ gate = "copied" => gate \in r.asked
  /\ gate = "candidate" => /\ firmware.fields # "direct"
                           /\ firmware.candidate # "none"
                           /\ firmware.experimental

\* What the two _runtime_route functions answer with terminal set ...
Hopeless(gate, g) ==
  \/ ~firmware.wellformed
  \/ gate = "copied" /\ g.installed /\ g.enabled /\ ~g.intact

\* ... and what they, or the validator after them, accept now.
Acceptable(gate, g) ==
  /\ gate = "copied" => g.enabled
  /\ Standing(g)

Activated(r, gate) ==
  [r EXCEPT !.routes = @ \cup {gate}, !.owner = gate, !.shadow = @ \cup {gate},
            !.required = @ \/ gate = "copied",
            !.asked = IF gate = "candidate" THEN @ \ {gate} ELSE @,
            !.pending = FALSE, !.wait = Interval]

\* An attempt that gets as far as the validator has set the configuration's
\* fields; restore() puts them back when the validator or a hook fails, but
\* not the flag that the copied route requires the arm.
SetFields(gate, g) ==
  gate = "copied" /\ g.installed /\ g.intact /\ g.enabled

\* Wrong: the shadow hook fails and the fields stay.
Attempt_KeepsFields(r, gate, g, hooked) ==
  IF ~MayTry(r, gate) THEN r
  ELSE IF r.owner # "none" THEN [r EXCEPT !.closed = @ \cup {gate}]
  ELSE IF Hopeless(gate, g) \/ ~Acceptable(gate, g)
       THEN [r EXCEPT !.retry[gate] = Interval]
  ELSE IF ~hooked
       THEN [r EXCEPT !.closed = @ \cup {gate}, !.owner = gate]
  ELSE Activated(r, gate)

\* _rex_try_static_candidate_route and _rex_try_copied_c40_route; hooked: the
\* two shadow hooks can be added.
Attempt(r, gate, g, hooked) ==
  IF ~MayTry(r, gate) THEN r
  ELSE IF r.owner # "none" THEN [r EXCEPT !.closed = @ \cup {gate}]
  ELSE IF Hopeless(gate, g)
       THEN [r EXCEPT !.closed = @ \cup {gate}, !.retry[gate] = Interval]
  ELSE IF ~Acceptable(gate, g)
       THEN [r EXCEPT !.retry[gate] = Interval,
                      !.required = @ \/ SetFields(gate, g)]
  ELSE IF ~hooked
       THEN [r EXCEPT !.closed = @ \cup {gate},
                      !.required = @ \/ gate = "copied"]
  ELSE Activated(r, gate)

-----------------------------------------------------------------------------
(* Ticks *)

\* Wrong: a tick does not set the time of the next one.
Raised_NoInterval(r) == [r EXCEPT !.pending = TRUE]

\* A tick of the timer: the pending bit and the time of the next one.
Raised(r) == [r EXCEPT !.pending = TRUE, !.wait = Interval]

\* The timer source of a promoted route.
Asserted(r, gate) ==
  IF gate \in r.routes /\ r.armed /\ r.wait = 0 /\ ~r.pending
  THEN Raised(r) ELSE r

\* Wrong: the copied route is promoted and then never asserts a tick.
CopiedSource_UntilPromoted(r, g, hooked) ==
  IF "copied" \in r.asked THEN Attempt(r, "copied", g, hooked) ELSE r

CopiedSource(r, g, hooked) ==
  IF "copied" \in r.asked \cup r.routes
  THEN Asserted(Attempt(r, "copied", g, hooked), "copied")
  ELSE r

CandidateSource(r, g, hooked) ==
  LET tried == Attempt(r, "candidate", g, hooked)
  IN  IF "candidate" \notin r.asked \cup r.routes THEN r
      ELSE IF "candidate" \in tried.routes THEN Asserted(tried, "candidate")
      ELSE [tried EXCEPT !.asked = @ \ (tried.closed \cap {"candidate"})]

\* _rex_irq_boundary enters the vector.
Delivers(r, g) ==
  /\ r.pending
  /\ ~g.masked
  /\ g.enabled
  /\ RouteValid(r, g)

\* Wrong: entering the vector takes the tick away.
Boundary_Acknowledges ==
  \E hooked \in BOOLEAN :
    LET r == CandidateSource(CopiedSource(rex, guest, hooked), guest, hooked)
    IN  /\ rex' = [r EXCEPT !.pending = @ /\ ~Delivers(r, guest)]
        /\ guest' = IF Delivers(r, guest)
                    THEN [guest EXCEPT !.at = "entered", !.masked = TRUE]
                    ELSE guest
        /\ UNCHANGED <<firmware, history>>

\* The block hook _trace: the two sources, then the delivery.
Boundary ==
  \E hooked \in BOOLEAN :
    LET r == CandidateSource(CopiedSource(rex, guest, hooked), guest, hooked)
    IN  /\ rex' = r
        /\ guest' = IF Delivers(r, guest)
                    THEN [guest EXCEPT !.at = "entered", !.masked = TRUE]
                    ELSE guest
        /\ history' =
             [history EXCEPT
                !.fresh = (@ \/ (r.pending /\ ~rex.pending)) /\ ~Delivers(r, guest),
                !.since = IF r.pending /\ ~rex.pending THEN 0 ELSE @]
        /\ UNCHANGED firmware

\* The sleep call of a detected 5 ms route precedes the idle address.
PostSleep(r) == r.owner = "route" /\ guest.intact

\* Wrong: the idle hook does not ask for the arm.
IdleRaises_Unarmed(r) ==
  r.wait = 0 /\ (Legacy(r) \/ PostSleep(r)) /\ RouteValid(r, guest)

\* _rex_tick raises a tick of a 5 ms route ...
IdleRaises(r) ==
  /\ r.wait = 0
  /\ Legacy(r) \/ PostSleep(r)
  /\ RouteValid(r, guest)
  /\ r.required => r.armed

\* ... or, without interrupt route, calls the tick routine of the firmware.
IdleCalls(r) == r.owner = "call" /\ r.wait = 0 /\ guest.intact

Idle ==
  \E hooked \in BOOLEAN :
    LET r == IF Legacy(rex) THEN rex ELSE Attempt(rex, "candidate", guest, hooked)
    IN  /\ guest.at = "task"
        /\ rex' = IF IdleRaises(r) THEN Raised(r)
                  ELSE IF IdleCalls(r) THEN [r EXCEPT !.wait = Interval] ELSE r
        /\ guest' = IF IdleCalls(r) THEN [guest EXCEPT !.at = "call"] ELSE guest
        /\ history' = IF IdleRaises(r) \/ IdleCalls(r)
                      THEN [history EXCEPT !.fresh = @ \/ IdleRaises(r), !.since = 0]
                      ELSE history
        /\ UNCHANGED firmware

Later(n) == IF n = 0 THEN 0 ELSE n - 1

\* The end of a chunk of run(): the count of instructions grows.
EndChunk ==
  /\ rex' = [rex EXCEPT !.wait = Later(@), !.retry = [gate \in Gates |-> Later(@[gate])]]
  /\ history' = [history EXCEPT !.since = IF @ = Interval THEN @ ELSE @ + 1]
  /\ UNCHANGED <<firmware, guest>>

-----------------------------------------------------------------------------
(* Memory hooks *)

ArmHook == firmware.arm \/ firmware.candidate = "m620" \/ firmware.copied

\* _rex_irq_arm_write, _rex_candidate_arm_write, _rex_copied_c40_arm_write:
\* one of them is installed, and takes a byte write of 2 for the arm.
AskedAfterArm(r) ==
  CASE firmware.arm -> r.asked
    [] ~firmware.arm /\ firmware.candidate = "m620" ->
         IF firmware.experimental THEN r.asked \cup {"candidate"}
         ELSE r.asked \ {"candidate"}
    [] OTHER -> r.asked \cup {"copied"}

ArmWrite(size, value) ==
  /\ ArmHook
  /\ rex' = IF size = 1 /\ value = 2
            THEN [rex EXCEPT !.armed = TRUE, !.asked = AskedAfterArm(rex)]
            ELSE rex
  /\ history' = [history EXCEPT !.wroteArm = @ \/ (size = 1 /\ value = 2)]
  /\ UNCHANGED <<firmware, guest>>

Bytes(address, size) == address .. address + size - 1

\* Wrong: the bytes of a partial write are not moved to their place in the bank.
Clears_Unshifted(bank, address, size, value) == value \cap 0..15

\* The bits of the bank at `bank` that a write of the set of bits `value`
\* clears: its bytes that lie in the bank, moved to their place there.
Clears(bank, address, size, value) ==
  { b \in 0..15 :
      LET byte == bank + b \div 8
      IN  /\ byte \in Bytes(address, size)
          /\ ((byte - address) * 8) + (b % 8) \in value }

TickBit == 9
Bank == 0      \* the status register; addresses are relative to it

ShadowAllowed(inHandler) == HandlerOnly(rex) => inHandler

\* _rex_irq_status_write, where a shadow hook is installed.
PendingAfterWrite(inHandler, address, size, value) ==
  IF ShadowAllowed(inHandler) /\ ~ConsumeOnRead(rex)
  THEN rex.pending /\ TickBit \notin Clears(Bank, address, size, value)
  ELSE rex.pending

\* _rex_irq_status_read: the access meets the first bank.
PendingAfterRead(inHandler) ==
  rex.pending /\ ~(ShadowAllowed(inHandler) /\ ConsumeOnRead(rex))

(* The firmware *)

\* The writes with which a driver acknowledges the tick: the halfword, or the
\* word, with the bit, or the byte that holds it.
Acknowledgements ==
  { <<0, 2, {9}>>, <<0, 4, {9}>>, <<1, 1, {1}>> }
\* Writes that do not: other bits, the other byte, the other bank.
OtherWrites ==
  { <<0, 2, {1}>>, <<0, 1, {1}>>, <<4, 2, {9}>> }

Touched(pending) ==
  /\ rex' = [rex EXCEPT !.pending = pending]
  /\ history' = [history EXCEPT !.fresh = @ /\ (pending \/ guest.at \in Handler)]

\* The handler reads the status, acknowledges the tick and returns.
HandlerReads ==
  /\ guest.at = "entered"
  /\ guest' = [guest EXCEPT !.at = "read"]
  /\ Touched(PendingAfterRead(TRUE))
  /\ UNCHANGED firmware

HandlerAcknowledges ==
  /\ guest.at = "read"
  /\ guest' = [guest EXCEPT !.at = "acknowledged"]
  /\ \E w \in Acknowledgements : Touched(PendingAfterWrite(TRUE, w[1], w[2], w[3]))
  /\ UNCHANGED firmware

HandlerReturns ==
  /\ guest.at = "acknowledged"
  /\ guest' = [guest EXCEPT !.at = "task", !.masked = FALSE]
  /\ UNCHANGED <<firmware, rex, history>>

CallReturns ==
  /\ guest.at = "call"
  /\ guest' = [guest EXCEPT !.at = "task"]
  /\ UNCHANGED <<firmware, rex, history>>

\* Tasks read the status register and write to it, too.
TaskReads ==
  /\ guest.at = "task" /\ rex.shadow # {}
  /\ Touched(PendingAfterRead(FALSE))
  /\ UNCHANGED <<firmware, guest>>

TaskWrites ==
  /\ guest.at = "task" /\ rex.shadow # {}
  /\ \E w \in Acknowledgements \cup OtherWrites :
       Touched(PendingAfterWrite(FALSE, w[1], w[2], w[3]))
  /\ UNCHANGED <<firmware, guest>>

\* The handler runs with interrupts masked until it returns.
Switch(s) ==
  /\ guest.at # "call"
  /\ s = "masked" => guest.at = "task"
  /\ guest' = [guest EXCEPT ![s] = ~@]
  /\ UNCHANGED <<firmware, rex, history>>

-----------------------------------------------------------------------------
Init ==
  /\ firmware \in Firmwares
  /\ rex = [owner |-> firmware.fields, routes |-> {},
            shadow |-> IF firmware.fields \in {"route", "direct"}
                       THEN {"detected"} ELSE {},
            required |-> firmware.arm,
            armed |-> ~firmware.arm /\ firmware.candidate # "m620",
            asked |-> {}, closed |-> {}, retry |-> [gate \in Gates |-> 0],
            wait |-> 0, pending |-> FALSE]
  /\ guest = [installed |-> FALSE, intact |-> TRUE, stacked |-> FALSE,
              enabled |-> FALSE, masked |-> TRUE, at |-> "task"]
  /\ history = [fresh |-> FALSE, since |-> Interval, wroteArm |-> FALSE]

StatusAccess == HandlerReads \/ HandlerAcknowledges \/ TaskReads \/ TaskWrites

Next ==
  \/ Boundary \/ Idle \/ EndChunk
  \/ \E size \in {1, 2}, value \in {1, 2} : ArmWrite(size, value)
  \/ StatusAccess \/ HandlerReturns \/ CallReturns
  \/ \E s \in GuestSwitches : Switch(s)

Spec == Init /\ [][Next]_vars

\* run() goes from chunk to chunk and reaches block boundaries; the firmware
\* leaves its handler and comes back to its idle loop.
Fairness ==
  /\ WF_vars(EndChunk)
  /\ SF_vars(Boundary)
  /\ SF_vars(Idle)
  /\ WF_vars(HandlerReads \/ HandlerAcknowledges \/ HandlerReturns \/ CallReturns)

FairSpec == Spec /\ Fairness

-----------------------------------------------------------------------------
(* Properties *)

TypeOK ==
  /\ firmware \in Firmwares
  /\ rex \in RexType
  /\ guest \in GuestType
  /\ history \in HistoryType

\* The configuration's route fields, the route object and the hooks on its
\* registers belong together: a failed promotion leaves nothing behind, a
\* second gate never overlays the first one's route, and a gate that gave up
\* promotes nothing.
RouteIsWhole ==
  /\ \A gate \in Gates :
       /\ gate \in rex.routes <=> rex.owner = gate
       /\ gate \in rex.routes <=> gate \in rex.shadow
       /\ gate \in rex.routes => gate \notin rex.closed
  /\ rex.routes = {} => rex.owner = firmware.fields
  /\ rex.pending => FullRoute(rex)

Raises == rex'.pending /\ ~rex.pending
Enters == guest'.at = "entered" /\ guest.at # "entered"

\* An interrupt is entered for a tick raised since the last one: a handler
\* that acknowledged a tick by a byte, a halfword or a word is not entered for
\* it again.
EachTickServedOnce == [][Enters => history.fresh \/ Raises]_vars

\* The block hook's source and the idle hook share one clock: two ticks are
\* never closer than the interval, whichever of them raises them.
TicksAreSpaced ==
  [][Raises \/ (guest'.at = "call" /\ guest.at # "call")
       => history.since = Interval]_vars

\* A pending tick goes away by an access of the firmware to the status
\* register and by nothing else: not by its delivery, a promotion or an arm.
NoTickLost == [][rex.pending /\ ~rex'.pending => StatusAccess]_vars

\* A route with an arm register ticks only after the firmware wrote the arm.
TicksNeedArm ==
  [][Raises /\ (firmware.arm \/ "copied" \in rex'.routes)
       => history.wroteArm]_vars

Ready ==
  /\ FullRoute(rex) /\ rex.armed
  /\ guest.installed /\ guest.intact /\ guest.stacked /\ guest.enabled

TaskTakesTick == rex.pending /\ ~rex'.pending /\ guest.at = "task"

\* While the route stays up, the firmware keeps unmasking interrupts and its
\* tasks leave the tick to the handler, ticks keep arriving.
TicksKeepComing ==
  (<>[]Ready /\ []<>(~guest.masked) /\ <>[][~TaskTakesTick]_vars)
    => []<>(guest.at = "entered")

=============================================================================
