------------------------ MODULE RexController_proofs ------------------------
(***************************************************************************)
(* Proofs about RexController, for every interval and every outcome of     *)
(* detection.  The lemmas follow the code from the inside out: what an     *)
(* attempt of a gate can do to the emulator's side, what a tick source     *)
(* makes of it, and from these what the block hook and the idle hook do.   *)
(***************************************************************************)
EXTENDS RexController, TLAPS

(* RouteIsWhole of any emulator state, not only the present one.           *)
Whole(r) ==
  /\ \A gate \in Gates :
       /\ gate \in r.routes <=> r.owner = gate
       /\ gate \in r.routes <=> gate \in r.shadow
       /\ gate \in r.routes => gate \notin r.closed
  /\ r.routes = {} => r.owner = firmware.fields
  /\ r.pending => FullRoute(r)

(* The emulator's side is well-formed.                                     *)
Sound(r) == r \in RexType /\ Whole(r)

(* An attempt that promotes nothing touches only the gate's own flags.     *)
Refused(r, a, gate) ==
  /\ a.owner = r.owner /\ a.routes = r.routes /\ a.shadow = r.shadow
  /\ a.pending = r.pending /\ a.wait = r.wait
  /\ a.armed = r.armed /\ a.asked = r.asked
  /\ r.required => a.required
  /\ gate \in r.routes => a.closed = r.closed
  /\ a.closed \subseteq r.closed \cup {gate}

(* A promotion finds no route.                                             *)
Promoted(r, a, gate) ==
  /\ r.owner = "none" /\ MayTry(r, gate)
  /\ a = Activated(r, gate)

(* The two outcomes of an attempt.                                         *)
LEMMA AttemptOutcome ==
  ASSUME IntervalAssumption, firmware \in FirmwareType,
         NEW r \in RexType, NEW gate \in Gates, NEW g, NEW hooked \in BOOLEAN
  PROVE  LET a == Attempt(r, gate, g, hooked)
         IN  a \in RexType /\ (Refused(r, a, gate) \/ Promoted(r, a, gate))
<1> DEFINE a == Attempt(r, gate, g, hooked)
<1> SUFFICES a \in RexType /\ (Refused(r, a, gate) \/ Promoted(r, a, gate))
  OBVIOUS
<1> DEFINE n == [r.retry EXCEPT ![gate] = Interval]
<1>0. n \in [Gates -> 0..Interval]
  BY DEF RexType, IntervalAssumption
<1>1. CASE ~MayTry(r, gate)
  <2>1. a = r
    BY <1>1 DEF Attempt
  <2> HIDE DEF a
  <2>2. QED BY <2>1 DEF Refused
<1>2. CASE MayTry(r, gate) /\ r.owner # "none"
  <2>1. a = [r EXCEPT !.closed = @ \cup {gate}]
    BY <1>2 DEF Attempt
  <2>2. gate \notin r.routes
    BY <1>2 DEF MayTry
  <2> HIDE DEF a
  <2>3. QED BY <2>1, <2>2 DEF Refused, RexType, Gates
<1>3. CASE MayTry(r, gate) /\ r.owner = "none" /\ Hopeless(gate, g)
  <2>1. a = [r EXCEPT !.closed = r.closed \cup {gate}, !.retry = n]
    BY <1>3 DEF Attempt, RexType
  <2>2. gate \notin r.routes
    BY <1>3 DEF MayTry
  <2> HIDE DEF a, n
  <2>3. QED BY <1>0, <2>1, <2>2 DEF Refused, RexType, Gates
<1>4. CASE MayTry(r, gate) /\ r.owner = "none" /\ ~Hopeless(gate, g) /\ ~Acceptable(gate, g)
  <2> DEFINE q == r.required \/ SetFields(gate, g)
  <2>1. a = [r EXCEPT !.retry = n, !.required = q]
    BY <1>4 DEF Attempt, RexType
  <2>2. q \in BOOLEAN /\ (r.required => q)
    BY DEF SetFields
  <2> HIDE DEF a, q, n
  <2>3. QED BY <1>0, <2>1, <2>2 DEF Refused, RexType, Gates
<1>5. CASE MayTry(r, gate) /\ r.owner = "none" /\ ~Hopeless(gate, g)
           /\ Acceptable(gate, g) /\ ~hooked
  <2> DEFINE q == r.required \/ gate = "copied"
  <2>1. a = [r EXCEPT !.closed = @ \cup {gate}, !.required = q]
    BY <1>5 DEF Attempt
  <2>2. q \in BOOLEAN /\ (r.required => q)
    OBVIOUS
  <2>3. gate \notin r.routes
    BY <1>5 DEF MayTry
  <2> HIDE DEF a, q
  <2>4. QED BY <2>1, <2>2, <2>3 DEF Refused, RexType, Gates
<1>6. CASE MayTry(r, gate) /\ r.owner = "none" /\ ~Hopeless(gate, g)
           /\ Acceptable(gate, g) /\ hooked
  <2>1. a = Activated(r, gate)
    BY <1>6 DEF Attempt
  <2>2. Activated(r, gate) \in RexType
    <3> DEFINE q == r.required \/ gate = "copied"
               k == IF gate = "candidate" THEN r.asked \ {gate} ELSE r.asked
    <3>1. Activated(r, gate) =
            [r EXCEPT !.routes = r.routes \cup {gate}, !.owner = gate,
                      !.shadow = r.shadow \cup {gate}, !.required = q,
                      !.asked = k, !.pending = FALSE, !.wait = Interval]
      BY DEF Activated, RexType
    <3>2. q \in BOOLEAN /\ k \in SUBSET Gates
      BY DEF RexType
    <3>3. /\ r.routes \cup {gate} \in SUBSET Gates
          /\ gate \in {"none", "call", "bare", "route", "direct"} \cup Gates
          /\ r.shadow \cup {gate} \in SUBSET ({"detected"} \cup Gates)
          /\ FALSE \in BOOLEAN /\ Interval \in 0..Interval
      BY DEF RexType, IntervalAssumption
    <3> HIDE DEF q, k
    <3>4. QED BY <3>1, <3>2, <3>3 DEF RexType
  <2>3. QED BY <1>6, <2>1, <2>2 DEF Promoted
<1>7. QED BY <1>1, <1>2, <1>3, <1>4, <1>5, <1>6

(* What a promotion makes of the emulator's side, field by field.          *)
LEMMA ActivatedFields ==
  ASSUME NEW r \in RexType, NEW gate \in Gates
  PROVE  LET a == Activated(r, gate)
         IN  /\ a.routes = r.routes \cup {gate} /\ a.owner = gate
             /\ a.shadow = r.shadow \cup {gate} /\ a.closed = r.closed
             /\ ~a.pending /\ a.wait = Interval /\ a.armed = r.armed
             /\ a.asked \subseteq r.asked /\ (r.required => a.required)
BY DEF Activated, RexType

(* A whole route stays whole through an attempt.                           *)
LEMMA AttemptSound ==
  ASSUME IntervalAssumption, firmware \in FirmwareType,
         NEW r, Sound(r), NEW gate \in Gates, NEW g, NEW hooked \in BOOLEAN
  PROVE  Sound(Attempt(r, gate, g, hooked))
<1> DEFINE a == Attempt(r, gate, g, hooked)
<1> SUFFICES Sound(a)
  OBVIOUS
<1>1. r \in RexType /\ Whole(r)
  BY DEF Sound
<1>2. a \in RexType /\ (Refused(r, a, gate) \/ Promoted(r, a, gate))
  BY <1>1, AttemptOutcome
<1> HIDE DEF a
<1>3. CASE Refused(r, a, gate)
  <2>1. QED BY <1>1, <1>2, <1>3 DEF Sound, Whole, Refused, FullRoute
<1>4. CASE Promoted(r, a, gate)
  <2>1. r.routes = {}
    BY <1>1, <1>4 DEF Promoted, Whole, RexType, Gates
  <2>2. gate \notin r.closed
    BY <1>4 DEF Promoted, MayTry
  <2>3. /\ a.routes = {gate} /\ a.owner = gate /\ a.closed = r.closed
        /\ a.shadow = r.shadow \cup {gate} /\ ~a.pending
    BY <1>1, <1>4, <2>1, ActivatedFields DEF Promoted
  <2>4. r.shadow \cap Gates = {}
    BY <1>1, <2>1 DEF Whole
  <2>5. Whole(a)
    BY <2>2, <2>3, <2>4 DEF Whole
  <2>6. QED BY <1>2, <2>5 DEF Sound
<1>5. QED BY <1>2, <1>3, <1>4

-----------------------------------------------------------------------------

(* What attempts and sources together do to the emulator's side: a route   *)
(* and a tick stay, a new tick is due and belongs to a promoted route.     *)
Carried(r, a) ==
  /\ r.owner # "none" => a.owner = r.owner /\ a.routes = r.routes
  /\ r.routes \subseteq a.routes
  /\ r.pending => a.pending
  /\ a.asked \subseteq r.asked
  /\ "copied" \in a.routes => "copied" \in r.asked \cup r.routes
  /\ a.armed = r.armed
  /\ r.required => a.required
  /\ a.pending = r.pending => a.wait \in {r.wait, Interval}
  /\ a.pending /\ ~r.pending => r.wait = 0 /\ a.wait = Interval /\ a.routes # {}

LEMMA CarriedOnwards ==
  ASSUME IntervalAssumption, NEW r \in RexType, NEW a \in RexType, NEW b \in RexType,
         Carried(r, a), Carried(a, b)
  PROVE  Carried(r, b)
<1>1. r.pending \in BOOLEAN /\ a.pending \in BOOLEAN /\ b.pending \in BOOLEAN
  BY DEF RexType
<1>2. Interval # 0
  BY DEF IntervalAssumption
<1>3. QED BY <1>1, <1>2 DEF Carried

LEMMA AttemptCarried ==
  ASSUME IntervalAssumption, firmware \in FirmwareType,
         NEW r, Sound(r), NEW gate \in Gates, NEW g, NEW hooked \in BOOLEAN
  PROVE  /\ Carried(r, Attempt(r, gate, g, hooked))
         /\ Attempt(r, gate, g, hooked).pending = r.pending
<1> DEFINE a == Attempt(r, gate, g, hooked)
<1> SUFFICES Carried(r, a) /\ a.pending = r.pending
  OBVIOUS
<1>1. r \in RexType /\ Whole(r)
  BY DEF Sound
<1>2. a \in RexType /\ (Refused(r, a, gate) \/ Promoted(r, a, gate))
  BY <1>1, AttemptOutcome
<1> HIDE DEF a
<1>3. CASE Refused(r, a, gate)
  BY <1>3 DEF Refused, Carried
<1>4. CASE Promoted(r, a, gate)
  <2>1. r.pending = FALSE
    BY <1>1, <1>4 DEF Promoted, Whole, FullRoute, Gates, RexType
  <2>2. /\ a.routes = r.routes \cup {gate} /\ a.asked \subseteq r.asked
        /\ a.armed = r.armed /\ (r.required => a.required)
        /\ ~a.pending /\ a.wait = Interval
    BY <1>1, <1>4, ActivatedFields DEF Promoted
  <2>3. gate = "copied" => "copied" \in r.asked
    BY <1>4 DEF Promoted, MayTry
  <2>4. a.pending = FALSE
    BY <1>2, <2>2 DEF RexType
  <2>5. QED BY <1>4, <2>1, <2>2, <2>3, <2>4 DEF Promoted, Carried, Gates
<1>5. QED BY <1>2, <1>3, <1>4

(* A tick, field by field.                                                 *)
LEMMA RaisedFields ==
  ASSUME IntervalAssumption, NEW r \in RexType
  PROVE  LET a == Raised(r)
         IN  /\ a \in RexType
             /\ a.owner = r.owner /\ a.routes = r.routes /\ a.shadow = r.shadow
             /\ a.closed = r.closed /\ a.asked = r.asked /\ a.armed = r.armed
             /\ a.required = r.required /\ a.pending = TRUE /\ a.wait = Interval
<1>1. Interval \in 0..Interval
  BY DEF IntervalAssumption
<1>2. QED BY <1>1 DEF Raised, RexType

LEMMA AssertedCarried ==
  ASSUME IntervalAssumption, NEW r, Sound(r), NEW gate \in Gates
  PROVE  Sound(Asserted(r, gate)) /\ Carried(r, Asserted(r, gate))
<1> DEFINE a == Asserted(r, gate)
<1> SUFFICES Sound(a) /\ Carried(r, a)
  OBVIOUS
<1>1. r \in RexType /\ Whole(r)
  BY DEF Sound
<1>2. CASE gate \in r.routes /\ r.armed /\ r.wait = 0 /\ ~r.pending
  <2>1. a = Raised(r)
    BY <1>2 DEF Asserted
  <2> HIDE DEF a
  <2>2. r.owner = gate
    BY <1>1, <1>2 DEF Whole
  <2>3. Sound(a)
    BY <1>1, <2>1, <2>2, RaisedFields DEF Sound, Whole, FullRoute
  <2>4. Carried(r, a)
    BY <1>1, <1>2, <2>1, RaisedFields DEF Carried
  <2>5. QED BY <2>3, <2>4
<1>3. CASE ~(gate \in r.routes /\ r.armed /\ r.wait = 0 /\ ~r.pending)
  <2>1. a = r
    BY <1>3 DEF Asserted
  <2> HIDE DEF a
  <2>2. QED BY <2>1 DEF Carried
<1>4. QED BY <1>2, <1>3

LEMMA CopiedCarried ==
  ASSUME IntervalAssumption, firmware \in FirmwareType,
         NEW r, Sound(r), NEW g, NEW hooked \in BOOLEAN
  PROVE  Sound(CopiedSource(r, g, hooked)) /\ Carried(r, CopiedSource(r, g, hooked))
<1> DEFINE t == Attempt(r, "copied", g, hooked)
           a == Asserted(t, "copied")
<1>1. Sound(t) /\ Carried(r, t)
  BY AttemptSound, AttemptCarried DEF Gates
<1> HIDE DEF t
<1>2. Sound(a) /\ Carried(t, a)
  BY <1>1, AssertedCarried DEF Gates
<1> HIDE DEF a
<1>3. Carried(r, a)
  BY <1>1, <1>2, CarriedOnwards DEF Sound
<1>4. Carried(r, r)
  BY DEF Carried
<1>5. CopiedSource(r, g, hooked) \in {a, r}
  BY DEF CopiedSource, a, t
<1>6. QED BY <1>2, <1>3, <1>4, <1>5

LEMMA CandidateCarried ==
  ASSUME IntervalAssumption, firmware \in FirmwareType,
         NEW r, Sound(r), NEW g, NEW hooked \in BOOLEAN
  PROVE  Sound(CandidateSource(r, g, hooked)) /\ Carried(r, CandidateSource(r, g, hooked))
<1> DEFINE t == Attempt(r, "candidate", g, hooked)
           a == Asserted(t, "candidate")
           b == [t EXCEPT !.asked = t.asked \ (t.closed \cap {"candidate"})]
<1>1. Sound(t) /\ Carried(r, t)
  BY AttemptSound, AttemptCarried DEF Gates
<1>2. CandidateSource(r, g, hooked) \in {a, b, r}
  <2>1. t \in RexType
    BY <1>1 DEF Sound
  <2>2. b = [t EXCEPT !.asked = @ \ (t.closed \cap {"candidate"})]
    BY <2>1 DEF RexType
  <2>3. QED BY <2>2 DEF CandidateSource
<1> HIDE DEF t
<1>3. Sound(a) /\ Carried(t, a)
  BY <1>1, AssertedCarried DEF Gates
<1>4. Sound(b) /\ Carried(t, b)
  <2>1. t \in RexType /\ Whole(t)
    BY <1>1 DEF Sound
  <2>2. b \in RexType /\ Carried(t, b)
    BY <2>1 DEF RexType, Carried
  <2>3. /\ b.owner = t.owner /\ b.routes = t.routes /\ b.shadow = t.shadow
        /\ b.closed = t.closed /\ b.pending = t.pending
    BY <2>1 DEF RexType
  <2> HIDE DEF b
  <2>4. QED BY <2>1, <2>2, <2>3 DEF Sound, Whole, FullRoute
<1> HIDE DEF a, b
<1>5. Carried(r, a) /\ Carried(r, b) /\ Carried(r, r)
  <2>1. Carried(r, r)
    BY DEF Carried
  <2>2. QED BY <1>1, <1>3, <1>4, <2>1, CarriedOnwards DEF Sound
<1>6. QED BY <1>2, <1>3, <1>4, <1>5

(* Both sources, one after the other, as the block hook calls them.        *)
LEMMA SourcesCarried ==
  ASSUME IntervalAssumption, firmware \in FirmwareType,
         NEW r, Sound(r), NEW g, NEW hooked \in BOOLEAN
  PROVE  LET a == CandidateSource(CopiedSource(r, g, hooked), g, hooked)
         IN  Sound(a) /\ Carried(r, a)
<1> DEFINE c == CopiedSource(r, g, hooked)
           a == CandidateSource(c, g, hooked)
<1> SUFFICES Sound(a) /\ Carried(r, a)
  OBVIOUS
<1>1. Sound(c) /\ Carried(r, c)
  BY CopiedCarried
<1> HIDE DEF c
<1>2. Sound(a) /\ Carried(c, a)
  BY <1>1, CandidateCarried
<1> HIDE DEF a
<1>3. QED BY <1>1, <1>2, CarriedOnwards DEF Sound

-----------------------------------------------------------------------------
(* The inductive invariant                                                 *)

(* A pending tick the handler was not entered for yet is fresh.            *)
Served ==
  \/ guest.at = "entered"
  \/ guest.at = "read" /\ ~ConsumeOnRead(rex)

PendingIsFresh == rex.pending => Served \/ history.fresh

(* Only a complete route reaches the handler, and detected fields keep the *)
(* gates out.                                                              *)
RouteKept ==
  /\ firmware.fields # "none" => rex.routes = {}
  /\ guest.at \in Handler => FullRoute(rex)

(* The time since the last tick and the distance to the next make up the   *)
(* interval.                                                               *)
ClockKept == history.since + rex.wait >= Interval

(* Where an arm is required, its latch and its gate know of the write.     *)
ArmKept ==
  /\ "copied" \in rex.asked \cup rex.routes => history.wroteArm
  /\ firmware.arm => rex.required /\ (rex.armed => history.wroteArm)

IInv ==
  /\ TypeOK /\ RouteIsWhole
  /\ PendingIsFresh /\ RouteKept /\ ClockKept /\ ArmKept

LEMMA Initially == ASSUME IntervalAssumption, FirmwareAssumption, Init PROVE IInv
<1>1. firmware \in FirmwareType /\ (firmware.arm => firmware.fields = "route")
  BY DEF Init, FirmwareAssumption
<1>2. /\ firmware.arm \in BOOLEAN
      /\ firmware.fields \in {"none", "call", "bare", "route", "direct"}
  BY <1>1 DEF FirmwareType
<1>3. [gate \in Gates |-> 0] \in [Gates -> 0..Interval] /\ 0 \in 0..Interval
      /\ Interval \in 0..Interval
  BY DEF IntervalAssumption
<1>4. TypeOK
  <2>1. rex \in RexType
    BY <1>2, <1>3 DEF Init, RexType
  <2>2. guest \in GuestType /\ history \in HistoryType
    BY <1>3 DEF Init, GuestType, HistoryType
  <2>3. QED BY <2>1, <2>2 DEF TypeOK, Init
<1>5. /\ rex.routes = {} /\ rex.owner = firmware.fields /\ rex.closed = {}
      /\ rex.asked = {} /\ ~rex.pending /\ rex.required = firmware.arm
      /\ rex.wait = 0 /\ rex.shadow \subseteq {"detected"}
      /\ rex.armed = (~firmware.arm /\ firmware.candidate # "m620")
  BY DEF Init
<1>6. RouteIsWhole
  BY <1>2, <1>5 DEF RouteIsWhole, Gates
<1>7. PendingIsFresh
  BY <1>5 DEF PendingIsFresh
<1>8. RouteKept
  BY <1>5 DEF RouteKept, Init, Handler
<1>9. ClockKept
  BY <1>5 DEF ClockKept, Init, IntervalAssumption
<1>10. ArmKept
  BY <1>2, <1>5 DEF ArmKept
<1>11. QED BY <1>4, <1>6, <1>7, <1>8, <1>9, <1>10 DEF IInv

(* The emulator's side stays sound when the pending bit is cleared.        *)
LEMMA TouchedSound ==
  ASSUME Sound(rex), UNCHANGED firmware, NEW p \in BOOLEAN, p => rex.pending,
         rex' = [rex EXCEPT !.pending = p]
  PROVE  /\ Sound(rex)'
         /\ rex'.owner = rex.owner /\ rex'.routes = rex.routes
         /\ rex'.asked = rex.asked /\ rex'.armed = rex.armed
         /\ rex'.required = rex.required /\ rex'.wait = rex.wait
         /\ rex'.pending = p
<1>1. /\ rex' \in RexType
      /\ rex'.owner = rex.owner /\ rex'.routes = rex.routes
      /\ rex'.shadow = rex.shadow /\ rex'.closed = rex.closed
      /\ rex'.asked = rex.asked /\ rex'.armed = rex.armed
      /\ rex'.required = rex.required /\ rex'.wait = rex.wait
      /\ rex'.pending = p
  BY DEF Sound, RexType
<1>2. QED BY <1>1 DEF Sound, Whole, FullRoute

(* The tick's bit is in every acknowledgement.                             *)
LEMMA AcknowledgementsClear ==
  ASSUME NEW w \in Acknowledgements
  PROVE  TickBit \in Clears(Bank, w[1], w[2], w[3])
<1>1. 9 \div 8 = 1 /\ 9 % 8 = 1
  OBVIOUS
<1>2. CASE w = <<0, 2, {9}>>
  BY <1>1, <1>2 DEF Clears, Bytes, TickBit, Bank
<1>3. CASE w = <<0, 4, {9}>>
  BY <1>1, <1>3 DEF Clears, Bytes, TickBit, Bank
<1>4. CASE w = <<1, 1, {1}>>
  BY <1>1, <1>4 DEF Clears, Bytes, TickBit, Bank
<1>5. QED BY <1>2, <1>3, <1>4 DEF Acknowledgements

(* Every step keeps the invariant.                                         *)
LEMMA InductiveStep ==
  ASSUME IntervalAssumption, FirmwareAssumption, IInv, [Next]_vars
  PROVE  IInv'
<1>0. /\ firmware \in FirmwareType /\ firmware' = firmware
      /\ (firmware.arm => firmware.fields = "route")
      /\ firmware \in Firmwares
  <2>1. firmware' = firmware
    BY DEF Next, vars, Boundary, Idle, EndChunk, ArmWrite, StatusAccess, HandlerReads,
           HandlerAcknowledges, HandlerReturns, CallReturns, TaskReads, TaskWrites, Switch
  <2>2. QED BY <2>1 DEF IInv, TypeOK, FirmwareAssumption
<1>1. Sound(rex) /\ guest \in GuestType /\ history \in HistoryType
  BY DEF Sound, Whole, IInv, RouteIsWhole, TypeOK
<1>2. ASSUME Sound(rex)', guest' \in GuestType, history' \in HistoryType
      PROVE  TypeOK' /\ RouteIsWhole'
  BY <1>0, <1>2 DEF Sound, Whole, RouteIsWhole, TypeOK, FullRoute
<1>3. CASE Boundary
  <2>1. PICK hooked \in BOOLEAN :
          LET r == CandidateSource(CopiedSource(rex, guest, hooked), guest, hooked)
          IN  /\ rex' = r
              /\ guest' = IF Delivers(r, guest)
                          THEN [guest EXCEPT !.at = "entered", !.masked = TRUE]
                          ELSE guest
              /\ history' =
                   [history EXCEPT
                      !.fresh = (@ \/ (r.pending /\ ~rex.pending)) /\ ~Delivers(r, guest),
                      !.since = IF r.pending /\ ~rex.pending THEN 0 ELSE @]
    BY <1>3 DEF Boundary
  <2> DEFINE r == CandidateSource(CopiedSource(rex, guest, hooked), guest, hooked)
             d == Delivers(r, guest)
  <2>2. Sound(r) /\ Carried(rex, r)
    BY <1>0, <1>1, SourcesCarried
  <2>3. d => r.pending /\ FullRoute(r) /\ guest.at \notin Handler
    BY DEF Delivers, RouteValid, Standing
  <2>4. /\ rex' = r
        /\ guest' = IF d THEN [guest EXCEPT !.at = "entered", !.masked = TRUE] ELSE guest
        /\ history' = [history EXCEPT
               !.fresh = (@ \/ (r.pending /\ ~rex.pending)) /\ ~d,
               !.since = IF r.pending /\ ~rex.pending THEN 0 ELSE @]
    BY <2>1
  <2>5. d \in BOOLEAN
    BY DEF Delivers, RouteValid, Standing, FullRoute
  <2> HIDE DEF r, d
  <2>6. /\ guest' \in GuestType
        /\ d => guest'.at = "entered"
        /\ ~d => guest' = guest
    BY <1>1, <2>4, <2>5 DEF GuestType, Handler
  <2>7. /\ history' \in HistoryType
        /\ history'.wroteArm = history.wroteArm
        /\ history'.since = IF r.pending /\ ~rex.pending THEN 0 ELSE history.since
        /\ ~d => history'.fresh = (history.fresh \/ (r.pending /\ ~rex.pending))
    <3> DEFINE f == (history.fresh \/ (r.pending /\ ~rex.pending)) /\ ~d
               n == IF r.pending /\ ~rex.pending THEN 0 ELSE history.since
    <3>1. history' = [history EXCEPT !.fresh = f, !.since = n]
      BY <1>1, <2>4 DEF HistoryType
    <3>2. f \in BOOLEAN /\ (~d => f = (history.fresh \/ (r.pending /\ ~rex.pending)))
      BY <1>1, <2>5 DEF HistoryType
    <3>3. n \in 0..Interval
      BY <1>1 DEF HistoryType, IntervalAssumption
    <3>4. n = IF r.pending /\ ~rex.pending THEN 0 ELSE history.since
      OBVIOUS
    <3> HIDE DEF f, n
    <3>5. /\ history' \in HistoryType /\ history'.wroteArm = history.wroteArm
          /\ history'.since = n /\ history'.fresh = f
      BY <1>1, <3>1, <3>2, <3>3 DEF HistoryType
    <3>6. QED BY <3>2, <3>4, <3>5
  <2>8. Sound(rex)'
    BY <1>0, <2>2, <2>4 DEF Sound, Whole, FullRoute
  <2>9. TypeOK' /\ RouteIsWhole'
    BY <1>2, <2>6, <2>7, <2>8
  <2>10. rex.owner # "none" => r.owner = rex.owner /\ r.routes = rex.routes
    BY <2>2 DEF Carried
  <2>11. RouteKept'
    <3>1. firmware.fields # "none" => rex.owner # "none" /\ rex.routes = {}
      BY <1>1 DEF IInv, RouteKept, Sound, Whole
    <3>2. guest.at \in Handler => FullRoute(rex) /\ rex.owner # "none"
      BY DEF IInv, RouteKept, FullRoute, Gates
    <3>3. FullRoute(rex) => FullRoute(r)
      BY <2>10 DEF FullRoute, Gates
    <3>4. QED BY <1>0, <2>3, <2>4, <2>6, <2>10, <3>1, <3>2, <3>3 DEF RouteKept, FullRoute, Handler
  <2>12. PendingIsFresh'
    <3>1. CASE d
      BY <2>6, <3>1 DEF PendingIsFresh, Served
    <3>2. CASE ~d /\ r.pending /\ ~rex.pending
      BY <2>7, <3>2 DEF PendingIsFresh
    <3>3. CASE ~d /\ ~(r.pending /\ ~rex.pending)
      <4>1. rex'.pending => rex.pending
        BY <2>4, <3>3
      <4>2. rex.pending => rex.owner # "none"
        BY <1>1 DEF Sound, Whole, FullRoute, Gates
      <4>3. rex.pending => ConsumeOnRead(rex)' = ConsumeOnRead(rex)
        BY <1>0, <2>4, <2>10, <4>2 DEF ConsumeOnRead
      <4>4. history.fresh => history'.fresh
        BY <2>7, <3>3
      <4>5. QED BY <2>6, <3>3, <4>1, <4>3, <4>4 DEF PendingIsFresh, Served, IInv
    <3>4. QED BY <3>1, <3>2, <3>3
  <2>13. ClockKept'
    <3>1. CASE r.pending /\ ~rex.pending
      BY <2>2, <2>4, <2>7, <3>1 DEF Carried, ClockKept, IntervalAssumption
    <3>2. CASE ~(r.pending /\ ~rex.pending)
      <4>1. r.wait \in {rex.wait, Interval}
        BY <1>1, <2>2, <3>2 DEF Carried, Sound, RexType
      <4>2. history.since \in Nat /\ history'.since = history.since /\ Interval \in Nat
        BY <1>1, <2>7, <3>2 DEF HistoryType, IntervalAssumption
      <4>3. QED BY <2>4, <4>1, <4>2 DEF ClockKept, IInv
    <3>3. QED BY <3>1, <3>2
  <2>14. ArmKept'
    BY <1>0, <2>2, <2>4, <2>7 DEF IInv, ArmKept, Carried
  <2>15. QED BY <2>9, <2>11, <2>12, <2>13, <2>14 DEF IInv
<1>4. CASE Idle
  <2>1. PICK hooked \in BOOLEAN :
          LET r == IF Legacy(rex) THEN rex ELSE Attempt(rex, "candidate", guest, hooked)
          IN  /\ guest.at = "task"
              /\ rex' = IF IdleRaises(r) THEN Raised(r)
                        ELSE IF IdleCalls(r) THEN [r EXCEPT !.wait = Interval] ELSE r
              /\ guest' = IF IdleCalls(r) THEN [guest EXCEPT !.at = "call"] ELSE guest
              /\ history' = IF IdleRaises(r) \/ IdleCalls(r)
                            THEN [history EXCEPT !.fresh = @ \/ IdleRaises(r), !.since = 0]
                            ELSE history
    BY <1>4 DEF Idle
  <2> DEFINE r == IF Legacy(rex) THEN rex ELSE Attempt(rex, "candidate", guest, hooked)
             u == IdleRaises(r)
             c == IdleCalls(r)
  <2>2. Sound(r) /\ Carried(rex, r) /\ r.pending = rex.pending
    <3>1. Carried(rex, rex)
      BY DEF Carried
    <3>2. QED BY <1>0, <1>1, <3>1, AttemptSound, AttemptCarried DEF Gates
  <2>3. /\ u => r.wait = 0 /\ FullRoute(r) /\ (r.required => r.armed)
        /\ c => r.owner = "call" /\ r.wait = 0
    BY DEF IdleRaises, RouteValid, IdleCalls
  <2>4. u \in BOOLEAN /\ c \in BOOLEAN
    BY DEF IdleRaises, IdleCalls, Legacy, PostSleep, RouteValid
  <2>5. /\ guest.at = "task"
        /\ rex' = IF u THEN Raised(r)
                  ELSE IF c THEN [r EXCEPT !.wait = Interval] ELSE r
        /\ guest' = IF c THEN [guest EXCEPT !.at = "call"] ELSE guest
        /\ history' = IF u \/ c
                      THEN [history EXCEPT !.fresh = @ \/ u, !.since = 0]
                      ELSE history
    BY <2>1
  <2> HIDE DEF r, u, c
  <2>6. /\ rex'.owner = r.owner /\ rex'.routes = r.routes /\ rex'.shadow = r.shadow
        /\ rex'.closed = r.closed /\ rex'.asked = r.asked /\ rex'.armed = r.armed
        /\ rex'.required = r.required /\ rex'.pending = (r.pending \/ u)
        /\ rex'.wait = IF u \/ c THEN Interval ELSE r.wait
        /\ rex' \in RexType
    <3>1. r \in RexType
      BY <2>2 DEF Sound
    <3>2. CASE u
      BY <2>5, <3>1, <3>2, RaisedFields
    <3>3. CASE ~u /\ c
      <4>1. rex' = [r EXCEPT !.wait = Interval]
        BY <2>5, <3>3
      <4>2. Interval \in 0..Interval
        BY DEF IntervalAssumption
      <4>3. QED BY <3>1, <3>3, <4>1, <4>2 DEF RexType
    <3>4. CASE ~u /\ ~c
      BY <2>5, <3>1, <3>4 DEF RexType
    <3>5. QED BY <3>2, <3>3, <3>4
  <2>7. guest' \in GuestType /\ guest'.at \notin Handler
    BY <1>1, <2>5 DEF GuestType, Handler
  <2>8. /\ history' \in HistoryType /\ history'.wroteArm = history.wroteArm
        /\ history'.since = IF u \/ c THEN 0 ELSE history.since
        /\ history'.fresh = (history.fresh \/ u)
    <3> DEFINE f == history.fresh \/ u
    <3>1. f \in BOOLEAN /\ (~u => f = history.fresh) /\ f = (history.fresh \/ u)
      BY <1>1, <2>4 DEF HistoryType
    <3>2. CASE u \/ c
      <4>1. history' = [history EXCEPT !.fresh = f, !.since = 0]
        BY <1>1, <2>5, <3>2 DEF HistoryType
      <4>2. 0 \in 0..Interval
        BY DEF IntervalAssumption
      <4> HIDE DEF f
      <4>3. /\ history' \in HistoryType /\ history'.wroteArm = history.wroteArm
            /\ history'.since = 0 /\ history'.fresh = f
        BY <1>1, <3>1, <4>1, <4>2 DEF HistoryType
      <4>4. QED BY <3>1, <3>2, <4>3
    <3>3. CASE ~u /\ ~c
      <4>1. history' = history
        BY <2>5, <3>3
      <4> HIDE DEF f
      <4>2. QED BY <1>1, <3>1, <3>3, <4>1
    <3>4. QED BY <2>4, <3>2, <3>3
  <2>9. Sound(rex)'
    <3>1. Whole(rex)'
      BY <1>0, <2>2, <2>3, <2>6 DEF Sound, Whole, FullRoute
    <3>2. QED BY <2>6, <3>1 DEF Sound
  <2>10. TypeOK' /\ RouteIsWhole'
    BY <1>2, <2>7, <2>8, <2>9
  <2>11. RouteKept'
    <3>1. firmware.fields # "none" => rex.routes = {} /\ rex.owner # "none"
      BY <1>1 DEF IInv, RouteKept, Sound, Whole
    <3>2. QED BY <1>0, <2>2, <2>6, <2>7, <3>1 DEF RouteKept, Carried
  <2>12. PendingIsFresh'
    BY <2>2, <2>5, <2>6, <2>8 DEF PendingIsFresh, Served, IInv
  <2>13. ClockKept'
    <3>1. r.wait \in {rex.wait, Interval} /\ Interval \in Nat /\ history.since \in Nat
          /\ r.wait \in Nat
      BY <1>1, <2>2 DEF Carried, IntervalAssumption, HistoryType, Sound, RexType
    <3>2. history.since + rex.wait >= Interval
      BY DEF IInv, ClockKept
    <3>3. QED BY <2>6, <2>8, <3>1, <3>2 DEF ClockKept
  <2>14. ArmKept'
    BY <1>0, <2>2, <2>6, <2>8 DEF IInv, ArmKept, Carried
  <2>15. QED BY <2>10, <2>11, <2>12, <2>13, <2>14 DEF IInv
<1>5. CASE EndChunk
  <2> DEFINE n == [gate \in Gates |-> Later(rex.retry[gate])]
             w == Later(rex.wait)
             m == IF history.since = Interval THEN history.since ELSE history.since + 1
  <2>1. /\ rex' = [rex EXCEPT !.wait = w, !.retry = n]
        /\ history' = [history EXCEPT !.since = m] /\ guest' = guest
    BY <1>1, <1>5 DEF EndChunk, Sound, RexType, HistoryType
  <2>2. n \in [Gates -> 0..Interval] /\ w \in 0..Interval /\ m \in 0..Interval
    BY <1>1 DEF Sound, RexType, HistoryType, Later, IntervalAssumption
  <2>3. m + w >= Interval
    BY <1>1 DEF IInv, ClockKept, Sound, RexType, HistoryType, Later, IntervalAssumption
  <2> HIDE DEF n, w, m
  <2>4. /\ rex'.owner = rex.owner /\ rex'.routes = rex.routes
        /\ rex'.shadow = rex.shadow /\ rex'.closed = rex.closed
        /\ rex'.asked = rex.asked /\ rex'.armed = rex.armed
        /\ rex'.required = rex.required /\ rex'.pending = rex.pending
        /\ rex'.wait = w /\ rex' \in RexType
    BY <1>1, <2>1, <2>2 DEF Sound, RexType
  <2>5. /\ history' \in HistoryType /\ history'.since = m
        /\ history'.fresh = history.fresh /\ history'.wroteArm = history.wroteArm
    BY <1>1, <2>1, <2>2 DEF HistoryType
  <2>6. Sound(rex)'
    BY <1>0, <1>1, <2>4 DEF Sound, Whole, FullRoute
  <2>7. TypeOK' /\ RouteIsWhole'
    BY <1>1, <1>2, <2>1, <2>5, <2>6
  <2>8. PendingIsFresh' /\ RouteKept'
    BY <1>0, <2>1, <2>4, <2>5 DEF IInv, PendingIsFresh, Served, ConsumeOnRead,
                                  RouteKept, FullRoute
  <2>9. ClockKept' /\ ArmKept'
    BY <1>0, <2>3, <2>4, <2>5 DEF IInv, ClockKept, ArmKept
  <2>10. QED BY <2>7, <2>8, <2>9 DEF IInv
<1>6. ASSUME NEW size \in {1, 2}, NEW value \in {1, 2}, ArmWrite(size, value)
      PROVE  IInv'
  <2> DEFINE arms == size = 1 /\ value = 2
  <2>1. /\ ~arms => rex' = rex
        /\ arms => rex' = [rex EXCEPT !.armed = TRUE, !.asked = AskedAfterArm(rex)]
        /\ history' = [history EXCEPT !.wroteArm = @ \/ arms] /\ guest' = guest
    BY <1>6 DEF ArmWrite
  <2>2. AskedAfterArm(rex) \in SUBSET Gates
    BY <1>1 DEF AskedAfterArm, Sound, RexType, Gates
  <2>3. arms \in BOOLEAN
    OBVIOUS
  <2> HIDE DEF arms
  <2>4. /\ rex'.owner = rex.owner /\ rex'.routes = rex.routes
        /\ rex'.shadow = rex.shadow /\ rex'.closed = rex.closed
        /\ rex'.required = rex.required /\ rex'.pending = rex.pending
        /\ rex'.wait = rex.wait /\ rex' \in RexType
        /\ ~arms => rex'.asked = rex.asked /\ rex'.armed = rex.armed
    BY <1>1, <2>1, <2>2 DEF Sound, RexType
  <2>5. /\ history' \in HistoryType /\ history'.since = history.since
        /\ history'.fresh = history.fresh
        /\ history.wroteArm \/ arms => history'.wroteArm
    BY <1>1, <2>1, <2>3 DEF HistoryType
  <2>6. Sound(rex)'
    BY <1>0, <1>1, <2>4 DEF Sound, Whole, FullRoute
  <2>7. TypeOK' /\ RouteIsWhole'
    BY <1>1, <1>2, <2>1, <2>5, <2>6
  <2>8. PendingIsFresh' /\ RouteKept'
    BY <1>0, <2>1, <2>4, <2>5 DEF IInv, PendingIsFresh, Served, ConsumeOnRead,
                                  RouteKept, FullRoute
  <2>9. ClockKept' /\ ArmKept'
    BY <1>0, <2>4, <2>5 DEF IInv, ClockKept, ArmKept
  <2>10. QED BY <2>7, <2>8, <2>9 DEF IInv
<1>7. CASE StatusAccess
  <2>1. PICK p \in BOOLEAN :
          /\ Touched(p) /\ (p => rex.pending)
          /\ guest' \in GuestType
          /\ \/ guest.at = "task" /\ guest' = guest
             \/ guest.at = "entered" /\ guest'.at = "read"
                /\ (p => ~ConsumeOnRead(rex))
             \/ guest.at = "read" /\ guest'.at = "acknowledged"
                /\ (p => ConsumeOnRead(rex))
    <3>0. /\ rex.pending \in BOOLEAN
          /\ \A in \in BOOLEAN : PendingAfterRead(in) \in BOOLEAN
          /\ \A in \in BOOLEAN : \A a, n, v : PendingAfterWrite(in, a, n, v) \in BOOLEAN
      BY <1>1 DEF Sound, RexType, PendingAfterRead, PendingAfterWrite
    <3>1. CASE HandlerReads
      <4>1. PendingAfterRead(TRUE) => rex.pending /\ ~ConsumeOnRead(rex)
        BY DEF PendingAfterRead, ShadowAllowed
      <4>2. guest' \in GuestType /\ guest.at = "entered" /\ guest'.at = "read"
        BY <1>1, <3>1 DEF HandlerReads, GuestType, Handler
      <4>3. QED BY <3>0, <3>1, <4>1, <4>2 DEF HandlerReads
    <3>2. CASE HandlerAcknowledges
      <4>1. PICK w \in Acknowledgements :
              Touched(PendingAfterWrite(TRUE, w[1], w[2], w[3]))
        BY <3>2 DEF HandlerAcknowledges
      <4>2. PendingAfterWrite(TRUE, w[1], w[2], w[3]) => rex.pending /\ ConsumeOnRead(rex)
        BY AcknowledgementsClear DEF PendingAfterWrite, ShadowAllowed
      <4>3. guest' \in GuestType /\ guest.at = "read" /\ guest'.at = "acknowledged"
        BY <1>1, <3>2 DEF HandlerAcknowledges, GuestType, Handler
      <4> DEFINE q == PendingAfterWrite(TRUE, w[1], w[2], w[3])
      <4>4. q \in BOOLEAN
        BY <3>0
      <4>5. Touched(q) /\ (q => rex.pending /\ ConsumeOnRead(rex))
        BY <4>1, <4>2
      <4> HIDE DEF q
      <4>6. QED BY <4>3, <4>4, <4>5
    <3>3. CASE TaskReads
      <4>1. PendingAfterRead(FALSE) => rex.pending
        BY DEF PendingAfterRead
      <4>2. QED BY <1>1, <3>0, <3>3, <4>1 DEF TaskReads
    <3>4. CASE TaskWrites
      <4>1. PICK w \in Acknowledgements \cup OtherWrites :
              Touched(PendingAfterWrite(FALSE, w[1], w[2], w[3]))
        BY <3>4 DEF TaskWrites
      <4>2. PendingAfterWrite(FALSE, w[1], w[2], w[3]) => rex.pending
        BY DEF PendingAfterWrite
      <4> DEFINE q == PendingAfterWrite(FALSE, w[1], w[2], w[3])
      <4>3. q \in BOOLEAN
        BY <3>0
      <4>4. Touched(q) /\ (q => rex.pending)
        BY <4>1, <4>2
      <4>5. guest.at = "task" /\ guest' = guest
        BY <3>4 DEF TaskWrites
      <4> HIDE DEF q
      <4>6. QED BY <1>1, <4>3, <4>4, <4>5
    <3>5. QED BY <1>7, <3>1, <3>2, <3>3, <3>4 DEF StatusAccess
  <2>2. /\ rex' = [rex EXCEPT !.pending = p]
        /\ history' = [history EXCEPT !.fresh = @ /\ (p \/ guest.at \in Handler)]
    BY <2>1 DEF Touched
  <2>3. /\ Sound(rex)'
        /\ rex'.owner = rex.owner /\ rex'.routes = rex.routes
        /\ rex'.asked = rex.asked /\ rex'.armed = rex.armed
        /\ rex'.required = rex.required /\ rex'.wait = rex.wait
        /\ rex'.pending = p
    BY <1>0, <1>1, <2>1, <2>2, TouchedSound
  <2>4. /\ history' \in HistoryType /\ history'.since = history.since
        /\ history'.wroteArm = history.wroteArm
        /\ p => history'.fresh = history.fresh
    <3> DEFINE f == history.fresh /\ (p \/ guest.at \in Handler)
    <3>1. history' = [history EXCEPT !.fresh = f]
      BY <2>2
    <3>2. f \in BOOLEAN /\ (p => f = history.fresh)
      BY <1>1 DEF HistoryType
    <3> HIDE DEF f
    <3>3. QED BY <1>1, <3>1, <3>2 DEF HistoryType
  <2>5. TypeOK' /\ RouteIsWhole'
    BY <1>2, <2>1, <2>3, <2>4
  <2>6. ConsumeOnRead(rex)' = ConsumeOnRead(rex)
    BY <1>0, <2>3 DEF ConsumeOnRead
  <2>7. PendingIsFresh'
    BY <2>1, <2>3, <2>4, <2>6 DEF IInv, PendingIsFresh, Served
  <2>8. RouteKept'
    BY <1>0, <2>1, <2>3 DEF IInv, RouteKept, FullRoute, Handler
  <2>9. ClockKept' /\ ArmKept'
    BY <1>0, <2>3, <2>4 DEF IInv, ClockKept, ArmKept
  <2>10. QED BY <2>5, <2>7, <2>8, <2>9 DEF IInv
<1>8. ASSUME UNCHANGED <<rex, history>>, guest' \in GuestType,
             guest.at = "entered" => guest'.at = "entered",
             guest.at = "read" => guest'.at = "read",
             guest'.at \in Handler => guest.at \in Handler
      PROVE  IInv'
  <2>1. TypeOK' /\ RouteIsWhole'
    BY <1>0, <1>1, <1>2, <1>8 DEF Sound, Whole, FullRoute
  <2>2. PendingIsFresh' /\ RouteKept'
    BY <1>0, <1>8 DEF IInv, PendingIsFresh, Served, ConsumeOnRead, RouteKept, FullRoute
  <2>3. ClockKept' /\ ArmKept'
    BY <1>0, <1>8 DEF IInv, ClockKept, ArmKept
  <2>4. QED BY <2>1, <2>2, <2>3 DEF IInv
<1>9. CASE HandlerReturns \/ CallReturns
  <2>1. guest' \in GuestType /\ guest'.at = "task" /\ guest.at \in {"acknowledged", "call"}
    BY <1>1, <1>9 DEF HandlerReturns, CallReturns, GuestType
  <2>2. QED BY <1>8, <1>9, <2>1 DEF HandlerReturns, CallReturns, Handler
<1>10. ASSUME NEW s \in GuestSwitches, Switch(s)
       PROVE  IInv'
  <2>1. guest' = [guest EXCEPT ![s] = ~guest[s]]
    BY <1>10 DEF Switch
  <2>2. guest' \in GuestType /\ guest'.at = guest.at
    BY <1>1, <2>1 DEF GuestType, GuestSwitches
  <2>3. QED BY <1>8, <1>10, <2>2 DEF Switch
<1>11. CASE UNCHANGED vars
  BY <1>1, <1>8, <1>11 DEF vars
<1>12. QED BY <1>3, <1>4, <1>5, <1>6, <1>7, <1>9, <1>10, <1>11 DEF Next

(* Spec keeps the inductive invariant.                                     *)
THEOREM Inductive == Spec => []IInv
<1>1. Init => IInv
  BY Initially, IntervalAssumption, FirmwareAssumption
<1>2. IInv /\ [Next]_vars => IInv'
  BY InductiveStep, IntervalAssumption, FirmwareAssumption
<1>3. QED BY <1>1, <1>2, PTL DEF Spec

-----------------------------------------------------------------------------

(* Every variable keeps its type.                                          *)
THEOREM TypeCorrect == Spec => []TypeOK
<1>1. IInv => TypeOK
  BY DEF IInv
<1>2. QED BY Inductive, <1>1, PTL

(* Fields, route object and register hooks are never left half promoted.   *)
THEOREM RouteWhole == Spec => []RouteIsWhole
<1>1. IInv => RouteIsWhole
  BY DEF IInv
<1>2. QED BY Inductive, <1>1, PTL

-----------------------------------------------------------------------------
(* What a step does to the tick                                            *)

(* The facts the four action properties follow from.                       *)
Effects ==
  /\ rex.pending /\ ~rex'.pending => StatusAccess
  /\ Raises => /\ rex.wait = 0
               /\ firmware.arm => rex.armed
               /\ "copied" \in rex'.routes => "copied" \in rex.asked \cup rex.routes
  /\ guest'.at = "call" /\ guest.at # "call" => rex.wait = 0
  /\ Enters => guest.at \notin Handler /\ rex'.pending

LEMMA StepEffects ==
  ASSUME IntervalAssumption, FirmwareAssumption, IInv, [Next]_vars
  PROVE  Effects
<1>0. /\ firmware \in FirmwareType
      /\ firmware.arm => firmware.fields = "route" /\ rex.required
  BY DEF IInv, TypeOK, FirmwareAssumption, ArmKept
<1>1. Sound(rex) /\ guest \in GuestType
  BY DEF Sound, Whole, IInv, RouteIsWhole, TypeOK
<1>2. firmware.arm => rex.owner # "none" /\ rex.routes = {}
  BY <1>0, <1>1 DEF IInv, RouteKept, Sound, Whole
<1>3. CASE Boundary
  <2>1. PICK hooked \in BOOLEAN :
          LET r == CandidateSource(CopiedSource(rex, guest, hooked), guest, hooked)
          IN  /\ rex' = r
              /\ guest' = IF Delivers(r, guest)
                          THEN [guest EXCEPT !.at = "entered", !.masked = TRUE]
                          ELSE guest
    BY <1>3 DEF Boundary
  <2> DEFINE r == CandidateSource(CopiedSource(rex, guest, hooked), guest, hooked)
             d == Delivers(r, guest)
  <2>2. Sound(r) /\ Carried(rex, r)
    BY <1>0, <1>1, SourcesCarried
  <2>3. d => r.pending /\ guest.at \notin Handler
    BY DEF Delivers, RouteValid, Standing
  <2>4. /\ rex' = r
        /\ guest' = IF d THEN [guest EXCEPT !.at = "entered", !.masked = TRUE] ELSE guest
    BY <2>1
  <2> HIDE DEF r, d
  <2>5. (d => guest'.at = "entered") /\ (~d => guest' = guest)
    BY <1>1, <2>4 DEF GuestType
  <2>6. Raises => /\ rex.wait = 0
                  /\ firmware.arm => rex.armed
                  /\ "copied" \in rex'.routes => "copied" \in rex.asked \cup rex.routes
    BY <1>2, <2>2, <2>4 DEF Raises, Carried
  <2>7. QED BY <2>2, <2>3, <2>4, <2>5, <2>6 DEF Effects, Enters, Carried
<1>4. CASE Idle
  <2>1. PICK hooked \in BOOLEAN :
          LET r == IF Legacy(rex) THEN rex ELSE Attempt(rex, "candidate", guest, hooked)
          IN  /\ rex' = IF IdleRaises(r) THEN Raised(r)
                        ELSE IF IdleCalls(r) THEN [r EXCEPT !.wait = Interval] ELSE r
              /\ guest' = IF IdleCalls(r) THEN [guest EXCEPT !.at = "call"] ELSE guest
    BY <1>4 DEF Idle
  <2> DEFINE r == IF Legacy(rex) THEN rex ELSE Attempt(rex, "candidate", guest, hooked)
             u == IdleRaises(r)
             c == IdleCalls(r)
  <2>2. Sound(r) /\ Carried(rex, r) /\ r.pending = rex.pending
    <3>1. Carried(rex, rex)
      BY DEF Carried
    <3>2. QED BY <1>0, <1>1, <3>1, AttemptSound, AttemptCarried DEF Gates
  <2>3. (u => r.wait = 0 /\ (r.required => r.armed)) /\ (c => r.wait = 0)
    BY DEF IdleRaises, IdleCalls
  <2>4. /\ rex' = IF u THEN Raised(r)
                  ELSE IF c THEN [r EXCEPT !.wait = Interval] ELSE r
        /\ guest' = IF c THEN [guest EXCEPT !.at = "call"] ELSE guest
    BY <2>1
  <2> HIDE DEF r, u, c
  <2>5. r.wait = 0 => rex.wait = 0
    BY <1>1, <2>2 DEF Carried, IntervalAssumption
  <2>6. /\ u => rex'.pending = TRUE
        /\ ~u => rex'.pending = r.pending
        /\ rex'.routes = r.routes
    BY <2>2, <2>4, RaisedFields DEF Sound, RexType
  <2>7. (c => guest'.at = "call") /\ (~c => guest' = guest)
    BY <1>1, <2>4 DEF GuestType
  <2>8. Raises => u
    BY <2>2, <2>6 DEF Raises
  <2>9. r.armed = rex.armed /\ (rex.required => r.required)
        /\ ("copied" \in r.routes => "copied" \in rex.asked \cup rex.routes)
    BY <2>2 DEF Carried
  <2>10. Raises => /\ rex.wait = 0
                   /\ firmware.arm => rex.armed
                   /\ "copied" \in rex'.routes => "copied" \in rex.asked \cup rex.routes
    BY <1>0, <2>3, <2>5, <2>6, <2>8, <2>9
  <2>11. rex.pending => rex'.pending
    BY <2>2, <2>6
  <2>12. QED BY <2>3, <2>5, <2>7, <2>10, <2>11 DEF Effects, Enters
<1>5. ASSUME rex'.pending => rex.pending, guest'.at \notin {"call", "entered"} \/ guest'.at = guest.at,
             StatusAccess \/ rex'.pending = rex.pending
      PROVE  Effects
  BY <1>5 DEF Effects, Raises, Enters
<1>6. CASE EndChunk
  <2>1. rex'.pending = rex.pending
    BY <1>1, <1>6 DEF EndChunk, Sound, RexType
  <2>2. QED BY <1>5, <1>6, <2>1 DEF EndChunk
<1>7. ASSUME NEW size \in {1, 2}, NEW value \in {1, 2}, ArmWrite(size, value)
      PROVE  Effects
  <2>1. rex'.pending = rex.pending
    <3> DEFINE asked == AskedAfterArm(rex)
    <3>1. rex' = rex \/ rex' = [rex EXCEPT !.armed = TRUE, !.asked = asked]
      BY <1>7 DEF ArmWrite
    <3> HIDE DEF asked
    <3>2. QED BY <1>1, <3>1 DEF Sound, RexType
  <2>2. QED BY <1>5, <1>7, <2>1 DEF ArmWrite
<1>8. CASE StatusAccess
  <2>1. ASSUME NEW q, Touched(q), q => rex.pending
        PROVE  rex'.pending => rex.pending
    BY <1>1, <2>1 DEF Touched, Sound, RexType
  <2>2. ASSUME NEW in \in BOOLEAN, Touched(PendingAfterRead(in))
        PROVE  rex'.pending => rex.pending
    <3> DEFINE q == PendingAfterRead(in)
    <3>1. Touched(q) /\ (q => rex.pending)
      BY <2>2 DEF PendingAfterRead
    <3> HIDE DEF q
    <3>2. QED BY <2>1, <3>1
  <2>3. ASSUME NEW in \in BOOLEAN, NEW a, NEW n, NEW v, Touched(PendingAfterWrite(in, a, n, v))
        PROVE  rex'.pending => rex.pending
    <3> DEFINE q == PendingAfterWrite(in, a, n, v)
    <3>1. Touched(q) /\ (q => rex.pending)
      BY <2>3 DEF PendingAfterWrite
    <3> HIDE DEF q
    <3>2. QED BY <2>1, <3>1
  <2>4. rex'.pending => rex.pending
    <3>1. CASE HandlerReads \/ TaskReads
      BY <2>2, <3>1 DEF HandlerReads, TaskReads
    <3>2. CASE HandlerAcknowledges \/ TaskWrites
      BY <2>3, <3>2 DEF HandlerAcknowledges, TaskWrites
    <3>3. QED BY <1>8, <3>1, <3>2 DEF StatusAccess
  <2>5. guest'.at \notin {"call", "entered"} \/ guest'.at = guest.at
    BY <1>1, <1>8 DEF StatusAccess, HandlerReads, HandlerAcknowledges, TaskReads, TaskWrites,
                      GuestType
  <2>6. QED BY <1>5, <1>8, <2>4, <2>5
<1>9. CASE HandlerReturns \/ CallReturns
  <2>1. guest'.at = "task" /\ rex' = rex
    BY <1>1, <1>9 DEF HandlerReturns, CallReturns, GuestType
  <2>2. QED BY <1>5, <2>1
<1>10. ASSUME NEW s \in GuestSwitches, Switch(s)
       PROVE  Effects
  <2>1. guest' = [guest EXCEPT ![s] = ~guest[s]] /\ rex' = rex
    BY <1>10 DEF Switch
  <2>2. guest'.at = guest.at
    BY <1>1, <2>1 DEF GuestType, GuestSwitches
  <2>3. QED BY <1>5, <2>1, <2>2
<1>11. CASE UNCHANGED vars
  BY <1>5, <1>11 DEF vars
<1>12. QED BY <1>3, <1>4, <1>6, <1>7, <1>8, <1>9, <1>10, <1>11 DEF Next

(* No interrupt is entered for a tick that was already acknowledged.       *)
THEOREM ServedOnce == Spec => EachTickServedOnce
<1>1. IInv /\ [Next]_vars => [Enters => history.fresh \/ Raises]_vars
  <2> SUFFICES ASSUME IInv, [Next]_vars, Enters
               PROVE  history.fresh \/ Raises
    OBVIOUS
  <2>1. Effects
    BY StepEffects, IntervalAssumption, FirmwareAssumption
  <2>2. QED BY <2>1 DEF Effects, IInv, PendingIsFresh, Served, Raises, Handler
<1>2. QED BY Inductive, <1>1, PTL DEF Spec, EachTickServedOnce

(* Whichever hook raises a tick, the interval since the last one is over.  *)
THEOREM TicksSpaced == Spec => TicksAreSpaced
<1>1. IInv /\ [Next]_vars =>
        [Raises \/ (guest'.at = "call" /\ guest.at # "call")
           => history.since = Interval]_vars
  <2> SUFFICES ASSUME IInv, [Next]_vars,
                      Raises \/ (guest'.at = "call" /\ guest.at # "call")
               PROVE  history.since = Interval
    OBVIOUS
  <2>1. Effects
    BY StepEffects, IntervalAssumption, FirmwareAssumption
  <2>2. rex.wait = 0
    BY <2>1 DEF Effects
  <2>3. history.since \in 0..Interval
    BY DEF IInv, TypeOK, HistoryType
  <2>4. history.since + rex.wait >= Interval
    BY DEF IInv, ClockKept
  <2>5. QED BY <2>2, <2>3, <2>4, IntervalAssumption DEF IntervalAssumption
<1>2. QED BY Inductive, <1>1, PTL DEF Spec, TicksAreSpaced

(* Delivery, promotion, arm and time take no pending tick away.            *)
THEOREM TicksStay == Spec => NoTickLost
<1>1. IInv /\ [Next]_vars => [rex.pending /\ ~rex'.pending => StatusAccess]_vars
  <2> SUFFICES ASSUME IInv, [Next]_vars
               PROVE  rex.pending /\ ~rex'.pending => StatusAccess
    OBVIOUS
  <2>1. Effects
    BY StepEffects, IntervalAssumption, FirmwareAssumption
  <2>2. QED BY <2>1 DEF Effects
<1>2. QED BY Inductive, <1>1, PTL DEF Spec, NoTickLost

(* Both kinds of route with an arm register wait for the arm.              *)
THEOREM ArmFirst == Spec => TicksNeedArm
<1>1. IInv /\ [Next]_vars =>
        [Raises /\ (firmware.arm \/ "copied" \in rex'.routes) => history.wroteArm]_vars
  <2> SUFFICES ASSUME IInv, [Next]_vars,
                      Raises /\ (firmware.arm \/ "copied" \in rex'.routes)
               PROVE  history.wroteArm
    OBVIOUS
  <2>1. Effects
    BY StepEffects, IntervalAssumption, FirmwareAssumption
  <2>2. QED BY <2>1 DEF Effects, IInv, ArmKept
<1>2. QED BY Inductive, <1>1, PTL DEF Spec, TicksNeedArm

=============================================================================
