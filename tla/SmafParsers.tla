------------------------------ MODULE SmafParsers ------------------------------
(***************************************************************************)
(* The score parsers of ma7_runtime/smaf.py, an event at a time: the       *)
(* MIDI-like format 2, the compact format 3 ("fmt7"), the Handy format 0,  *)
(* the Handy audio sequence, and the parsers of human-voice notes, which   *)
(* step over the same events with a code of their own.                     *)
(*                                                                         *)
(* max_tick, extended_controls and biased_gate_vlq are left out, no caller *)
(* sets them, channel_base, which is added to every channel, and defaults  *)
(* of format 3, which are controls in front of all others.                 *)
(***************************************************************************)
EXTENDS Integers, Sequences, SequencesExt, FiniteSetsExt, TLC

CONSTANTS MsDuration,     \* ms of timebase_d
          MsGate,         \* ms of timebase_g
          HvChannels      \* channels of human-voice resources

SmafParsersAssumption == MsDuration \in Nat /\ MsGate \in Nat

-------------------------------------------------------------------------------
(* A body is a sequence of bytes; positions count from 0 as in the code.   *)

Wild == -1

Has(b, p, n) == p + n <= Len(b)

(* The pattern stands at p; Wild is any byte.                               *)
Matches(b, p, pattern) ==
  Has(b, p, Len(pattern)) /\ \A i \in DOMAIN pattern : pattern[i] \in {Wild, b[p + i]}

Clip(b, p) == Min({p, Len(b)})

-------------------------------------------------------------------------------
(* Numbers: the value and the position behind it.                          *)

Number(value, next) == [value |-> value, next |-> next]

(* midi_vlq: groups of seven bits, to the first byte without a mark, to    *)
(* the fourth, or to the end of the body.                                  *)
Vlq(b, p) ==
  LET room == Max({0, Min({4, Len(b) - p})})
      last == {i \in 1..room : b[p + i] < 128}
      size == IF last = {} THEN room ELSE Min(last)
  IN Number(FoldLeft(LAMBDA v, x : v * 128 + (x % 128), 0, SubSeq(b, p + 1, p + size)), p + size)

(* ma_vlq_unterminated.                                                    *)
Unterminated(b, p) == Has(b, p, 4) /\ \A i \in 1..4 : b[p + i] >= 128

(* Wrong: a byte that is missing counts as all ones.                       *)
HandyVar_Ones(b, p) ==
  IF ~Has(b, p, 1) THEN Number(0, p)
  ELSE IF b[p + 1] < 128 THEN Number(b[p + 1], p + 1)
  ELSE Number(128 + (b[p + 1] % 128) * 128 + (IF Has(b, p, 2) THEN b[p + 2] % 128 ELSE 127),
              Clip(b, p + 2))

(* handy_var: one byte, or two that are biased.                            *)
HandyVar(b, p) ==
  IF ~Has(b, p, 1) THEN Number(0, p)
  ELSE IF b[p + 1] < 128 THEN Number(b[p + 1], p + 1)
  ELSE Number(128 + (b[p + 1] % 128) * 128 + (IF Has(b, p, 2) THEN b[p + 2] % 128 ELSE 0),
              Clip(b, p + 2))

(* scale_ticks, ms of a timebase to units of 4 ms, rounded.                *)
Scaled(value, ms) == (value * ms + 2) \div 4

-------------------------------------------------------------------------------
(* Page markers.                                                           *)

(* _is_mtsq_transport_marker; its second form contains its first.          *)
MtsqMark(b, p) ==
  Matches(b, p, <<255, 127, 1, 0, Wild, 0, Wild, 0, Wild, Wild, 0, 0, 1, 0, 255, 255>>)

(* _is_handy_transport_marker.                                             *)
HandyMark(b, p) ==
  /\ Matches(b, p, <<254, 0, Wild, Wild, Wild, Wild, Wild, 0, Wild, 0, Wild, Wild>>)
  /\ b[p + 3] # 0
  /\ <<b[p + 11], b[p + 12]>> \in {<<240, 0>>, <<240, 1>>, <<240, 3>>, <<239, 2>>}

(* fe_marker_resume of parse_mtsq_midi_like: it goes on nine bytes later.  *)
FeMark(b, p) == Matches(b, p, <<254, 0, Wild, 0, Wild, 0, 1, 0, 0, 0, 240, 1>>)

(* b without the size bytes at each of marks, nor the footer before them.  *)
Stripped(b, marks, size, footer) ==
  LET scan(s, p) ==
        IF s.skip > 0 THEN [s EXCEPT !.skip = @ - 1]
        ELSE IF p \in marks
        THEN [out |-> SubSeq(s.out, 1, Max({0, Len(s.out) - footer})), skip |-> size - 1]
        ELSE [s EXCEPT !.out = Append(@, b[p + 1])]
      positions == [i \in 1..Len(b) |-> i - 1]
  IN IF marks = {} THEN b ELSE FoldLeft(scan, [out |-> <<>>, skip |-> 0], positions).out

MtsqMarks(b)  == {p \in 0..Len(b) - 1 : MtsqMark(b, p)}
HandyMarks(b) == {p \in 0..Len(b) - 1 : HandyMark(b, p)}

(* strip_mtsq_transport_markers.                                           *)
WithoutMtsqMarks(b) == Stripped(b, MtsqMarks(b), 16, 0)

(* Wrong: the checksum of the page stays in the score.                     *)
WithoutHandyMarks_Footer(b) == Stripped(b, HandyMarks(b), 12, 0)

(* strip_handy_transport_markers.                                          *)
WithoutHandyMarks(b) == Stripped(b, HandyMarks(b), 12, 4)

-------------------------------------------------------------------------------
(* Commands of the synthesizer, which become control events                *)
(* <<channel, controller, value>>.                                         *)

ChannelParam == 256
EffectParam  == 512
Sfx0Change   == 772
SfxChange    == 768
PitchBend    == 769
Event3d      == 770
Channel3d    == 771
MasterVolume == 773

Is3d(b, s) == Has(b, s, 3) /\ b[s + 1] = 158 /\ b[s + 2] <= 15 /\ b[s + 3] >= 128

(* parse_macmd_3d_channel and parse_macmd_send_level: 8B, a target, an     *)
(* optional 80, a code, a value.                                           *)
ChannelForms(b, s) ==
  {n \in {4, 5} : /\ Has(b, s, n) /\ b[s + 1] = 139 /\ b[s + 2] >= 128
                  /\ n = 5 => b[s + 3] = 128
                  /\ b[s + n - 1] \in 148..151 /\ b[s + n] >= 128}

IsCommand(b, s) == Is3d(b, s) \/ ChannelForms(b, s) # {}

CommandLength(b, s) == IF Is3d(b, s) THEN 3 ELSE Min(ChannelForms(b, s))

Command(b, s) ==
  LET n == CommandLength(b, s)
      target == b[s + 2] % 128
      value  == b[s + n] % 128
  IN IF n = 3 THEN <<0, Event3d, target * 128 + value>>
     ELSE IF b[s + n - 1] = 148 THEN <<target % 16, Channel3d, target * 128 + value>>
     ELSE <<target % 16, ChannelParam + b[s + n - 1] - 128, value>>

(* append_yamaha_sysex_controls: none or one control event.                *)
SysexControls(x) ==
  LET end == Len(x) - (IF Len(x) > 0 /\ x[Len(x)] = 247 THEN 1 ELSE 0)
  IN IF Len(x) < 6 \/ x[1] # 67 \/ x[4] # 127 THEN <<>>
     ELSE IF x[5] \in {0, 32} /\ end >= 6 THEN <<(<<0, MasterVolume, x[6] % 128>>)>>
     ELSE IF x[5] = 11 /\ end >= 8
     THEN <<(<<x[7] % 16, ChannelParam + (x[6] % 128), x[8] % 128>>)>>
     ELSE IF x[5] = 12 /\ end >= 8
     THEN <<(<<x[7] % 16, EffectParam + (x[6] % 128), x[8] % 128>>)>>
     ELSE <<>>

-------------------------------------------------------------------------------
(* A parser: its body and cursor, what it has found, and the settings of   *)
(* channels that were changed.                                             *)

Fresh(format, body) ==
  [format |-> format, body |-> body, pos |-> 0, tick |-> 0, notes |-> <<>>,
   controls |-> <<>>, set |-> <<>>, over |-> FALSE]

Default(format) ==
  CASE format = "midi"  -> [bank_msb |-> 0, bank_lsb |-> 0, program |-> 0, volume |-> 127,
                            expression |-> 127, pan |-> 64, velocity |-> 127]
    [] format = "fmt7"  -> [bank_msb |-> 0, bank_lsb |-> 0, program |-> 0, volume |-> 127,
                            expression |-> 127, pan |-> 64, velocity |-> 100]
    [] format = "handy" -> [bank_msb |-> 0, bank_lsb |-> 0, program |-> 0, volume |-> 64,
                            channel_volume |-> 127, pan |-> 64, velocity |-> 64, octave |-> 0]
    [] format = "audio" -> [volume |-> 127, expression |-> 127, pan |-> 64]

Setting(d, name, ch) ==
  IF <<name, ch>> \in DOMAIN d.set THEN d.set[<<name, ch>>] ELSE Default(d.format)[name]

Put(d, name, ch, value) == [d EXCEPT !.set = (<<name, ch>> :> value) @@ @]

Settings(d, ch) == [name \in DOMAIN Default(d.format) |-> Setting(d, name, ch)]

Over(d)     == [d EXCEPT !.over = TRUE]
To(d, p)    == [d EXCEPT !.pos = p]
Upto(d, p)  == To(d, Clip(d.body, p))

(* The event that began at start and ends at the cursor.                   *)
Raw(d, start) == SubSeq(d.body, start + 1, d.pos)

WithControls(d, cs) ==
  [d EXCEPT !.controls = @ \o [i \in DOMAIN cs |-> <<d.tick>> \o cs[i]]]

TakeCommand(d, s) == To(WithControls(d, <<Command(d.body, s)>>), s + CommandLength(d.body, s))

TakeSysex(d, from, end) ==
  To(WithControls(d, SysexControls(SubSeq(d.body, from + 1, end))), end)

(* A note, which ends where its gate does.                                 *)
WithNote(d, start, ch, note, velocity, gate) ==
  LET e == To(d, gate.next)
  IN [e EXCEPT !.notes = Append(@,
        [tick |-> e.tick, channel |-> ch, note |-> note, velocity |-> velocity,
         span |-> Max({1, Scaled(gate.value, MsGate)}),
         set |-> Settings(e, ch), at |-> start, raw |-> Raw(e, start)])]

(* A controller: it is reported, and some change a setting.                *)
Controlled(d, ch, cc, value) ==
  LET e == WithControls(d, <<(<<ch, cc, value % 128>>)>>)
  IN CASE cc = 0         -> Put(e, "bank_msb", ch, value)
       [] cc = 32        -> Put(e, "bank_lsb", ch, value)
       [] cc = 7         -> Put(e, "volume", ch, value)
       [] cc = 10        -> Put(e, "pan", ch, value)
       [] cc = 11        -> Put(e, "expression", ch, value)
       [] OTHER          -> e

(* The delta in front of an event: the parser stands behind the status.    *)
After(d, delta) ==
  [d EXCEPT !.pos = delta.next + 1, !.tick = @ + Scaled(delta.value, MsDuration)]

-------------------------------------------------------------------------------
(* parse_mtsq_midi_like.                                                   *)

(* The page markers at positions ps, and where a parser goes on after one. *)
Marked(b, ps) == {p \in ps : FeMark(b, p) \/ MtsqMark(b, p)}
Resume(b, p) == IF FeMark(b, p) THEN p + 9 ELSE p + 16

(* An F0 packet that is not Yamaha's is skipped by its length, or by four. *)
MidiSysex(e) ==
  LET v == Vlq(e.body, e.pos)
      end == v.next + v.value
      own == /\ Has(e.body, v.next, v.value) /\ v.value >= 6
             /\ e.body[v.next + 1] = 67 /\ e.body[end] = 247
  IN IF own THEN TakeSysex(e, v.next, end)
     ELSE Upto(e, v.next + IF v.value = 1 THEN 4 ELSE v.value)

(* Wrong: the mark starts the sequence anew, whenever it comes.            *)
MidiStart_Always(e, delta) == [e EXCEPT !.tick = 0]

(* FF 00: the start of the sequence, or nothing; its delta is no time.     *)
MidiStart(e, delta) ==
  [e EXCEPT !.tick = IF e.notes = <<>> THEN 0 ELSE @ - Scaled(delta.value, MsDuration)]

MidiMeta(e, delta) ==
  LET v == Vlq(e.body, e.pos + 1)
  IN IF ~Has(e.body, e.pos, 1) \/ e.body[e.pos + 1] = 47 THEN Over(e)
     ELSE IF e.body[e.pos + 1] = 0 THEN To(MidiStart(e, delta), e.pos + 1)
     ELSE IF Has(e.body, v.next, v.value) THEN To(e, v.next + v.value) ELSE Over(e)

(* F1 to FE: a payload by its length, clipped to the body.                 *)
MidiOtherF(e) ==
  LET v == Vlq(e.body, e.pos)
      end == Clip(e.body, v.next + v.value)
      own == end - v.next >= 6 /\ e.body[v.next + 1] = 67 /\ e.body[end] = 247
  IN IF own THEN TakeSysex(e, v.next, end) ELSE To(e, end)

Arguments(kind) == IF kind \in {128, 192, 208} THEN 1 ELSE 2

MidiChannel(e, start, kind, ch) ==
  LET b == e.body
      arg(i) == b[e.pos + i]
      gate == Vlq(b, e.pos + Arguments(kind))
      past == To(e, e.pos + Arguments(kind))
      held == Put(e, "velocity", ch, arg(2) % 128)
  IN CASE kind = 128 -> IF Unterminated(b, e.pos + 1) THEN Over(e)
                        ELSE WithNote(e, start, ch, arg(1), Setting(e, "velocity", ch), gate)
       [] kind = 144 -> IF Unterminated(b, e.pos + 2) THEN Over(e)
                        ELSE IF arg(2) = 0 \/ gate.value = 0 THEN To(held, gate.next)
                        ELSE WithNote(held, start, ch, arg(1), arg(2) % 128, gate)
       [] kind = 176 -> Controlled(past, ch, arg(1), arg(2))
       [] kind = 192 -> Put(past, "program", ch, arg(1))
       [] kind = 224 -> WithControls(past, <<(<<ch, PitchBend, (arg(2) % 128) * 128 + (arg(1) % 128)>>)>>)
       [] kind \in {160, 208} -> past

(* A4: a change of the effect.                                             *)
MidiEffect(e) ==
  LET kind == e.body[e.pos + 1]
      value == e.body[e.pos + 2] % 128
  IN To(IF kind \in {0, 128}
        THEN WithControls(e, <<(<<0, IF kind = 0 THEN SfxChange ELSE Sfx0Change, value>>)>>)
        ELSE e, e.pos + 2)

MidiStatus(e, start, status, delta) ==
  LET b == e.body
      kind == (status \div 16) * 16
      low == {p \in {e.pos, e.pos + 1} : FeMark(b, p)}
  IN CASE status = 240 -> MidiSysex(e)
       [] status = 255 -> MidiMeta(e, delta)
       [] status \in 241..254 -> MidiOtherF(e)
       [] status < 128 -> IF low = {} THEN e ELSE To(e, Resume(b, Min(low)))
       [] status \in 128..239 ->
            IF IsCommand(b, e.pos - 1) THEN TakeCommand(e, e.pos - 1)
            ELSE IF status = 164 /\ Has(b, e.pos, 2) THEN MidiEffect(e)
            ELSE IF FeMark(b, e.pos) THEN To(e, Resume(b, e.pos))
            ELSE IF kind = 208 THEN Upto(e, e.pos + 1)
            ELSE IF ~Has(b, e.pos, Arguments(kind)) THEN Over(e)
            ELSE MidiChannel(e, start, kind, status % 16)

MidiEvent(d) ==
  LET b == d.body
      delta == Vlq(b, d.pos)
      near == Marked(b, d.pos .. (d.pos + 3))
  IN IF near # {} THEN To(d, Resume(b, Min(near)))
     ELSE IF Unterminated(b, d.pos) \/ ~Has(b, delta.next, 1) THEN Over(d)
     ELSE MidiStatus(After(d, delta), d.pos, b[delta.next + 1], delta)

-------------------------------------------------------------------------------
(* parse_mtsq_fmt7.                                                        *)

End(b, p) == Matches(b, p, <<0, 0, 0, 0>>)

(* emit_note: without a gate there is no note.                             *)
Fmt7Note(e, start, ch, velocity, gate) ==
  IF gate.value = 0 THEN To(e, gate.next)
  ELSE WithNote(e, start, ch, e.body[e.pos + 1] % 128, Max({1, velocity}), gate)

(* apply_cc: controller 121 resets the velocity; volume and pan of a low   *)
(* channel are reported as parameters too, through tables left out here.   *)
Fmt7Control(e, ch, cc, value) ==
  LET f == Controlled(To(e, e.pos + 2), ch, cc, value)
  IN IF cc = 121 THEN Put(f, "velocity", ch, 100)
     ELSE IF ch < 16 /\ cc \in {7, 10}
     THEN WithControls(f, <<(<<ch, ChannelParam + (IF cc = 7 THEN 12 ELSE 13), value>>)>>)
     ELSE f

Fmt7Channel(e, start, group, ch) ==
  LET b == e.body
      arg(i) == b[e.pos + i] % 128
  IN CASE group \in {0, 128} ->
            Fmt7Note(e, start, ch, Setting(e, "velocity", ch), Vlq(b, e.pos + 1))
       [] group \in {16, 32, 144} ->
            Fmt7Note(Put(e, "velocity", ch, Max({1, arg(2)})), start, ch, arg(2),
                     Vlq(b, e.pos + 2))
       [] group \in {48, 176} -> Fmt7Control(e, ch, arg(1), arg(2))
       [] group \in {64, 192} -> Put(To(e, e.pos + 1), "program", ch, arg(1))
       [] group = 96          -> To(e, e.pos + 2)
       [] group = 224         -> WithControls(To(e, e.pos + 2),
                                   <<(<<ch, PitchBend, arg(2) * 128 + arg(1)>>)>>)

Fmt7Arguments(group) == IF group \in {0, 128, 64, 192} THEN 1 ELSE 2

(* FF: a meta event, whose number alone is read; other F are packets.      *)
Fmt7System(e, status) ==
  LET v == Vlq(e.body, e.pos)
  IN IF status % 16 # 15 THEN TakeSysex(e, v.next, Clip(e.body, v.next + v.value))
     ELSE IF ~Has(e.body, e.pos, 1) \/ e.body[e.pos + 1] % 128 = 47 THEN Over(e)
     ELSE To(e, e.pos + 1)

Fmt7Status(e, start, status) ==
  LET group == (status \div 16) * 16
      ch == (status % 16) + (IF status >= 128 THEN 16 ELSE 0)
  IN IF IsCommand(e.body, e.pos - 1) THEN TakeCommand(e, e.pos - 1)
     ELSE IF group = 240 THEN Fmt7System(e, status)
     ELSE IF group \in {80, 208} THEN Upto(e, e.pos + 1)
     ELSE IF group \in {112, 160} THEN Upto(e, e.pos + 2)
     ELSE IF ~Has(e.body, e.pos, Fmt7Arguments(group)) THEN Over(e)
     ELSE Fmt7Channel(e, start, group, ch)

Fmt7Event(d) ==
  LET delta == Vlq(d.body, d.pos)
  IN IF End(d.body, d.pos) \/ ~Has(d.body, delta.next, 1) THEN Over(d)
     ELSE Fmt7Status(After(d, delta), d.pos, d.body[delta.next + 1])

-------------------------------------------------------------------------------
(* parse_mtsq_handy, and parse_atsq_handy for the audio sequence.          *)

ShortExpression == <<0, 0, 31, 39, 47, 55, 63, 71, 79, 87, 95, 103, 111, 119, 127, 0>>

(* handy_compact_channel_volume_value.                                     *)
CompactVolume(value) == Min({31, value \div 5}) * 4 + 3

(* A compact control with a value.                                         *)
HandyValue(d, ch, code, value) ==
  LET v == value % 128
      loud == Put(Put(Put(d, "volume", ch, v), "channel_volume", ch, CompactVolume(v)),
                  "velocity", ch, Max({1, v}))
  IN CASE code = 0  -> Put(d, "program", ch, v)
       [] code = 1  -> Put(Put(d, "bank_msb", ch, value - v), "bank_lsb", ch, v)
       [] code = 2  -> Put(d, "octave", ch, IF value < 128 THEN v ELSE -v)
       [] code = 6  -> Put(d, "velocity", ch, Max({1, v}))
       [] code = 7  -> WithControls(loud, <<(<<ch, 7, CompactVolume(v)>>)>>)
       [] code = 10 -> WithControls(Put(d, "pan", ch, v), <<(<<ch, 10, v>>)>>)
       [] code = 11 -> Put(d, "velocity", ch, v)
       [] OTHER     -> d

AudioValue(d, ch, code, value) ==
  CASE code = 7  -> Put(d, "volume", ch, value % 128)
    [] code = 10 -> Put(d, "pan", ch, value % 128)
    [] code = 11 -> Put(d, "expression", ch, value % 128)
    [] OTHER     -> d

(* Status 0: a control byte of channel, family and code; family 3 has a    *)
(* value, family 0 is an expression, which Handy keeps as the velocity.    *)
CompactControl(e) ==
  LET b == e.body
      byte == b[e.pos + 1]
      ch == byte \div 64
      family == (byte \div 16) % 4
      code == byte % 16
      past == To(e, e.pos + 1)
      handy == e.format = "handy"
  IN IF ~Has(b, e.pos, 1) \/ (family = 3 /\ ~Has(b, e.pos, 2)) THEN Over(e)
     ELSE IF family = 3
     THEN LET f == To(e, e.pos + 2)
          IN IF handy THEN HandyValue(f, ch, code, b[e.pos + 2])
             ELSE AudioValue(f, ch, code, b[e.pos + 2])
     ELSE IF family = 0 /\ code # 0
     THEN Put(past, IF handy THEN "velocity" ELSE "expression", ch, ShortExpression[code + 1])
     ELSE IF handy /\ family = 2 /\ code = 2
     THEN WithControls(past, <<(<<ch, ChannelParam + 15, 1>>)>>)
     ELSE past

(* A packet with its size in one byte.                                     *)
HandySysex(e, p) == TakeSysex(e, p + 1, Clip(e.body, p + 1 + e.body[p + 1]))

HandyMeta(e) ==
  LET p == e.pos + 1
  IN IF ~Has(e.body, e.pos, 1) THEN Over(e)
     ELSE IF e.body[e.pos + 1] = 240 /\ Has(e.body, p, 1) THEN HandySysex(e, p)
     ELSE To(e, p)

(* A note names octave and tone, or is a rest with a gate.                 *)
HandyNote(e, start, status) ==
  LET ch == status \div 64
      tone == status % 16
      gate == HandyVar(e.body, e.pos)
      key == 36 + ((status \div 16) % 4) * 12 + tone + Setting(e, "octave", ch) * 12
  IN IF tone \notin 1..12 \/ gate.value = 0 THEN To(e, gate.next)
     ELSE WithNote(e, start, ch, Max({0, Min({127, key})}), 127, gate)

HandyStatus(e, start, status) ==
  IF IsCommand(e.body, e.pos - 1) THEN TakeCommand(e, e.pos - 1)
  ELSE IF status = 240 /\ Has(e.body, e.pos, 1) THEN HandySysex(e, e.pos)
  ELSE IF status = 255 THEN HandyMeta(e)
  ELSE IF status = 0 THEN CompactControl(e)
  ELSE HandyNote(e, start, status)

HandyEvent(d) ==
  LET delta == HandyVar(d.body, d.pos)
  IN IF End(d.body, d.pos) THEN Over(d)
     ELSE IF IsCommand(d.body, d.pos) THEN TakeCommand(d, d.pos)
     ELSE IF ~Has(d.body, delta.next, 1) THEN Over(d)
     ELSE HandyStatus(After(d, delta), d.pos, d.body[delta.next + 1])

AudioMeta(e) ==
  LET p == e.pos + 1
  IN IF ~Has(e.body, e.pos, 1) \/ e.body[e.pos + 1] = 47 THEN Over(e)
     ELSE IF e.body[e.pos + 1] = 240 /\ Has(e.body, p, 1)
     THEN Upto(e, p + 1 + e.body[p + 1])
     ELSE To(e, p)

AudioStatus(e, start, status) ==
  IF status = 255 THEN AudioMeta(e)
  ELSE IF status = 0 THEN CompactControl(e)
  ELSE IF status % 64 \notin 1..62 THEN e
  ELSE WithNote(e, start, status \div 64, status % 64,
                Setting(e, "volume", status \div 64), HandyVar(e.body, e.pos))

AudioEvent(d) ==
  LET delta == HandyVar(d.body, d.pos)
  IN IF End(d.body, d.pos) \/ ~Has(d.body, delta.next, 1) THEN Over(d)
     ELSE AudioStatus(After(d, delta), d.pos, d.body[delta.next + 1])

-------------------------------------------------------------------------------
(* _parse_hv_note_events_midi_like and _parse_hv_note_events_fmt7: the     *)
(* same events are stepped over; a D0, or a 50 of format 3, is a voice.    *)

Voice(e, start, ch) ==
  LET f == To(e, e.pos + 1)
  IN IF ~Has(e.body, e.pos, 1) THEN Over(e)
     ELSE IF ch \notin HvChannels THEN f
     ELSE [f EXCEPT !.notes = Append(@, [tick |-> f.tick, channel |-> ch, at |-> start,
                                         note |-> e.body[e.pos + 1] % 128])]

(* Wrong: the gate is taken for the next event.                            *)
Gated_Not(e, n) ==
  IF Has(e.body, e.pos, n) THEN To(e, e.pos + n) ELSE Over(e)

(* A note is stepped over with its gate, n bytes behind its status.        *)
Gated(e, n) ==
  IF Has(e.body, e.pos, n) THEN To(e, Vlq(e.body, e.pos + n).next) ELSE Over(e)

Packet(e, p) == LET v == Vlq(e.body, p) IN Upto(e, v.next + v.value)

VoiceMeta(e, delta) ==
  IF ~Has(e.body, e.pos, 1) \/ e.body[e.pos + 1] = 47 THEN Over(e)
  ELSE IF e.body[e.pos + 1] = 0 THEN To(MidiStart(e, delta), e.pos + 1)
  ELSE Packet(e, e.pos + 1)

MidiVoiceStatus(e, start, status, delta) ==
  LET kind == (status \div 16) * 16
  IN CASE status = 255 -> VoiceMeta(e, delta)
       [] status \in 240..254 -> Packet(e, e.pos)
       [] status < 128 -> e
       [] status \in 128..239 ->
            IF IsCommand(e.body, e.pos - 1) THEN To(e, e.pos - 1 + CommandLength(e.body, e.pos - 1))
            ELSE IF kind = 208 THEN Voice(e, start, status % 16)
            ELSE IF kind \in {128, 144} THEN Gated(e, Arguments(kind))
            ELSE Upto(e, e.pos + Arguments(kind))

Fmt7VoiceStatus(e, start, status) ==
  LET group == (status \div 16) * 16
      ch == (status % 16) + (IF status >= 128 THEN 16 ELSE 0)
  IN CASE IsCommand(e.body, e.pos - 1) -> To(e, e.pos - 1 + CommandLength(e.body, e.pos - 1))
       [] ~IsCommand(e.body, e.pos - 1) ->
            IF group \in {80, 208} THEN Voice(e, start, ch)
            ELSE IF group \in {0, 128, 16, 32, 144} THEN Gated(e, Fmt7Arguments(group))
            ELSE IF group \in {64, 192} THEN Upto(e, e.pos + 1)
            ELSE IF group # 240 THEN Upto(e, e.pos + 2)
            ELSE IF status % 16 # 15 THEN Packet(e, e.pos)
            ELSE IF ~Has(e.body, e.pos, 1) \/ e.body[e.pos + 1] % 128 = 47 THEN Over(e)
            ELSE To(e, e.pos + 1)

VoiceEvent(d) ==
  LET delta == Vlq(d.body, d.pos)
      status == d.body[delta.next + 1]
      fmt7 == d.format = "fmt7"
  IN IF (fmt7 /\ End(d.body, d.pos)) \/ (~fmt7 /\ Unterminated(d.body, d.pos)) THEN Over(d)
     ELSE IF ~Has(d.body, delta.next, 1) THEN Over(d)
     ELSE IF fmt7 THEN Fmt7VoiceStatus(After(d, delta), d.pos, status)
     ELSE MidiVoiceStatus(After(d, delta), d.pos, status, delta)

-------------------------------------------------------------------------------
(* The loops.                                                              *)

Event(d) ==
  CASE d.format = "midi"  -> MidiEvent(d)
    [] d.format = "fmt7"  -> Fmt7Event(d)
    [] d.format = "handy" -> HandyEvent(d)
    [] d.format = "audio" -> AudioEvent(d)

Stepped(d, Of(_)) ==
  IF d.over THEN d ELSE IF d.pos >= Len(d.body) THEN Over(d) ELSE Of(d)

(* What the parser of a format makes of a body before it starts.           *)
Prepared(format, body) ==
  CASE format = "midi"  -> WithoutHandyMarks(WithoutMtsqMarks(body))
    [] format = "handy" -> WithoutHandyMarks(body)
    [] format \in {"fmt7", "audio"} -> body
===============================================================================
