------------------------------ MODULE SerialBus -------------------------------
(***************************************************************************)
(* The serial bus interface of soc/sbi.py.  The emulator does not know     *)
(* whether the firmware has one: it watches the guest's own start-up       *)
(* (observing), answers its first status read tentatively (candidate) and  *)
(* then accepts or rejects it.                                             *)
(*                                                                         *)
(* A hook runs before the access it sees: what the guest writes lands      *)
(* after the hook, what it reads is what the hook left.                    *)
(***************************************************************************)
EXTENDS Integers, Sequences

CONSTANTS Writes,      \* [reg, size, value]: what the guest writes to the SBI
          Reads        \* [reg, size]: what it reads

MaxByte == 255
MaxWord == 65535
ControlBits == 4096    \* of the control register: a word & 0xFFF
Registers == {"base", "control", "data", "start", "other"}

(* A hook sees the bytes that are stored: a value fits its size.           *)
SerialBusAssumption ==
  /\ \A w \in Writes : /\ w.reg \in Registers /\ w.size \in {1, 2}
                       /\ w.value \in 0..(IF w.size = 1 THEN MaxByte ELSE MaxWord)
  /\ \A r \in Reads : r.reg \in Registers /\ r.size \in {1, 2}

VARIABLE bus

W(reg, size, value) == [reg |-> reg, size |-> size, value |-> value]

(* SBI_BOOTSTRAP, the writes of the start-up, and the write between the    *)
(* two status reads that validate it.                                      *)
Bootstrap == << W("base", 1, 69), W("base", 1, 197), W("control", 2, 2143),
                W("data", 2, 1055), W("start", 1, 0), W("start", 1, 1) >>
ValidationWrite == W("data", 2, 2304)

None == -1

TypeOK ==
  /\ bus.status \in {"observing", "candidate", "accepted", "rejected"}
  /\ bus.bootstrap \in 0..Len(Bootstrap)
  /\ bus.validation \in 0..3
  /\ bus.control \in 0..(ControlBits - 1)
  /\ bus.started \in BOOLEAN /\ bus.pending \in BOOLEAN /\ bus.full \in BOOLEAN
  /\ bus.backing \in {None} \cup (0..MaxWord)  \* _sbi_native_status_backing
  /\ bus.polled \in BOOLEAN                  \* _sbi_poll_aperture is set
  /\ bus.word \in 0..MaxWord                   \* the word at SBI_BASE
  /\ bus.native \in 0..MaxWord  \* what the guest's own writes alone would leave there

Init ==
  bus = [status |-> "observing", bootstrap |-> 0, validation |-> 0, control |-> 0,
         started |-> FALSE, pending |-> FALSE, full |-> FALSE, backing |-> None,
         polled |-> FALSE, word |-> 0, native |-> 0]

-------------------------------------------------------------------------------
(* _sbi_status_value: the control bits where the status register has them. *)
StatusValue(b) ==
  (b.control % 256) * 256
    + ((b.control \div 512) % 4) * 64
    + ((b.control \div 2048) % 2) * 32
    + (IF b.full THEN 2 ELSE 0)

(* Wrong: the saved word is forgotten before it is put back.               *)
Rejected_Forgets(b) ==
  [b EXCEPT !.status = "rejected", !.backing = None, !.polled = FALSE,
            !.pending = FALSE, !.full = FALSE]

(* _sbi_reject: the word the tentative answers hid is put back.            *)
Rejected(b) ==
  [b EXCEPT !.word = IF b.backing = None THEN @ ELSE b.backing,
            !.status = "rejected", !.backing = None, !.polled = FALSE,
            !.pending = FALSE, !.full = FALSE]

(* The first part of _sbi_write: how a write moves the profile.            *)
Profiled(b, w) ==
  CASE b.status = "observing" /\ w = Bootstrap[b.bootstrap + 1] ->
         IF b.bootstrap + 1 = Len(Bootstrap)
         THEN [b EXCEPT !.bootstrap = @ + 1, !.status = "candidate", !.polled = TRUE]
         ELSE [b EXCEPT !.bootstrap = @ + 1]
    [] b.status = "observing" /\ w # Bootstrap[b.bootstrap + 1] ->
         [b EXCEPT !.bootstrap = IF w = Bootstrap[1] THEN 1 ELSE 0]
    [] b.status = "candidate" ->
         IF b.validation = 1 /\ w = ValidationWrite
         THEN [b EXCEPT !.validation = 2]
         ELSE Rejected(b)
    [] OTHER -> b

(* A request fills the read buffer when the bus is started, or when it is. *)
Filled(b) ==
  IF b.status = "accepted" /\ b.started /\ b.pending
  THEN [b EXCEPT !.pending = FALSE, !.full = TRUE] ELSE b

(* The second part of _sbi_write: the register itself.                     *)
Registered(b, w) ==
  CASE w.reg = "control" /\ w.size = 2 -> [b EXCEPT !.control = w.value % ControlBits]
    [] w.reg = "data" /\ w.size = 2 /\ b.status = "accepted" ->
         Filled([b EXCEPT !.pending = w.value >= 32768])
    [] w.reg = "start" /\ w.size = 1 -> Filled([b EXCEPT !.started = w.value % 2 = 1])
    [] OTHER -> b

(* The guest's write lands in the word at SBI_BASE.                        *)
Lands(word, w) ==
  IF w.reg # "base" THEN word
  ELSE IF w.size = 1 THEN word - (word % 256) + w.value ELSE w.value

(* _sbi_write.                                                             *)
Write(w) ==
  LET b == Registered(Profiled(bus, w), w)
  IN bus' = [b EXCEPT !.word = Lands(b.word, w), !.native = Lands(b.native, w)]

(* The validating reads of _sbi_read.                                      *)
Validated(b, r) ==
  CASE b.status # "candidate" -> b
    [] b.status = "candidate" /\ (r.reg # "base" \/ r.size # 2) -> Rejected(b)
    [] b.status = "candidate" /\ r.reg = "base" /\ r.size = 2 ->
         IF b.validation = 0 THEN [b EXCEPT !.backing = b.word, !.validation = 1]
         ELSE IF b.validation = 2
         THEN [b EXCEPT !.status = "accepted", !.validation = 3, !.backing = None]
         ELSE Rejected(b)

(* _sbi_read.                                                              *)
Read(r) ==
  LET b == Validated(bus, r)
  IN bus' = CASE r.reg = "base" /\ r.size = 2 /\ b.status \in {"candidate", "accepted"} ->
                   [b EXCEPT !.word = StatusValue(b)]
              [] r.reg = "data" /\ r.size = 2 /\ b.status = "accepted" ->
                   [b EXCEPT !.full = FALSE]
              [] OTHER -> b

Next ==
  \/ \E w \in Writes : Write(w)
  \/ \E r \in Reads : Read(r)

Spec == Init /\ [][Next]_bus

-------------------------------------------------------------------------------
(* Properties.                                                             *)

(* A firmware that turns out to have no SBI finds the register as it left  *)
(* it: outside candidate and accepted, the word is what the guest's own    *)
(* writes make it, whatever tentative answers covered it (_sbi_reject,     *)
(* which runs inside the guest's next access).  A word the emulator saved  *)
(* is one it hides.                                                        *)
NativeUnlessAnswered ==
  /\ bus.status \in {"observing", "rejected"} => bus.word = bus.native
  /\ bus.backing # None => bus.status = "candidate" /\ bus.backing = bus.native

(* The buffer of an accepted bus is full only after a request and a start; *)
(* a request waits for a start alone.                                      *)
RequestsWait ==
  /\ bus.status # "accepted" => ~bus.pending /\ ~bus.full
  /\ bus.pending => ~bus.started
===============================================================================
