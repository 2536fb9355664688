-------------------------------- MODULE Keypad --------------------------------
(***************************************************************************)
(* A key's way from the desktop to the emulated handset: the keyboard and  *)
(* mouse handlers of ControlsMixin (gui/controls.py), the command queue,   *)
(* the drain loop of WorkerMixin._run and InputMixin.set_key of a firmware *)
(* with a detected direct matrix.                                          *)
(*                                                                         *)
(* Key events wait in the window system's queue; auto-repeat puts a        *)
(* release and the next press there together.  A release is believed only  *)
(* when Tk is idle, that is, when that queue is empty.                     *)
(***************************************************************************)
EXTENDS Sequences, Naturals, SequencesExt

CONSTANTS Keys,           \* handset key bits
          Keyboard, Mouse,   \* the sources of key events
          KeyOf,          \* the handset key a source stands for
          Profiles,       \* what detection can find: .matrix, the keys with a
                          \* cell; .sideband, those with a sideband producer
          MatrixEvents,   \* events with one cell in the detected matrix
          SidebandEvent,  \* the event of a key's producer
          Manual,         \* the manual event of a key, NoEvent for none
          NoEvent,
          MaxEvents, MaxCommands   \* bounds of the two queues

Sources == Keyboard \cup Mouse

KeypadAssumption ==
  /\ IsFiniteSet(Keys)
  /\ Keyboard \cap Mouse = {}
  /\ KeyOf \in [Sources -> Keys]
  /\ Profiles \subseteq [matrix : SUBSET Keys, sideband : SUBSET Keys]
  /\ DOMAIN SidebandEvent = Keys /\ DOMAIN Manual = Keys
  /\ \A k \in Keys : SidebandEvent[k] # NoEvent
  /\ MaxEvents \in Nat /\ MaxCommands \in Nat

VARIABLES down,        \* environment: sources physically down
          focus,       \* environment: the window has the keyboard
          events,      \* environment: key events not handled yet
          held,        \* self.held: per key, the sources holding it
          active,      \* self.keyboard_bits and keyboard_sources
          releasing,   \* self.pending_key_releases
          commands,    \* self.commands
          pending,     \* pending_command of the worker, <<>> for None
          edged,       \* key_transition_pending
          loop,        \* "absent" (no emulator), "drain" or "run"
          profile,     \* direct_input_profile of the firmware
          heldKeys,    \* held_keys of the emulator
          sideHeld,    \* direct_sideband_held_keys
          fresh        \* history: keys pressed since the guest last ran

desktop  == <<down, focus, events>>
window   == <<held, active, releasing>>
worker   == <<pending, edged, loop>>
emulator == <<heldKeys, sideHeld, fresh>>
vars == <<desktop, window, commands, worker, profile, emulator>>

Command == Keys \X BOOLEAN \X ({NoEvent} \cup {Manual[k] : k \in Keys})

TypeOK ==
  /\ down \subseteq Sources /\ focus \in BOOLEAN
  /\ events \in Seq(({"press", "release"} \X Sources) \cup {<<"focusout">>})
  /\ held \in [Keys -> SUBSET Sources]
  /\ active \subseteq Keyboard /\ releasing \subseteq Keyboard
  /\ commands \in Seq(Command)
  /\ pending \in {<<>>} \cup Command
  /\ edged \in BOOLEAN
  /\ loop \in {"absent", "drain", "run"}
  /\ profile \in Profiles
  /\ heldKeys \subseteq Keys /\ sideHeld \subseteq Keys /\ fresh \subseteq Keys

Init ==
  /\ down = {} /\ focus = TRUE /\ events = <<>>
  /\ held = [k \in Keys |-> {}] /\ active = {} /\ releasing = {}
  /\ commands = <<>> /\ pending = <<>> /\ edged = FALSE /\ loop = "absent"
  /\ profile \in Profiles
  /\ heldKeys = {} /\ sideHeld = {} /\ fresh = {}

-------------------------------------------------------------------------------
(* The desktop.                                                            *)

Arrives(new) ==
  /\ Len(events) + Len(new) <= MaxEvents
  /\ events' = events \o new

(* A key that goes down or up while another window has the keyboard sends  *)
(* nothing; a mouse button pressed on the window always sends its release. *)
Delivered(s, new) == Arrives(IF s \in Keyboard /\ ~ focus THEN <<>> ELSE new)

PushDown(s) ==
  /\ s \notin down
  /\ down' = down \cup {s}
  /\ Delivered(s, << <<"press", s>> >>)
  /\ UNCHANGED <<focus, window, commands, worker, emulator>>

LetGo(s) ==
  /\ s \in down
  /\ down' = down \ {s}
  /\ Delivered(s, << <<"release", s>> >>)
  /\ UNCHANGED <<focus, window, commands, worker, emulator>>

AutoRepeat(s) ==
  /\ s \in down \cap Keyboard /\ focus
  /\ Arrives(<< <<"release", s>>, <<"press", s>> >>)
  /\ UNCHANGED <<down, focus, window, commands, worker, emulator>>

FocusOut ==
  /\ focus /\ focus' = FALSE
  /\ Arrives(<< <<"focusout">> >>)
  /\ UNCHANGED <<down, window, commands, worker, emulator>>

FocusIn ==
  /\ ~ focus /\ focus' = TRUE
  /\ UNCHANGED <<down, events, window, commands, worker, emulator>>

-------------------------------------------------------------------------------
(* The emulator's view of a key and an event.                              *)

(* _direct_sideband_producer and _direct_matrix_position find something.   *)
HasProducer(k, event) ==
  IF event = NoEvent THEN k \in profile.sideband
  ELSE \E j \in profile.sideband : SidebandEvent[j] = event

HasPosition(k, event) ==
  IF event = NoEvent THEN k \in profile.matrix ELSE event \in MatrixEvents

CanSetKey(k, event) == HasProducer(k, event) \/ HasPosition(k, event)

(* set_key.  A producer is looked up anew for the release; only the matrix *)
(* remembers the position a key was pressed at.  The matrix holds one key  *)
(* at a time.                                                              *)
SetKey(k, pressed, event) ==
  LET side == HasProducer(k, event)
      was  == k \in (IF side THEN sideHeld ELSE heldKeys)
      Change(S) == IF pressed THEN S \cup {k} ELSE S \ {k}
      matrix == pressed => HasPosition(k, event) /\ heldKeys = {}
  IN /\ sideHeld' = IF side /\ pressed # was THEN Change(sideHeld) ELSE sideHeld
     /\ heldKeys' = IF ~ side /\ pressed # was /\ matrix
                    THEN Change(heldKeys) ELSE heldKeys
     /\ fresh' = fresh \cup ((heldKeys' \cup sideHeld') \ (heldKeys \cup sideHeld))

-------------------------------------------------------------------------------
(* The GUI thread.                                                         *)

(* _key for a set of sources that all change at once: the keys whose last  *)
(* source lets go, or whose first source takes hold, become commands.      *)
HeldAfterRelease(S) == [k \in Keys |-> held[k] \ S]
Freed(S) == {k \in Keys : held[k] # {} /\ held[k] \subseteq S}

Releases(K) == LET order == SetToSeq(K)
               IN [i \in DOMAIN order |-> <<order[i], FALSE, NoEvent>>]

KeyPress(s) ==
  LET k == KeyOf[s]
  IN /\ held' = [held EXCEPT ![k] = @ \cup {s}]
     /\ commands' = IF held[k] = {}
                    THEN Append(commands, <<k, TRUE, Manual[k]>>) ELSE commands

KeyRelease(S) ==
  /\ held' = HeldAfterRelease(S)
  /\ commands' = commands \o Releases(Freed(S))

Event(kind) == /\ events # <<>> /\ Head(events)[1] = kind
               /\ events' = Tail(events)

(* Wrong: the press of an auto-repeat does not cancel its release.         *)
HandlePress_KeepsRelease ==
  /\ Event("press")
  /\ LET s == Head(events)[2]
     IN IF loop # "absent" /\ CanSetKey(KeyOf[s], Manual[KeyOf[s]])
        THEN KeyPress(s) /\ active' = active \cup ({s} \cap Keyboard)
        ELSE UNCHANGED <<held, commands, active>>
  /\ UNCHANGED <<down, focus, releasing, worker, emulator>>

(* _keyboard_event(True) -> _keyboard_press, _mouse_key_press.             *)
HandlePress ==
  /\ Event("press")
  /\ LET s == Head(events)[2]
     IN IF loop # "absent" /\ CanSetKey(KeyOf[s], Manual[KeyOf[s]])
        THEN /\ KeyPress(s)
             /\ active' = active \cup ({s} \cap Keyboard)
             /\ releasing' = releasing \ {s}
        ELSE UNCHANGED <<held, commands, active, releasing>>
  /\ UNCHANGED <<down, focus, worker, emulator>>

(* _keyboard_event(False) -> _keyboard_release, _mouse_key_release.        *)
HandleRelease ==
  /\ Event("release")
  /\ LET s == Head(events)[2]
     IN IF s \in Keyboard
        THEN releasing' = releasing \cup {s} /\ UNCHANGED <<held, commands>>
        ELSE KeyRelease({s}) /\ UNCHANGED releasing
  /\ UNCHANGED <<down, focus, active, worker, emulator>>

(* Wrong: the keys are forgotten without being released.                   *)
HandleFocusOut_Forgets ==
  /\ Event("focusout")
  /\ active' = {} /\ releasing' = {}
  /\ UNCHANGED <<down, focus, held, commands, worker, emulator>>

(* _release_all.                                                           *)
HandleFocusOut ==
  /\ Event("focusout")
  /\ KeyRelease(active)
  /\ active' = {} /\ releasing' = {}
  /\ UNCHANGED <<down, focus, worker, emulator>>

(* confirm, called by Tk when idle.                                        *)
ConfirmRelease(s) ==
  /\ events = <<>>
  /\ s \in releasing
  /\ releasing' = releasing \ {s}
  /\ KeyRelease({s})
  /\ active' = active \ {s}
  /\ UNCHANGED <<desktop, worker, emulator>>

(* _restart: a new queue for a new worker with a new emulator.             *)
Restart ==
  /\ loop # "absent"
  /\ held' = [k \in Keys |-> {}] /\ active' = {} /\ releasing' = {}
  /\ commands' = <<>>
  /\ pending' = <<>> /\ edged' = FALSE /\ loop' = "absent"
  /\ heldKeys' = {} /\ sideHeld' = {} /\ fresh' = {}
  /\ UNCHANGED desktop

-------------------------------------------------------------------------------
(* The worker.                                                             *)

EmulatorReady ==
  /\ loop = "absent"
  /\ loop' = "drain"
  /\ UNCHANGED <<desktop, window, commands, pending, edged, emulator>>

(* Wrong: a second edge is dropped, or applied before the guest runs.      *)
TakeCommand_DropsSecond ==
  /\ loop = "drain" /\ commands # <<>>
  /\ commands' = Tail(commands)
  /\ IF edged
     THEN loop' = "run" /\ UNCHANGED <<edged, emulator>>
     ELSE /\ edged' = TRUE
          /\ SetKey(Head(commands)[1], Head(commands)[2], Head(commands)[3])
          /\ UNCHANGED loop
  /\ UNCHANGED <<desktop, window, pending>>

TakeCommand_NoRun ==
  /\ loop = "drain" /\ commands # <<>>
  /\ commands' = Tail(commands)
  /\ SetKey(Head(commands)[1], Head(commands)[2], Head(commands)[3])
  /\ UNCHANGED <<desktop, window, worker>>

(* The next command of the drain loop: a second edge of one iteration is   *)
(* kept for the next one.                                                  *)
TakeCommand ==
  /\ loop = "drain"
  /\ pending # <<>> \/ commands # <<>>
  /\ LET command == IF pending # <<>> THEN pending ELSE Head(commands)
     IN /\ commands' = IF pending # <<>> THEN commands ELSE Tail(commands)
        /\ IF edged
           THEN /\ pending' = command
                /\ loop' = "run"
                /\ UNCHANGED <<edged, emulator>>
           ELSE /\ pending' = <<>>
                /\ edged' = TRUE
                /\ SetKey(command[1], command[2], command[3])
                /\ UNCHANGED loop
  /\ UNCHANGED <<desktop, window>>

NothingToTake ==
  /\ loop = "drain" /\ pending = <<>> /\ commands = <<>>
  /\ loop' = "run"
  /\ UNCHANGED <<desktop, window, commands, pending, edged, emulator>>

(* emulator.run(25_000) and the next iteration.                            *)
Run ==
  /\ loop = "run"
  /\ loop' = "drain"
  /\ edged' = FALSE
  /\ fresh' = {}
  /\ UNCHANGED <<desktop, window, commands, pending, heldKeys, sideHeld>>

Desktop == FocusOut \/ FocusIn \/ \E s \in Sources : PushDown(s) \/ LetGo(s) \/ AutoRepeat(s)
Tk == /\ HandlePress \/ HandleRelease \/ HandleFocusOut \/ \E s \in Keyboard : ConfirmRelease(s)
      /\ Len(commands') <= MaxCommands
Worker == EmulatorReady \/ TakeCommand \/ NothingToTake \/ Run

Next == (Desktop \/ Tk \/ Restart \/ Worker) /\ UNCHANGED profile

Spec == Init /\ [][Next]_vars

-------------------------------------------------------------------------------
(* Properties.                                                             *)

InFlight == (IF pending = <<>> THEN <<>> ELSE <<pending>>) \o commands
Pressed  == heldKeys \cup sideHeld

(* Whatever was queued, kept back or rejected on the way: once no command  *)
(* for a key is under way, the handset holds it only while some source on  *)
(* the desktop does.                                                       *)
NoStuckKey ==
  \A k \in Pressed :
    (\A i \in DOMAIN InFlight : InFlight[i][1] # k) => held[k] # {}

(* Once Tk has served its queue, no source that is physically up holds a   *)
(* key: not after auto-repeat, a lost focus, a release that went to        *)
(* another window or a restart.  And auto-repeat is one long press: when   *)
(* Tk is about to confirm a release, a source that is still down no longer *)
(* holds anything.                                                         *)
HeldIsDown ==
  events = <<>> =>
    /\ releasing = {} => \A k \in Keys : held[k] \subseteq down
    /\ \A s \in releasing \cap down : s \notin held[KeyOf[s]]

(* The guest runs between a press and the release of the same key, however *)
(* fast they follow each other.                                            *)
PressesReachGuest == fresh \subseteq Pressed
===============================================================================
