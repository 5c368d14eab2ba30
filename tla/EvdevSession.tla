---------------------------- MODULE EvdevSession ----------------------------
(***************************************************************************)
(* The evdev transport: an adapter that grabs the keyboards and types on a *)
(* uinput device (crates/evdev-adapter/src/adapter.rs), the daemon's glue  *)
(* (crates/daemon/src/transport/evdev.rs, handler.rs) and the Composer.    *)
(*                                                                         *)
(* The adapter reads one event stream and handles each event to its end,   *)
(* so a handler is one step.  What makes it hard is on the two sides: the  *)
(* user holds keys while pressing others and the kernel repeats them, and  *)
(* the uinput device and the application keep key state of their own, in   *)
(* which a second press of a key that is down does nothing.  No report of  *)
(* the application ever comes back.                                        *)
(***************************************************************************)
EXTENDS Composer

CONSTANTS
  Layout,       \* <<keycode, modifiers>> to character: the daklak_vn layout
  Slots,        \* character to the <<keycode, modifiers>> that types it
  UsKeys,       \* keycodes that the daemon's own us layout decodes
  Controls,     \* characters of keys that show nothing (Escape)
  Boards,       \* keyboards, each with the keys the user presses on it
  Attached,     \* which of them may be there together when the session starts
  Overlapped,   \* keys the user may still hold while pressing another
  UserActions,  \* which of the optional actions happen
  MaxPresses,   \* key presses and repeats, modifiers excluded
  MaxEvents     \* modifier presses and actions other than typing

Shifts == {"LeftShift", "RightShift"}
ModKeys == Shifts \cup {"LeftCtrl", "RightCtrl", "LeftAlt", "LeftMeta", "RightMeta",
                        "RightAlt", "Henkan"}

mod_bit(code) ==
  CASE code \in Shifts                       -> "shift"
    [] code \in {"LeftCtrl", "RightCtrl"}    -> "control"
    [] code = "LeftAlt"                      -> "alt"
    [] code \in {"LeftMeta", "RightMeta"}    -> "super"
    [] code = "RightAlt"                     -> "level3"
    [] code = "Henkan"                       -> "level5"

(* The modifiers that set_uinput_mods presses and releases.                *)
DanceBits == {"shift", "level3", "level5"}
Modifier  == DanceBits \cup {"control", "alt", "super"}

Keyboard == UNION Range(Boards)
Keycodes == Keyboard \cup ModKeys \cup {"Backspace", "Esc"} \cup {slot[1] : slot \in DOMAIN Layout}

(* No character is typed by a modifier key, nor by the absent key.         *)
ASSUME KeyboardAssumption ==
  /\ None \notin Keycodes
  /\ \A slot \in DOMAIN Layout : Layout[slot] \in Char /\ slot[1] \notin ModKeys
  /\ \A ch \in DOMAIN Slots :
       Slots[ch] \in DOMAIN Layout /\ Layout[Slots[ch]] = ch /\ Slots[ch][2] \subseteq DanceBits
  /\ Controls \subseteq Char
  /\ \A boards \in Attached : boards \subseteq DOMAIN Boards
  /\ MaxPresses \in Nat /\ MaxEvents \in Nat

VARIABLES
  held,            \* the keys the user holds down on each grabbed keyboard
  repeat_key,      \* for each keyboard the key that the kernel repeats, or None
  unshown,         \* there has been a stroke that the device cannot show
  adapter,         \* the EvdevAdapter, with its uinput device
  grabbed,         \* the adapter holds the keyboards
  composer,        \* Router.composer, or None
  enabled,         \* the shared on/off flag
  last_enabled,    \* Router.last_enabled
  method_changed,  \* an unread method change in the config channel
  presses, events, \* how much of each bound is used
  ideal            \* engine and screen of a user typing straight into the engine

user   == <<held, repeat_key, unshown>>
router == <<composer, last_enabled, method_changed>>
vars   == <<held, repeat_key, unshown, adapter, grabbed, composer, enabled, last_enabled,
            method_changed, presses, events, ideal>>

(* The uinput device and the application behind it: the keys that are down *)
(* on the device, and the text before the cursor.                          *)
Device == [down : SUBSET Keycodes, text : Text]

Adapters ==
  [mod_mask : SUBSET Modifier, emitted_mods : SUBSET DanceBits,
   held_physical : SUBSET Keycodes, forwarded_press : SUBSET Keycodes,
   escape_taps : 0 .. 2, output : Device]

-----------------------------------------------------------------------------
(* The device and the application.                                         *)

ModsOf(codes) == {mod_bit(code) : code \in codes \cap ModKeys}

(* What a key stroke shows.  A shortcut changes no text.                   *)
Strike(device, code) ==
  LET slot == <<code, ModsOf(device.down)>>
  IN  IF ~(slot[2] \subseteq DanceBits) THEN device
      ELSE IF code = "Backspace" THEN [device EXCEPT !.text = DropLast(@, 1)]
      ELSE IF slot \in DOMAIN Layout /\ Layout[slot] \notin Controls
      THEN [device EXCEPT !.text = Append(@, Layout[slot])]
      ELSE device

(* The kernel drops a press of a key that is down; a repeat counts only    *)
(* for a key that is down.                                                 *)
emit_key(device, code, value) ==
  CASE value = 0 -> [device EXCEPT !.down = @ \ {code}]
    [] value = 1 -> IF code \in device.down THEN device
                    ELSE [Strike(device, code) EXCEPT !.down = @ \cup {code}]
    [] value = 2 -> IF code \in device.down THEN Strike(device, code) ELSE device

-----------------------------------------------------------------------------
(* The adapter's output.                                                   *)

passthrough(a, code, value) == [a EXCEPT !.output = emit_key(@, code, value)]

Faulty_forward_press_raw(a, code, value) == passthrough(a, code, value)

(* The first raw forward of a held key is a press, even when a repeat      *)
(* brought it about.                                                       *)
forward_press_raw(a, code, value) ==
  LET newly == code \notin a.forwarded_press
  IN  passthrough([a EXCEPT !.forwarded_press = @ \cup {code}],
                  code, IF newly /\ value = 2 THEN 1 ELSE value)

SetMod(a, bit, carrier, target) ==
  IF bit \in target /\ bit \notin a.emitted_mods THEN passthrough(a, carrier, 1)
  ELSE IF bit \notin target /\ bit \in a.emitted_mods THEN passthrough(a, carrier, 0)
  ELSE a

Faulty_set_uinput_mods(a, target) ==
  SetMod(SetMod(SetMod(a, "shift", "LeftShift", target), "level3", "RightAlt", target),
         "level5", "Henkan", target)

set_uinput_mods(a, target) ==
  LET shifted == SetMod(a, "shift", "LeftShift", target)
      level3  == SetMod(shifted, "level3", "RightAlt", target)
      level5  == SetMod(level3, "level5", "Henkan", target)
  IN  [level5 EXCEPT !.emitted_mods = target]

char_to_emit(ch) == IF ch \in DOMAIN Slots THEN Slots[ch] ELSE None

Faulty_EmitChar(a, ch) ==
  LET spec == char_to_emit(ch)
      mods == set_uinput_mods(a, spec[2])
  IN  IF spec = None THEN a ELSE passthrough(passthrough(mods, spec[1], 1), spec[1], 0)

(* A key that the user holds is released first, so that its press counts.  *)
EmitChar(a, ch) ==
  LET spec  == char_to_emit(ch)
      mods  == set_uinput_mods(a, spec[2])
      fresh == IF spec[1] \in a.held_physical THEN passthrough(mods, spec[1], 0) ELSE mods
  IN  IF spec = None THEN a ELSE passthrough(passthrough(fresh, spec[1], 1), spec[1], 0)

emit_string(a, text) == set_uinput_mods(FoldLeft(EmitChar, a, text), a.emitted_mods)

emit_backspaces(a, n) ==
  FoldLeft(LAMBDA acc, code : passthrough(passthrough(acc, code, 1), code, 0),
           a, [i \in 1 .. n |-> "Backspace"])

-----------------------------------------------------------------------------
(* The user and the kernel: a press (1), a release (0) or a repeat (2) of  *)
(* the key pressed last, on some keyboard.  The adapter merges the event   *)
(* streams of all keyboards and forgets from which one an event comes.     *)

AllHeld == UNION Range(held)
(* `unshown' records the press of a key that is held on another keyboard,  *)
(* and the repeat of a forwarded key that an edit has released since: the  *)
(* repeat is forwarded as a repeat, which a key that is up does not have.  *)

Bounded(code, value) ==
  IF value = 0 THEN UNCHANGED <<presses, events>>
  ELSE IF code \in ModKeys
  THEN events < MaxEvents /\ events' = events + 1 /\ UNCHANGED presses
  ELSE presses < MaxPresses /\ presses' = presses + 1 /\ UNCHANGED events

KeyEvent(code, value) ==
  /\ grabbed
  /\ Bounded(code, value)
  /\ \E b \in DOMAIN held :
       \/ /\ value = 1 /\ code \in Boards[b] \ held[b] /\ AllHeld \subseteq Overlapped
          /\ held' = [held EXCEPT ![b] = @ \cup {code}]
          /\ repeat_key' = [repeat_key EXCEPT ![b] = code]
          /\ unshown' = (unshown \/ code \in AllHeld)
       \/ /\ value = 0 /\ code \in held[b]
          /\ held' = [held EXCEPT ![b] = @ \ {code}]
          /\ repeat_key' = [repeat_key EXCEPT ![b] = None]
          /\ UNCHANGED unshown
       \/ /\ value = 2 /\ code = repeat_key[b] /\ code \notin ModKeys
          /\ unshown' = (unshown \/ code \in adapter.forwarded_press \ adapter.output.down)
          /\ UNCHANGED <<held, repeat_key>>
  /\ UNCHANGED enabled

(* process_event's first step, common to every event.                      *)
Tracked(code, value) ==
  [adapter EXCEPT !.held_physical =
     CASE value = 1 -> @ \cup {code} [] value = 0 -> @ \ {code} [] value = 2 -> @]

-----------------------------------------------------------------------------
(* The adapter's handlers, in the order process_event tries them.          *)

SetBit(bits, bit, value) == IF value = 1 THEN bits \cup {bit} ELSE bits \ {bit}

ModifierEvent(code, value) ==
  LET bit == mod_bit(code)
      a   == [Tracked(code, value) EXCEPT
                !.mod_mask = SetBit(@, bit, value),
                !.emitted_mods = IF bit \in DanceBits THEN SetBit(@, bit, value) ELSE @]
  IN  /\ code \in ModKeys
      /\ KeyEvent(code, value)
      /\ adapter' = passthrough(a, code, value)
      /\ UNCHANGED <<grabbed, router, ideal>>

Faulty_IsThirdEscape(code, value) ==
  code = "Esc" /\ value = 1 /\ adapter.escape_taps = 2 /\ adapter.mod_mask = {}

IsThirdEscape(code, value) == code = "Esc" /\ value = 1 /\ adapter.escape_taps = 2

(* The third Escape within a second ends the session, whatever is held.    *)
EmergencyEscape ==
  /\ IsThirdEscape("Esc", 1)
  /\ KeyEvent("Esc", 1)
  /\ adapter' = forward_press_raw([Tracked("Esc", 1) EXCEPT !.escape_taps = 0], "Esc", 1)
  /\ composer' = None
  /\ grabbed' = FALSE
  /\ UNCHANGED <<last_enabled, method_changed, ideal>>

(* Only a key whose press was forwarded has its release forwarded.         *)
ReleaseKey(code) ==
  LET a == Tracked(code, 0)
  IN  /\ code \notin ModKeys
      /\ KeyEvent(code, 0)
      /\ adapter' = IF code \in a.forwarded_press
                    THEN passthrough([a EXCEPT !.forwarded_press = @ \ {code}], code, 0)
                    ELSE a
      /\ UNCHANGED <<grabbed, router, ideal>>

(* A press or repeat that is not the emergency escape.                     *)
Pressed(code, value) ==
  /\ value \in {1, 2}
  /\ code \notin ModKeys
  /\ ~IsThirdEscape(code, value)
  /\ KeyEvent(code, value)
  /\ UNCHANGED grabbed

Tapped(code, value) ==
  [Tracked(code, value) EXCEPT !.escape_taps = IF code = "Esc" /\ value = 1 THEN @ + 1 ELSE @]

shortcut_mods_held == adapter.mod_mask \ {"shift"} # {}

key_to_char(code) ==
  LET slot == <<code, adapter.mod_mask>>
  IN  IF code \in UsKeys /\ slot \in DOMAIN Layout THEN Layout[slot] ELSE None

Printable(code) == ~shortcut_mods_held /\ (code = "Backspace" \/ key_to_char(code) # None)

(* A shortcut, or a key without a character: everything is forgotten.      *)
ResetKey(code, value) ==
  /\ ~Printable(code)
  /\ Pressed(code, value)
  /\ adapter' = forward_press_raw(Tapped(code, value), code, value)
  /\ composer' = full_reset(composer)
  /\ ideal' = [ideal EXCEPT !.engine = Fresh]
  /\ UNCHANGED <<last_enabled, method_changed>>

(* sync_enabled_edge.                                                      *)
SyncEnabled(c) == IF last_enabled /\ ~enabled THEN full_reset(c) ELSE c

(* The composer a printable key meets.  The configuration is read only     *)
(* while the input method is on.                                           *)
BeforeKey ==
  LET c == SyncEnabled(check_idle_reset(composer))
  IN  IF enabled /\ method_changed THEN full_reset(c) ELSE c

(* The ideal engine forgets its word where the daemon means to forget it.  *)
IdealBefore ==
  IF composer.idle \/ ~enabled \/ method_changed THEN [ideal EXCEPT !.engine = Fresh] ELSE ideal

HandledKey(code, value) ==
  /\ Printable(code)
  /\ Pressed(code, value)
  /\ last_enabled' = enabled
  /\ method_changed' = (method_changed /\ ~enabled)

(* handle_char and handle_backspace of the daemon: off, they compose       *)
(* nothing.                                                                *)
Gated(fed) == IF enabled THEN fed ELSE [composer |-> BeforeKey, decision |-> ForwardRaw]

(* A Backspace that the engine takes is answered with its deletes alone.   *)
PressBackspace(value) ==
  LET a   == Tapped("Backspace", value)
      out == Gated(feed_backspace(BeforeKey))
  IN  /\ HandledKey("Backspace", value)
      /\ composer' = out.composer
      /\ adapter' = IF out.decision.kind = "Apply"
                    THEN emit_backspaces(a, out.decision.backspaces)
                    ELSE forward_press_raw(a, "Backspace", value)
      /\ ideal' = [engine |-> VnBackspace(IdealBefore.engine).engine,
                   screen |-> DropLast(ideal.screen, 1)]

(* The engine alone, or no engine while the input method is off.  A        *)
(* control character shows nothing.                                        *)
IdealChar(ch) ==
  LET typed == IF enabled THEN RenderStep(IdealBefore, ch)
               ELSE [IdealBefore EXCEPT !.screen = Append(@, ch)]
  IN  IF ch \in Controls THEN [typed EXCEPT !.screen = ideal.screen] ELSE typed

(* The edit of a consumed key never reaches Composer::apply_to_sink: the   *)
(* adapter types it itself.                                                *)
PressChar(code, value) ==
  LET a   == Tapped(code, value)
      ch  == key_to_char(code)
      out == Gated(feed_key(BeforeKey, ch))
  IN  /\ code # "Backspace"
      /\ HandledKey(code, value)
      /\ composer' = out.composer
      /\ adapter' = IF out.decision.kind = "Apply"
                    THEN emit_string(emit_backspaces(a, out.decision.backspaces),
                                     out.decision.commit)
                    ELSE forward_press_raw(a, code, value)
      /\ ideal' = IdealChar(ch)

-----------------------------------------------------------------------------
(* Everything else.                                                        *)

Event == grabbed /\ events < MaxEvents /\ events' = events + 1 /\ UNCHANGED presses

Toggle ==
  /\ "toggle" \in UserActions /\ Event
  /\ enabled' = ~enabled
  /\ UNCHANGED <<user, adapter, grabbed, router, ideal>>

ChangeMethod ==
  /\ "method" \in UserActions /\ Event
  /\ method_changed' = TRUE
  /\ UNCHANGED <<user, adapter, grabbed, composer, enabled, last_enabled, ideal>>

(* Two seconds pass without a key.                                         *)
Idle ==
  /\ "idle" \in UserActions /\ Event
  /\ ~composer.idle
  /\ composer' = [composer EXCEPT !.idle = TRUE]
  /\ UNCHANGED <<user, adapter, grabbed, enabled, last_enabled, method_changed, ideal>>

(* Taps of Escape grow older than a second.                                *)
TapsExpire ==
  /\ grabbed
  /\ \E n \in 0 .. adapter.escape_taps - 1 : adapter' = [adapter EXCEPT !.escape_taps = n]
  /\ UNCHANGED <<user, grabbed, router, enabled, presses, events, ideal>>

(* A shutdown request, Ctrl-C or the end of the event streams.             *)
Stop ==
  /\ "stop" \in UserActions /\ Event
  /\ grabbed' = FALSE
  /\ UNCHANGED <<user, adapter, router, enabled, ideal>>

-----------------------------------------------------------------------------

(* prepare, grab_keyboards and activate_evdev, with no key held.           *)
Init ==
  /\ \E boards \in Attached :
       held = [b \in boards |-> {}] /\ repeat_key = [b \in boards |-> None]
  /\ unshown = FALSE
  /\ adapter = [mod_mask |-> {}, emitted_mods |-> {}, held_physical |-> {},
                forwarded_press |-> {}, escape_taps |-> 0,
                output |-> [down |-> {}, text |-> <<>>]]
  /\ grabbed = TRUE
  /\ composer = NewComposer("ForwardKey", FALSE)
  /\ enabled = TRUE /\ last_enabled = TRUE /\ method_changed = FALSE
  /\ presses = 0 /\ events = 0
  /\ ideal = [engine |-> Fresh, screen |-> <<>>]

Next ==
  \/ \E code \in Keyboard, value \in {0, 1} : ModifierEvent(code, value)
  \/ EmergencyEscape
  \/ \E code \in Keyboard : ReleaseKey(code)
  \/ \E code \in Keyboard, value \in {1, 2} : ResetKey(code, value)
  \/ \E value \in {1, 2} : PressBackspace(value)
  \/ \E code \in Keyboard, value \in {1, 2} : PressChar(code, value)
  \/ Toggle \/ ChangeMethod \/ Idle \/ TapsExpire \/ Stop

Spec == Init /\ [][Next]_vars

-----------------------------------------------------------------------------

TypeOK ==
  /\ DOMAIN held \in Attached /\ held \in [DOMAIN held -> SUBSET Keycodes]
  /\ repeat_key \in [DOMAIN held -> Keycodes \cup {None}] /\ unshown \in BOOLEAN
  /\ adapter \in Adapters
  /\ grabbed \in BOOLEAN
  /\ composer \in Composers \cup {None}
  /\ enabled \in BOOLEAN /\ last_enabled \in BOOLEAN /\ method_changed \in BOOLEAN
  /\ presses \in Nat /\ events \in Nat
  /\ ideal \in [engine : EngineStates, screen : Text]

(* The application shows what the engine alone would have written: keys    *)
(* still held, repeats, the modifier dance, toggles and pauses never show. *)
(* The strokes that the device cannot show are left out (unshown).         *)
TextArrives == ~unshown => adapter.output.text = ideal.screen

(* A key that the user has let go on every keyboard is not left down on    *)
(* the uinput device, where it would repeat for ever, though one release   *)
(* clears what the adapter knows of the same key on another keyboard.      *)
NoStuckKey == adapter.output.down \subseteq AllHeld

(* emitted_mods is what the compositor sees of the dance modifiers.        *)
EmittedModsVisible == adapter.emitted_mods = ModsOf(adapter.output.down) \cap DanceBits

Separators(text) == Len(SelectSeq(text, LAMBDA ch : ch \in Boundary))

(* A character key edits only the word before the cursor: it never deletes *)
(* the separator in front of that word.                                    *)
SeparatorSurvives ==
  [][Separators(adapter'.output.text) < Separators(adapter.output.text) =>
       "Backspace" \in Range(repeat_key')]_vars

=============================================================================
