------------------------------ MODULE KeyRelay ------------------------------
(***************************************************************************)
(* How the Wayland adapter turns one key event of the keyboard grab into   *)
(* requests: forwarding, the modifier dance, the commit channels of an     *)
(* edit, the client-side repeat timer and the queue of expected modifier   *)
(* echoes (wayland-adapter/src/lib.rs, state.rs, sink.rs and               *)
(* key-emitter/src/emit_char_impl.rs).                                     *)
(*                                                                         *)
(* Every operator takes the adapter's key state k (Relay) and returns the  *)
(* new one or the sequence of requests it sends.  A modifier mask is the   *)
(* set of its modifiers.  Which edit the Composer asks for is the subject  *)
(* of WaylandSession: here an edit is any of Edits.                        *)
(***************************************************************************)
EXTENDS Naturals, Sequences, SequencesExt, FiniteSets

CONSTANTS
  None,
  CharKeys,    \* keys with a character
  NavKeys,     \* NAV_KEYS
  ModKeys,     \* the modifier keys, each named after its modifier
  ShortcutMods,\* those that make a shortcut: Ctrl, Alt, Super
  Slots,       \* keycodes that only the synthetic keymap uses
  Glyphs       \* what an edit may commit: an EmitSpec, or None if outside the synthetic keymap

Backspace == "Backspace"
UserKeys == CharKeys \cup NavKeys \cup ModKeys \cup {Backspace}
KeyCodes == UserKeys \cup Slots
LevelMods == {"Level3", "Shift"}
Masks == SUBSET (ModKeys \cup LevelMods)

ASSUME RelayAssumption ==
  /\ None \notin KeyCodes
  /\ Backspace \notin CharKeys \cup Slots   \* no character is typed by it
  /\ ShortcutMods \subseteq ModKeys
  /\ Glyphs \subseteq [key : CharKeys \cup Slots, mods : SUBSET LevelMods] \cup {None}

(* The fields of AdapterState that keys use.  `released' compares the two  *)
(* time stamps: the last release came after the last stamped press.  `late'*)
(* says that the last synthetic mask was emitted more than 50 ms ago.      *)
Relay ==
  [held : KeyCodes \cup {None},         \* client_repeat.held
   rate : BOOLEAN,                      \* client_repeat.rate > 0
   last_key : KeyCodes \cup {None}, last_release : KeyCodes \cup {None}, released : BOOLEAN,
   raw_mods : Masks, expected : Seq(Masks), late : BOOLEAN]

NewRelay ==
  [held |-> None, rate |-> TRUE, last_key |-> None, last_release |-> None, released |-> FALSE,
   raw_mods |-> {}, expected |-> <<>>, late |-> FALSE]

-----------------------------------------------------------------------------
(* Requests.  A key is the user's, forwarded with a stamp or without, or   *)
(* an edit's own, which may be the press that types a glyph.               *)

Key(key, value) == [op |-> "key", key |-> key, value |-> value, by |-> "user", glyph |-> None]
UnstampedKey(key, value) == [Key(key, value) EXCEPT !.by = "shortcut"]
EditKey(key, value) == [Key(key, value) EXCEPT !.by = "edit"]
GlyphKey(glyph) == [EditKey(glyph.key, 1) EXCEPT !.glyph = glyph]
Modifiers(mask) == [op |-> "mods", mask |-> mask]
Keysym(glyph, mapped) == [op |-> "keysym", glyph |-> glyph, mapped |-> mapped]
Text == [op |-> "text"]       \* commit_string, after delete_surrounding_text if any
Commit == [op |-> "commit"]   \* im.commit(serial), which v1 does not have

-----------------------------------------------------------------------------
(* ClientRepeat.                                                           *)

Faulty_set_info(k, positive) == [k EXCEPT !.rate = positive]

set_info(k, positive) == [k EXCEPT !.rate = positive, !.held = IF positive THEN @ ELSE None]

arm(k, key) == IF k.rate THEN [k EXCEPT !.held = key] ELSE k

cancel(k) == [k EXCEPT !.held = None]

Faulty_release(k, key) == k
release(k, key) == IF k.held = key THEN cancel(k) ELSE k

-----------------------------------------------------------------------------
(* The stamps behind the tail-char-drop fix.                               *)

StampPress(k, key) == [k EXCEPT !.last_key = key, !.released = FALSE]
StampRelease(k, key) == [k EXCEPT !.last_release = key, !.released = TRUE]

Faulty_held_user_kc(k) == None

held_user_kc(k) ==
  IF k.last_key = k.last_release /\ k.released THEN None ELSE k.last_key

Prelude(key, held) == IF held # None /\ key = held THEN <<EditKey(key, 0)>> ELSE <<>>

-----------------------------------------------------------------------------
(* The sink of an edit.                                                    *)

(* forward_backspace_needs_modifier_guard: Backspace with no modifiers.    *)
Faulty_BackspaceTap(k) == <<EditKey(Backspace, 1), EditKey(Backspace, 0)>>

BackspaceTap(k) ==
  LET tap == <<EditKey(Backspace, 1), EditKey(Backspace, 0)>>
  IN  IF k.raw_mods = {} THEN tap
      ELSE <<Modifiers({})>> \o tap \o <<Modifiers(k.raw_mods)>>

plan_mod_dance(k, glyph) == IF glyph.mods = {} THEN <<>> ELSE <<k.raw_mods \cup glyph.mods, k.raw_mods>>

(* vk_commit_char: the keys of one character of the synthetic keymap ...   *)
emit_char(k, glyph, held) ==
  LET dance == plan_mod_dance(k, glyph)
      tap   == <<GlyphKey(glyph), EditKey(glyph.key, 0)>>
  IN  Prelude(glyph.key, held)
        \o IF dance = <<>> THEN tap
           ELSE <<Modifiers(dance[1])>> \o tap \o <<Modifiers(dance[2])>>

(* ... and the masks of it that should come back through the grab.         *)
ExpectEcho(k, glyph) ==
  IF plan_mod_dance(k, glyph) = <<>> THEN k
  ELSE [k EXCEPT !.expected = @ \o plan_mod_dance(k, glyph), !.late = FALSE]

(* The layout has a key for the glyph at the modifiers that are held.      *)
Mapped(k, glyph) ==
  glyph # None /\ glyph.key \in CharKeys /\ glyph.mods = k.raw_mods \cap LevelMods

commit_via_keysym_v1(k, glyph, functional, held) ==
  LET mapped == Mapped(k, glyph)
      guard  == mapped /\ ~functional /\ k.raw_mods # {}
  IN  (IF mapped THEN Prelude(glyph.key, held) ELSE <<>>)
        \o IF guard THEN <<Modifiers({}), Keysym(glyph, mapped), Modifiers(k.raw_mods)>>
           ELSE <<Keysym(glyph, mapped)>>

(* An edit: how the text before the cursor goes (by delete_surrounding_    *)
(* text, or by n Backspace keys) and whether the Firefox workaround wants  *)
(* the commit on the key channel.                                          *)
Edits ==
  [delete : {"surrounding"}, backspaces : {0}, glyph : Glyphs, key_channel : {FALSE}]
    \cup [delete : {"selection"}, backspaces : {1}, glyph : Glyphs, key_channel : {FALSE}]
    \cup [delete : {"keys"}, backspaces : 0..1, glyph : Glyphs, key_channel : BOOLEAN]

(* Whether the edit's character is typed by the virtual keyboard.          *)
ByVirtualKeyboard(protocol, functional, e) ==
  /\ protocol = "ImV2" /\ e.delete = "keys" /\ e.glyph # None
  /\ e.key_channel \/ ~functional

(* Strategy::apply over AdapterSink.                                       *)
EditRequests(protocol, k, functional, e, held) ==
  (IF e.backspaces = 0 THEN <<>> ELSE BackspaceTap(k))
    \o IF ByVirtualKeyboard(protocol, functional, e) THEN emit_char(k, e.glyph, held)
       ELSE IF protocol = "ImV1" /\ e.delete = "keys"
       THEN commit_via_keysym_v1(k, e.glyph, functional, held)
       ELSE <<Text>> \o (IF protocol = "ImV2" THEN <<Commit>> ELSE <<>>)

AfterEdit(protocol, k, functional, e) ==
  IF ByVirtualKeyboard(protocol, functional, e) THEN ExpectEcho(k, e.glyph) ELSE k

-----------------------------------------------------------------------------
(* handle_modifiers.                                                       *)

(* An expected echo that is more than 50 ms old is no longer expected.     *)
ForceReset(k) == IF k.late THEN [k EXCEPT !.expected = <<>>, !.late = FALSE] ELSE k

Faulty_IsEcho(k, mask) == k.expected # <<>>

IsEcho(k, mask) == k.expected # <<>> /\ Head(k.expected) = mask

PopEcho(k) ==
  [k EXCEPT !.expected = Tail(@), !.late = @ /\ Len(k.expected) > 1]

=============================================================================
