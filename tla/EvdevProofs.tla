---------------------------- MODULE EvdevProofs ----------------------------
(***************************************************************************)
(* What TLAPS proves of EvdevSession, for every engine, every layout and   *)
(* keyboard and any number of keys: the types; with no right Shift on any  *)
(* keyboard, that emitted_mods is what the device shows of the dance       *)
(* modifiers and that no key stays down which the user has let go.         *)
(*                                                                         *)
(* An edit only dances with three modifier keys (Carriers) and presses and *)
(* releases keys that are no modifiers, so what it leaves down was down    *)
(* before it; the three carriers end as they began because they and        *)
(* emitted_mods agree (Shown).  A key that is no modifier is down only if  *)
(* its press was forwarded, so that its release is forwarded too.          *)
(***************************************************************************)
EXTENDS EvdevSession, ComposerTypes

-----------------------------------------------------------------------------
(* The device.                                                             *)

(* A stroke changes at most the text.                                      *)
LEMMA StrikeTyped ==
  ASSUME NEW device \in Device, NEW code
  PROVE  Strike(device, code) \in Device /\ Strike(device, code).down = device.down
<1> DEFINE slot == <<code, ModsOf(device.down)>>
           dropped == DropLast(device.text, 1)
           typed == Append(device.text, Layout[slot])
<1>1. dropped \in Text
  BY DropLastTyped DEF Device
<1>2. slot \in DOMAIN Layout => typed \in Text
  BY KeyboardAssumption DEF Device, Text
<1> HIDE DEF dropped, typed, slot
<1>3. [device EXCEPT !.text = dropped] \in Device
      /\ [device EXCEPT !.text = dropped].down = device.down
  BY <1>1 DEF Device
<1>4. slot \in DOMAIN Layout =>
        [device EXCEPT !.text = typed] \in Device
        /\ [device EXCEPT !.text = typed].down = device.down
  BY <1>2 DEF Device
<1>5. Strike(device, code) \in
        {device, [device EXCEPT !.text = dropped]}
          \cup (IF slot \in DOMAIN Layout THEN {[device EXCEPT !.text = typed]} ELSE {})
  BY DEF Strike, dropped, typed, slot
<1> QED BY <1>3, <1>4, <1>5

(* The keys that are down after an event.                                  *)
DownAfter(down, code, value) ==
  CASE value = 0 -> down \ {code} [] value = 1 -> down \cup {code} [] value = 2 -> down

(* One event of the device, on keys and text.                              *)
LEMMA EmitKeyTyped ==
  ASSUME NEW device \in Device, NEW code \in Keycodes, NEW value \in {0, 1, 2}
  PROVE  /\ emit_key(device, code, value) \in Device
         /\ emit_key(device, code, value).down = DownAfter(device.down, code, value)
<1> DEFINE struck == Strike(device, code)
<1>1. struck \in Device /\ struck.down = device.down
  BY StrikeTyped
<1> HIDE DEF struck
<1>2. CASE value = 0
  BY <1>2 DEF emit_key, Device, DownAfter
<1>3. CASE value = 1
  <2>1. [struck EXCEPT !.down = @ \cup {code}] \in Device
        /\ [struck EXCEPT !.down = @ \cup {code}].down = device.down \cup {code}
    BY <1>1 DEF Device
  <2>2. emit_key(device, code, value) =
          IF code \in device.down THEN device ELSE [struck EXCEPT !.down = @ \cup {code}]
    BY <1>3 DEF emit_key, struck
  <2>3. code \in device.down => device.down \cup {code} = device.down
    OBVIOUS
  <2>4. DownAfter(device.down, code, value) = device.down \cup {code}
    BY <1>3 DEF DownAfter
  <2> HIDE DEF struck
  <2> QED BY <2>1, <2>2, <2>3, <2>4
<1>4. CASE value = 2
  <2>1. emit_key(device, code, value) = IF code \in device.down THEN struck ELSE device
    BY <1>4 DEF emit_key, struck
  <2> QED BY <1>1, <1>4, <2>1 DEF DownAfter
<1> QED BY <1>2, <1>3, <1>4

-----------------------------------------------------------------------------
(* The adapter's output.                                                   *)

(* Everything but the output and emitted_mods is left alone.               *)
SameInput(a, b) ==
  /\ b.mod_mask = a.mod_mask /\ b.held_physical = a.held_physical
  /\ b.forwarded_press = a.forwarded_press /\ b.escape_taps = a.escape_taps

(* One event of the device changes what is down and what is shown.         *)
LEMMA PassthroughTyped ==
  ASSUME NEW a \in Adapters, NEW code \in Keycodes, NEW value \in {0, 1, 2}
  PROVE  LET b == passthrough(a, code, value)
         IN  /\ b \in Adapters /\ SameInput(a, b) /\ b.emitted_mods = a.emitted_mods
             /\ b.output.down = DownAfter(a.output.down, code, value)
<1> DEFINE device == emit_key(a.output, code, value)
           b == passthrough(a, code, value)
<1>1. a.output \in Device
  BY DEF Adapters
<1>2. device \in Device /\ device.down = DownAfter(a.output.down, code, value)
  BY <1>1, EmitKeyTyped
<1>3. b = [a EXCEPT !.output = device]
  BY DEF passthrough
<1> HIDE DEF device
<1>4. b \in Adapters /\ b.output = device
  BY <1>2, <1>3 DEF Adapters
<1>5. SameInput(a, b) /\ b.emitted_mods = a.emitted_mods
  BY <1>3 DEF Adapters, SameInput
<1> QED BY <1>2, <1>4, <1>5

(* The keys that the dance presses and releases.                           *)
Carriers == {"LeftShift", "RightAlt", "Henkan"}

Shown(a) ==
  /\ "shift" \in a.emitted_mods <=> "LeftShift" \in a.output.down
  /\ "level3" \in a.emitted_mods <=> "RightAlt" \in a.output.down
  /\ "level5" \in a.emitted_mods <=> "Henkan" \in a.output.down

(* Keycodes that the adapter names are keycodes.                           *)
LEMMA NamedKeycodes ==
  /\ ModKeys \subseteq Keycodes /\ Carriers \subseteq ModKeys
  /\ "Backspace" \in Keycodes \ ModKeys /\ "Esc" \in Keycodes \ ModKeys
  /\ Keyboard \subseteq Keycodes
  BY DEF Keycodes, Carriers, ModKeys, Shifts

(* One modifier of the dance: its carrier follows the target.              *)
LEMMA SetModTyped ==
  ASSUME NEW a \in Adapters, NEW bit \in DanceBits, NEW carrier \in Carriers, NEW target
  PROVE  LET b == SetMod(a, bit, carrier, target)
         IN  /\ b \in Adapters /\ SameInput(a, b) /\ b.emitted_mods = a.emitted_mods
             /\ b.output.down \ {carrier} = a.output.down \ {carrier}
             /\ (bit \in a.emitted_mods <=> carrier \in a.output.down) =>
                  (bit \in target <=> carrier \in b.output.down)
<1>1. carrier \in Keycodes
  BY NamedKeycodes
<1>2. CASE bit \in target /\ bit \notin a.emitted_mods
  <2> DEFINE b == passthrough(a, carrier, 1)
  <2>1. /\ b \in Adapters /\ SameInput(a, b) /\ b.emitted_mods = a.emitted_mods
        /\ b.output.down = a.output.down \cup {carrier}
    BY <1>1, PassthroughTyped DEF DownAfter
  <2>2. SetMod(a, bit, carrier, target) = b
    BY <1>2 DEF SetMod
  <2> HIDE DEF b
  <2> QED BY <1>2, <2>1, <2>2
<1>3. CASE bit \notin target /\ bit \in a.emitted_mods
  <2> DEFINE b == passthrough(a, carrier, 0)
  <2>1. /\ b \in Adapters /\ SameInput(a, b) /\ b.emitted_mods = a.emitted_mods
        /\ b.output.down = a.output.down \ {carrier}
    BY <1>1, PassthroughTyped DEF DownAfter
  <2>2. SetMod(a, bit, carrier, target) = b
    BY <1>3 DEF SetMod
  <2> HIDE DEF b
  <2> QED BY <1>3, <2>1, <2>2
<1>4. CASE bit \in target <=> bit \in a.emitted_mods
  BY <1>4 DEF SetMod, SameInput
<1> QED BY <1>2, <1>3, <1>4

(* The dance reaches its target and touches the carriers alone.            *)
LEMMA SetUinputModsTyped ==
  ASSUME NEW a \in Adapters, NEW target \in SUBSET DanceBits
  PROVE  LET b == set_uinput_mods(a, target)
         IN  /\ b \in Adapters /\ SameInput(a, b) /\ b.emitted_mods = target
             /\ b.output.down \ Carriers = a.output.down \ Carriers
             /\ Shown(a) => Shown(b)
<1> DEFINE b1 == SetMod(a, "shift", "LeftShift", target)
           b2 == SetMod(b1, "level3", "RightAlt", target)
           b3 == SetMod(b2, "level5", "Henkan", target)
           b  == [b3 EXCEPT !.emitted_mods = target]
<1>1. /\ "shift" \in DanceBits /\ "level3" \in DanceBits /\ "level5" \in DanceBits
      /\ "LeftShift" \in Carriers /\ "RightAlt" \in Carriers /\ "Henkan" \in Carriers
  BY DEF DanceBits, Carriers
<1>2. /\ b1 \in Adapters /\ SameInput(a, b1) /\ b1.emitted_mods = a.emitted_mods
      /\ b1.output.down \ {"LeftShift"} = a.output.down \ {"LeftShift"}
      /\ ("shift" \in a.emitted_mods <=> "LeftShift" \in a.output.down) =>
           ("shift" \in target <=> "LeftShift" \in b1.output.down)
  BY <1>1, SetModTyped
<1> HIDE DEF b1
<1>3. /\ b2 \in Adapters /\ SameInput(b1, b2) /\ b2.emitted_mods = b1.emitted_mods
      /\ b2.output.down \ {"RightAlt"} = b1.output.down \ {"RightAlt"}
      /\ ("level3" \in b1.emitted_mods <=> "RightAlt" \in b1.output.down) =>
           ("level3" \in target <=> "RightAlt" \in b2.output.down)
  BY <1>1, <1>2, SetModTyped
<1> HIDE DEF b2
<1>4. /\ b3 \in Adapters /\ SameInput(b2, b3) /\ b3.emitted_mods = b2.emitted_mods
      /\ b3.output.down \ {"Henkan"} = b2.output.down \ {"Henkan"}
      /\ ("level5" \in b2.emitted_mods <=> "Henkan" \in b2.output.down) =>
           ("level5" \in target <=> "Henkan" \in b3.output.down)
  BY <1>1, <1>3, SetModTyped
<1> HIDE DEF b3
<1>5. set_uinput_mods(a, target) = b
  BY DEF set_uinput_mods, b1, b2, b3
<1>6. b \in Adapters /\ b.emitted_mods = target /\ b.output = b3.output /\ SameInput(b3, b)
  BY <1>4 DEF Adapters, SameInput
<1> HIDE DEF b
<1>7. SameInput(a, b)
  BY <1>2, <1>3, <1>4, <1>6 DEF SameInput
<1>8. b.output.down \ Carriers = a.output.down \ Carriers
  <2>1. \A x : x \notin Carriers => x # "LeftShift" /\ x # "RightAlt" /\ x # "Henkan"
    BY <1>1
  <2> QED BY <1>2, <1>3, <1>4, <1>6, <2>1
<1>9. Shown(a) => Shown(b)
  <2>1. "LeftShift" \in b3.output.down <=> "LeftShift" \in b1.output.down
    BY <1>3, <1>4
  <2>2. "RightAlt" \in b3.output.down <=> "RightAlt" \in b2.output.down
    BY <1>4
  <2>3. "RightAlt" \in b1.output.down <=> "RightAlt" \in a.output.down
    BY <1>2
  <2>4. "Henkan" \in b2.output.down <=> "Henkan" \in a.output.down
    BY <1>2, <1>3
  <2> QED BY <1>2, <1>3, <1>4, <1>6, <2>1, <2>2, <2>3, <2>4 DEF Shown
<1> QED BY <1>5, <1>6, <1>7, <1>8, <1>9

-----------------------------------------------------------------------------
(* Corrections.                                                            *)

(* What a step of a correction leaves: an adapter that has heard nothing   *)
(* more from the user, that holds no key down which it had not held down   *)
(* but for the carriers, and whose carriers still follow emitted_mods.     *)
Emits(a, b) ==
  /\ b \in Adapters /\ SameInput(a, b)
  /\ b.output.down \ Carriers \subseteq a.output.down
  /\ Shown(a) => Shown(b)

(* Emits composes.                                                         *)
LEMMA EmitsTransitive ==
  ASSUME NEW a \in Adapters, NEW b, NEW c, Emits(a, b), Emits(b, c) PROVE Emits(a, c)
  BY DEF Emits, SameInput

(* ... and relates an adapter to itself.                                  *)
LEMMA EmitsReflexive == ASSUME NEW a \in Adapters PROVE Emits(a, a)
  BY DEF Emits, SameInput

(* A press and its release of a key that is no modifier leave it up.       *)
LEMMA TapTyped ==
  ASSUME NEW a \in Adapters, NEW code \in Keycodes \ ModKeys
  PROVE  LET b == passthrough(passthrough(a, code, 1), code, 0)
         IN  Emits(a, b) /\ b.emitted_mods = a.emitted_mods
<1> DEFINE b1 == passthrough(a, code, 1)
           b == passthrough(b1, code, 0)
<1>1. /\ b1 \in Adapters /\ SameInput(a, b1) /\ b1.emitted_mods = a.emitted_mods
      /\ b1.output.down = a.output.down \cup {code}
  BY PassthroughTyped DEF DownAfter
<1> HIDE DEF b1
<1>2. /\ b \in Adapters /\ SameInput(b1, b) /\ b.emitted_mods = b1.emitted_mods
      /\ b.output.down = b1.output.down \ {code}
  BY <1>1, PassthroughTyped DEF DownAfter
<1> HIDE DEF b
<1>3. b.output.down = a.output.down \ {code}
  BY <1>1, <1>2
<1>4. code \notin Carriers
  BY NamedKeycodes
<1>5. Shown(a) => Shown(b)
  <2>1. code # "LeftShift" /\ code # "RightAlt" /\ code # "Henkan"
    BY <1>4 DEF Carriers
  <2> QED BY <1>1, <1>2, <1>3, <2>1 DEF Shown
<1>6. SameInput(a, b)
  BY <1>1, <1>2 DEF SameInput
<1>7. Emits(a, b) /\ b.emitted_mods = a.emitted_mods
  BY <1>1, <1>2, <1>3, <1>5, <1>6 DEF Emits
<1> QED BY <1>7 DEF b, b1

(* One character of a commit.                                              *)
LEMMA EmitCharEmits ==
  ASSUME NEW a \in Adapters, NEW ch PROVE Emits(a, EmitChar(a, ch))
<1> DEFINE spec  == char_to_emit(ch)
           mods  == set_uinput_mods(a, spec[2])
           fresh == IF spec[1] \in a.held_physical THEN passthrough(mods, spec[1], 0) ELSE mods
           b     == passthrough(passthrough(fresh, spec[1], 1), spec[1], 0)
<1>1. EmitChar(a, ch) = IF spec = None THEN a ELSE b
  BY DEF EmitChar
<1>2. CASE spec = None
  BY <1>1, <1>2, EmitsReflexive
<1>3. CASE spec # None
  <2>1. ch \in DOMAIN Slots /\ spec = Slots[ch]
    BY <1>3 DEF char_to_emit
  <2>2. spec \in DOMAIN Layout /\ spec[2] \in SUBSET DanceBits /\ spec[1] \notin ModKeys
    BY <2>1, KeyboardAssumption
  <2>3. spec[1] \in Keycodes \ ModKeys
    BY <2>2 DEF Keycodes
  <2> HIDE DEF spec
  <2>4. Emits(a, mods)
    <3>1. /\ mods \in Adapters /\ SameInput(a, mods)
          /\ mods.output.down \ Carriers = a.output.down \ Carriers
          /\ Shown(a) => Shown(mods)
      BY <2>2, SetUinputModsTyped
    <3> HIDE DEF mods
    <3> QED BY <3>1 DEF Emits
  <2> HIDE DEF mods
  <2>5. mods \in Adapters
    BY <2>4 DEF Emits
  <2>6. Emits(mods, fresh)
    <3> DEFINE r == passthrough(mods, spec[1], 0)
    <3>1. /\ r \in Adapters /\ SameInput(mods, r) /\ r.emitted_mods = mods.emitted_mods
          /\ r.output.down = mods.output.down \ {spec[1]}
      BY <2>3, <2>5, PassthroughTyped DEF DownAfter
    <3> HIDE DEF r
    <3>2. spec[1] # "LeftShift" /\ spec[1] # "RightAlt" /\ spec[1] # "Henkan"
      BY <2>3, NamedKeycodes DEF Carriers
    <3>3. Shown(mods) => Shown(r)
      BY <3>1, <3>2 DEF Shown
    <3>4. Emits(mods, r)
      BY <3>1, <3>3 DEF Emits
    <3>5. fresh \in {mods, r}
      BY DEF r
    <3> QED BY <2>5, <3>4, <3>5, EmitsReflexive
  <2> HIDE DEF fresh
  <2>7. fresh \in Adapters
    BY <2>6 DEF Emits
  <2>8. Emits(fresh, b)
    BY <2>3, <2>7, TapTyped
  <2> HIDE DEF b
  <2>9. Emits(a, b)
    BY <2>4, <2>5, <2>6, <2>7, <2>8, EmitsTransitive
  <2> QED BY <1>1, <1>3, <2>9
<1> QED BY <1>2, <1>3

(* A text, character by character, and the dance back: by induction on the *)
(* length of the text.                                                     *)
LEMMA EmitStringEmits ==
  ASSUME NEW a \in Adapters, NEW text \in Text
  PROVE  Emits(a, emit_string(a, text)) /\ emit_string(a, text).emitted_mods = a.emitted_mods
<1> DEFINE m == Len(text)
           S == {b \in Adapters : Emits(a, b)}
           step == [p \in S \X (1 .. m) |-> EmitChar(p[1], text[p[2]])]
           Solves(it) == it = [s \in SUBSET (1 .. m) |->
                                 IF s = {} THEN a
                                 ELSE EmitChar(it[s \ {Max(s)}], text[Max(s)])]
           it == CHOOSE it : Solves(it)
<1>1. a \in S /\ m \in Nat /\ DOMAIN text = 1 .. m
  BY EmitsReflexive DEF Text
<1>2. ASSUME NEW b \in S, NEW ch PROVE EmitChar(b, ch) \in S
  <2>1. b \in Adapters /\ Emits(a, b)
    OBVIOUS
  <2>2. Emits(b, EmitChar(b, ch))
    BY <2>1, EmitCharEmits
  <2>3. Emits(a, EmitChar(b, ch))
    BY <2>1, <2>2, EmitsTransitive
  <2> QED BY <2>3 DEF Emits
<1>3. step \in [S \X (1 .. m) -> S]
  BY <1>2
<1> HIDE DEF m, S
<1>4. \E f : Solves(f)
  <2> HIDE DEF step
  <2>1. PICK f : Folds(f, S, a, m, step)
    BY <1>1, <1>3, SetRecursion
  <2>2. ASSUME NEW s \in SUBSET (1 .. m), s # {}
        PROVE  step[<<f[s \ {Max(s)}], Max(s)>>] = EmitChar(f[s \ {Max(s)}], text[Max(s)])
    <3>1. Max(s) \in 1 .. m
      <4>1. s \in SUBSET (0 .. m)
        BY <1>1
      <4>2. Max(s) \in s
        BY <1>1, <2>2, <4>1, MaxOfSubset
      <4> QED BY <4>2
    <3>2. f[s \ {Max(s)}] \in S
      BY <2>1 DEF Folds
    <3> QED BY <3>1, <3>2 DEF step
  <2>3. Solves(f)
    BY <2>1, <2>2 DEF Folds
  <2> QED BY <2>3
<1>5. Solves(it)
  BY <1>4
<1>6. FoldLeft(EmitChar, a, text) = it[1 .. m]
  BY <1>1 DEF FoldLeft, MapThenFoldSet, m
<1> HIDE DEF it
<1>7. it[{}] \in S
  BY <1>1, <1>5
<1>8. ASSUME NEW n \in 1 .. m, it[1 .. (n - 1)] \in S PROVE it[1 .. n] \in S
  <2>1. 1 .. n # {} /\ Max(1 .. n) = n /\ (1 .. n) \ {Max(1 .. n)} = 1 .. (n - 1)
    <3>1. n \in Nat /\ n # 0
      BY <1>1
    <3> QED BY <3>1, LastOfInterval
  <2>2. 1 .. n \in SUBSET (1 .. m)
    BY <1>1
  <2>3. it[1 .. n] = EmitChar(it[1 .. (n - 1)], text[n])
    BY <1>5, <2>1, <2>2
  <2> QED BY <1>2, <1>8, <2>3
<1>9. it[1 .. m] \in S
  BY <1>1, <1>7, <1>8, FoldInduction
<1> DEFINE b == it[1 .. m]
           r == set_uinput_mods(b, a.emitted_mods)
<1>10. b \in Adapters /\ Emits(a, b)
  BY <1>9 DEF S
<1>11. emit_string(a, text) = r
  BY <1>6 DEF emit_string
<1> HIDE DEF b
<1>12. a.emitted_mods \in SUBSET DanceBits
  BY DEF Adapters
<1>13. /\ r \in Adapters /\ SameInput(b, r) /\ r.emitted_mods = a.emitted_mods
       /\ r.output.down \ Carriers = b.output.down \ Carriers
       /\ Shown(b) => Shown(r)
  BY <1>10, <1>12, SetUinputModsTyped
<1> HIDE DEF r
<1>14. Emits(b, r)
  BY <1>13 DEF Emits
<1> QED BY <1>10, <1>11, <1>13, <1>14, EmitsTransitive

(* The BackSpaces of a correction: by induction on their number.           *)
LEMMA EmitBackspacesEmits ==
  ASSUME NEW a \in Adapters, NEW m \in Nat
  PROVE  Emits(a, emit_backspaces(a, m)) /\ emit_backspaces(a, m).emitted_mods = a.emitted_mods
<1> DEFINE Tap(b) == passthrough(passthrough(b, "Backspace", 1), "Backspace", 0)
           S == {b \in Adapters : Emits(a, b) /\ b.emitted_mods = a.emitted_mods}
           step == [p \in S \X (1 .. m) |-> Tap(p[1])]
           keys == [i \in 1 .. m |-> "Backspace"]
           Solves(it) == it = [s \in SUBSET (1 .. m) |->
                                 IF s = {} THEN a
                                 ELSE passthrough(passthrough(it[s \ {Max(s)}], keys[Max(s)], 1),
                                                  keys[Max(s)], 0)]
           it == CHOOSE it : Solves(it)
<1>1. a \in S
  BY EmitsReflexive
<1>2. ASSUME NEW b \in S PROVE Tap(b) \in S
  <2>1. b \in Adapters /\ Emits(a, b) /\ b.emitted_mods = a.emitted_mods
    OBVIOUS
  <2>2. Emits(b, Tap(b)) /\ Tap(b).emitted_mods = b.emitted_mods
    BY <2>1, NamedKeycodes, TapTyped
  <2> HIDE DEF Tap
  <2>3. Emits(a, Tap(b))
    BY <2>1, <2>2, EmitsTransitive
  <2> QED BY <2>1, <2>2, <2>3 DEF Emits
<1> HIDE DEF S, Tap
<1>3. step \in [S \X (1 .. m) -> S]
  BY <1>2
<1>4. \A i \in 1 .. m : keys[i] = "Backspace"
  OBVIOUS
<1>5. \E f : Solves(f)
  <2> HIDE DEF step
  <2>1. PICK f : Folds(f, S, a, m, step)
    BY <1>1, <1>3, SetRecursion
  <2>2. ASSUME NEW s \in SUBSET (1 .. m), s # {}
        PROVE  step[<<f[s \ {Max(s)}], Max(s)>>] =
                 passthrough(passthrough(f[s \ {Max(s)}], keys[Max(s)], 1), keys[Max(s)], 0)
    <3>1. Max(s) \in 1 .. m
      <4>1. s \in SUBSET (0 .. m)
        OBVIOUS
      <4>2. Max(s) \in s
        BY <2>2, <4>1, MaxOfSubset
      <4> QED BY <4>2
    <3>2. f[s \ {Max(s)}] \in S
      BY <2>1 DEF Folds
    <3>3. step[<<f[s \ {Max(s)}], Max(s)>>] = Tap(f[s \ {Max(s)}])
      BY <3>1, <3>2 DEF step
    <3> QED BY <1>4, <3>1, <3>3 DEF Tap
  <2> HIDE DEF keys
  <2>3. Solves(f)
    BY <2>1, <2>2 DEF Folds
  <2> QED BY <2>3
<1>6. Solves(it)
  <2> HIDE DEF Solves
  <2> QED BY <1>5
<1>7. emit_backspaces(a, m) = it[1 .. m]
  <2>1. DOMAIN keys = 1 .. m /\ Len(keys) = m
    OBVIOUS
  <2> QED BY <2>1 DEF emit_backspaces, FoldLeft, MapThenFoldSet
<1> HIDE DEF it, keys
<1>8. it[{}] \in S
  BY <1>1, <1>6
<1>9. ASSUME NEW n \in 1 .. m, it[1 .. (n - 1)] \in S PROVE it[1 .. n] \in S
  <2>1. 1 .. n # {} /\ Max(1 .. n) = n /\ (1 .. n) \ {Max(1 .. n)} = 1 .. (n - 1)
    <3>1. n \in Nat /\ n # 0
      OBVIOUS
    <3> QED BY <3>1, LastOfInterval
  <2>2. 1 .. n \in SUBSET (1 .. m)
    OBVIOUS
  <2>3. it[1 .. n] = Tap(it[1 .. (n - 1)])
    BY <1>4, <1>6, <2>1, <2>2 DEF Tap
  <2> QED BY <1>2, <1>9, <2>3
<1>10. it[1 .. m] \in S
  BY <1>8, <1>9, FoldInduction
<1> QED BY <1>7, <1>10 DEF S

(* A whole correction.                                                     *)
LEMMA CorrectionEmits ==
  ASSUME NEW a \in Adapters, NEW n \in Nat, NEW text \in Text
  PROVE  LET b == emit_string(emit_backspaces(a, n), text)
         IN  Emits(a, b) /\ b.emitted_mods = a.emitted_mods
<1> DEFINE b1 == emit_backspaces(a, n)
           b == emit_string(b1, text)
<1>1. Emits(a, b1) /\ b1.emitted_mods = a.emitted_mods
  BY EmitBackspacesEmits
<1> HIDE DEF b1
<1>2. b1 \in Adapters
  BY <1>1 DEF Emits
<1>3. Emits(b1, b) /\ b.emitted_mods = b1.emitted_mods
  BY <1>2, EmitStringEmits
<1> HIDE DEF b
<1>4. Emits(a, b) /\ b.emitted_mods = a.emitted_mods
  BY <1>1, <1>2, <1>3, EmitsTransitive
<1> QED BY <1>4 DEF b, b1

(* A correction leaves no key down that was not down before.               *)
LEMMA CorrectionLeavesNothing ==
  ASSUME NEW a \in Adapters, NEW b, Emits(a, b), b.emitted_mods = a.emitted_mods, Shown(a)
  PROVE  b.output.down \subseteq a.output.down
<1> SUFFICES ASSUME NEW x \in b.output.down PROVE x \in a.output.down
  OBVIOUS
<1>1. Shown(b)
  BY DEF Emits
<1>2. CASE x \in Carriers
  BY <1>1, <1>2 DEF Shown, Carriers
<1>3. CASE x \notin Carriers
  BY <1>3 DEF Emits
<1> QED BY <1>2, <1>3

(* A raw forward.                                                          *)
LEMMA ForwardTyped ==
  ASSUME NEW a \in Adapters, NEW code \in Keycodes, NEW value \in {1, 2}
  PROVE  LET b == forward_press_raw(a, code, value)
         IN  /\ b \in Adapters
             /\ b.mod_mask = a.mod_mask /\ b.emitted_mods = a.emitted_mods
             /\ b.held_physical = a.held_physical /\ b.escape_taps = a.escape_taps
             /\ b.forwarded_press = a.forwarded_press \cup {code}
             /\ a.output.down \subseteq b.output.down
             /\ b.output.down \subseteq a.output.down \cup {code}
<1> DEFINE a1 == [a EXCEPT !.forwarded_press = @ \cup {code}]
           v == IF code \notin a.forwarded_press /\ value = 2 THEN 1 ELSE value
           b == passthrough(a1, code, v)
<1>1. /\ a1 \in Adapters /\ a1.output = a.output
      /\ a1.mod_mask = a.mod_mask /\ a1.emitted_mods = a.emitted_mods
      /\ a1.held_physical = a.held_physical /\ a1.escape_taps = a.escape_taps
      /\ a1.forwarded_press = a.forwarded_press \cup {code}
  BY DEF Adapters
<1> HIDE DEF a1
<1>2. v \in {1, 2}
  OBVIOUS
<1> HIDE DEF v
<1>3. /\ b \in Adapters /\ SameInput(a1, b) /\ b.emitted_mods = a1.emitted_mods
      /\ b.output.down = DownAfter(a1.output.down, code, v)
  BY <1>1, <1>2, PassthroughTyped
<1>4. forward_press_raw(a, code, value) = b
  BY DEF forward_press_raw, a1, v
<1> HIDE DEF b
<1>5. /\ a.output.down \subseteq b.output.down
      /\ b.output.down \subseteq a.output.down \cup {code}
  BY <1>1, <1>2, <1>3 DEF DownAfter
<1> QED BY <1>1, <1>3, <1>4, <1>5 DEF SameInput

-----------------------------------------------------------------------------
(* The types.                                                              *)

Alive == grabbed => composer # None

(* The adapter that has tracked a key.                                     *)
LEMMA TrackedTyped ==
  ASSUME adapter \in Adapters, NEW code \in Keycodes, NEW value \in {0, 1, 2}
  PROVE  LET a == Tracked(code, value)
         IN  /\ a \in Adapters /\ a.output = adapter.output
             /\ a.mod_mask = adapter.mod_mask /\ a.emitted_mods = adapter.emitted_mods
             /\ a.forwarded_press = adapter.forwarded_press
             /\ a.escape_taps = adapter.escape_taps
<1> DEFINE h == CASE value = 1 -> adapter.held_physical \cup {code}
                  [] value = 0 -> adapter.held_physical \ {code}
                  [] value = 2 -> adapter.held_physical
           a == [adapter EXCEPT !.held_physical = h]
<1>1. h \in SUBSET Keycodes
  BY DEF Adapters
<1>2. Tracked(code, value) = a
  BY DEF Tracked
<1> HIDE DEF h
<1>3. /\ a \in Adapters /\ a.output = adapter.output
      /\ a.mod_mask = adapter.mod_mask /\ a.emitted_mods = adapter.emitted_mods
      /\ a.forwarded_press = adapter.forwarded_press
      /\ a.escape_taps = adapter.escape_taps
  BY <1>1 DEF Adapters
<1> QED BY <1>2, <1>3

(* The adapter that has also counted a tap of Escape.                      *)
LEMMA TappedTyped ==
  ASSUME adapter \in Adapters, NEW code \in Keycodes, NEW value \in {1, 2},
         ~IsThirdEscape(code, value)
  PROVE  LET a == Tapped(code, value)
         IN  /\ a \in Adapters /\ a.output = adapter.output
             /\ a.mod_mask = adapter.mod_mask /\ a.emitted_mods = adapter.emitted_mods
             /\ a.forwarded_press = adapter.forwarded_press
<1> DEFINE a0 == Tracked(code, value)
           n == IF code = "Esc" /\ value = 1 THEN a0.escape_taps + 1 ELSE a0.escape_taps
           a == [a0 EXCEPT !.escape_taps = n]
<1>1. /\ a0 \in Adapters /\ a0.output = adapter.output
      /\ a0.mod_mask = adapter.mod_mask /\ a0.emitted_mods = adapter.emitted_mods
      /\ a0.forwarded_press = adapter.forwarded_press
      /\ a0.escape_taps = adapter.escape_taps
  BY TrackedTyped
<1> HIDE DEF a0
<1>2. n \in 0 .. 2
  BY <1>1 DEF IsThirdEscape, Adapters
<1>3. Tapped(code, value) = a
  BY DEF Tapped, a0
<1> HIDE DEF n
<1>4. /\ a \in Adapters /\ a.output = adapter.output
      /\ a.mod_mask = adapter.mod_mask /\ a.emitted_mods = adapter.emitted_mods
      /\ a.forwarded_press = adapter.forwarded_press
  BY <1>1, <1>2 DEF Adapters
<1> QED BY <1>3, <1>4

(* An event of a key.                                                      *)
LEMMA KeyEventTyped ==
  ASSUME TypeOK, NEW code, NEW value, KeyEvent(code, value)
  PROVE  /\ DOMAIN held' \in Attached /\ held' \in [DOMAIN held' -> SUBSET Keycodes]
         /\ repeat_key' \in [DOMAIN held' -> Keycodes \cup {None}] /\ unshown' \in BOOLEAN
         /\ enabled' \in BOOLEAN /\ presses' \in Nat /\ events' \in Nat
<1>1. presses' \in Nat /\ events' \in Nat /\ enabled' \in BOOLEAN
  BY DEF KeyEvent, Bounded, TypeOK
<1>2. PICK b \in DOMAIN held :
       \/ /\ value = 1 /\ code \in Boards[b] \ held[b] /\ AllHeld \subseteq Overlapped
          /\ held' = [held EXCEPT ![b] = @ \cup {code}]
          /\ repeat_key' = [repeat_key EXCEPT ![b] = code]
          /\ unshown' = (unshown \/ code \in AllHeld)
       \/ /\ value = 0 /\ code \in held[b]
          /\ held' = [held EXCEPT ![b] = @ \ {code}]
          /\ repeat_key' = [repeat_key EXCEPT ![b] = None]
          /\ UNCHANGED unshown
       \/ /\ value = 2 /\ code = repeat_key[b] /\ code \notin ModKeys
          /\ unshown' = (unshown \/ code \in adapter.forwarded_press \ adapter.output.down)
          /\ UNCHANGED <<held, repeat_key>>
  BY DEF KeyEvent
<1>3. DOMAIN held' = DOMAIN held
  BY <1>2 DEF TypeOK
<1>4. code \in Boards[b] => code \in Keycodes
  BY KeyboardAssumption DEF TypeOK, Keycodes, Keyboard, Range
<1>5. held' \in [DOMAIN held -> SUBSET Keycodes]
  BY <1>2, <1>4 DEF TypeOK
<1>6. repeat_key' \in [DOMAIN held -> Keycodes \cup {None}]
  BY <1>2, <1>4 DEF TypeOK
<1>7. unshown' \in BOOLEAN
  BY <1>2 DEF TypeOK
<1> QED BY <1>1, <1>3, <1>5, <1>6, <1>7 DEF TypeOK

(* The composer that a printable key meets, and what it decides.           *)
LEMMA RouterTyped ==
  ASSUME composer \in Composers
  PROVE  /\ BeforeKey \in Composers
         /\ \A ch \in Char :
              LET out == Gated(feed_key(BeforeKey, ch))
              IN  out.composer \in Composers /\ out.decision \in Decisions
         /\ LET out == Gated(feed_backspace(BeforeKey))
            IN  out.composer \in Composers /\ out.decision \in Decisions
<1>1. ForwardRaw \in Decisions
  BY DEF ForwardRaw, Decisions, Text
<1>2. BeforeKey \in Composers
  <2> DEFINE c1 == check_idle_reset(composer)
             c2 == SyncEnabled(c1)
  <2>1. c1 \in Composers
    BY CheckIdleLeaves, LeavesTyped
  <2> HIDE DEF c1
  <2>2. c2 \in Composers
    BY <2>1, FullResetTyped DEF SyncEnabled
  <2>3. BeforeKey = IF enabled /\ method_changed THEN full_reset(c2) ELSE c2
    BY DEF BeforeKey, c1
  <2> HIDE DEF c2
  <2> QED BY <2>2, <2>3, FullResetTyped
<1> DEFINE c == BeforeKey
<1> HIDE DEF c
<1>3. c \in Composers
  BY <1>2 DEF c
<1>4. ASSUME NEW ch \in Char
      PROVE  LET out == Gated(feed_key(c, ch))
             IN  out.composer \in Composers /\ out.decision \in Decisions
  <2> DEFINE fed == feed_key(c, ch)
  <2>1. fed.composer \in Composers /\ fed.decision \in Decisions
    BY <1>3, FeedKeyLeaves, LeavesTyped
  <2> HIDE DEF fed
  <2>2. Gated(fed).composer \in Composers /\ Gated(fed).decision \in Decisions
    BY <1>1, <1>2, <2>1 DEF Gated
  <2> QED BY <2>2 DEF fed
<1>5. LET out == Gated(feed_backspace(c))
      IN  out.composer \in Composers /\ out.decision \in Decisions
  <2> DEFINE fed == feed_backspace(c)
  <2>1. fed.composer \in Composers /\ fed.decision \in Decisions
    BY <1>3, FeedBackspaceLeaves, LeavesTyped
  <2> HIDE DEF fed
  <2>2. Gated(fed).composer \in Composers /\ Gated(fed).decision \in Decisions
    BY <1>1, <1>2, <2>1 DEF Gated
  <2> QED BY <2>2 DEF fed
<1> QED BY <1>2, <1>4, <1>5 DEF c

(* The ideal engine before a key.                                          *)
LEMMA IdealTyped ==
  ASSUME ideal \in Rendered
  PROVE  IdealBefore \in Rendered /\ IdealBefore.screen = ideal.screen
         /\ [ideal EXCEPT !.engine = Fresh] \in Rendered
  BY EngineAssumption DEF IdealBefore, Rendered

(* The ideal engine after a character key.                                 *)
LEMMA IdealCharTyped ==
  ASSUME ideal \in Rendered PROVE \A ch \in Char : IdealChar(ch) \in Rendered
<1> SUFFICES ASSUME NEW ch \in Char PROVE IdealChar(ch) \in Rendered
  OBVIOUS
<1> DEFINE on == RenderStep(IdealBefore, ch)
           off == [IdealBefore EXCEPT !.screen = Append(@, ch)]
           result == IF enabled THEN on ELSE off
<1>1. IdealBefore \in Rendered
  BY IdealTyped
<1>2. on \in Rendered
  BY <1>1, RenderStepTyped
<1>3. off \in Rendered
  <2>1. Append(IdealBefore.screen, ch) \in Text
    BY <1>1 DEF Rendered, Text
  <2> QED BY <1>1, <2>1 DEF Rendered
<1>4. IdealChar(ch) = IF ch \in Controls THEN [result EXCEPT !.screen = ideal.screen] ELSE result
  BY DEF IdealChar
<1> HIDE DEF on, off
<1>5. result \in Rendered
  BY <1>2, <1>3
<1> HIDE DEF result
<1>6. [result EXCEPT !.screen = ideal.screen] \in Rendered
  BY <1>5 DEF Rendered
<1> QED BY <1>4, <1>5, <1>6

(* TypeOK, without the variables of the user.                              *)
Typed ==
  /\ adapter \in Adapters /\ grabbed \in BOOLEAN
  /\ composer \in Composers \cup {None}
  /\ last_enabled \in BOOLEAN /\ method_changed \in BOOLEAN
  /\ ideal \in Rendered
  /\ Alive

(* Typed and the types of the variables of the user make TypeOK.           *)
LEMMA TypedParts ==
  /\ TypeOK /\ Alive => Typed
  /\ Typed' /\ (/\ DOMAIN held' \in Attached /\ held' \in [DOMAIN held' -> SUBSET Keycodes]
                /\ repeat_key' \in [DOMAIN held' -> Keycodes \cup {None}] /\ unshown' \in BOOLEAN
                /\ enabled' \in BOOLEAN /\ presses' \in Nat /\ events' \in Nat)
       => (TypeOK /\ Alive)'
  BY DEF TypeOK, Typed, Rendered

(* A modifier: its bit in a mask.                                          *)
LEMMA ModBitTyped ==
  ASSUME NEW code \in ModKeys
  PROVE  /\ mod_bit(code) \in Modifier
         /\ mod_bit(code) \in DanceBits <=> code \in Carriers \cup {"RightShift"}
         /\ code # "RightShift" =>
              /\ mod_bit(code) = "shift" <=> code = "LeftShift"
              /\ mod_bit(code) = "level3" <=> code = "RightAlt"
              /\ mod_bit(code) = "level5" <=> code = "Henkan"
  BY DEF mod_bit, ModKeys, Shifts, Modifier, DanceBits, Carriers

(* The adapter that has tracked a modifier.                                *)
LEMMA ModifierTyped ==
  ASSUME TypeOK, NEW code \in ModKeys, NEW value \in {0, 1}, ModifierEvent(code, value)
  PROVE  /\ adapter' \in Adapters
         /\ adapter'.forwarded_press = adapter.forwarded_press
         /\ adapter'.output.down = DownAfter(adapter.output.down, code, value)
         /\ adapter'.emitted_mods =
              IF mod_bit(code) \in DanceBits
              THEN SetBit(adapter.emitted_mods, mod_bit(code), value) ELSE adapter.emitted_mods
<1> DEFINE bit == mod_bit(code)
           a0 == Tracked(code, value)
           mask == SetBit(a0.mod_mask, bit, value)
           em == IF bit \in DanceBits THEN SetBit(a0.emitted_mods, bit, value)
                 ELSE a0.emitted_mods
           a  == [a0 EXCEPT !.mod_mask = mask, !.emitted_mods = em]
<1>1. code \in Keycodes
  BY NamedKeycodes
<1>2. adapter \in Adapters
  BY DEF TypeOK
<1>3. /\ a0 \in Adapters /\ a0.output = adapter.output
      /\ a0.mod_mask = adapter.mod_mask /\ a0.emitted_mods = adapter.emitted_mods
      /\ a0.forwarded_press = adapter.forwarded_press
  BY <1>1, <1>2, TrackedTyped
<1>4. adapter' = passthrough(a, code, value)
  BY DEF ModifierEvent
<1> HIDE DEF a0
<1>5. bit \in Modifier
  BY ModBitTyped
<1> HIDE DEF bit
<1>6. mask \in SUBSET Modifier /\ em \in SUBSET DanceBits
  BY <1>3, <1>5 DEF SetBit, Adapters
<1>7. em = IF bit \in DanceBits THEN SetBit(adapter.emitted_mods, bit, value)
           ELSE adapter.emitted_mods
  BY <1>3
<1> HIDE DEF mask, em
<1>8. /\ a \in Adapters /\ a.output = a0.output /\ a.emitted_mods = em
      /\ a.forwarded_press = a0.forwarded_press
  BY <1>3, <1>6 DEF Adapters
<1> HIDE DEF a
<1>9. /\ adapter' \in Adapters /\ SameInput(a, adapter')
      /\ adapter'.emitted_mods = a.emitted_mods
      /\ adapter'.output.down = DownAfter(a.output.down, code, value)
  BY <1>1, <1>4, <1>8, PassthroughTyped
<1> QED BY <1>3, <1>7, <1>8, <1>9 DEF SameInput, bit

(* The adapter after a release.                                            *)
LEMMA ReleaseTyped ==
  ASSUME TypeOK, NEW code \in Keycodes, ReleaseKey(code)
  PROVE  /\ adapter' \in Adapters
         /\ adapter'.forwarded_press = adapter.forwarded_press \ {code}
         /\ adapter'.emitted_mods = adapter.emitted_mods
         /\ adapter'.output.down = IF code \in adapter.forwarded_press
                                   THEN adapter.output.down \ {code} ELSE adapter.output.down
<1> DEFINE a0 == Tracked(code, 0)
           a  == [a0 EXCEPT !.forwarded_press = @ \ {code}]
           b  == passthrough(a, code, 0)
<1>1. /\ a0 \in Adapters /\ a0.output = adapter.output
      /\ a0.emitted_mods = adapter.emitted_mods
      /\ a0.forwarded_press = adapter.forwarded_press
  BY TrackedTyped DEF TypeOK
<1>2. adapter' = IF code \in a0.forwarded_press THEN b ELSE a0
  BY DEF ReleaseKey
<1> HIDE DEF a0
<1>3. /\ a \in Adapters /\ a.output = a0.output /\ a.emitted_mods = a0.emitted_mods
      /\ a.forwarded_press = a0.forwarded_press \ {code}
  BY <1>1 DEF Adapters
<1> HIDE DEF a
<1>4. /\ b \in Adapters /\ SameInput(a, b) /\ b.emitted_mods = a.emitted_mods
      /\ b.output.down = a.output.down \ {code}
  BY <1>3, PassthroughTyped DEF DownAfter
<1> HIDE DEF b
<1>5. code \notin adapter.forwarded_press =>
        adapter.forwarded_press = adapter.forwarded_press \ {code}
  OBVIOUS
<1> QED BY <1>1, <1>2, <1>3, <1>4, <1>5 DEF SameInput

(* What a press or repeat does to the adapter: its key is forwarded, or an *)
(* edit is typed instead.                                                  *)
Forwards(code) ==
  /\ adapter' \in Adapters /\ adapter'.emitted_mods = adapter.emitted_mods
  /\ adapter'.forwarded_press = adapter.forwarded_press \cup {code}
  /\ adapter.output.down \subseteq adapter'.output.down
  /\ adapter'.output.down \subseteq adapter.output.down \cup {code}

Corrects ==
  /\ adapter' \in Adapters /\ adapter'.emitted_mods = adapter.emitted_mods
  /\ adapter'.forwarded_press = adapter.forwarded_press
  /\ adapter'.output.down \ Carriers \subseteq adapter.output.down
  /\ Shown(adapter) => Shown(adapter')
  /\ Shown(adapter) => adapter'.output.down \subseteq adapter.output.down

(* A forward by an adapter that has only tracked and counted the key.      *)
LEMMA ForwardsKey ==
  ASSUME NEW a \in Adapters, a.output = adapter.output, a.emitted_mods = adapter.emitted_mods,
         a.forwarded_press = adapter.forwarded_press,
         NEW code \in Keycodes, NEW value \in {1, 2}, adapter' = forward_press_raw(a, code, value)
  PROVE  Forwards(code)
  BY ForwardTyped DEF Forwards

(* A correction by such an adapter.                                        *)
LEMMA CorrectsText ==
  ASSUME NEW a \in Adapters, a.output = adapter.output, a.emitted_mods = adapter.emitted_mods,
         a.forwarded_press = adapter.forwarded_press,
         Emits(a, adapter'), adapter'.emitted_mods = a.emitted_mods
  PROVE  Corrects
<1>1. Shown(a) <=> Shown(adapter)
  BY DEF Shown
<1>2. Shown(a) => adapter'.output.down \subseteq a.output.down
  BY CorrectionLeavesNothing
<1> QED BY <1>1, <1>2 DEF Corrects, Emits, SameInput

(* The character keys.                                                     *)
LEMMA PressCharTyped ==
  ASSUME TypeOK, Alive, NEW code \in Keycodes, NEW value, PressChar(code, value)
  PROVE  Typed' /\ (Forwards(code) \/ Corrects) /\ code \notin ModKeys /\ value \in {1, 2}
<1> DEFINE a   == Tapped(code, value)
           ch  == key_to_char(code)
           out == Gated(feed_key(BeforeKey, ch))
<1>1. /\ value \in {1, 2} /\ code \notin ModKeys /\ ~IsThirdEscape(code, value) /\ grabbed
      /\ grabbed' = grabbed
      /\ last_enabled' = enabled /\ method_changed' = (method_changed /\ ~enabled)
      /\ enabled' = enabled
  BY DEF PressChar, HandledKey, Pressed, KeyEvent
<1>2. /\ a \in Adapters /\ a.output = adapter.output /\ a.emitted_mods = adapter.emitted_mods
      /\ a.forwarded_press = adapter.forwarded_press
  BY <1>1, TappedTyped DEF TypeOK
<1>3. ch \in Char
  BY KeyboardAssumption DEF PressChar, HandledKey, Printable, key_to_char
<1>4. composer \in Composers
  BY <1>1 DEF TypeOK, Alive
<1>5. out.composer \in Composers /\ out.decision \in Decisions
  BY <1>3, <1>4, RouterTyped
<1>6. /\ composer' = out.composer
      /\ adapter' = IF out.decision.kind = "Apply"
                    THEN emit_string(emit_backspaces(a, out.decision.backspaces),
                                     out.decision.commit)
                    ELSE forward_press_raw(a, code, value)
      /\ ideal' = IdealChar(ch)
  BY DEF PressChar
<1>7. ideal' \in Rendered
  BY <1>3, <1>6, IdealCharTyped DEF TypeOK, Rendered
<1> HIDE DEF a, ch, out
<1>8. Forwards(code) \/ Corrects
  <2>1. CASE out.decision.kind = "Apply"
    <3> DEFINE n == out.decision.backspaces
               text == out.decision.commit
    <3>1. n \in Nat /\ text \in Text
      BY <1>5 DEF Decisions
    <3>2. adapter' = emit_string(emit_backspaces(a, n), text)
      BY <1>6, <2>1
    <3> HIDE DEF n, text
    <3>3. Emits(a, adapter') /\ adapter'.emitted_mods = a.emitted_mods
      BY <1>2, <3>1, <3>2, CorrectionEmits
    <3> QED BY <1>2, <3>3, CorrectsText
  <2>2. CASE out.decision.kind # "Apply"
    BY <1>1, <1>2, <1>6, <2>2, ForwardsKey
  <2> QED BY <2>1, <2>2
<1>9. adapter' \in Adapters
  BY <1>8 DEF Forwards, Corrects
<1>10. last_enabled' \in BOOLEAN /\ method_changed' \in BOOLEAN
  BY <1>1 DEF TypeOK
<1>11. composer' \in Composers /\ composer' # None
  BY <1>5, <1>6, NoneAssumption
<1>12. grabbed' \in BOOLEAN
  BY <1>1 DEF TypeOK
<1> QED BY <1>1, <1>7, <1>8, <1>9, <1>10, <1>11, <1>12 DEF Typed, Alive

(* Backspace.                                                              *)
LEMMA PressBackspaceTyped ==
  ASSUME TypeOK, Alive, NEW value, PressBackspace(value)
  PROVE  Typed' /\ (Forwards("Backspace") \/ Corrects) /\ value \in {1, 2}
<1> DEFINE a   == Tapped("Backspace", value)
           out == Gated(feed_backspace(BeforeKey))
           e   == VnBackspace(IdealBefore.engine).engine
           t   == DropLast(ideal.screen, 1)
<1>1. /\ value \in {1, 2} /\ ~IsThirdEscape("Backspace", value) /\ grabbed
      /\ grabbed' = grabbed
      /\ last_enabled' = enabled /\ method_changed' = (method_changed /\ ~enabled)
  BY DEF PressBackspace, HandledKey, Pressed, KeyEvent
<1>2. /\ a \in Adapters /\ a.output = adapter.output /\ a.emitted_mods = adapter.emitted_mods
      /\ a.forwarded_press = adapter.forwarded_press
  BY <1>1, TappedTyped, NamedKeycodes DEF TypeOK
<1>3. composer \in Composers
  BY <1>1 DEF TypeOK, Alive
<1>4. out.composer \in Composers /\ out.decision \in Decisions
  BY <1>3, RouterTyped
<1>5. /\ composer' = out.composer
      /\ adapter' = IF out.decision.kind = "Apply"
                    THEN emit_backspaces(a, out.decision.backspaces)
                    ELSE forward_press_raw(a, "Backspace", value)
      /\ ideal' = [engine |-> e, screen |-> t]
  BY DEF PressBackspace
<1>6. ideal' \in Rendered
  <2>1. ideal \in Rendered
    BY DEF TypeOK, Rendered
  <2>2. IdealBefore \in Rendered
    BY <2>1, IdealTyped
  <2>3. IdealBefore.engine \in EngineStates
    BY <2>2 DEF Rendered
  <2>4. e \in EngineStates
    <3>1. VnBackspace(IdealBefore.engine) \in ProcessResult
      BY <2>3, EngineAssumption
    <3> QED BY <3>1 DEF ProcessResult
  <2>5. t \in Text
    BY <2>1, DropLastTyped DEF Rendered
  <2> HIDE DEF e, t
  <2> QED BY <1>5, <2>4, <2>5 DEF Rendered
<1> HIDE DEF a, out, e, t
<1>7. Forwards("Backspace") \/ Corrects
  <2>1. CASE out.decision.kind = "Apply"
    <3> DEFINE n == out.decision.backspaces
    <3>1. n \in Nat
      BY <1>4 DEF Decisions
    <3>2. adapter' = emit_backspaces(a, n)
      BY <1>5, <2>1
    <3> HIDE DEF n
    <3>3. Emits(a, adapter') /\ adapter'.emitted_mods = a.emitted_mods
      BY <1>2, <3>1, <3>2, EmitBackspacesEmits
    <3> QED BY <1>2, <3>3, CorrectsText
  <2>2. CASE out.decision.kind # "Apply"
    BY <1>1, <1>2, <1>5, <2>2, ForwardsKey, NamedKeycodes
  <2> QED BY <2>1, <2>2
<1>8. adapter' \in Adapters
  BY <1>7 DEF Forwards, Corrects
<1>9. last_enabled' \in BOOLEAN /\ method_changed' \in BOOLEAN /\ grabbed' \in BOOLEAN
  BY <1>1 DEF TypeOK
<1>10. composer' \in Composers /\ composer' # None
  BY <1>4, <1>5, NoneAssumption
<1> QED BY <1>1, <1>6, <1>7, <1>8, <1>9, <1>10 DEF Typed, Alive

(* Keys without a character, and the emergency escape.                     *)
LEMMA ResetKeyTyped ==
  ASSUME TypeOK, Alive, NEW code \in Keycodes, NEW value, ResetKey(code, value)
  PROVE  Typed' /\ Forwards(code) /\ code \notin ModKeys /\ value \in {1, 2}
<1> DEFINE a == Tapped(code, value)
<1>1. /\ value \in {1, 2} /\ code \notin ModKeys /\ ~IsThirdEscape(code, value) /\ grabbed
      /\ grabbed' = grabbed /\ last_enabled' = last_enabled
      /\ method_changed' = method_changed
      /\ adapter' = forward_press_raw(a, code, value)
      /\ composer' = full_reset(composer)
      /\ ideal' = [ideal EXCEPT !.engine = Fresh]
  BY DEF ResetKey, Pressed, KeyEvent
<1>2. /\ a \in Adapters /\ a.output = adapter.output /\ a.emitted_mods = adapter.emitted_mods
      /\ a.forwarded_press = adapter.forwarded_press
  BY <1>1, TappedTyped DEF TypeOK
<1> HIDE DEF a
<1>3. Forwards(code)
  BY <1>1, <1>2, ForwardsKey
<1>4. composer \in Composers
  BY <1>1 DEF TypeOK, Alive
<1>5. composer' \in Composers /\ composer' # None
  BY <1>1, <1>4, FullResetTyped, NoneAssumption
<1>6. ideal' \in Rendered
  BY <1>1, IdealTyped DEF TypeOK, Rendered
<1> QED BY <1>1, <1>3, <1>5, <1>6 DEF Typed, Alive, TypeOK, Forwards

(* The emergency escape is forwarded.                                      *)
LEMMA EmergencyTyped ==
  ASSUME TypeOK, Alive, EmergencyEscape PROVE Typed' /\ Forwards("Esc")
<1> DEFINE a0 == Tracked("Esc", 1)
           a  == [a0 EXCEPT !.escape_taps = 0]
<1>1. /\ a0 \in Adapters /\ a0.output = adapter.output
      /\ a0.emitted_mods = adapter.emitted_mods
      /\ a0.forwarded_press = adapter.forwarded_press
  BY TrackedTyped, NamedKeycodes DEF TypeOK
<1>2. adapter' = forward_press_raw(a, "Esc", 1)
  BY DEF EmergencyEscape
<1> HIDE DEF a0
<1>3. /\ a \in Adapters /\ a.output = a0.output /\ a.emitted_mods = a0.emitted_mods
      /\ a.forwarded_press = a0.forwarded_press
  BY <1>1 DEF Adapters
<1> HIDE DEF a
<1>4. Forwards("Esc")
  BY <1>1, <1>2, <1>3, ForwardsKey, NamedKeycodes
<1> QED BY <1>4 DEF Typed, Alive, TypeOK, Rendered, EmergencyEscape, Forwards

(* Each step keeps the types, and that a grabbed session has a composer.   *)
LEMMA NextTyped == TypeOK /\ Alive /\ [Next]_vars => (TypeOK /\ Alive)'
<1> SUFFICES ASSUME TypeOK, Alive, [Next]_vars PROVE (TypeOK /\ Alive)'
  OBVIOUS
<1> DEFINE UserTyped ==
             /\ DOMAIN held' \in Attached /\ held' \in [DOMAIN held' -> SUBSET Keycodes]
             /\ repeat_key' \in [DOMAIN held' -> Keycodes \cup {None}] /\ unshown' \in BOOLEAN
             /\ enabled' \in BOOLEAN /\ presses' \in Nat /\ events' \in Nat
<1>1. Typed' /\ UserTyped => (TypeOK /\ Alive)'
  BY TypedParts
<1>2. \A code, value : KeyEvent(code, value) => UserTyped
  BY KeyEventTyped
<1> HIDE DEF UserTyped
<1>3. ASSUME NEW code \in Keyboard, NEW value \in {0, 1}, ModifierEvent(code, value)
      PROVE  (TypeOK /\ Alive)'
  <2>1. code \in ModKeys /\ KeyEvent(code, value) /\ UNCHANGED <<grabbed, router, ideal>>
    BY <1>3 DEF ModifierEvent
  <2>2. adapter' \in Adapters
    BY <1>3, <2>1, ModifierTyped
  <2>3. Typed'
    BY <2>1, <2>2 DEF Typed, TypeOK, Alive, router, Rendered
  <2> QED BY <1>1, <1>2, <2>1, <2>3
<1>4. CASE EmergencyEscape
  <2>1. KeyEvent("Esc", 1)
    BY <1>4 DEF EmergencyEscape
  <2>2. Typed'
    BY <1>4, EmergencyTyped
  <2> QED BY <1>1, <1>2, <2>1, <2>2
<1>5. ASSUME NEW code \in Keyboard, ReleaseKey(code) PROVE (TypeOK /\ Alive)'
  <2>1. KeyEvent(code, 0) /\ UNCHANGED <<grabbed, router, ideal>>
    BY <1>5 DEF ReleaseKey
  <2>2. adapter' \in Adapters
    BY <1>5, ReleaseTyped, NamedKeycodes
  <2>3. Typed'
    BY <2>1, <2>2 DEF Typed, TypeOK, Alive, router, Rendered
  <2> QED BY <1>1, <1>2, <2>1, <2>3
<1>6. ASSUME NEW code \in Keyboard, NEW value \in {1, 2}, ResetKey(code, value)
      PROVE  (TypeOK /\ Alive)'
  <2>1. KeyEvent(code, value)
    BY <1>6 DEF ResetKey, Pressed
  <2>2. Typed'
    BY <1>6, ResetKeyTyped, NamedKeycodes
  <2> QED BY <1>1, <1>2, <2>1, <2>2
<1>7. ASSUME NEW value \in {1, 2}, PressBackspace(value) PROVE (TypeOK /\ Alive)'
  <2>1. KeyEvent("Backspace", value)
    BY <1>7 DEF PressBackspace, HandledKey, Pressed
  <2>2. Typed'
    BY <1>7, PressBackspaceTyped
  <2> QED BY <1>1, <1>2, <2>1, <2>2
<1>8. ASSUME NEW code \in Keyboard, NEW value \in {1, 2}, PressChar(code, value)
      PROVE  (TypeOK /\ Alive)'
  <2>1. KeyEvent(code, value)
    BY <1>8 DEF PressChar, HandledKey, Pressed
  <2>2. Typed'
    BY <1>8, PressCharTyped, NamedKeycodes
  <2> QED BY <1>1, <1>2, <2>1, <2>2
<1>9. CASE Toggle \/ ChangeMethod \/ Stop
  <2>1. /\ UNCHANGED <<held, repeat_key, unshown, adapter, composer, last_enabled, presses, ideal>>
        /\ events' = events + 1
        /\ grabbed' => grabbed
    BY <1>9 DEF Toggle, ChangeMethod, Stop, Event, user, router
  <2>2. grabbed' \in BOOLEAN /\ enabled' \in BOOLEAN /\ method_changed' \in BOOLEAN
    <3>1. CASE Toggle
      BY <3>1 DEF Toggle, router, TypeOK
    <3>2. CASE ChangeMethod
      BY <3>2 DEF ChangeMethod, TypeOK
    <3>3. CASE Stop
      BY <3>3 DEF Stop, router, TypeOK
    <3> QED BY <1>9, <3>1, <3>2, <3>3
  <2> QED BY <2>1, <2>2 DEF TypeOK, Alive
<1>10. CASE Idle
  <2>1. composer \in Composers
    BY <1>10 DEF Idle, Event, TypeOK, Alive
  <2>2. composer' \in Composers
    BY <1>10, <2>1 DEF Idle, Composers
  <2>3. composer' # None
    BY <2>2, NoneAssumption
  <2> QED BY <1>10, <2>2, <2>3 DEF Idle, Event, TypeOK, Alive, user
<1>11. CASE TapsExpire
  <2>1. PICK n \in 0 .. adapter.escape_taps - 1 :
          adapter' = [adapter EXCEPT !.escape_taps = n]
    BY <1>11 DEF TapsExpire
  <2>2. adapter.escape_taps \in 0 .. 2
    BY DEF TypeOK, Adapters
  <2>3. n \in 0 .. 2
    BY <2>2
  <2>4. adapter' \in Adapters
    BY <2>1, <2>3 DEF TypeOK, Adapters
  <2> QED BY <1>11, <2>4 DEF TapsExpire, TypeOK, Alive, user, router
<1>12. CASE UNCHANGED vars
  BY <1>12 DEF vars, TypeOK, Alive
<1> QED
  BY <1>3, <1>4, <1>5, <1>6, <1>7, <1>8, <1>9, <1>10, <1>11, <1>12 DEF Next

(* The types hold at the start.                                            *)
LEMMA InitTyped == Init => TypeOK /\ Alive
<1> SUFFICES ASSUME Init PROVE TypeOK /\ Alive
  OBVIOUS
<1>1. NewComposer("ForwardKey", FALSE) \in Composers
  BY NewComposerTyped DEF Tier
<1>2. [engine |-> Fresh, screen |-> <<>>] \in [engine : EngineStates, screen : Text]
  BY EngineAssumption DEF Text
<1>3. adapter \in Adapters
  BY DEF Init, Adapters, Device, Text
<1>4. DOMAIN held \in Attached /\ held \in [DOMAIN held -> SUBSET Keycodes]
      /\ repeat_key \in [DOMAIN held -> Keycodes \cup {None}]
  BY DEF Init
<1>5. composer \in Composers /\ composer # None
  BY <1>1, NoneAssumption DEF Init
<1> QED BY <1>2, <1>3, <1>4, <1>5 DEF Init, TypeOK, Alive

(* Every variable keeps its type: what is down on the device and what was  *)
(* forwarded are keycodes, no more than two taps of Escape are counted,    *)
(* and the texts hold characters.                                          *)
THEOREM EvdevTypeCorrect == Spec => []TypeOK
<1>1. Init => TypeOK /\ Alive
  BY InitTyped
<1>2. (TypeOK /\ Alive) /\ [Next]_vars => (TypeOK /\ Alive)'
  BY NextTyped
<1> QED BY <1>1, <1>2, PTL DEF Spec

-----------------------------------------------------------------------------
(* The keys that are down.                                                 *)

(* The user holds keys of the keyboards; the kernel repeats a held one.    *)
HeldOnBoards == \A b \in DOMAIN held : held[b] \subseteq Boards[b]
RepeatsHeld  == \A b \in DOMAIN held : repeat_key[b] # None => repeat_key[b] \in held[b]

(* A key that is no modifier is down only if its release will be forwarded.*)
Forwarded == adapter.output.down \ ModKeys \subseteq adapter.forwarded_press

Keys == HeldOnBoards /\ RepeatsHeld /\ Forwarded /\ Shown(adapter) /\ NoStuckKey

(* What an event of a key does to the keys that are held.                  *)
LEMMA KeyEventHeld ==
  ASSUME TypeOK, HeldOnBoards, RepeatsHeld,
         NEW code \in Keycodes, NEW value, KeyEvent(code, value)
  PROVE  /\ HeldOnBoards' /\ RepeatsHeld'
         /\ value \in {1, 2} => code \in AllHeld' /\ AllHeld \subseteq AllHeld'
         /\ value = 0 => AllHeld \ {code} \subseteq AllHeld'
<1>1. PICK b \in DOMAIN held :
       \/ /\ value = 1 /\ code \in Boards[b] \ held[b] /\ AllHeld \subseteq Overlapped
          /\ held' = [held EXCEPT ![b] = @ \cup {code}]
          /\ repeat_key' = [repeat_key EXCEPT ![b] = code]
          /\ unshown' = (unshown \/ code \in AllHeld)
       \/ /\ value = 0 /\ code \in held[b]
          /\ held' = [held EXCEPT ![b] = @ \ {code}]
          /\ repeat_key' = [repeat_key EXCEPT ![b] = None]
          /\ UNCHANGED unshown
       \/ /\ value = 2 /\ code = repeat_key[b] /\ code \notin ModKeys
          /\ unshown' = (unshown \/ code \in adapter.forwarded_press \ adapter.output.down)
          /\ UNCHANGED <<held, repeat_key>>
  BY DEF KeyEvent
<1>2. /\ held \in [DOMAIN held -> SUBSET Keycodes] /\ DOMAIN repeat_key = DOMAIN held
      /\ repeat_key \in [DOMAIN held -> Keycodes \cup {None}]
  BY DEF TypeOK
<1>3. CASE value = 1
  <2>1. /\ held' = [held EXCEPT ![b] = @ \cup {code}] /\ code \in Boards[b]
        /\ repeat_key' = [repeat_key EXCEPT ![b] = code]
    BY <1>1, <1>3
  <2>2. HeldOnBoards' /\ RepeatsHeld'
    BY <1>2, <2>1 DEF HeldOnBoards, RepeatsHeld
  <2>3. code \in AllHeld' /\ AllHeld \subseteq AllHeld'
    BY <1>2, <2>1 DEF AllHeld, Range
  <2> QED BY <1>3, <2>2, <2>3
<1>4. CASE value = 0
  <2>1. /\ held' = [held EXCEPT ![b] = @ \ {code}]
        /\ repeat_key' = [repeat_key EXCEPT ![b] = None]
    BY <1>1, <1>4
  <2>2. HeldOnBoards' /\ RepeatsHeld'
    BY <1>2, <2>1 DEF HeldOnBoards, RepeatsHeld
  <2>3. AllHeld \ {code} \subseteq AllHeld'
    BY <1>2, <2>1 DEF AllHeld, Range
  <2> QED BY <1>4, <2>2, <2>3
<1>5. CASE value = 2
  <2>1. held' = held /\ repeat_key' = repeat_key /\ code = repeat_key[b]
    BY <1>1, <1>5
  <2>2. HeldOnBoards' /\ RepeatsHeld'
    BY <2>1 DEF HeldOnBoards, RepeatsHeld
  <2>3. code \in held[b]
    BY <2>1, KeyboardAssumption DEF RepeatsHeld
  <2>4. code \in AllHeld' /\ AllHeld' = AllHeld
    BY <2>1, <2>3 DEF AllHeld, Range
  <2> QED BY <1>5, <2>2, <2>4
<1> QED BY <1>1, <1>3, <1>4, <1>5

(* No keyboard that may be attached has a right Shift.                     *)
NoRightShift == \A boards \in Attached : \A b \in boards : "RightShift" \notin Boards[b]

(* ... so that none is held, pressed or released.                          *)
LEMMA NoRightShiftEvent ==
  ASSUME NoRightShift, TypeOK, HeldOnBoards
  PROVE  /\ "RightShift" \notin AllHeld
         /\ \A value \in {0, 1} : ~KeyEvent("RightShift", value)
<1>1. \A b \in DOMAIN held : "RightShift" \notin Boards[b] /\ "RightShift" \notin held[b]
  BY DEF NoRightShift, TypeOK, HeldOnBoards
<1>2. "RightShift" \notin AllHeld
  BY <1>1 DEF AllHeld, Range
<1>3. \A value \in {0, 1} : ~KeyEvent("RightShift", value)
  BY <1>1 DEF KeyEvent
<1> QED BY <1>2, <1>3

(* A forwarded key is one that the user holds.                             *)
LEMMA ForwardsKeys ==
  ASSUME Keys, NEW code \in Keycodes \ ModKeys, Forwards(code),
         code \in AllHeld', AllHeld \subseteq AllHeld'
  PROVE  Forwarded' /\ Shown(adapter)' /\ NoStuckKey'
<1>1. code # "LeftShift" /\ code # "RightAlt" /\ code # "Henkan"
  BY NamedKeycodes DEF Carriers
<1>2. Shown(adapter')
  BY <1>1 DEF Keys, Forwards, Shown
<1> QED BY <1>2 DEF Keys, Forwards, Forwarded, NoStuckKey

(* A correction leaves down no more than there was.                        *)
LEMMA CorrectsKeys ==
  ASSUME Keys, Corrects, AllHeld \subseteq AllHeld'
  PROVE  Forwarded' /\ Shown(adapter)' /\ NoStuckKey'
  BY DEF Keys, Corrects, Forwarded, NoStuckKey

(* Each step keeps them, when no keyboard has a right Shift, in the place  *)
(* of which the dance would release and press the left one.                *)
LEMMA NextKeys ==
  ASSUME NoRightShift
  PROVE  TypeOK /\ Alive /\ Keys /\ [Next]_vars => Keys'
<1> SUFFICES ASSUME TypeOK, Alive, Keys, [Next]_vars PROVE Keys'
  OBVIOUS
<1>1. ASSUME NEW code \in Keycodes, NEW value, KeyEvent(code, value),
             value \in {1, 2}, code \notin ModKeys, Forwards(code) \/ Corrects
      PROVE  Keys'
  <2>1. /\ HeldOnBoards' /\ RepeatsHeld'
        /\ code \in AllHeld' /\ AllHeld \subseteq AllHeld'
    BY <1>1, KeyEventHeld DEF Keys
  <2>2. Forwarded' /\ Shown(adapter)' /\ NoStuckKey'
    <3>1. CASE Forwards(code)
      BY <1>1, <2>1, <3>1, ForwardsKeys
    <3>2. CASE Corrects
      BY <2>1, <3>2, CorrectsKeys
    <3> QED BY <1>1, <3>1, <3>2
  <2> QED BY <2>1, <2>2 DEF Keys
<1>2. ASSUME NEW code \in Keyboard, NEW value \in {0, 1}, ModifierEvent(code, value)
      PROVE  Keys'
  <2>1. code \in ModKeys /\ KeyEvent(code, value) /\ code # "RightShift" /\ code \in Keycodes
    BY <1>2, NamedKeycodes, NoRightShiftEvent DEF ModifierEvent, Keys
  <2>2. /\ HeldOnBoards' /\ RepeatsHeld'
        /\ value = 1 => code \in AllHeld' /\ AllHeld \subseteq AllHeld'
        /\ value = 0 => AllHeld \ {code} \subseteq AllHeld'
    BY <1>2, <2>1, KeyEventHeld DEF Keys
  <2>3. /\ adapter'.forwarded_press = adapter.forwarded_press
        /\ adapter'.output.down = DownAfter(adapter.output.down, code, value)
        /\ adapter'.emitted_mods =
             IF mod_bit(code) \in DanceBits
             THEN SetBit(adapter.emitted_mods, mod_bit(code), value) ELSE adapter.emitted_mods
    BY <1>2, <2>1, ModifierTyped
  <2>4. adapter'.output.down = IF value = 1 THEN adapter.output.down \cup {code}
                               ELSE adapter.output.down \ {code}
    BY <1>2, <2>3 DEF DownAfter
  <2>5. Forwarded' /\ NoStuckKey'
    BY <1>2, <2>1, <2>2, <2>3, <2>4 DEF Keys, Forwarded, NoStuckKey
  <2>6. Shown(adapter')
    <3> DEFINE bit == mod_bit(code)
    <3>1. /\ bit \in DanceBits <=> code \in Carriers
          /\ bit = "shift" <=> code = "LeftShift"
          /\ bit = "level3" <=> code = "RightAlt"
          /\ bit = "level5" <=> code = "Henkan"
      BY <2>1, ModBitTyped
    <3>2. adapter'.emitted_mods =
            IF bit \in DanceBits
            THEN IF value = 1 THEN adapter.emitted_mods \cup {bit}
                 ELSE adapter.emitted_mods \ {bit}
            ELSE adapter.emitted_mods
      BY <2>3 DEF SetBit
    <3> HIDE DEF bit
    <3>3. Shown(adapter)
      BY DEF Keys
    <3> QED BY <1>2, <2>4, <3>1, <3>2, <3>3 DEF Shown, Carriers, DanceBits
  <2> QED BY <2>2, <2>5, <2>6 DEF Keys
<1>3. CASE EmergencyEscape
  <2>1. KeyEvent("Esc", 1)
    BY <1>3 DEF EmergencyEscape
  <2> QED BY <1>1, <1>3, <2>1, EmergencyTyped, NamedKeycodes
<1>4. ASSUME NEW code \in Keyboard, ReleaseKey(code) PROVE Keys'
  <2>1. code \notin ModKeys /\ KeyEvent(code, 0) /\ code \in Keycodes
    BY <1>4, NamedKeycodes DEF ReleaseKey
  <2>2. HeldOnBoards' /\ RepeatsHeld' /\ AllHeld \ {code} \subseteq AllHeld'
    BY <2>1, KeyEventHeld DEF Keys
  <2>3. /\ adapter'.forwarded_press = adapter.forwarded_press \ {code}
        /\ adapter'.emitted_mods = adapter.emitted_mods
        /\ adapter'.output.down = IF code \in adapter.forwarded_press
                                  THEN adapter.output.down \ {code} ELSE adapter.output.down
    BY <1>4, <2>1, ReleaseTyped
  <2>4. adapter'.output.down = adapter.output.down \ {code}
    BY <2>1, <2>3 DEF Keys, Forwarded
  <2>5. Forwarded' /\ NoStuckKey'
    BY <2>2, <2>3, <2>4 DEF Keys, Forwarded, NoStuckKey
  <2>6. Shown(adapter')
    <3>1. code # "LeftShift" /\ code # "RightAlt" /\ code # "Henkan"
      BY <2>1, NamedKeycodes DEF Carriers
    <3> QED BY <2>3, <2>4, <3>1 DEF Keys, Shown
  <2> QED BY <2>2, <2>5, <2>6 DEF Keys
<1>5. ASSUME NEW code \in Keyboard, NEW value \in {1, 2}, ResetKey(code, value) PROVE Keys'
  <2>1. KeyEvent(code, value)
    BY <1>5 DEF ResetKey, Pressed
  <2> QED BY <1>1, <1>5, <2>1, ResetKeyTyped, NamedKeycodes
<1>6. ASSUME NEW value \in {1, 2}, PressBackspace(value) PROVE Keys'
  <2>1. KeyEvent("Backspace", value)
    BY <1>6 DEF PressBackspace, HandledKey, Pressed
  <2> QED BY <1>1, <1>6, <2>1, PressBackspaceTyped, NamedKeycodes
<1>7. ASSUME NEW code \in Keyboard, NEW value \in {1, 2}, PressChar(code, value) PROVE Keys'
  <2>1. KeyEvent(code, value)
    BY <1>7 DEF PressChar, HandledKey, Pressed
  <2> QED BY <1>1, <1>7, <2>1, PressCharTyped, NamedKeycodes
<1>8. CASE held' = held /\ repeat_key' = repeat_key
           /\ adapter'.output = adapter.output /\ adapter'.emitted_mods = adapter.emitted_mods
           /\ adapter'.forwarded_press = adapter.forwarded_press
  BY <1>8 DEF Keys, HeldOnBoards, RepeatsHeld, Forwarded, Shown, NoStuckKey, AllHeld
<1>9. CASE Toggle \/ ChangeMethod \/ Idle \/ Stop \/ UNCHANGED vars
  BY <1>8, <1>9 DEF Toggle, ChangeMethod, Idle, Stop, user, vars
<1>10. CASE TapsExpire
  <2>1. PICK n \in 0 .. adapter.escape_taps - 1 :
          adapter' = [adapter EXCEPT !.escape_taps = n]
    BY <1>10 DEF TapsExpire
  <2>2. /\ adapter'.output = adapter.output /\ adapter'.emitted_mods = adapter.emitted_mods
        /\ adapter'.forwarded_press = adapter.forwarded_press
    BY <2>1 DEF TypeOK, Adapters
  <2> QED BY <1>8, <1>10, <2>2 DEF TapsExpire, user
<1> QED BY <1>2, <1>3, <1>4, <1>5, <1>6, <1>7, <1>9, <1>10 DEF Next

(* No key is held at the start.                                            *)
LEMMA InitKeys == Init => Keys
  BY DEF Init, Keys, HeldOnBoards, RepeatsHeld, Forwarded, Shown, NoStuckKey

(* Without a right Shift, Shown says what EmittedModsVisible does.         *)
LEMMA ShownVisible ==
  ASSUME NoRightShift, TypeOK, Keys PROVE EmittedModsVisible
<1> DEFINE down == adapter.output.down
<1>1. "RightShift" \notin down
  BY NoRightShiftEvent DEF Keys, NoStuckKey
<1>2. adapter.emitted_mods \subseteq DanceBits
  BY DEF TypeOK, Adapters
<1>3. ModsOf(down) \cap DanceBits = {mod_bit(code) : code \in down \cap Carriers}
  <2>1. \A code \in down \cap ModKeys : mod_bit(code) \in DanceBits <=> code \in Carriers
    BY <1>1, ModBitTyped
  <2> QED BY <2>1, NamedKeycodes DEF ModsOf
<1>4. mod_bit("LeftShift") = "shift" /\ mod_bit("RightAlt") = "level3"
      /\ mod_bit("Henkan") = "level5"
  BY DEF mod_bit, Shifts
<1>5. \A bit \in DanceBits :
        bit \in adapter.emitted_mods <=> bit \in {mod_bit(code) : code \in down \cap Carriers}
  BY <1>4 DEF Keys, Shown, DanceBits, Carriers
<1>6. {mod_bit(code) : code \in down \cap Carriers} \subseteq DanceBits
  BY <1>4 DEF Carriers, DanceBits
<1> QED BY <1>2, <1>3, <1>5, <1>6 DEF EmittedModsVisible

(* What the compositor sees of the modifiers that the dance presses is     *)
(* what the adapter believes, after every event: for every layout, every   *)
(* engine, and any number of keyboards that share keys, provided none has  *)
(* a right Shift.                                                          *)
THEOREM EvdevModifiersVisible ==
  ASSUME NoRightShift PROVE Spec => []EmittedModsVisible
<1> DEFINE IInv == TypeOK /\ Alive /\ Keys
<1>1. Init => IInv
  BY InitTyped, InitKeys
<1>2. IInv /\ [Next]_vars => IInv'
  BY NextTyped, NextKeys
<1>3. IInv => EmittedModsVisible
  BY ShownVisible
<1> QED BY <1>1, <1>2, <1>3, PTL DEF Spec

(* No key is down on the device that the user holds on no keyboard, under  *)
(* the same condition: whatever edits, repeats, overlapping keys, resets,  *)
(* toggles and escapes came between its press and its release.             *)
THEOREM EvdevNoStuckKey ==
  ASSUME NoRightShift PROVE Spec => []NoStuckKey
<1> DEFINE IInv == TypeOK /\ Alive /\ Keys
<1>1. Init => IInv
  BY InitTyped, InitKeys
<1>2. IInv /\ [Next]_vars => IInv'
  BY NextTyped, NextKeys
<1>3. IInv => NoStuckKey
  BY DEF Keys
<1> QED BY <1>1, <1>2, <1>3, PTL DEF Spec

=============================================================================
