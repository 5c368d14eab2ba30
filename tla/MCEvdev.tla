------------------------------ MODULE MCEvdev ------------------------------
(***************************************************************************)
(* EvdevSession over the miniature Telex and a keyboard of three character *)
(* keys.  The toned vowels sit on one extra keycode, at the third level.   *)
(***************************************************************************)
EXTENDS EvdevSession, MiniTelex

MCChar == {"o", "u", "f", "F", "O", "U", "_", "esc"}
MCEngineStates == TelexStates(MCChar \ Breaks)

MCSlots ==
  [ch \in MCChar \ {"esc"} |->
     CASE ch = "o" -> <<"KeyO", {}>>    [] ch = "u" -> <<"KeyO", {"shift"}>>
       [] ch = "f" -> <<"KeyF", {}>>    [] ch = "F" -> <<"KeyF", {"shift"}>>
       [] ch = "_" -> <<"Space", {}>>
       [] ch = "O" -> <<"F13", {"level3"}>> [] ch = "U" -> <<"F13", {"shift", "level3"}>>]

MCLayout ==
  [slot \in {MCSlots[ch] : ch \in DOMAIN MCSlots}
             \cup {<<"Space", {"shift"}>>, <<"Esc", {}>>, <<"Esc", {"shift"}>>} |->
     IF slot[1] = "Esc" THEN "esc" ELSE IF slot[1] = "Space" THEN "_"
     ELSE CHOOSE ch \in DOMAIN MCSlots : MCSlots[ch] = slot]

(* A keyboard with every kind of key, two that share a letter and a Shift, *)
(* one whose Shift is the right one, and one to type words on.             *)
MCBoards ==
  "full" :> {"KeyO", "KeyF", "Space", "Backspace", "Esc", "End", "LeftShift", "LeftCtrl"}
    @@ "left" :> {"KeyO", "KeyF", "LeftShift"} @@ "right" :> {"KeyO", "Backspace", "LeftShift"}
    @@ "right_shift" :> {"KeyO", "KeyF", "RightShift"}
    @@ "words" :> {"KeyO", "KeyF", "Space", "Backspace"}

=============================================================================
