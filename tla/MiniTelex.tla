----------------------------- MODULE MiniTelex -----------------------------
(***************************************************************************)
(* A miniature Telex that stands in for vnkey when TLC runs: "o" and its   *)
(* capital "u" are vowels, "n" a consonant, "f" and its capital "F" the    *)
(* grave tone, which moves onto the last vowel of the word, and "O" and    *)
(* "U" are the two-byte glyphs that the vowels become under the tone.  A   *)
(* second tone key reverts the tone and leaves the rest of the word        *)
(* literal.  "_" is a space and "esc" the character of the Escape key;     *)
(* both end the word.                                                      *)
(***************************************************************************)
EXTENDS Naturals, Sequences, SequencesExt, FiniteSetsExt

CONSTANT MaxWord   \* longest word the miniature engine composes

Breaks == {"_", "esc"}

WordsOver(letters) == UNION {[1 .. n -> letters] : n \in 0 .. MaxWord}

TelexStates(letters) == [word : WordsOver(letters), literal : BOOLEAN]
TelexFresh == [word |-> <<>>, literal |-> FALSE]

Toned(vowel) == IF vowel \in {"o", "O"} THEN "O" ELSE "U"
Plain(vowel) == IF vowel \in {"o", "O"} THEN "o" ELSE "u"

TelexKey(e, ch) ==
  LET vowels  == {i \in DOMAIN e.word : e.word[i] \in {"o", "O", "u", "U"}}
      v       == Max(vowels)
      toned   == [e.word EXCEPT ![v] = Toned(@)]
      revert  == Append([e.word EXCEPT ![v] = Plain(@)], ch)
      literal == [engine |-> [e EXCEPT !.word = IF Len(@) < MaxWord THEN Append(@, ch) ELSE @],
                  backspaces |-> 0, commit |-> <<>>, consumed |-> FALSE]
      rewrite(w, lit) ==
        [engine |-> [word |-> IF Len(w) > MaxWord THEN e.word ELSE w, literal |-> lit],
         backspaces |-> Len(e.word) - v + 1,
         commit |-> SubSeq(w, v, Len(w)), consumed |-> TRUE]
  IN  IF ch \in Breaks
      THEN [engine |-> TelexFresh, backspaces |-> 0, commit |-> <<>>, consumed |-> FALSE]
      ELSE IF ch \in {"f", "F"} /\ ~e.literal /\ vowels # {}
      THEN IF e.word[v] = Plain(e.word[v]) THEN rewrite(toned, FALSE) ELSE rewrite(revert, TRUE)
      ELSE literal

TelexBackspace(e) ==
  [engine |-> IF Len(e.word) <= 1 THEN TelexFresh ELSE [e EXCEPT !.word = Front(@)],
   backspaces |-> IF e.word = <<>> THEN 0 ELSE 1, commit |-> <<>>, consumed |-> FALSE]

TelexKeysOf(ch) == CASE ch = "O" -> <<"o", "f">> [] ch = "U" -> <<"u", "f">>
                     [] ch \in Breaks -> <<>> [] OTHER -> <<ch>>

=============================================================================
