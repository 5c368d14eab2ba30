------------------------------- MODULE Engine -------------------------------
(***************************************************************************)
(* The wrapper around the Vietnamese composition engine                    *)
(* (crates/engine/src/lib.rs).  The engine itself, vnkey-engine, is a      *)
(* library outside the repository: its state and its two operations are    *)
(* parameters, constrained only by what the wrapper's callers rely on.     *)
(*                                                                         *)
(* A text is a sequence of characters.  A character is multibyte in UTF-8  *)
(* exactly when it is in Wide.                                             *)
(***************************************************************************)
EXTENDS Sequences, SequencesExt, Naturals

CONSTANTS
  Char,             \* the characters that can be typed or shown
  Alpha,            \* ASCII letters: char::is_ascii_alphabetic
  Boundary,         \* word boundaries: is_word_boundary
  Wide,             \* characters of more than one UTF-8 byte
  EngineStates,     \* states of vnkey_engine::Engine
  Fresh,            \* the state after Engine::new or Engine::reset
  VnKey(_, _),      \* Engine::process(state, key)
  VnBackspace(_),   \* Engine::process_backspace(state)
  KeysOf(_)         \* chars_from_composed: keystrokes that produce a glyph

(* What one engine operation answers: the state it leaves, the characters  *)
(* to delete, the text to commit, and whether the engine took the key.     *)
ProcessResult ==
  [engine : EngineStates, backspaces : Nat, commit : Seq(Char), consumed : BOOLEAN]

ASSUME CharAssumption ==
  /\ Alpha \subseteq Char
  /\ Boundary \subseteq Char
  /\ Wide \subseteq Char
  /\ Alpha \cap Boundary = {}
  /\ Alpha \cap Wide = {}
  /\ Boundary # {}

ASSUME EngineAssumption ==
  /\ Fresh \in EngineStates
  /\ \A e \in EngineStates, ch \in Char : VnKey(e, ch) \in ProcessResult
  /\ \A e \in EngineStates : VnBackspace(e) \in ProcessResult
  /\ \A ch \in Char : KeysOf(ch) \in Seq(Char)

-----------------------------------------------------------------------------

(* A text with its last n characters removed; popping past the start       *)
(* leaves it empty.                                                        *)
DropLast(text, n) == IF n >= Len(text) THEN <<>> ELSE SubSeq(text, 1, Len(text) - n)

(* The engine and the screen after one more raw key from a clean state.    *)
RenderStep(acc, ch) ==
  LET r == VnKey(acc.engine, ch)
  IN  [engine |-> r.engine,
       screen |-> IF r.consumed THEN DropLast(acc.screen, r.backspaces) \o r.commit
                                ELSE Append(acc.screen, ch)]

(* EngineState::render, run on a throwaway engine, with the state that the *)
(* same keys leave behind in feed_context.                                 *)
render(keys) == FoldLeft(RenderStep, [engine |-> Fresh, screen |-> <<>>], keys)

(* The keystrokes that would produce a composed text.                      *)
context_from_surrounding(text) ==
  FoldLeft(LAMBDA acc, ch : acc \o KeysOf(ch), <<>>, text)

(* feed_context_gated refuses a word whose reconstruction does not render  *)
(* back to it, and vnkey refuses an empty context.                         *)
SeedAccepted(text) ==
  LET keys == context_from_surrounding(text)
  IN  keys # <<>> /\ render(keys).screen = text

(* The engine after feed_context_gated on a fresh engine.                  *)
feed_context_gated(text) ==
  IF SeedAccepted(text) THEN render(context_from_surrounding(text)).engine ELSE Fresh

at_word_beginning(engine) == engine = Fresh

=============================================================================
