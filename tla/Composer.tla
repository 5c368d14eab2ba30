------------------------------ MODULE Composer ------------------------------
(***************************************************************************)
(* The composition brain (crates/daemon/src/composer.rs), with the shadow  *)
(* buffer and the two edit tiers it drives (crates/edit-strategy) and the  *)
(* Firefox stale-echo workaround (crates/daemon/src/quirks/firefox.rs).    *)
(*                                                                         *)
(* A Composer is a struct that one transport thread owns, so it is modelled*)
(* as a record and each of its methods as an operator from a composer (and *)
(* arguments) to the composer it leaves and what it returns.  The modules  *)
(* that own a composer make the calls inside their actions.                *)
(*                                                                         *)
(* Cursors and anchors count characters; the code's count bytes.  The      *)
(* comparisons it makes of them are between offsets of equal prefixes or   *)
(* on character boundaries, where the two agree, but for two places, which *)
(* count bytes here too: the length of delete_surrounding_text, and the    *)
(* duplicate guard, which gets a report as it came, from IBus in           *)
(* characters, and compares it with one recorded in bytes.                 *)
(*                                                                         *)
(* An operator Faulty_X is X with a fault that this code could have had;   *)
(* nothing uses it but the measure of what the properties can detect.      *)
(*                                                                         *)
(* The two clocks are abstracted to what the code asks of them: recent is  *)
(* "less than 150 ms since the last action", idle is "2 s or more since    *)
(* the last keystroke".                                                    *)
(***************************************************************************)
EXTENDS Engine, FiniteSetsExt

CONSTANT None   \* the absent value of an Option

Text == Seq(Char)

Tier == {"SurroundingText", "ForwardKey"}

(* A surrounding_text report: the field's text, cursor and anchor.         *)
Surrounding == {f \in [text : Text, cursor : Nat, anchor : Nat] :
                  f.cursor <= Len(f.text) /\ f.anchor <= Len(f.text)}

NoSurrounding == [text |-> <<>>, cursor |-> 0, anchor |-> 0]

(* PendingEngineEdit: the engine edit stashed behind a raw-forwarded key.  *)
PendingEdit == [backspaces : Nat, commit : Text, base_word : Text]

PendingRaw == [ch : Char, repairable : BOOLEAN, edit : PendingEdit \cup {None},
               from_frame : BOOLEAN]

(* ConfirmationState: a state name, and the raw key when there is one.     *)
Confirmation ==
  {k \in [state : {"Live", "LiveConfirmed", "FrameDerived", "AwaitingFrame", "PendingRaw"},
          raw : PendingRaw \cup {None}] :
     (k.state = "PendingRaw") <=> (k.raw # None)}

Live          == [state |-> "Live", raw |-> None]
LiveConfirmed == [state |-> "LiveConfirmed", raw |-> None]
FrameDerived  == [state |-> "FrameDerived", raw |-> None]
AwaitingFrame == [state |-> "AwaitingFrame", raw |-> None]

Pending(raw) == [state |-> "PendingRaw", raw |-> raw]

is_uncertain(k)     == k.state \notin {"Live", "LiveConfirmed"}
is_frame_derived(k) == \/ k.state = "FrameDerived"
                       \/ k.state = "PendingRaw" /\ k.raw.from_frame

(* FirefoxContenteditableQuirk.                                            *)
PendingEcho == [expected : Text, delete_echo : Text]
Firefox == [expected_echo : PendingEcho \cup {None}, delete_unit : {"Bytes", "Chars"},
            use_forward_delete : BOOLEAN, forward_sticky : BOOLEAN]

DeadStrikeLimit == 2   \* SURROUNDING_DEAD_STRIKE_LIMIT

(* IbusSurroundingQuirk, used by the IBus transport alone.                 *)
IbusQuirk == [echo_since_correction : BOOLEAN, saw_correction : BOOLEAN,
              corrections_without_echo : Nat]
NewIbusQuirk == [echo_since_correction |-> FALSE, saw_correction |-> FALSE,
                 corrections_without_echo |-> 0]

EchoLimit == 1   \* CORRECTIONS_WITHOUT_ECHO_LIMIT

Composers ==
  [engine : EngineStates, method : Tier,
   shadow : Text, selected_before : Nat, selected_after : Nat,
   prev : Surrounding,
   last_input_char : Char \cup {None},
   commit_string_functional : BOOLEAN,
   strikes : Nat,
   retroactive_context : BOOLEAN,
   firefox : Firefox,
   ibus : IbusQuirk,
   confirm_retroactive_edits : BOOLEAN,
   confirmation : Confirmation,
   recent : BOOLEAN, idle : BOOLEAN]

(* None is none of the values it stands in for.                            *)
ASSUME NoneAssumption == None \notin PendingRaw /\ None \notin Composers

(* Composer::new.  last_action_at starts a minute back, last_keystroke_at  *)
(* now; set_surrounding_confirmation is the caller's second call.          *)
NewComposer(method, confirm) ==
  [engine |-> Fresh, method |-> method,
   shadow |-> <<>>, selected_before |-> 0, selected_after |-> 0,
   prev |-> NoSurrounding,
   last_input_char |-> None,
   commit_string_functional |-> TRUE,
   strikes |-> 0,
   retroactive_context |-> FALSE,
   firefox |-> [expected_echo |-> None, delete_unit |-> "Bytes",
                use_forward_delete |-> FALSE, forward_sticky |-> FALSE],
   ibus |-> NewIbusQuirk,
   confirm_retroactive_edits |-> confirm,
   confirmation |-> Live,
   recent |-> FALSE, idle |-> FALSE]

-----------------------------------------------------------------------------
(* Pure helpers of the reseed gate.                                        *)

text_before_cursor(text, cursor) == SubSeq(text, 1, cursor)
TextAfter(text, cursor)          == SubSeq(text, cursor + 1, Len(text))

current_word(before) ==
  LET breaks == {i \in DOMAIN before : before[i] \in Boundary}
  IN  IF breaks = {} THEN before ELSE TextAfter(before, Max(breaks))

Lesser(m, n)  == IF m <= n THEN m ELSE n
Monus(m, n)   == IF m <= n THEN 0 ELSE m - n

ByteLen(text) == Len(text) + Cardinality({i \in DOMAIN text : text[i] \in Wide})

detect_one_char_insertion(p, f) ==
  /\ f.cursor = p.cursor + 1
  /\ text_before_cursor(f.text, p.cursor) = text_before_cursor(p.text, p.cursor)
  /\ TextAfter(f.text, f.cursor) = TextAfter(p.text, p.cursor)

detect_deletion(p, f) ==
  /\ f.cursor < p.cursor
  /\ text_before_cursor(f.text, f.cursor) = text_before_cursor(p.text, f.cursor)
  /\ TextAfter(f.text, f.cursor) = TextAfter(p.text, p.cursor)

(* The frame is the recorded text plus exactly ch just before the cursor.  *)
confirms_inserted_char(p, f, ch) ==
  /\ f.cursor > 0
  /\ f.text[f.cursor] = ch
  /\ p.text = text_before_cursor(f.text, f.cursor - 1) \o TextAfter(f.text, f.cursor)

(* Length of the longest common prefix of two texts.                       *)
CommonPrefix(a, b) ==
  Max({n \in 0 .. Lesser(Len(a), Len(b)) : SubSeq(a, 1, n) = SubSeq(b, 1, n)})

-----------------------------------------------------------------------------
(* The Firefox workaround.                                                 *)

Faulty_FirefoxClear(ff) == [ff EXCEPT !.expected_echo = None, !.use_forward_delete = FALSE]

FirefoxClear(ff) ==
  [ff EXCEPT !.expected_echo = None, !.delete_unit = "Bytes", !.use_forward_delete = FALSE]

FirefoxBoundary(before) == before # <<>> /\ Last(before) \in Boundary

(* observe_surrounding: the final echo heals, the delete-phase echo is     *)
(* awaited further, any other recent frame is a stale echo, and a late     *)
(* mismatch is forgotten.                                                  *)
FirefoxObserve(ff, before, recent, retro) ==
  CASE ff.expected_echo = None -> ff
    [] ff.expected_echo # None /\ before = ff.expected_echo.expected -> FirefoxClear(ff)
    [] ff.expected_echo # None /\ before # ff.expected_echo.expected ->
         IF before = ff.expected_echo.delete_echo THEN ff
         ELSE IF ~recent THEN FirefoxClear(ff)
         ELSE LET left_word == retro /\ FirefoxBoundary(before)
              IN  [ff EXCEPT !.expected_echo = None,
                             !.delete_unit = IF left_word THEN "Bytes" ELSE "Chars",
                             !.use_forward_delete = ~left_word]

-----------------------------------------------------------------------------
(* Resets and small mutators.                                              *)

ClearShadow(c) == [c EXCEPT !.shadow = <<>>, !.selected_before = 0, !.selected_after = 0]

ResetEngine(c) == [c EXCEPT !.engine = Fresh, !.retroactive_context = FALSE]

(* engine.reset() followed by a render-gated seed with a word.             *)
Reseed(c, word) == [c EXCEPT !.engine = feed_context_gated(word),
                             !.retroactive_context = SeedAccepted(word)]

(* Reseed, then derive the confirmation from whether the seed took.        *)
ReseedFromFrame(c, word) ==
  [Reseed(c, word) EXCEPT !.confirmation = IF SeedAccepted(word) THEN FrameDerived ELSE Live]

Faulty_set_method(c, m) == [c EXCEPT !.method = m]

FaultyUpgrade_set_method(c, m) ==
  [c EXCEPT !.method = m,
            !.confirmation = IF m # "SurroundingText" THEN Live ELSE @,
            !.commit_string_functional = @ \/ m = "SurroundingText"]

(* A tier change: a raw key that awaits a frame is released when no frame  *)
(* will come.                                                              *)
set_method(c, m) ==
  [c EXCEPT !.method = m,
            !.confirmation = IF m # "SurroundingText" THEN Live ELSE @]

reset_composition_preserving_surrounding(c) ==
  [ClearShadow(ResetEngine(c)) EXCEPT
     !.last_input_char = None,
     !.confirmation = AwaitingFrame,
     !.firefox = [FirefoxClear(@) EXCEPT !.forward_sticky = FALSE]]

clear_prev_surrounding(c) == [c EXCEPT !.prev = NoSurrounding]

full_reset(c) ==
  [clear_prev_surrounding(reset_composition_preserving_surrounding(c)) EXCEPT
     !.ibus = NewIbusQuirk]

mark_action(c)  == [c EXCEPT !.recent = TRUE]
defer_action(c) == [c EXCEPT !.recent = FALSE]

(* The 2-second idle policy, applied before a key is handled.              *)
check_idle_reset(c) ==
  IF ~c.idle THEN c
  ELSE IF c.method = "SurroundingText"
       THEN [c EXCEPT !.confirmation = IF @.state = "LiveConfirmed" THEN @ ELSE AwaitingFrame]
       ELSE [ClearShadow(ResetEngine(c)) EXCEPT !.last_input_char = None]

(* note_surrounding_liveness: the strike count a frame leaves ...          *)
IsDeadFrame(c, f) == f.text = <<>> /\ f.cursor = 0 /\ c.shadow # <<>>

NoteLiveness(c, f) ==
  [c EXCEPT !.strikes = IF IsDeadFrame(c, f) THEN @ + 1
                        ELSE IF f.text # <<>> THEN 0 ELSE @]

(* ... and whether it asks for the downgrade.                              *)
AsksDowngrade(c, f) == IsDeadFrame(c, f) /\ c.strikes + 1 >= DeadStrikeLimit

mark_surrounding_frame_seen(c) == [c EXCEPT !.ibus.echo_since_correction = TRUE]

(* note_surrounding_correction: a correction closes the echo window, and   *)
(* one that follows another without any frame between them is a strike.    *)
WithoutEcho(c) == c.ibus.saw_correction /\ ~c.ibus.echo_since_correction

NoteCorrection(c) ==
  [c EXCEPT !.ibus =
     [saw_correction |-> TRUE, echo_since_correction |-> FALSE,
      corrections_without_echo |->
        IF WithoutEcho(c) THEN @.corrections_without_echo + 1
        ELSE IF @.saw_correction THEN 0 ELSE @.corrections_without_echo]]

Faulty_AsksEchoDowngrade(c) ==
  WithoutEcho(c) /\ c.ibus.corrections_without_echo >= EchoLimit

AsksEchoDowngrade(c) ==
  WithoutEcho(c) /\ c.ibus.corrections_without_echo + 1 >= EchoLimit

-----------------------------------------------------------------------------
(* Keys.  A decision is what the transport must do with the key.           *)

ForwardRaw == [kind |-> "ForwardRaw", backspaces |-> 0, commit |-> <<>>]
Apply(backspaces, commit) ==
  [kind |-> "Apply", backspaces |-> backspaces, commit |-> commit]

(* plan_key_start: what the key resets and seeds before the engine runs.   *)
ContextUncertain(c) ==
  c.confirm_retroactive_edits /\ c.method = "SurroundingText" /\ is_uncertain(c.confirmation)

SeedsFromShadow(c) ==
  /\ c.confirmation.state # "PendingRaw"
  /\ at_word_beginning(c.engine)
  /\ c.last_input_char = None \/ c.last_input_char \in Alpha
  /\ current_word(c.shadow) # <<>>

StartKey(c, ch) ==
  LET c1 == IF c.confirmation.state = "PendingRaw" THEN ResetEngine(c) ELSE c
      c2 == IF ch \notin Alpha
            THEN [c1 EXCEPT !.retroactive_context = FALSE, !.firefox = FirefoxClear(@)]
            ELSE c1
  IN  IF SeedsFromShadow(c) THEN Reseed(c2, current_word(c.shadow)) ELSE c2

(* feed_key, with plan_key_finish: an uncertain context forwards the key   *)
(* raw and stashes what the engine wanted to do with it.                   *)
feed_key(c, ch) ==
  LET started == StartKey(c, ch)
      r       == VnKey(started.engine, ch)
      fed     == [started EXCEPT !.engine = r.engine, !.last_input_char = ch, !.idle = FALSE]
      stash   == [backspaces |-> r.backspaces, commit |-> r.commit,
                  base_word |-> current_word(c.shadow)]
      raw     == [ch |-> ch,
                  repairable |-> c.confirmation.state # "PendingRaw",
                  edit |-> IF r.consumed THEN stash ELSE None,
                  from_frame |-> is_frame_derived(c.confirmation)]
  IN  IF r.consumed /\ ~ContextUncertain(c)
      THEN [composer |-> [fed EXCEPT !.confirmation = Live],
            decision |-> Apply(r.backspaces, r.commit)]
      ELSE [composer |-> [fed EXCEPT
                            !.shadow = Append(@, ch),
                            !.firefox = FirefoxClear(@),
                            !.confirmation = IF ContextUncertain(c) THEN Pending(raw) ELSE Live],
            decision |-> ForwardRaw]

(* The transport commits the key as text instead of forwarding it.         *)
unrecord_forwarded_char(c) ==
  LET popped == [c EXCEPT !.shadow = DropLast(@, 1), !.confirmation = Live]
  IN  IF c.confirmation.state = "PendingRaw" /\ c.confirmation.raw.edit # None
      THEN ResetEngine(popped) ELSE popped

feed_backspace(c) ==
  LET r  == VnBackspace(c.engine)
      c1 == [c EXCEPT !.engine = r.engine, !.idle = FALSE]
      composed_glyph_deleted ==
        r.backspaces > 0 /\ c.shadow # <<>> /\ Last(c.shadow) \in Wide
      c2 == [c1 EXCEPT !.shadow = DropLast(@, 1), !.firefox = FirefoxClear(@)]
  IN  IF r.consumed
      THEN [composer |-> c1, decision |-> Apply(r.backspaces, r.commit)]
      ELSE [composer |-> IF composed_glyph_deleted THEN ResetEngine(c2) ELSE c2,
            decision |-> ForwardRaw]

-----------------------------------------------------------------------------
(* Edits.  The output of an edit is the sequence of requests the sink      *)
(* receives: BackSpace key presses, one delete_surrounding_text with its   *)
(* length in bytes and in characters, and one text.                        *)

BackspaceKey     == [op |-> "backspace"]
DeleteBefore(bytes, chars) == [op |-> "delete", bytes |-> bytes, chars |-> chars]
CommitText(text) == [op |-> "text", text |-> text]

BackspaceKeys(n) == [i \in 1 .. n |-> BackspaceKey]

(* forward_key::apply.                                                     *)
ForwardKeyApply(c, backspaces, commit) ==
  [composer |-> [c EXCEPT !.shadow = DropLast(@, backspaces) \o commit],
   output   |-> Append(BackspaceKeys(backspaces), CommitText(commit))]

(* surrounding::apply: with a selection after the cursor the delete falls  *)
(* back to BackSpace keys, the first of which clears the selection.  The   *)
(* byte length is the number of characters when the quirk asks for that.   *)
SurroundingApply(c, backspaces, commit) ==
  LET kept    == DropLast(c.shadow, backspaces + c.selected_before)
      deleted == TextAfter(c.shadow, Len(kept))
      length  == IF c.firefox.delete_unit = "Chars" THEN Len(deleted) ELSE ByteLen(deleted)
  IN  [composer |-> [c EXCEPT !.shadow = kept \o commit,
                              !.selected_before = 0, !.selected_after = 0],
       output   |-> Append(IF c.selected_after > 0
                           THEN BackspaceKeys(backspaces + 1)
                           ELSE <<DeleteBefore(length, Len(deleted))>>,
                           CommitText(commit))]

StrategyApply(c, backspaces, commit) ==
  IF c.method = "SurroundingText" THEN SurroundingApply(c, backspaces, commit)
                                  ELSE ForwardKeyApply(c, backspaces, commit)

(* A partial revert of multibyte glyphs to ASCII in retroactive context.   *)
MultibyteRevert(c, backspaces, commit) ==
  /\ c.retroactive_context
  /\ backspaces > 0
  /\ \A i \in DOMAIN commit : commit[i] \notin Wide
  /\ backspaces < Len(c.shadow)
  /\ \E i \in Len(c.shadow) - backspaces + 1 .. Len(c.shadow) : c.shadow[i] \in Wide

(* refresh_retroactive_context_after_apply.                                *)
RefreshRetroactive(c, backspaces) ==
  IF backspaces > 0 /\ c.retroactive_context THEN Reseed(c, current_word(c.shadow)) ELSE c

apply_to_sink_inner(c, backspaces, commit, preserve_engine) ==
  LET armed   == [c EXCEPT !.firefox.forward_sticky = @ \/ c.firefox.use_forward_delete]
      forward == armed.firefox.forward_sticky \/ MultibyteRevert(c, backspaces, commit)
      applied == IF forward THEN ForwardKeyApply(armed, backspaces, commit)
                            ELSE StrategyApply(armed, backspaces, commit)
      c1      == IF forward THEN applied.composer
                 ELSE [applied.composer EXCEPT !.firefox.delete_unit = "Bytes"]
      c2      == IF preserve_engine THEN c1 ELSE RefreshRetroactive(c1, backspaces)
      echo    == [expected |-> c2.shadow, delete_echo |-> DropLast(c.shadow, backspaces)]
  IN  [composer |-> IF backspaces > 0 /\ c2.method = "SurroundingText"
                    THEN [c2 EXCEPT !.firefox.expected_echo = echo] ELSE c2,
       output   |-> applied.output]

(* Composer::apply, for IBus: without the Firefox workaround.              *)
apply(c, backspaces, commit) ==
  LET applied == StrategyApply(c, backspaces, commit)
  IN  [applied EXCEPT !.composer = RefreshRetroactive(@, backspaces)]

apply_to_sink(c, backspaces, commit) == apply_to_sink_inner(c, backspaces, commit, FALSE)

apply_confirmed_repair_to_sink(c, backspaces, commit) ==
  LET applied == apply_to_sink_inner(c, backspaces, commit, TRUE)
  IN  [applied EXCEPT !.composer.firefox.expected_echo = None]

-----------------------------------------------------------------------------
(* Surrounding-text frames.                                                *)

(* One subtraction for a selection on either side of the cursor.           *)
Faulty_on_surrounding_text(c, f) ==
  [c EXCEPT !.shadow = text_before_cursor(f.text, Lesser(f.cursor, f.anchor)),
            !.selected_before = f.cursor - f.anchor]

(* shadow.observe_surrounding: the cursor and the anchor in either order.  *)
on_surrounding_text(c, f) ==
  [c EXCEPT !.shadow = text_before_cursor(f.text, Lesser(f.cursor, f.anchor)),
            !.selected_before = Monus(f.cursor, f.anchor),
            !.selected_after = Monus(f.anchor, f.cursor)]

record_surrounding(c, f) == [c EXCEPT !.prev = f]

SyncToFrame(c, f) == record_surrounding(on_surrounding_text(c, f), f)

Faulty_revalidate_live_confirmation(c, before) == c

revalidate_live_confirmation(c, before) ==
  IF c.confirmation.state = "LiveConfirmed" /\ before # c.shadow
  THEN [c EXCEPT !.confirmation = AwaitingFrame] ELSE c

(* The report in bytes, and as many characters as fit in some bytes.       *)
ByteOffset(text, n)  == ByteLen(text_before_cursor(text, n))
InBytes(f)           == [f EXCEPT !.cursor = ByteOffset(f.text, f.cursor),
                                  !.anchor = ByteOffset(f.text, f.anchor)]
CharsIn(text, bytes) == Max({n \in 0 .. Len(text) : ByteOffset(text, n) <= bytes})

(* The report is as the transport got it, with its own unit.               *)
is_duplicate_frame(c, report) == report = InBytes(c.prev)

(* The liveness watchdog, which runs before the duplicate guard.           *)
Watchdog(c, f, activate) ==
  IF activate \/ c.method # "SurroundingText" THEN c
  ELSE LET noted == NoteLiveness(c, f)
       IN  IF AsksDowngrade(c, f)
           THEN [set_method(noted, "ForwardKey") EXCEPT !.commit_string_functional = FALSE]
           ELSE noted

SkipsFrame(c, report, activate, deactivate) ==
  /\ ~activate /\ ~deactivate
  /\ c.firefox.expected_echo = None
  /\ is_duplicate_frame(c, report)

Faulty_StashFits(raw, base_word) == raw.edit # None

(* The stashed edit still describes the word that the key landed on.       *)
StashFits(raw, base_word) == raw.edit # None /\ raw.edit.base_word = base_word

Faulty_StashedRepair(edit) == [backspaces |-> edit.backspaces, commit |-> edit.commit]

(* The stashed edit, and one more character for the raw key itself.        *)
StashedRepair(edit) == [backspaces |-> edit.backspaces + 1, commit |-> edit.commit]

(* confirm_pending_raw_key, past its check that the key is before the      *)
(* cursor: the frame is recorded whatever else it shows.                   *)
ConfirmRawKey(c, f) ==
  LET raw         == c.confirmation.raw
      before      == text_before_cursor(f.text, f.cursor)
      base_word   == current_word(DropLast(before, 1))
      screen_word == Append(base_word, raw.ch)
      synced      == [SyncToFrame(c, f) EXCEPT !.last_input_char = raw.ch]
      proven      == \/ confirms_inserted_char(c.prev, f, raw.ch)
                     \/ before = c.shadow /\ f.text # c.prev.text
      replay      == VnKey(feed_context_gated(base_word), raw.ch)
      desired     == DropLast(base_word, replay.backspaces) \o replay.commit
      prefix      == CommonPrefix(screen_word, desired)
      no_repair   == [backspaces |-> 0, commit |-> <<>>]
      derived     == [synced EXCEPT !.retroactive_context = TRUE,
                                    !.confirmation = FrameDerived]
  IN  IF ~proven \/ ~raw.repairable
      THEN [composer |-> ReseedFromFrame(synced, current_word(before)),
            repair |-> no_repair]
      ELSE IF StashFits(raw, base_word)
      THEN [composer |-> derived, repair |-> StashedRepair(raw.edit)]
      ELSE IF ~SeedAccepted(base_word)
      THEN [composer |-> ReseedFromFrame(synced, screen_word), repair |-> no_repair]
      ELSE [composer |-> [derived EXCEPT !.engine = replay.engine],
            repair |-> IF ~replay.consumed THEN no_repair
                       ELSE [backspaces |-> Len(screen_word) - prefix,
                             commit |-> TextAfter(desired, prefix)]]

Faulty_FrameShowsRawKey(c, f) ==
  /\ ~c.recent
  /\ c.confirmation.state = "PendingRaw"
  /\ f.cursor = f.anchor
  /\ f.cursor > 0
  /\ f.text[f.cursor] = c.confirmation.raw.ch

(* A pending raw key, and a frame whose cursor sits right after it.        *)
FrameShowsRawKey(c, f) ==
  /\ c.confirmation.state = "PendingRaw"
  /\ f.cursor = f.anchor
  /\ f.cursor > 0
  /\ f.text[f.cursor] = c.confirmation.raw.ch

(* SurroundingObserver::observe.                                           *)
Trusts(recent, one_char, confirmed, force) == ~(recent /\ ~one_char /\ ~confirmed /\ ~force)
Reseeds(recent, one_char, deletion, force) == force \/ (~one_char /\ ~recent /\ ~deletion)

(* The trust-and-reseed gate, once no raw key is confirmed by the frame.   *)
ObserveFrame(c, f, force) ==
  LET before    == text_before_cursor(f.text, f.cursor)
      one_char  == detect_one_char_insertion(c.prev, f)
      confirmed == before = c.shadow
      deletion  == detect_deletion(c.prev, f) \/ confirmed
      ff        == FirefoxObserve(c.firefox, before, c.recent, c.retroactive_context)
      c1        == [c EXCEPT !.firefox = ff,
                             !.commit_string_functional =
                               @ /\ ~ff.use_forward_delete /\ ~ff.forward_sticky]
      had_edit  == c.confirmation.state = "PendingRaw" /\ c.confirmation.raw.edit # None
      c2        == [on_surrounding_text(c1, f) EXCEPT
                      !.confirmation =
                        IF is_frame_derived(c.confirmation) THEN FrameDerived
                        ELSE IF confirmed /\ c.confirmation.state # "PendingRaw"
                             THEN LiveConfirmed ELSE Live]
      c3        == IF had_edit THEN ResetEngine(c2) ELSE c2
      c4        == IF deletion /\ ~confirmed
                   THEN [ResetEngine(c3) EXCEPT !.confirmation = Live,
                                                !.last_input_char = None]
                   ELSE IF ~deletion /\ Reseeds(c.recent, one_char, deletion, force)
                   THEN [ReseedFromFrame(c3, current_word(
                             text_before_cursor(f.text, Lesser(f.cursor, f.anchor))))
                           EXCEPT !.last_input_char = None]
                   ELSE c3
  IN  IF Trusts(c.recent, one_char, confirmed, force) THEN record_surrounding(c4, f) ELSE c1

(* apply_surrounding.  A repair with nothing to delete and nothing to      *)
(* commit stands for the absent one.                                       *)
apply_surrounding(c, f, force) ==
  LET c1 == revalidate_live_confirmation(c, text_before_cursor(f.text, f.cursor))
  IN  IF FrameShowsRawKey(c1, f) THEN ConfirmRawKey(c1, f)
      ELSE [composer |-> ObserveFrame(c1, f, force),
            repair |-> [backspaces |-> 0, commit |-> <<>>]]

=============================================================================
