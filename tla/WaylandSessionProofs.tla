------------------------ MODULE WaylandSessionProofs ------------------------
(***************************************************************************)
(* What TLAPS proves of WaylandSession, for every engine, alphabet and     *)
(* bound.                                                                  *)
(*                                                                         *)
(* Three properties that every method of the Composer must preserve:       *)
(* PendingOnlyOnSurrounding, CharCountForwarded and CommitRatchet. The     *)
(* argument is one relation, Keeps(c, d): d is a well-formed composer that *)
(* satisfies the two invariants, and d has not regained commit_string.     *)
(* Each method of the Composer takes a sound composer to one it Keeps; the *)
(* handlers compose methods, and Keeps is transitive.                      *)
(*                                                                         *)
(* The types, and SessionHasComposer. The latter is not inductive: a frame *)
(* that deactivates the session must not find a synthetic one.             *)
(* FramesAlternate says why it does not, for all the frames that wait.     *)
(***************************************************************************)
EXTENDS WaylandSession, ComposerTypes

(* The workaround's state: only the fields that the argument reads are     *)
(* typed, the others are themselves.                                       *)
FirefoxShape(ff) ==
  ff \in [expected_echo : {ff.expected_echo}, delete_unit : {"Bytes", "Chars"},
          use_forward_delete : BOOLEAN, forward_sticky : BOOLEAN]

FirefoxSound(ff) == FirefoxShape(ff) /\ (ff.delete_unit = "Chars" => ff.use_forward_delete)

Shape(c) ==
  c \in [engine : {c.engine}, method : Tier,
         shadow : {c.shadow}, selected_before : {c.selected_before},
         selected_after : {c.selected_after}, prev : {c.prev},
         last_input_char : {c.last_input_char},
         commit_string_functional : BOOLEAN,
         strikes : {c.strikes},
         retroactive_context : {c.retroactive_context},
         firefox : {c.firefox}, ibus : {c.ibus},
         confirm_retroactive_edits : BOOLEAN,
         confirmation : {c.confirmation},
         recent : {c.recent}, idle : {c.idle}]

Sound(c) ==
  /\ Shape(c)
  /\ FirefoxSound(c.firefox)
  /\ c.confirmation.state = "PendingRaw" =>
       c.method = "SurroundingText" /\ c.confirm_retroactive_edits

Keeps(c, d) ==
  Sound(d) /\ (~c.commit_string_functional => ~d.commit_string_functional)

-----------------------------------------------------------------------------
(* The relation.                                                           *)

(* A sound composer keeps itself.                                          *)
LEMMA KeepsReflexive == ASSUME NEW c, Sound(c) PROVE Keeps(c, c)
  BY DEF Keeps

(* Methods called one after the other keep what each of them keeps.        *)
LEMMA KeepsTransitive ==
  ASSUME NEW c, NEW d, NEW e, Keeps(c, d), Keeps(d, e) PROVE Keeps(c, e)
  BY DEF Keeps

(* What is kept is sound.                                                  *)
LEMMA KeepsSound == ASSUME NEW c, NEW d, Keeps(c, d) PROVE Sound(d)
  BY DEF Keeps

-----------------------------------------------------------------------------
(* The Firefox workaround.                                                 *)

(* FirefoxContenteditableQuirk::clear and the resets that share its body.  *)
LEMMA FirefoxClearSound ==
  ASSUME NEW ff, FirefoxSound(ff) PROVE FirefoxSound(FirefoxClear(ff))
  BY DEF FirefoxSound, FirefoxShape, FirefoxClear

(* observe_surrounding arms the character count together with the bypass.  *)
LEMMA FirefoxObserveSound ==
  ASSUME NEW ff, FirefoxSound(ff), NEW before, NEW recent, NEW retro
  PROVE  FirefoxSound(FirefoxObserve(ff, before, recent, retro))
<1> DEFINE left_word == retro /\ FirefoxBoundary(before)
           stale == [ff EXCEPT !.expected_echo = None,
                               !.delete_unit = IF left_word THEN "Bytes" ELSE "Chars",
                               !.use_forward_delete = ~left_word]
<1>1. FirefoxSound(FirefoxClear(ff))
  BY FirefoxClearSound
<1>2. FirefoxSound(stale)
  BY DEF FirefoxSound, FirefoxShape
<1> QED
  BY <1>1, <1>2 DEF FirefoxObserve

-----------------------------------------------------------------------------
(* Resets and small mutators.                                              *)

(* shadow.clear() touches neither tier, confirmation nor quirk.            *)
LEMMA ClearShadowKeeps == ASSUME NEW c, Sound(c) PROVE Keeps(c, ClearShadow(c))
  BY DEF Sound, Shape, Keeps, ClearShadow

(* engine.reset() with the end of the retroactive context.                 *)
LEMMA ResetEngineKeeps == ASSUME NEW c, Sound(c) PROVE Keeps(c, ResetEngine(c))
  BY DEF Sound, Shape, Keeps, ResetEngine

(* A render-gated seed.                                                    *)
LEMMA ReseedKeeps == ASSUME NEW c, Sound(c), NEW w PROVE Keeps(c, Reseed(c, w))
  BY DEF Sound, Shape, Keeps, Reseed

(* Replacing a confirmation by one that is not PendingRaw.                 *)
LEMMA ConfirmationKeeps ==
  ASSUME NEW c, Sound(c), NEW k, k.state # "PendingRaw"
  PROVE  Keeps(c, [c EXCEPT !.confirmation = k])
  BY DEF Sound, Shape, Keeps

(* Replacing the state of the workaround by a sound one.                   *)
LEMMA FirefoxKeeps ==
  ASSUME NEW c, Sound(c), NEW ff, FirefoxSound(ff)
  PROVE  Keeps(c, [c EXCEPT !.firefox = ff])
  BY DEF Sound, Shape, Keeps

(* A seed from a frame ends every pending confirmation.                    *)
LEMMA ReseedFromFrameKeeps ==
  ASSUME NEW c, Sound(c), NEW w PROVE Keeps(c, ReseedFromFrame(c, w))
<1> DEFINE k == IF SeedAccepted(w) THEN FrameDerived ELSE Live
<1>1. Keeps(c, Reseed(c, w)) /\ Sound(Reseed(c, w))
  BY ReseedKeeps, KeepsSound
<1>2. k.state # "PendingRaw"
  BY DEF FrameDerived, Live
<1> HIDE DEF k
<1>3. Keeps(Reseed(c, w), [Reseed(c, w) EXCEPT !.confirmation = k])
  BY <1>1, <1>2, ConfirmationKeeps
<1> QED
  BY <1>1, <1>3, KeepsTransitive DEF ReseedFromFrame, k

(* A change of tier away from SurroundingText releases the raw key.        *)
LEMMA SetMethodKeeps ==
  ASSUME NEW c, Sound(c), NEW m \in Tier PROVE Keeps(c, set_method(c, m))
  BY DEF Sound, Shape, Keeps, set_method, Live

(* Resetting the composition for a forwarded action.                       *)
LEMMA ResetCompositionKeeps ==
  ASSUME NEW c, Sound(c) PROVE Keeps(c, reset_composition_preserving_surrounding(c))
<1> DEFINE d == ClearShadow(ResetEngine(c))
           ff == [FirefoxClear(d.firefox) EXCEPT !.forward_sticky = FALSE]
<1>1. Keeps(c, d) /\ Sound(d)
  BY ResetEngineKeeps, ClearShadowKeeps, KeepsSound, KeepsTransitive
<1>2. FirefoxSound(FirefoxClear(d.firefox))
  BY <1>1, FirefoxClearSound DEF Sound
<1>3. FirefoxSound(ff)
  BY <1>2 DEF FirefoxSound, FirefoxShape
<1> HIDE DEF d, ff
<1>4. Keeps(d, [d EXCEPT !.last_input_char = None, !.confirmation = AwaitingFrame,
                         !.firefox = ff])
  BY <1>1, <1>3 DEF Sound, Shape, Keeps, AwaitingFrame
<1> QED
  BY <1>1, <1>4, KeepsTransitive DEF reset_composition_preserving_surrounding, d, ff

(* full_reset.                                                             *)
LEMMA FullResetKeeps == ASSUME NEW c, Sound(c) PROVE Keeps(c, full_reset(c))
<1> DEFINE d == reset_composition_preserving_surrounding(c)
<1>1. Keeps(c, d) /\ Sound(d)
  BY ResetCompositionKeeps, KeepsSound
<1> HIDE DEF d
<1>2. Keeps(d, clear_prev_surrounding(d))
  BY <1>1 DEF Sound, Shape, Keeps, clear_prev_surrounding
<1> DEFINE e == clear_prev_surrounding(d)
<1>3. Keeps(c, e) /\ Sound(e)
  BY <1>1, <1>2, KeepsTransitive, KeepsSound
<1> HIDE DEF e
<1>4. Keeps(e, [e EXCEPT !.ibus = NewIbusQuirk])
  BY <1>3 DEF Sound, Shape, Keeps
<1> QED
  BY <1>3, <1>4, KeepsTransitive DEF full_reset, d, e

(* Forgetting the recorded frame.                                          *)
LEMMA ClearPrevKeeps == ASSUME NEW c, Sound(c) PROVE Keeps(c, clear_prev_surrounding(c))
  BY DEF Sound, Shape, Keeps, clear_prev_surrounding

(* The action clock.                                                       *)
LEMMA ClockKeeps ==
  ASSUME NEW c, Sound(c) PROVE Keeps(c, mark_action(c)) /\ Keeps(c, defer_action(c))
  BY DEF Sound, Shape, Keeps, mark_action, defer_action

(* The idle policy demotes on SurroundingText and resets on ForwardKey.    *)
LEMMA CheckIdleKeeps == ASSUME NEW c, Sound(c) PROVE Keeps(c, check_idle_reset(c))
<1> DEFINE k == IF c.confirmation.state = "LiveConfirmed" THEN c.confirmation ELSE AwaitingFrame
           d == ClearShadow(ResetEngine(c))
<1>1. k.state # "PendingRaw"
  BY DEF AwaitingFrame
<1>2. Keeps(c, d) /\ Sound(d)
  BY ResetEngineKeeps, ClearShadowKeeps, KeepsSound, KeepsTransitive
<1> HIDE DEF d
<1>3. Keeps(d, [d EXCEPT !.last_input_char = None])
  BY <1>2 DEF Sound, Shape, Keeps
<1>4. Keeps(c, [d EXCEPT !.last_input_char = None])
  BY <1>2, <1>3, KeepsTransitive
<1> HIDE DEF k
<1>5. Keeps(c, [c EXCEPT !.confirmation = k])
  BY <1>1, ConfirmationKeeps
<1> QED
  BY <1>4, <1>5, KeepsReflexive DEF check_idle_reset, d, k

(* Counting a dead frame.                                                  *)
LEMMA NoteLivenessKeeps == ASSUME NEW c, Sound(c), NEW f PROVE Keeps(c, NoteLiveness(c, f))
  BY DEF Sound, Shape, Keeps, NoteLiveness

-----------------------------------------------------------------------------
(* Keys.                                                                   *)

(* What a key resets and seeds before the engine runs.                     *)
LEMMA StartKeyKeeps ==
  ASSUME NEW c, Sound(c), NEW ch
  PROVE  /\ Keeps(c, StartKey(c, ch))
         /\ StartKey(c, ch).method = c.method
         /\ StartKey(c, ch).confirm_retroactive_edits = c.confirm_retroactive_edits
<1> DEFINE Same(d) == /\ d.method = c.method
                      /\ d.confirm_retroactive_edits = c.confirm_retroactive_edits
           c1 == IF c.confirmation.state = "PendingRaw" THEN ResetEngine(c) ELSE c
           ff == FirefoxClear(c1.firefox)
           c2 == IF ch \notin Alpha
                 THEN [c1 EXCEPT !.retroactive_context = FALSE, !.firefox = ff]
                 ELSE c1
<1>1. Keeps(c, c1) /\ Sound(c1) /\ Same(c1)
  <2>1. Keeps(c, c1) /\ Sound(c1)
    BY ResetEngineKeeps, KeepsReflexive, KeepsSound
  <2>2. Same(c1)
    BY DEF ResetEngine, Sound, Shape
  <2> QED BY <2>1, <2>2
<1>2. FirefoxSound(ff)
  BY <1>1, FirefoxClearSound DEF Sound
<1> HIDE DEF c1, ff
<1>3. Keeps(c1, c2) /\ c2.method = c1.method
        /\ c2.confirm_retroactive_edits = c1.confirm_retroactive_edits
  BY <1>1, <1>2 DEF Sound, Shape, Keeps
<1>4. Keeps(c, c2) /\ Sound(c2) /\ Same(c2)
  BY <1>1, <1>3, KeepsTransitive, KeepsSound
<1> HIDE DEF c2
<1>5. ASSUME NEW w
      PROVE  Keeps(c, Reseed(c2, w)) /\ Same(Reseed(c2, w))
  <2>1. Keeps(c2, Reseed(c2, w))
    BY <1>4, ReseedKeeps
  <2>2. Same(Reseed(c2, w))
    BY <1>4 DEF Reseed, Sound, Shape
  <2> QED BY <1>4, <2>1, <2>2, KeepsTransitive
<1>6. StartKey(c, ch) = IF SeedsFromShadow(c) THEN Reseed(c2, current_word(c.shadow)) ELSE c2
  BY DEF StartKey, c1, ff, c2
<1> QED
  BY <1>4, <1>5, <1>6

(* feed_key enters PendingRaw only in an uncertain context, which is one   *)
(* of the SurroundingText tier with confirmation on.                       *)
LEMMA FeedKeyKeeps ==
  ASSUME NEW c, Sound(c), NEW ch PROVE Keeps(c, feed_key(c, ch).composer)
<1> DEFINE d   == StartKey(c, ch)
           r   == VnKey(d.engine, ch)
           fed == [d EXCEPT !.engine = r.engine, !.last_input_char = ch, !.idle = FALSE]
           ff  == FirefoxClear(fed.firefox)
<1>1. Keeps(c, d) /\ Sound(d) /\ d.method = c.method
        /\ d.confirm_retroactive_edits = c.confirm_retroactive_edits
  BY StartKeyKeeps, KeepsSound
<1> HIDE DEF d, r
<1>2. Keeps(d, fed) /\ fed.method = d.method
        /\ fed.confirm_retroactive_edits = d.confirm_retroactive_edits
  BY <1>1 DEF Sound, Shape, Keeps
<1>3. Keeps(c, fed) /\ Sound(fed)
  BY <1>1, <1>2, KeepsTransitive, KeepsSound
<1>4. FirefoxSound(ff)
  BY <1>3, FirefoxClearSound DEF Sound
<1> HIDE DEF fed, ff
<1>5. Keeps(fed, [fed EXCEPT !.confirmation = Live])
  BY <1>3, ConfirmationKeeps DEF Live
<1>6. ASSUME NEW raw
      PROVE  Keeps(fed, [fed EXCEPT !.shadow = Append(@, ch), !.firefox = ff,
                           !.confirmation = IF ContextUncertain(c) THEN Pending(raw) ELSE Live])
  BY <1>1, <1>2, <1>3, <1>4
  DEF Sound, Shape, Keeps, ContextUncertain, Pending, Live
<1>7. \/ feed_key(c, ch).composer = [fed EXCEPT !.confirmation = Live]
      \/ \E raw : feed_key(c, ch).composer =
           [fed EXCEPT !.shadow = Append(@, ch), !.firefox = ff,
                       !.confirmation = IF ContextUncertain(c) THEN Pending(raw) ELSE Live]
  BY DEF feed_key, d, r, fed, ff
<1>8. CASE feed_key(c, ch).composer = [fed EXCEPT !.confirmation = Live]
  BY <1>3, <1>5, <1>8, KeepsTransitive
<1>9. CASE \E raw : feed_key(c, ch).composer =
             [fed EXCEPT !.shadow = Append(@, ch), !.firefox = ff,
                         !.confirmation = IF ContextUncertain(c) THEN Pending(raw) ELSE Live]
  <2>1. PICK raw : feed_key(c, ch).composer =
             [fed EXCEPT !.shadow = Append(@, ch), !.firefox = ff,
                         !.confirmation = IF ContextUncertain(c) THEN Pending(raw) ELSE Live]
    BY <1>9
  <2>2. Keeps(fed, feed_key(c, ch).composer)
    BY <1>6, <2>1
  <2> QED BY <1>3, <2>2, KeepsTransitive
<1> QED
  BY <1>7, <1>8, <1>9

(* unrecord_forwarded_char ends the confirmation of the key it takes back. *)
LEMMA UnrecordKeeps == ASSUME NEW c, Sound(c) PROVE Keeps(c, unrecord_forwarded_char(c))
<1> DEFINE d == [c EXCEPT !.shadow = DropLast(@, 1), !.confirmation = Live]
<1>1. Keeps(c, d) /\ Sound(d)
  BY DEF Sound, Shape, Keeps, Live
<1> HIDE DEF d
<1>2. Keeps(c, ResetEngine(d))
  BY <1>1, ResetEngineKeeps, KeepsTransitive
<1> QED
  BY <1>1, <1>2 DEF unrecord_forwarded_char, d

(* feed_backspace leaves tier and confirmation as they are.                *)
LEMMA FeedBackspaceKeeps ==
  ASSUME NEW c, Sound(c) PROVE Keeps(c, feed_backspace(c).composer)
<1> DEFINE r  == VnBackspace(c.engine)
           c1 == [c EXCEPT !.engine = r.engine, !.idle = FALSE]
           ff == FirefoxClear(c1.firefox)
           c2 == [c1 EXCEPT !.shadow = DropLast(@, 1), !.firefox = ff]
<1> HIDE DEF r
<1>1. Keeps(c, c1) /\ Sound(c1)
  BY DEF Sound, Shape, Keeps
<1>2. FirefoxSound(ff)
  BY <1>1, FirefoxClearSound DEF Sound
<1> HIDE DEF c1, ff
<1>3. Keeps(c1, c2)
  BY <1>1, <1>2 DEF Sound, Shape, Keeps
<1>4. Keeps(c, c2) /\ Sound(c2)
  BY <1>1, <1>3, KeepsTransitive, KeepsSound
<1> HIDE DEF c2
<1>5. Keeps(c, ResetEngine(c2))
  BY <1>4, ResetEngineKeeps, KeepsTransitive
<1>6. feed_backspace(c).composer \in {c1, c2, ResetEngine(c2)}
  BY DEF feed_backspace, r, c1, ff, c2
<1> QED
  BY <1>1, <1>4, <1>5, <1>6

-----------------------------------------------------------------------------
(* Edits.                                                                  *)

(* Both tiers change the shadow and its selection only.                    *)
LEMMA TierApplyKeeps ==
  ASSUME NEW c, Sound(c), NEW n, NEW text
  PROVE  /\ Keeps(c, ForwardKeyApply(c, n, text).composer)
         /\ Keeps(c, StrategyApply(c, n, text).composer)
<1>1. Keeps(c, ForwardKeyApply(c, n, text).composer)
  BY DEF Sound, Shape, Keeps, ForwardKeyApply
<1>2. Keeps(c, SurroundingApply(c, n, text).composer)
  BY DEF Sound, Shape, Keeps, SurroundingApply
<1> QED
  BY <1>1, <1>2 DEF StrategyApply

(* apply_to_sink_inner.                                                    *)
LEMMA ApplyInnerKeeps ==
  ASSUME NEW c, Sound(c), NEW n, NEW text, NEW preserve
  PROVE  Keeps(c, apply_to_sink_inner(c, n, text, preserve).composer)
<1> DEFINE armed   == [c EXCEPT !.firefox.forward_sticky = @ \/ c.firefox.use_forward_delete]
           forward == armed.firefox.forward_sticky \/ MultibyteRevert(c, n, text)
           applied == IF forward THEN ForwardKeyApply(armed, n, text)
                                 ELSE StrategyApply(armed, n, text)
           a       == applied.composer
           c1      == IF forward THEN a ELSE [a EXCEPT !.firefox.delete_unit = "Bytes"]
           c2      == IF preserve THEN c1 ELSE RefreshRetroactive(c1, n)
<1>1. Keeps(c, armed) /\ Sound(armed)
  BY DEF Sound, Shape, FirefoxSound, FirefoxShape, Keeps
<1> HIDE DEF armed, forward
<1>2. Keeps(c, a) /\ Sound(a)
  <2>1. Keeps(armed, a)
    BY <1>1, TierApplyKeeps
  <2> QED BY <1>1, <2>1, KeepsTransitive, KeepsSound
<1> HIDE DEF applied, a
<1>3. Keeps(a, [a EXCEPT !.firefox.delete_unit = "Bytes"])
  BY <1>2 DEF Sound, Shape, FirefoxSound, FirefoxShape, Keeps
<1>4. Keeps(c, c1) /\ Sound(c1)
  <2>1. Keeps(c, [a EXCEPT !.firefox.delete_unit = "Bytes"])
    BY <1>2, <1>3, KeepsTransitive
  <2>2. Keeps(c, c1)
    BY <1>2, <2>1
  <2> QED BY <2>2, KeepsSound
<1> HIDE DEF c1
<1>5. Keeps(c, c2) /\ Sound(c2)
  <2>1. Keeps(c1, RefreshRetroactive(c1, n))
    BY <1>4, ReseedKeeps, KeepsReflexive DEF RefreshRetroactive
  <2>2. Keeps(c, c2)
    BY <1>4, <2>1, KeepsTransitive
  <2> QED BY <2>2, KeepsSound
<1> HIDE DEF c2
<1>6. ASSUME NEW echo PROVE Keeps(c2, [c2 EXCEPT !.firefox.expected_echo = echo])
  BY <1>5 DEF Sound, Shape, FirefoxSound, FirefoxShape, Keeps
<1>7. ASSUME NEW echo PROVE Keeps(c, [c2 EXCEPT !.firefox.expected_echo = echo])
  BY <1>5, <1>6, KeepsTransitive
<1> DEFINE echo == [expected |-> c2.shadow, delete_echo |-> DropLast(c.shadow, n)]
<1>8. apply_to_sink_inner(c, n, text, preserve).composer =
        IF n > 0 /\ c2.method = "SurroundingText"
        THEN [c2 EXCEPT !.firefox.expected_echo = echo] ELSE c2
  BY DEF apply_to_sink_inner, armed, forward, applied, a, c1, c2
<1> HIDE DEF echo
<1> QED
  BY <1>5, <1>7, <1>8

(* The two entry points of an edit.                                        *)
LEMMA ApplyKeeps ==
  ASSUME NEW c, Sound(c), NEW n, NEW text
  PROVE  /\ Keeps(c, apply_to_sink(c, n, text).composer)
         /\ Keeps(c, apply_confirmed_repair_to_sink(c, n, text).composer)
<1>1. Keeps(c, apply_to_sink(c, n, text).composer)
  BY ApplyInnerKeeps DEF apply_to_sink
<1> DEFINE a == apply_to_sink_inner(c, n, text, TRUE)
           d == a.composer
<1>2. Keeps(c, d) /\ Sound(d)
  BY ApplyInnerKeeps, KeepsSound
<1>3. apply_confirmed_repair_to_sink(c, n, text).composer =
        [d EXCEPT !.firefox.expected_echo = None]
  BY DEF apply_confirmed_repair_to_sink, apply_to_sink_inner
<1> HIDE DEF d
<1>4. Keeps(d, [d EXCEPT !.firefox.expected_echo = None])
  BY <1>2 DEF Sound, Shape, FirefoxSound, FirefoxShape, Keeps
<1> QED
  BY <1>1, <1>2, <1>3, <1>4, KeepsTransitive

-----------------------------------------------------------------------------
(* Surrounding-text frames.                                                *)

(* Observing and recording a frame.                                        *)
LEMMA SyncKeeps ==
  ASSUME NEW c, Sound(c), NEW f
  PROVE  /\ Keeps(c, on_surrounding_text(c, f))
         /\ Keeps(c, record_surrounding(c, f))
         /\ Keeps(c, SyncToFrame(c, f))
<1>1. ASSUME NEW d, Sound(d) PROVE Keeps(d, on_surrounding_text(d, f))
  BY <1>1 DEF Sound, Shape, Keeps, on_surrounding_text
<1>2. ASSUME NEW d, Sound(d) PROVE Keeps(d, record_surrounding(d, f))
  BY <1>2 DEF Sound, Shape, Keeps, record_surrounding
<1>3. Sound(on_surrounding_text(c, f))
  BY <1>1, KeepsSound
<1> QED
  BY <1>1, <1>2, <1>3, KeepsTransitive DEF SyncToFrame

(* Revoking a stale proof of the shadow.                                   *)
LEMMA RevalidateKeeps ==
  ASSUME NEW c, Sound(c), NEW before PROVE Keeps(c, revalidate_live_confirmation(c, before))
<1>1. Keeps(c, [c EXCEPT !.confirmation = AwaitingFrame])
  BY ConfirmationKeeps DEF AwaitingFrame
<1> QED
  BY <1>1, KeepsReflexive DEF revalidate_live_confirmation

(* confirm_pending_raw_key always ends the pending confirmation.           *)
LEMMA ConfirmRawKeyKeeps ==
  ASSUME NEW c, Sound(c), NEW f PROVE Keeps(c, ConfirmRawKey(c, f).composer)
<1> DEFINE raw     == c.confirmation.raw
           d       == SyncToFrame(c, f)
           synced  == [d EXCEPT !.last_input_char = raw.ch]
           derived == [synced EXCEPT !.retroactive_context = TRUE,
                                     !.confirmation = FrameDerived]
<1>1. Keeps(c, d) /\ Sound(d)
  BY SyncKeeps, KeepsSound
<1> HIDE DEF d
<1>2. Keeps(c, synced) /\ Sound(synced)
  BY <1>1 DEF Sound, Shape, Keeps
<1> HIDE DEF synced
<1>3. ASSUME NEW w PROVE Keeps(c, ReseedFromFrame(synced, w))
  BY <1>2, ReseedFromFrameKeeps, KeepsTransitive
<1>4. Keeps(c, derived) /\ Sound(derived)
  BY <1>2 DEF Sound, Shape, Keeps, FrameDerived
<1> HIDE DEF derived
<1>5. ASSUME NEW e PROVE Keeps(c, [derived EXCEPT !.engine = e])
  BY <1>4 DEF Sound, Shape, Keeps
<1>6. \/ \E w : ConfirmRawKey(c, f).composer = ReseedFromFrame(synced, w)
      \/ ConfirmRawKey(c, f).composer = derived
      \/ \E e : ConfirmRawKey(c, f).composer = [derived EXCEPT !.engine = e]
  BY DEF ConfirmRawKey, d, synced, derived
<1> QED
  BY <1>3, <1>4, <1>5, <1>6

(* The trust-and-reseed gate leaves Live, LiveConfirmed or FrameDerived.   *)
LEMMA ObserveFrameKeeps ==
  ASSUME NEW c, Sound(c), NEW f, NEW force PROVE Keeps(c, ObserveFrame(c, f, force))
<1> DEFINE before == text_before_cursor(f.text, f.cursor)
           confirmed == before = c.shadow
           ff == FirefoxObserve(c.firefox, before, c.recent, c.retroactive_context)
           c1 == [c EXCEPT !.firefox = ff,
                           !.commit_string_functional =
                             @ /\ ~ff.use_forward_delete /\ ~ff.forward_sticky]
           k  == IF is_frame_derived(c.confirmation) THEN FrameDerived
                 ELSE IF confirmed /\ c.confirmation.state # "PendingRaw"
                      THEN LiveConfirmed ELSE Live
           s1 == on_surrounding_text(c1, f)
           c2 == [s1 EXCEPT !.confirmation = k]
<1>1. FirefoxSound(ff)
  BY FirefoxObserveSound DEF Sound
<1> HIDE DEF ff
<1>2. Keeps(c, c1) /\ Sound(c1)
  BY <1>1 DEF Sound, Shape, Keeps, FirefoxSound, FirefoxShape
<1> HIDE DEF c1
<1>3. Keeps(c, s1) /\ Sound(s1)
  BY <1>2, SyncKeeps, KeepsTransitive, KeepsSound
<1> HIDE DEF s1
<1>4. k.state # "PendingRaw"
  BY DEF FrameDerived, LiveConfirmed, Live
<1> HIDE DEF k
<1>5. Keeps(c, c2) /\ Sound(c2)
  BY <1>3, <1>4, ConfirmationKeeps, KeepsTransitive, KeepsSound
<1> HIDE DEF c2
<1> DEFINE had_edit == c.confirmation.state = "PendingRaw" /\ c.confirmation.raw.edit # None
           c3 == IF had_edit THEN ResetEngine(c2) ELSE c2
<1>6. Keeps(c, c3) /\ Sound(c3)
  BY <1>5, ResetEngineKeeps, KeepsTransitive, KeepsSound
<1> HIDE DEF had_edit, c3
<1>7. Keeps(c, [ResetEngine(c3) EXCEPT !.confirmation = Live, !.last_input_char = None])
  <2> DEFINE e == ResetEngine(c3)
  <2>1. Keeps(c, e) /\ Sound(e)
    BY <1>6, ResetEngineKeeps, KeepsTransitive, KeepsSound
  <2> HIDE DEF e
  <2>2. Keeps(c, [e EXCEPT !.confirmation = Live, !.last_input_char = None])
    BY <2>1 DEF Sound, Shape, Keeps, Live
  <2> QED BY <2>2 DEF e
<1>8. ASSUME NEW w
      PROVE  Keeps(c, [ReseedFromFrame(c3, w) EXCEPT !.last_input_char = None])
  <2> DEFINE e == ReseedFromFrame(c3, w)
  <2>1. Keeps(c, e) /\ Sound(e)
    BY <1>6, ReseedFromFrameKeeps, KeepsTransitive, KeepsSound
  <2> HIDE DEF e
  <2>2. Keeps(c, [e EXCEPT !.last_input_char = None])
    BY <2>1 DEF Sound, Shape, Keeps
  <2> QED BY <2>2 DEF e
<1> DEFINE deletion == detect_deletion(c.prev, f) \/ confirmed
           one_char == detect_one_char_insertion(c.prev, f)
           word     == current_word(text_before_cursor(f.text, Lesser(f.cursor, f.anchor)))
           c4 == IF deletion /\ ~confirmed
                 THEN [ResetEngine(c3) EXCEPT !.confirmation = Live, !.last_input_char = None]
                 ELSE IF ~deletion /\ Reseeds(c.recent, one_char, deletion, force)
                 THEN [ReseedFromFrame(c3, word) EXCEPT !.last_input_char = None]
                 ELSE c3
<1> HIDE DEF deletion, one_char, word, confirmed
<1>9. Keeps(c, c4) /\ Sound(c4)
  <2>1. Keeps(c, c4)
    BY <1>6, <1>7, <1>8
  <2> QED BY <2>1, KeepsSound
<1> HIDE DEF c4
<1>10. Keeps(c, record_surrounding(c4, f))
  BY <1>9, SyncKeeps, KeepsTransitive
<1>11. ObserveFrame(c, f, force) =
         IF Trusts(c.recent, one_char, confirmed, force) THEN record_surrounding(c4, f) ELSE c1
  BY DEF ObserveFrame, c4, c3, had_edit, c2, k, s1, c1, ff, deletion, one_char, word, confirmed
<1> QED
  BY <1>2, <1>10, <1>11

(* apply_surrounding.                                                      *)
LEMMA ApplySurroundingKeeps ==
  ASSUME NEW c, Sound(c), NEW f, NEW force
  PROVE  Keeps(c, apply_surrounding(c, f, force).composer)
<1> DEFINE d == revalidate_live_confirmation(c, text_before_cursor(f.text, f.cursor))
<1>1. Keeps(c, d) /\ Sound(d)
  BY RevalidateKeeps, KeepsSound
<1> HIDE DEF d
<1>2. Keeps(c, ConfirmRawKey(d, f).composer) /\ Keeps(c, ObserveFrame(d, f, force))
  BY <1>1, ConfirmRawKeyKeeps, ObserveFrameKeeps, KeepsTransitive
<1>3. apply_surrounding(c, f, force).composer =
        IF FrameShowsRawKey(d, f) THEN ConfirmRawKey(d, f).composer
                                  ELSE ObserveFrame(d, f, force)
  BY DEF apply_surrounding, d
<1> QED
  BY <1>2, <1>3

-----------------------------------------------------------------------------
(* The session: frames.                                                    *)

(* Every constructor call makes a sound composer.                          *)
LEMMA NewComposerSound ==
  ASSUME NEW m \in Tier, NEW b \in BOOLEAN PROVE Sound(NewComposer(m, b))
  BY DEF Sound, Shape, FirefoxSound, FirefoxShape, NewComposer, Live

(* The watchdog's downgrade, and the late upgrade.                         *)
LEMMA TierChangesKeep ==
  ASSUME NEW c, Sound(c), NEW f, NEW activate
  PROVE  Keeps(c, Watchdog(c, f, activate)) /\ Keeps(c, LateUpgrade(c, activate))
<1> DEFINE noted == NoteLiveness(c, f)
           down  == set_method(noted, "ForwardKey")
<1>1. Keeps(c, noted) /\ Sound(noted)
  BY NoteLivenessKeeps, KeepsSound
<1> HIDE DEF noted
<1>2. Keeps(c, down) /\ Sound(down)
  BY <1>1, SetMethodKeeps, KeepsTransitive, KeepsSound DEF Tier
<1> HIDE DEF down
<1>3. Keeps(c, [down EXCEPT !.commit_string_functional = FALSE])
  BY <1>2 DEF Sound, Shape, Keeps
<1>4. Keeps(c, Watchdog(c, f, activate))
  BY <1>1, <1>3, KeepsReflexive DEF Watchdog, noted, down
<1>5. Keeps(c, LateUpgrade(c, activate))
  BY SetMethodKeeps, KeepsReflexive DEF LateUpgrade, Tier
<1> QED
  BY <1>4, <1>5

(* on_done_frame on a surrounding text.                                    *)
LEMMA OnSurroundingKeeps ==
  ASSUME NEW c, Sound(c), NEW f, NEW activate, NEW deactivate
  PROVE  Keeps(c, OnSurrounding(c, f, activate, deactivate).composer)
<1> DEFINE w == Watchdog(c, f, activate)
           watched == revalidate_live_confirmation(w, text_before_cursor(f.text, f.cursor))
           u == LateUpgrade(watched, activate)
           observed == apply_surrounding(u, f, activate)
           o == observed.composer
           r == observed.repair
<1>1. Keeps(c, w) /\ Sound(w)
  BY TierChangesKeep, KeepsSound
<1> HIDE DEF w
<1>2. Keeps(c, watched) /\ Sound(watched)
  BY <1>1, RevalidateKeeps, KeepsTransitive, KeepsSound
<1> HIDE DEF watched
<1>3. Keeps(c, u) /\ Sound(u)
  BY <1>2, TierChangesKeep, KeepsTransitive, KeepsSound
<1> HIDE DEF u
<1>4. Keeps(c, o) /\ Sound(o)
  BY <1>3, ApplySurroundingKeeps, KeepsTransitive, KeepsSound
<1> HIDE DEF observed, o, r
<1>5. Keeps(c, apply_confirmed_repair_to_sink(o, r.backspaces, r.commit).composer)
  BY <1>4, ApplyKeeps, KeepsTransitive
<1>6. OnSurrounding(c, f, activate, deactivate).composer =
        IF SkipsFrame(watched, InBytes(f), activate, deactivate) THEN watched
        ELSE IF r.backspaces = 0 /\ r.commit = <<>> THEN o
        ELSE apply_confirmed_repair_to_sink(o, r.backspaces, r.commit).composer
  BY DEF OnSurrounding, w, watched, u, observed, o, r
<1> QED
  BY <1>2, <1>4, <1>5, <1>6

(* The inductive invariant: the composer, while there is one, is sound.    *)
ComposerSound == composer # None => Sound(composer)

(* What a step may do to the composer: end it, keep it, or replace it, by  *)
(* an activation or by one that does not use commit_string.                *)
ComposerStep ==
  /\ composer' # None => Sound(composer')
  /\ composer # None /\ composer' # None =>
       \/ Keeps(composer, composer')
       \/ ~composer'.commit_string_functional
       \/ frames # <<>> /\ Head(frames).activate

(* A method change in the configuration resets the composer.               *)
LEMMA SyncConfigKeeps ==
  ASSUME ComposerSound, composer # None PROVE Keeps(composer, SyncConfig(composer))
  BY FullResetKeeps, KeepsReflexive DEF SyncConfig, ComposerSound

(* Dispatching a done frame.                                               *)
LEMMA DispatchStep == ASSUME ComposerSound, Dispatch PROVE ComposerStep
<1> DEFINE frame == Head(frames)
           drops == frame.activate /\ synthetic_active
           was_active == current_active /\ ~drops
           activate   == frame.activate /\ ~was_active
           deactivate == frame.deactivate /\ was_active
           f == frame.surrounding
           new == NewComposer(IF f # None THEN "SurroundingText" ELSE "ForwardKey", TRUE)
           c == IF activate THEN new
                ELSE IF deactivate \/ drops THEN None ELSE SyncConfig(composer)
           d == OnSurrounding(c, f, activate, deactivate).composer
<1>1. Sound(new)
  BY NewComposerSound DEF Tier
<1> HIDE DEF new
<1>2. SyncConfig(composer) # None => composer # None
  BY DEF SyncConfig
<1>3. c # None => Sound(c)
  <2>1. composer # None => Sound(SyncConfig(composer))
    BY SyncConfigKeeps, KeepsSound
  <2> QED BY <1>1, <1>2, <2>1
<1>4. c # None /\ ~activate => Keeps(composer, c)
  BY <1>2, SyncConfigKeeps
<1>5. activate => frame.activate
  OBVIOUS
<1> HIDE DEF activate, deactivate, c, f
<1>6. c # None => Keeps(c, d) /\ Keeps(c, clear_prev_surrounding(c)) /\ Keeps(c, c)
  BY <1>3, OnSurroundingKeeps, ClearPrevKeeps, KeepsReflexive
<1> HIDE DEF d
<1>7. composer' = IF c = None THEN None
                  ELSE IF f # None THEN d
                  ELSE IF activate \/ deactivate THEN c ELSE clear_prev_surrounding(c)
  BY DEF Dispatch, OnDoneFrame, activate, deactivate, c, f, d, new
<1>8. composer' # None => c # None /\ Keeps(c, composer')
  BY <1>6, <1>7
<1>9. frames # <<>>
  BY DEF Dispatch
<1> QED
  BY <1>4, <1>5, <1>8, <1>9, KeepsTransitive, KeepsSound DEF ComposerStep

-----------------------------------------------------------------------------
(* The session: keys.                                                      *)

(* What every key does first.                                              *)
LEMMA BeforeKeyKeeps ==
  ASSUME ComposerSound, BeforeKey # None
  PROVE  composer # None /\ Keeps(composer, BeforeKey) /\ Sound(BeforeKey)
<1> DEFINE c1 == SyncConfig(composer)
           c2 == IF c1 = None THEN None ELSE check_idle_reset(c1)
<1>1. BeforeKey = IF c2 # None /\ last_enabled /\ ~enabled THEN full_reset(c2) ELSE c2
  BY DEF BeforeKey
<1>2. composer = None => c1 = None
  BY DEF SyncConfig
<1>3. CASE composer = None
  BY <1>1, <1>2, <1>3
<1>4. CASE composer # None
  <2>1. Keeps(composer, c1) /\ Sound(c1)
    BY <1>4, SyncConfigKeeps, KeepsSound
  <2> HIDE DEF c1
  <2>2. Keeps(composer, c2) /\ Sound(c2)
    BY <2>1, CheckIdleKeeps, KeepsTransitive, KeepsSound
  <2> HIDE DEF c2
  <2>3. Keeps(composer, full_reset(c2))
    BY <2>2, FullResetKeeps, KeepsTransitive
  <2> QED BY <1>1, <1>4, <2>2, <2>3, KeepsSound
<1> QED
  BY <1>3, <1>4

(* Acting on a decision.                                                   *)
LEMMA DispatchedKeeps ==
  ASSUME NEW c, Sound(c), NEW decision, NEW key
  PROVE  Keeps(c, Dispatched(c, decision, key).composer)
<1>1. Keeps(c, apply_to_sink(c, decision.backspaces, decision.commit).composer)
  BY ApplyKeeps
<1> QED
  BY <1>1, KeepsReflexive DEF Dispatched

(* A printable key.                                                        *)
LEMMA ComposeKeeps ==
  ASSUME NEW c, Sound(c), NEW ch, NEW shifted
  PROVE  Keeps(c, Compose(c, ch, shifted).composer)
<1> DEFINE m   == mark_action(c)
           fed == feed_key(m, ch)
           d   == fed.composer
           u   == unrecord_forwarded_char(d)
<1>1. Keeps(c, m) /\ Sound(m)
  BY ClockKeeps, KeepsSound
<1> HIDE DEF m
<1>2. Keeps(c, d) /\ Sound(d)
  BY <1>1, FeedKeyKeeps, KeepsTransitive, KeepsSound
<1> HIDE DEF fed, d
<1>3. Keeps(c, u) /\ Sound(u)
  BY <1>2, UnrecordKeeps, KeepsTransitive, KeepsSound
<1> HIDE DEF u
<1>4. ASSUME NEW decision, NEW key
      PROVE  /\ Keeps(c, Dispatched(d, decision, key).composer)
             /\ Keeps(c, Dispatched(u, decision, key).composer)
  BY <1>2, <1>3, DispatchedKeeps, KeepsTransitive
<1> QED
  BY <1>4 DEF Compose, m, fed, d, u

(* Every key press.                                                        *)
LEMMA KeyStep ==
  ASSUME ComposerSound,
         \/ \E ch \in Typed : TypeKey(ch)
         \/ PressBackspace \/ PressNav \/ PressOther
  PROVE  ComposerStep
<1> DEFINE c == BeforeKey
<1> SUFFICES composer' # None => c # None /\ Keeps(c, composer')
  <2>1. c # None => composer # None /\ Keeps(composer, c)
    BY BeforeKeyKeeps
  <2> QED BY <2>1, KeepsTransitive, KeepsSound DEF ComposerStep
<1>1. c # None => Sound(c)
  BY BeforeKeyKeeps
<1> HIDE DEF c
<1>2. ASSUME NEW ch \in Typed, TypeKey(ch)
      PROVE  composer' # None => c # None /\ Keeps(c, composer')
  <2>1. PICK shifted \in {FALSE, LevelShift} :
          composer' = (IF ~enabled \/ c = None
                       THEN [composer |-> c, output |-> <<[op |-> "key", ch |-> ch]>>]
                       ELSE Compose(c, ch, shifted)).composer
    BY <1>2 DEF TypeKey, c
  <2>2. c # None => Keeps(c, c) /\ Keeps(c, Compose(c, ch, shifted).composer)
    BY <1>1, ComposeKeeps, KeepsReflexive
  <2> QED BY <2>1, <2>2
<1>3. ASSUME PressBackspace
      PROVE  composer' # None => c # None /\ Keeps(c, composer')
  <2> DEFINE fed == feed_backspace(c)
             d   == Dispatched(fed.composer, fed.decision, BackspaceKey).composer
  <2>1. composer' = IF ~enabled \/ c = None THEN c ELSE d
    BY <1>3 DEF PressBackspace, c
  <2>2. c # None => Keeps(c, fed.composer) /\ Sound(fed.composer)
    BY <1>1, FeedBackspaceKeeps, KeepsSound
  <2>3. c # None => Keeps(fed.composer, d)
    BY <2>2, DispatchedKeeps
  <2> HIDE DEF d
  <2> QED BY <1>1, <2>1, <2>2, <2>3, KeepsTransitive, KeepsReflexive
<1>4. ASSUME PressNav
      PROVE  composer' # None => c # None /\ Keeps(c, composer')
  <2> DEFINE d == reset_composition_preserving_surrounding(c)
  <2>1. composer' = IF ~enabled \/ c = None THEN c ELSE defer_action(d)
    BY <1>4 DEF PressNav, c
  <2>2. c # None => Keeps(c, d) /\ Sound(d)
    BY <1>1, ResetCompositionKeeps, KeepsSound
  <2> HIDE DEF d
  <2> QED BY <1>1, <2>1, <2>2, ClockKeeps, KeepsTransitive, KeepsReflexive
<1>5. ASSUME PressOther
      PROVE  composer' # None => c # None /\ Keeps(c, composer')
  <2>1. composer' = IF ~enabled \/ c = None THEN c ELSE mark_action(c)
    BY <1>5 DEF PressOther, c
  <2> QED BY <1>1, <2>1, ClockKeeps, KeepsReflexive
<1> QED
  BY <1>2, <1>3, <1>4, <1>5

-----------------------------------------------------------------------------
(* The theorems.                                                           *)

(* Every step of the session keeps the composer sound.                     *)
LEMMA NextStep == ASSUME ComposerSound, [Next]_vars PROVE ComposerStep
<1>1. CASE Dispatch
  BY <1>1, DispatchStep
<1>2. CASE \/ \E ch \in Typed : TypeKey(ch)
           \/ PressBackspace \/ PressNav \/ PressOther
  BY <1>2, KeyStep
<1>3. CASE ToplevelFocus
  <2> DEFINE new == NewComposer("ForwardKey", FALSE)
             d   == [new EXCEPT !.commit_string_functional = FALSE]
  <2>1. Sound(new)
    BY NewComposerSound DEF Tier
  <2> HIDE DEF new
  <2>2. Sound(d) /\ ~d.commit_string_functional
    BY <2>1 DEF Sound, Shape
  <2>3. composer' = d \/ composer' = None
    BY <1>3 DEF ToplevelFocus, new
  <2> QED BY <2>2, <2>3 DEF ComposerStep
<1>4. CASE WindowCloses \/ Idle
  <2>1. composer # None /\ Sound(composer)
    BY <1>4 DEF WindowCloses, Idle, ComposerSound
  <2>2. Keeps(composer, composer')
    BY <1>4, <2>1 DEF WindowCloses, Idle, Sound, Shape, Keeps
  <2> QED BY <2>1, <2>2, KeepsSound DEF ComposerStep
<1>5. CASE UNCHANGED composer
  BY <1>5, KeepsReflexive DEF ComposerSound, ComposerStep
<1>6. CASE \/ ClientTakes \/ ClientReports \/ Click \/ Complete \/ Erase
           \/ Toggle \/ ChangeMethod \/ Refocus
  BY <1>5, <1>6 DEF ClientTakes, ClientReports, Click, Complete, Erase, Toggle, ChangeMethod,
                    Refocus, router
<1>7. CASE UNCHANGED vars
  BY <1>5, <1>7 DEF vars
<1> QED
  BY <1>1, <1>2, <1>3, <1>4, <1>6, <1>7 DEF Next

(* The inductive invariant holds.                                          *)
LEMMA ComposerAlwaysSound == Spec => []ComposerSound
<1>1. Init => ComposerSound
  BY DEF Init, ComposerSound
<1>2. ComposerSound /\ [Next]_vars => ComposerSound'
  BY NextStep DEF ComposerStep, ComposerSound
<1> QED
  BY <1>1, <1>2, PTL DEF Spec

(* For every engine, alphabet and bound: a raw key awaits its frame only   *)
(* on the SurroundingText tier of a session that confirms retroactive      *)
(* edits, whatever the order of keys, frames, tier changes and resets.     *)
THEOREM PendingOnlyOnSurroundingTheorem == Spec => []PendingOnlyOnSurrounding
<1>1. ComposerSound => PendingOnlyOnSurrounding
  BY DEF ComposerSound, Sound, PendingOnlyOnSurrounding
<1> QED
  BY <1>1, ComposerAlwaysSound, PTL

(* For every engine, alphabet and bound: delete_surrounding_text never     *)
(* carries a character count.                                              *)
THEOREM CharCountForwardedTheorem == Spec => []CharCountForwarded
<1>1. ComposerSound => CharCountForwarded
  BY DEF ComposerSound, Sound, FirefoxSound, CharCountForwarded
<1> QED
  BY <1>1, ComposerAlwaysSound, PTL

(* For every engine, alphabet and bound: no step but an activation makes   *)
(* a session use commit_string again once it has given it up.              *)
THEOREM CommitRatchetTheorem == Spec => CommitRatchet
<1> DEFINE Ratchet == composer # None /\ composer' # None /\ ~composer.commit_string_functional =>
                        \/ ~composer'.commit_string_functional
                        \/ frames # <<>> /\ Head(frames).activate
<1>1. ComposerSound /\ [Next]_vars => Ratchet
  BY NextStep DEF ComposerStep, Keeps
<1>2. ComposerSound /\ [Next]_vars => [Ratchet]_vars
  BY <1>1
<1> QED
  BY <1>2, ComposerAlwaysSound, PTL DEF Spec, CommitRatchet

-----------------------------------------------------------------------------
(* The order of the frames that wait.                                      *)

(* A session of the application, not a synthetic one.                      *)
Real == current_active /\ ~synthetic_active

(* Once the frames before the i-th are dispatched, the session is real.    *)
Activated(i) ==
  \/ \E j \in 1 .. (i - 1) : /\ frames[j].activate
                             /\ \A k \in (j + 1) .. (i - 1) : ~frames[k].deactivate
  \/ Real /\ \A k \in 1 .. (i - 1) : ~frames[k].deactivate

(* The compositor ends only sessions it has begun: a deactivate finds the  *)
(* real session, never a synthetic one or none.                            *)
FramesAlternate ==
  /\ \A i \in DOMAIN frames : frames[i].deactivate => ~frames[i].activate /\ Activated(i)
  /\ Activated(Len(frames) + 1)

(* What the dispatch of a frame makes of the session.                      *)
Turns(frame) ==
  /\ frame.activate /\ ~frame.deactivate => Real'
  /\ ~frame.activate /\ ~frame.deactivate => (Real' <=> Real)

(* The oldest frame is dispatched.                                         *)
LEMMA AlternateTail ==
  ASSUME frames \in Seq(Frame), frames # <<>>, FramesAlternate, Turns(Head(frames)),
         frames' = Tail(frames)
  PROVE  FramesAlternate'
<1>0. PICK n \in Nat : n = Len(frames)
  OBVIOUS
<1>1. n \in Nat /\ DOMAIN frames = 1 .. n /\ Head(frames) = frames[1] /\ 1 \in 1 .. n
  BY <1>0
<1>2. /\ DOMAIN frames' = 1 .. (n - 1) /\ Len(frames') + 1 = n
      /\ \A i \in 1 .. (n - 1) : frames'[i] = frames[i + 1]
  <2>1. frames' \in Seq(Frame) /\ Len(frames') = n - 1
        /\ \A i \in 1 .. Len(frames') : frames'[i] = frames[i + 1]
    BY <1>0, TailFacts
  <2> QED BY <1>1, <2>1
<1>3. \A i \in 1 .. n : frames[i].deactivate => ~frames[i].activate /\ Activated(i)
  BY <1>1 DEF FramesAlternate
<1>4. Activated(n + 1)
  BY <1>0 DEF FramesAlternate
<1>5. ASSUME NEW i \in 1 .. n, Activated(i + 1) PROVE Activated(i)'
  <2>1. \A k \in 1 .. (i - 1) : k \in 1 .. (n - 1) /\ k + 1 \in 1 .. i
    BY <1>1, <1>5
  <2>2. (i + 1) - 1 = i
    BY <1>1, <1>5
  <2>3. ASSUME NEW j \in 1 .. i, frames[j].activate,
               \A k \in (j + 1) .. i : ~frames[k].deactivate
        PROVE  Activated(i)'
    <3>1. CASE j = 1
      <4>1. Real'
        BY <1>1, <1>3, <2>3, <3>1 DEF Turns
      <4>2. ASSUME NEW k \in 1 .. (i - 1) PROVE ~frames'[k].deactivate
        <5>1. k + 1 \in (j + 1) .. i
          BY <1>1, <1>5, <3>1
        <5> QED BY <1>2, <2>1, <2>3, <5>1
      <4> QED BY <4>1, <4>2 DEF Activated
    <3>2. CASE j # 1
      <4>1. j - 1 \in 1 .. (i - 1) /\ (j - 1) + 1 = j
        BY <1>1, <1>5, <3>2
      <4>2. frames'[j - 1].activate
        BY <1>2, <2>1, <2>3, <4>1
      <4>3. ASSUME NEW k \in ((j - 1) + 1) .. (i - 1) PROVE ~frames'[k].deactivate
        <5>1. k + 1 \in (j + 1) .. i /\ k \in 1 .. (i - 1)
          BY <1>1, <1>5, <3>2
        <5> QED BY <1>2, <2>1, <2>3, <5>1
      <4> QED BY <4>1, <4>2, <4>3 DEF Activated
    <3> QED BY <3>1, <3>2
  <2>4. ASSUME Real, \A k \in 1 .. i : ~frames[k].deactivate
        PROVE  Activated(i)'
    <3>1. 1 \in 1 .. i
      BY <1>1, <1>5
    <3>2. Real'
      BY <1>1, <2>4, <3>1 DEF Turns
    <3>3. ASSUME NEW k \in 1 .. (i - 1) PROVE ~frames'[k].deactivate
      BY <1>2, <2>1, <2>4
    <3> QED BY <3>2, <3>3 DEF Activated
  <2> QED BY <1>5, <2>2, <2>3, <2>4 DEF Activated
<1>6. ASSUME NEW i \in DOMAIN frames', frames'[i].deactivate
      PROVE  ~frames'[i].activate /\ Activated(i)'
  <2>1. i \in 1 .. n /\ i + 1 \in 1 .. n /\ frames'[i] = frames[i + 1]
    BY <1>1, <1>2, <1>6
  <2> QED BY <1>3, <1>5, <1>6, <2>1
<1>7. (Activated(Len(frames) + 1))'
  <2>1. n \in 1 .. n
    BY <1>1
  <2>2. Activated(n)'
    BY <1>4, <1>5, <2>1
  <2> QED BY <1>2, <2>2 DEF Activated
<1> QED
  BY <1>6, <1>7 DEF FramesAlternate

(* ... and repeated, without its flags.                                    *)
LEMMA AlternateRepeat ==
  ASSUME frames \in Seq(Frame), frames # <<>>, FramesAlternate, Turns(Head(frames)),
         frames' \in Seq(Frame), Len(frames') = Len(frames),
         ~frames'[1].activate, ~frames'[1].deactivate,
         \A i \in DOMAIN frames : i # 1 => frames'[i] = frames[i]
  PROVE  FramesAlternate'
<1>0. PICK n \in Nat : n = Len(frames)
  OBVIOUS
<1>1. n \in Nat /\ DOMAIN frames = 1 .. n /\ Head(frames) = frames[1] /\ 1 \in 1 .. n
  BY <1>0
<1>2. DOMAIN frames' = 1 .. n /\ Len(frames') = n
  BY <1>0
<1>3. \A i \in 1 .. n : frames[i].deactivate => ~frames[i].activate /\ Activated(i)
  BY <1>1 DEF FramesAlternate
<1>4. Activated(n + 1)
  BY <1>0 DEF FramesAlternate
<1>5. ASSUME NEW i \in 2 .. (n + 1), Activated(i) PROVE Activated(i)'
  <2>1. \A k \in 1 .. (i - 1) : k \in 1 .. n
    BY <1>1, <1>5
  <2>2. ASSUME NEW j \in 1 .. (i - 1), frames[j].activate,
               \A k \in (j + 1) .. (i - 1) : ~frames[k].deactivate
        PROVE  Activated(i)'
    <3>1. CASE j = 1
      <4>1. Real'
        BY <1>1, <1>3, <2>2, <3>1 DEF Turns
      <4>2. ASSUME NEW k \in 1 .. (i - 1) PROVE ~frames'[k].deactivate
        <5>1. k # 1 => k \in (j + 1) .. (i - 1)
          BY <1>1, <1>5, <3>1
        <5> QED BY <1>1, <2>1, <2>2, <5>1
      <4> QED BY <4>1, <4>2 DEF Activated
    <3>2. CASE j # 1
      <4>1. frames'[j].activate
        BY <1>1, <2>1, <2>2, <3>2
      <4>2. ASSUME NEW k \in (j + 1) .. (i - 1) PROVE ~frames'[k].deactivate
        <5>1. k # 1 /\ k \in 1 .. (i - 1)
          BY <1>1, <1>5
        <5> QED BY <1>1, <2>1, <2>2, <5>1
      <4> QED BY <4>1, <4>2 DEF Activated
    <3> QED BY <3>1, <3>2
  <2>3. ASSUME Real, \A k \in 1 .. (i - 1) : ~frames[k].deactivate
        PROVE  Activated(i)'
    <3>1. 1 \in 1 .. (i - 1)
      BY <1>1, <1>5
    <3>2. Real'
      BY <1>1, <2>3, <3>1 DEF Turns
    <3>3. ASSUME NEW k \in 1 .. (i - 1) PROVE ~frames'[k].deactivate
      BY <1>1, <2>1, <2>3
    <3> QED BY <3>2, <3>3 DEF Activated
  <2> QED BY <1>5, <2>2, <2>3 DEF Activated
<1>6. ASSUME NEW i \in DOMAIN frames', frames'[i].deactivate
      PROVE  ~frames'[i].activate /\ Activated(i)'
  <2>1. i \in 1 .. n /\ i # 1
    BY <1>2, <1>6
  <2>2. i \in 2 .. (n + 1) /\ frames'[i] = frames[i]
    BY <1>1, <2>1
  <2> QED BY <1>3, <1>5, <1>6, <2>1, <2>2
<1>7. (Activated(Len(frames) + 1))'
  <2>1. n + 1 \in 2 .. (n + 1)
    BY <1>1
  <2>2. Activated(n + 1)'
    BY <1>4, <1>5, <2>1
  <2> QED BY <1>2, <2>2 DEF Activated
<1> QED
  BY <1>6, <1>7 DEF FramesAlternate

(* Frames behind those that wait change nothing for them.                  *)
LEMMA AlternatePrefix ==
  ASSUME frames \in Seq(Frame), Real' <=> Real,
         \A k \in DOMAIN frames : frames'[k] = frames[k],
         NEW i \in 1 .. (Len(frames) + 1), Activated(i)
  PROVE  Activated(i)'
<1>0. PICK n \in Nat : n = Len(frames)
  OBVIOUS
<1>1. n \in Nat /\ DOMAIN frames = 1 .. n
  BY <1>0
<1>2. i \in 1 .. (n + 1)
  BY <1>0
<1>3. \A k \in 1 .. (i - 1) : frames'[k] = frames[k]
  BY <1>1, <1>2
<1>4. \A j \in 1 .. (i - 1) : \A k \in (j + 1) .. (i - 1) : k \in 1 .. (i - 1)
  BY <1>1, <1>2
<1> QED
  BY <1>3, <1>4 DEF Activated

(* The application reports.                                                *)
LEMMA AlternateReport ==
  ASSUME frames \in Seq(Frame), FramesAlternate, Real' <=> Real,
         NEW g, ~g.deactivate, frames' = Append(frames, g)
  PROVE  FramesAlternate'
<1>0. PICK n \in Nat : n = Len(frames)
  OBVIOUS
<1>1. n \in Nat /\ DOMAIN frames = 1 .. n
  BY <1>0
<1>2. /\ DOMAIN frames' = 1 .. (n + 1) /\ Len(frames') = n + 1
      /\ \A k \in 1 .. n : frames'[k] = frames[k]
      /\ frames'[n + 1] = g
  BY <1>0
<1>3. \A i \in 1 .. (n + 1) : Activated(i) => Activated(i)'
  BY <1>0, <1>1, <1>2, AlternatePrefix
<1>4. \A i \in 1 .. n : frames[i].deactivate => ~frames[i].activate /\ Activated(i)
  BY <1>1 DEF FramesAlternate
<1>5. Activated(n + 1)
  BY <1>0 DEF FramesAlternate
<1>6. ASSUME NEW i \in DOMAIN frames', frames'[i].deactivate
      PROVE  ~frames'[i].activate /\ Activated(i)'
  <2>1. i \in 1 .. n /\ i \in 1 .. (n + 1)
    BY <1>1, <1>2, <1>6
  <2> QED BY <1>2, <1>3, <1>4, <1>6, <2>1
<1>7. Activated((n + 1) + 1)'
  <2>1. Activated(n + 1)'
    BY <1>1, <1>3, <1>5
  <2>2. /\ ((n + 1) + 1) - 1 = n + 1 /\ (n + 1) - 1 = n
        /\ \A k \in 1 .. (n + 1) : k \in 1 .. n \/ k = n + 1
        /\ \A j \in 1 .. n : /\ j \in 1 .. (n + 1)
                             /\ \A k \in (j + 1) .. (n + 1) : k \in (j + 1) .. n \/ k = n + 1
    BY <1>1
  <2> QED BY <1>2, <2>1, <2>2 DEF Activated
<1>8. (Activated(Len(frames) + 1))'
  BY <1>2, <1>7 DEF Activated
<1> QED
  BY <1>6, <1>8 DEF FramesAlternate

(* The focus moves.                                                        *)
LEMMA AlternateRefocus ==
  ASSUME frames \in Seq(Frame), FramesAlternate, Real' <=> Real,
         NEW d \in Frame, NEW a \in Frame, d.deactivate, ~d.activate,
         a.activate, ~a.deactivate, frames' = frames \o <<d, a>>
  PROVE  FramesAlternate'
<1>0. PICK n \in Nat : n = Len(frames)
  OBVIOUS
<1>1. n \in Nat /\ DOMAIN frames = 1 .. n
  BY <1>0
<1>2. /\ DOMAIN frames' = 1 .. (n + 2) /\ Len(frames') = n + 2
      /\ \A k \in 1 .. n : frames'[k] = frames[k]
      /\ frames'[n + 1] = d /\ frames'[n + 2] = a
  BY <1>0
<1>3. \A i \in 1 .. (n + 1) : Activated(i) => Activated(i)'
  BY <1>0, <1>1, <1>2, AlternatePrefix
<1>4. \A i \in 1 .. n : frames[i].deactivate => ~frames[i].activate /\ Activated(i)
  BY <1>1 DEF FramesAlternate
<1>5. Activated(n + 1)
  BY <1>0 DEF FramesAlternate
<1>6. ASSUME NEW i \in DOMAIN frames', frames'[i].deactivate
      PROVE  ~frames'[i].activate /\ Activated(i)'
  <2>0. i \in 1 .. (n + 2) /\ i # n + 2
    BY <1>2, <1>6
  <2>1. i \in 1 .. n \/ i = n + 1
    BY <1>1, <2>0
  <2>2. i \in 1 .. (n + 1)
    BY <1>1, <2>1
  <2> QED BY <1>2, <1>3, <1>4, <1>5, <1>6, <2>1, <2>2
<1>7. Activated((n + 2) + 1)'
  <2>1. /\ n + 2 \in 1 .. (((n + 2) + 1) - 1)
        /\ \A k \in ((n + 2) + 1) .. (((n + 2) + 1) - 1) : FALSE
    BY <1>1
  <2> QED BY <1>2, <2>1 DEF Activated
<1>8. (Activated(Len(frames) + 1))'
  BY <1>2, <1>7 DEF Activated
<1> QED
  BY <1>6, <1>8 DEF FramesAlternate

(* A frame that ends a session ends the real one.                          *)
LEMMA HeadEndsReal ==
  ASSUME frames \in Seq(Frame), frames # <<>>, FramesAlternate, Head(frames).deactivate
  PROVE  Real /\ ~Head(frames).activate
<1>1. 1 \in DOMAIN frames /\ Head(frames) = frames[1]
  OBVIOUS
<1>2. ~frames[1].activate /\ Activated(1)
  BY <1>1 DEF FramesAlternate
<1>3. \A j \in 1 .. (1 - 1) : FALSE
  OBVIOUS
<1> QED
  BY <1>1, <1>2, <1>3 DEF Activated

-----------------------------------------------------------------------------
(* Types, and the sessions that have a composer.                           *)

(* What a handler leaves: a composer, and edits for the application.       *)
Outcomes(a) == a.composer \in Composers /\ a.output \in Seq(Request)

(* An edit is a request.                                                   *)
LEMMA EditsAreRequests ==
  ASSUME NEW out \in Seq(Edits) PROVE out \in Seq(Request)
<1>1. Edits \subseteq Request
  BY DEF Edits, Request
<1> QED
  BY <1>1

(* on_done_frame on a surrounding text.                                    *)
LEMMA OnSurroundingTyped ==
  ASSUME NEW c \in Composers, NEW f \in Surrounding, NEW activate \in BOOLEAN,
         NEW deactivate \in BOOLEAN
  PROVE  Outcomes(OnSurrounding(c, f, activate, deactivate))
<1> DEFINE w == Watchdog(c, f, activate)
           watched == revalidate_live_confirmation(w, text_before_cursor(f.text, f.cursor))
           u == LateUpgrade(watched, activate)
           observed == apply_surrounding(u, f, activate)
           o == observed.composer
           b == observed.repair.backspaces
           t == observed.repair.commit
           a == apply_confirmed_repair_to_sink(o, b, t)
<1>1. w \in Composers
  BY WatchdogTyped
<1> HIDE DEF w
<1>2. watched \in Composers
  BY <1>1, RevalidateLeaves DEF Leaves
<1> HIDE DEF watched
<1>3. u \in Composers
  BY <1>2, SetMethodTyped DEF LateUpgrade, Tier
<1> HIDE DEF u
<1>4. o \in Composers /\ b \in Nat /\ t \in Text
  BY <1>3, ApplySurroundingTyped DEF SameTier, Repairs
<1> HIDE DEF observed, o, b, t
<1>5. a.composer \in Composers /\ a.output \in Seq(Request)
  BY <1>4, RepairTyped, EditsAreRequests DEF Leaves
<1> HIDE DEF a
<1>6. OnSurrounding(c, f, activate, deactivate) =
        IF SkipsFrame(watched, InBytes(f), activate, deactivate)
        THEN [composer |-> watched, output |-> <<>>]
        ELSE IF b = 0 /\ t = <<>> THEN [composer |-> o, output |-> <<>>]
        ELSE a
  BY DEF OnSurrounding, w, watched, u, observed, o, b, t, a
<1>7. <<>> \in Seq(Request)
  OBVIOUS
<1> QED
  BY <1>2, <1>4, <1>5, <1>6, <1>7 DEF Outcomes

(* sync_config.                                                            *)
LEMMA SyncConfigTyped ==
  ASSUME NEW c \in Composers PROVE SyncConfig(c) \in Composers
  BY FullResetTyped DEF SyncConfig

(* on_done_frame: it leaves a composer exactly if the session is active,   *)
(* and no synthetic session that is not.                                   *)
LEMMA DispatchTyped ==
  ASSUME TypeOK, SessionHasComposer, FramesAlternate, Dispatch
  PROVE  TypeOK' /\ SessionHasComposer' /\ FramesAlternate'
<1> DEFINE frame == Head(frames)
           drops == frame.activate /\ synthetic_active
           was_active == current_active /\ ~drops
           activate == frame.activate /\ ~was_active
           deactivate == frame.deactivate /\ was_active
           f == frame.surrounding
           c == IF activate
                THEN NewComposer(IF f # None THEN "SurroundingText" ELSE "ForwardKey", TRUE)
                ELSE IF deactivate \/ drops THEN None ELSE SyncConfig(composer)
           handled == IF c = None THEN [composer |-> None, output |-> <<>>]
                      ELSE IF f # None THEN OnSurrounding(c, f, activate, deactivate)
                      ELSE [composer |-> IF activate \/ deactivate THEN c
                                         ELSE clear_prev_surrounding(c),
                            output |-> <<>>]
<1>1. frames \in Seq(Frame) /\ frames # <<>> /\ requests \in Seq(Request)
  BY DEF TypeOK, Dispatch
<1>2. frame \in Frame /\ Tail(frames) \in Seq(Frame)
  BY <1>1, TailFacts
<1>3. /\ frame.activate \in BOOLEAN /\ frame.deactivate \in BOOLEAN
      /\ f # None => f \in Surrounding
  BY <1>2 DEF Frame
<1>4. drops \in BOOLEAN /\ was_active \in BOOLEAN /\ activate \in BOOLEAN /\ deactivate \in BOOLEAN
  BY <1>3, Zenon DEF TypeOK
<1>5. /\ current_active' = (activate \/ (was_active /\ ~deactivate))
      /\ synthetic_active' = (synthetic_active /\ ~drops)
      /\ composer' = handled.composer
      /\ requests' = requests \o handled.output
      /\ method_changed' = FALSE /\ UNCHANGED last_enabled
  <2>1. OnDoneFrame(frame)
    BY DEF Dispatch
  <2> QED BY <2>1, Zenon DEF OnDoneFrame, StaysActive
<1>6. /\ c \in Composers \cup {None}
      /\ c # None <=> (activate \/ (was_active /\ ~deactivate))
  <2>1. CASE activate
    <3>1. NewComposer(IF f # None THEN "SurroundingText" ELSE "ForwardKey", TRUE) \in Composers
      BY NewComposerTyped DEF Tier
    <3>2. c \in Composers
      BY <2>1, <3>1
    <3> HIDE DEF c
    <3> QED BY <2>1, <3>2, NoneAssumption
  <2>2. CASE ~activate /\ (deactivate \/ drops)
    <3>1. c = None
      BY <2>2
    <3>2. ~(activate \/ (was_active /\ ~deactivate))
      BY <1>3, <2>2 DEF TypeOK, SessionHasComposer
    <3> HIDE DEF c
    <3> QED BY <3>1, <3>2
  <2>3. CASE ~activate /\ ~deactivate /\ ~drops /\ current_active
    <3>1. composer \in Composers
      BY <2>3 DEF TypeOK, SessionHasComposer
    <3>2. c \in Composers
      BY <2>3, <3>1, SyncConfigTyped
    <3>3. activate \/ (was_active /\ ~deactivate)
      BY <1>3, <2>3
    <3> HIDE DEF c
    <3> QED BY <3>2, <3>3, NoneAssumption
  <2>4. CASE ~activate /\ ~deactivate /\ ~drops /\ ~current_active
    <3>1. composer = None
      BY <2>4 DEF SessionHasComposer
    <3>2. c = None
      BY <2>4, <3>1 DEF SyncConfig
    <3>3. ~(activate \/ (was_active /\ ~deactivate))
      BY <1>3, <2>4
    <3> HIDE DEF c
    <3> QED BY <3>2, <3>3
  <2> QED BY <2>1, <2>2, <2>3, <2>4
<1> HIDE DEF c
<1>7. /\ handled.composer \in Composers \cup {None}
      /\ handled.composer # None <=> c # None
      /\ handled.output \in Seq(Request)
  <2>0. <<>> \in Seq(Request)
    OBVIOUS
  <2>1. CASE c = None
    BY <2>0, <2>1
  <2>2. CASE c # None /\ f # None
    <3>1. Outcomes(OnSurrounding(c, f, activate, deactivate))
      <4> HIDE DEF activate, deactivate, f
      <4> QED BY <1>3, <1>4, <1>6, <2>2, OnSurroundingTyped
    <3>2. handled = OnSurrounding(c, f, activate, deactivate)
      BY <2>2
    <3> HIDE DEF handled
    <3> QED BY <2>2, <3>1, <3>2, NoneAssumption DEF Outcomes
  <2>3. CASE c # None /\ ~(f # None)
    <3>1. c \in Composers /\ clear_prev_surrounding(c) \in Composers
      BY <1>6, <2>3, ClearPrevLeaves DEF Leaves
    <3>2. handled = [composer |-> IF activate \/ deactivate THEN c
                                  ELSE clear_prev_surrounding(c), output |-> <<>>]
      BY <2>3
    <3> HIDE DEF handled
    <3> QED BY <2>0, <2>3, <3>1, <3>2, NoneAssumption
  <2> QED BY <2>1, <2>2, <2>3
<1> HIDE DEF handled
<1>14. Turns(frame)
  <2>1. CASE frame.activate /\ ~frame.deactivate
    <3>1. current_active' /\ ~synthetic_active'
      BY <1>3, <1>5, <2>1 DEF TypeOK
    <3> QED BY <2>1, <3>1 DEF Turns, Real
  <2>2. CASE ~frame.activate /\ ~frame.deactivate
    <3>1. (current_active' <=> current_active) /\ (synthetic_active' <=> synthetic_active)
      BY <1>3, <1>5, <2>2 DEF TypeOK
    <3> QED BY <2>2, <3>1 DEF Turns, Real
  <2>3. CASE frame.deactivate
    BY <2>3 DEF Turns
  <2> QED BY <1>3, <2>1, <2>2, <2>3
<1>8. frames' \in Seq(Frame) /\ duplicates' \in Nat /\ FramesAlternate'
      /\ keys' = keys /\ events' = events
  <2>1. CASE frames' = Tail(frames) /\ UNCHANGED bounds
    <3>1. FramesAlternate'
      BY <1>1, <1>14, <2>1, AlternateTail
    <3> QED BY <1>2, <2>1, <3>1 DEF TypeOK, bounds
  <2>2. CASE /\ duplicates' = duplicates + 1
             /\ frames' = [frames EXCEPT ![1].activate = FALSE, ![1].deactivate = FALSE]
             /\ UNCHANGED <<keys, events>>
    <3>1. frames[1] \in Frame /\ 1 \in DOMAIN frames
      BY <1>1
    <3> DEFINE g == [frames[1] EXCEPT !.activate = FALSE, !.deactivate = FALSE]
    <3>2. g \in Frame /\ ~g.activate /\ ~g.deactivate
      BY <3>1 DEF Frame
    <3>3. frames' = [frames EXCEPT ![1] = g]
      BY <2>2, <3>1
    <3> HIDE DEF g
    <3>4. /\ frames' \in Seq(Frame) /\ Len(frames') = Len(frames) /\ frames'[1] = g
          /\ \A i \in DOMAIN frames : i # 1 => frames'[i] = frames[i]
      BY <1>1, <3>1, <3>2, <3>3
    <3>5. FramesAlternate'
      BY <1>1, <1>14, <3>2, <3>4, AlternateRepeat
    <3> QED BY <2>2, <3>4, <3>5 DEF TypeOK
  <2> QED BY <2>1, <2>2 DEF Dispatch
<1>9. requests' \in Seq(Request)
  BY <1>1, <1>5, <1>7
<1>10. current_active' \in BOOLEAN /\ synthetic_active' \in BOOLEAN
  BY <1>5
<1>11. TypeOK'
  BY <1>5, <1>7, <1>8, <1>9, <1>10 DEF TypeOK, Dispatch
<1>12. synthetic_active' => current_active'
  <2>1. synthetic_active /\ ~drops => was_active
    BY DEF SessionHasComposer
  <2>2. synthetic_active => ~frame.deactivate
    BY <1>1, HeadEndsReal DEF Real
  <2> QED BY <1>3, <1>5, <2>1, <2>2
<1>13. current_active' <=> composer' # None
  BY <1>5, <1>6, <1>7
<1> QED
  BY <1>8, <1>11, <1>12, <1>13 DEF SessionHasComposer

(* What every key does first keeps the session.                            *)
LEMMA BeforeKeyTyped ==
  ASSUME TypeOK
  PROVE  /\ BeforeKey \in Composers \cup {None}
         /\ BeforeKey = None <=> composer = None
<1> DEFINE c1 == SyncConfig(composer)
           c2 == IF c1 = None THEN None ELSE check_idle_reset(c1)
<1>1. c1 \in Composers \cup {None} /\ (c1 = None <=> composer = None)
  <2>1. CASE composer = None
    BY <2>1 DEF SyncConfig
  <2>2. CASE composer \in Composers
    <3>1. c1 \in Composers
      BY <2>2, SyncConfigTyped
    <3> HIDE DEF c1
    <3> QED BY <2>2, <3>1, NoneAssumption
  <2> QED BY <2>1, <2>2 DEF TypeOK
<1> HIDE DEF c1
<1>2. c2 \in Composers \cup {None} /\ (c2 = None <=> c1 = None)
  BY <1>1, CheckIdleLeaves, NoneAssumption DEF Leaves
<1> HIDE DEF c2
<1>3. BeforeKey = IF c2 # None /\ last_enabled /\ ~enabled THEN full_reset(c2) ELSE c2
  BY DEF BeforeKey, c1, c2
<1>4. c2 # None => full_reset(c2) \in Composers
  BY <1>2, FullResetTyped
<1> QED
  BY <1>1, <1>2, <1>3, <1>4, NoneAssumption

(* dispatch_key_press.                                                     *)
LEMMA DispatchedTyped ==
  ASSUME NEW c \in Composers, NEW d, d.backspaces \in Nat, d.commit \in Text,
         NEW key, d.kind = "Apply" \/ key \in Request
  PROVE  Outcomes(Dispatched(c, d, key))
<1> DEFINE a == apply_to_sink(c, d.backspaces, d.commit)
<1>1. a.composer \in Composers /\ a.output \in Seq(Request)
  BY ApplyToSinkTyped, EditsAreRequests DEF Leaves, apply_to_sink
<1> HIDE DEF a
<1>2. CASE d.kind = "Apply"
  <2>1. Dispatched(c, d, key) = a
    BY <1>2 DEF Dispatched, a
  <2> QED BY <1>1, <2>1 DEF Outcomes
<1>3. CASE d.kind # "Apply"
  <2>1. Dispatched(c, d, key) = [composer |-> c, output |-> <<key>>]
    BY <1>3 DEF Dispatched
  <2>2. <<key>> \in Seq(Request)
    BY <1>3
  <2> QED BY <2>1, <2>2 DEF Outcomes
<1> QED
  BY <1>2, <1>3

(* A printable key.                                                        *)
LEMMA ComposeTyped ==
  ASSUME NEW c \in Composers, NEW ch \in Char, NEW shifted
  PROVE  Outcomes(Compose(c, ch, shifted))
<1> DEFINE m == mark_action(c)
           fed == feed_key(m, ch)
           u == unrecord_forwarded_char(fed.composer)
           key == [op |-> "key", ch |-> ch]
           commit == Apply(0, <<ch>>)
<1>1. m \in Composers
  BY ClockLeaves DEF Leaves
<1> HIDE DEF m
<1>2. /\ fed.composer \in Composers
      /\ fed.decision.backspaces \in Nat /\ fed.decision.commit \in Text
  BY <1>1, FeedKeyLeaves DEF Leaves, Decisions
<1> HIDE DEF fed
<1>3. u \in Composers
  BY <1>2, UnrecordLeaves DEF Leaves
<1> HIDE DEF u
<1>4. key \in Request
  BY DEF Request
<1> HIDE DEF key
<1>5. commit.kind = "Apply" /\ commit.backspaces \in Nat /\ commit.commit \in Text
  BY DEF Apply, Text
<1> HIDE DEF commit
<1>6. Outcomes(Dispatched(u, commit, None))
  BY <1>3, <1>5, DispatchedTyped
<1>7. Outcomes(Dispatched(fed.composer, fed.decision, key))
  BY <1>2, <1>4, DispatchedTyped
<1>8. Compose(c, ch, shifted) = IF shifted /\ fed.decision.kind = "ForwardRaw"
                                THEN Dispatched(u, commit, None)
                                ELSE Dispatched(fed.composer, fed.decision, key)
  BY DEF Compose, m, fed, u, key, commit
<1> QED
  BY <1>6, <1>7, <1>8

(* What a key leaves of the session, once its outcome is well-formed.      *)
LEMMA KeyTyped ==
  ASSUME TypeOK, SessionHasComposer, FramesAlternate, PressKey,
         composer' \in Composers \cup {None}, composer' = None <=> composer = None,
         requests' \in Seq(Request), history' \in Histories,
         keys' \in Nat, duplicates' \in Nat, events' \in Nat
  PROVE  TypeOK' /\ SessionHasComposer' /\ FramesAlternate'
<1>1. TypeOK'
  BY DEF TypeOK, PressKey
<1>2. SessionHasComposer'
  BY DEF SessionHasComposer, PressKey
<1>3. FramesAlternate'
  BY DEF FramesAlternate, Activated, Real, PressKey
<1> QED
  BY <1>1, <1>2, <1>3

(* The history of a character.                                             *)
LEMMA HistoryTyped ==
  ASSUME history \in Histories, NEW c, NEW ch \in Char, NEW p \in BOOLEAN
  PROVE  [IdealKey(IdealIdle(history, c), ch) EXCEPT !.plain = @ /\ p] \in Histories
<1> DEFINE h == IdealIdle(history, c)
           r == VnKey(h.engine, ch)
           t == IF r.consumed THEN DropLast(h.text, r.backspaces) \o r.commit
                              ELSE Append(h.text, ch)
           g == [h EXCEPT !.engine = r.engine, !.text = t]
<1>1. h \in Histories
  BY EngineAssumption DEF IdealIdle, Histories
<1> HIDE DEF h
<1>2. h.engine \in EngineStates /\ h.text \in Text
  BY <1>1 DEF Histories
<1>3. r.engine \in EngineStates /\ t \in Text
  BY <1>2, IdealKeyTyped
<1>4. IdealKey(h, ch) = g
  BY <1>1 DEF IdealKey, Histories
<1> HIDE DEF r, t
<1>5. g \in Histories
  BY <1>1, <1>3 DEF Histories
<1> HIDE DEF g
<1>6. [g EXCEPT !.plain = @ /\ p] \in Histories
  BY <1>5 DEF Histories
<1> QED
  BY <1>4, <1>6 DEF h

(* The keys.                                                               *)
LEMMA KeysTyped ==
  ASSUME TypeOK, SessionHasComposer, FramesAlternate,
         \/ \E ch \in Typed : TypeKey(ch)
         \/ PressBackspace \/ PressNav \/ PressOther
  PROVE  TypeOK' /\ SessionHasComposer' /\ FramesAlternate'
<1> DEFINE c == BeforeKey
<1>1. c \in Composers \cup {None} /\ (c = None <=> composer = None)
  BY BeforeKeyTyped
<1> HIDE DEF c
<1>2. /\ requests \in Seq(Request) /\ history \in Histories
      /\ keys \in Nat /\ duplicates \in Nat /\ events \in Nat
  BY DEF TypeOK
<1>3. CountKey => keys' \in Nat /\ duplicates' \in Nat /\ events' \in Nat
  BY <1>2 DEF CountKey
<1>4. Event => keys' \in Nat /\ duplicates' \in Nat /\ events' \in Nat
  BY <1>2 DEF Event
<1>5. [history EXCEPT !.plain = FALSE] \in Histories
  BY <1>2 DEF Histories
<1>6. ASSUME NEW ch \in Typed, TypeKey(ch)
      PROVE  TypeOK' /\ SessionHasComposer' /\ FramesAlternate'
  <2>1. PICK shifted \in {FALSE, LevelShift} :
          LET out == IF ~enabled \/ c = None
                     THEN [composer |-> c, output |-> <<[op |-> "key", ch |-> ch]>>]
                     ELSE Compose(c, ch, shifted)
          IN  /\ composer' = out.composer
              /\ requests' = requests \o out.output
              /\ history' = [IdealKey(IdealIdle(history, c), ch) EXCEPT
                               !.plain = @ /\ SettledKey(c, shifted)]
    BY <1>6 DEF TypeKey, c
  <2> DEFINE raw == [composer |-> c, output |-> <<[op |-> "key", ch |-> ch]>>]
             out == IF ~enabled \/ c = None THEN raw ELSE Compose(c, ch, shifted)
  <2>2. ch \in Char /\ <<[op |-> "key", ch |-> ch]>> \in Seq(Request)
    BY SessionAssumption DEF Request
  <2>3. /\ out.composer \in Composers \cup {None} /\ (out.composer = None <=> c = None)
        /\ out.output \in Seq(Request)
    <3>1. CASE ~enabled \/ c = None
      BY <1>1, <2>2, <3>1
    <3>2. CASE enabled /\ c # None
      <4>1. Outcomes(Compose(c, ch, shifted))
        BY <1>1, <2>2, <3>2, ComposeTyped
      <4>2. out = Compose(c, ch, shifted)
        BY <3>2
      <4> HIDE DEF out
      <4> QED BY <3>2, <4>1, <4>2, NoneAssumption DEF Outcomes
    <3> QED BY <3>1, <3>2
  <2>4. SettledKey(c, shifted) \in BOOLEAN
    BY DEF SettledKey
  <2>5. history' \in Histories
    <3> DEFINE p == SettledKey(c, shifted)
    <3>1. history' = [IdealKey(IdealIdle(history, c), ch) EXCEPT !.plain = @ /\ p]
      BY <2>1
    <3>2. p \in BOOLEAN
      BY <2>4
    <3> HIDE DEF p
    <3> QED BY <1>2, <2>2, <3>1, <3>2, HistoryTyped
  <2>6. composer' = out.composer /\ requests' = requests \o out.output
    BY <2>1
  <2> HIDE DEF out
  <2>7. requests' \in Seq(Request)
    BY <1>2, <2>3, <2>6
  <2>8. PressKey /\ CountKey
    BY <1>6 DEF TypeKey
  <2> QED BY <1>1, <1>3, <2>3, <2>5, <2>6, <2>7, <2>8, KeyTyped
<1>7. CASE PressBackspace
  <2> DEFINE fed == feed_backspace(c)
             raw == [composer |-> c, output |-> <<BackspaceKey>>]
             out == IF ~enabled \/ c = None THEN raw
                    ELSE Dispatched(fed.composer, fed.decision, BackspaceKey)
  <2>1. BackspaceKey \in Request /\ <<BackspaceKey>> \in Seq(Request)
    BY DEF BackspaceKey, Request
  <2>2. /\ out.composer \in Composers \cup {None} /\ (out.composer = None <=> c = None)
        /\ out.output \in Seq(Request)
    <3>1. CASE ~enabled \/ c = None
      BY <1>1, <2>1, <3>1
    <3>2. CASE enabled /\ c # None
      <4>1. /\ fed.composer \in Composers
            /\ fed.decision.backspaces \in Nat /\ fed.decision.commit \in Text
        BY <1>1, <3>2, FeedBackspaceLeaves DEF Leaves, Decisions
      <4> HIDE DEF fed
      <4>2. Outcomes(Dispatched(fed.composer, fed.decision, BackspaceKey))
        BY <2>1, <4>1, DispatchedTyped
      <4>3. out = Dispatched(fed.composer, fed.decision, BackspaceKey)
        BY <3>2
      <4> HIDE DEF out
      <4> QED BY <3>2, <4>2, <4>3, NoneAssumption DEF Outcomes
    <3> QED BY <3>1, <3>2
  <2>3. /\ composer' = out.composer /\ requests' = requests \o out.output
        /\ history' = [history EXCEPT !.plain = FALSE] /\ PressKey /\ Event
    BY <1>7 DEF PressBackspace, c
  <2> HIDE DEF out
  <2>4. requests' \in Seq(Request)
    BY <1>2, <2>2, <2>3
  <2> QED BY <1>1, <1>4, <1>5, <2>2, <2>3, <2>4, KeyTyped
<1>8. CASE PressNav
  <2> DEFINE r == reset_composition_preserving_surrounding(c)
             d == defer_action(r)
  <2>1. c # None => d \in Composers
    <3> SUFFICES ASSUME c \in Composers PROVE d \in Composers
      BY <1>1
    <3>1. r \in Composers
      BY ResetCompositionLeaves DEF Leaves
    <3> HIDE DEF r
    <3> QED BY <3>1, ClockLeaves DEF Leaves
  <2>2. /\ composer' = IF ~enabled \/ c = None THEN c ELSE d
        /\ requests' = Append(requests, [op |-> "move"])
        /\ history' = [history EXCEPT !.plain = FALSE] /\ PressKey /\ CountKey
    BY <1>8 DEF PressNav, c
  <2>3. [op |-> "move"] \in Request
    BY DEF Request
  <2>4. requests' \in Seq(Request)
    BY <1>2, <2>2, <2>3
  <2> HIDE DEF d
  <2>5. composer' \in Composers \cup {None} /\ (composer' = None <=> c = None)
    BY <1>1, <2>1, <2>2, NoneAssumption
  <2> QED BY <1>1, <1>3, <1>5, <2>2, <2>4, <2>5, KeyTyped
<1>9. CASE PressOther
  <2> DEFINE d == mark_action(c)
  <2>1. c # None => d \in Composers
    BY <1>1, ClockLeaves DEF Leaves
  <2>2. /\ composer' = IF ~enabled \/ c = None THEN c ELSE d
        /\ requests' = requests /\ history' = history /\ PressKey /\ CountKey
    BY <1>9 DEF PressOther, c
  <2> HIDE DEF d
  <2>3. composer' \in Composers \cup {None} /\ (composer' = None <=> c = None)
    BY <1>1, <2>1, <2>2, NoneAssumption
  <2>4. requests' \in Seq(Request) /\ history' \in Histories
    BY <1>2, <2>2
  <2> QED BY <1>1, <1>3, <2>2, <2>3, <2>4, KeyTyped
<1> QED
  BY <1>6, <1>7, <1>8, <1>9

-----------------------------------------------------------------------------
(* The application, the desktop and the clocks.                            *)

(* A step that leaves the session and the frames alone.                    *)
LEMMA SessionSame ==
  ASSUME SessionHasComposer, FramesAlternate,
         UNCHANGED <<current_active, synthetic_active, frames>>,
         composer' = None <=> composer = None
  PROVE  SessionHasComposer' /\ FramesAlternate'
<1>1. SessionHasComposer'
  BY DEF SessionHasComposer
<1>2. FramesAlternate'
  BY DEF FramesAlternate, Activated, Real
<1> QED
  BY <1>1, <1>2

(* The application keeps a field.                                          *)
LEMMA FieldTyped ==
  ASSUME TypeOK
  PROVE  /\ ClientTakes => field' \in Surrounding /\ requests' \in Seq(Request)
         /\ Click \/ Complete \/ Erase => field' \in Surrounding
<1>1. field \in Surrounding /\ requests \in Seq(Request)
  BY DEF TypeOK
<1>2. ASSUME ClientTakes PROVE field' \in Surrounding /\ requests' \in Seq(Request)
  <2> DEFINE r == Head(requests)
  <2>1. r \in Request /\ Tail(requests) \in Seq(Request)
    BY <1>1, <1>2, TailFacts DEF ClientTakes
  <2>2. field' = Take(client, field, r) /\ requests' = Tail(requests)
    BY <1>2 DEF ClientTakes
  <2> HIDE DEF r
  <2>3. r.op # "delete" => TakeKey(field, r) \in Surrounding
    BY <1>1, <2>1, TakeKeyTyped DEF Request, FieldRequests
  <2>4. r.op = "delete" => r.bytes \in Nat
    BY <2>1 DEF Request
  <2>5. r.op = "delete" => DeleteChars(field, CharsOfBytes(field, r.bytes)) \in Surrounding
    BY <1>1, <2>4, CharsOfBytesTyped, DeleteCharsTyped
  <2> QED BY <1>1, <2>1, <2>2, <2>3, <2>5 DEF Take
<1>3. ASSUME Click PROVE field' \in Surrounding
  <2>1. PICK p \in 0 .. Len(field.text) :
          field' = [field EXCEPT !.cursor = p, !.anchor = p]
    BY <1>3, Zenon DEF Click
  <2>2. /\ field.text \in Text
        /\ field \in [text : Text, cursor : Nat, anchor : Nat]
    BY <1>1 DEF Surrounding
  <2> DEFINE n == Len(field.text)
  <2>3. n \in Nat
    BY <2>2 DEF Text
  <2> HIDE DEF n
  <2>4. p \in Nat /\ p <= n
    BY <2>1, <2>3 DEF n
  <2>5. /\ field' \in [text : Text, cursor : Nat, anchor : Nat]
        /\ field'.text = field.text /\ field'.cursor = p /\ field'.anchor = p
    BY <2>1, <2>2, <2>4
  <2> QED BY <2>4, <2>5 DEF Surrounding, n
<1>4. ASSUME Complete PROVE field' \in Surrounding
  <2> DEFINE before == text_before_cursor(field.text, field.cursor)
             after == TextAfter(field.text, field.cursor)
  <2>1. PICK ch \in Typed :
          field' = [text |-> before \o <<ch>> \o after,
                    cursor |-> field.cursor, anchor |-> field.cursor + 1]
    BY <1>4 DEF Complete
  <2>2. /\ field.text \in Text /\ field.cursor \in Nat /\ field.cursor <= Len(field.text)
    BY <1>1 DEF Surrounding
  <2>3. /\ before \in Text /\ Len(before) = field.cursor
        /\ after \in Text /\ Len(after) = Len(field.text) - field.cursor
    BY <2>2, CutTyped DEF text_before_cursor, TextAfter, Text
  <2>4. ch \in Char
    BY SessionAssumption
  <2> HIDE DEF before, after
  <2>5. /\ before \o <<ch>> \o after \in Text
        /\ Len(before \o <<ch>> \o after) = field.cursor + 1 + Len(after)
    BY <2>3, <2>4 DEF Text
  <2>6. Len(after) \in Nat
    BY <2>3 DEF Text
  <2> QED BY <2>1, <2>2, <2>5, <2>6 DEF Surrounding
<1>5. ASSUME Erase PROVE field' \in Surrounding
  BY <1>1, <1>5, DeleteCharsTyped DEF Erase
<1> QED
  BY <1>2, <1>3, <1>4, <1>5

(* Everything but the frames and the keys.                                 *)
LEMMA DesktopTyped ==
  ASSUME TypeOK, SessionHasComposer, FramesAlternate,
         \/ ClientTakes \/ ClientReports \/ Click \/ Complete \/ Erase
         \/ Toggle \/ ChangeMethod \/ Refocus \/ ToplevelFocus \/ WindowCloses \/ Idle
  PROVE  TypeOK' /\ SessionHasComposer' /\ FramesAlternate'
<1> USE DEF router, bounds
<1>1. composer # None => composer \in Composers
  BY DEF TypeOK
<1>2. Event => keys' \in Nat /\ duplicates' \in Nat /\ events' \in Nat
  BY DEF TypeOK, Event
<1>3. [history EXCEPT !.plain = FALSE] \in Histories
  BY DEF TypeOK, Histories
<1>4. CASE ClientTakes
  <2>1. TypeOK'
    BY <1>4, FieldTyped DEF TypeOK, ClientTakes
  <2> QED BY <1>4, <2>1, SessionSame DEF ClientTakes
<1>5. CASE ClientReports
  <2>1. CASE client = "silent"
    <3>1. TypeOK'
      BY <1>5, <2>1 DEF TypeOK, ClientReports
    <3> QED BY <1>5, <2>1, <3>1, SessionSame DEF ClientReports
  <2>2. CASE client # "silent"
    <3> DEFINE g == [activate |-> FALSE, deactivate |-> FALSE,
                     surrounding |-> Report(client, field)]
    <3>1. Report(client, field) \in Surrounding
      BY NoSurroundingTyped DEF TypeOK, Report
    <3>2. g \in Frame /\ ~g.deactivate
      BY <3>1 DEF Frame
    <3>3. frames' = Append(frames, g) /\ frames \in Seq(Frame)
      BY <1>5, <2>2 DEF ClientReports, TypeOK
    <3> HIDE DEF g
    <3>4. frames' \in Seq(Frame)
      BY <3>2, <3>3
    <3>5. TypeOK'
      BY <1>5, <3>4 DEF TypeOK, ClientReports
    <3>6. Real' <=> Real
      BY <1>5 DEF ClientReports, Real
    <3>7. FramesAlternate'
      BY <3>2, <3>3, <3>6, AlternateReport
    <3>8. SessionHasComposer'
      BY <1>5 DEF ClientReports, SessionHasComposer
    <3> QED BY <3>5, <3>7, <3>8
  <2> QED BY <2>1, <2>2
<1>6. CASE Click
  <2>0. /\ Event /\ dirty' = TRUE /\ history' = [history EXCEPT !.plain = FALSE]
        /\ UNCHANGED <<router, enabled, method_changed, client, requests, frames>>
    BY <1>6, Zenon DEF Click
  <2>1. TypeOK'
    BY <1>2, <1>3, <1>6, <2>0, FieldTyped DEF TypeOK
  <2> QED BY <2>0, <2>1, SessionSame
<1>7. CASE Complete
  <2>1. TypeOK'
    BY <1>2, <1>3, <1>7, FieldTyped DEF TypeOK, Complete
  <2> QED BY <1>7, <2>1, SessionSame DEF Complete
<1>8. CASE Erase
  <2>1. TypeOK'
    BY <1>2, <1>3, <1>8, FieldTyped DEF TypeOK, Erase
  <2> QED BY <1>8, <2>1, SessionSame DEF Erase
<1>9. CASE Toggle
  <2>1. enabled' \in BOOLEAN
    BY <1>9 DEF Toggle
  <2>2. TypeOK'
    BY <1>2, <1>3, <1>9, <2>1 DEF TypeOK, Toggle
  <2> QED BY <1>9, <2>2, SessionSame DEF Toggle
<1>10. CASE ChangeMethod
  <2>1. TypeOK'
    BY <1>2, <1>3, <1>10 DEF TypeOK, ChangeMethod
  <2> QED BY <1>10, <2>1, SessionSame DEF ChangeMethod
<1>11. CASE Refocus
  <2>1. PICK text \in StartTexts, kind \in ClientKinds, reports \in BOOLEAN :
          LET f == FieldWith(text)
          IN  /\ field' = f
              /\ client' = kind
              /\ frames' = frames \o
                   <<[activate |-> FALSE, deactivate |-> TRUE, surrounding |-> None],
                     [activate |-> TRUE, deactivate |-> FALSE,
                      surrounding |-> IF reports /\ kind # "silent" THEN Report(kind, f)
                                      ELSE None]>>
    BY <1>11 DEF Refocus
  <2> DEFINE s == IF reports /\ kind # "silent" THEN Report(kind, FieldWith(text)) ELSE None
             d == [activate |-> FALSE, deactivate |-> TRUE, surrounding |-> None]
             a == [activate |-> TRUE, deactivate |-> FALSE, surrounding |-> s]
  <2>2. FieldWith(text) \in Surrounding
    BY SessionAssumption, FieldWithTyped DEF Text
  <2>3. s \in Surrounding \cup {None}
    BY <2>2, NoSurroundingTyped DEF Report
  <2>4. field' = FieldWith(text) /\ client' = kind /\ frames' = frames \o <<d, a>>
    BY <2>1
  <2> HIDE DEF s
  <2>5. d \in Frame /\ a \in Frame /\ d.deactivate /\ ~d.activate /\ a.activate /\ ~a.deactivate
    BY <2>3 DEF Frame
  <2> HIDE DEF d, a
  <2>6. frames \in Seq(Frame)
    BY DEF TypeOK
  <2>7. frames' \in Seq(Frame)
    BY <2>4, <2>5, <2>6
  <2>8. Real' <=> Real
    BY <1>11 DEF Refocus, Real
  <2>9. FramesAlternate'
    BY <2>4, <2>5, <2>6, <2>8, AlternateRefocus
  <2>10. field' \in Surrounding /\ client' \in ClientKinds
    BY <2>2, <2>4
  <2>11. TypeOK'
    BY <1>2, <1>3, <1>11, <2>7, <2>10 DEF TypeOK, Refocus
  <2>12. SessionHasComposer'
    BY <1>11 DEF Refocus, SessionHasComposer
  <2> QED BY <2>9, <2>11, <2>12
<1>12. CASE ToplevelFocus
  <2> DEFINE n == NewComposer("ForwardKey", FALSE)
             new == [n EXCEPT !.commit_string_functional = FALSE]
  <2>1. n \in Composers
    BY NewComposerTyped DEF Tier
  <2> HIDE DEF n
  <2>2. new \in Composers
    BY <2>1 DEF Composers
  <2>3. new # None
    BY <2>2, NoneAssumption
  <2>4. \/ /\ ~Real /\ current_active' = TRUE /\ synthetic_active' = TRUE /\ composer' = new
        \/ /\ ~Real /\ current_active' = FALSE /\ synthetic_active' = FALSE /\ composer' = None
    BY <1>12 DEF ToplevelFocus, Real, n
  <2>5. /\ UNCHANGED <<enabled, last_enabled, method_changed, client, field, requests, dirty,
                       frames>>
        /\ history' = [history EXCEPT !.plain = FALSE] /\ Event
    BY <1>12 DEF ToplevelFocus
  <2> HIDE DEF new
  <2>6. composer' \in Composers \cup {None} /\ current_active' \in BOOLEAN
        /\ synthetic_active' \in BOOLEAN
    BY <2>2, <2>4
  <2>7. TypeOK'
    BY <1>2, <1>3, <2>5, <2>6 DEF TypeOK
  <2>8. SessionHasComposer'
    BY <2>3, <2>4 DEF SessionHasComposer
  <2>9. ~Real /\ ~Real'
    BY <2>4 DEF Real
  <2>10. FramesAlternate'
    BY <2>5, <2>9 DEF FramesAlternate, Activated
  <2> QED BY <2>7, <2>8, <2>10
<1>13. CASE WindowCloses \/ Idle
  <2>1. /\ composer # None
        /\ \/ composer' = [composer EXCEPT !.recent = FALSE]
           \/ composer' = [composer EXCEPT !.idle = TRUE]
    BY <1>13 DEF WindowCloses, Idle
  <2>2. composer' \in Composers
    BY <1>1, <2>1 DEF Composers
  <2>3. composer' # None
    BY <2>2, NoneAssumption
  <2>4. UNCHANGED <<current_active, synthetic_active, enabled, last_enabled, method_changed,
                    client, field, requests, dirty, frames, bounds, history>>
    BY <1>13 DEF WindowCloses, Idle
  <2>5. TypeOK'
    BY <2>2, <2>4 DEF TypeOK
  <2> QED BY <2>1, <2>3, <2>4, <2>5, SessionSame
<1> QED
  BY <1>4, <1>5, <1>6, <1>7, <1>8, <1>9, <1>10, <1>11, <1>12, <1>13

(* The first activate waits.                                               *)
LEMMA SessionInit ==
  ASSUME Init PROVE TypeOK /\ SessionHasComposer /\ FramesAlternate
<1>1. PICK text \in StartTexts, reports \in BOOLEAN :
        LET shows == reports /\ client # "silent"
        IN  /\ field = FieldWith(text)
            /\ frames = <<[activate |-> TRUE, deactivate |-> FALSE,
                           surrounding |-> IF shows THEN Report(client, field) ELSE None]>>
            /\ history = [text |-> text, plain |-> client # "dead" /\ (shows \/ text = <<>>),
                          engine |-> IF shows THEN feed_context_gated(current_word(text))
                                              ELSE Fresh]
  BY DEF Init
<1> DEFINE shows == reports /\ client # "silent"
           s == IF shows THEN Report(client, field) ELSE None
           g == [activate |-> TRUE, deactivate |-> FALSE, surrounding |-> s]
           e == IF shows THEN feed_context_gated(current_word(text)) ELSE Fresh
           p == client # "dead" /\ (shows \/ text = <<>>)
<1>2. text \in Text
  BY SessionAssumption DEF Text
<1>3. field \in Surrounding
  BY <1>1, <1>2, FieldWithTyped
<1>4. s \in Surrounding \cup {None}
  BY <1>3, NoSurroundingTyped DEF Report
<1>5. e \in EngineStates
  BY <1>2, CurrentWordTyped, SeedTyped, EngineAssumption
<1>6. frames = <<g>> /\ history = [text |-> text, plain |-> p, engine |-> e]
  BY <1>1
<1>7. p \in BOOLEAN
  OBVIOUS
<1> HIDE DEF s, e, p, shows
<1>8. history \in Histories
  BY <1>2, <1>5, <1>6, <1>7 DEF Histories
<1>9. g \in Frame /\ g.activate /\ ~g.deactivate
  BY <1>4 DEF Frame
<1> HIDE DEF g
<1>10. frames \in Seq(Frame) /\ DOMAIN frames = 1 .. 1 /\ Len(frames) = 1 /\ frames[1] = g
  BY <1>6, <1>9
<1>11. TypeOK
  <2>1. /\ current_active = FALSE /\ synthetic_active = FALSE /\ composer = None
        /\ enabled = TRUE /\ last_enabled = TRUE /\ method_changed = FALSE
        /\ client \in ClientKinds /\ requests = <<>> /\ dirty = FALSE
        /\ keys = 0 /\ duplicates = 0 /\ events = 0
    BY Zenon DEF Init
  <2>2. requests \in Seq(Request) /\ frames \in Seq(Frame)
    BY <1>10, <2>1
  <2>3. keys \in Nat /\ duplicates \in Nat /\ events \in Nat
    BY <2>1
  <2> QED BY ONLY <1>3, <1>8, <2>1, <2>2, <2>3 DEF TypeOK
<1>12. SessionHasComposer
  BY DEF Init, SessionHasComposer
<1>13. FramesAlternate
  <2>1. Activated(1 + 1)
    <3>1. 1 \in 1 .. ((1 + 1) - 1) /\ \A k \in (1 + 1) .. ((1 + 1) - 1) : FALSE
      OBVIOUS
    <3> QED BY <1>9, <1>10, <3>1 DEF Activated
  <2> QED BY <1>9, <1>10, <2>1 DEF FramesAlternate
<1> QED
  BY <1>11, <1>12, <1>13

(* Types, sessions and the order of the frames, together.                  *)
LEMMA SessionAlwaysTyped == Spec => [](TypeOK /\ SessionHasComposer /\ FramesAlternate)
<1> DEFINE I == TypeOK /\ SessionHasComposer /\ FramesAlternate
<1>1. Init => I
  BY SessionInit
<1>2. I /\ [Next]_vars => I'
  <2>1. ASSUME I, Next PROVE I'
    <3>1. CASE Dispatch
      BY <2>1, <3>1, DispatchTyped
    <3>2. CASE \/ \E ch \in Typed : TypeKey(ch)
               \/ PressBackspace \/ PressNav \/ PressOther
      BY <2>1, <3>2, KeysTyped
    <3>3. CASE \/ ClientTakes \/ ClientReports \/ Click \/ Complete \/ Erase
               \/ Toggle \/ ChangeMethod \/ Refocus \/ ToplevelFocus \/ WindowCloses \/ Idle
      BY <2>1, <3>3, DesktopTyped
    <3> QED BY <2>1, <3>1, <3>2, <3>3 DEF Next
  <2>2. ASSUME I, UNCHANGED vars PROVE I'
    BY <2>2 DEF vars, TypeOK, SessionHasComposer, FramesAlternate, Activated, Real
  <2> QED BY <2>1, <2>2
<1> QED
  BY <1>1, <1>2, PTL DEF Spec

(* Every variable of the session keeps its type: composers, requests and   *)
(* frames stay well-formed for every engine, text and number of keys.      *)
THEOREM WaylandTypeCorrect == Spec => []TypeOK
  BY SessionAlwaysTyped, PTL

(* The Router has a composer exactly while a session is active, and a      *)
(* synthetic session is an active one: on_done_frame and on_focus_changed  *)
(* begin and end sessions in any interleaving of the compositor's focus    *)
(* changes with the toplevel tracker's, as long as the compositor          *)
(* deactivates only what it has activated (FramesAlternate).               *)
THEOREM SessionHasComposerTheorem == Spec => []SessionHasComposer
  BY SessionAlwaysTyped, PTL

=============================================================================
