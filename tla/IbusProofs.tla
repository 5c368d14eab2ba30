----------------------------- MODULE IbusProofs -----------------------------
(***************************************************************************)
(* What TLAPS proves of IbusSession, for every engine, every alphabet and  *)
(* any number of keys, events and focus changes: the types, that           *)
(* DeleteSurroundingText follows the declared capability, and that a       *)
(* client that drops deletes loses at most one of them.                    *)
(*                                                                         *)
(* The last needs the order of the calls that wait (Queued): keys wait     *)
(* behind every focus change, a focus_in behind the focus_out or disable   *)
(* that ends the session before it, and a report of the client that lost   *)
(* the focus before that focus_out. With it, LostAccounted relates the     *)
(* deletes that were lost to the corrections the composer has counted:     *)
(* once one was lost, the composer knows of a correction without an echo,  *)
(* unless the composition has started afresh since.                        *)
(***************************************************************************)
EXTENDS IbusSession, ComposerTypes, SequenceTheorems

-----------------------------------------------------------------------------
(* The buffers of the sink.                                                *)

(* One buffer of the sink holds edits, and no deletion if it was given     *)
(* none: by induction on the requests (crates/ibus-adapter/src/sink.rs).   *)
LEMMA BufferedTyped ==
  ASSUME NEW out \in Seq(Edits), NEW op \in {"delete", "backspace", "text"}
  PROVE  /\ Buffered(op, out) \in Seq(Edits)
         /\ Harmless(out) => Harmless(Buffered(op, out))
<1> DEFINE S == {s \in Seq(Edits) : Harmless(out) => Harmless(s)}
           m == Len(out)
           step == [p \in S \X (1 .. m) |->
                      IF Buffers(op, out[p[2]]) THEN Append(p[1], out[p[2]]) ELSE p[1]]
           Solves(it) == it = [s \in SUBSET (1 .. m) |->
                                 IF s = {} THEN <<>>
                                 ELSE IF Buffers(op, out[Max(s)])
                                      THEN Append(it[s \ {Max(s)}], out[Max(s)])
                                      ELSE it[s \ {Max(s)}]]
           it == CHOOSE it : Solves(it)
<1>1. /\ <<>> \in S /\ m \in Nat /\ DOMAIN out = 1 .. m
      /\ \A i \in 1 .. m : out[i] \in Edits
  BY DEF Harmless
<1>2. ASSUME NEW a \in S, NEW i \in 1 .. m PROVE Append(a, out[i]) \in S
  <2>1. Append(a, out[i]) \in Seq(Edits)
    BY <1>1
  <2>2. ASSUME Harmless(out) PROVE Harmless(Append(a, out[i]))
    <3>1. Harmless(a) /\ (out[i].op = "delete" => out[i].chars = 0)
      BY <1>1, <2>2 DEF Harmless
    <3>2. \A j \in DOMAIN Append(a, out[i]) :
            \/ j \in DOMAIN a /\ Append(a, out[i])[j] = a[j]
            \/ Append(a, out[i])[j] = out[i]
      OBVIOUS
    <3> QED BY <3>1, <3>2 DEF Harmless
  <2> QED BY <2>1, <2>2
<1>3. step \in [S \X (1 .. m) -> S]
  BY <1>1, <1>2
<1> HIDE DEF m, S
<1>4. \E f : Solves(f)
  <2> HIDE DEF step
  <2>1. PICK f : Folds(f, S, <<>>, m, step)
    BY <1>1, <1>3, SetRecursion
  <2>2. ASSUME NEW s \in SUBSET (1 .. m), s # {}
        PROVE  step[<<f[s \ {Max(s)}], Max(s)>>]
                 = IF Buffers(op, out[Max(s)])
                   THEN Append(f[s \ {Max(s)}], out[Max(s)]) ELSE f[s \ {Max(s)}]
    <3>1. Max(s) \in 1 .. m
      <4>1. s \in SUBSET (0 .. m)
        BY <1>1
      <4>2. Max(s) \in s
        BY <1>1, <2>2, <4>1, MaxOfSubset
      <4> QED BY <4>2
    <3>2. f[s \ {Max(s)}] \in S
      BY <2>1 DEF Folds
    <3> QED BY <3>1, <3>2 DEF step
  <2>3. Solves(f)
    BY <2>1, <2>2 DEF Folds
  <2> QED BY <2>3
<1>5. Solves(it)
  BY <1>4
<1>6. Buffered(op, out) = it[1 .. m]
  BY <1>1 DEF Buffered, FoldLeft, MapThenFoldSet, m
<1> HIDE DEF it
<1>7. it[{}] \in S
  BY <1>1, <1>5
<1>8. ASSUME NEW n \in 1 .. m, it[1 .. (n - 1)] \in S PROVE it[1 .. n] \in S
  <2>1. 1 .. n # {} /\ Max(1 .. n) = n /\ (1 .. n) \ {Max(1 .. n)} = 1 .. (n - 1)
    <3>1. n \in Nat /\ n # 0
      BY <1>1
    <3> QED BY <3>1, LastOfInterval
  <2>2. 1 .. n \in SUBSET (1 .. m)
    BY <1>1
  <2>3. it[1 .. n] = IF Buffers(op, out[n]) THEN Append(it[1 .. (n - 1)], out[n])
                     ELSE it[1 .. (n - 1)]
    BY <1>5, <2>1, <2>2
  <2> QED BY <1>2, <1>8, <2>3
<1>9. it[1 .. m] \in S
  BY <1>1, <1>7, <1>8, FoldInduction
<1> QED
  BY <1>6, <1>9 DEF S

(* Two outputs that delete nothing, one after the other.                   *)
LEMMA HarmlessConcat ==
  ASSUME NEW a \in Seq(Edits), NEW b \in Seq(Edits)
  PROVE  a \o b \in Seq(Edits) /\ (Harmless(a) /\ Harmless(b) => Harmless(a \o b))
<1>1. \A j \in DOMAIN (a \o b) : \/ j \in DOMAIN a /\ (a \o b)[j] = a[j]
                                 \/ j - Len(a) \in DOMAIN b /\ (a \o b)[j] = b[j - Len(a)]
  OBVIOUS
<1> QED BY <1>1 DEF Harmless

(* What the drained buffers emit: edits, in another order.                 *)
LEMMA EmissionTyped ==
  ASSUME NEW out \in Seq(Edits)
  PROVE  Emission(out) \in Seq(Edits) /\ (Harmless(out) => Harmless(Emission(out)))
  BY BufferedTyped, HarmlessConcat DEF Emission

-----------------------------------------------------------------------------
(* Key events.                                                             *)

(* d is a composer on the tier of c or on a lower one.                     *)
Lowers(c, d) == d \in Composers /\ d.method \in {c.method, "ForwardKey"}

(* apply_with_sink: a correction on the SurroundingText tier is counted as *)
(* unechoed, and the one that follows it goes through forwarded BackSpaces *)
(* instead.                                                                *)
LEMMA ApplyWithSinkTyped ==
  ASSUME NEW c \in Composers, NEW b \in Nat, NEW t \in Text
  PROVE  LET a == ApplyWithSink(c, b, t)
         IN  /\ Lowers(c, a.composer)
             /\ a.output \in Seq(Edits)
             /\ c.selected_before = 0 => a.composer.selected_before = 0
             /\ WithoutEcho(c) => WithoutEcho(a.composer)
             /\ c.selected_before = 0 /\ ~Harmless(a.output)
                  => ~WithoutEcho(c) /\ WithoutEcho(a.composer)
<1> DEFINE corrects == b > 0 /\ c.method = "SurroundingText"
           noted    == IF corrects THEN NoteCorrection(c) ELSE c
           routed   == IF corrects /\ AsksEchoDowngrade(c) THEN set_method(noted, "ForwardKey")
                       ELSE noted
           a == apply(routed, b, t)
<1>1. /\ noted \in Composers /\ noted.method = c.method
      /\ noted.selected_before = c.selected_before
      /\ corrects \/ WithoutEcho(c) => WithoutEcho(noted)
  BY NoteCorrectionTyped DEF WithoutEcho
<1>2. WithoutEcho(c) => AsksEchoDowngrade(c)
  BY DEF AsksEchoDowngrade, EchoLimit, Composers, IbusQuirk
<1> HIDE DEF noted
<1>3. /\ routed \in Composers /\ routed.method \in {c.method, "ForwardKey"}
      /\ routed.selected_before = c.selected_before
      /\ corrects \/ WithoutEcho(c) => WithoutEcho(routed)
      /\ corrects /\ AsksEchoDowngrade(c) => routed.method = "ForwardKey"
  BY <1>1, SetMethodTyped DEF Tier, WithoutEcho
<1> HIDE DEF routed
<1>4. /\ a.composer \in Composers /\ a.composer.method = routed.method
      /\ a.composer.selected_before \in {0, routed.selected_before}
      /\ a.composer.ibus = routed.ibus
      /\ a.output \in Seq(Edits)
      /\ routed.method = "ForwardKey" \/ (b = 0 /\ routed.selected_before = 0)
           => Harmless(a.output)
  BY <1>3, ApplyTyped DEF Leaves
<1> HIDE DEF a
<1>5. Emission(a.output) \in Seq(Edits) /\ (Harmless(a.output) => Harmless(Emission(a.output)))
  BY <1>4, EmissionTyped
<1>6. WithoutEcho(routed) => WithoutEcho(a.composer)
  BY <1>4 DEF WithoutEcho
<1>7. routed.method \in Tier
  BY <1>3 DEF Composers
<1>8. ASSUME c.selected_before = 0, ~Harmless(Emission(a.output))
      PROVE  corrects /\ ~WithoutEcho(c)
  <2>1. routed.method # "ForwardKey" /\ b # 0
    BY <1>3, <1>4, <1>5, <1>8
  <2>2. c.method = "SurroundingText"
    BY <1>3, <1>7, <2>1 DEF Tier
  <2> QED BY <1>2, <1>3, <2>1, <2>2
<1> QED
  BY <1>3, <1>4, <1>5, <1>6, <1>8 DEF ApplyWithSink, Lowers, noted, routed, a


(* The calls of ProcessKeyEvent.                                           *)
KeyCalls == {call \in Call : call.op \in KeyOps}

(* A key the client handles itself deletes nothing.                        *)
LEMMA RawReplyTyped ==
  ASSUME NEW call \in KeyCalls
  PROVE  RawReply(call) \in Seq(Signal) /\ Harmless(RawReply(call))
<1> DEFINE newline == CHOOSE ch \in Boundary : TRUE
<1>1. newline \in Char
  BY CharAssumption
<1>2. call.op = "key" => call.ch \in Char
  BY DEF KeyCalls, Call, KeyOps
<1>3. \A ch \in Char : <<[op |-> "key", ch |-> ch]>> \in Seq(Signal)
  BY DEF Signal
<1>4. /\ <<BackspaceKey>> \in Seq(Signal) /\ <<[op |-> "move"]>> \in Seq(Signal)
      /\ <<>> \in Seq(Signal)
  BY DEF Signal, BackspaceKey
<1>5. call.op \in KeyOps
  BY DEF KeyCalls
<1> HIDE DEF newline
<1>6. CASE call.op = "key"
  BY <1>2, <1>3, <1>6 DEF RawReply, Harmless
<1>7. CASE call.op = "backspace"
  BY <1>4, <1>7 DEF RawReply, Harmless, BackspaceKey
<1>8. CASE call.op = "nav"
  BY <1>4, <1>8 DEF RawReply, Harmless
<1>9. CASE call.op = "enter"
  <2>1. RawReply(call) = <<[op |-> "key", ch |-> newline]>>
    BY <1>9 DEF RawReply, newline
  <2> QED BY <1>1, <1>3, <2>1 DEF Harmless
<1>10. CASE call.op \in {"esc", "modifier"}
  <2>1. RawReply(call) = <<>>
    BY <1>10 DEF RawReply
  <2> QED BY <1>4, <2>1 DEF Harmless
<1> QED BY <1>5, <1>6, <1>7, <1>8, <1>9, <1>10 DEF KeyOps

(* What an answer to a key promises of the composer it leaves.             *)
Answers(c, a) ==
  /\ Lowers(c, a.composer)
  /\ a.output \in Seq(Signal)
  /\ c.selected_before = 0 => a.composer.selected_before = 0
  /\ c.selected_before = 0 /\ ~Harmless(a.output) => ~WithoutEcho(c) /\ WithoutEcho(a.composer)

(* A decision of the composer, carried out or passed on.                   *)
LEMMA DecidedTyped ==
  ASSUME NEW c \in Composers, NEW fed, Leaves(c, fed.composer), fed.decision \in Decisions,
         NEW call \in KeyCalls
  PROVE  LET a == Decided(fed, call)
         IN  Answers(c, a) /\ (WithoutEcho(c) => WithoutEcho(a.composer))
<1> DEFINE d == fed.composer
           b == fed.decision.backspaces
           t == fed.decision.commit
           a == ApplyWithSink(d, b, t)
<1>1. /\ d \in Composers /\ d.method = c.method /\ d.ibus = c.ibus
      /\ d.selected_before \in {0, c.selected_before}
  BY DEF Leaves
<1>2. b \in Nat /\ t \in Text
  BY DEF Decisions
<1>3. WithoutEcho(d) <=> WithoutEcho(c)
  BY <1>1 DEF WithoutEcho
<1> HIDE DEF b, t, d
<1>4. /\ Lowers(d, a.composer)
      /\ a.output \in Seq(Edits)
      /\ d.selected_before = 0 => a.composer.selected_before = 0
      /\ WithoutEcho(d) => WithoutEcho(a.composer)
      /\ d.selected_before = 0 /\ ~Harmless(a.output)
           => ~WithoutEcho(d) /\ WithoutEcho(a.composer)
  BY <1>1, <1>2, ApplyWithSinkTyped
<1> HIDE DEF a
<1>5. Edits \subseteq Signal
  BY DEF Edits, Signal
<1>6. a.output \in Seq(Signal)
  BY <1>4, <1>5
<1>7. Answers(c, a) /\ (WithoutEcho(c) => WithoutEcho(a.composer))
  BY <1>1, <1>3, <1>4, <1>6 DEF Answers, Lowers
<1>8. /\ RawReply(call) \in Seq(Signal) /\ Harmless(RawReply(call))
  BY RawReplyTyped
<1>9. Raw(d, call) = [composer |-> d, output |-> RawReply(call)]
  BY DEF Raw
<1>10. Answers(c, Raw(d, call)) /\ (WithoutEcho(c) => WithoutEcho(Raw(d, call).composer))
  BY <1>1, <1>3, <1>8, <1>9 DEF Answers, Lowers
<1>11. Decided(fed, call) = IF fed.decision.kind = "Apply" THEN a ELSE Raw(d, call)
  BY DEF Decided, a, b, t, d
<1> QED
  BY <1>7, <1>10, <1>11

(* A key that is passed on.                                                *)
LEMMA RawTyped ==
  ASSUME NEW c \in Composers, NEW d, Leaves(c, d), NEW call \in KeyCalls
  PROVE  /\ Answers(c, Raw(d, call)) /\ Harmless(Raw(d, call).output)
         /\ WithoutEcho(c) => WithoutEcho(Raw(d, call).composer)
<1>1. RawReply(call) \in Seq(Signal) /\ Harmless(RawReply(call))
  BY RawReplyTyped
<1>2. Raw(d, call) = [composer |-> d, output |-> RawReply(call)]
  BY DEF Raw
<1>3. WithoutEcho(c) => WithoutEcho(d)
  BY DEF WithoutEcho, Leaves
<1> QED
  BY <1>1, <1>2, <1>3 DEF Answers, Lowers, Leaves

(* A full reset and a deferred action.                                     *)
LEMMA EndWordTyped ==
  ASSUME NEW c \in Composers
  PROVE  LET d == EndWord(c) IN Lowers(c, d) /\ d.selected_before = 0
<1> DEFINE e == full_reset(c)
<1>1. e \in Composers /\ e.method = c.method /\ e.selected_before = 0
  BY FullResetTyped
<1> HIDE DEF e
<1>2. Leaves(e, defer_action(e))
  BY <1>1, ClockLeaves
<1> QED
  BY <1>1, <1>2 DEF EndWord, Lowers, Leaves, e

(* process_key: it may lower the tier, never raise it; and with a          *)
(* correction unechoed it deletes nothing, unless the composition starts   *)
(* afresh.                                                                 *)
LEMMA AnswerTyped ==
  ASSUME NEW c \in Composers, NEW call \in KeyCalls, enabled \in BOOLEAN
  PROVE  LET a == Answer(c, call)
         IN  /\ Answers(c, a)
             /\ WithoutEcho(c) /\ ~(enabled /\ call.op \in WordEnders)
                  => WithoutEcho(a.composer)
             /\ enabled /\ call.op \in WordEnders => Harmless(a.output)
<1>1. c # None
  BY NoneAssumption
<1>2. CASE ~enabled \/ suspended
  <2>1. Answer(c, call) = Raw(c, call)
    BY <1>2 DEF Answer
  <2> QED BY <2>1, RawTyped, LeavesReflexive
<1>3. CASE enabled /\ ~suspended /\ call.op \in WordEnders
  <2>1. Answer(c, call) = [composer |-> EndWord(c), output |-> RawReply(call)]
    BY <1>1, <1>3 DEF Answer, Raw, WordEnders
  <2>2. RawReply(call) \in Seq(Signal) /\ Harmless(RawReply(call))
    BY RawReplyTyped
  <2>3. Lowers(c, EndWord(c)) /\ EndWord(c).selected_before = 0
    BY EndWordTyped
  <2> QED BY <1>3, <2>1, <2>2, <2>3 DEF Answers
<1>4. CASE enabled /\ ~suspended /\ call.op = "esc"
  <2>1. Answer(c, call) = Raw(defer_action(c), call)
    BY <1>1, <1>4 DEF Answer, WordEnders
  <2>2. Leaves(c, defer_action(c))
    BY ClockLeaves
  <2> QED BY <1>4, <2>1, <2>2, RawTyped DEF WordEnders
<1>5. CASE enabled /\ ~suspended /\ call.op = "backspace"
  <2>1. Answer(c, call) = Decided(feed_backspace(c), call)
    BY <1>1, <1>5 DEF Answer, WordEnders
  <2>2. call.op \notin WordEnders
    BY <1>5 DEF WordEnders
  <2> QED BY <2>1, <2>2, FeedBackspaceLeaves, DecidedTyped
<1>6. CASE enabled /\ ~suspended /\ call.op = "key"
  <2> DEFINE m == mark_action(c)
             fed == feed_key(m, call.ch)
  <2>1. Answer(c, call) = Decided(fed, call)
    BY <1>1, <1>6 DEF Answer, WordEnders
  <2>2. call.op \notin WordEnders
    BY <1>6 DEF WordEnders
  <2>3. call.ch \in Char
    BY <1>6 DEF KeyCalls, Call, KeyOps
  <2>4. Leaves(c, m) /\ m \in Composers
    BY ClockLeaves, LeavesTyped
  <2> HIDE DEF m
  <2>5. Leaves(m, fed.composer) /\ fed.decision \in Decisions
    BY <2>3, <2>4, FeedKeyLeaves
  <2>6. Leaves(c, fed.composer)
    BY <2>4, <2>5, LeavesTransitive
  <2> HIDE DEF fed
  <2> QED BY <2>1, <2>2, <2>5, <2>6, DecidedTyped
<1>7. call.op \in KeyOps
  BY DEF KeyCalls
<1> QED
  BY <1>2, <1>3, <1>4, <1>5, <1>6, <1>7 DEF KeyOps, WordEnders

(* What process_key does before it looks at the key keeps the tier, and    *)
(* the counted corrections unless it resets the composition.               *)
LEMMA BeforeKeyTyped ==
  ASSUME composer \in Composers
  PROVE  LET c == BeforeKey
         IN  /\ c \in Composers /\ c.method = composer.method
             /\ c.selected_before \in {0, composer.selected_before}
             /\ ~method_changed /\ ~GateResets => c.ibus = composer.ibus
<1> DEFINE c1 == IF method_changed THEN full_reset(composer) ELSE composer
           c2 == check_idle_reset(c1)
<1>1. composer # None
  BY NoneAssumption
<1>2. /\ c1 \in Composers /\ c1.method = composer.method
      /\ c1.selected_before \in {0, composer.selected_before}
      /\ ~method_changed => c1.ibus = composer.ibus
  BY FullResetTyped
<1>3. c1 # None
  BY <1>2, NoneAssumption
<1> HIDE DEF c1
<1>4. /\ c2 \in Composers /\ c2.method = composer.method
      /\ c2.selected_before \in {0, composer.selected_before}
      /\ ~method_changed => c2.ibus = composer.ibus
  BY <1>2, CheckIdleLeaves DEF Leaves
<1>5. c2 # None
  BY <1>4, NoneAssumption
<1> HIDE DEF c2
<1>6. BeforeKey = IF GateResets THEN full_reset(c2) ELSE c2
  BY <1>1, <1>3, <1>5 DEF BeforeKey, c1, c2
<1>7. /\ full_reset(c2) \in Composers /\ full_reset(c2).method = composer.method
      /\ full_reset(c2).selected_before = 0
  BY <1>4, FullResetTyped
<1> QED
  BY <1>4, <1>6, <1>7

(* No session: nothing to reset.                                           *)
LEMMA BeforeKeyNone == composer = None => BeforeKey = None
  BY DEF BeforeKey

(* update_ibus_method changes the tier alone.                              *)
LEMMA UpdateMethodTyped ==
  ASSUME NEW c \in Composers, NEW m \in Tier
  PROVE  LET d == UpdateMethod(c, m)
         IN  /\ d \in Composers /\ d.method = m
             /\ d.selected_before = c.selected_before /\ d.ibus = c.ibus
<1>1. c # None
  BY NoneAssumption
<1> QED BY <1>1, SetMethodTyped DEF UpdateMethod

(* A surrounding-text frame may lower the tier, never raise it.            *)
LEMMA ObserveTyped ==
  ASSUME NEW c \in Composers, NEW f \in Surrounding
  PROVE  Lowers(c, ObserveSurrounding(c, f))
<1> DEFINE s == mark_surrounding_frame_seen(c)
           w == Watchdog(s, f, FALSE)
           r == Watched(c, f)
           o == apply_surrounding(r, f, FALSE).composer
<1>1. s \in Composers /\ s.method = c.method
  BY FrameSeenTyped
<1> HIDE DEF s
<1>2. w \in Composers /\ w.method \in {c.method, "ForwardKey"}
  BY <1>1, WatchdogTyped
<1> HIDE DEF w
<1>3. r \in Composers /\ r.method = w.method
  BY <1>2, RevalidateLeaves DEF Leaves, Watched, s, w
<1> HIDE DEF r
<1>4. o \in Composers /\ o.method = r.method
  BY <1>3, ApplySurroundingTyped DEF SameTier
<1> HIDE DEF o
<1>5. ObserveSurrounding(c, f) = IF Dropped(c, f) THEN r ELSE o
  BY DEF ObserveSurrounding, r, o
<1> QED
  BY <1>2, <1>3, <1>4, <1>5 DEF Lowers


-----------------------------------------------------------------------------
(* Types.                                                                  *)

(* A client that takes a request still has a field.                        *)
LEMMA TakeTyped ==
  ASSUME NEW kind, NEW f \in Surrounding, NEW s \in Signal
  PROVE  Take(kind, f, s) \in Surrounding
<1>1. s \in FieldRequests
  BY DEF Signal, FieldRequests
<1>2. s.op = "delete" => s.chars \in Nat
  BY DEF Signal
<1> QED
  BY <1>1, <1>2, TakeKeyTyped, DeleteCharsTyped DEF Take

(* The history of a focused field.                                         *)
LEMMA HistoryOfTyped ==
  ASSUME NEW kind, NEW text \in Text PROVE HistoryOf(kind, text) \in Histories
<1>1. current_word(text) \in Text
  BY CurrentWordTyped
<1>2. feed_context_gated(current_word(text)) \in EngineStates
  BY <1>1, SeedTyped
<1> QED
  BY <1>2 DEF HistoryOf, Histories

(* The history after a key: a deletion is lost at most once more, and what *)
(* deletes nothing loses nothing.                                          *)
LEMMA RememberedTyped ==
  ASSUME TypeOK, NEW c, NEW call \in KeyCalls, NEW output
  PROVE  LET h == Remembered(c, call, output)
         IN  /\ h \in Histories
             /\ Restarts(call) \/ history.lost = 0 => h.lost \in {0, 1}
             /\ client # "functional" /\ Harmless(output) =>
                  h.lost = IF Restarts(call) THEN 0 ELSE history.lost
<1> DEFINE idle == composer # None /\ composer.idle /\ c # None /\ c.method = "ForwardKey"
           h    == IF idle THEN [history EXCEPT !.engine = Fresh] ELSE history
           drops  == /\ client # "functional"
                     /\ \E i \in DOMAIN output : output[i].op = "delete" /\ output[i].chars > 0
           lost   == (IF Restarts(call) THEN 0 ELSE h.lost) + (IF drops THEN 1 ELSE 0)
           missed == ~Restarts(call) /\ (h.missed \/ (~enabled /\ c # None /\ c.engine # Fresh))
           g == IF call.op = "key" THEN IdealKey(h, call.ch) ELSE h
           plain == g.plain /\ call.op = "key" /\ SettledKey(c, call)
<1>1. h \in Histories /\ h.lost = history.lost
  BY EngineAssumption DEF TypeOK, Histories
<1>7. drops /\ Harmless(output) => FALSE
  BY DEF Harmless
<1> HIDE DEF h, idle, drops
<1>2. lost \in Nat /\ missed \in BOOLEAN
  BY <1>1 DEF Histories
<1>8. /\ Restarts(call) \/ history.lost = 0 => lost \in {0, 1}
      /\ Harmless(output) => lost = IF Restarts(call) THEN 0 ELSE history.lost
  BY <1>1, <1>7 DEF TypeOK, Histories
<1> HIDE DEF lost, missed
<1>3. g \in Histories
  <2> SUFFICES ASSUME call.op = "key" PROVE IdealKey(h, call.ch) \in Histories
    BY <1>1
  <2> DEFINE r == VnKey(h.engine, call.ch)
             t == IF r.consumed THEN DropLast(h.text, r.backspaces) \o r.commit
                                ELSE Append(h.text, call.ch)
  <2>1. call.ch \in Char
    BY DEF KeyCalls, Call, KeyOps
  <2>2. h.engine \in EngineStates /\ h.text \in Text
    BY <1>1 DEF Histories
  <2>3. r.engine \in EngineStates /\ t \in Text
    BY <2>1, <2>2, IdealKeyTyped
  <2>4. IdealKey(h, call.ch) = [h EXCEPT !.engine = r.engine, !.text = t]
    BY <1>1 DEF IdealKey, Histories
  <2> HIDE DEF r, t
  <2> QED BY <1>1, <2>3, <2>4 DEF Histories
<1> HIDE DEF g
<1>4. plain \in BOOLEAN
  OBVIOUS
<1> HIDE DEF plain
<1> DEFINE misread == g.misread /\ ~Restarts(call)
           r == [g EXCEPT !.plain = plain, !.lost = lost, !.missed = missed,
                          !.misread = misread]
<1>5. r \in Histories /\ r.lost = lost
  BY <1>2, <1>3, <1>4 DEF Histories
<1>6. Remembered(c, call, output) = r
  BY DEF Remembered, idle, h, drops, lost, missed, g, plain
<1> HIDE DEF r
<1> QED
  BY <1>5, <1>6, <1>8

(* The initial states are well-formed.                                     *)
LEMMA InitTyped == ASSUME Init PROVE TypeOK
<1>1. PICK text \in StartTexts : field = FieldWith(text) /\ history = HistoryOf(client, text)
  BY DEF Init
<1>2. text \in Text
  BY IbusAssumption DEF Text
<1>3. field \in Surrounding /\ history \in Histories
  BY <1>1, <1>2, FieldWithTyped, HistoryOfTyped
<1>4. calls \in Seq(Call) /\ signals \in Seq(Signal)
  <2>1. [op |-> "focus_in"] \in Call
    BY DEF Call
  <2>2. Declares(client) \in BOOLEAN
    BY DEF Declares
  <2>3. [op |-> "capabilities", surrounding |-> Declares(client)] \in Call
    BY <2>2 DEF Call
  <2> QED BY <2>1, <2>3 DEF Init
<1> QED
  BY <1>3, <1>4 DEF Init, TypeOK

(* The call at the head of the queue, and the rest.                        *)
LEMMA ServedTyped ==
  ASSUME TypeOK, calls # <<>>
  PROVE  Head(calls) \in Call /\ Tail(calls) \in Seq(Call)
  BY TailFacts DEF TypeOK

(* What the client, the user and the desktop do leaves everything well-    *)
(* formed ...                                                              *)
LEMMA EnvironmentTyped ==
  ASSUME TypeOK,
         \/ ClientTakes \/ ClientReports \/ \E ch \in Typed : TypeKey(ch)
         \/ \E op \in (KeyOps \ {"key"}) \cup {"reset"} : PressOther(op)
         \/ Click \/ CapsFlap \/ Refocus \/ Toggle \/ Suspend \/ ChangeMethod
  PROVE  TypeOK'
<1> USE DEF router, caps, flags, desktop, bounds
<1>1. CASE ClientTakes
  <2>1. Head(signals) \in Signal /\ Tail(signals) \in Seq(Signal)
    BY <1>1, TailFacts DEF TypeOK, ClientTakes
  <2>2. field' \in Surrounding
    BY <1>1, <2>1, TakeTyped DEF TypeOK, ClientTakes
  <2>3. client \in AllClientKinds
    BY IbusAssumption DEF TypeOK
  <2>4. Reports(client, Head(signals)) \in BOOLEAN
    BY <2>3 DEF Reports, AllClientKinds
  <2>5. dirty' \in BOOLEAN
    BY <1>1, <2>4 DEF TypeOK, ClientTakes
  <2> QED BY <1>1, <2>1, <2>2, <2>5 DEF TypeOK, ClientTakes
<1>2. CASE ClientReports
  <2> DEFINE call == [op |-> "surrounding",
                      frame |-> IF client = "dead" THEN NoSurrounding ELSE field]
  <2>1. call \in Call
    BY NoSurroundingTyped DEF Call, TypeOK
  <2>2. calls' = Append(calls, call)
    BY <1>2 DEF ClientReports
  <2> HIDE DEF call
  <2>3. calls' \in Seq(Call)
    BY <2>1, <2>2 DEF TypeOK
  <2> QED BY <1>2, <2>3 DEF TypeOK, ClientReports
<1>3. CASE \E ch \in Typed : TypeKey(ch)
  <2>1. PICK ch \in Typed : TypeKey(ch)
    BY <1>3
  <2>2. [op |-> "key", ch |-> ch] \in Call
    BY IbusAssumption DEF Call
  <2>3. calls' \in Seq(Call) /\ keys' \in Nat
    BY <2>1, <2>2 DEF TypeOK, TypeKey
  <2> QED BY <2>1, <2>3 DEF TypeOK, TypeKey
<1>4. CASE \E op \in (KeyOps \ {"key"}) \cup {"reset"} : PressOther(op)
  <2>1. PICK op \in (KeyOps \ {"key"}) \cup {"reset"} : PressOther(op)
    BY <1>4
  <2>2. [op |-> op] \in Call
    BY DEF Call
  <2>3. calls' \in Seq(Call) /\ events' \in Nat
    BY <2>1, <2>2 DEF TypeOK, PressOther, Event
  <2> QED BY <2>1, <2>3 DEF TypeOK, PressOther
<1>5. CASE Click
  <2>1. PICK p \in 0 .. Len(field.text) : field' = [field EXCEPT !.cursor = p, !.anchor = p]
    BY <1>5 DEF Click
  <2>2. /\ history' = [history EXCEPT !.plain = FALSE]
        /\ dirty' = TRUE /\ events' = events + 1
        /\ UNCHANGED <<router, caps, flags, client, calls, signals, keys>>
    BY <1>5 DEF Click, Event
  <2>3. field' \in Surrounding
    <3> DEFINE n == Len(field.text)
    <3>1. /\ field.text \in Text
          /\ field \in [text : Text, cursor : Nat, anchor : Nat]
      BY DEF TypeOK, Surrounding
    <3>2. n \in Nat
      BY <3>1 DEF Text
    <3> HIDE DEF n
    <3>3. p \in Nat /\ p <= n
      BY <2>1, <3>2 DEF n
    <3>4. field' \in [text : Text, cursor : Nat, anchor : Nat]
          /\ field'.text = field.text /\ field'.cursor = p /\ field'.anchor = p
      BY <2>1, <3>1, <3>3
    <3> QED BY <3>3, <3>4 DEF Surrounding, n
  <2>4. history' \in Histories
    BY <2>2 DEF TypeOK, Histories
  <2> QED BY <2>2, <2>3, <2>4 DEF TypeOK
<1>6. CASE CapsFlap
  <2>1. PICK b \in BOOLEAN :
          /\ calls' = Append(calls, [op |-> "capabilities", surrounding |-> b])
          /\ history' = [history EXCEPT !.plain = @ /\ (b => client = "functional")]
    BY <1>6 DEF CapsFlap
  <2>2. [op |-> "capabilities", surrounding |-> b] \in Call
    BY DEF Call
  <2>3. calls' \in Seq(Call)
    BY <2>1, <2>2 DEF TypeOK
  <2>4. history' \in Histories
    BY <2>1 DEF TypeOK, Histories
  <2>5. events' \in Nat
    BY <1>6 DEF TypeOK, CapsFlap, Event
  <2> QED BY <1>6, <2>3, <2>4, <2>5 DEF TypeOK, CapsFlap
<1>7. CASE Refocus
  <2>1. PICK kind \in ClientKinds, text \in StartTexts, disabled \in BOOLEAN :
          /\ client' = kind /\ field' = FieldWith(text) /\ history' = HistoryOf(kind, text)
          /\ calls' = calls
               \o <<[op |-> "focus_out"]>>
               \o (IF disabled THEN <<[op |-> "disable"], [op |-> "enable"]>> ELSE <<>>)
               \o <<[op |-> "focus_in"], [op |-> "capabilities", surrounding |-> Declares(kind)]>>
    BY <1>7 DEF Refocus
  <2>2. text \in Text
    BY IbusAssumption DEF Text
  <2>3. field' \in Surrounding /\ history' \in Histories
    BY <2>1, <2>2, FieldWithTyped, HistoryOfTyped
  <2>4. /\ [op |-> "focus_out"] \in Call /\ [op |-> "disable"] \in Call
        /\ [op |-> "enable"] \in Call /\ [op |-> "focus_in"] \in Call
    BY DEF Call
  <2>5. [op |-> "capabilities", surrounding |-> Declares(kind)] \in Call
    BY DEF Call, Declares
  <2>6. calls' \in Seq(Call)
    BY <2>1, <2>4, <2>5 DEF TypeOK
  <2>7. events' \in Nat
    BY <1>7 DEF TypeOK, Refocus, Event
  <2> QED BY <1>7, <2>1, <2>3, <2>6, <2>7 DEF TypeOK, Refocus
<1>8. CASE Toggle \/ Suspend \/ ChangeMethod
  <2>1. events' \in Nat
    BY <1>8 DEF TypeOK, Toggle, Suspend, ChangeMethod, Event
  <2> QED BY <1>8, <2>1 DEF TypeOK, Toggle, Suspend, ChangeMethod
<1> QED
  BY <1>1, <1>2, <1>3, <1>4, <1>5, <1>6, <1>7, <1>8


(* What a key event does to the composer: process_key_event.               *)
LEMMA KeyEventComposer ==
  ASSUME TypeOK, ProcessKeyEvent
  PROVE  LET call == Head(calls)
             c    == BeforeKey
             a    == Answer(c, call)
         IN  /\ call \in KeyCalls
             /\ a.output \in Seq(Signal)
             /\ composer = None => c = None /\ composer' = None /\ Harmless(a.output)
             /\ composer # None =>
                  /\ composer' # None /\ Lowers(composer, composer')
                  /\ c \in Composers /\ Answers(c, a) /\ composer' = a.composer
<1> DEFINE call == Head(calls)
           c == BeforeKey
           a == Answer(c, call)
<1>1. call \in KeyCalls
  BY ServedTyped DEF ProcessKeyEvent, KeyCalls
<1>2. composer' = a.composer
  BY DEF ProcessKeyEvent
<1>3. CASE composer = None
  <2>1. c = None
    BY <1>3, BeforeKeyNone
  <2> HIDE DEF c, call
  <2>2. a = [composer |-> c, output |-> RawReply(call)]
    BY <2>1 DEF Answer, Raw
  <2> HIDE DEF a
  <2>3. RawReply(call) \in Seq(Signal) /\ Harmless(RawReply(call))
    BY <1>1, RawReplyTyped
  <2> QED BY <1>1, <1>2, <1>3, <2>1, <2>2, <2>3 DEF a, c, call
<1>4. CASE composer # None
  <2>1. composer \in Composers
    BY <1>4 DEF TypeOK
  <2>2. c \in Composers /\ c.method = composer.method
    BY <2>1, BeforeKeyTyped
  <2>3. Answers(c, a)
    BY <1>1, <2>2, AnswerTyped DEF TypeOK
  <2>4. Lowers(composer, a.composer) /\ a.output \in Seq(Signal)
    BY <2>2, <2>3 DEF Answers, Lowers
  <2>5. a.composer # None
    BY <2>4, NoneAssumption DEF Lowers
  <2> HIDE DEF a, c, call
  <2> QED BY <1>1, <1>2, <1>4, <2>2, <2>3, <2>4, <2>5 DEF a, c, call
<1> QED
  BY <1>3, <1>4

(* ... and so does what the engine does.                                   *)
LEMMA EngineTyped ==
  ASSUME TypeOK,
         \/ ProcessKeyEvent \/ FocusIn \/ Enable \/ Deactivate \/ Reset
         \/ SetCapabilities \/ SetSurroundingText \/ WindowCloses \/ Idle
  PROVE  TypeOK'
<1> USE DEF router, caps, flags, desktop, bounds
<1>1. composer # None => composer \in Composers
  BY DEF TypeOK
<1>2. [op |-> "require"] \in Signal
  BY DEF Signal
<1>3. CASE ProcessKeyEvent
  <2> DEFINE call == Head(calls)
             c == BeforeKey
             a == Answer(c, call)
  <2>1. /\ call \in KeyCalls /\ a.output \in Seq(Signal)
        /\ composer' \in Composers \cup {None}
        /\ composer # None <=> composer' # None
    BY <1>3, KeyEventComposer DEF Lowers
  <2>2. Remembered(c, call, a.output) \in Histories
    BY <2>1, RememberedTyped
  <2>3. history' \in Histories /\ signals' = signals \o a.output
    BY <1>3, <2>2 DEF ProcessKeyEvent
  <2> HIDE DEF a, c, call
  <2>4. signals' \in Seq(Signal)
    BY <2>1, <2>3 DEF TypeOK
  <2>5. calls' \in Seq(Call)
    BY <1>3, ServedTyped DEF ProcessKeyEvent
  <2>6. /\ last_enabled' = enabled /\ method_changed' = FALSE
        /\ UNCHANGED <<current_active, caps, flags, desktop, dirty, bounds>>
    BY <1>3 DEF ProcessKeyEvent
  <2> QED BY <2>1, <2>3, <2>4, <2>5, <2>6 DEF TypeOK
<1>4. CASE FocusIn
  <2> DEFINE new == NewComposer(method_for_capability(has_surrounding), FALSE)
  <2>1. new \in Composers /\ new # None
    BY NewComposerTyped DEF method_for_capability, Tier
  <2>2. composer' = IF current_active THEN composer ELSE new
    BY <1>4 DEF FocusIn
  <2> HIDE DEF new
  <2>3. calls' \in Seq(Call)
    BY <1>4, ServedTyped DEF FocusIn, Serve
  <2>4. signals' \in Seq(Signal)
    BY <1>2, <1>4 DEF FocusIn, TypeOK
  <2> QED BY <1>4, <2>1, <2>2, <2>3, <2>4 DEF TypeOK, FocusIn
<1>5. CASE Enable
  <2>1. calls' \in Seq(Call)
    BY <1>5, ServedTyped DEF Enable, Serve
  <2>2. signals' \in Seq(Signal)
    BY <1>2, <1>5 DEF Enable, TypeOK
  <2> QED BY <1>5, <2>1, <2>2 DEF TypeOK, Enable
<1>6. CASE Deactivate
  <2>1. calls' \in Seq(Call)
    BY <1>6, ServedTyped DEF Deactivate, Serve
  <2>2. history' \in Histories
    BY <1>6 DEF Deactivate, TypeOK, Histories
  <2> QED BY <1>6, <2>1, <2>2 DEF TypeOK, Deactivate
<1>7. CASE Reset
  <2>1. calls' \in Seq(Call)
    BY <1>7, ServedTyped DEF Reset, Serve
  <2>2. composer # None => full_reset(composer) \in Composers /\ full_reset(composer) # None
    BY <1>1, FullResetTyped, NoneAssumption
  <2>3. history' \in Histories
    BY <1>7 DEF Reset, TypeOK, Histories
  <2> QED BY <1>7, <2>1, <2>2, <2>3 DEF TypeOK, Reset
<1>8. CASE SetCapabilities
  <2> DEFINE b == Head(calls).surrounding
             m == method_for_capability(b)
  <2>1. calls' \in Seq(Call) /\ Head(calls) \in Call /\ Head(calls).op = "capabilities"
    BY <1>8, ServedTyped DEF SetCapabilities, Serve
  <2>2. b \in BOOLEAN
    BY <2>1 DEF Call, KeyOps
  <2>3. m \in Tier
    BY DEF method_for_capability, Tier
  <2>4. composer # None =>
          UpdateMethod(composer, m) \in Composers /\ UpdateMethod(composer, m) # None
    BY <1>1, <2>3, UpdateMethodTyped, NoneAssumption
  <2>5. composer = None => UpdateMethod(composer, m) = None
    BY DEF UpdateMethod
  <2>6. /\ has_surrounding' = b /\ caps_cleared_surrounding' = ~b
        /\ composer' = UpdateMethod(composer, m)
        /\ UNCHANGED <<current_active, last_enabled, method_changed, flags, desktop, signals,
                       dirty, bounds, history>>
    BY <1>8 DEF SetCapabilities
  <2> HIDE DEF b, m
  <2>7. has_surrounding' \in BOOLEAN /\ caps_cleared_surrounding' \in BOOLEAN
    BY <2>2, <2>6
  <2> QED BY <2>1, <2>4, <2>5, <2>6, <2>7 DEF TypeOK
<1>9. CASE SetSurroundingText
  <2> DEFINE upgrades == should_upgrade_on_surrounding
             c == IF upgrades THEN UpdateMethod(composer, "SurroundingText") ELSE composer
             f == Head(calls).frame
             d == ObserveSurrounding(c, f)
  <2>1. calls' \in Seq(Call) /\ Head(calls) \in Call /\ Head(calls).op = "surrounding"
    BY <1>9, ServedTyped DEF SetSurroundingText, Serve
  <2>2. f \in Surrounding
    BY <2>1 DEF Call, KeyOps
  <2>3. composer # None => c \in Composers /\ c # None
    BY <1>1, UpdateMethodTyped, NoneAssumption DEF Tier
  <2>4. composer = None => c = None
    BY DEF UpdateMethod
  <2>5. /\ has_surrounding' = (has_surrounding \/ upgrades)
        /\ composer' = IF c = None THEN None ELSE d
        /\ UNCHANGED <<current_active, caps_cleared_surrounding, last_enabled, method_changed,
                       flags, desktop, signals, dirty, bounds>>
        /\ history' = [history EXCEPT !.misread = c # None /\ Misread(c, f)]
    BY <1>9 DEF SetSurroundingText
  <2>6. upgrades \in BOOLEAN /\ (c # None /\ Misread(c, f)) \in BOOLEAN
    BY Zenon DEF should_upgrade_on_surrounding
  <2> HIDE DEF c, f, upgrades
  <2>7. c \in Composers => d \in Composers /\ d # None
    BY <2>2, ObserveTyped, NoneAssumption DEF Lowers
  <2> HIDE DEF d
  <2>8. has_surrounding' \in BOOLEAN
    BY <2>5, <2>6 DEF TypeOK
  <2>9. history' \in Histories
    BY <2>5, <2>6 DEF TypeOK, Histories
  <2> QED BY <2>1, <2>3, <2>4, <2>5, <2>7, <2>8, <2>9 DEF TypeOK
<1>10. CASE WindowCloses \/ Idle
  <2>1. composer # None /\ composer \in Composers
    BY <1>1, <1>10 DEF WindowCloses, Idle
  <2>2. composer' \in Composers
    BY <1>10, <2>1 DEF WindowCloses, Idle, Composers
  <2>3. composer' # None
    BY <2>2, NoneAssumption
  <2> QED BY <1>10, <2>1, <2>2, <2>3 DEF TypeOK, WindowCloses, Idle
<1> QED
  BY <1>3, <1>4, <1>5, <1>6, <1>7, <1>8, <1>9, <1>10

(* Every step keeps the types.                                             *)
LEMMA NextTyped == ASSUME TypeOK, [Next]_vars PROVE TypeOK'
<1>1. CASE Next
  BY <1>1, EnvironmentTyped, EngineTyped DEF Next
<1>2. CASE UNCHANGED vars
  BY <1>2 DEF TypeOK, vars
<1> QED
  BY <1>1, <1>2

(* Every variable keeps its type, and the session is active exactly while  *)
(* it has a composer, which activate_ibus relies on when it returns early  *)
(* (handler.rs): for every engine, client and number of keys.              *)
THEOREM IbusTypeCorrect == Spec => []TypeOK
<1>1. TypeOK /\ [Next]_vars => TypeOK'
  BY NextTyped
<1> QED
  BY <1>1, InitTyped, PTL DEF Spec

-----------------------------------------------------------------------------
(* The tier follows the capabilities.                                      *)

(* Every step keeps the tier below the declared capability: only           *)
(* update_ibus_method raises it, and it follows has_surrounding.           *)
LEMMA NextCapable ==
  ASSUME TypeOK, DeletesOnlyIfCapable, [Next]_vars PROVE DeletesOnlyIfCapable'
<1> USE DEF router, caps
<1>1. composer # None => composer \in Composers
  BY DEF TypeOK
<1>2. CASE UNCHANGED <<composer, caps>>
  BY <1>2 DEF DeletesOnlyIfCapable
<1>3. CASE ProcessKeyEvent
  <2>1. composer' # None => composer # None /\ composer'.method \in {composer.method, "ForwardKey"}
    BY <1>3, KeyEventComposer DEF Lowers
  <2>2. UNCHANGED caps
    BY <1>3 DEF ProcessKeyEvent
  <2> QED BY <2>1, <2>2 DEF DeletesOnlyIfCapable
<1>4. CASE FocusIn
  <2> DEFINE new == NewComposer(method_for_capability(has_surrounding), FALSE)
  <2>1. new.method = "SurroundingText" => has_surrounding
    BY DEF NewComposer, method_for_capability
  <2>2. /\ composer' = IF current_active THEN composer ELSE new
        /\ caps_cleared_surrounding' = FALSE /\ UNCHANGED has_surrounding
    BY <1>4 DEF FocusIn
  <2> HIDE DEF new
  <2> QED BY <2>1, <2>2 DEF DeletesOnlyIfCapable
<1>5. CASE Deactivate
  BY <1>5 DEF Deactivate, DeletesOnlyIfCapable
<1>6. CASE Reset
  <2>1. composer # None => full_reset(composer).method = composer.method
    BY <1>1, FullResetTyped
  <2> QED BY <1>6, <2>1 DEF Reset, DeletesOnlyIfCapable
<1>7. CASE SetCapabilities
  <2> DEFINE b == Head(calls).surrounding
             m == method_for_capability(b)
  <2>1. Head(calls) \in Call /\ Head(calls).op = "capabilities"
    BY <1>7, ServedTyped DEF SetCapabilities, Serve
  <2>2. b \in BOOLEAN
    BY <2>1 DEF Call, KeyOps
  <2>3. m \in Tier /\ (m = "SurroundingText" => b)
    BY DEF method_for_capability, Tier
  <2>4. composer # None => UpdateMethod(composer, m).method = m
    BY <1>1, <2>3, UpdateMethodTyped
  <2>5. composer = None => UpdateMethod(composer, m) = None
    BY DEF UpdateMethod
  <2>6. /\ has_surrounding' = b /\ caps_cleared_surrounding' = ~b
        /\ composer' = UpdateMethod(composer, m)
    BY <1>7 DEF SetCapabilities
  <2> HIDE DEF b, m
  <2> QED BY <2>2, <2>3, <2>4, <2>5, <2>6 DEF DeletesOnlyIfCapable
<1>8. CASE SetSurroundingText
  <2> DEFINE upgrades == should_upgrade_on_surrounding
             c == IF upgrades THEN UpdateMethod(composer, "SurroundingText") ELSE composer
             f == Head(calls).frame
             d == ObserveSurrounding(c, f)
  <2>1. Head(calls) \in Call /\ Head(calls).op = "surrounding"
    BY <1>8, ServedTyped DEF SetSurroundingText, Serve
  <2>2. f \in Surrounding
    BY <2>1 DEF Call, KeyOps
  <2>3. composer # None => c \in Composers /\ (~upgrades => c = composer)
    BY <1>1, UpdateMethodTyped DEF Tier
  <2>4. composer = None => c = None
    BY DEF UpdateMethod
  <2>5. /\ has_surrounding' = (has_surrounding \/ upgrades)
        /\ composer' = IF c = None THEN None ELSE d
        /\ UNCHANGED caps_cleared_surrounding
    BY <1>8 DEF SetSurroundingText
  <2>6. upgrades => ~caps_cleared_surrounding
    BY DEF should_upgrade_on_surrounding
  <2> HIDE DEF c, f, upgrades
  <2>7. c \in Composers => d.method \in {c.method, "ForwardKey"}
    BY <2>2, ObserveTyped DEF Lowers
  <2> HIDE DEF d
  <2>8. (composer # None /\ composer.method = "SurroundingText" => has_surrounding)
        /\ (caps_cleared_surrounding => ~has_surrounding)
    BY DEF DeletesOnlyIfCapable
  <2> QED BY <2>3, <2>4, <2>5, <2>6, <2>7, <2>8 DEF DeletesOnlyIfCapable
<1>9. CASE WindowCloses \/ Idle
  <2>1. composer # None /\ composer \in Composers
    BY <1>1, <1>9 DEF WindowCloses, Idle
  <2>2. composer'.method = composer.method /\ UNCHANGED caps
    BY <1>9, <2>1 DEF WindowCloses, Idle, Composers
  <2> QED BY <2>1, <2>2 DEF DeletesOnlyIfCapable
<1>10. CASE \/ ClientTakes \/ ClientReports \/ \E ch \in Typed : TypeKey(ch)
            \/ \E op \in (KeyOps \ {"key"}) \cup {"reset"} : PressOther(op)
            \/ Click \/ CapsFlap \/ Refocus \/ Toggle \/ Suspend \/ ChangeMethod \/ Enable
  BY <1>2, <1>10 DEF ClientTakes, ClientReports, TypeKey, PressOther, Click, CapsFlap, Refocus,
                     Toggle, Suspend, ChangeMethod, Enable
<1>11. CASE UNCHANGED vars
  BY <1>2, <1>11 DEF vars
<1> QED
  BY <1>3, <1>4, <1>5, <1>6, <1>7, <1>8, <1>9, <1>10, <1>11 DEF Next

(* DeleteSurroundingText is used only while the client is taken to have    *)
(* surrounding text, and SetSurroundingText never overrides a client that  *)
(* said it has none (should_upgrade_on_surrounding, engine.rs).            *)
THEOREM IbusDeletesOnlyIfCapable == Spec => []DeletesOnlyIfCapable
<1>1. Init => DeletesOnlyIfCapable
  BY DEF Init, DeletesOnlyIfCapable
<1>2. TypeOK /\ DeletesOnlyIfCapable /\ [Next]_vars => DeletesOnlyIfCapable'
  BY NextCapable
<1> QED
  BY <1>1, <1>2, IbusTypeCorrect, PTL DEF Spec


-----------------------------------------------------------------------------
(* The calls that wait.                                                    *)

(* The calls that end or start a session.                                  *)
FocusOps == {"focus_in", "focus_out", "disable"}

FocusPending == \E i \in DOMAIN calls : calls[i].op \in FocusOps

(* Keys are for the field that will have the focus: they wait behind every *)
(* focus change.                                                           *)
KeysLast ==
  \A i, j \in DOMAIN calls : calls[i].op \in KeyOps /\ calls[j].op \in FocusOps => j < i

(* A focus_in finds the last session ended, or will once the call before   *)
(* it is served.                                                           *)
FocusFindsEnded ==
  \A i \in DOMAIN calls : calls[i].op \in {"focus_in", "enable"} =>
    IF i = 1 THEN ~current_active ELSE calls[i - 1].op \in {"focus_out", "disable", "enable"}

(* A mute client reports nothing: what waits is of the client before it.   *)
MuteReportsNothing ==
  client = "mute" =>
    /\ ~dirty
    /\ \A i \in DOMAIN calls : calls[i].op = "surrounding" =>
         \E j \in DOMAIN calls : i < j /\ calls[j].op = "focus_out"

Queued == KeysLast /\ FocusFindsEnded /\ MuteReportsNothing

(* One more call, which is no focus change.                                *)
LEMMA QueuedAppend ==
  ASSUME TypeOK, Queued, NEW call, calls' = Append(calls, call),
         call.op \notin FocusOps \cup {"enable"},
         call.op = "surrounding" => client # "mute",
         client' = client, dirty' => dirty \/ client # "mute", current_active' = current_active
  PROVE  Queued' /\ (FocusPending' <=> FocusPending)
<1> DEFINE n == Len(calls)
<1>1. n \in Nat /\ DOMAIN calls = 1 .. n /\ calls \in Seq(Call)
  BY DEF TypeOK
<1>2. /\ DOMAIN calls' = 1 .. (n + 1)
      /\ \A i \in 1 .. n : calls'[i] = calls[i]
      /\ calls'[n + 1] = call
  BY <1>1
<1> HIDE DEF n
<1>3. KeysLast'
  <2> SUFFICES ASSUME NEW i \in 1 .. (n + 1), NEW j \in 1 .. (n + 1),
                      calls'[i].op \in KeyOps, calls'[j].op \in FocusOps
               PROVE  j < i
    BY <1>2 DEF KeysLast
  <2>1. j \in 1 .. n
    BY <1>1, <1>2
  <2>2. CASE i = n + 1
    BY <1>1, <2>1, <2>2
  <2>3. CASE i \in 1 .. n
    BY <1>1, <1>2, <2>1, <2>3 DEF Queued, KeysLast
  <2> QED BY <1>1, <2>2, <2>3
<1>4. FocusFindsEnded'
  <2> SUFFICES ASSUME NEW i \in 1 .. (n + 1), calls'[i].op \in {"focus_in", "enable"}
               PROVE  IF i = 1 THEN ~current_active
                      ELSE calls'[i - 1].op \in {"focus_out", "disable", "enable"}
    BY <1>2 DEF FocusFindsEnded
  <2>1. i \in 1 .. n
    BY <1>1, <1>2 DEF FocusOps
  <2>2. i # 1 => i - 1 \in 1 .. n
    BY <1>1, <2>1
  <2>3. IF i = 1 THEN ~current_active
        ELSE calls[i - 1].op \in {"focus_out", "disable", "enable"}
    BY <1>1, <1>2, <2>1 DEF Queued, FocusFindsEnded
  <2> QED BY <1>2, <2>2, <2>3
<1>5. MuteReportsNothing'
  <2> SUFFICES ASSUME client = "mute"
               PROVE  /\ ~dirty'
                      /\ \A i \in 1 .. (n + 1) : calls'[i].op = "surrounding" =>
                           \E j \in 1 .. (n + 1) : i < j /\ calls'[j].op = "focus_out"
    BY <1>2 DEF MuteReportsNothing
  <2>1. ~dirty'
    BY DEF Queued, MuteReportsNothing
  <2>2. ASSUME NEW i \in 1 .. (n + 1), calls'[i].op = "surrounding"
        PROVE  \E j \in 1 .. (n + 1) : i < j /\ calls'[j].op = "focus_out"
    <3>1. i \in 1 .. n /\ calls[i].op = "surrounding"
      BY <1>1, <1>2, <2>2
    <3>2. PICK j \in 1 .. n : i < j /\ calls[j].op = "focus_out"
      BY <1>1, <3>1 DEF Queued, MuteReportsNothing
    <3>3. j \in 1 .. (n + 1) /\ calls'[j].op = "focus_out"
      BY <1>1, <1>2, <3>2
    <3> QED BY <3>2, <3>3
  <2> QED BY <2>1, <2>2
<1>6. FocusPending' <=> FocusPending
  <2>1. \A i \in 1 .. n : i \in 1 .. (n + 1)
    BY <1>1
  <2>2. \A i \in 1 .. (n + 1) : i \in 1 .. n \/ i = n + 1
    BY <1>1
  <2> QED BY <1>1, <1>2, <2>1, <2>2 DEF FocusPending
<1> QED
  BY <1>3, <1>4, <1>5, <1>6 DEF Queued

(* A call is served. A focus_out or a disable leaves no session behind,    *)
(* and what is no focus_in starts none.                                    *)
LEMMA QueuedTail ==
  ASSUME TypeOK, Queued, calls # <<>>, calls' = Tail(calls),
         client' = client, dirty' = dirty,
         Head(calls).op = "focus_in" \/ (current_active' => current_active),
         Head(calls).op \in {"focus_out", "disable"} => ~current_active'
  PROVE  /\ Queued'
         /\ FocusPending' => FocusPending
         /\ Head(calls).op \in FocusOps => FocusPending
         /\ Head(calls).op \notin FocusOps => (FocusPending => FocusPending')
         /\ Head(calls).op \in KeyOps => ~FocusPending
         /\ Head(calls).op = "focus_in" => ~current_active
         /\ Head(calls).op = "surrounding" /\ client = "mute" => FocusPending
<1> DEFINE n == Len(calls)
<1>1. n \in Nat /\ DOMAIN calls = 1 .. n /\ Head(calls) = calls[1] /\ 1 \in 1 .. n
  BY DEF TypeOK
<1>2. DOMAIN calls' = 1 .. (n - 1) /\ \A i \in 1 .. (n - 1) : calls'[i] = calls[i + 1]
  <2>1. calls' \in Seq(Call) /\ Len(calls') = n - 1
        /\ \A i \in 1 .. Len(calls') : calls'[i] = calls[i + 1]
    BY TailFacts DEF TypeOK
  <2> HIDE DEF n
  <2> QED BY <2>1
<1> HIDE DEF n
<1>3. \A i \in 1 .. (n - 1) : i + 1 \in 1 .. n
  BY <1>1
<1>4. \A i \in 1 .. n : i = 1 \/ (i - 1 \in 1 .. (n - 1) /\ (i - 1) + 1 = i)
  BY <1>1
<1>5. KeysLast'
  <2> SUFFICES ASSUME NEW i \in 1 .. (n - 1), NEW j \in 1 .. (n - 1),
                      calls'[i].op \in KeyOps, calls'[j].op \in FocusOps
               PROVE  j < i
    BY <1>2 DEF KeysLast
  <2>1. j + 1 < i + 1
    BY <1>1, <1>2, <1>3 DEF Queued, KeysLast
  <2> QED BY <1>1, <2>1
<1>6. FocusFindsEnded'
  <2> SUFFICES ASSUME NEW i \in 1 .. (n - 1), calls'[i].op \in {"focus_in", "enable"}
               PROVE  IF i = 1 THEN ~current_active'
                      ELSE calls'[i - 1].op \in {"focus_out", "disable", "enable"}
    BY <1>2 DEF FocusFindsEnded
  <2>1. i + 1 \in 1 .. n /\ i + 1 # 1 /\ (i + 1) - 1 = i /\ calls'[i] = calls[i + 1]
    BY <1>1, <1>2
  <2>2. calls[i].op \in {"focus_out", "disable", "enable"}
    BY <1>1, <2>1 DEF Queued, FocusFindsEnded
  <2>3. CASE i = 1
    <3>1. Head(calls).op = "enable" => ~current_active
      BY <1>1 DEF Queued, FocusFindsEnded
    <3> QED BY <1>1, <2>2, <2>3, <3>1
  <2>4. CASE i # 1
    <3>1. i - 1 \in 1 .. (n - 1) /\ (i - 1) + 1 = i
      BY <1>1, <2>4
    <3> QED BY <1>2, <2>2, <2>4, <3>1
  <2> QED BY <2>3, <2>4
<1>7. MuteReportsNothing'
  <2> SUFFICES ASSUME client = "mute"
               PROVE  /\ ~dirty
                      /\ \A i \in 1 .. (n - 1) : calls'[i].op = "surrounding" =>
                           \E j \in 1 .. (n - 1) : i < j /\ calls'[j].op = "focus_out"
    BY <1>2 DEF MuteReportsNothing
  <2>1. ~dirty
    BY DEF Queued, MuteReportsNothing
  <2>2. ASSUME NEW i \in 1 .. (n - 1), calls'[i].op = "surrounding"
        PROVE  \E j \in 1 .. (n - 1) : i < j /\ calls'[j].op = "focus_out"
    <3>1. i + 1 \in 1 .. n /\ calls[i + 1].op = "surrounding"
      BY <1>2, <1>3, <2>2
    <3>2. PICK j \in 1 .. n : i + 1 < j /\ calls[j].op = "focus_out"
      BY <1>1, <3>1 DEF Queued, MuteReportsNothing
    <3>3. j - 1 \in 1 .. (n - 1) /\ (j - 1) + 1 = j /\ i < j - 1
      BY <1>1, <3>2
    <3>4. calls'[j - 1].op = "focus_out"
      BY <1>2, <3>2, <3>3
    <3> QED BY <3>3, <3>4
  <2> QED BY <2>1, <2>2
<1>8. FocusPending' => FocusPending
  BY <1>1, <1>2, <1>3 DEF FocusPending
<1>9. Head(calls).op \in FocusOps => FocusPending
  BY <1>1 DEF FocusPending
<1>10. ASSUME Head(calls).op \notin FocusOps, FocusPending PROVE FocusPending'
  <2>1. PICK i \in 1 .. n : calls[i].op \in FocusOps
    BY <1>1, <1>10 DEF FocusPending
  <2>2. i - 1 \in 1 .. (n - 1) /\ calls'[i - 1] = calls[i]
    BY <1>1, <1>2, <1>4, <1>10, <2>1
  <2> QED BY <1>2, <2>1, <2>2 DEF FocusPending
<1>11. ASSUME Head(calls).op \in KeyOps, FocusPending PROVE FALSE
  <2>1. PICK i \in 1 .. n : calls[i].op \in FocusOps
    BY <1>1, <1>11 DEF FocusPending
  <2>2. i < 1
    BY <1>1, <1>11, <2>1 DEF Queued, KeysLast
  <2> QED BY <2>1, <2>2
<1>12. Head(calls).op = "focus_in" => ~current_active
  BY <1>1 DEF Queued, FocusFindsEnded
<1>13. Head(calls).op = "surrounding" /\ client = "mute" => FocusPending
  BY <1>1 DEF Queued, MuteReportsNothing, FocusPending, FocusOps
<1> QED
  BY <1>5, <1>6, <1>7, <1>8, <1>9, <1>10, <1>11, <1>12, <1>13 DEF Queued

(* Joining the calls of a focus change.                                    *)
LEMMA Joined ==
  ASSUME NEW S, NEW s \in Seq(S), NEW a \in Seq(S), NEW b \in Seq(S), NEW c \in Seq(S)
  PROVE  s \o a \o b \o c = s \o (a \o (b \o c)) /\ a \o (b \o c) \in Seq(S)
<1> DEFINE ab == a \o b
           bc == b \o c
<1>1. ab \in Seq(S) /\ bc \in Seq(S)
  BY ConcatProperties
<1>2. (s \o a) \o b = s \o ab
  BY ConcatAssociative
<1>3. ab \o c = a \o bc
  BY ConcatAssociative
<1>4. a \o bc \in Seq(S)
  <2> HIDE DEF bc
  <2> QED BY <1>1, ConcatProperties
<1>5. (s \o ab) \o c = s \o (ab \o c)
  <2> HIDE DEF ab
  <2> QED BY <1>1, ConcatAssociative
<1>6. s \o a \o b \o c = s \o (a \o bc)
  <2> HIDE DEF ab, bc
  <2> QED BY <1>2, <1>3, <1>5, Zenon
<1> QED BY <1>4, <1>6

(* The calls of a focus change, one by one.                                *)
LEMMA JoinedItems ==
  ASSUME NEW S, NEW a \in Seq(S), NEW b \in Seq(S), NEW c \in Seq(S), Len(a) = 1, Len(c) = 2
  PROVE  LET s == a \o (b \o c)
         IN  /\ s[1] = a[1]
             /\ Len(b) = 0 => Len(s) = 3 /\ s[2] = c[1] /\ s[3] = c[2]
             /\ Len(b) = 2 => /\ Len(s) = 5
                              /\ s[2] = b[1] /\ s[3] = b[2] /\ s[4] = c[1] /\ s[5] = c[2]
<1> DEFINE d == b \o c
           s == a \o d
<1>1. /\ d \in Seq(S) /\ Len(d) = Len(b) + Len(c)
      /\ \A i \in 1 .. Len(b) + Len(c) : d[i] = IF i <= Len(b) THEN b[i] ELSE c[i - Len(b)]
  BY ConcatProperties
<1> HIDE DEF d
<1>2. /\ Len(a \o d) = Len(a) + Len(d)
      /\ \A i \in 1 .. Len(a) + Len(d) : (a \o d)[i] = IF i <= Len(a) THEN a[i] ELSE d[i - Len(a)]
  BY <1>1, ConcatProperties
<1>3. /\ Len(s) = 1 + Len(d)
      /\ \A i \in 1 .. 1 + Len(d) : s[i] = IF i <= 1 THEN a[i] ELSE d[i - 1]
  BY <1>2
<1>4. Len(d) \in Nat
  BY <1>1
<1> HIDE DEF s
<1>5. s[1] = a[1]
  BY <1>3, <1>4
<1>6. ASSUME Len(b) = 0
      PROVE  Len(s) = 3 /\ s[2] = c[1] /\ s[3] = c[2]
  <2>1. Len(d) = 2 /\ d[1] = c[1] /\ d[2] = c[2]
    BY <1>1, <1>6
  <2> QED BY <1>3, <2>1
<1>7. ASSUME Len(b) = 2
      PROVE  Len(s) = 5 /\ s[2] = b[1] /\ s[3] = b[2] /\ s[4] = c[1] /\ s[5] = c[2]
  <2>1. Len(d) = 4 /\ d[1] = b[1] /\ d[2] = b[2] /\ d[3] = c[1] /\ d[4] = c[2]
    BY <1>1, <1>7
  <2> QED BY <1>3, <2>1
<1>8. /\ s[1] = a[1]
      /\ Len(b) = 0 => Len(s) = 3 /\ s[2] = c[1] /\ s[3] = c[2]
      /\ Len(b) = 2 => /\ Len(s) = 5
                       /\ s[2] = b[1] /\ s[3] = b[2] /\ s[4] = c[1] /\ s[5] = c[2]
  BY <1>5, <1>6, <1>7
<1> QED BY <1>8 DEF s, d

(* A focus change: focus_out is queued behind what the last client         *)
(* reported, and before focus_in.                                          *)
LEMMA QueuedRefocus ==
  ASSUME TypeOK, Queued, Refocus PROVE Queued' /\ FocusPending'
<1> DEFINE n == Len(calls)
<1>1. n \in Nat /\ DOMAIN calls = 1 .. n /\ calls \in Seq(Call)
  BY DEF TypeOK
<1>2. PICK kind \in ClientKinds, disabled \in BOOLEAN :
        calls' = calls
             \o <<[op |-> "focus_out"]>>
             \o (IF disabled THEN <<[op |-> "disable"], [op |-> "enable"]>> ELSE <<>>)
             \o <<[op |-> "focus_in"], [op |-> "capabilities", surrounding |-> Declares(kind)]>>
  BY DEF Refocus
<1> DEFINE out == <<[op |-> "focus_out"]>>
           flip == IF disabled THEN <<[op |-> "disable"], [op |-> "enable"]>> ELSE <<>>
           in == <<[op |-> "focus_in"], [op |-> "capabilities", surrounding |-> Declares(kind)]>>
           block == out \o (flip \o in)
           m == Len(block)
<1>3. /\ m \in {3, 5} /\ DOMAIN block = 1 .. m /\ block \in Seq(Call)
      /\ calls' = calls \o block
      /\ block[1].op = "focus_out"
      /\ \A i \in 1 .. m : /\ block[i].op \notin KeyOps /\ block[i].op # "surrounding"
                           /\ block[i].op \in {"focus_in", "enable"} =>
                                i # 1 /\ block[i - 1].op \in {"focus_out", "disable", "enable"}
  <2>1. /\ out \in Seq(Call) /\ in \in Seq(Call)
        /\ Len(out) = 1 /\ out[1].op = "focus_out"
        /\ Len(in) = 2 /\ in[1].op = "focus_in" /\ in[2].op = "capabilities"
    BY DEF Call, Declares
  <2>2. /\ flip \in Seq(Call)
        /\ disabled => Len(flip) = 2 /\ flip[1].op = "disable" /\ flip[2].op = "enable"
        /\ ~disabled => Len(flip) = 0
    <3>1. [op |-> "disable"] \in Call /\ [op |-> "enable"] \in Call
      BY DEF Call
    <3>2. <<[op |-> "disable"], [op |-> "enable"]>> \in Seq(Call) /\ <<>> \in Seq(Call)
      BY <3>1
    <3> QED BY <3>2
  <2>3. calls' = calls \o out \o flip \o in
    BY <1>2
  <2> HIDE DEF out, flip, in
  <2>4. calls' = calls \o block /\ block \in Seq(Call)
    <3> DEFINE s == calls
    <3>1. s \in Seq(Call)
      BY <1>1
    <3> HIDE DEF s
    <3>2. out \in Seq(Call) /\ in \in Seq(Call) /\ flip \in Seq(Call)
      BY <2>1, <2>2
    <3>3. \A a, b, c \in Seq(Call) : /\ s \o a \o b \o c = s \o (a \o (b \o c))
                                     /\ a \o (b \o c) \in Seq(Call)
      BY ONLY <3>1, Joined, Zenon
    <3>4. /\ s \o out \o flip \o in = s \o (out \o (flip \o in))
          /\ out \o (flip \o in) \in Seq(Call)
      BY ONLY <3>2, <3>3, Zenon
    <3> QED BY <2>3, <3>4, Zenon DEF s, block
  <2>7. /\ block[1] = out[1]
        /\ Len(flip) = 0 => m = 3 /\ block[2] = in[1] /\ block[3] = in[2]
        /\ Len(flip) = 2 => /\ m = 5
                            /\ block[2] = flip[1] /\ block[3] = flip[2]
                            /\ block[4] = in[1] /\ block[5] = in[2]
    BY <2>1, <2>2, JoinedItems
  <2> HIDE DEF block
  <2>5. CASE disabled
    <3>1. /\ m = 5 /\ DOMAIN block = 1 .. 5
          /\ block[1] = out[1] /\ block[2] = flip[1] /\ block[3] = flip[2]
          /\ block[4] = in[1] /\ block[5] = in[2]
      BY <2>2, <2>4, <2>5, <2>7
    <3> HIDE DEF m
    <3> QED BY <2>1, <2>2, <2>4, <2>5, <3>1 DEF KeyOps
  <2>6. CASE ~disabled
    <3>1. /\ m = 3 /\ DOMAIN block = 1 .. 3
          /\ block[1] = out[1] /\ block[2] = in[1] /\ block[3] = in[2]
      BY <2>2, <2>4, <2>6, <2>7
    <3> HIDE DEF m
    <3> QED BY <2>1, <2>4, <3>1 DEF KeyOps
  <2> QED BY <2>5, <2>6
<1> HIDE DEF out, flip, in, block
<1>4. /\ DOMAIN calls' = 1 .. (n + m)
      /\ \A i \in 1 .. n : calls'[i] = calls[i]
      /\ \A i \in 1 .. m : calls'[n + i] = block[i]
      /\ n + 1 \in 1 .. (n + m) /\ m \in Nat
  <2>1. m \in Nat /\ m # 0 /\ Len(calls) = n /\ Len(block) = m
    BY <1>1, <1>3
  <2>2. /\ calls' \in Seq(Call) /\ Len(calls') = n + m
        /\ \A i \in 1 .. n + m : calls'[i] = IF i <= n THEN calls[i] ELSE block[i - n]
    BY <1>1, <1>3, <2>1, ConcatProperties
  <2> HIDE DEF m, n
  <2>3. \A i \in 1 .. n : i \in 1 .. n + m /\ i <= n
    BY <1>1, <2>1
  <2>4. \A i \in 1 .. m : n + i \in 1 .. n + m /\ ~(n + i <= n) /\ (n + i) - n = i
    BY <1>1, <2>1
  <2>5. n + 1 \in 1 .. (n + m)
    BY <1>1, <2>1
  <2>6. DOMAIN calls' = 1 .. (n + m)
    BY <2>2
  <2>7. \A i \in 1 .. n : calls'[i] = calls[i]
    BY <2>2, <2>3
  <2>8. ASSUME NEW i \in 1 .. m PROVE calls'[n + i] = block[i]
    BY <2>2, <2>4, <2>8
  <2> QED BY <2>1, <2>5, <2>6, <2>7, <2>8
<1> HIDE DEF m, n
<1>5. \A i \in 1 .. (n + m) : i \in 1 .. n \/ (i - n \in 1 .. m /\ n + (i - n) = i)
  BY <1>1, <1>4
<1>6. /\ \A i \in 1 .. n : calls[i].op \notin KeyOps
      /\ dirty' = FALSE /\ current_active' = current_active
  <2>1. \A i \in DOMAIN calls : calls[i].op \notin KeyOps
    BY Zenon DEF Refocus
  <2>2. dirty' = FALSE /\ current_active' = current_active
    BY DEF Refocus, router
  <2>3. \A i \in 1 .. n : calls[i].op \notin KeyOps
    BY <1>1, <2>1
  <2> QED BY <2>2, <2>3, Zenon
<1>7. calls'[n + 1].op = "focus_out"
  <2>1. 1 \in 1 .. m
    BY <1>3
  <2> QED BY <1>3, <1>4, <2>1
<1>8. KeysLast'
  <2>1. ASSUME NEW i \in 1 .. (n + m) PROVE calls'[i].op \notin KeyOps
    <3>1. CASE i \in 1 .. n
      BY <1>4, <1>6, <3>1
    <3>2. CASE i - n \in 1 .. m /\ n + (i - n) = i
      <4>1. calls'[i] = block[i - n]
        BY <1>4, <3>2
      <4> QED BY <1>3, <3>2, <4>1
    <3> QED BY <1>5, <3>1, <3>2
  <2> QED BY <1>4, <2>1 DEF KeysLast
<1>9. FocusFindsEnded'
  <2> SUFFICES ASSUME NEW i \in 1 .. (n + m), calls'[i].op \in {"focus_in", "enable"}
               PROVE  IF i = 1 THEN ~current_active
                      ELSE calls'[i - 1].op \in {"focus_out", "disable", "enable"}
    BY <1>4, <1>6 DEF FocusFindsEnded
  <2>1. CASE i \in 1 .. n
    <3>1. i # 1 => i - 1 \in 1 .. n
      BY <1>1, <2>1
    <3>2. IF i = 1 THEN ~current_active
          ELSE calls[i - 1].op \in {"focus_out", "disable", "enable"}
      BY <1>1, <1>4, <2>1 DEF Queued, FocusFindsEnded
    <3> QED BY <1>4, <3>1, <3>2
  <2>2. CASE i \notin 1 .. n
    <3> DEFINE k == i - n
    <3>1. k \in 1 .. m /\ n + k = i
      BY <1>5, <2>2
    <3>2. block[k].op \in {"focus_in", "enable"}
      BY <1>4, <3>1
    <3>3. k # 1 /\ block[k - 1].op \in {"focus_out", "disable", "enable"}
      BY <1>3, <3>1, <3>2
    <3> HIDE DEF k
    <3>4. k - 1 \in 1 .. m /\ n + (k - 1) = i - 1 /\ i # 1
      BY <1>1, <1>4, <3>1, <3>3
    <3>5. calls'[i - 1] = block[k - 1]
      BY <1>4, <3>4
    <3> QED BY <3>3, <3>4, <3>5
  <2> QED BY <2>1, <2>2
<1>10. MuteReportsNothing'
  <2>1. ASSUME NEW i \in 1 .. (n + m), calls'[i].op = "surrounding"
        PROVE  i < n + 1
    <3>1. CASE i \in 1 .. n
      BY <1>1, <3>1
    <3>2. CASE i - n \in 1 .. m /\ n + (i - n) = i
      <4>1. calls'[i] = block[i - n]
        BY <1>4, <3>2
      <4> QED BY <1>3, <2>1, <3>2, <4>1
    <3> QED BY <1>5, <3>1, <3>2
  <2> QED BY <1>4, <1>6, <1>7, <2>1 DEF MuteReportsNothing
<1>11. FocusPending'
  BY <1>4, <1>7 DEF FocusPending, FocusOps
<1> QED
  BY <1>8, <1>9, <1>10, <1>11 DEF Queued

(* Nothing is queued or served.                                            *)
LEMMA QueuedSame ==
  ASSUME TypeOK, Queued, calls' = calls, client' = client, current_active' = current_active,
         dirty' => dirty \/ client # "mute"
  PROVE  Queued' /\ (FocusPending' <=> FocusPending)
<1>1. KeysLast'
  BY DEF Queued, KeysLast
<1>2. FocusFindsEnded'
  BY DEF Queued, FocusFindsEnded
<1>3. MuteReportsNothing'
  BY DEF Queued, MuteReportsNothing
<1>4. FocusPending' <=> FocusPending
  BY DEF FocusPending
<1> QED
  BY <1>1, <1>2, <1>3, <1>4 DEF Queued

(* What the client, the user and the clocks do.                            *)
Environment ==
  \/ ClientTakes \/ ClientReports \/ \E ch \in Typed : TypeKey(ch)
  \/ \E op \in (KeyOps \ {"key"}) \cup {"reset"} : PressOther(op)
  \/ Click \/ CapsFlap \/ Toggle \/ Suspend \/ ChangeMethod
  \/ WindowCloses \/ Idle

(* What the client and the user do queues no focus change.                 *)
LEMMA EnvironmentQueued ==
  ASSUME TypeOK, Queued, Environment
  PROVE  Queued' /\ (FocusPending' <=> FocusPending)
<1> USE DEF router, caps, flags, desktop, bounds
<1>1. CASE ClientTakes
  <2>1. client = "mute" => ~Reports(client, Head(signals))
    BY DEF Reports
  <2>2. dirty' => dirty \/ client # "mute"
    BY <1>1, <2>1 DEF ClientTakes
  <2> QED BY <1>1, <2>2, QueuedSame DEF ClientTakes
<1>2. CASE ClientReports
  <2> DEFINE call == [op |-> "surrounding",
                      frame |-> IF client = "dead" THEN NoSurrounding ELSE field]
  <2>1. call.op = "surrounding"
    OBVIOUS
  <2>2. calls' = Append(calls, call) /\ client' = client /\ current_active' = current_active
        /\ dirty /\ ~dirty'
    BY <1>2 DEF ClientReports
  <2>3. client # "mute"
    BY <2>2 DEF Queued, MuteReportsNothing
  <2> HIDE DEF call
  <2> QED BY <2>1, <2>2, <2>3, QueuedAppend DEF FocusOps
<1>3. ASSUME NEW ch \in Typed, TypeKey(ch) PROVE Queued' /\ (FocusPending' <=> FocusPending)
  <2> DEFINE call == [op |-> "key", ch |-> ch]
  <2>1. call.op = "key"
    OBVIOUS
  <2>2. calls' = Append(calls, call) /\ client' = client /\ current_active' = current_active
        /\ dirty' = dirty
    BY <1>3 DEF TypeKey
  <2> HIDE DEF call
  <2> QED BY <2>1, <2>2, QueuedAppend DEF FocusOps
<1>4. ASSUME NEW op \in (KeyOps \ {"key"}) \cup {"reset"}, PressOther(op)
      PROVE  Queued' /\ (FocusPending' <=> FocusPending)
  <2> DEFINE call == [op |-> op]
  <2>1. call.op = op
    OBVIOUS
  <2>2. calls' = Append(calls, call) /\ client' = client /\ current_active' = current_active
        /\ dirty' = dirty
    BY <1>4 DEF PressOther
  <2>3. op \notin FocusOps \cup {"enable", "surrounding"}
    BY DEF KeyOps, FocusOps
  <2> HIDE DEF call
  <2> QED BY <2>1, <2>2, <2>3, QueuedAppend
<1>5. CASE Click
  BY <1>5, QueuedSame DEF Click
<1>6. CASE CapsFlap
  <2>1. PICK b \in BOOLEAN :
          calls' = Append(calls, [op |-> "capabilities", surrounding |-> b])
    BY <1>6 DEF CapsFlap
  <2> DEFINE call == [op |-> "capabilities", surrounding |-> b]
  <2>2. call.op = "capabilities"
    OBVIOUS
  <2>3. calls' = Append(calls, call) /\ client' = client /\ current_active' = current_active
        /\ dirty' = dirty
    BY <1>6, <2>1 DEF CapsFlap
  <2> HIDE DEF call
  <2> QED BY <2>2, <2>3, QueuedAppend DEF FocusOps
<1>7. CASE Toggle
  BY <1>7, QueuedSame DEF Toggle
<1>8. CASE Suspend
  BY <1>8, QueuedSame DEF Suspend
<1>9. CASE ChangeMethod
  BY <1>9, QueuedSame DEF ChangeMethod
<1>10. CASE WindowCloses
  BY <1>10, QueuedSame DEF WindowCloses
<1>11. CASE Idle
  BY <1>11, QueuedSame DEF Idle
<1> QED
  BY <1>1, <1>2, <1>3, <1>4, <1>5, <1>6, <1>7, <1>8, <1>9, <1>10, <1>11 DEF Environment

(* The handlers of the engine's method calls.                              *)
Handlers ==
  ProcessKeyEvent \/ FocusIn \/ Enable \/ Deactivate \/ Reset \/ SetCapabilities
    \/ SetSurroundingText

(* What a handler finds at the head of the queue: a key finds every focus  *)
(* change served, a focus_in finds no session, and what a mute client's    *)
(* field reports was reported by the client before it.                     *)
LEMMA HandlersQueued ==
  ASSUME TypeOK, Queued, Handlers
  PROVE  /\ Queued'
         /\ FocusPending' => FocusPending
         /\ ProcessKeyEvent => ~FocusPending
         /\ FocusIn => FocusPending /\ ~current_active
         /\ Deactivate => FocusPending
         /\ Reset \/ Enable \/ SetCapabilities \/ SetSurroundingText =>
              (FocusPending => FocusPending')
         /\ SetSurroundingText /\ client = "mute" => FocusPending
<1> USE DEF router, caps, flags, desktop, bounds
<1> DEFINE op == Head(calls).op
<1>1. /\ calls # <<>> /\ calls' = Tail(calls) /\ client' = client /\ dirty' = dirty
      /\ ProcessKeyEvent => op \in KeyOps
      /\ FocusIn => op = "focus_in"
      /\ Enable => op = "enable"
      /\ Deactivate => op \in {"focus_out", "disable"}
      /\ Reset => op = "reset"
      /\ SetCapabilities => op = "capabilities"
      /\ SetSurroundingText => op = "surrounding"
  BY DEF Handlers, ProcessKeyEvent, FocusIn, Enable, Deactivate, Reset, SetCapabilities,
         SetSurroundingText, Serve
<1>2. op = "focus_in" \/ (current_active' => current_active)
  <2>1. ~FocusIn => (current_active' => current_active)
    BY DEF Handlers, ProcessKeyEvent, Enable, Deactivate, Reset, SetCapabilities,
           SetSurroundingText
  <2> QED BY <1>1, <2>1
<1>3. op \in {"focus_out", "disable"} => ~current_active'
  <2>1. op \in {"focus_out", "disable"} => Deactivate
    BY <1>1 DEF Handlers, KeyOps
  <2> QED BY <2>1 DEF Deactivate
<1>4. /\ Queued'
      /\ FocusPending' => FocusPending
      /\ op \in FocusOps => FocusPending
      /\ op \notin FocusOps => (FocusPending => FocusPending')
      /\ op \in KeyOps => ~FocusPending
      /\ op = "focus_in" => ~current_active
      /\ op = "surrounding" /\ client = "mute" => FocusPending
  BY <1>1, <1>2, <1>3, QueuedTail
<1> HIDE DEF op
<1> QED
  BY <1>1, <1>4 DEF FocusOps

(* The first focus_in waits.                                               *)
LEMMA InitQueued == ASSUME Init PROVE Queued /\ FocusPending
<1>1. /\ calls = <<[op |-> "focus_in"], [op |-> "capabilities", surrounding |-> Declares(client)]>>
      /\ ~dirty /\ ~current_active
  BY DEF Init
<1>2. /\ DOMAIN calls = 1 .. 2 /\ calls[1].op = "focus_in" /\ calls[2].op = "capabilities"
  BY <1>1
<1>3. KeysLast
  BY <1>2 DEF KeysLast, KeyOps
<1>4. FocusFindsEnded
  BY <1>1, <1>2 DEF FocusFindsEnded
<1>5. MuteReportsNothing
  BY <1>1, <1>2 DEF MuteReportsNothing
<1>6. FocusPending
  BY <1>2 DEF FocusPending, FocusOps
<1> QED
  BY <1>3, <1>4, <1>5, <1>6 DEF Queued

(* Every step keeps the queue in order.                                    *)
LEMMA NextQueued ==
  ASSUME TypeOK, Queued, [Next]_vars PROVE Queued'
<1>1. CASE Environment
  BY <1>1, EnvironmentQueued
<1>2. CASE Handlers
  BY <1>2, HandlersQueued
<1>3. CASE Refocus
  BY <1>3, QueuedRefocus
<1>4. CASE UNCHANGED vars
  BY <1>4, QueuedSame DEF vars
<1> QED
  BY <1>1, <1>2, <1>3, <1>4 DEF Next, Environment, Handlers

-----------------------------------------------------------------------------
(* What a mute client has lost.                                            *)

(* A deletion that was lost is counted: the composer knows of a correction *)
(* without an echo, so the next ones go through forwarded BackSpaces, and  *)
(* no selection is deleted.  Nothing is lost before the focus has settled. *)
LostAccounted ==
  client = "mute" =>
    IF FocusPending THEN history.lost = 0
    ELSE /\ history.lost \in {0, 1}
         /\ composer # None => /\ composer.selected_before = 0
                               /\ history.lost = 1 => WithoutEcho(composer)

(* A key event on a mute client: a deletion goes out only if no unechoed   *)
(* correction is counted, and counts one (note_surrounding_correction).    *)
LEMMA KeyLost ==
  ASSUME TypeOK, LostAccounted, ~FocusPending, client = "mute", ProcessKeyEvent
  PROVE  /\ history'.lost \in {0, 1}
         /\ composer' # None => /\ composer'.selected_before = 0
                                /\ history'.lost = 1 => WithoutEcho(composer')
<1> DEFINE call == Head(calls)
           c == BeforeKey
           a == Answer(c, call)
           h == Remembered(c, call, a.output)
<1>1. history.lost \in {0, 1}
  BY DEF LostAccounted
<1>2. call \in KeyCalls /\ history' = h
  BY KeyEventComposer DEF ProcessKeyEvent
<1>3. /\ Restarts(call) \/ history.lost = 0 => h.lost \in {0, 1}
      /\ Harmless(a.output) => h.lost = IF Restarts(call) THEN 0 ELSE history.lost
  BY <1>2, RememberedTyped
<1>4. CASE composer = None
  <2>1. composer' = None /\ Harmless(a.output)
    BY <1>4, KeyEventComposer
  <2> HIDE DEF h, a, c, call
  <2> QED BY <1>1, <1>2, <1>3, <2>1
<1>5. CASE composer # None
  <2>1. /\ composer \in Composers /\ composer.selected_before = 0
        /\ history.lost = 1 => WithoutEcho(composer)
    BY <1>5 DEF TypeOK, LostAccounted
  <2>2. c \in Composers /\ Answers(c, a) /\ composer' = a.composer
    BY <1>5, KeyEventComposer
  <2>3. c.selected_before = 0 /\ (~Restarts(call) => c.ibus = composer.ibus)
    BY <2>1, BeforeKeyTyped DEF Restarts
  <2>4. ~Restarts(call) /\ WithoutEcho(composer) => WithoutEcho(c)
    BY <2>3 DEF WithoutEcho
  <2>5. /\ WithoutEcho(c) /\ ~Restarts(call) => WithoutEcho(a.composer)
        /\ ~Harmless(a.output) => ~WithoutEcho(c) /\ WithoutEcho(a.composer)
        /\ a.composer.selected_before = 0
    <3>1. enabled \in BOOLEAN
      BY DEF TypeOK
    <3>2. WithoutEcho(c) /\ ~(enabled /\ call.op \in WordEnders) => WithoutEcho(a.composer)
      BY <1>2, <2>2, <3>1, AnswerTyped
    <3> HIDE DEF a, c
    <3> QED BY <2>2, <2>3, <3>2 DEF Answers, Restarts
  <2> HIDE DEF h, a, c, call
  <2>6. CASE Harmless(a.output)
    BY <1>1, <1>2, <1>3, <2>1, <2>2, <2>4, <2>5, <2>6
  <2>7. CASE ~Harmless(a.output)
    <3>1. Restarts(call) \/ history.lost = 0
      BY <1>1, <2>1, <2>4, <2>5, <2>7
    <3> QED BY <1>2, <1>3, <2>2, <2>5, <2>7, <3>1
  <2> QED BY <2>6, <2>7
<1> QED
  BY <1>4, <1>5

(* Every step keeps the account of what a mute client has lost.            *)
LEMMA NextLost ==
  ASSUME TypeOK, Queued, LostAccounted, [Next]_vars PROVE LostAccounted'
<1> USE DEF router, caps, flags, desktop, bounds
<1>1. history \in Histories /\ (composer # None => composer \in Composers)
  BY DEF TypeOK
<1>2. CASE Refocus
  <2>1. FocusPending'
    BY <1>2, QueuedRefocus
  <2>2. PICK kind \in ClientKinds, text \in StartTexts : history' = HistoryOf(kind, text)
    BY <1>2 DEF Refocus
  <2>3. history'.lost = 0
    BY <2>2 DEF HistoryOf
  <2> QED BY <2>1, <2>3 DEF LostAccounted
<1>3. CASE UNCHANGED vars
  BY <1>3, QueuedSame DEF LostAccounted, vars
<1>4. CASE Environment
  <2>1. FocusPending' <=> FocusPending
    BY <1>4, EnvironmentQueued
  <2>2. CASE Click \/ CapsFlap
    <3>1. PICK plain : history' = [history EXCEPT !.plain = plain]
      <4>1. CASE Click
        BY <4>1 DEF Click
      <4>2. CASE CapsFlap
        BY <4>2 DEF CapsFlap
      <4> QED BY <2>2, <4>1, <4>2
    <3>2. history'.lost = history.lost
      BY ONLY <1>1, <3>1 DEF Histories
    <3>3. client' = client /\ composer' = composer
      <4>1. CASE Click
        BY <4>1 DEF Click
      <4>2. CASE CapsFlap
        BY <4>2 DEF CapsFlap
      <4> QED BY <2>2, <4>1, <4>2
    <3> QED BY <2>1, <3>2, <3>3 DEF LostAccounted
  <2>3. CASE WindowCloses \/ Idle
    <3>1. composer \in Composers /\ client' = client /\ history' = history
      BY <1>1, <2>3 DEF WindowCloses, Idle
    <3>2. composer' \in {[composer EXCEPT !.recent = FALSE], [composer EXCEPT !.idle = TRUE]}
      BY <2>3 DEF WindowCloses, Idle
    <3>3. composer # None
      BY <2>3 DEF WindowCloses, Idle
    <3>4. composer'.selected_before = composer.selected_before /\ composer'.ibus = composer.ibus
      BY <3>1, <3>2 DEF Composers
    <3> QED BY <2>1, <3>1, <3>3, <3>4 DEF LostAccounted, WithoutEcho
  <2>4. CASE UNCHANGED <<client, history, composer>>
    BY <2>1, <2>4 DEF LostAccounted
  <2> QED
    BY <1>4, <2>2, <2>3, <2>4
    DEF Environment, ClientTakes, ClientReports, TypeKey, PressOther, Toggle, Suspend, ChangeMethod
<1>5. CASE Handlers
  <2> SUFFICES ASSUME client = "mute" PROVE LostAccounted'
    BY <1>5 DEF Handlers, ProcessKeyEvent, FocusIn, Enable, Deactivate, Reset, SetCapabilities,
                SetSurroundingText, LostAccounted
  <2>1. /\ FocusPending' => FocusPending
        /\ ProcessKeyEvent => ~FocusPending
        /\ FocusIn => FocusPending /\ ~current_active
        /\ Deactivate => FocusPending
        /\ Reset \/ Enable \/ SetCapabilities \/ SetSurroundingText =>
             (FocusPending => FocusPending')
        /\ SetSurroundingText => FocusPending
    BY <1>5, HandlersQueued
  <2>2. CASE ProcessKeyEvent
    BY <2>1, <2>2, KeyLost DEF LostAccounted
  <2>3. CASE FocusIn
    <3>1. history.lost = 0 /\ history' = history
      BY <2>1, <2>3 DEF LostAccounted, FocusIn
    <3>2. composer' = NewComposer(method_for_capability(has_surrounding), FALSE)
      BY <2>1, <2>3 DEF FocusIn
    <3>3. composer'.selected_before = 0
      BY <3>2, NewComposerTyped DEF method_for_capability, Tier
    <3> QED BY <3>1, <3>3 DEF LostAccounted
  <2>4. CASE Deactivate
    BY <2>1, <2>4 DEF LostAccounted, Deactivate
  <2>5. CASE Enable
    BY <2>1, <2>5 DEF LostAccounted, Enable
  <2>6. CASE Reset
    <3>1. history'.lost = 0
      BY <1>1, <2>6 DEF Reset, Histories
    <3>2. composer' # None => composer'.selected_before = 0
      BY <1>1, <2>6, FullResetTyped DEF Reset
    <3> QED BY <3>1, <3>2 DEF LostAccounted
  <2>7. CASE SetCapabilities
    <3>1. history' = history /\ client' = client
      BY <2>7 DEF SetCapabilities
    <3>2. composer' # None => /\ composer # None
                              /\ composer'.selected_before = composer.selected_before
                              /\ composer'.ibus = composer.ibus
      <4> DEFINE m == method_for_capability(Head(calls).surrounding)
      <4>1. m \in Tier
        BY DEF method_for_capability, Tier
      <4>2. composer' = UpdateMethod(composer, m)
        BY <2>7 DEF SetCapabilities
      <4> HIDE DEF m
      <4>3. composer = None => composer' = None
        BY <4>2 DEF UpdateMethod
      <4> QED BY <1>1, <4>1, <4>2, <4>3, UpdateMethodTyped
    <3> QED BY <2>1, <2>7, <3>1, <3>2 DEF LostAccounted, WithoutEcho
  <2>8. CASE SetSurroundingText
    BY <2>1, <2>8 DEF LostAccounted, SetSurroundingText
  <2> QED BY <1>5, <2>2, <2>3, <2>4, <2>5, <2>6, <2>7, <2>8 DEF Handlers
<1> QED
  BY <1>2, <1>3, <1>4, <1>5 DEF Next, Environment, Handlers

(* A client that drops deletes without a word loses at most one before the *)
(* corrections go through forwarded BackSpaces, also when it renews its    *)
(* capabilities or reports nothing at all: for every engine, every text    *)
(* and any number of keys and focus changes.                               *)
THEOREM IbusOneLostDelete == Spec => []OneLostDelete
<1> DEFINE IInv == TypeOK /\ Queued /\ LostAccounted
<1>1. Init => IInv
  <2>1. ASSUME Init PROVE LostAccounted
    <3>1. PICK text \in StartTexts : history = HistoryOf(client, text)
      BY <2>1 DEF Init
    <3>2. history.lost = 0
      BY <3>1 DEF HistoryOf
    <3> QED BY <2>1, <3>2, InitQueued DEF LostAccounted
  <2> QED BY <2>1, InitTyped, InitQueued
<1>2. IInv /\ [Next]_vars => IInv'
  BY NextTyped, NextQueued, NextLost
<1>3. IInv => OneLostDelete
  BY DEF LostAccounted, OneLostDelete
<1> QED
  BY <1>1, <1>2, <1>3, PTL DEF Spec

=============================================================================
