---------------------------- MODULE ComposerTypes ----------------------------
(***************************************************************************)
(* The types of the Composer: every method of Composer and of TextField,   *)
(* applied to well-formed arguments, leaves a well-formed composer, and    *)
(* says what it keeps of the tier, of the IBus quirk state and of the      *)
(* selection. For every engine that satisfies EngineAssumption and every   *)
(* alphabet.                                                               *)
(*                                                                         *)
(* render and context_from_surrounding are folds over texts of any length; *)
(* their types are proved by induction on a fold, which comes first.       *)
(***************************************************************************)
EXTENDS TextField, TLAPS, WellFoundedInduction, FiniteSetTheorems

-----------------------------------------------------------------------------
(* Folds over sequences, first order: the step is a function instead of an *)
(* operator, so that the facts can be cited for any fold.  FoldLeft over a *)
(* sequence of length n is a recursive function on the subsets of 1 .. n   *)
(* that takes the largest element off; it exists, and the largest element  *)
(* of 1 .. n is n.                                                         *)

(* Induction on the natural numbers, for a set.                            *)
LEMMA SetInduction ==
  ASSUME NEW T, 0 \in T, \A n \in Nat : n \in T => n + 1 \in T
  PROVE  Nat \subseteq T
<1> DEFINE Bad == Nat \ T
           R   == OpToRel(<, Nat)
<1> SUFFICES ASSUME Bad # {} PROVE FALSE
  OBVIOUS
<1>1. PICK x \in Bad : \A y \in Bad : ~(<<y, x>> \in R)
  <2>1. IsWellFoundedOn(R, Nat)
    BY NatLessThanWellFounded
  <2> HIDE DEF R
  <2> QED BY <2>1, WFMin
<1>2. x \in Nat /\ x # 0
  OBVIOUS
<1>3. x - 1 \in Nat /\ x - 1 < x
  BY <1>2
<1>4. x - 1 \in T
  <2>1. <<x - 1, x>> \in R <=> x - 1 < x
    BY <1>2, <1>3 DEF OpToRel
  <2> QED BY <1>1, <1>3, <2>1
<1>5. (x - 1) + 1 \in T
  BY <1>3, <1>4
<1> QED
  BY <1>2, <1>5

(* Induction on the numbers up to m, for a set.                            *)
LEMMA IntervalInduction ==
  ASSUME NEW m \in Nat, NEW T, 0 \in T, \A n \in 1 .. m : n - 1 \in T => n \in T
  PROVE  0 .. m \subseteq T
<1> DEFINE U == {n \in Nat : n <= m => n \in T}
<1>1. 0 \in U
  OBVIOUS
<1>2. ASSUME NEW n \in Nat, n \in U PROVE n + 1 \in U
  <2> SUFFICES ASSUME n + 1 <= m PROVE n + 1 \in T
    OBVIOUS
  <2>1. n + 1 \in 1 .. m /\ (n + 1) - 1 = n /\ n \in T
    BY <1>2
  <2> QED BY <2>1
<1> HIDE DEF U
<1>3. Nat \subseteq U
  BY <1>1, <1>2, SetInduction
<1> QED
  BY <1>3 DEF U

(* The largest element of a set of numbers up to m.                        *)
LEMMA MaxOfSubset ==
  ASSUME NEW m \in Nat
  PROVE  \A s \in SUBSET (0 .. m) : s # {} => Max(s) \in s /\ \A y \in s : Max(s) >= y
<1> DEFINE T == {n \in Nat : \A s \in SUBSET (0 .. n) : s # {} => \E x \in s : \A y \in s : x >= y}
<1>1. 0 \in T
  <2> SUFFICES ASSUME NEW s \in SUBSET (0 .. 0), s # {} PROVE \E x \in s : \A y \in s : x >= y
    OBVIOUS
  <2>1. \A y \in s : y = 0
    OBVIOUS
  <2>2. PICK x : x \in s
    OBVIOUS
  <2>3. \A y \in s : x >= y
    BY <2>1, <2>2
  <2> QED BY <2>2, <2>3
<1>2. ASSUME NEW n \in Nat, n \in T PROVE n + 1 \in T
  <2> SUFFICES ASSUME NEW s \in SUBSET (0 .. (n + 1)), s # {}
               PROVE  \E x \in s : \A y \in s : x >= y
    OBVIOUS
  <2>1. CASE n + 1 \in s
    BY <2>1
  <2>2. CASE n + 1 \notin s
    <3>1. s \in SUBSET (0 .. n)
      BY <2>2
    <3> QED BY <1>2, <3>1
  <2> QED BY <2>1, <2>2
<1> HIDE DEF T
<1>3. m \in T
  BY <1>1, <1>2, SetInduction
<1> QED
  BY <1>3 DEF T, Max

(* The smallest element of a set of numbers up to m.                       *)
LEMMA MinOfSubset ==
  ASSUME NEW m \in Nat, NEW s \in SUBSET (0 .. m), s # {} PROVE Min(s) \in s
<1> DEFINE R == OpToRel(<, Nat)
<1>1. IsWellFoundedOn(R, Nat)
  BY NatLessThanWellFounded
<1>2. s \in SUBSET Nat
  OBVIOUS
<1> HIDE DEF R
<1>3. PICK x \in s : \A y \in s : ~(<<y, x>> \in R)
  BY <1>1, <1>2, WFMin
<1>4. \A y \in s : x <= y
  <2> SUFFICES ASSUME NEW y \in s, ~(x <= y) PROVE FALSE
    OBVIOUS
  <2>1. <<y, x>> \in R
    BY <1>2 DEF R, OpToRel
  <2> QED BY <1>3, <2>1
<1> QED BY <1>4 DEF Min

(* The recursive function of a fold with values in S.                      *)
Folds(it, S, base, m, step) ==
  /\ it \in [SUBSET (1 .. m) -> S]
  /\ \A s \in SUBSET (1 .. m) :
       it[s] = IF s = {} THEN base ELSE step[<<it[s \ {Max(s)}], Max(s)>>]

(* The recursion that a fold is defined by has a solution.                 *)
LEMMA SetRecursion ==
  ASSUME NEW S, NEW base \in S, NEW m \in Nat, NEW step \in [S \X (1 .. m) -> S]
  PROVE  \E it : Folds(it, S, base, m, step)
<1> DEFINE Solves(it, n) ==
             \A s \in SUBSET (1 .. n) :
               it[s] = IF s = {} THEN base ELSE step[<<it[s \ {Max(s)}], Max(s)>>]
           Solved(n) == \E it \in [SUBSET (1 .. n) -> S] : Solves(it, n)
           T == {n \in Nat : n <= m => Solved(n)}
<1>1. Solved(0)
  <2> DEFINE it == [s \in SUBSET (1 .. 0) |-> base]
  <2>1. \A s \in SUBSET (1 .. 0) : s = {}
    OBVIOUS
  <2>2. it \in [SUBSET (1 .. 0) -> S] /\ Solves(it, 0)
    BY <2>1
  <2> QED BY <2>2
<1>2. ASSUME NEW n \in Nat, n + 1 <= m, Solved(n) PROVE Solved(n + 1)
  <2>1. PICK old \in [SUBSET (1 .. n) -> S] : Solves(old, n)
    BY <1>2
  <2> DEFINE new == [s \in SUBSET (1 .. (n + 1)) |->
                       IF n + 1 \in s THEN step[<<old[s \ {n + 1}], n + 1>>] ELSE old[s]]
  <2>2. \A s \in SUBSET (1 .. (n + 1)) :
          /\ n + 1 \in s => s \ {n + 1} \in SUBSET (1 .. n)
          /\ n + 1 \notin s => s \in SUBSET (1 .. n)
    OBVIOUS
  <2>3. n + 1 \in 1 .. m
    BY <1>2
  <2>4. \A a \in S : step[<<a, n + 1>>] \in S
    BY <2>3
  <2>5. new \in [SUBSET (1 .. (n + 1)) -> S]
    BY <2>1, <2>2, <2>4
  <2>6. ASSUME NEW s \in SUBSET (1 .. (n + 1))
        PROVE  new[s] = IF s = {} THEN base ELSE step[<<new[s \ {Max(s)}], Max(s)>>]
    <3>1. CASE n + 1 \in s
      <4>1. Max(s) = n + 1
        <5>1. n + 1 \in Nat /\ s \in SUBSET (0 .. (n + 1))
          OBVIOUS
        <5>2. Max(s) \in s /\ Max(s) >= n + 1
          BY <3>1, <5>1, MaxOfSubset
        <5>3. Max(s) \in 1 .. (n + 1)
          BY <5>2
        <5> QED BY <5>2, <5>3
      <4>2. new[s \ {n + 1}] = old[s \ {n + 1}]
        BY <2>2
      <4>3. new[s] = step[<<old[s \ {n + 1}], n + 1>>]
        BY <3>1
      <4> QED BY <3>1, <4>1, <4>2, <4>3
    <3>2. CASE n + 1 \notin s
      <4>1. s \in SUBSET (1 .. n) /\ new[s] = old[s]
        BY <2>2, <3>2
      <4>2. s # {} => new[s \ {Max(s)}] = old[s \ {Max(s)}]
        BY <3>2
      <4>3. old[s] = IF s = {} THEN base ELSE step[<<old[s \ {Max(s)}], Max(s)>>]
        BY <2>1, <4>1
      <4> QED BY <4>1, <4>2, <4>3
    <3> QED BY <3>1, <3>2
  <2> HIDE DEF new
  <2>7. Solves(new, n + 1)
    BY <2>6
  <2> QED BY <2>5, <2>7
<1> HIDE DEF Solved
<1>3. 0 \in T
  BY <1>1
<1>4. ASSUME NEW n \in Nat, n \in T PROVE n + 1 \in T
  BY <1>2, <1>4
<1> HIDE DEF T
<1>5. m \in T
  BY <1>3, <1>4, SetInduction
<1>6. Solved(m)
  BY <1>5 DEF T
<1> QED
  BY <1>6 DEF Solved, Folds

(* Taking the last number off 1 .. n.                                      *)
LEMMA LastOfInterval ==
  ASSUME NEW n \in Nat, n # 0
  PROVE  1 .. n # {} /\ Max(1 .. n) = n /\ (1 .. n) \ {Max(1 .. n)} = 1 .. (n - 1)
<1>1. 1 .. n \in SUBSET (0 .. n) /\ n \in 1 .. n
  OBVIOUS
<1>2. Max(1 .. n) \in 1 .. n /\ Max(1 .. n) >= n
  BY <1>1, MaxOfSubset
<1>3. Max(1 .. n) = n
  BY <1>2
<1>4. (1 .. n) \ {n} = 1 .. (n - 1)
  OBVIOUS
<1> QED
  BY <1>1, <1>3, <1>4

(* What holds of the base and is kept by each step holds of the fold.      *)
LEMMA FoldInduction ==
  ASSUME NEW it, NEW m \in Nat, NEW S, it[{}] \in S,
         \A n \in 1 .. m : it[1 .. (n - 1)] \in S => it[1 .. n] \in S
  PROVE  it[1 .. m] \in S
<1> DEFINE T == {n \in 0 .. m : it[1 .. n] \in S}
<1>1. 0 \in T
  <2>1. 1 .. 0 = {}
    OBVIOUS
  <2> QED BY <2>1
<1>2. ASSUME NEW n \in 1 .. m, n - 1 \in T PROVE n \in T
  BY <1>2
<1> HIDE DEF T
<1>3. 0 .. m \subseteq T
  BY <1>1, <1>2, IntervalInduction
<1>4. m \in T
  BY <1>3
<1> QED
  BY <1>4 DEF T

(* Taking the head of a queue.                                             *)
LEMMA TailFacts ==
  ASSUME NEW S, NEW s \in Seq(S), s # <<>>
  PROVE  /\ Head(s) \in S /\ Head(s) = s[1]
         /\ Tail(s) \in Seq(S) /\ Len(Tail(s)) = Len(s) - 1 /\ Len(s) \in Nat
         /\ \A i \in 1 .. Len(Tail(s)) : Tail(s)[i] = s[i + 1]
  OBVIOUS

-----------------------------------------------------------------------------
(* Texts, and the words that the engine is seeded with.                    *)

(* Removing characters leaves a text that is not longer.                   *)
LEMMA DropLastTyped ==
  ASSUME NEW t \in Text, NEW n \in Nat
  PROVE  DropLast(t, n) \in Text /\ Len(DropLast(t, n)) <= Len(t)
  BY DEF DropLast, Text

(* The two sides of a cursor are texts.                                    *)
LEMMA CutTyped ==
  ASSUME NEW t \in Text, NEW n \in Nat
  PROVE  /\ n <= Len(t) => text_before_cursor(t, n) \in Text
         /\ TextAfter(t, n) \in Text
  BY DEF text_before_cursor, TextAfter, Text

(* The word before the cursor is a text.                                   *)
LEMMA CurrentWordTyped ==
  ASSUME NEW t \in Text PROVE current_word(t) \in Text
<1> DEFINE breaks == {i \in DOMAIN t : t[i] \in Boundary}
           m == Len(t)
<1>1. m \in Nat /\ breaks \in SUBSET (0 .. m)
  BY DEF Text
<1> HIDE DEF breaks, m
<1>2. breaks # {} => Max(breaks) \in Nat
  <2>1. \A s \in SUBSET (0 .. m) : s # {} => Max(s) \in s
    BY <1>1, MaxOfSubset
  <2>2. breaks # {} => Max(breaks) \in breaks
    BY <1>1, <2>1, Zenon
  <2>3. \A x \in breaks : x \in 0 .. m
    BY <1>1
  <2>4. \A x \in 0 .. m : x \in Nat
    BY <1>1
  <2> QED BY <2>2, <2>3, <2>4, Zenon
<1>3. breaks # {} => TextAfter(t, Max(breaks)) \in Text
  BY <1>2, CutTyped
<1> QED
  BY <1>3 DEF current_word, breaks

(* Lesser and Monus stay among the natural numbers.                        *)
LEMMA LesserTyped ==
  ASSUME NEW m \in Nat, NEW n \in Nat
  PROVE  Lesser(m, n) \in Nat /\ Lesser(m, n) <= m /\ Lesser(m, n) <= n /\ Monus(m, n) \in Nat
  BY DEF Lesser, Monus

(* What a render of keys answers.                                          *)
Rendered == [engine : EngineStates, screen : Text]

(* One more key leaves an engine state and a screen.                       *)
LEMMA RenderStepTyped ==
  ASSUME NEW acc \in Rendered, NEW ch \in Char PROVE RenderStep(acc, ch) \in Rendered
<1> DEFINE r == VnKey(acc.engine, ch)
<1>1. r \in ProcessResult
  BY EngineAssumption DEF Rendered
<1> HIDE DEF r
<1>2. DropLast(acc.screen, r.backspaces) \in Text
  BY <1>1, DropLastTyped DEF Rendered, ProcessResult
<1> DEFINE s == IF r.consumed THEN DropLast(acc.screen, r.backspaces) \o r.commit
                              ELSE Append(acc.screen, ch)
<1>3. s \in Text
  BY <1>1, <1>2 DEF Rendered, ProcessResult, Text
<1> HIDE DEF s
<1>4. [engine |-> r.engine, screen |-> s] \in Rendered
  BY <1>1, <1>3 DEF Rendered, ProcessResult
<1> QED BY <1>4 DEF RenderStep, r, s

(* Rendering keys on a fresh engine: by induction on their number.         *)
LEMMA RenderTyped ==
  ASSUME NEW keys \in Text PROVE render(keys) \in Rendered
<1> DEFINE m == Len(keys)
           base == [engine |-> Fresh, screen |-> <<>>]
           step == [p \in Rendered \X (1 .. m) |-> RenderStep(p[1], keys[p[2]])]
           Solves(it) == it = [s \in SUBSET (1 .. m) |->
                                 IF s = {} THEN base
                                 ELSE RenderStep(it[s \ {Max(s)}], keys[Max(s)])]
           it == CHOOSE it : Solves(it)
<1>1. base \in Rendered /\ m \in Nat /\ DOMAIN keys = 1 .. m /\ \A i \in 1 .. m : keys[i] \in Char
  BY EngineAssumption DEF Rendered, Text
<1>2. step \in [Rendered \X (1 .. m) -> Rendered]
  BY <1>1, RenderStepTyped
<1> HIDE DEF base, m
<1>3. \E f : Solves(f)
  <2> HIDE DEF step
  <2>1. PICK f : Folds(f, Rendered, base, m, step)
    BY <1>1, <1>2, SetRecursion
  <2>2. ASSUME NEW s \in SUBSET (1 .. m), s # {}
        PROVE  step[<<f[s \ {Max(s)}], Max(s)>>] = RenderStep(f[s \ {Max(s)}], keys[Max(s)])
    <3>1. Max(s) \in 1 .. m
      <4>1. s \in SUBSET (0 .. m)
        BY <1>1
      <4>2. Max(s) \in s
        BY <1>1, <2>2, <4>1, MaxOfSubset
      <4> QED BY <4>2
    <3>2. f[s \ {Max(s)}] \in Rendered
      BY <2>1 DEF Folds
    <3> QED BY <3>1, <3>2 DEF step
  <2>3. Solves(f)
    BY <2>1, <2>2 DEF Folds
  <2> QED BY <2>3
<1>4. Solves(it)
  BY <1>3
<1>5. render(keys) = it[1 .. m]
  BY <1>1 DEF render, FoldLeft, MapThenFoldSet, base, m
<1> HIDE DEF it
<1>6. it[{}] \in Rendered
  BY <1>1, <1>4
<1>7. ASSUME NEW n \in 1 .. m, it[1 .. (n - 1)] \in Rendered PROVE it[1 .. n] \in Rendered
  <2>1. 1 .. n # {} /\ Max(1 .. n) = n /\ (1 .. n) \ {Max(1 .. n)} = 1 .. (n - 1)
    <3>1. n \in Nat /\ n # 0
      BY <1>1
    <3> QED BY <3>1, LastOfInterval
  <2>2. 1 .. n \in SUBSET (1 .. m)
    BY <1>1
  <2>3. it[1 .. n] = RenderStep(it[1 .. (n - 1)], keys[n])
    BY <1>4, <2>1, <2>2
  <2> QED BY <1>1, <1>7, <2>3, RenderStepTyped
<1>8. it[1 .. m] \in Rendered
  BY <1>1, <1>6, <1>7, FoldInduction
<1> QED
  BY <1>5, <1>8

(* The keystrokes of a composed text: by induction on its length.          *)
LEMMA ContextTyped ==
  ASSUME NEW text \in Text PROVE context_from_surrounding(text) \in Text
<1> DEFINE m == Len(text)
           step == [p \in Text \X (1 .. m) |-> p[1] \o KeysOf(text[p[2]])]
           Solves(it) == it = [s \in SUBSET (1 .. m) |->
                                 IF s = {} THEN <<>>
                                 ELSE it[s \ {Max(s)}] \o KeysOf(text[Max(s)])]
           it == CHOOSE it : Solves(it)
<1>1. <<>> \in Text /\ m \in Nat /\ DOMAIN text = 1 .. m
        /\ \A i \in 1 .. m : KeysOf(text[i]) \in Text
  BY EngineAssumption DEF Text
<1>2. \A a \in Text, b \in Text : a \o b \in Text
  BY DEF Text
<1>3. step \in [Text \X (1 .. m) -> Text]
  BY <1>1, <1>2
<1> HIDE DEF m
<1>4. \E f : Solves(f)
  <2> HIDE DEF step
  <2>1. PICK f : Folds(f, Text, <<>>, m, step)
    BY <1>1, <1>3, SetRecursion
  <2>2. ASSUME NEW s \in SUBSET (1 .. m), s # {}
        PROVE  step[<<f[s \ {Max(s)}], Max(s)>>] = f[s \ {Max(s)}] \o KeysOf(text[Max(s)])
    <3>1. Max(s) \in 1 .. m
      <4>1. s \in SUBSET (0 .. m)
        BY <1>1
      <4>2. Max(s) \in s
        BY <1>1, <2>2, <4>1, MaxOfSubset
      <4> QED BY <4>2
    <3>2. f[s \ {Max(s)}] \in Text
      BY <2>1 DEF Folds
    <3> QED BY <3>1, <3>2 DEF step
  <2>3. Solves(f)
    BY <2>1, <2>2 DEF Folds
  <2> QED BY <2>3
<1>5. Solves(it)
  BY <1>4
<1>6. context_from_surrounding(text) = it[1 .. m]
  BY <1>1 DEF context_from_surrounding, FoldLeft, MapThenFoldSet, m
<1> HIDE DEF it
<1>7. it[{}] \in Text
  BY <1>1, <1>5
<1>8. ASSUME NEW n \in 1 .. m, it[1 .. (n - 1)] \in Text PROVE it[1 .. n] \in Text
  <2>1. 1 .. n # {} /\ Max(1 .. n) = n /\ (1 .. n) \ {Max(1 .. n)} = 1 .. (n - 1)
    <3>1. n \in Nat /\ n # 0
      BY <1>1
    <3> QED BY <3>1, LastOfInterval
  <2>2. 1 .. n \in SUBSET (1 .. m)
    BY <1>1
  <2>3. it[1 .. n] = it[1 .. (n - 1)] \o KeysOf(text[n])
    BY <1>5, <2>1, <2>2
  <2> QED BY <1>1, <1>2, <1>8, <2>3
<1>9. it[1 .. m] \in Text
  BY <1>1, <1>7, <1>8, FoldInduction
<1> QED
  BY <1>6, <1>9

(* A render-gated seed leaves an engine state.                             *)
LEMMA SeedTyped ==
  ASSUME NEW word \in Text
  PROVE  feed_context_gated(word) \in EngineStates /\ SeedAccepted(word) \in BOOLEAN
<1>1. render(context_from_surrounding(word)) \in Rendered
  BY ContextTyped, RenderTyped
<1> QED
  BY <1>1, EngineAssumption DEF feed_context_gated, SeedAccepted, Rendered

-----------------------------------------------------------------------------
(* Methods that keep the tier, the quirk state and the selection.          *)

Decisions == [kind : {"ForwardRaw", "Apply"}, backspaces : Nat, commit : Text]

(* What most methods promise: d is a composer on the tier of c, with the   *)
(* IBus quirk state and the confirmation setting of c, and with the        *)
(* selection of c or none.                                                 *)
Leaves(c, d) ==
  /\ d \in Composers
  /\ d.method = c.method /\ d.ibus = c.ibus
  /\ d.confirm_retroactive_edits = c.confirm_retroactive_edits
  /\ d.selected_before \in {0, c.selected_before}

(* Leaves is transitive ...                                                *)
LEMMA LeavesTransitive ==
  ASSUME NEW c \in Composers, NEW d, NEW e, Leaves(c, d), Leaves(d, e) PROVE Leaves(c, e)
  BY DEF Leaves

(* shadow.clear().                                                         *)
LEMMA ClearShadowLeaves ==
  ASSUME NEW c \in Composers PROVE Leaves(c, ClearShadow(c))
<1>1. <<>> \in Text
  BY DEF Text
<1> QED
  BY <1>1 DEF Leaves, Composers, ClearShadow

(* engine.reset().                                                         *)
LEMMA ResetEngineLeaves ==
  ASSUME NEW c \in Composers PROVE Leaves(c, ResetEngine(c))
  BY EngineAssumption DEF Leaves, Composers, ResetEngine

(* A render-gated seed.                                                    *)
LEMMA ReseedLeaves ==
  ASSUME NEW c \in Composers, NEW word \in Text PROVE Leaves(c, Reseed(c, word))
<1>1. feed_context_gated(word) \in EngineStates /\ SeedAccepted(word) \in BOOLEAN
  BY SeedTyped
<1> QED
  BY <1>1 DEF Leaves, Composers, Reseed

(* The confirmation states; a raw key is never the absent one.             *)
LEMMA ConfirmationsTyped ==
  /\ Live \in Confirmation /\ LiveConfirmed \in Confirmation
  /\ FrameDerived \in Confirmation /\ AwaitingFrame \in Confirmation
  /\ \A raw \in PendingRaw : Pending(raw) \in Confirmation
<1>1. \A s \in {"Live", "LiveConfirmed", "FrameDerived", "AwaitingFrame"} :
        [state |-> s, raw |-> None] \in Confirmation
  BY DEF Confirmation
<1>2. \A raw \in PendingRaw : raw # None /\ [state |-> "PendingRaw", raw |-> raw] \in Confirmation
  BY NoneAssumption DEF Confirmation
<1> QED
  BY <1>1, <1>2 DEF Live, LiveConfirmed, FrameDerived, AwaitingFrame, Pending

(* Changing the confirmation state.                                        *)
LEMMA ConfirmationLeaves ==
  ASSUME NEW c \in Composers, NEW k \in Confirmation
  PROVE  Leaves(c, [c EXCEPT !.confirmation = k])
  BY DEF Leaves, Composers

(* Changing the Firefox quirk state.                                       *)
LEMMA FirefoxLeaves ==
  ASSUME NEW c \in Composers, NEW ff \in Firefox
  PROVE  Leaves(c, [c EXCEPT !.firefox = ff])
  BY DEF Leaves, Composers

(* Clearing the Firefox quirk state.                                       *)
LEMMA FirefoxTyped ==
  ASSUME NEW ff \in Firefox
  PROVE  FirefoxClear(ff) \in Firefox /\ [FirefoxClear(ff) EXCEPT !.forward_sticky = FALSE] \in Firefox
  BY DEF Firefox, FirefoxClear

(* ... and reflexive, ...                                                  *)
LEMMA LeavesReflexive == ASSUME NEW c \in Composers PROVE Leaves(c, c)
  BY DEF Leaves

(* ... and what it leaves is a composer.                                   *)
LEMMA LeavesTyped == ASSUME NEW c, NEW d, Leaves(c, d) PROVE d \in Composers
  BY DEF Leaves

(* A seed from a frame.                                                    *)
LEMMA ReseedFromFrameLeaves ==
  ASSUME NEW c \in Composers, NEW word \in Text PROVE Leaves(c, ReseedFromFrame(c, word))
<1> DEFINE k == IF SeedAccepted(word) THEN FrameDerived ELSE Live
           d == Reseed(c, word)
<1>1. k \in Confirmation
  BY ConfirmationsTyped
<1>2. Leaves(c, d) /\ d \in Composers
  BY ReseedLeaves, LeavesTyped
<1> HIDE DEF k, d
<1>3. Leaves(d, [d EXCEPT !.confirmation = k])
  BY <1>1, <1>2, ConfirmationLeaves
<1> QED
  BY <1>2, <1>3, LeavesTransitive DEF ReseedFromFrame, k, d

(* A tier change changes the tier and nothing else but the confirmation    *)
(* state.                                                                  *)
LEMMA SetMethodTyped ==
  ASSUME NEW c \in Composers, NEW m \in Tier
  PROVE  /\ set_method(c, m) \in Composers
         /\ set_method(c, m).method = m /\ set_method(c, m).ibus = c.ibus
         /\ set_method(c, m).confirm_retroactive_edits = c.confirm_retroactive_edits
         /\ set_method(c, m).selected_before = c.selected_before
<1> DEFINE k == IF m # "SurroundingText" THEN Live ELSE c.confirmation
<1>1. k \in Confirmation
  BY ConfirmationsTyped DEF Composers
<1> HIDE DEF k
<1>2. set_method(c, m) = [c EXCEPT !.method = m, !.confirmation = k]
  BY DEF set_method, k, Composers
<1> QED
  BY <1>1, <1>2 DEF Composers

(* A reset of the composition clears the selection.                        *)
LEMMA ResetCompositionLeaves ==
  ASSUME NEW c \in Composers
  PROVE  LET d == reset_composition_preserving_surrounding(c)
         IN  Leaves(c, d) /\ d.selected_before = 0
<1> DEFINE e == ClearShadow(ResetEngine(c))
           ff == [FirefoxClear(e.firefox) EXCEPT !.forward_sticky = FALSE]
           d == [e EXCEPT !.last_input_char = None, !.confirmation = AwaitingFrame,
                          !.firefox = ff]
<1>1. Leaves(c, e) /\ e \in Composers /\ e.selected_before = 0
  <2>1. Leaves(c, ResetEngine(c)) /\ ResetEngine(c) \in Composers
    BY ResetEngineLeaves, LeavesTyped
  <2>2. Leaves(ResetEngine(c), e) /\ e \in Composers
    BY <2>1, ClearShadowLeaves, LeavesTyped
  <2>3. e.selected_before = 0
    BY <2>1 DEF ClearShadow, Composers
  <2> QED BY <2>1, <2>2, <2>3, LeavesTransitive
<1> HIDE DEF e
<1>2. ff \in Firefox
  BY <1>1, FirefoxTyped DEF Composers
<1> HIDE DEF ff
<1>3. AwaitingFrame \in Confirmation
  BY ConfirmationsTyped
<1>4. Leaves(e, d) /\ d.selected_before = 0
  BY <1>1, <1>2, <1>3 DEF Leaves, Composers
<1>5. reset_composition_preserving_surrounding(c) = d
  BY DEF reset_composition_preserving_surrounding, e, ff
<1> HIDE DEF d
<1> QED
  BY <1>1, <1>4, <1>5, LeavesTransitive

(* The empty report is a report.                                           *)
LEMMA NoSurroundingTyped == NoSurrounding \in Surrounding
  BY DEF NoSurrounding, Surrounding, Text

(* Forgetting the last frame.                                              *)
LEMMA ClearPrevLeaves ==
  ASSUME NEW c \in Composers PROVE Leaves(c, clear_prev_surrounding(c))
  BY NoSurroundingTyped DEF Leaves, Composers, clear_prev_surrounding

(* A full reset also forgets the IBus quirk state.                         *)
LEMMA FullResetTyped ==
  ASSUME NEW c \in Composers
  PROVE  LET d == full_reset(c)
         IN  /\ d \in Composers
             /\ d.method = c.method /\ d.ibus = NewIbusQuirk
             /\ d.confirm_retroactive_edits = c.confirm_retroactive_edits
             /\ d.selected_before = 0
<1> DEFINE e == reset_composition_preserving_surrounding(c)
           g == clear_prev_surrounding(e)
<1>1. Leaves(c, e) /\ e \in Composers /\ e.selected_before = 0
  BY ResetCompositionLeaves, LeavesTyped
<1> HIDE DEF e
<1>2. Leaves(e, g) /\ g \in Composers /\ g.selected_before = 0
  <2>1. Leaves(e, g) /\ g \in Composers
    BY <1>1, ClearPrevLeaves, LeavesTyped
  <2> QED BY <1>1, <2>1 DEF Leaves
<1> HIDE DEF g
<1>3. NewIbusQuirk \in IbusQuirk
  BY DEF NewIbusQuirk, IbusQuirk
<1>4. full_reset(c) = [g EXCEPT !.ibus = NewIbusQuirk]
  BY DEF full_reset, g, e
<1> QED
  BY <1>1, <1>2, <1>3, <1>4 DEF Leaves, Composers

(* The clocks.                                                             *)
LEMMA ClockLeaves ==
  ASSUME NEW c \in Composers PROVE Leaves(c, mark_action(c)) /\ Leaves(c, defer_action(c))
  BY DEF Leaves, Composers, mark_action, defer_action

(* The idle policy.                                                        *)
LEMMA CheckIdleLeaves ==
  ASSUME NEW c \in Composers PROVE Leaves(c, check_idle_reset(c))
<1> DEFINE k == IF c.confirmation.state = "LiveConfirmed" THEN c.confirmation ELSE AwaitingFrame
           e == ClearShadow(ResetEngine(c))
<1>1. k \in Confirmation
  BY ConfirmationsTyped DEF Composers
<1> HIDE DEF k
<1>2. Leaves(c, [c EXCEPT !.confirmation = k])
  BY <1>1, ConfirmationLeaves
<1>3. Leaves(c, e) /\ e \in Composers
  <2>1. Leaves(c, ResetEngine(c)) /\ ResetEngine(c) \in Composers
    BY ResetEngineLeaves, LeavesTyped
  <2> QED BY <2>1, ClearShadowLeaves, LeavesTransitive, LeavesTyped
<1> HIDE DEF e
<1>4. Leaves(e, [e EXCEPT !.last_input_char = None])
  BY <1>3 DEF Leaves, Composers
<1>5. check_idle_reset(c) = IF ~c.idle THEN c
                            ELSE IF c.method = "SurroundingText"
                            THEN [c EXCEPT !.confirmation = k]
                            ELSE [e EXCEPT !.last_input_char = None]
  BY DEF check_idle_reset, k, e
<1> QED
  BY <1>2, <1>3, <1>4, <1>5, LeavesReflexive, LeavesTransitive

(* Counting a dead frame.                                                  *)
LEMMA NoteLivenessLeaves ==
  ASSUME NEW c \in Composers, NEW f \in Surrounding PROVE Leaves(c, NoteLiveness(c, f))
  BY DEF Leaves, Composers, NoteLiveness

(* A frame closes the wait for an echo.                                    *)
LEMMA FrameSeenTyped ==
  ASSUME NEW c \in Composers
  PROVE  LET d == mark_surrounding_frame_seen(c)
         IN  d \in Composers /\ d.method = c.method /\ d.selected_before = c.selected_before
             /\ d.confirm_retroactive_edits = c.confirm_retroactive_edits
<1> DEFINE q == [c.ibus EXCEPT !.echo_since_correction = TRUE]
<1>1. q \in IbusQuirk
  BY DEF Composers, IbusQuirk
<1>2. mark_surrounding_frame_seen(c) = [c EXCEPT !.ibus = q]
  BY DEF Composers, mark_surrounding_frame_seen
<1> HIDE DEF q
<1> QED
  BY <1>1, <1>2 DEF Composers

(* A correction opens the wait for an echo.                                *)
LEMMA NoteCorrectionTyped ==
  ASSUME NEW c \in Composers
  PROVE  LET d == NoteCorrection(c)
         IN  d \in Composers /\ d.method = c.method /\ d.selected_before = c.selected_before
             /\ d.confirm_retroactive_edits = c.confirm_retroactive_edits
             /\ d.ibus.saw_correction /\ ~d.ibus.echo_since_correction
<1> DEFINE n == IF WithoutEcho(c) THEN c.ibus.corrections_without_echo + 1
                ELSE IF c.ibus.saw_correction THEN 0 ELSE c.ibus.corrections_without_echo
           q == [saw_correction |-> TRUE, echo_since_correction |-> FALSE,
                 corrections_without_echo |-> n]
<1>1. n \in Nat
  BY DEF Composers, IbusQuirk
<1> HIDE DEF n
<1>2. q \in IbusQuirk /\ q.saw_correction /\ ~q.echo_since_correction
  BY <1>1 DEF IbusQuirk
<1>3. NoteCorrection(c) = [c EXCEPT !.ibus = q]
  BY DEF NoteCorrection, n
<1> HIDE DEF q
<1> QED
  BY <1>2, <1>3 DEF Composers

-----------------------------------------------------------------------------
(* Keys.                                                                   *)

(* What a key resets and seeds.                                            *)
LEMMA StartKeyLeaves ==
  ASSUME NEW c \in Composers, NEW ch \in Char PROVE Leaves(c, StartKey(c, ch))
<1> DEFINE c1 == IF c.confirmation.state = "PendingRaw" THEN ResetEngine(c) ELSE c
           ff == FirefoxClear(c1.firefox)
           c2 == IF ch \notin Alpha
                 THEN [c1 EXCEPT !.retroactive_context = FALSE, !.firefox = ff]
                 ELSE c1
           word == current_word(c.shadow)
<1>1. Leaves(c, c1) /\ c1 \in Composers
  BY ResetEngineLeaves, LeavesReflexive, LeavesTyped
<1> HIDE DEF c1
<1>2. ff \in Firefox
  BY <1>1, FirefoxTyped DEF Composers
<1> HIDE DEF ff
<1>3. Leaves(c1, c2)
  BY <1>1, <1>2 DEF Leaves, Composers
<1>4. Leaves(c, c2) /\ c2 \in Composers
  BY <1>1, <1>3, LeavesTransitive, LeavesTyped
<1> HIDE DEF c2
<1>5. word \in Text
  BY CurrentWordTyped DEF Composers
<1> HIDE DEF word
<1>6. Leaves(c, Reseed(c2, word))
  BY <1>4, <1>5, ReseedLeaves, LeavesTransitive
<1> QED
  BY <1>4, <1>6 DEF StartKey, c1, ff, c2, word

(* A character key.                                                        *)
LEMMA FeedKeyLeaves ==
  ASSUME NEW c \in Composers, NEW ch \in Char
  PROVE  Leaves(c, feed_key(c, ch).composer) /\ feed_key(c, ch).decision \in Decisions
<1> DEFINE d   == StartKey(c, ch)
           r   == VnKey(d.engine, ch)
           fed == [d EXCEPT !.engine = r.engine, !.last_input_char = ch, !.idle = FALSE]
           ff  == FirefoxClear(fed.firefox)
           stash == [backspaces |-> r.backspaces, commit |-> r.commit,
                     base_word |-> current_word(c.shadow)]
           raw   == [ch |-> ch,
                     repairable |-> c.confirmation.state # "PendingRaw",
                     edit |-> IF r.consumed THEN stash ELSE None,
                     from_frame |-> is_frame_derived(c.confirmation)]
           k     == IF ContextUncertain(c) THEN Pending(raw) ELSE Live
           text  == Append(fed.shadow, ch)
<1>1. Leaves(c, d) /\ d \in Composers
  BY StartKeyLeaves, LeavesTyped
<1> HIDE DEF d
<1>2. r \in ProcessResult
  BY <1>1, EngineAssumption DEF Composers
<1> HIDE DEF r
<1>3. Leaves(d, fed)
  BY <1>1, <1>2 DEF Leaves, Composers, ProcessResult
<1>4. Leaves(c, fed) /\ fed \in Composers
  BY <1>1, <1>3, LeavesTransitive, LeavesTyped
<1> HIDE DEF fed
<1>5. stash \in PendingEdit
  <2>1. current_word(c.shadow) \in Text
    BY CurrentWordTyped DEF Composers
  <2> QED BY <1>2, <2>1 DEF PendingEdit, ProcessResult, Text
<1> HIDE DEF stash
<1>6. raw \in PendingRaw
  <2>1. is_frame_derived(c.confirmation) \in BOOLEAN
    <3>1. c.confirmation.state = "PendingRaw" => c.confirmation.raw.from_frame \in BOOLEAN
      BY DEF Composers, Confirmation, PendingRaw
    <3> QED BY <3>1 DEF is_frame_derived
  <2> QED BY <1>2, <1>5, <2>1 DEF PendingRaw, ProcessResult
<1> HIDE DEF raw
<1>7. k \in Confirmation /\ Live \in Confirmation
  BY <1>6, ConfirmationsTyped
<1> HIDE DEF k
<1>8. ff \in Firefox /\ text \in Text
  <2>1. fed.firefox \in Firefox /\ fed.shadow \in Text
    BY <1>4 DEF Composers
  <2>2. ff \in Firefox
    BY <2>1, FirefoxTyped
  <2>3. text \in Text
    BY <2>1 DEF Text
  <2> QED BY <2>2, <2>3
<1> HIDE DEF ff, text
<1>9. Leaves(fed, [fed EXCEPT !.confirmation = Live])
  BY <1>4, <1>7, ConfirmationLeaves
<1>10. Leaves(fed, [fed EXCEPT !.shadow = text, !.firefox = ff, !.confirmation = k])
  BY <1>4, <1>7, <1>8 DEF Leaves, Composers
<1>11. feed_key(c, ch) =
         IF r.consumed /\ ~ContextUncertain(c)
         THEN [composer |-> [fed EXCEPT !.confirmation = Live],
               decision |-> Apply(r.backspaces, r.commit)]
         ELSE [composer |-> [fed EXCEPT !.shadow = text, !.firefox = ff, !.confirmation = k],
               decision |-> ForwardRaw]
  BY DEF feed_key, d, r, fed, ff, stash, raw, k, text
<1>12. Apply(r.backspaces, r.commit) \in Decisions /\ ForwardRaw \in Decisions
  BY <1>2 DEF Apply, ForwardRaw, Decisions, ProcessResult, Text
<1>13. /\ Leaves(c, [fed EXCEPT !.confirmation = Live])
       /\ Leaves(c, [fed EXCEPT !.shadow = text, !.firefox = ff, !.confirmation = k])
  BY <1>4, <1>9, <1>10, LeavesTransitive
<1> QED
  BY <1>11, <1>12, <1>13

(* Taking back a forwarded character.                                      *)
LEMMA UnrecordLeaves ==
  ASSUME NEW c \in Composers PROVE Leaves(c, unrecord_forwarded_char(c))
<1> DEFINE text == DropLast(c.shadow, 1)
           d == [c EXCEPT !.shadow = text, !.confirmation = Live]
<1>1. text \in Text /\ Live \in Confirmation
  BY DropLastTyped, ConfirmationsTyped DEF Composers
<1> HIDE DEF text
<1>2. Leaves(c, d) /\ d \in Composers
  BY <1>1 DEF Leaves, Composers
<1> HIDE DEF d
<1>3. Leaves(c, ResetEngine(d))
  BY <1>2, ResetEngineLeaves, LeavesTransitive
<1> QED
  BY <1>2, <1>3 DEF unrecord_forwarded_char, d, text

(* A Backspace.                                                            *)
LEMMA FeedBackspaceLeaves ==
  ASSUME NEW c \in Composers
  PROVE  Leaves(c, feed_backspace(c).composer) /\ feed_backspace(c).decision \in Decisions
<1> DEFINE r  == VnBackspace(c.engine)
           c1 == [c EXCEPT !.engine = r.engine, !.idle = FALSE]
           ff == FirefoxClear(c1.firefox)
           text == DropLast(c1.shadow, 1)
           c2 == [c1 EXCEPT !.shadow = text, !.firefox = ff]
           glyph == r.backspaces > 0 /\ c.shadow # <<>> /\ Last(c.shadow) \in Wide
<1>1. r \in ProcessResult
  BY EngineAssumption DEF Composers
<1> HIDE DEF r
<1>2. Leaves(c, c1) /\ c1 \in Composers
  BY <1>1 DEF Leaves, Composers, ProcessResult
<1> HIDE DEF c1
<1>3. ff \in Firefox /\ text \in Text
  BY <1>2, FirefoxTyped, DropLastTyped DEF Composers
<1> HIDE DEF ff, text
<1>4. Leaves(c1, c2)
  BY <1>2, <1>3 DEF Leaves, Composers
<1>5. Leaves(c, c2) /\ c2 \in Composers
  BY <1>2, <1>4, LeavesTransitive, LeavesTyped
<1> HIDE DEF c2
<1>6. Leaves(c, ResetEngine(c2))
  BY <1>5, ResetEngineLeaves, LeavesTransitive
<1>7. Apply(r.backspaces, r.commit) \in Decisions /\ ForwardRaw \in Decisions
  BY <1>1 DEF Apply, ForwardRaw, Decisions, ProcessResult, Text
<1> HIDE DEF glyph
<1>8. feed_backspace(c) =
        IF r.consumed
        THEN [composer |-> c1, decision |-> Apply(r.backspaces, r.commit)]
        ELSE [composer |-> IF glyph THEN ResetEngine(c2) ELSE c2, decision |-> ForwardRaw]
  BY DEF feed_backspace, r, c1, ff, text, c2, glyph
<1> QED
  BY <1>2, <1>5, <1>6, <1>7, <1>8


-----------------------------------------------------------------------------
(* Edits: what they ask of the sink.                                       *)

Edits == [op : {"backspace"}] \cup [op : {"delete"}, bytes : Nat, chars : Nat]
           \cup [op : {"text"}, text : Text]

(* No request deletes a character.                                         *)
Harmless(output) == \A i \in DOMAIN output : output[i].op = "delete" => output[i].chars = 0

(* The byte length of a text.                                              *)
LEMMA ByteLenTyped == ASSUME NEW t \in Text PROVE ByteLen(t) \in Nat
<1> DEFINE w == {i \in DOMAIN t : t[i] \in Wide}
           m == Len(t)
<1>1. m \in Nat /\ w \in SUBSET (1 .. m)
  BY DEF Text
<1> HIDE DEF w, m
<1>2. IsFiniteSet(1 .. m)
  BY <1>1, FS_Interval
<1>3. Cardinality(w) \in Nat
  BY <1>1, <1>2, FS_Subset, FS_CardinalityType
<1> QED BY <1>1, <1>3 DEF ByteLen, w, m

(* BackSpace keys delete nothing by request.                               *)
LEMMA BackspaceKeysTyped ==
  ASSUME NEW n \in Nat
  PROVE  BackspaceKeys(n) \in Seq(Edits) /\ Harmless(BackspaceKeys(n))
<1>1. BackspaceKey \in Edits /\ BackspaceKey.op # "delete"
  BY DEF Edits, BackspaceKey
<1>2. BackspaceKeys(n) \in [1 .. n -> Edits]
  BY <1>1 DEF BackspaceKeys
<1>3. [1 .. n -> Edits] \subseteq Seq(Edits)
  OBVIOUS
<1> QED BY <1>1, <1>2, <1>3 DEF BackspaceKeys, Harmless

(* A text after other requests.                                            *)
LEMMA AppendText ==
  ASSUME NEW out \in Seq(Edits), NEW t \in Text
  PROVE  /\ Append(out, CommitText(t)) \in Seq(Edits)
         /\ Harmless(out) => Harmless(Append(out, CommitText(t)))
<1> DEFINE e == CommitText(t)
<1>1. e \in Edits /\ e.op # "delete"
  BY DEF CommitText, Edits
<1> HIDE DEF e
<1>2. Append(out, e) \in Seq(Edits)
  BY <1>1
<1>3. ASSUME Harmless(out), NEW i \in DOMAIN Append(out, e), Append(out, e)[i].op = "delete"
      PROVE  Append(out, e)[i].chars = 0
  <2>1. i \in 1 .. Len(out) + 1
    BY <1>3
  <2>2. CASE i = Len(out) + 1
    BY <1>1, <1>3, <2>2
  <2>3. CASE i \in 1 .. Len(out)
    <3>1. Append(out, e)[i] = out[i] /\ i \in DOMAIN out
      BY <2>3
    <3> QED BY <1>3, <3>1 DEF Harmless
  <2> QED BY <2>1, <2>2, <2>3
<1> QED BY <1>2, <1>3 DEF Harmless, e

(* An edit on the ForwardKey tier deletes nothing by request.              *)
LEMMA ForwardKeyApplyTyped ==
  ASSUME NEW c \in Composers, NEW b \in Nat, NEW t \in Text
  PROVE  LET a == ForwardKeyApply(c, b, t)
         IN  Leaves(c, a.composer) /\ a.output \in Seq(Edits) /\ Harmless(a.output)
<1> DEFINE s == DropLast(c.shadow, b) \o t
<1>1. s \in Text
  <2>1. DropLast(c.shadow, b) \in Text
    BY DropLastTyped DEF Composers
  <2> QED BY <2>1 DEF Text
<1> HIDE DEF s
<1>2. Leaves(c, [c EXCEPT !.shadow = s])
  BY <1>1 DEF Leaves, Composers
<1> QED
  BY <1>2, BackspaceKeysTyped, AppendText DEF ForwardKeyApply, s

(* An edit on the SurroundingText tier; one without backspaces and without *)
(* a selection before the cursor deletes nothing.                          *)
LEMMA SurroundingApplyTyped ==
  ASSUME NEW c \in Composers, NEW b \in Nat, NEW t \in Text
  PROVE  LET a == SurroundingApply(c, b, t)
         IN  /\ Leaves(c, a.composer) /\ a.output \in Seq(Edits)
             /\ b = 0 /\ c.selected_before = 0 => Harmless(a.output)
<1> DEFINE kept == DropLast(c.shadow, b + c.selected_before)
           deleted == TextAfter(c.shadow, Len(kept))
           length == IF c.firefox.delete_unit = "Chars" THEN Len(deleted) ELSE ByteLen(deleted)
           s == kept \o t
           out == IF c.selected_after > 0 THEN BackspaceKeys(b + 1)
                  ELSE <<DeleteBefore(length, Len(deleted))>>
<1>1. c.shadow \in Text /\ c.selected_before \in Nat /\ c.selected_after \in Nat
  BY DEF Composers
<1>2. kept \in Text /\ Len(kept) \in Nat
  BY <1>1, DropLastTyped DEF Text
<1>3. b = 0 /\ c.selected_before = 0 => Len(kept) = Len(c.shadow)
  BY <1>1 DEF DropLast, Text
<1> HIDE DEF kept
<1>4. deleted \in Text
  BY <1>1, <1>2, CutTyped
<1>5. b = 0 /\ c.selected_before = 0 => Len(deleted) = 0
  BY <1>1, <1>3 DEF TextAfter, Text
<1>6. ByteLen(deleted) \in Nat /\ Len(deleted) \in Nat
  BY <1>4, ByteLenTyped DEF Text
<1> HIDE DEF deleted
<1>7. length \in Nat
  BY <1>6
<1> HIDE DEF length
<1>8. s \in Text
  BY <1>2 DEF Text
<1> HIDE DEF s
<1>9. Leaves(c, [c EXCEPT !.shadow = s, !.selected_before = 0, !.selected_after = 0])
  BY <1>8 DEF Leaves, Composers
<1>10. out \in Seq(Edits) /\ (b = 0 /\ c.selected_before = 0 => Harmless(out))
  <2>1. BackspaceKeys(b + 1) \in Seq(Edits) /\ Harmless(BackspaceKeys(b + 1))
    BY BackspaceKeysTyped
  <2> DEFINE e == DeleteBefore(length, Len(deleted))
  <2>2. e \in Edits /\ e.chars = Len(deleted)
    BY <1>6, <1>7 DEF DeleteBefore, Edits
  <2> HIDE DEF e
  <2>3. <<e>> \in Seq(Edits) /\ (e.chars = 0 => Harmless(<<e>>))
    BY <2>2 DEF Harmless
  <2> QED BY <1>5, <2>1, <2>2, <2>3 DEF e
<1> HIDE DEF out
<1>11. SurroundingApply(c, b, t) =
         [composer |-> [c EXCEPT !.shadow = s, !.selected_before = 0, !.selected_after = 0],
          output |-> Append(out, CommitText(t))]
  BY DEF SurroundingApply, kept, deleted, length, s, out
<1> QED
  BY <1>9, <1>10, <1>11, AppendText

(* An edit on the current tier.                                            *)
LEMMA StrategyApplyTyped ==
  ASSUME NEW c \in Composers, NEW b \in Nat, NEW t \in Text
  PROVE  LET a == StrategyApply(c, b, t)
         IN  /\ Leaves(c, a.composer) /\ a.output \in Seq(Edits)
             /\ c.method = "ForwardKey" \/ (b = 0 /\ c.selected_before = 0) => Harmless(a.output)
  BY ForwardKeyApplyTyped, SurroundingApplyTyped DEF StrategyApply

(* The reseed after an edit in retroactive context.                        *)
LEMMA RefreshLeaves ==
  ASSUME NEW c \in Composers, NEW b PROVE Leaves(c, RefreshRetroactive(c, b))
<1>1. current_word(c.shadow) \in Text
  BY CurrentWordTyped DEF Composers
<1> QED BY <1>1, ReseedLeaves, LeavesReflexive DEF RefreshRetroactive

(* Composer::apply.                                                        *)
LEMMA ApplyTyped ==
  ASSUME NEW c \in Composers, NEW b \in Nat, NEW t \in Text
  PROVE  LET a == apply(c, b, t)
         IN  /\ Leaves(c, a.composer) /\ a.output \in Seq(Edits)
             /\ c.method = "ForwardKey" \/ (b = 0 /\ c.selected_before = 0) => Harmless(a.output)
<1> DEFINE a == StrategyApply(c, b, t)
<1>1. /\ Leaves(c, a.composer) /\ a.composer \in Composers /\ a.output \in Seq(Edits)
      /\ c.method = "ForwardKey" \/ (b = 0 /\ c.selected_before = 0) => Harmless(a.output)
  BY StrategyApplyTyped, LeavesTyped
<1>2. apply(c, b, t) = [composer |-> RefreshRetroactive(a.composer, b), output |-> a.output]
  <2>1. \E x, y : SurroundingApply(c, b, t) = [composer |-> x, output |-> y]
    BY DEF SurroundingApply
  <2>2. \E x, y : ForwardKeyApply(c, b, t) = [composer |-> x, output |-> y]
    BY DEF ForwardKeyApply
  <2>3. PICK x, y : a = [composer |-> x, output |-> y]
    BY <2>1, <2>2 DEF StrategyApply
  <2>4. apply(c, b, t) = [a EXCEPT !.composer = RefreshRetroactive(@, b)]
    BY DEF apply
  <2> HIDE DEF a
  <2> QED BY <2>3, <2>4
<1> HIDE DEF a
<1>3. Leaves(c, RefreshRetroactive(a.composer, b))
  BY <1>1, RefreshLeaves, LeavesTransitive
<1> QED BY <1>1, <1>2, <1>3


(* apply_to_sink, with the Firefox workaround.                             *)
LEMMA ApplyToSinkTyped ==
  ASSUME NEW c \in Composers, NEW b \in Nat, NEW t \in Text, NEW keep \in BOOLEAN
  PROVE  LET a == apply_to_sink_inner(c, b, t, keep)
         IN  Leaves(c, a.composer) /\ a.output \in Seq(Edits)
<1> DEFINE sticky == c.firefox.forward_sticky \/ c.firefox.use_forward_delete
           armed == [c EXCEPT !.firefox = [c.firefox EXCEPT !.forward_sticky = sticky]]
           forward == armed.firefox.forward_sticky \/ MultibyteRevert(c, b, t)
           a == IF forward THEN ForwardKeyApply(armed, b, t) ELSE StrategyApply(armed, b, t)
           d == a.composer
           c1 == IF forward THEN d
                 ELSE [d EXCEPT !.firefox = [d.firefox EXCEPT !.delete_unit = "Bytes"]]
           c2 == IF keep THEN c1 ELSE RefreshRetroactive(c1, b)
           echo == [expected |-> c2.shadow, delete_echo |-> DropLast(c.shadow, b)]
           c3 == [c2 EXCEPT !.firefox = [c2.firefox EXCEPT !.expected_echo = echo]]
<1>1. Leaves(c, armed) /\ armed \in Composers
  <2>1. c.firefox \in Firefox
    BY DEF Composers
  <2>2. [c.firefox EXCEPT !.forward_sticky = sticky] \in Firefox
    BY <2>1 DEF Firefox
  <2>3. Leaves(c, armed)
    BY <2>2, FirefoxLeaves
  <2> QED BY <2>3, LeavesTyped
<1>2. apply_to_sink_inner(c, b, t, keep) =
        [composer |-> IF b > 0 /\ c2.method = "SurroundingText" THEN c3 ELSE c2,
         output |-> a.output]
  BY DEF apply_to_sink_inner, sticky, armed, forward, a, d, c1, c2, echo, c3
<1> HIDE DEF armed, forward
<1>3. Leaves(c, d) /\ d \in Composers /\ a.output \in Seq(Edits)
  BY <1>1, ForwardKeyApplyTyped, StrategyApplyTyped, LeavesTransitive, LeavesTyped
<1> HIDE DEF a, d
<1>4. Leaves(c, c1) /\ c1 \in Composers
  <2>1. [d.firefox EXCEPT !.delete_unit = "Bytes"] \in Firefox
    BY <1>3 DEF Firefox, Composers
  <2> QED BY <1>3, <2>1, FirefoxLeaves, LeavesTransitive, LeavesTyped
<1> HIDE DEF c1
<1>5. Leaves(c, c2) /\ c2 \in Composers
  BY <1>4, RefreshLeaves, LeavesTransitive, LeavesTyped
<1> HIDE DEF c2
<1>6. Leaves(c, c3)
  <2>1. c2.shadow \in Text /\ DropLast(c.shadow, b) \in Text /\ c2.firefox \in Firefox
    BY <1>5, DropLastTyped DEF Composers
  <2>2. echo \in PendingEcho
    BY <2>1 DEF PendingEcho
  <2> HIDE DEF echo
  <2>3. [c2.firefox EXCEPT !.expected_echo = echo] \in Firefox
    BY <2>1, <2>2 DEF Firefox
  <2> QED BY <1>5, <2>3, FirefoxLeaves, LeavesTransitive
<1> HIDE DEF c3
<1> QED BY <1>2, <1>3, <1>5, <1>6

(* apply_confirmed_repair_to_sink.                                         *)
LEMMA RepairTyped ==
  ASSUME NEW c \in Composers, NEW b \in Nat, NEW t \in Text
  PROVE  LET a == apply_confirmed_repair_to_sink(c, b, t)
         IN  Leaves(c, a.composer) /\ a.output \in Seq(Edits)
<1> DEFINE a == apply_to_sink_inner(c, b, t, TRUE)
           d == a.composer
           ff == [d.firefox EXCEPT !.expected_echo = None]
<1>1. Leaves(c, d) /\ d \in Composers /\ a.output \in Seq(Edits)
  BY ApplyToSinkTyped, LeavesTyped
<1>2. ff \in Firefox
  BY <1>1 DEF Firefox, Composers
<1>3. \E x, y : a = [composer |-> x, output |-> y]
  BY DEF apply_to_sink_inner
<1>4. apply_confirmed_repair_to_sink(c, b, t) = [a EXCEPT !.composer.firefox.expected_echo = None]
  BY DEF apply_confirmed_repair_to_sink
<1> HIDE DEF a
<1>5. apply_confirmed_repair_to_sink(c, b, t)
        = [composer |-> [d EXCEPT !.firefox = ff], output |-> a.output]
  BY <1>3, <1>4
<1> HIDE DEF ff, d
<1> QED BY <1>1, <1>2, <1>5, FirefoxLeaves, LeavesTransitive

-----------------------------------------------------------------------------
(* Surrounding-text frames.                                                *)

(* A frame replaces the shadow and the selection, but not the tier.        *)
SameTier(c, d) == d \in Composers /\ d.method = c.method

(* SameTier is reflexive and transitive, and follows from Leaves.          *)
LEMMA SameTierBasics ==
  ASSUME NEW c \in Composers
  PROVE  /\ SameTier(c, c)
         /\ \A d : Leaves(c, d) => SameTier(c, d)
         /\ \A d, e : SameTier(c, d) /\ SameTier(d, e) => SameTier(c, e)
         /\ \A d : SameTier(c, d) => d \in Composers
  BY DEF SameTier, Leaves

(* Recording a frame.                                                      *)
LEMMA SyncToFrameTyped ==
  ASSUME NEW c \in Composers, NEW f \in Surrounding
  PROVE  /\ SameTier(c, on_surrounding_text(c, f)) /\ SameTier(c, record_surrounding(c, f))
         /\ SameTier(c, SyncToFrame(c, f))
<1> DEFINE d == on_surrounding_text(c, f)
           t == text_before_cursor(f.text, Lesser(f.cursor, f.anchor))
           b == Monus(f.cursor, f.anchor)
           a == Monus(f.anchor, f.cursor)
<1>1. f.text \in Text /\ f.cursor \in Nat /\ f.anchor \in Nat /\ f.cursor <= Len(f.text)
  BY DEF Surrounding
<1>2. /\ Lesser(f.cursor, f.anchor) \in Nat /\ Lesser(f.cursor, f.anchor) <= f.cursor
      /\ a \in Nat /\ b \in Nat
  BY <1>1, LesserTyped
<1>3. Lesser(f.cursor, f.anchor) <= Len(f.text)
  BY <1>1, <1>2 DEF Text
<1>4. t \in Text
  BY <1>1, <1>2, <1>3, CutTyped
<1>5. d = [c EXCEPT !.shadow = t, !.selected_before = b, !.selected_after = a]
  BY DEF on_surrounding_text
<1> HIDE DEF t, a, b, d
<1>6. SameTier(c, d)
  BY <1>2, <1>4, <1>5 DEF SameTier, Composers
<1>7. \A e \in Composers : SameTier(e, record_surrounding(e, f))
  BY DEF SameTier, Composers, record_surrounding
<1> QED
  BY <1>6, <1>7, SameTierBasics DEF SyncToFrame, d

(* Revalidating a confirmed composition.                                   *)
LEMMA RevalidateLeaves ==
  ASSUME NEW c \in Composers, NEW t PROVE Leaves(c, revalidate_live_confirmation(c, t))
  BY ConfirmationsTyped, ConfirmationLeaves, LeavesReflexive DEF revalidate_live_confirmation

(* The watchdog downgrades or keeps the tier.                              *)
LEMMA WatchdogTyped ==
  ASSUME NEW c \in Composers, NEW f \in Surrounding, NEW activate \in BOOLEAN
  PROVE  LET d == Watchdog(c, f, activate)
         IN  d \in Composers /\ d.method \in {c.method, "ForwardKey"}
<1> DEFINE n == NoteLiveness(c, f)
           m == set_method(n, "ForwardKey")
           d == [m EXCEPT !.commit_string_functional = FALSE]
<1>1. Leaves(c, n) /\ n \in Composers /\ n.method = c.method
  BY NoteLivenessLeaves DEF Leaves
<1> HIDE DEF n
<1>2. m \in Composers /\ m.method = "ForwardKey"
  BY <1>1, SetMethodTyped DEF Tier
<1> HIDE DEF m
<1>3. d \in Composers /\ d.method = "ForwardKey"
  BY <1>2 DEF Composers
<1> HIDE DEF d
<1> QED
  BY <1>1, <1>3 DEF Watchdog, n, m, d

(* A common prefix is no longer than either text.                          *)
LEMMA CommonPrefixTyped ==
  ASSUME NEW a \in Text, NEW b \in Text
  PROVE  CommonPrefix(a, b) \in Nat /\ CommonPrefix(a, b) <= Len(a) /\ CommonPrefix(a, b) <= Len(b)
<1> DEFINE m == Lesser(Len(a), Len(b))
           s == {n \in 0 .. m : SubSeq(a, 1, n) = SubSeq(b, 1, n)}
<1>1. Len(a) \in Nat /\ Len(b) \in Nat
  BY DEF Text
<1>2. m \in Nat /\ m <= Len(a) /\ m <= Len(b)
  BY <1>1, LesserTyped
<1>3. 0 \in s
  <2>1. SubSeq(a, 1, 0) = SubSeq(b, 1, 0)
    BY DEF Text
  <2> QED BY <1>2, <2>1
<1>4. CommonPrefix(a, b) = Max(s)
  BY DEF CommonPrefix
<1>5. s \in SUBSET (0 .. m)
  OBVIOUS
<1> HIDE DEF m, s
<1>6. Max(s) \in s
  BY <1>2, <1>3, <1>5, MaxOfSubset
<1>7. Max(s) \in 0 .. m
  BY <1>5, <1>6
<1> HIDE DEF s
<1> QED BY <1>1, <1>2, <1>4, <1>7


(* What a confirmed raw key may ask for.                                   *)
Repairs == [backspaces : Nat, commit : Text]

(* Changing the last input character.                                      *)
LEMMA LastCharTyped ==
  ASSUME NEW c \in Composers, NEW ch \in Char \cup {None}
  PROVE  SameTier(c, [c EXCEPT !.last_input_char = ch])
  BY DEF SameTier, Composers

(* The parts of a report.                                                  *)
LEMMA BeforeTyped ==
  ASSUME NEW f \in Surrounding
  PROVE  /\ f.text \in Text /\ f.cursor \in Nat /\ f.anchor \in Nat
         /\ text_before_cursor(f.text, f.cursor) \in Text
         /\ text_before_cursor(f.text, Lesser(f.cursor, f.anchor)) \in Text
<1>1. /\ f.text \in Text /\ f.cursor \in Nat /\ f.anchor \in Nat
      /\ f.cursor <= Len(f.text) /\ f.anchor <= Len(f.text)
  BY DEF Surrounding
<1>2. Lesser(f.cursor, f.anchor) \in Nat /\ Lesser(f.cursor, f.anchor) <= Len(f.text)
  BY <1>1 DEF Lesser
<1> QED BY <1>1, <1>2, CutTyped

(* Confirming a raw key: the repair is a number of characters and a text.  *)
LEMMA ConfirmRawKeyTyped ==
  ASSUME NEW c \in Composers, NEW f \in Surrounding, c.confirmation.state = "PendingRaw"
  PROVE  LET o == ConfirmRawKey(c, f) IN SameTier(c, o.composer) /\ o.repair \in Repairs
<1> DEFINE raw         == c.confirmation.raw
           before      == text_before_cursor(f.text, f.cursor)
           base_word   == current_word(DropLast(before, 1))
           screen_word == Append(base_word, raw.ch)
           synced      == [SyncToFrame(c, f) EXCEPT !.last_input_char = raw.ch]
           replay      == VnKey(feed_context_gated(base_word), raw.ch)
           desired     == DropLast(base_word, replay.backspaces) \o replay.commit
           prefix      == CommonPrefix(screen_word, desired)
           no_repair   == [backspaces |-> 0, commit |-> <<>>]
           derived     == [synced EXCEPT !.retroactive_context = TRUE,
                                         !.confirmation = FrameDerived]
           change == [backspaces |-> Len(screen_word) - prefix,
                      commit |-> TextAfter(desired, prefix)]
           replayed == [derived EXCEPT !.engine = replay.engine]
           unproven == \/ ~(\/ confirms_inserted_char(c.prev, f, raw.ch)
                            \/ before = c.shadow /\ f.text # c.prev.text)
                       \/ ~raw.repairable
<1>1. raw \in PendingRaw
  BY DEF Composers, Confirmation
<1>2. raw.ch \in Char /\ (raw.edit # None => raw.edit \in PendingEdit)
  BY <1>1 DEF PendingRaw
<1>3. ConfirmRawKey(c, f) =
        IF unproven
        THEN [composer |-> ReseedFromFrame(synced, current_word(before)), repair |-> no_repair]
        ELSE IF StashFits(raw, base_word)
        THEN [composer |-> derived, repair |-> StashedRepair(raw.edit)]
        ELSE IF ~SeedAccepted(base_word)
        THEN [composer |-> ReseedFromFrame(synced, screen_word), repair |-> no_repair]
        ELSE [composer |-> replayed, repair |-> IF ~replay.consumed THEN no_repair ELSE change]
  BY DEF ConfirmRawKey
<1> HIDE DEF unproven
<1>4. before \in Text /\ current_word(before) \in Text
  BY BeforeTyped, CurrentWordTyped
<1>5. base_word \in Text
  <2>1. DropLast(before, 1) \in Text
    BY <1>4, DropLastTyped
  <2> QED BY <2>1, CurrentWordTyped
<1> HIDE DEF raw, before, base_word
<1>6. screen_word \in Text
  BY <1>2, <1>5 DEF Text
<1> HIDE DEF screen_word
<1>7. SameTier(c, synced) /\ synced \in Composers
  <2>1. SameTier(c, SyncToFrame(c, f)) /\ SyncToFrame(c, f) \in Composers
    BY SyncToFrameTyped, SameTierBasics
  <2> QED BY <1>2, <2>1, LastCharTyped, SameTierBasics
<1> HIDE DEF synced
<1>8. replay \in ProcessResult
  BY <1>2, <1>5, SeedTyped, EngineAssumption
<1> HIDE DEF replay
<1>9. desired \in Text
  <2>1. DropLast(base_word, replay.backspaces) \in Text
    BY <1>5, <1>8, DropLastTyped DEF ProcessResult
  <2> QED BY <1>8, <2>1 DEF Text, ProcessResult
<1> HIDE DEF desired
<1>10. prefix \in Nat /\ prefix <= Len(screen_word)
  BY <1>6, <1>9, CommonPrefixTyped
<1> HIDE DEF prefix
<1>11. change \in Repairs /\ no_repair \in Repairs
  <2>1. TextAfter(desired, prefix) \in Text
    BY <1>9, <1>10, CutTyped
  <2>2. Len(screen_word) - prefix \in Nat /\ <<>> \in Text
    BY <1>6, <1>10 DEF Text
  <2> QED BY <2>1, <2>2 DEF Repairs
<1>12. StashFits(raw, base_word) => StashedRepair(raw.edit) \in Repairs
  BY <1>2 DEF StashFits, StashedRepair, Repairs, PendingEdit
<1> HIDE DEF change, no_repair
<1>13. SameTier(c, derived) /\ derived \in Composers
  <2>1. FrameDerived \in Confirmation
    BY ConfirmationsTyped
  <2>2. SameTier(synced, derived)
    BY <1>7, <2>1 DEF SameTier, Composers
  <2> QED BY <1>7, <2>2, SameTierBasics
<1> HIDE DEF derived
<1>14. SameTier(c, replayed)
  <2>1. SameTier(derived, replayed)
    BY <1>8, <1>13 DEF SameTier, Composers, ProcessResult
  <2> QED BY <1>13, <2>1, SameTierBasics
<1> HIDE DEF replayed
<1>15. /\ SameTier(c, ReseedFromFrame(synced, current_word(before)))
       /\ SameTier(c, ReseedFromFrame(synced, screen_word))
  BY <1>4, <1>6, <1>7, ReseedFromFrameLeaves, SameTierBasics
<1> QED
  BY <1>3, <1>11, <1>12, <1>13, <1>14, <1>15

(* The Firefox workaround on a frame.                                      *)
LEMMA FirefoxObserveTyped ==
  ASSUME NEW ff \in Firefox, NEW before, NEW recent \in BOOLEAN, NEW retro \in BOOLEAN
  PROVE  FirefoxObserve(ff, before, recent, retro) \in Firefox
<1> DEFINE left == retro /\ FirefoxBoundary(before)
           g == [ff EXCEPT !.expected_echo = None,
                           !.delete_unit = IF left THEN "Bytes" ELSE "Chars",
                           !.use_forward_delete = ~left]
<1>1. g \in Firefox
  BY DEF Firefox
<1>2. FirefoxObserve(ff, before, recent, retro) =
        IF ff.expected_echo = None THEN ff
        ELSE IF before = ff.expected_echo.expected THEN FirefoxClear(ff)
        ELSE IF before = ff.expected_echo.delete_echo THEN ff
        ELSE IF ~recent THEN FirefoxClear(ff) ELSE g
  BY DEF FirefoxObserve
<1> HIDE DEF g
<1> QED BY <1>1, <1>2, FirefoxTyped

(* The trust-and-reseed gate.                                              *)
LEMMA ObserveFrameTyped ==
  ASSUME NEW c \in Composers, NEW f \in Surrounding, NEW force \in BOOLEAN
  PROVE  SameTier(c, ObserveFrame(c, f, force))
<1> DEFINE before    == text_before_cursor(f.text, f.cursor)
           one_char  == detect_one_char_insertion(c.prev, f)
           confirmed == before = c.shadow
           deletion  == detect_deletion(c.prev, f) \/ confirmed
           ff        == FirefoxObserve(c.firefox, before, c.recent, c.retroactive_context)
           commits   == c.commit_string_functional /\ ~ff.use_forward_delete /\ ~ff.forward_sticky
           c1        == [c EXCEPT !.firefox = ff, !.commit_string_functional = commits]
           had_edit  == c.confirmation.state = "PendingRaw" /\ c.confirmation.raw.edit # None
           k         == IF is_frame_derived(c.confirmation) THEN FrameDerived
                        ELSE IF confirmed /\ c.confirmation.state # "PendingRaw"
                             THEN LiveConfirmed ELSE Live
           o         == on_surrounding_text(c1, f)
           c2        == [o EXCEPT !.confirmation = k]
           c3        == IF had_edit THEN ResetEngine(c2) ELSE c2
           e         == ResetEngine(c3)
           word      == current_word(text_before_cursor(f.text, Lesser(f.cursor, f.anchor)))
           g         == ReseedFromFrame(c3, word)
           c4        == IF deletion /\ ~confirmed
                        THEN [e EXCEPT !.confirmation = Live, !.last_input_char = None]
                        ELSE IF ~deletion /\ Reseeds(c.recent, one_char, deletion, force)
                        THEN [g EXCEPT !.last_input_char = None]
                        ELSE c3
<1>1. ObserveFrame(c, f, force) =
        IF Trusts(c.recent, one_char, confirmed, force) THEN record_surrounding(c4, f) ELSE c1
  BY DEF ObserveFrame
<1>2. ff \in Firefox
  BY FirefoxObserveTyped DEF Composers
<1> HIDE DEF ff
<1>3. commits \in BOOLEAN
  BY <1>2 DEF Composers, Firefox
<1> HIDE DEF commits
<1>4. SameTier(c, c1) /\ c1 \in Composers
  <2>1. SameTier(c, c1)
    BY <1>2, <1>3 DEF SameTier, Composers
  <2> QED BY <2>1, SameTierBasics
<1>5. k \in Confirmation /\ Live \in Confirmation
  BY ConfirmationsTyped
<1>6. word \in Text
  BY BeforeTyped, CurrentWordTyped
<1> HIDE DEF c1, k, word
<1>7. SameTier(c, o) /\ o \in Composers
  BY <1>4, SyncToFrameTyped, SameTierBasics
<1> HIDE DEF o
<1>8. SameTier(c, c2) /\ c2 \in Composers
  BY <1>5, <1>7, ConfirmationLeaves, SameTierBasics, LeavesTyped
<1> HIDE DEF c2, had_edit
<1>9. SameTier(c, c3) /\ c3 \in Composers
  BY <1>8, ResetEngineLeaves, SameTierBasics
<1> HIDE DEF c3
<1>10. SameTier(c, [e EXCEPT !.confirmation = Live, !.last_input_char = None])
  <2>1. SameTier(c, e) /\ e \in Composers
    BY <1>9, ResetEngineLeaves, SameTierBasics
  <2> HIDE DEF e
  <2>2. SameTier(e, [e EXCEPT !.confirmation = Live, !.last_input_char = None])
    BY <1>5, <2>1 DEF SameTier, Composers
  <2> QED BY <2>1, <2>2, SameTierBasics
<1>11. SameTier(c, [g EXCEPT !.last_input_char = None])
  <2>1. SameTier(c, g) /\ g \in Composers
    BY <1>6, <1>9, ReseedFromFrameLeaves, SameTierBasics
  <2> HIDE DEF g
  <2>2. SameTier(g, [g EXCEPT !.last_input_char = None])
    BY <2>1, LastCharTyped
  <2> QED BY <2>1, <2>2, SameTierBasics
<1> HIDE DEF e, g, deletion, one_char, confirmed, before
<1>12. SameTier(c, c4) /\ c4 \in Composers
  BY <1>9, <1>10, <1>11, SameTierBasics
<1> HIDE DEF c4
<1>13. SameTier(c, record_surrounding(c4, f))
  BY <1>12, SyncToFrameTyped, SameTierBasics
<1> QED
  BY <1>1, <1>4, <1>13

(* A frame.                                                                *)
LEMMA ApplySurroundingTyped ==
  ASSUME NEW c \in Composers, NEW f \in Surrounding, NEW force \in BOOLEAN
  PROVE  LET o == apply_surrounding(c, f, force)
         IN  SameTier(c, o.composer) /\ o.repair \in Repairs
<1> DEFINE c1 == revalidate_live_confirmation(c, text_before_cursor(f.text, f.cursor))
           none == [backspaces |-> 0, commit |-> <<>>]
<1>1. SameTier(c, c1) /\ c1 \in Composers
  BY RevalidateLeaves, SameTierBasics
<1>2. apply_surrounding(c, f, force) =
        IF FrameShowsRawKey(c1, f) THEN ConfirmRawKey(c1, f)
        ELSE [composer |-> ObserveFrame(c1, f, force), repair |-> none]
  BY DEF apply_surrounding
<1> HIDE DEF c1
<1>3. none \in Repairs
  BY DEF Repairs, Text
<1> HIDE DEF none
<1>4. FrameShowsRawKey(c1, f) => c1.confirmation.state = "PendingRaw"
  BY DEF FrameShowsRawKey
<1> QED
  BY <1>1, <1>2, <1>3, <1>4, ConfirmRawKeyTyped, ObserveFrameTyped, SameTierBasics

(* A new composer has the tier it is asked for and no selection.           *)
LEMMA NewComposerTyped ==
  ASSUME NEW m \in Tier, NEW confirm \in BOOLEAN
  PROVE  LET c == NewComposer(m, confirm)
         IN  /\ c \in Composers /\ c # None /\ c.method = m /\ c.selected_before = 0
             /\ c.ibus = NewIbusQuirk
<1> DEFINE ff == [expected_echo |-> None, delete_unit |-> "Bytes",
                  use_forward_delete |-> FALSE, forward_sticky |-> FALSE]
<1>1. ff \in Firefox
  BY DEF Firefox
<1>2. <<>> \in Text
  BY DEF Text
<1>3. NewIbusQuirk \in IbusQuirk
  BY DEF NewIbusQuirk, IbusQuirk
<1>4. /\ NewComposer(m, confirm).method = m /\ NewComposer(m, confirm).selected_before = 0
      /\ NewComposer(m, confirm).ibus = NewIbusQuirk
  BY DEF NewComposer
<1>5. NewComposer(m, confirm) \in Composers
  <2> HIDE DEF ff
  <2> QED BY <1>1, <1>2, <1>3, NoSurroundingTyped, ConfirmationsTyped, EngineAssumption
          DEF NewComposer, Composers, ff
<1> QED
  BY <1>4, <1>5, NoneAssumption

-----------------------------------------------------------------------------
(* The application's text field.                                           *)

(* A field with the cursor at its end.                                     *)
LEMMA FieldWithTyped == ASSUME NEW t \in Text PROVE FieldWith(t) \in Surrounding
  BY DEF FieldWith, Surrounding, Text

(* Typing into the field.                                                  *)
LEMMA InsertTyped ==
  ASSUME NEW f \in Surrounding, NEW t \in Text PROVE Insert(f, t) \in Surrounding
<1> DEFINE from == Lesser(f.cursor, f.anchor)
           to   == f.cursor + f.anchor - from
           a == text_before_cursor(f.text, from)
           b == TextAfter(f.text, to)
<1>1. /\ f.text \in Text /\ f.cursor \in Nat /\ f.anchor \in Nat
      /\ f.cursor <= Len(f.text) /\ f.anchor <= Len(f.text)
  BY DEF Surrounding
<1>2. from \in Nat /\ from <= Len(f.text) /\ to \in Nat
  BY <1>1 DEF Lesser
<1>3. a \in Text /\ b \in Text /\ Len(a) = from
  <2>1. a \in Text /\ b \in Text
    BY <1>1, <1>2, CutTyped
  <2>2. Len(a) = from
    BY <1>1, <1>2 DEF text_before_cursor, Text
  <2> QED BY <2>1, <2>2
<1>4. Insert(f, t) = [text |-> a \o t \o b, cursor |-> from + Len(t), anchor |-> from + Len(t)]
  BY DEF Insert
<1> HIDE DEF a, b, from
<1>5. a \o t \o b \in Text /\ from + Len(t) <= Len(a \o t \o b) /\ from + Len(t) \in Nat
  BY <1>2, <1>3 DEF Text
<1> QED BY <1>4, <1>5 DEF Surrounding

(* Deleting in the field.                                                  *)
LEMMA DeleteCharsTyped ==
  ASSUME NEW f \in Surrounding, NEW n \in Nat PROVE DeleteChars(f, n) \in Surrounding
<1> DEFINE from == Monus(f.cursor, n)
           a == text_before_cursor(f.text, from)
           b == TextAfter(f.text, f.cursor)
<1>1. /\ f.text \in Text /\ f.cursor \in Nat /\ f.anchor \in Nat
      /\ f.cursor <= Len(f.text) /\ f.anchor <= Len(f.text)
  BY DEF Surrounding
<1>2. from \in Nat /\ from <= Len(f.text)
  BY <1>1 DEF Monus, Text
<1>3. a \in Text /\ b \in Text /\ Len(a) = from
  <2>1. a \in Text /\ b \in Text
    BY <1>1, <1>2, CutTyped
  <2>2. Len(a) = from
    BY <1>1, <1>2 DEF text_before_cursor, Text
  <2> QED BY <2>1, <2>2
<1>4. DeleteChars(f, n) = [text |-> a \o b, cursor |-> from, anchor |-> from]
  BY DEF DeleteChars
<1> HIDE DEF a, b, from
<1>5. a \o b \in Text /\ from <= Len(a \o b)
  BY <1>2, <1>3 DEF Text
<1> QED BY <1>2, <1>4, <1>5 DEF Surrounding

(* A number of bytes before the cursor, in characters.                     *)
LEMMA CharsOfBytesTyped ==
  ASSUME NEW f \in Surrounding, NEW n \in Nat PROVE CharsOfBytes(f, n) \in Nat
<1> DEFINE before == text_before_cursor(f.text, f.cursor)
           m == Len(before)
           enough == {k \in 0 .. m : ByteLen(TextAfter(before, m - k)) >= n}
<1>1. m \in Nat
  <2>1. before \in Text
    BY BeforeTyped
  <2> QED BY <2>1 DEF Text
<1>2. CharsOfBytes(f, n) = IF enough = {} THEN m ELSE Min(enough)
  BY DEF CharsOfBytes
<1>3. enough \in SUBSET (0 .. m)
  OBVIOUS
<1> HIDE DEF m, enough
<1>4. enough # {} => Min(enough) \in 0 .. m
  BY <1>1, <1>3, MinOfSubset
<1> QED BY <1>1, <1>2, <1>4

(* The requests of both transports.                                        *)
FieldRequests == [op : {"key"}, ch : Char] \cup [op : {"backspace", "move", "require"}]
             \cup [op : {"delete"}, bytes : Nat, chars : Nat] \cup [op : {"text"}, text : Text]

(* A request that is not a delete.                                         *)
LEMMA TakeKeyTyped ==
  ASSUME NEW f \in Surrounding, NEW r \in FieldRequests PROVE TakeKey(f, r) \in Surrounding
<1>1. /\ f.text \in Text /\ f.cursor \in Nat /\ f.cursor <= Len(f.text)
      /\ Monus(f.cursor, 1) \in Nat /\ Monus(f.cursor, 1) <= Len(f.text)
  BY DEF Surrounding, Monus, Text
<1>2. r.op = "key" => <<r.ch>> \in Text
  BY DEF FieldRequests, Text
<1>3. r.op = "text" => r.text \in Text
  BY DEF FieldRequests
<1>4. <<>> \in Text
  BY DEF Text
<1>5. [f EXCEPT !.cursor = Monus(f.cursor, 1), !.anchor = Monus(f.cursor, 1)] \in Surrounding
  BY <1>1 DEF Surrounding
<1>6. DeleteChars(f, 1) \in Surrounding /\ Insert(f, <<>>) \in Surrounding
  BY <1>4, DeleteCharsTyped, InsertTyped
<1>7. CASE r.op = "key"
  BY <1>2, <1>7, InsertTyped DEF TakeKey
<1>8. CASE r.op = "text"
  BY <1>3, <1>8, InsertTyped DEF TakeKey
<1>9. CASE r.op = "backspace"
  BY <1>6, <1>9 DEF TakeKey
<1>10. CASE r.op = "move"
  BY <1>5, <1>10 DEF TakeKey
<1>11. CASE r.op \notin {"key", "text", "backspace", "move"}
  BY <1>11 DEF TakeKey
<1> QED BY <1>7, <1>8, <1>9, <1>10, <1>11

(* The engine and the text that the user means to see.                     *)
LEMMA IdealKeyTyped ==
  ASSUME NEW h, h.engine \in EngineStates, h.text \in Text, NEW ch \in Char
  PROVE  LET r == VnKey(h.engine, ch)
             t == IF r.consumed THEN DropLast(h.text, r.backspaces) \o r.commit
                                ELSE Append(h.text, ch)
         IN  r.engine \in EngineStates /\ t \in Text
<1> DEFINE r == VnKey(h.engine, ch)
<1>1. r \in ProcessResult
  BY EngineAssumption
<1> HIDE DEF r
<1>2. DropLast(h.text, r.backspaces) \in Text
  BY <1>1, DropLastTyped DEF ProcessResult
<1>3. DropLast(h.text, r.backspaces) \o r.commit \in Text /\ Append(h.text, ch) \in Text
  BY <1>1, <1>2 DEF ProcessResult, Text
<1> QED BY <1>1, <1>3 DEF ProcessResult, r

=============================================================================
