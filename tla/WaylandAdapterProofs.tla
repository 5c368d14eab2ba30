------------------------- MODULE WaylandAdapterProofs -------------------------
(***************************************************************************)
(* What TLAPS proves of WaylandAdapter, for every compositor, every set of *)
(* keys, glyphs and windows and any budget of environment steps.  This     *)
(* module has the types, the keys and the sessions;                        *)
(* WaylandAdapterViewProofs has the edits, the modifiers and the windows.  *)
(*                                                                         *)
(* The inductive invariant here has three parts. Types is TypeOK with the  *)
(* requests and the events spelled out. KeyQueue says of every key that    *)
(* the timer holds, or that the application has down, where in the socket  *)
(* its end waits; NoKeyLeftDown and NoTrailingRepeat follow when the       *)
(* socket is empty. SessionQueue says that activations and deactivations   *)
(* alternate in the socket behind the frame that is being read and the     *)
(* session that is open, that texts lie behind the activation they are of, *)
(* and that every frame has its end; TextOfSession and SessionAgrees       *)
(* follow.                                                                 *)
(*                                                                         *)
(* Each handler is first digested to what the invariants need to know of   *)
(* it (a lemma named ...Facts or ...Digest); the queues are then carried   *)
(* through shifts of the socket (the first d events are gone, harmless     *)
(* ones come behind) and, separately, through the few steps that add or    *)
(* take a press, a release, an activation or a deactivation.               *)
(***************************************************************************)
EXTENDS WaylandAdapter, TLAPS, WellFoundedInduction

-----------------------------------------------------------------------------
(* Folds.  The step is a function instead of an operator, so that the      *)
(* facts can be cited for any fold.  FoldLeft over a sequence of length n  *)
(* is a recursive function on the subsets of 1 .. n that takes the largest *)
(* element off; it exists, and the largest element of 1 .. n is n.         *)

(* Induction on the natural numbers, for a set.                            *)
LEMMA SetInduction ==
  ASSUME NEW T, 0 \in T, \A n \in Nat : n \in T => n + 1 \in T
  PROVE  Nat \subseteq T
<1> DEFINE Bad == Nat \ T
           R   == OpToRel(<, Nat)
<1> SUFFICES ASSUME Bad # {} PROVE FALSE
  OBVIOUS
<1>1. PICK x \in Bad : \A y \in Bad : ~(<<y, x>> \in R)
  <2>1. IsWellFoundedOn(R, Nat)
    BY NatLessThanWellFounded
  <2> HIDE DEF R
  <2> QED BY <2>1, WFMin
<1>2. x \in Nat /\ x # 0
  OBVIOUS
<1>3. x - 1 \in Nat /\ x - 1 < x
  BY <1>2
<1>4. x - 1 \in T
  <2>1. <<x - 1, x>> \in R <=> x - 1 < x
    BY <1>2, <1>3 DEF OpToRel
  <2> QED BY <1>1, <1>3, <2>1
<1>5. (x - 1) + 1 \in T
  BY <1>3, <1>4
<1> QED
  BY <1>2, <1>5

(* Induction on the numbers up to m, for a set.                            *)
LEMMA IntervalInduction ==
  ASSUME NEW m \in Nat, NEW T, 0 \in T, \A n \in 1 .. m : n - 1 \in T => n \in T
  PROVE  0 .. m \subseteq T
<1> DEFINE U == {n \in Nat : n <= m => n \in T}
<1>1. 0 \in U
  OBVIOUS
<1>2. ASSUME NEW n \in Nat, n \in U PROVE n + 1 \in U
  <2> SUFFICES ASSUME n + 1 <= m PROVE n + 1 \in T
    OBVIOUS
  <2>1. n + 1 \in 1 .. m /\ (n + 1) - 1 = n /\ n \in T
    BY <1>2
  <2> QED BY <2>1
<1> HIDE DEF U
<1>3. Nat \subseteq U
  BY <1>1, <1>2, SetInduction
<1> QED
  BY <1>3 DEF U

(* The largest element of a set of numbers up to m.                        *)
LEMMA MaxOfSubset ==
  ASSUME NEW m \in Nat
  PROVE  \A s \in SUBSET (0 .. m) : s # {} => Max(s) \in s /\ \A y \in s : Max(s) >= y
<1> DEFINE T == {n \in Nat : \A s \in SUBSET (0 .. n) : s # {} => \E x \in s : \A y \in s : x >= y}
<1>1. 0 \in T
  <2> SUFFICES ASSUME NEW s \in SUBSET (0 .. 0), s # {} PROVE \E x \in s : \A y \in s : x >= y
    OBVIOUS
  <2>1. \A y \in s : y = 0
    OBVIOUS
  <2>2. PICK x : x \in s
    OBVIOUS
  <2>3. \A y \in s : x >= y
    BY <2>1, <2>2
  <2> QED BY <2>2, <2>3
<1>2. ASSUME NEW n \in Nat, n \in T PROVE n + 1 \in T
  <2> SUFFICES ASSUME NEW s \in SUBSET (0 .. (n + 1)), s # {}
               PROVE  \E x \in s : \A y \in s : x >= y
    OBVIOUS
  <2>1. CASE n + 1 \in s
    BY <2>1
  <2>2. CASE n + 1 \notin s
    <3>1. s \in SUBSET (0 .. n)
      BY <2>2
    <3> QED BY <1>2, <3>1
  <2> QED BY <2>1, <2>2
<1> HIDE DEF T
<1>3. m \in T
  BY <1>1, <1>2, SetInduction
<1> QED
  BY <1>3 DEF T, Max

(* The recursive function of a fold with values in S.                      *)
Folds(it, S, base, m, step) ==
  /\ it \in [SUBSET (1 .. m) -> S]
  /\ \A s \in SUBSET (1 .. m) :
       it[s] = IF s = {} THEN base ELSE step[<<it[s \ {Max(s)}], Max(s)>>]

(* The recursion that a fold is defined by has a solution.                 *)
LEMMA SetRecursion ==
  ASSUME NEW S, NEW base \in S, NEW m \in Nat, NEW step \in [S \X (1 .. m) -> S]
  PROVE  \E it : Folds(it, S, base, m, step)
<1> DEFINE Solves(it, n) ==
             \A s \in SUBSET (1 .. n) :
               it[s] = IF s = {} THEN base ELSE step[<<it[s \ {Max(s)}], Max(s)>>]
           Solved(n) == \E it \in [SUBSET (1 .. n) -> S] : Solves(it, n)
           T == {n \in Nat : n <= m => Solved(n)}
<1>1. Solved(0)
  <2> DEFINE it == [s \in SUBSET (1 .. 0) |-> base]
  <2>1. \A s \in SUBSET (1 .. 0) : s = {}
    OBVIOUS
  <2>2. it \in [SUBSET (1 .. 0) -> S] /\ Solves(it, 0)
    BY <2>1
  <2> QED BY <2>2
<1>2. ASSUME NEW n \in Nat, n + 1 <= m, Solved(n) PROVE Solved(n + 1)
  <2>1. PICK old \in [SUBSET (1 .. n) -> S] : Solves(old, n)
    BY <1>2
  <2> DEFINE new == [s \in SUBSET (1 .. (n + 1)) |->
                       IF n + 1 \in s THEN step[<<old[s \ {n + 1}], n + 1>>] ELSE old[s]]
  <2>2. \A s \in SUBSET (1 .. (n + 1)) :
          /\ n + 1 \in s => s \ {n + 1} \in SUBSET (1 .. n)
          /\ n + 1 \notin s => s \in SUBSET (1 .. n)
    OBVIOUS
  <2>3. n + 1 \in 1 .. m
    BY <1>2
  <2>4. \A a \in S : step[<<a, n + 1>>] \in S
    BY <2>3
  <2>5. new \in [SUBSET (1 .. (n + 1)) -> S]
    BY <2>1, <2>2, <2>4
  <2>6. ASSUME NEW s \in SUBSET (1 .. (n + 1))
        PROVE  new[s] = IF s = {} THEN base ELSE step[<<new[s \ {Max(s)}], Max(s)>>]
    <3>1. CASE n + 1 \in s
      <4>1. Max(s) = n + 1
        <5>1. n + 1 \in Nat /\ s \in SUBSET (0 .. (n + 1))
          OBVIOUS
        <5>2. Max(s) \in s /\ Max(s) >= n + 1
          BY <3>1, <5>1, MaxOfSubset
        <5>3. Max(s) \in 1 .. (n + 1)
          BY <5>2
        <5> QED BY <5>2, <5>3
      <4>2. new[s \ {n + 1}] = old[s \ {n + 1}]
        BY <2>2
      <4>3. new[s] = step[<<old[s \ {n + 1}], n + 1>>]
        BY <3>1
      <4> QED BY <3>1, <4>1, <4>2, <4>3
    <3>2. CASE n + 1 \notin s
      <4>1. s \in SUBSET (1 .. n) /\ new[s] = old[s]
        BY <2>2, <3>2
      <4>2. s # {} => new[s \ {Max(s)}] = old[s \ {Max(s)}]
        BY <3>2
      <4>3. old[s] = IF s = {} THEN base ELSE step[<<old[s \ {Max(s)}], Max(s)>>]
        BY <2>1, <4>1
      <4> QED BY <4>1, <4>2, <4>3
    <3> QED BY <3>1, <3>2
  <2> HIDE DEF new
  <2>7. Solves(new, n + 1)
    BY <2>6
  <2> QED BY <2>5, <2>7
<1> HIDE DEF Solved
<1>3. 0 \in T
  BY <1>1
<1>4. ASSUME NEW n \in Nat, n \in T PROVE n + 1 \in T
  BY <1>2, <1>4
<1> HIDE DEF T
<1>5. m \in T
  BY <1>3, <1>4, SetInduction
<1>6. Solved(m)
  BY <1>5 DEF T
<1> QED
  BY <1>6 DEF Solved, Folds

(* Taking the last number off 1 .. n.                                      *)
LEMMA LastOfInterval ==
  ASSUME NEW n \in Nat, n # 0
  PROVE  1 .. n # {} /\ Max(1 .. n) = n /\ (1 .. n) \ {Max(1 .. n)} = 1 .. (n - 1)
<1>1. 1 .. n \in SUBSET (0 .. n) /\ n \in 1 .. n
  OBVIOUS
<1>2. Max(1 .. n) \in 1 .. n /\ Max(1 .. n) >= n
  BY <1>1, MaxOfSubset
<1>3. Max(1 .. n) = n
  BY <1>2
<1>4. (1 .. n) \ {n} = 1 .. (n - 1)
  OBVIOUS
<1> QED
  BY <1>1, <1>3, <1>4

(* Taking the head of a queue.                                             *)
LEMMA TailFacts ==
  ASSUME NEW S, NEW s \in Seq(S), s # <<>>
  PROVE  /\ Head(s) \in S /\ Head(s) = s[1]
         /\ Tail(s) \in Seq(S) /\ Len(Tail(s)) = Len(s) - 1 /\ Len(s) \in Nat
         /\ \A i \in 1 .. Len(Tail(s)) : Tail(s)[i] = s[i + 1]
  OBVIOUS

(* The elements of a concatenation.                                        *)
LEMMA ConcatFacts ==
  ASSUME NEW S, NEW s \in Seq(S), NEW t \in Seq(S)
  PROVE  /\ s \o t \in Seq(S) /\ Len(s) \in Nat /\ Len(t) \in Nat
         /\ DOMAIN s = 1 .. Len(s) /\ DOMAIN t = 1 .. Len(t)
         /\ DOMAIN (s \o t) = 1 .. (Len(s) + Len(t))
         /\ \A i \in DOMAIN s : i \in DOMAIN (s \o t) /\ (s \o t)[i] = s[i]
         /\ \A i \in DOMAIN t : Len(s) + i \in DOMAIN (s \o t) /\ (s \o t)[Len(s) + i] = t[i]
         /\ \A j \in DOMAIN (s \o t) :
              j \in DOMAIN s \/ (j > Len(s) /\ j - Len(s) \in DOMAIN t /\ (s \o t)[j] = t[j - Len(s)])
<1>1. PICK m \in Nat : m = Len(s)
  OBVIOUS
<1>2. PICK n \in Nat : n = Len(t)
  OBVIOUS
<1>3. s \o t \in Seq(S) /\ DOMAIN s = 1 .. m /\ DOMAIN t = 1 .. n /\ DOMAIN (s \o t) = 1 .. (m + n)
  BY <1>1, <1>2
<1>4. /\ \A i \in 1 .. m : i \in 1 .. (m + n) /\ (s \o t)[i] = s[i]
      /\ \A i \in 1 .. n : m + i \in 1 .. (m + n) /\ (s \o t)[m + i] = t[i]
  BY <1>1, <1>2
<1>5. \A j \in 1 .. (m + n) :
        j \in 1 .. m \/ (j > m /\ j - m \in 1 .. n /\ m + (j - m) = j)
  BY <1>1, <1>2
<1> QED BY <1>1, <1>2, <1>3, <1>4, <1>5

-----------------------------------------------------------------------------
(* Requests.                                                               *)

GlyphSpecs == [key : CharKeys \cup Slots, mods : SUBSET LevelMods]

Requests ==
  [op : {"key"}, key : KeyCodes, value : {0, 1, 2}, by : {"user", "shortcut", "edit"},
   glyph : GlyphSpecs \cup {None}]
    \cup [op : {"mods"}, mask : Masks]
    \cup [op : {"keysym"}, glyph : GlyphSpecs \cup {None}, mapped : BOOLEAN]
    \cup [op : {"text", "commit"}]

(* Edits of the Composer, and those that a shifted character falls back to. *)
EditSpecs ==
  [delete : {"surrounding", "selection", "keys"}, backspaces : 0 .. 1,
   glyph : GlyphSpecs \cup {None}, key_channel : BOOLEAN]

PressOf(r, key) == r.op = "key" /\ r.key = key /\ r.value = 1
ReleaseOf(r, key) == r.op = "key" /\ r.key = key /\ r.value = 0

(* Each of the requests' presses is followed by its release.               *)
Balanced(requests) ==
  \A i \in DOMAIN requests, key \in KeyCodes :
    PressOf(requests[i], key) => \E j \in DOMAIN requests : j > i /\ ReleaseOf(requests[j], key)

(* What one request may be.                                                *)
LEMMA RequestsTyped ==
  /\ \A key \in KeyCodes, value \in {0, 1, 2} :
       Key(key, value) \in Requests /\ UnstampedKey(key, value) \in Requests
         /\ EditKey(key, value) \in Requests
  /\ \A glyph \in GlyphSpecs : GlyphKey(glyph) \in Requests
  /\ \A mask \in Masks : Modifiers(mask) \in Requests
  /\ \A glyph \in GlyphSpecs \cup {None}, mapped \in BOOLEAN : Keysym(glyph, mapped) \in Requests
  /\ Text \in Requests /\ Commit \in Requests
<1>1. \A key \in KeyCodes, value \in {0, 1, 2} :
        Key(key, value) \in Requests /\ UnstampedKey(key, value) \in Requests
          /\ EditKey(key, value) \in Requests
  BY DEF Requests, Key, UnstampedKey, EditKey
<1>2. \A glyph \in GlyphSpecs : GlyphKey(glyph) \in Requests
  BY DEF Requests, Key, EditKey, GlyphKey, GlyphSpecs, KeyCodes, UserKeys
<1>3. \A mask \in Masks : Modifiers(mask) \in Requests
  BY DEF Requests, Modifiers
<1>4. \A glyph \in GlyphSpecs \cup {None}, mapped \in BOOLEAN : Keysym(glyph, mapped) \in Requests
  BY DEF Requests, Keysym
<1>5. Text \in Requests /\ Commit \in Requests
  BY DEF Requests, Text, Commit
<1> QED BY <1>1, <1>2, <1>3, <1>4, <1>5

(* The edits.                                                              *)
LEMMA EditsTyped ==
  /\ Edits \subseteq EditSpecs
  /\ \A key \in CharKeys : relay \in Relay => LevelShifted(key) \in EditSpecs
<1>1. Glyphs \subseteq GlyphSpecs \cup {None}
  BY RelayAssumption DEF GlyphSpecs
<1>2. Edits \subseteq EditSpecs
  <2> SUFFICES ASSUME NEW e \in Edits PROVE e \in EditSpecs
    OBVIOUS
  <2>1. CASE e \in [delete : {"surrounding"}, backspaces : {0}, glyph : Glyphs, key_channel : {FALSE}]
    <3>1. PICK glyph \in Glyphs :
            e = [delete |-> "surrounding", backspaces |-> 0, glyph |-> glyph, key_channel |-> FALSE]
      BY <2>1
    <3>2. glyph \in GlyphSpecs \cup {None} /\ 0 \in 0 .. 1
      BY <1>1
    <3> QED BY <3>1, <3>2 DEF EditSpecs
  <2>2. CASE e \in [delete : {"selection"}, backspaces : {1}, glyph : Glyphs, key_channel : {FALSE}]
    <3>1. PICK glyph \in Glyphs :
            e = [delete |-> "selection", backspaces |-> 1, glyph |-> glyph, key_channel |-> FALSE]
      BY <2>2
    <3>2. glyph \in GlyphSpecs \cup {None} /\ 1 \in 0 .. 1
      BY <1>1
    <3> QED BY <3>1, <3>2 DEF EditSpecs
  <2>3. CASE e \in [delete : {"keys"}, backspaces : 0..1, glyph : Glyphs, key_channel : BOOLEAN]
    BY <1>1, <2>3 DEF EditSpecs
  <2> QED BY <2>1, <2>2, <2>3 DEF Edits
<1>3. ASSUME NEW key \in CharKeys, relay \in Relay PROVE LevelShifted(key) \in EditSpecs
  <2>1. relay.raw_mods \cap LevelMods \in SUBSET LevelMods
    OBVIOUS
  <2>2. [key |-> key, mods |-> relay.raw_mods \cap LevelMods] \in GlyphSpecs
    BY <2>1 DEF GlyphSpecs
  <2> QED BY <2>2 DEF LevelShifted, EditSpecs
<1> QED BY <1>2, <1>3

(* Concatenations keep the shape and the balance of requests.              *)
LEMMA Concatenation ==
  ASSUME NEW s \in Seq(Requests), NEW t \in Seq(Requests), Balanced(s), Balanced(t)
  PROVE  s \o t \in Seq(Requests) /\ Balanced(s \o t)
<1>1. s \o t \in Seq(Requests)
  OBVIOUS
<1>2. PICK m \in Nat : m = Len(s)
  OBVIOUS
<1>3. PICK n \in Nat : n = Len(t)
  OBVIOUS
<1>4. /\ DOMAIN s = 1 .. m /\ DOMAIN t = 1 .. n /\ DOMAIN (s \o t) = 1 .. (m + n)
      /\ \A i \in 1 .. m : (s \o t)[i] = s[i]
      /\ \A i \in 1 .. n : (s \o t)[m + i] = t[i]
  BY <1>2, <1>3
<1> DEFINE both == s \o t
<1>5. ASSUME NEW i \in DOMAIN both, NEW key \in KeyCodes, PressOf(both[i], key)
      PROVE  \E j \in DOMAIN both : j > i /\ ReleaseOf(both[j], key)
  <2>1. CASE i \in 1 .. m
    <3>1. both[i] = s[i]
      BY <1>4, <2>1
    <3>2. PICK j \in 1 .. m : j > i /\ ReleaseOf(s[j], key)
      BY <1>4, <1>5, <2>1, <3>1 DEF Balanced
    <3>3. both[j] = s[j] /\ j \in DOMAIN both
      BY <1>4, <3>2
    <3> QED BY <3>2, <3>3
  <2>2. CASE i \notin 1 .. m
    <3>1. PICK h \in 1 .. n : i = m + h
      <4>1. i - m \in 1 .. n /\ i = m + (i - m)
        BY <1>2, <1>3, <1>4, <2>2
      <4> QED BY <4>1
    <3>2. both[i] = t[h]
      BY <1>4, <3>1
    <3>3. PICK j \in 1 .. n : j > h /\ ReleaseOf(t[j], key)
      BY <1>4, <1>5, <3>2 DEF Balanced
    <3>4. both[m + j] = t[j] /\ m + j \in DOMAIN both /\ m + j > i
      BY <1>2, <1>3, <1>4, <3>1, <3>3
    <3> QED BY <3>3, <3>4
  <2> QED BY <2>1, <2>2
<1> HIDE DEF both
<1>6. Balanced(both)
  BY <1>5 DEF Balanced
<1> QED BY <1>1, <1>6 DEF both

(* Requests without a press, and taps, are balanced.                       *)
LEMMA BalancedBlocks ==
  /\ <<>> \in Seq(Requests) /\ Balanced(<<>>)
  /\ \A r \in Requests : (\A key \in KeyCodes : ~PressOf(r, key)) => Balanced(<<r>>)
  /\ \A key \in KeyCodes : Balanced(<<EditKey(key, 1), EditKey(key, 0)>>)
  /\ \A glyph \in GlyphSpecs : Balanced(<<GlyphKey(glyph), EditKey(glyph.key, 0)>>)
<1>1. <<>> \in Seq(Requests) /\ Balanced(<<>>)
  BY DEF Balanced
<1>2. ASSUME NEW r \in Requests, \A key \in KeyCodes : ~PressOf(r, key)
      PROVE  Balanced(<<r>>)
  <2> DEFINE s == <<r>>
  <2>1. DOMAIN s = {1} /\ s[1] = r
    OBVIOUS
  <2> HIDE DEF s
  <2> QED BY <1>2, <2>1 DEF Balanced, s
<1>3. ASSUME NEW key \in KeyCodes, NEW press,
             \A k \in KeyCodes : PressOf(press, k) => k = key
      PROVE  Balanced(<<press, EditKey(key, 0)>>)
  <2> DEFINE s == <<press, EditKey(key, 0)>>
  <2>1. DOMAIN s = {1, 2} /\ s[1] = press /\ s[2] = EditKey(key, 0)
    OBVIOUS
  <2>2. ReleaseOf(s[2], key) /\ \A k \in KeyCodes : ~PressOf(s[2], k)
    BY DEF EditKey, Key, ReleaseOf, PressOf
  <2> HIDE DEF s
  <2>3. ASSUME NEW i \in DOMAIN s, NEW k \in KeyCodes, PressOf(s[i], k)
        PROVE  \E j \in DOMAIN s : j > i /\ ReleaseOf(s[j], k)
    <3>1. i = 1 /\ k = key
      BY <1>3, <2>1, <2>2, <2>3
    <3> QED BY <2>1, <2>2, <3>1
  <2> QED BY <2>3 DEF Balanced, s
<1>4. ASSUME NEW key \in KeyCodes PROVE Balanced(<<EditKey(key, 1), EditKey(key, 0)>>)
  <2>1. \A k \in KeyCodes : PressOf(EditKey(key, 1), k) => k = key
    BY DEF EditKey, Key, PressOf
  <2> QED BY <1>3, <2>1
<1>5. ASSUME NEW glyph \in GlyphSpecs PROVE Balanced(<<GlyphKey(glyph), EditKey(glyph.key, 0)>>)
  <2>1. \A k \in KeyCodes : PressOf(GlyphKey(glyph), k) => k = glyph.key
    BY DEF GlyphKey, EditKey, Key, PressOf
  <2>2. glyph.key \in KeyCodes
    BY DEF GlyphSpecs, KeyCodes, UserKeys
  <2> QED BY <1>3, <2>1, <2>2
<1> QED BY <1>1, <1>2, <1>4, <1>5

(* One request that is no press.                                           *)
LEMMA QuietRequest ==
  /\ \A mask \in Masks : <<Modifiers(mask)>> \in Seq(Requests) /\ Balanced(<<Modifiers(mask)>>)
  /\ \A key \in KeyCodes : <<EditKey(key, 0)>> \in Seq(Requests) /\ Balanced(<<EditKey(key, 0)>>)
  /\ \A glyph \in GlyphSpecs \cup {None}, mapped \in BOOLEAN :
       <<Keysym(glyph, mapped)>> \in Seq(Requests) /\ Balanced(<<Keysym(glyph, mapped)>>)
  /\ <<Text>> \in Seq(Requests) /\ Balanced(<<Text>>)
  /\ <<Commit>> \in Seq(Requests) /\ Balanced(<<Commit>>)
<1>1. ASSUME NEW mask \in Masks
      PROVE  <<Modifiers(mask)>> \in Seq(Requests) /\ Balanced(<<Modifiers(mask)>>)
  <2>1. \A key \in KeyCodes : ~PressOf(Modifiers(mask), key)
    BY DEF PressOf, Modifiers
  <2> QED BY <2>1, RequestsTyped, BalancedBlocks
<1>2. ASSUME NEW key \in KeyCodes
      PROVE  <<EditKey(key, 0)>> \in Seq(Requests) /\ Balanced(<<EditKey(key, 0)>>)
  <2>1. \A k \in KeyCodes : ~PressOf(EditKey(key, 0), k)
    BY DEF PressOf, EditKey, Key
  <2> QED BY <2>1, RequestsTyped, BalancedBlocks
<1>3. ASSUME NEW glyph \in GlyphSpecs \cup {None}, NEW mapped \in BOOLEAN
      PROVE  <<Keysym(glyph, mapped)>> \in Seq(Requests) /\ Balanced(<<Keysym(glyph, mapped)>>)
  <2>1. \A key \in KeyCodes : ~PressOf(Keysym(glyph, mapped), key)
    BY DEF PressOf, Keysym
  <2> QED BY <2>1, RequestsTyped, BalancedBlocks
<1>4. (\A key \in KeyCodes : ~PressOf(Text, key)) /\ (\A key \in KeyCodes : ~PressOf(Commit, key))
  BY DEF PressOf, Text, Commit
<1>5. <<Text>> \in Seq(Requests) /\ Balanced(<<Text>>)
      /\ <<Commit>> \in Seq(Requests) /\ Balanced(<<Commit>>)
  BY <1>4, RequestsTyped, BalancedBlocks
<1> QED BY <1>1, <1>2, <1>3, <1>5

(* Well-formed requests that leave no key down.                            *)
Tidy(requests) == requests \in Seq(Requests) /\ Balanced(requests)

(* Tidy requests one after the other are tidy.                             *)
LEMMA TidyConcat ==
  ASSUME NEW s, NEW t, Tidy(s), Tidy(t) PROVE Tidy(s \o t)
BY Concatenation DEF Tidy

(* The empty mask, and the masks of the dance.                             *)
LEMMA DanceMasks ==
  ASSUME NEW k \in Relay
  PROVE  /\ {} \in Masks /\ k.raw_mods \in Masks
         /\ \A glyph \in GlyphSpecs : k.raw_mods \cup glyph.mods \in Masks
BY DEF Relay, Masks, GlyphSpecs

(* A tap of Backspace, its modifiers lowered and restored.                 *)
LEMMA BackspaceTapTidy == ASSUME NEW k \in Relay PROVE Tidy(BackspaceTap(k))
<1> DEFINE tap == <<EditKey(Backspace, 1), EditKey(Backspace, 0)>>
<1>1. Backspace \in KeyCodes
  BY DEF KeyCodes, UserKeys
<1>2. tap \in Seq(Requests)
  <2>1. EditKey(Backspace, 1) \in Requests /\ EditKey(Backspace, 0) \in Requests
    BY <1>1, RequestsTyped
  <2> QED BY <2>1
<1>3. Tidy(tap)
  BY <1>1, <1>2, BalancedBlocks DEF Tidy
<1> HIDE DEF tap
<1>4. Tidy(<<Modifiers({})>>) /\ Tidy(<<Modifiers(k.raw_mods)>>)
  BY DanceMasks, QuietRequest DEF Tidy
<1>5. Tidy(<<Modifiers({})>> \o tap)
  BY <1>3, <1>4, TidyConcat
<1>6. Tidy((<<Modifiers({})>> \o tap) \o <<Modifiers(k.raw_mods)>>)
  BY <1>4, <1>5, TidyConcat
<1> QED BY <1>3, <1>6 DEF BackspaceTap, tap

(* The prelude of an edit lifts the key it edits for.                      *)
LEMMA PreludeTidy ==
  ASSUME NEW key \in KeyCodes, NEW held PROVE Tidy(Prelude(key, held))
BY QuietRequest, BalancedBlocks DEF Prelude, Tidy

(* A character typed with its level modifiers raised and restored, and the *)
(* echo that the relay then expects.                                       *)
LEMMA EmitCharTidy ==
  ASSUME NEW k \in Relay, NEW glyph \in GlyphSpecs, NEW held
  PROVE  Tidy(emit_char(k, glyph, held)) /\ ExpectEcho(k, glyph) \in Relay
<1> DEFINE tap == <<GlyphKey(glyph), EditKey(glyph.key, 0)>>
           dance == plan_mod_dance(k, glyph)
           up == k.raw_mods \cup glyph.mods
<1>1. glyph.key \in KeyCodes
  BY DEF GlyphSpecs, KeyCodes, UserKeys
<1>2. tap \in Seq(Requests)
  <2>1. GlyphKey(glyph) \in Requests /\ EditKey(glyph.key, 0) \in Requests
    BY <1>1, RequestsTyped
  <2> QED BY <2>1
<1>3. Tidy(tap)
  BY <1>2, BalancedBlocks DEF Tidy
<1> HIDE DEF tap
<1>4. up \in Masks /\ k.raw_mods \in Masks
  BY DanceMasks
<1> HIDE DEF up
<1>5. dance = <<>> \/ dance = <<up, k.raw_mods>>
  BY DEF plan_mod_dance, up
<1>6. dance # <<>> => dance[1] = up /\ dance[2] = k.raw_mods
  BY <1>5
<1> HIDE DEF dance
<1>7. Tidy(<<Modifiers(up)>>) /\ Tidy(<<Modifiers(k.raw_mods)>>)
  BY <1>4, QuietRequest DEF Tidy
<1>8. Tidy(<<Modifiers(up)>> \o tap)
  BY <1>3, <1>7, TidyConcat
<1>9. Tidy((<<Modifiers(up)>> \o tap) \o <<Modifiers(k.raw_mods)>>)
  BY <1>7, <1>8, TidyConcat
<1>10. Tidy(IF dance = <<>> THEN tap
            ELSE <<Modifiers(dance[1])>> \o tap \o <<Modifiers(dance[2])>>)
  BY <1>3, <1>6, <1>9
<1>11. Tidy(Prelude(glyph.key, held))
  BY <1>1, PreludeTidy
<1>12. Tidy(emit_char(k, glyph, held))
  BY <1>10, <1>11, TidyConcat DEF emit_char, tap, dance
<1>13. ExpectEcho(k, glyph) \in Relay
  <2>1. k.expected \o dance \in Seq(Masks)
    <3>1. dance \in Seq(Masks)
      <4>1. <<>> \in Seq(Masks) /\ <<up, k.raw_mods>> \in Seq(Masks)
        BY <1>4
      <4> QED BY <1>5, <4>1
    <3>2. k.expected \in Seq(Masks)
      BY DEF Relay
    <3> QED BY <3>1, <3>2
  <2>2. [k EXCEPT !.expected = k.expected \o dance, !.late = FALSE] \in Relay
    BY <2>1 DEF Relay
  <2> QED BY <2>2 DEF ExpectEcho, dance
<1> QED BY <1>12, <1>13

(* The commit of a character as a v1 keysym.                               *)
LEMMA KeysymTidy ==
  ASSUME NEW k \in Relay, NEW glyph \in GlyphSpecs \cup {None}, NEW functional, NEW held
  PROVE  Tidy(commit_via_keysym_v1(k, glyph, functional, held))
<1> DEFINE mapped == Mapped(k, glyph)
           guard == mapped /\ ~functional /\ k.raw_mods # {}
           first == IF mapped THEN Prelude(glyph.key, held) ELSE <<>>
           second == IF guard THEN <<Modifiers({}), Keysym(glyph, mapped), Modifiers(k.raw_mods)>>
                     ELSE <<Keysym(glyph, mapped)>>
<1>1. mapped \in BOOLEAN
  BY DEF Mapped
<1>2. mapped => glyph.key \in KeyCodes
  BY DEF Mapped, GlyphSpecs, KeyCodes, UserKeys
<1> HIDE DEF mapped
<1>3. Tidy(first)
  BY <1>2, PreludeTidy, BalancedBlocks DEF Tidy
<1>4. Tidy(<<Keysym(glyph, mapped)>>)
  BY <1>1, QuietRequest DEF Tidy
<1>5. Tidy(<<Modifiers({})>>) /\ Tidy(<<Modifiers(k.raw_mods)>>)
  BY DanceMasks, QuietRequest DEF Tidy
<1>6. Tidy(<<Modifiers({}), Keysym(glyph, mapped), Modifiers(k.raw_mods)>>)
  <2> DEFINE s == <<Modifiers({}), Keysym(glyph, mapped), Modifiers(k.raw_mods)>>
  <2>1. /\ Modifiers({}) \in Requests /\ Modifiers(k.raw_mods) \in Requests
        /\ Keysym(glyph, mapped) \in Requests
    BY <1>1, DanceMasks, RequestsTyped
  <2>2. s \in Seq(Requests)
    BY <2>1
  <2>3. \A key : /\ ~PressOf(Modifiers({}), key) /\ ~PressOf(Modifiers(k.raw_mods), key)
                 /\ ~PressOf(Keysym(glyph, mapped), key)
    BY DEF PressOf, Modifiers, Keysym
  <2>4. /\ DOMAIN s = 1 .. 3 /\ s[1] = Modifiers({}) /\ s[2] = Keysym(glyph, mapped)
        /\ s[3] = Modifiers(k.raw_mods)
    OBVIOUS
  <2> HIDE DEF s
  <2>5. \A i \in DOMAIN s, key \in KeyCodes : ~PressOf(s[i], key)
    BY <2>3, <2>4
  <2>6. Tidy(s)
    BY <2>2, <2>5 DEF Tidy, Balanced
  <2> QED BY <2>6 DEF s
<1>8. Tidy(second)
  BY <1>4, <1>6
<1> HIDE DEF first, second
<1>9. Tidy(first \o second)
  BY <1>3, <1>8, TidyConcat
<1> QED BY <1>9 DEF commit_via_keysym_v1, first, second, guard, mapped

(* An edit leaves no key down, and the key state well-formed.              *)
LEMMA EditTidy ==
  ASSUME NEW protocol, NEW k \in Relay, NEW functional, NEW e \in EditSpecs, NEW held
  PROVE  /\ Tidy(EditRequests(protocol, k, functional, e, held))
         /\ AfterEdit(protocol, k, functional, e) \in Relay
<1> DEFINE vk == ByVirtualKeyboard(protocol, functional, e)
           first == IF e.backspaces = 0 THEN <<>> ELSE BackspaceTap(k)
           channel == <<Text>> \o (IF protocol = "ImV2" THEN <<Commit>> ELSE <<>>)
           second == IF vk THEN emit_char(k, e.glyph, held)
                     ELSE IF protocol = "ImV1" /\ e.delete = "keys"
                     THEN commit_via_keysym_v1(k, e.glyph, functional, held)
                     ELSE channel
<1>1. e.glyph \in GlyphSpecs \cup {None}
  BY DEF EditSpecs
<1>2. vk => e.glyph \in GlyphSpecs
  BY <1>1 DEF ByVirtualKeyboard
<1> HIDE DEF vk
<1>3. Tidy(first)
  BY BackspaceTapTidy, BalancedBlocks DEF Tidy
<1>4. Tidy(channel)
  <2>1. Tidy(<<Text>>) /\ Tidy(IF protocol = "ImV2" THEN <<Commit>> ELSE <<>>)
    BY QuietRequest, BalancedBlocks DEF Tidy
  <2> QED BY <2>1, TidyConcat
<1> HIDE DEF channel
<1>5. Tidy(second)
  BY <1>1, <1>2, <1>4, EmitCharTidy, KeysymTidy
<1> HIDE DEF first, second
<1>6. Tidy(first \o second)
  BY <1>3, <1>5, TidyConcat
<1>7. AfterEdit(protocol, k, functional, e) \in Relay
  BY <1>2, EmitCharTidy DEF AfterEdit, vk
<1> QED BY <1>6, <1>7 DEF EditRequests, first, second, channel, vk

-----------------------------------------------------------------------------
(* The application takes requests.                                         *)

(* What one request changes of the keys that are down, the acknowledgement *)
(* that is owed, and the repeats that came too late.                       *)
LEMMA TakeFacts ==
  ASSUME NEW a \in App, NEW r \in Requests
  PROVE  LET b == Take(a, r)
         IN  /\ b \in App
             /\ "trailing_repeat" \in b.faults <=> "trailing_repeat" \in a.faults
             /\ b.owed => a.owed /\ r.op # "commit"
             /\ \A key \in b.down : ~ReleaseOf(r, key) /\ (key \in a.down \/ PressOf(r, key))
<1> DEFINE b == Take(a, r)
           Good(x) == /\ x \in App
                      /\ "trailing_repeat" \in x.faults <=> "trailing_repeat" \in a.faults
                      /\ x.owed => a.owed /\ r.op # "commit"
                      /\ \A key \in x.down : ~ReleaseOf(r, key) /\ (key \in a.down \/ PressOf(r, key))
<1> SUFFICES Good(b)
  OBVIOUS
<1>1. r.op \in {"key", "mods", "keysym", "text", "commit"}
  BY DEF Requests
<1>2. CASE r.op = "key"
  <2>1. r.key \in KeyCodes /\ r.value \in {0, 1, 2} /\ r.by \in {"user", "shortcut", "edit"}
    BY <1>2 DEF Requests
  <2>2. CASE r.value = 1
    <3> DEFINE down == a.down \cup {r.key}
               faults == a.faults \cup EditFaults(a, r)
               stray == a.stray \/ Unawaited(r)
               covered == CASE r.by = "shortcut" -> a.covered \cup {r.key}
                            [] r.by = "user" -> a.down \ {r.key}
                            [] r.by = "edit" -> a.covered
               c == [a EXCEPT !.down = down, !.faults = faults, !.stray = stray, !.covered = covered]
    <3>1. down \in SUBSET KeyCodes
      BY <2>1 DEF App
    <3>2. EditFaults(a, r) \subseteq {"lost_glyph", "modified_backspace"}
      BY DEF EditFaults
    <3>3. faults \in SUBSET {"lost_glyph", "modified_backspace", "trailing_repeat"}
          /\ ("trailing_repeat" \in faults <=> "trailing_repeat" \in a.faults)
      BY <3>2 DEF App
    <3>4. stray \in BOOLEAN
      BY DEF App
    <3>5. covered \in SUBSET KeyCodes
      <4>1. a.covered \cup {r.key} \in SUBSET KeyCodes /\ a.down \ {r.key} \in SUBSET KeyCodes
            /\ a.covered \in SUBSET KeyCodes
        BY <2>1 DEF App
      <4>2. CASE r.by = "shortcut"
        BY <4>1, <4>2
      <4>3. CASE r.by = "user"
        BY <4>1, <4>3
      <4>4. CASE r.by = "edit"
        BY <4>1, <4>4
      <4> QED BY <2>1, <4>2, <4>3, <4>4
    <3>6. b = c
      <4>1. b = TakePress(a, r)
        BY <1>2, <2>2 DEF Take
      <4>2. TakePress(a, r) = c
        BY DEF TakePress
      <4> QED BY <4>1, <4>2
    <3> HIDE DEF b, down, faults, stray, covered
    <3>7. c \in App /\ c.down = down /\ c.faults = faults /\ c.owed = a.owed
      BY <3>1, <3>3, <3>4, <3>5 DEF App
    <3> HIDE DEF c
    <3>8. \A key \in down : ~ReleaseOf(r, key) /\ (key \in a.down \/ PressOf(r, key))
      BY <1>2, <2>2 DEF down, ReleaseOf, PressOf
    <3> QED BY <1>2, <3>3, <3>6, <3>7, <3>8
  <2>3. CASE r.value = 0
    <3>1. b = [a EXCEPT !.down = a.down \ {r.key}, !.covered = a.covered \ {r.key}]
      BY <1>2, <2>3 DEF Take
    <3> HIDE DEF b
    <3>2. /\ b \in App /\ b.down = a.down \ {r.key} /\ b.faults = a.faults
          /\ b.owed = a.owed
      BY <3>1 DEF App
    <3> QED BY <1>2, <3>2 DEF ReleaseOf
  <2>4. CASE r.value = 2
    <3>1. b = a
      BY <1>2, <2>4 DEF Take
    <3> QED BY <1>2, <2>4, <3>1 DEF ReleaseOf
  <2> QED BY <2>1, <2>2, <2>3, <2>4
<1>3. CASE r.op = "mods"
  <2>1. r.mask \in Masks
    BY <1>3 DEF Requests
  <2>2. b = [a EXCEPT !.mods = r.mask]
    BY <1>3 DEF Take
  <2> HIDE DEF b
  <2>3. b \in App /\ b.down = a.down /\ b.faults = a.faults /\ b.owed = a.owed
    BY <2>1, <2>2 DEF App
  <2> QED BY <1>3, <2>3 DEF ReleaseOf
<1>4. CASE r.op = "keysym"
  <2> DEFINE faults == a.faults \cup (IF Dropped(a, r.glyph.key) THEN {"lost_glyph"} ELSE {})
  <2>1. b = [a EXCEPT !.faults = faults] \/ b = a
    BY <1>4 DEF Take
  <2>2. faults \in SUBSET {"lost_glyph", "modified_backspace", "trailing_repeat"}
        /\ ("trailing_repeat" \in faults <=> "trailing_repeat" \in a.faults)
    BY DEF App
  <2> HIDE DEF b, faults
  <2>3. b \in App /\ b.down = a.down /\ b.faults \in {a.faults, faults} /\ b.owed = a.owed
    BY <2>1, <2>2 DEF App
  <2> QED BY <1>4, <2>2, <2>3 DEF ReleaseOf
<1>5. CASE r.op = "commit"
  <2>1. b = [a EXCEPT !.owed = FALSE]
    BY <1>5 DEF Take
  <2> HIDE DEF b
  <2>2. b \in App /\ b.down = a.down /\ b.faults = a.faults /\ b.owed = FALSE
    BY <2>1 DEF App
  <2> QED BY <1>5, <2>2 DEF ReleaseOf
<1>6. CASE r.op = "text"
  <2>1. b = a
    BY <1>6 DEF Take
  <2> QED BY <1>6, <2>1 DEF ReleaseOf
<1> QED BY <1>1, <1>2, <1>3, <1>4, <1>5, <1>6

(* The states that the application goes through.                           *)
LEMMA TakeTrace ==
  ASSUME NEW a \in App, NEW requests \in Seq(Requests), NEW m \in Nat, m = Len(requests)
  PROVE  \E f : /\ f[0] = a /\ f[m] = TakeAll(a, requests)
                /\ \A n \in 0 .. m : f[n] \in App
                /\ \A n \in 1 .. m : f[n] = Take(f[n - 1], requests[n])
<1> DEFINE step == [x \in App \X (1 .. m) |-> Take(x[1], requests[x[2]])]
           Solves(g) == g = [s \in SUBSET (1 .. m) |->
                               IF s = {} THEN a
                               ELSE Take(g[s \ {Max(s)}], requests[Max(s)])]
           it == CHOOSE g : Solves(g)
           f == [n \in 0 .. m |-> it[1 .. n]]
<1>1. \A n \in 1 .. m : requests[n] \in Requests
  OBVIOUS
<1>2. step \in [App \X (1 .. m) -> App]
  BY <1>1, TakeFacts
<1>3. \E g : Solves(g)
  <2> HIDE DEF step
  <2>1. PICK g : Folds(g, App, a, m, step)
    BY <1>2, SetRecursion
  <2>2. ASSUME NEW s \in SUBSET (1 .. m), s # {}
        PROVE  step[<<g[s \ {Max(s)}], Max(s)>>] = Take(g[s \ {Max(s)}], requests[Max(s)])
    <3>1. Max(s) \in 1 .. m
      <4>1. s \in SUBSET (0 .. m)
        OBVIOUS
      <4>2. Max(s) \in s
        BY <2>2, <4>1, MaxOfSubset
      <4> QED BY <4>2
    <3>2. g[s \ {Max(s)}] \in App
      BY <2>1 DEF Folds
    <3> QED BY <3>1, <3>2 DEF step
  <2>3. Solves(g)
    BY <2>1, <2>2 DEF Folds
  <2> QED BY <2>3
<1>4. Solves(it)
  BY <1>3
<1>5. TakeAll(a, requests) = it[1 .. m]
  <2>1. DOMAIN requests = 1 .. m
    OBVIOUS
  <2> QED BY <2>1 DEF TakeAll, FoldLeft, MapThenFoldSet
<1> HIDE DEF it, step
<1>6. \A n \in 0 .. m : f[n] = it[1 .. n]
  OBVIOUS
<1> HIDE DEF f
<1>7. f[0] = a
  <2>1. 1 .. 0 = {} /\ 0 \in 0 .. m
    OBVIOUS
  <2>2. it[{}] = a
    BY <1>4
  <2> QED BY <1>6, <2>1, <2>2
<1>8. ASSUME NEW n \in 1 .. m PROVE f[n] = Take(f[n - 1], requests[n])
  <2>1. n \in Nat /\ n # 0 /\ n \in 0 .. m /\ n - 1 \in 0 .. m
    OBVIOUS
  <2>2. 1 .. n # {} /\ Max(1 .. n) = n /\ (1 .. n) \ {Max(1 .. n)} = 1 .. (n - 1)
    BY <2>1, LastOfInterval
  <2>3. 1 .. n \in SUBSET (1 .. m)
    OBVIOUS
  <2>4. it[1 .. n] = Take(it[1 .. (n - 1)], requests[n])
    BY <1>4, <2>2, <2>3
  <2> QED BY <1>6, <2>1, <2>4
<1>9. \A n \in 0 .. m : f[n] \in App
  <2> DEFINE T == {n \in 0 .. m : f[n] \in App}
  <2>1. 0 \in T
    BY <1>7
  <2>2. ASSUME NEW n \in 1 .. m, n - 1 \in T PROVE n \in T
    <3>1. Take(f[n - 1], requests[n]) \in App
      BY <1>1, <2>2, TakeFacts
    <3> QED BY <1>8, <3>1
  <2> HIDE DEF T
  <2>3. 0 .. m \subseteq T
    BY <2>1, <2>2, IntervalInduction
  <2> QED BY <2>3 DEF T
<1>10. f[m] = TakeAll(a, requests)
  <2>1. m \in 0 .. m
    OBVIOUS
  <2> QED BY <1>5, <1>6, <2>1
<1> QED BY <1>7, <1>8, <1>9, <1>10

(* A key is down after requests if it was down and not released, or was    *)
(* pressed and not released after; a commit settles what is owed.          *)
LEMMA TakeAllFacts ==
  ASSUME NEW a \in App, NEW requests \in Seq(Requests)
  PROVE  LET b == TakeAll(a, requests)
         IN  /\ b \in App
             /\ "trailing_repeat" \in b.faults <=> "trailing_repeat" \in a.faults
             /\ b.owed => a.owed /\ \A i \in DOMAIN requests : requests[i].op # "commit"
             /\ \A key \in b.down :
                  \/ key \in a.down /\ \A j \in DOMAIN requests : ~ReleaseOf(requests[j], key)
                  \/ \E i \in DOMAIN requests :
                       /\ PressOf(requests[i], key)
                       /\ \A j \in DOMAIN requests : j > i => ~ReleaseOf(requests[j], key)
<1>1. PICK m \in Nat : m = Len(requests)
  OBVIOUS
<1>2. PICK f : /\ f[0] = a /\ f[m] = TakeAll(a, requests)
               /\ \A n \in 0 .. m : f[n] \in App
               /\ \A n \in 1 .. m : f[n] = Take(f[n - 1], requests[n])
  BY <1>1, TakeTrace
<1>3. DOMAIN requests = 1 .. m /\ \A n \in 1 .. m : requests[n] \in Requests
  BY <1>1
<1> DEFINE Settled(n) == f[n].owed => a.owed /\ \A i \in 1 .. n : requests[i].op # "commit"
           Downs(n) == \A key \in f[n].down :
                         \/ key \in a.down /\ \A j \in 1 .. n : ~ReleaseOf(requests[j], key)
                         \/ \E i \in 1 .. n :
                              /\ PressOf(requests[i], key)
                              /\ \A j \in 1 .. n : j > i => ~ReleaseOf(requests[j], key)
           Repeats(n) == "trailing_repeat" \in f[n].faults <=> "trailing_repeat" \in a.faults
           T == {n \in 0 .. m : Settled(n) /\ Downs(n) /\ Repeats(n)}
<1>4. 0 \in T
  <2>1. 0 \in 0 .. m /\ \A i \in 1 .. 0 : FALSE
    OBVIOUS
  <2>2. Settled(0) /\ Repeats(0)
    BY <1>2, <2>1
  <2>3. Downs(0)
    BY <1>2, <2>1
  <2> QED BY <2>1, <2>2, <2>3
<1>5. ASSUME NEW n \in 1 .. m, n - 1 \in T PROVE n \in T
  <2>1. f[n - 1] \in App /\ f[n] = Take(f[n - 1], requests[n]) /\ requests[n] \in Requests
    BY <1>2, <1>3
  <2>2. /\ "trailing_repeat" \in f[n].faults <=> "trailing_repeat" \in f[n - 1].faults
        /\ f[n].owed => f[n - 1].owed /\ requests[n].op # "commit"
        /\ \A key \in f[n].down :
             ~ReleaseOf(requests[n], key) /\ (key \in f[n - 1].down \/ PressOf(requests[n], key))
    BY <2>1, TakeFacts
  <2>3. \A i \in 1 .. n : i = n \/ i \in 1 .. (n - 1)
    OBVIOUS
  <2>4. Settled(n - 1) /\ Downs(n - 1) /\ Repeats(n - 1)
    BY <1>5
  <2>5. Settled(n) /\ Repeats(n)
    BY <2>2, <2>3, <2>4
  <2>6. ASSUME NEW key \in f[n].down
        PROVE  \/ key \in a.down /\ \A j \in 1 .. n : ~ReleaseOf(requests[j], key)
               \/ \E i \in 1 .. n : /\ PressOf(requests[i], key)
                                    /\ \A j \in 1 .. n : j > i => ~ReleaseOf(requests[j], key)
    <3>1. CASE PressOf(requests[n], key)
      <4>1. n \in 1 .. n /\ \A j \in 1 .. n : ~(j > n)
        OBVIOUS
      <4> QED BY <3>1, <4>1
    <3>2. CASE key \in f[n - 1].down
      <4>1. ~ReleaseOf(requests[n], key)
        BY <2>2
      <4>2. CASE key \in a.down /\ \A j \in 1 .. (n - 1) : ~ReleaseOf(requests[j], key)
        BY <2>3, <4>1, <4>2
      <4>3. CASE \E i \in 1 .. (n - 1) :
                   /\ PressOf(requests[i], key)
                   /\ \A j \in 1 .. (n - 1) : j > i => ~ReleaseOf(requests[j], key)
        <5>1. PICK i \in 1 .. (n - 1) :
                   /\ PressOf(requests[i], key)
                   /\ \A j \in 1 .. (n - 1) : j > i => ~ReleaseOf(requests[j], key)
          BY <4>3
        <5>2. i \in 1 .. n
          OBVIOUS
        <5> QED BY <2>3, <4>1, <5>1, <5>2
      <4> QED BY <2>4, <3>2, <4>2, <4>3
    <3> QED BY <2>2, <3>1, <3>2
  <2>7. Downs(n)
    BY <2>6
  <2>8. n \in 0 .. m
    OBVIOUS
  <2> HIDE DEF Settled, Downs, Repeats
  <2> QED BY <2>5, <2>7, <2>8
<1> HIDE DEF T
<1>6. 0 .. m \subseteq T
  BY <1>4, <1>5, IntervalInduction
<1>7. m \in T /\ f[m] \in App
  <2>1. m \in 0 .. m
    OBVIOUS
  <2> QED BY <1>2, <1>6, <2>1
<1>8. Settled(m) /\ Downs(m) /\ Repeats(m)
  BY <1>7 DEF T
<1> QED BY <1>2, <1>3, <1>7, <1>8

(* Balanced requests leave no key down that was not.                       *)
LEMMA TidyLeavesUp ==
  ASSUME NEW a \in App, NEW requests, Tidy(requests)
  PROVE  TakeAll(a, requests).down \subseteq a.down
<1> SUFFICES ASSUME NEW key \in TakeAll(a, requests).down PROVE key \in a.down
  OBVIOUS
<1>1. TakeAll(a, requests) \in App
      /\ \/ key \in a.down /\ \A j \in DOMAIN requests : ~ReleaseOf(requests[j], key)
         \/ \E i \in DOMAIN requests :
              /\ PressOf(requests[i], key)
              /\ \A j \in DOMAIN requests : j > i => ~ReleaseOf(requests[j], key)
  BY TakeAllFacts DEF Tidy
<1>2. key \in KeyCodes
  BY <1>1 DEF App
<1> QED BY <1>1, <1>2 DEF Tidy, Balanced

-----------------------------------------------------------------------------
(* Events.                                                                 *)

ModsEvents == [type : {"mods"}, mask : Masks, by : {"echo", "user"}]

Events ==
  [type : {"key"}, key : UserKeys, value : {0, 1, 2}]
    \cup ModsEvents
    \cup [type : {"repeat_info"}, positive : BOOLEAN]
    \cup [type : {"activate", "surrounding_text"}, epoch : Nat]
    \cup [type : {"done", "commit_state", "deactivate", "cause", "content_type", "reset",
                  "unavailable", "finished"}]
    \cup [type : {"toplevel", "closed", "toplevel_done"}, window : Windows]
    \cup [type : {"app_id"}, window : Windows, value : Apps]
    \cup [type : {"state"}, window : Windows, value : {"yes", "no"}]

(* The echoes of requests, one request at a time.                          *)
Accs == [mods : Masks, events : Seq(ModsEvents)]
EchoAll(acc, requests) == FoldLeft(EchoStep, acc, requests)

(* One request more.                                                       *)
(* One request more.                                                       *)
LEMMA EchoStepTyped ==
  ASSUME NEW acc \in Accs, NEW r \in Requests PROVE EchoStep(acc, r) \in Accs
<1> DEFINE event == ModsEvent(r.mask, "echo")
           grown == Append(acc.events, event)
<1>1. CASE r.op = "mods"
  <2>1. r.mask \in Masks
    BY <1>1 DEF Requests
  <2>2. event \in ModsEvents /\ acc.events \in Seq(ModsEvents)
    BY <2>1 DEF ModsEvent, ModsEvents, Accs
  <2> HIDE DEF event
  <2>3. grown \in Seq(ModsEvents)
    BY <2>2
  <2> HIDE DEF grown
  <2>4. [mods |-> r.mask, events |-> grown] \in Accs
    BY <2>1, <2>3 DEF Accs
  <2> QED BY <2>4 DEF EchoStep, grown, event
<1>2. CASE r.op # "mods"
  BY <1>2 DEF EchoStep
<1> QED BY <1>1, <1>2

(* They are taken as the requests themselves are.                          *)
LEMMA EchoTrace ==
  ASSUME NEW acc \in Accs, NEW requests \in Seq(Requests), NEW m \in Nat, m = Len(requests)
  PROVE  \E f : /\ f[0] = acc /\ f[m] = EchoAll(acc, requests)
                /\ \A n \in 0 .. m : f[n] \in Accs
                /\ \A n \in 1 .. m : f[n] = EchoStep(f[n - 1], requests[n])
<1> DEFINE step == [x \in Accs \X (1 .. m) |-> EchoStep(x[1], requests[x[2]])]
           Solves(g) == g = [s \in SUBSET (1 .. m) |->
                               IF s = {} THEN acc
                               ELSE EchoStep(g[s \ {Max(s)}], requests[Max(s)])]
           it == CHOOSE g : Solves(g)
           f == [n \in 0 .. m |-> it[1 .. n]]
<1>1. \A n \in 1 .. m : requests[n] \in Requests
  OBVIOUS
<1>2. step \in [Accs \X (1 .. m) -> Accs]
  BY <1>1, EchoStepTyped
<1>3. \E g : Solves(g)
  <2> HIDE DEF step
  <2>1. PICK g : Folds(g, Accs, acc, m, step)
    BY <1>2, SetRecursion
  <2>2. ASSUME NEW s \in SUBSET (1 .. m), s # {}
        PROVE  step[<<g[s \ {Max(s)}], Max(s)>>] = EchoStep(g[s \ {Max(s)}], requests[Max(s)])
    <3>1. Max(s) \in 1 .. m
      <4>1. s \in SUBSET (0 .. m)
        OBVIOUS
      <4>2. Max(s) \in s
        BY <2>2, <4>1, MaxOfSubset
      <4> QED BY <4>2
    <3>2. g[s \ {Max(s)}] \in Accs
      BY <2>1 DEF Folds
    <3> QED BY <3>1, <3>2 DEF step
  <2>3. Solves(g)
    BY <2>1, <2>2 DEF Folds
  <2> QED BY <2>3
<1>4. Solves(it)
  BY <1>3
<1>5. EchoAll(acc, requests) = it[1 .. m]
  <2>1. DOMAIN requests = 1 .. m
    OBVIOUS
  <2> QED BY <2>1 DEF EchoAll, FoldLeft, MapThenFoldSet
<1> HIDE DEF it, step
<1>6. \A n \in 0 .. m : f[n] = it[1 .. n]
  OBVIOUS
<1> HIDE DEF f
<1>7. f[0] = acc
  <2>1. 1 .. 0 = {} /\ 0 \in 0 .. m
    OBVIOUS
  <2>2. it[{}] = acc
    BY <1>4
  <2> QED BY <1>6, <2>1, <2>2
<1>8. ASSUME NEW n \in 1 .. m PROVE f[n] = EchoStep(f[n - 1], requests[n])
  <2>1. n \in Nat /\ n # 0 /\ n \in 0 .. m /\ n - 1 \in 0 .. m
    OBVIOUS
  <2>2. 1 .. n # {} /\ Max(1 .. n) = n /\ (1 .. n) \ {Max(1 .. n)} = 1 .. (n - 1)
    BY <2>1, LastOfInterval
  <2>3. 1 .. n \in SUBSET (1 .. m)
    OBVIOUS
  <2>4. it[1 .. n] = EchoStep(it[1 .. (n - 1)], requests[n])
    BY <1>4, <2>2, <2>3
  <2> QED BY <1>6, <2>1, <2>4
<1>9. \A n \in 0 .. m : f[n] \in Accs
  <2> DEFINE T == {n \in 0 .. m : f[n] \in Accs}
  <2>1. 0 \in T
    BY <1>7
  <2>2. ASSUME NEW n \in 1 .. m, n - 1 \in T PROVE n \in T
    <3>1. EchoStep(f[n - 1], requests[n]) \in Accs
      BY <1>1, <2>2, EchoStepTyped
    <3> QED BY <1>8, <3>1
  <2> HIDE DEF T
  <2>3. 0 .. m \subseteq T
    BY <2>1, <2>2, IntervalInduction
  <2> QED BY <2>3 DEF T
<1>10. f[m] = EchoAll(acc, requests)
  <2>1. m \in 0 .. m
    OBVIOUS
  <2> QED BY <1>5, <1>6, <2>1
<1> QED BY <1>7, <1>8, <1>9, <1>10

(* The echoes of requests are modifier events.                             *)
LEMMA EchoesTyped ==
  ASSUME NEW a \in App, NEW requests \in Seq(Requests)
  PROVE  Echoes(a, requests) \in Seq(ModsEvents)
<1> DEFINE base == [mods |-> a.mods, events |-> <<>>]
<1>1. PICK m \in Nat : m = Len(requests)
  OBVIOUS
<1>2. base \in Accs
  <2>1. a.mods \in Masks
    BY DEF App
  <2>2. <<>> \in Seq(ModsEvents)
    OBVIOUS
  <2> QED BY <2>1, <2>2 DEF Accs
<1> HIDE DEF base
<1>3. EchoAll(base, requests) \in Accs
  <2>1. \E f : /\ f[0] = base /\ f[m] = EchoAll(base, requests)
               /\ \A n \in 0 .. m : f[n] \in Accs
               /\ \A n \in 1 .. m : f[n] = EchoStep(f[n - 1], requests[n])
    BY <1>1, <1>2, EchoTrace
  <2>2. m \in 0 .. m
    OBVIOUS
  <2> QED BY <2>1, <2>2
<1>4. EchoAll(base, requests).events \in Seq(ModsEvents) /\ <<>> \in Seq(ModsEvents)
  BY <1>3 DEF Accs
<1> QED BY <1>4 DEF Echoes, base, EchoAll

(* What the requests of a step do: those of an edit leave no more keys     *)
(* down, and whatever else happens to the socket, only modifier events are *)
(* added to it.                                                            *)
LEMMA SendFacts ==
  ASSUME NEW a \in App, NEW requests \in Seq(Requests), NEW rest \in Seq(Events),
         SendFrom(a, requests, rest)
  PROVE  /\ app' \in App
         /\ app' = IF Reaches THEN TakeAll(a, requests) ELSE a
         /\ \E echoes \in Seq(ModsEvents) : socket' = rest \o echoes
         /\ socket' \in Seq(Events)
<1>1. app' = IF Reaches THEN TakeAll(a, requests) ELSE a
  BY DEF SendFrom
<1>2. app' \in App
  BY <1>1, TakeAllFacts
<1>3. Echoes(a, requests) \in Seq(ModsEvents) /\ <<>> \in Seq(ModsEvents)
  BY EchoesTyped
<1>4. rest = rest \o <<>>
  OBVIOUS
<1>5. \E echoes \in Seq(ModsEvents) : socket' = rest \o echoes
  BY <1>3, <1>4 DEF SendFrom
<1>6. socket' \in Seq(Events)
  <2>1. PICK echoes \in Seq(ModsEvents) : socket' = rest \o echoes
    BY <1>5
  <2>2. ModsEvents \subseteq Events
    BY DEF Events
  <2>3. echoes \in Seq(Events)
    BY <2>2
  <2> QED BY <2>1, <2>3
<1> QED BY <1>1, <1>2, <1>5, <1>6

-----------------------------------------------------------------------------
(* The key state.                                                          *)

KeyStates == {k \in Relay : k.rate \/ k.held = None}

(* What the timer does to the key it holds.                                *)
LEMMA TimerTyped ==
  ASSUME NEW k \in KeyStates, NEW key \in KeyCodes
  PROVE  /\ arm(k, key) \in KeyStates /\ arm(k, key).held \in {k.held, key}
         /\ cancel(k) \in KeyStates /\ cancel(k).held = None
         /\ release(k, key) \in KeyStates /\ release(k, key).held \in {k.held, None} \ {key}
         /\ \A positive \in BOOLEAN :
              set_info(k, positive) \in KeyStates /\ set_info(k, positive).held \in {k.held, None}
<1>1. arm(k, key) \in KeyStates /\ arm(k, key).held \in {k.held, key}
  BY DEF arm, KeyStates, Relay
<1>2. cancel(k) \in KeyStates /\ cancel(k).held = None
  BY DEF cancel, KeyStates, Relay
<1>3. key # None
  BY RelayAssumption
<1>4. release(k, key) \in KeyStates /\ release(k, key).held \in {k.held, None} \ {key}
  <2> HIDE DEF KeyStates, Relay
  <2>1. CASE k.held = key
    <3>1. release(k, key) = cancel(k)
      BY <2>1 DEF release
    <3> QED BY <1>2, <1>3, <3>1
  <2>2. CASE k.held # key
    <3>1. release(k, key) = k
      BY <2>2 DEF release
    <3> QED BY <2>2, <3>1
  <2> QED BY <2>1, <2>2
<1>5. ASSUME NEW positive \in BOOLEAN
      PROVE  set_info(k, positive) \in KeyStates /\ set_info(k, positive).held \in {k.held, None}
  <2> DEFINE held == IF positive THEN k.held ELSE None
  <2>1. set_info(k, positive) = [k EXCEPT !.rate = positive, !.held = held]
    BY DEF set_info
  <2>2. held \in KeyCodes \cup {None} /\ held \in {k.held, None} /\ (positive \/ held = None)
    BY DEF KeyStates, Relay
  <2> HIDE DEF held
  <2> QED BY <2>1, <2>2 DEF KeyStates, Relay
<1> QED BY <1>1, <1>2, <1>4, <1>5

(* The stamps and the echoes do not touch the timer.                       *)
LEMMA StampsTyped ==
  ASSUME NEW k \in KeyStates
  PROVE  /\ \A key \in KeyCodes :
              /\ StampPress(k, key) \in KeyStates /\ StampPress(k, key).held = k.held
              /\ StampRelease(k, key) \in KeyStates /\ StampRelease(k, key).held = k.held
         /\ ForceReset(k) \in KeyStates /\ ForceReset(k).held = k.held
         /\ k.expected # <<>> => PopEcho(k) \in KeyStates /\ PopEcho(k).held = k.held
         /\ \A mask \in Masks : /\ [k EXCEPT !.raw_mods = mask] \in KeyStates
                                /\ [k EXCEPT !.raw_mods = mask].held = k.held
         /\ [k EXCEPT !.late = TRUE] \in KeyStates /\ [k EXCEPT !.late = TRUE].held = k.held
<1>1. ASSUME NEW key \in KeyCodes
      PROVE  /\ StampPress(k, key) \in KeyStates /\ StampPress(k, key).held = k.held
             /\ StampRelease(k, key) \in KeyStates /\ StampRelease(k, key).held = k.held
  BY DEF StampPress, StampRelease, KeyStates, Relay
<1>2. ForceReset(k) \in KeyStates /\ ForceReset(k).held = k.held
  <2>1. <<>> \in Seq(Masks)
    OBVIOUS
  <2> HIDE DEF Masks
  <2>2. [k EXCEPT !.expected = <<>>, !.late = FALSE] \in KeyStates
        /\ [k EXCEPT !.expected = <<>>, !.late = FALSE].held = k.held
    BY <2>1 DEF KeyStates, Relay
  <2> QED BY <2>2 DEF ForceReset
<1>3. ASSUME k.expected # <<>> PROVE PopEcho(k) \in KeyStates /\ PopEcho(k).held = k.held
  <2> DEFINE rest == Tail(k.expected)
             late == k.late /\ Len(k.expected) > 1
  <2>1. rest \in Seq(Masks) /\ late \in BOOLEAN
    <3>1. k.expected \in Seq(Masks)
      BY DEF KeyStates, Relay
    <3> QED BY <1>3, <3>1
  <2> HIDE DEF rest, late
  <2>2. [k EXCEPT !.expected = rest, !.late = late] \in KeyStates
        /\ [k EXCEPT !.expected = rest, !.late = late].held = k.held
    BY <2>1 DEF KeyStates, Relay
  <2> QED BY <2>2 DEF PopEcho, rest, late
<1>4. ASSUME NEW mask \in Masks
      PROVE  [k EXCEPT !.raw_mods = mask] \in KeyStates /\ [k EXCEPT !.raw_mods = mask].held = k.held
  BY DEF KeyStates, Relay
<1>5. [k EXCEPT !.late = TRUE] \in KeyStates /\ [k EXCEPT !.late = TRUE].held = k.held
  BY DEF KeyStates, Relay
<1> QED BY <1>1, <1>2, <1>3, <1>4, <1>5

(* An edit leaves no key down and the timer alone.                         *)
LEMMA EditFacts ==
  ASSUME NEW protocol, NEW k \in KeyStates, NEW functional, NEW e \in EditSpecs, NEW held
  PROVE  /\ Tidy(EditRequests(protocol, k, functional, e, held))
         /\ AfterEdit(protocol, k, functional, e) \in KeyStates
         /\ AfterEdit(protocol, k, functional, e).held = k.held
<1> DEFINE after == AfterEdit(protocol, k, functional, e)
<1>1. Tidy(EditRequests(protocol, k, functional, e, held)) /\ after \in Relay
  BY EditTidy DEF KeyStates
<1>2. after = k \/ after = [k EXCEPT !.expected = k.expected \o plan_mod_dance(k, e.glyph),
                                     !.late = FALSE]
  BY DEF AfterEdit, ExpectEcho
<1> HIDE DEF after
<1>3. after.held = k.held /\ after.rate = k.rate
  BY <1>2 DEF KeyStates, Relay
<1> QED BY <1>1, <1>3 DEF KeyStates, after

-----------------------------------------------------------------------------
(* What becomes of a key.                                                  *)

(* Every variable has its type, the socket's events included.              *)
Types == TypeOK /\ socket \in Seq(Events)

(* The variables, one by one, so that a step need not expand Types.        *)
LEMMA TypesFacts ==
  ASSUME Types
  PROVE  /\ profile \in Profiles /\ user \subseteq UserKeys /\ desk \in Desk
         /\ relay \in KeyStates /\ relay \in Relay /\ frame \in Frame /\ router \in Router
         /\ focus \in Tracker /\ app \in App /\ running \in {"yes", "exiting", "no"}
         /\ budget \in [BudgetKinds -> Nat] /\ socket \in Seq(Events)
BY DEF Types, TypeOK, KeyStates

(* Whatever is decided about a press, only raw_sent of the router can      *)
(* change.                                                                 *)
LEMMA DecisionFacts ==
  ASSUME Types, NEW key \in KeyCodes, NEW d \in on_key_pressed(key)
  PROVE  /\ d.kind \in {"raw", "consumed", "apply"}
         /\ d.kind = "apply" => d.edit \in EditSpecs
         /\ NoteRaw(key, d) \in Router
         /\ \A field \in {"active", "synthetic", "app", "session", "seen"} :
              NoteRaw(key, d)[field] = router[field]
<1>1. d.kind \in {"raw", "consumed", "apply"} /\ (d.kind = "apply" => d.edit \in EditSpecs)
  <2> DEFINE fallback == IF key \in CharKeys /\ ~IsV2 /\ relay.raw_mods \cap LevelMods # {}
                         THEN Decision("apply", LevelShifted(key)) ELSE Decision("raw", None)
  <2>1. d \in {Decision("raw", None), Decision("consumed", None), fallback}
                \cup {Decision("apply", e) : e \in SessionEdits}
    BY DEF on_key_pressed
  <2>2. SessionEdits \subseteq EditSpecs
    BY EditsTyped DEF SessionEdits
  <2>3. key \in CharKeys => LevelShifted(key) \in EditSpecs
    BY TypesFacts, EditsTyped
  <2>4. \A e : Decision("apply", e).kind = "apply" /\ Decision("apply", e).edit = e
    BY DEF Decision
  <2>5. Decision("raw", None).kind = "raw" /\ Decision("consumed", None).kind = "consumed"
    BY DEF Decision
  <2>6. fallback \in {Decision("raw", None)}
          \cup (IF key \in CharKeys THEN {Decision("apply", LevelShifted(key))} ELSE {})
    OBVIOUS
  <2> HIDE DEF fallback
  <2> QED BY <2>1, <2>2, <2>3, <2>4, <2>5, <2>6
<1>2. router \in Router
  BY TypesFacts
<1> DEFINE raw == router.raw \/ (d.kind = "raw" /\ router.active /\ key \in CharKeys)
<1>3. raw \in BOOLEAN
  BY <1>2 DEF Router
<1>4. NoteRaw(key, d) = [router EXCEPT !.raw = raw]
  BY DEF NoteRaw
<1> HIDE DEF raw
<1>5. NoteRaw(key, d) \in Router
  BY <1>2, <1>3, <1>4 DEF Router
<1>6. \A field \in {"active", "synthetic", "app", "session", "seen"} :
        NoteRaw(key, d)[field] = router[field]
  BY <1>2, <1>4 DEF Router
<1> QED BY <1>1, <1>5, <1>6

-----------------------------------------------------------------------------
(* Dispatch of a key, digested: what the invariants below need to know.    *)

(* Only modifier events are added behind the events that are left.         *)
Leaves(rest) == \E echoes \in Seq(ModsEvents) : socket' = rest \o echoes

SameFrame == \A field \in {"activate", "deactivate", "text", "commit", "ctx"} : frame'[field] = frame[field]

SameSession ==
  \A field \in {"active", "synthetic", "app", "session", "seen"} : router'[field] = router[field]

(* The state after a step that passes a key on or edits: a is the          *)
(* application before the requests.                                        *)
KeyDigest(a, held, rest) ==
  /\ app' \in App /\ relay' \in KeyStates /\ frame' \in Frame /\ router' \in Router
  /\ socket' \in Seq(Events)
  /\ "trailing_repeat" \in app'.faults <=> "trailing_repeat" \in a.faults
  /\ app'.owed => a.owed
  /\ relay'.held \in held
  /\ SameFrame /\ SameSession /\ Leaves(rest)

(* Requests that settle nothing.                                           *)
LEMMA ForwardFacts ==
  ASSUME Types, NEW a \in App, NEW requests \in Seq(Requests), NEW rest \in Seq(Events),
         SendFrom(a, requests, rest)
  PROVE  /\ app' \in App /\ socket' \in Seq(Events) /\ Leaves(rest)
         /\ "trailing_repeat" \in app'.faults <=> "trailing_repeat" \in a.faults
         /\ app'.owed => a.owed
         /\ Balanced(requests) => app'.down \subseteq a.down
         /\ \A key \in app'.down :
              key \in a.down \/ (Reaches /\ \E i \in DOMAIN requests : PressOf(requests[i], key))
<1>1. /\ app' \in App
      /\ app' = IF Reaches THEN TakeAll(a, requests) ELSE a
      /\ Leaves(rest) /\ socket' \in Seq(Events)
  BY SendFacts DEF Leaves
<1>2. LET b == TakeAll(a, requests)
      IN  /\ "trailing_repeat" \in b.faults <=> "trailing_repeat" \in a.faults
          /\ b.owed => a.owed
          /\ \A key \in b.down :
               key \in a.down \/ \E i \in DOMAIN requests : PressOf(requests[i], key)
  BY TakeAllFacts
<1>3. Balanced(requests) => TakeAll(a, requests).down \subseteq a.down
  BY TidyLeavesUp DEF Tidy
<1> QED BY <1>1, <1>2, <1>3

(* An edit is applied: the session and the frame stay, and no application  *)
(* key goes down.                                                          *)
LEMMA ApplyPendingFacts ==
  ASSUME Types, NEW k \in KeyStates, NEW e \in EditSpecs, NEW a \in App, NEW rest \in Seq(Events),
         ApplyPending(k, e, a, rest)
  PROVE  /\ app' \in App /\ relay' \in KeyStates /\ frame' \in Frame /\ socket' \in Seq(Events)
         /\ "trailing_repeat" \in app'.faults <=> "trailing_repeat" \in a.faults
         /\ app'.owed => a.owed
         /\ relay'.held = k.held /\ SameFrame /\ Leaves(rest)
         /\ app'.down \subseteq a.down
<1> DEFINE requests == EditRequests(profile.protocol, k, router.functional, e, held_user_kc(k))
           acked == frame.acked \/ Commit \in Range(requests)
<1>1. /\ SendFrom(a, requests, rest)
      /\ relay' = AfterEdit(profile.protocol, k, router.functional, e)
      /\ frame' = [frame EXCEPT !.acked = acked]
  BY DEF ApplyPending
<1>2. Tidy(requests) /\ relay' \in KeyStates /\ relay'.held = k.held
  BY <1>1, EditFacts
<1> HIDE DEF requests
<1>3. /\ app' \in App /\ socket' \in Seq(Events) /\ Leaves(rest)
      /\ "trailing_repeat" \in app'.faults <=> "trailing_repeat" \in a.faults
      /\ app'.owed => a.owed
      /\ app'.down \subseteq a.down
  BY <1>1, <1>2, ForwardFacts DEF Tidy
<1>4. acked \in BOOLEAN /\ frame \in Frame
  BY TypesFacts DEF Frame
<1> HIDE DEF acked
<1>5. frame' \in Frame /\ SameFrame
  BY <1>1, <1>4 DEF Frame, SameFrame
<1> QED BY <1>2, <1>3, <1>5

(* Nothing but what is named changes.                                      *)
LEMMA SameFields ==
  /\ UNCHANGED frame => SameFrame
  /\ UNCHANGED router => SameSession
BY DEF SameFrame, SameSession

(* A press brings down at most its own key, and only where requests reach  *)
(* the application.                                                        *)
LEMMA PressKeyFacts ==
  ASSUME Types, socket # <<>>, NEW key \in KeyCodes, NEW k \in KeyStates, PressKey(key, k)
  PROVE  /\ KeyDigest(app, {k.held, key}, Tail(socket))
         /\ \A other \in app'.down : other \in app.down \/ (Reaches /\ other = key)
<1>1. PICK d \in on_key_pressed(key) :
        /\ \/ /\ d.kind = "consumed"
              /\ SendFrom(app, <<UnstampedKey(key, 1)>>, Tail(socket))
              /\ relay' = k
              /\ UNCHANGED frame
           \/ /\ d.kind = "raw"
              /\ SendFrom(app, <<Key(key, 1)>>, Tail(socket))
              /\ relay' = StampPress(k, key)
              /\ UNCHANGED frame
           \/ d.kind = "apply" /\ ApplyPending(arm(k, key), d.edit, app, Tail(socket))
        /\ router' = NoteRaw(key, d)
  BY DEF PressKey
<1>2. Tail(socket) \in Seq(Events) /\ app \in App /\ frame \in Frame
  BY TypesFacts
<1>3. /\ d.kind = "apply" => d.edit \in EditSpecs
      /\ router' \in Router /\ SameSession
  BY <1>1, DecisionFacts DEF SameSession
<1> DEFINE Goal == /\ KeyDigest(app, {k.held, key}, Tail(socket))
                   /\ \A other \in app'.down : other \in app.down \/ (Reaches /\ other = key)
<1> SUFFICES Goal
  OBVIOUS
<1>4. ASSUME NEW r \in Requests, SendFrom(app, <<r>>, Tail(socket)), UNCHANGED frame,
             \A other : PressOf(r, other) => other = key,
             relay' \in KeyStates, relay'.held \in {k.held, key}
      PROVE  Goal
  <2> DEFINE requests == <<r>>
  <2>1. requests \in Seq(Requests) /\ DOMAIN requests = {1} /\ requests[1] = r
    OBVIOUS
  <2> HIDE DEF requests
  <2>2. SendFrom(app, requests, Tail(socket))
    BY <1>4 DEF requests
  <2>3. /\ app' \in App /\ socket' \in Seq(Events) /\ Leaves(Tail(socket))
        /\ "trailing_repeat" \in app'.faults <=> "trailing_repeat" \in app.faults
        /\ app'.owed => app.owed
        /\ \A other \in app'.down :
             other \in app.down \/ (Reaches /\ \E i \in DOMAIN requests : PressOf(requests[i], other))
    BY <1>2, <2>1, <2>2, ForwardFacts
  <2>4. \A other \in app'.down : other \in app.down \/ (Reaches /\ other = key)
    BY <1>4, <2>1, <2>3
  <2>5. KeyDigest(app, {k.held, key}, Tail(socket))
    BY <1>2, <1>3, <1>4, <2>3, SameFields DEF KeyDigest
  <2> QED BY <2>4, <2>5
<1>5. CASE d.kind = "consumed"
  <2>1. UnstampedKey(key, 1) \in Requests
    BY RequestsTyped
  <2>2. \A other : PressOf(UnstampedKey(key, 1), other) => other = key
    BY DEF PressOf, UnstampedKey, Key
  <2>3. SendFrom(app, <<UnstampedKey(key, 1)>>, Tail(socket)) /\ relay' = k /\ UNCHANGED frame
    BY <1>1, <1>5
  <2> HIDE DEF Goal
  <2> QED BY <1>4, <2>1, <2>2, <2>3
<1>6. CASE d.kind = "raw"
  <2>1. Key(key, 1) \in Requests
    BY RequestsTyped
  <2>2. \A other : PressOf(Key(key, 1), other) => other = key
    BY DEF PressOf, Key
  <2>3. SendFrom(app, <<Key(key, 1)>>, Tail(socket)) /\ relay' = StampPress(k, key) /\ UNCHANGED frame
    BY <1>1, <1>6
  <2>4. relay' \in KeyStates /\ relay'.held = k.held
    BY <2>3, StampsTyped
  <2> HIDE DEF Goal
  <2> QED BY <1>4, <2>1, <2>2, <2>3, <2>4
<1>7. CASE d.kind = "apply"
  <2>1. ApplyPending(arm(k, key), d.edit, app, Tail(socket)) /\ d.edit \in EditSpecs
    BY <1>1, <1>3, <1>7
  <2>2. arm(k, key) \in KeyStates /\ arm(k, key).held \in {k.held, key}
    BY TimerTyped
  <2>3. /\ app' \in App /\ relay' \in KeyStates /\ frame' \in Frame /\ socket' \in Seq(Events)
        /\ "trailing_repeat" \in app'.faults <=> "trailing_repeat" \in app.faults
        /\ app'.owed => app.owed
        /\ relay'.held = arm(k, key).held /\ SameFrame /\ Leaves(Tail(socket))
        /\ app'.down \subseteq app.down
    BY <1>2, <2>1, <2>2, ApplyPendingFacts
  <2> QED BY <1>3, <2>2, <2>3 DEF KeyDigest
<1> QED BY <1>1, <1>5, <1>6, <1>7

(* A repeat, of the timer or of the compositor, brings no key down.        *)
LEMMA RepeatKeyFacts ==
  ASSUME Types, NEW key \in KeyCodes, NEW pulse, NEW a \in App, NEW rest \in Seq(Events),
         RepeatKey(key, pulse, a, rest)
  PROVE  /\ KeyDigest(a, {relay.held}, rest)
         /\ app'.down \subseteq a.down
<1>1. PICK d \in on_key_pressed(key) :
        /\ \/ /\ d.kind = "consumed"
              /\ SendFrom(a, <<UnstampedKey(key, 2)>>, rest)
              /\ UNCHANGED <<relay, frame>>
           \/ /\ d.kind = "raw"
              /\ SendFrom(a, IF pulse THEN <<Key(key, 1), Key(key, 0)>> ELSE <<Key(key, 2)>>, rest)
              /\ UNCHANGED <<relay, frame>>
           \/ d.kind = "apply" /\ ApplyPending(relay, d.edit, a, rest)
        /\ router' = NoteRaw(key, d)
  BY DEF RepeatKey
<1>2. frame \in Frame /\ relay \in KeyStates
  BY TypesFacts
<1>3. /\ d.kind \in {"raw", "consumed", "apply"}
      /\ d.kind = "apply" => d.edit \in EditSpecs
      /\ router' \in Router /\ SameSession
  BY <1>1, DecisionFacts DEF SameSession
<1> DEFINE Goal == KeyDigest(a, {relay.held}, rest) /\ app'.down \subseteq a.down
<1> SUFFICES Goal
  OBVIOUS
<1>4. ASSUME NEW requests, Tidy(requests), SendFrom(a, requests, rest), UNCHANGED <<relay, frame>>
      PROVE  Goal
  <2>1. /\ app' \in App /\ socket' \in Seq(Events) /\ Leaves(rest)
        /\ "trailing_repeat" \in app'.faults <=> "trailing_repeat" \in a.faults
        /\ app'.owed => a.owed
        /\ app'.down \subseteq a.down
    BY <1>4, ForwardFacts DEF Tidy
  <2> QED BY <1>2, <1>3, <1>4, <2>1, SameFields DEF KeyDigest
<1>5. Tidy(<<UnstampedKey(key, 2)>>) /\ Tidy(<<Key(key, 2)>>)
  <2>1. UnstampedKey(key, 2) \in Requests /\ Key(key, 2) \in Requests
    BY RequestsTyped
  <2>2. /\ \A other : ~PressOf(UnstampedKey(key, 2), other)
        /\ \A other : ~PressOf(Key(key, 2), other)
    BY DEF PressOf, UnstampedKey, Key
  <2> QED BY <2>1, <2>2, BalancedBlocks DEF Tidy
<1>6. Tidy(<<Key(key, 1), Key(key, 0)>>)
  <2> DEFINE s == <<Key(key, 1), Key(key, 0)>>
  <2>1. Key(key, 1) \in Requests /\ Key(key, 0) \in Requests
    BY RequestsTyped
  <2>2. s \in Seq(Requests)
    BY <2>1
  <2>3. DOMAIN s = {1, 2} /\ s[1] = Key(key, 1) /\ s[2] = Key(key, 0)
    OBVIOUS
  <2>4. /\ \A other : PressOf(Key(key, 1), other) => other = key
        /\ \A other : ~PressOf(Key(key, 0), other)
        /\ ReleaseOf(Key(key, 0), key)
    BY DEF PressOf, ReleaseOf, Key
  <2> HIDE DEF s
  <2>5. Balanced(s)
    BY <2>3, <2>4 DEF Balanced
  <2> QED BY <2>2, <2>5 DEF Tidy, s
<1>7. CASE d.kind = "consumed"
  <2>1. SendFrom(a, <<UnstampedKey(key, 2)>>, rest) /\ UNCHANGED <<relay, frame>>
    BY <1>1, <1>7
  <2> HIDE DEF Goal
  <2> QED BY <1>4, <1>5, <2>1
<1>8. CASE d.kind = "raw"
  <2> DEFINE requests == IF pulse THEN <<Key(key, 1), Key(key, 0)>> ELSE <<Key(key, 2)>>
  <2>1. SendFrom(a, requests, rest) /\ UNCHANGED <<relay, frame>>
    BY <1>1, <1>8
  <2>2. Tidy(requests)
    BY <1>5, <1>6
  <2> HIDE DEF Goal, requests
  <2> QED BY <1>4, <2>1, <2>2
<1>9. CASE d.kind = "apply"
  <2>1. ApplyPending(relay, d.edit, a, rest) /\ d.edit \in EditSpecs
    BY <1>1, <1>3, <1>9
  <2>2. /\ app' \in App /\ relay' \in KeyStates /\ frame' \in Frame /\ socket' \in Seq(Events)
        /\ "trailing_repeat" \in app'.faults <=> "trailing_repeat" \in a.faults
        /\ app'.owed => a.owed
        /\ relay'.held = relay.held /\ SameFrame /\ Leaves(rest)
        /\ app'.down \subseteq a.down
    BY <1>2, <2>1, ApplyPendingFacts
  <2> QED BY <1>3, <2>2 DEF KeyDigest
<1> QED BY <1>3, <1>7, <1>8, <1>9

-----------------------------------------------------------------------------
(* A frame, digested.                                                      *)

(* How a frame opens or closes the session.                                *)
LEMMA OpenOrCloseFacts ==
  ASSUME Types, NEW f \in Frame
  PROVE  LET r == OpenOrClose(f)
         IN  /\ r \in Router
             /\ Opens(f) => /\ r.active /\ ~r.synthetic /\ r.app = focus.current
                            /\ r.session = f.activate /\ r.seen = 0
             /\ ~Opens(f) /\ f.deactivate /\ router.active =>
                  ~r.active /\ r.synthetic = router.synthetic /\ r.session = 0 /\ r.seen = 0
             /\ ~Opens(f) /\ ~(f.deactivate /\ router.active) => r = router
<1>1. router \in Router /\ focus.current \in Apps \cup {Nil}
  BY TypesFacts DEF Tracker
<1>2. ASSUME NEW r \in Router
      PROVE  /\ Closed(r) \in Router /\ ~Closed(r).active /\ Closed(r).synthetic = r.synthetic
             /\ Closed(r).session = 0 /\ Closed(r).seen = 0
  BY DEF Closed, Router
<1> DEFINE idle == [Closed(router) EXCEPT !.synthetic = FALSE]
           before == IF f.activate # 0 /\ router.synthetic THEN idle ELSE router
           open == [Closed(before) EXCEPT !.active = TRUE, !.app = focus.current, !.session = f.activate]
<1>3. idle \in Router /\ ~idle.synthetic
  BY <1>1, <1>2 DEF Router
<1> HIDE DEF idle
<1>4. before \in Router
  BY <1>1, <1>3
<1>5. CASE Opens(f)
  <2>1. ~before.synthetic
    <3>1. router.synthetic => f.activate # 0 /\ before = idle
      BY <1>5 DEF Opens
    <3>2. ~router.synthetic => before = router
      OBVIOUS
    <3> QED BY <1>3, <3>1, <3>2
  <2> HIDE DEF before
  <2>2. Closed(before) \in Router /\ ~Closed(before).synthetic /\ Closed(before).seen = 0
    BY <1>2, <1>4, <2>1
  <2>3. f.activate \in Nat
    BY DEF Frame
  <2>4. /\ open \in Router /\ open.active /\ ~open.synthetic /\ open.app = focus.current
        /\ open.session = f.activate /\ open.seen = 0
    BY <1>1, <2>2, <2>3 DEF Router
  <2>5. OpenOrClose(f) = open
    BY <1>5 DEF OpenOrClose, open, before, idle
  <2> HIDE DEF open
  <2> QED BY <1>5, <2>4, <2>5
<1>6. CASE ~Opens(f)
  <2>1. before = router
    BY <1>6 DEF Opens
  <2>2. OpenOrClose(f) = IF f.deactivate /\ router.active THEN Closed(router) ELSE router
    BY <1>6, <2>1 DEF OpenOrClose, before, idle
  <2> QED BY <1>1, <1>2, <1>6, <2>2
<1> QED BY <1>5, <1>6

(* What the handler of a frame f leaves of the session: its text, and      *)
(* whether commit_string works, aside.                                     *)
Frames(f) ==
  LET r == OpenOrClose(f)
  IN  /\ router' \in Router
      /\ \A field \in {"active", "synthetic", "app", "session"} : router'[field] = r[field]
      /\ router'.seen = IF r.active /\ f.text # 0 THEN f.text ELSE r.seen

(* What is noted of the text that a frame brings is of no other field.     *)
LEMMA NoteTextFacts ==
  ASSUME Types, NEW f \in Frame, NEW dead \in BOOLEAN, router' = NoteText(OpenOrClose(f), f, dead)
  PROVE  Frames(f)
<1> DEFINE r == OpenOrClose(f)
           functional == r.functional /\ ~dead
<1>1. r \in Router
  BY OpenOrCloseFacts
<1>2. functional \in BOOLEAN /\ f.text \in Nat
  BY <1>1 DEF Router, Frame
<1>3. router' = IF r.active /\ f.text # 0 THEN [r EXCEPT !.seen = f.text, !.functional = functional]
                ELSE r
  BY DEF NoteText
<1> HIDE DEF r, functional
<1>4. router' \in Router
      /\ \A field \in {"active", "synthetic", "app", "session"} : router'[field] = r[field]
  BY <1>1, <1>2, <1>3 DEF Router
<1>5. router'.seen = IF r.active /\ f.text # 0 THEN f.text ELSE r.seen
  BY <1>1, <1>3 DEF Router
<1> QED BY <1>4, <1>5 DEF Frames, r

(* The frame starts afresh.                                                *)
LEMMA ResetFacts ==
  ASSUME NEW f \in Frame, NEW acked \in BOOLEAN
  PROVE  LET g == [reset(f) EXCEPT !.acked = acked]
         IN  /\ g \in Frame /\ g.activate = 0 /\ ~g.deactivate /\ g.text = 0
             /\ g.commit = f.commit /\ g.ctx = f.ctx
<1>1. reset(f) \in Frame /\ reset(f).activate = 0 /\ ~reset(f).deactivate /\ reset(f).text = 0
      /\ reset(f).commit = f.commit /\ reset(f).ctx = f.ctx
  BY DEF reset, Frame
<1> HIDE DEF reset
<1> QED BY <1>1 DEF Frame

DoneDigest(f, rest) ==
  /\ app' \in App /\ relay' \in KeyStates /\ frame' \in Frame /\ socket' \in Seq(Events)
  /\ "trailing_repeat" \in app'.faults <=> "trailing_repeat" \in app.faults
  /\ ~app'.owed /\ app'.down \subseteq app.down
  /\ relay'.held = relay.held
  /\ frame'.activate = 0 /\ ~frame'.deactivate /\ frame'.text = 0
  /\ frame'.commit = f.commit /\ frame'.ctx = f.ctx
  /\ Frames(f) /\ Leaves(rest)

(* A frame is applied, whatever edit or repair it causes.                  *)
LEMMA DoneFrameFacts ==
  ASSUME Types, NEW f \in Frame, NEW rest \in Seq(Events), apply_done_frame(f, rest)
  PROVE  DoneDigest(f, rest)
<1> DEFINE r == OpenOrClose(f)
           After(dead) == NoteText(r, f, dead /\ ~Opens(f))
           Edit(dead, repair) ==
             IF repair = None THEN <<>>
             ELSE EditRequests(profile.protocol, relay, After(dead).functional, repair, None)
           Acked(dead, repair) == Commit \in Range(Edit(dead, repair))
           Heartbeat(dead, repair) == IF IsV2 /\ ~Acked(dead, repair) THEN <<Commit>> ELSE <<>>
           Before(repair) == [app EXCEPT !.owed = IsV2,
                                         !.covered = IF repair = None THEN @ ELSE app.down]
<1>1. PICK dead \in BOOLEAN, repair \in Repairs(r, f) :
        /\ SendFrom(Before(repair), Edit(dead, repair) \o Heartbeat(dead, repair), rest)
        /\ router' = After(dead)
        /\ relay' = IF repair = None THEN relay
                    ELSE AfterEdit(profile.protocol, relay, After(dead).functional, repair)
        /\ frame' = [reset(f) EXCEPT !.acked = Acked(dead, repair)]
  BY DEF apply_done_frame
<1> DEFINE edit == Edit(dead, repair)
           acked == Acked(dead, repair)
           heartbeat == Heartbeat(dead, repair)
           before == Before(repair)
           after == After(dead)
<1>2. repair # None => repair \in EditSpecs
  BY <1>1, EditsTyped DEF Repairs
<1>3. relay \in KeyStates /\ app \in App
  BY TypesFacts
<1>4. Tidy(edit) /\ relay' \in KeyStates /\ relay'.held = relay.held
  <2>1. CASE repair = None
    <3>1. edit = <<>> /\ relay' = relay
      BY <1>1, <2>1
    <3> QED BY <1>3, <3>1, BalancedBlocks DEF Tidy
  <2>2. CASE repair # None
    <3>1. edit = EditRequests(profile.protocol, relay, after.functional, repair, None)
          /\ relay' = AfterEdit(profile.protocol, relay, after.functional, repair)
      BY <1>1, <2>2
    <3> HIDE DEF after, edit
    <3> QED BY <1>2, <1>3, <2>2, <3>1, EditFacts
  <2> QED BY <2>1, <2>2
<1>5. before \in App /\ before.down = app.down /\ before.faults = app.faults /\ before.owed = IsV2
  <2> DEFINE covered == IF repair = None THEN app.covered ELSE app.down
  <2>1. before = [app EXCEPT !.owed = IsV2, !.covered = covered]
    OBVIOUS
  <2>2. covered \in SUBSET KeyCodes /\ IsV2 \in BOOLEAN
    BY <1>3 DEF App, IsV2
  <2> HIDE DEF covered, before
  <2> QED BY <1>3, <2>1, <2>2 DEF App
<1>6. acked \in BOOLEAN /\ (acked <=> \E i \in DOMAIN edit : edit[i] = Commit)
  BY DEF Range
<1>7. heartbeat = IF IsV2 /\ ~acked THEN <<Commit>> ELSE <<>>
  OBVIOUS
<1>8. /\ SendFrom(before, edit \o heartbeat, rest) /\ router' = after
      /\ frame' = [reset(f) EXCEPT !.acked = acked]
  BY <1>1
<1>9. Frames(f)
  BY <1>8, NoteTextFacts
<1> HIDE DEF edit, acked, heartbeat, before, after
<1>10. Tidy(heartbeat)
  BY <1>7, QuietRequest, BalancedBlocks DEF Tidy
<1> DEFINE requests == edit \o heartbeat
<1>11. Tidy(requests)
  BY <1>4, <1>10, TidyConcat
<1>12. IsV2 => \E i \in DOMAIN requests : requests[i].op = "commit"
  <2>1. edit \in Seq(Requests) /\ heartbeat \in Seq(Requests)
    BY <1>4, <1>10 DEF Tidy
  <2>2. PICK m \in Nat : m = Len(edit)
    BY <2>1
  <2>3. DOMAIN edit = 1 .. m
    BY <2>1, <2>2
  <2>4. Commit.op = "commit"
    BY DEF Commit
  <2>5. CASE acked
    <3>1. PICK i \in DOMAIN edit : edit[i] = Commit
      BY <1>6, <2>5
    <3>2. i \in DOMAIN requests /\ requests[i] = edit[i]
      BY <2>1, <2>2, <2>3
    <3> QED BY <2>4, <3>1, <3>2
  <2>6. CASE IsV2 /\ ~acked
    <3>1. heartbeat = <<Commit>>
      BY <1>7, <2>6
    <3>2. 1 \in DOMAIN heartbeat /\ heartbeat[1] = Commit
      BY <3>1
    <3>3. m + 1 \in DOMAIN requests /\ requests[m + 1] = Commit
      BY <2>1, <2>2, <3>2, ConcatFacts
    <3> QED BY <2>4, <3>3
  <2> QED BY <2>5, <2>6
<1> HIDE DEF requests
<1>13. SendFrom(before, requests, rest)
  BY <1>8 DEF requests
<1>14. /\ app' \in App /\ socket' \in Seq(Events) /\ Leaves(rest)
       /\ "trailing_repeat" \in app'.faults <=> "trailing_repeat" \in before.faults
       /\ app'.owed => before.owed
       /\ app'.down \subseteq before.down
  BY <1>5, <1>11, <1>13, ForwardFacts DEF Tidy
<1>15. ~app'.owed
  <2>1. CASE IsV2
    <3>1. app' = TakeAll(before, requests)
      <4>1. app' = IF Reaches THEN TakeAll(before, requests) ELSE before
        BY <1>13 DEF SendFrom
      <4> QED BY <2>1, <4>1 DEF Reaches
    <3>2. TakeAll(before, requests).owed => \A i \in DOMAIN requests : requests[i].op # "commit"
      BY <1>5, <1>11, TakeAllFacts DEF Tidy
    <3> QED BY <1>12, <2>1, <3>1, <3>2
  <2>2. CASE ~IsV2
    BY <1>5, <1>14, <2>2
  <2> QED BY <2>1, <2>2
<1>16. /\ frame' \in Frame /\ frame'.activate = 0 /\ ~frame'.deactivate /\ frame'.text = 0
       /\ frame'.commit = f.commit /\ frame'.ctx = f.ctx
  BY <1>6, <1>8, ResetFacts
<1> QED BY <1>4, <1>5, <1>9, <1>14, <1>15, <1>16 DEF DoneDigest

-----------------------------------------------------------------------------
(* Types: the keyboard.                                                    *)

(* Types of the next state, from its parts.                                *)
LEMMA TypesStep ==
  ASSUME profile' \in Profiles, user' \subseteq UserKeys, desk' \in Desk, relay' \in KeyStates,
         frame' \in Frame, router' \in Router, focus' \in Tracker, app' \in App,
         running' \in {"yes", "exiting", "no"}, budget' \in [BudgetKinds -> Nat],
         socket' \in Seq(Events)
  PROVE  Types'
BY DEF Types, TypeOK, KeyStates

(* The event at the head of the socket.                                    *)
LEMMA ArrivesFacts ==
  ASSUME Types, NEW type, Arrives(type)
  PROVE  /\ socket # <<>> /\ running # "no"
         /\ Head(socket) \in Events /\ Head(socket).type = type /\ Head(socket) = socket[1]
         /\ Tail(socket) \in Seq(Events)
BY TypesFacts, TailFacts DEF Arrives

(* A key event names a key of the user.                                    *)
LEMMA KeyEventTyped ==
  ASSUME NEW event \in Events, event.type = "key"
  PROVE  event.key \in UserKeys /\ event.key \in KeyCodes /\ event.value \in {0, 1, 2}
BY DEF Events, ModsEvents, KeyCodes

(* Leaving the socket's tail as it is.                                     *)
LEMMA LeavesTail ==
  ASSUME NEW rest \in Seq(Events), socket' = rest PROVE Leaves(rest)
<1>1. rest = rest \o <<>> /\ <<>> \in Seq(ModsEvents)
  OBVIOUS
<1> QED BY <1>1 DEF Leaves

(* A press is dispatched: the timer may take its key.                      *)
LEMMA PressDigest ==
  ASSUME Types, dispatch_key_press
  PROVE  LET key == Head(socket).key
         IN  /\ key \in UserKeys /\ Arrives("key") /\ Head(socket).value = 1
             /\ KeyDigest(app, {None, key}, Tail(socket))
             /\ \A other \in app'.down : other \in app.down \/ (Reaches /\ other = key)
             /\ UNCHANGED <<outside, focus>>
<1>1. Arrives("key") /\ Head(socket).value = 1 /\ PressKey(Head(socket).key, cancel(relay))
      /\ UNCHANGED <<outside, focus>>
  BY DEF dispatch_key_press
<1>2. socket # <<>> /\ Head(socket) \in Events /\ Head(socket).type = "key"
  BY <1>1, ArrivesFacts
<1>3. Head(socket).key \in UserKeys /\ Head(socket).key \in KeyCodes
  BY <1>2, KeyEventTyped
<1>4. cancel(relay) \in KeyStates /\ cancel(relay).held = None
  BY <1>3, TypesFacts, TimerTyped
<1>5. /\ KeyDigest(app, {None, Head(socket).key}, Tail(socket))
      /\ \A other \in app'.down : other \in app.down \/ (Reaches /\ other = Head(socket).key)
  BY <1>1, <1>2, <1>3, <1>4, PressKeyFacts
<1> QED BY <1>1, <1>3, <1>5

(* A release is dispatched: it takes its own key from the timer and, where *)
(* it reaches it, from the application.                                    *)
LEMMA ReleaseDigest ==
  ASSUME Types, dispatch_key_release
  PROVE  LET key == Head(socket).key
         IN  /\ key \in UserKeys /\ Arrives("key") /\ Head(socket).value = 0
             /\ KeyDigest(app, {relay.held, None} \ {key}, Tail(socket))
             /\ app'.down \subseteq app.down
             /\ Reaches => key \notin app'.down
             /\ UNCHANGED <<outside, focus>>
<1> DEFINE key == Head(socket).key
           requests == <<Key(key, 0)>>
<1>1. /\ Arrives("key") /\ Head(socket).value = 0
      /\ SendFrom(app, requests, Tail(socket))
      /\ relay' = StampRelease(release(relay, key), key)
      /\ UNCHANGED <<outside, frame, router, focus>>
  BY DEF dispatch_key_release
<1>2. socket # <<>> /\ Head(socket) \in Events /\ Head(socket).type = "key"
      /\ Tail(socket) \in Seq(Events)
  BY <1>1, ArrivesFacts
<1>3. key \in UserKeys /\ key \in KeyCodes
  BY <1>2, KeyEventTyped
<1> HIDE DEF key
<1>4. relay' \in KeyStates /\ relay'.held \in {relay.held, None} \ {key}
  <2>1. release(relay, key) \in KeyStates
        /\ release(relay, key).held \in {relay.held, None} \ {key}
    BY <1>3, TypesFacts, TimerTyped
  <2> QED BY <1>1, <1>3, <2>1, StampsTyped
<1>5. Key(key, 0) \in Requests
  BY <1>3, RequestsTyped
<1>6. (\A other : ~PressOf(Key(key, 0), other)) /\ ReleaseOf(Key(key, 0), key)
  BY DEF PressOf, ReleaseOf, Key
<1>7. /\ requests \in Seq(Requests) /\ DOMAIN requests = {1} /\ requests[1] = Key(key, 0)
      /\ Balanced(requests)
  BY <1>5, <1>6, BalancedBlocks
<1> HIDE DEF requests
<1>8. /\ app' \in App /\ socket' \in Seq(Events) /\ Leaves(Tail(socket))
      /\ "trailing_repeat" \in app'.faults <=> "trailing_repeat" \in app.faults
      /\ app'.owed => app.owed
      /\ app'.down \subseteq app.down
  BY <1>1, <1>2, <1>7, TypesFacts, ForwardFacts
<1>9. ASSUME Reaches PROVE key \notin app'.down
  <2>1. app' = TakeAll(app, requests)
    BY <1>1, <1>9 DEF SendFrom
  <2>2. app \in App
    BY TypesFacts
  <2>3. \A other \in TakeAll(app, requests).down :
          \/ \A j \in DOMAIN requests : ~ReleaseOf(requests[j], other)
          \/ \E i \in DOMAIN requests : PressOf(requests[i], other)
    BY <1>7, <2>2, TakeAllFacts
  <2> QED BY <1>6, <1>7, <2>1, <2>3
<1>10. KeyDigest(app, {relay.held, None} \ {key}, Tail(socket))
  BY <1>1, <1>4, <1>8, TypesFacts, SameFields DEF KeyDigest
<1> QED BY <1>1, <1>3, <1>8, <1>9, <1>10 DEF key

(* A repeat of the compositor is dispatched.                               *)
LEMMA RepeatDigest ==
  ASSUME Types, dispatch_key_repeat
  PROVE  /\ Arrives("key") /\ Head(socket).value = 2
         /\ KeyDigest(app, {relay.held}, Tail(socket)) /\ app'.down \subseteq app.down
         /\ UNCHANGED <<outside, focus>>
<1>1. /\ Arrives("key") /\ Head(socket).value = 2
      /\ RepeatKey(Head(socket).key, FALSE, app, Tail(socket))
      /\ UNCHANGED <<outside, focus>>
  BY DEF dispatch_key_repeat
<1>2. Head(socket) \in Events /\ Head(socket).type = "key" /\ Tail(socket) \in Seq(Events)
  BY <1>1, ArrivesFacts
<1>3. Head(socket).key \in KeyCodes
  BY <1>2, KeyEventTyped
<1> QED BY <1>1, <1>2, <1>3, TypesFacts, RepeatKeyFacts

(* A change of the modifiers is dispatched.                                *)
LEMMA ModifiersDigest ==
  ASSUME Types, handle_modifiers
  PROVE  /\ Arrives("mods")
         /\ KeyDigest(app, {relay.held}, Tail(socket)) /\ app'.down \subseteq app.down
         /\ UNCHANGED <<outside, focus>>
<1> DEFINE mask == Head(socket).mask
           k == ForceReset(relay)
           swallowed == ~relay.late /\ k.expected # <<>> /\ mask = Head(k.expected)
           a == IF Head(socket).by = "echo" THEN app ELSE [app EXCEPT !.swallowed = swallowed]
           requests == <<Modifiers(mask)>>
<1>1. /\ Arrives("mods")
      /\ IF IsEcho(k, mask)
         THEN relay' = PopEcho(k) /\ socket' = Tail(socket) /\ app' = a
         ELSE relay' = [k EXCEPT !.raw_mods = mask] /\ SendFrom(a, requests, Tail(socket))
      /\ UNCHANGED <<outside, frame, router, focus>>
  BY DEF handle_modifiers
<1>2. Head(socket) \in Events /\ Head(socket).type = "mods" /\ Tail(socket) \in Seq(Events)
  BY <1>1, ArrivesFacts
<1>3. mask \in Masks
  BY <1>2 DEF Events, ModsEvents
<1>4. k \in KeyStates /\ k.held = relay.held
  BY TypesFacts, StampsTyped
<1>5. swallowed \in BOOLEAN
  OBVIOUS
<1> HIDE DEF mask, k, swallowed
<1>6. a \in App /\ a.down = app.down /\ a.faults = app.faults /\ a.owed = app.owed
  BY <1>5, TypesFacts DEF App
<1>7. requests \in Seq(Requests) /\ Balanced(requests)
  BY <1>3, QuietRequest
<1> HIDE DEF a, requests
<1>8. CASE IsEcho(k, mask)
  <2>1. relay' = PopEcho(k) /\ socket' = Tail(socket) /\ app' = a
    BY <1>1, <1>8
  <2>2. relay' \in KeyStates /\ relay'.held = relay.held
    BY <1>4, <1>8, <2>1, StampsTyped DEF IsEcho
  <2> QED BY <1>1, <1>2, <1>6, <2>1, <2>2, TypesFacts, SameFields, LeavesTail DEF KeyDigest
<1>9. CASE ~IsEcho(k, mask)
  <2>1. relay' = [k EXCEPT !.raw_mods = mask] /\ SendFrom(a, requests, Tail(socket))
    BY <1>1, <1>9
  <2>2. relay' \in KeyStates /\ relay'.held = relay.held
    BY <1>3, <1>4, <2>1, StampsTyped
  <2>3. /\ app' \in App /\ socket' \in Seq(Events) /\ Leaves(Tail(socket))
        /\ "trailing_repeat" \in app'.faults <=> "trailing_repeat" \in a.faults
        /\ app'.owed => a.owed
        /\ app'.down \subseteq a.down
    BY <1>2, <1>6, <1>7, <2>1, ForwardFacts
  <2> QED BY <1>1, <1>6, <2>2, <2>3, TypesFacts, SameFields DEF KeyDigest
<1> QED BY <1>8, <1>9

(* A change of the rate is dispatched: the timer may be disarmed.          *)
LEMMA RepeatInfoDigest ==
  ASSUME Types, RepeatInfo
  PROVE  /\ Arrives("repeat_info")
         /\ KeyDigest(app, {relay.held, None}, Tail(socket)) /\ app' = app
         /\ UNCHANGED <<outside, focus>>
<1>1. /\ Arrives("repeat_info") /\ relay' = set_info(relay, Head(socket).positive)
      /\ socket' = Tail(socket) /\ UNCHANGED <<outside, frame, router, focus, app>>
  BY DEF RepeatInfo
<1>2. Head(socket) \in Events /\ Head(socket).type = "repeat_info" /\ Tail(socket) \in Seq(Events)
  BY <1>1, ArrivesFacts
<1>3. Head(socket).positive \in BOOLEAN
  BY <1>2 DEF Events, ModsEvents
<1>4. Backspace \in KeyCodes
  BY DEF KeyCodes, UserKeys
<1>5. relay' \in KeyStates /\ relay'.held \in {relay.held, None}
  BY <1>1, <1>3, <1>4, TypesFacts, TimerTyped
<1> QED BY <1>1, <1>2, <1>5, TypesFacts, SameFields, LeavesTail DEF KeyDigest

(* The keyboard's dispatch.                                                *)
LEMMA KeyboardTyped == ASSUME Types, Keyboard PROVE Types'
<1>1. ASSUME NEW held, KeyDigest(app, held, Tail(socket)), UNCHANGED <<outside, focus>>
      PROVE  Types'
  BY <1>1, TypesFacts, TypesStep DEF KeyDigest, outside
<1> QED
  BY <1>1, PressDigest, ReleaseDigest, RepeatDigest, ModifiersDigest, RepeatInfoDigest
  DEF Keyboard

-----------------------------------------------------------------------------
(* Types: the input method.                                                *)

(* Filling the frame.                                                      *)
LEMMA ApplyEventFacts ==
  ASSUME NEW f \in Frame, NEW event \in Events,
         event.type \in {"activate", "deactivate", "surrounding_text", "content_type", "cause"}
  PROVE  LET g == apply_event(f, event)
         IN  /\ g \in Frame /\ g.ctx = f.ctx
             /\ event.type = "activate" =>
                  event.epoch \in Nat /\ g.activate = event.epoch /\ g.deactivate = f.deactivate
                  /\ g.text = f.text
             /\ event.type = "deactivate" =>
                  g.activate = f.activate /\ g.deactivate /\ g.text = f.text
             /\ event.type = "surrounding_text" =>
                  event.epoch \in Nat /\ g.activate = f.activate /\ g.deactivate = f.deactivate
                  /\ g.text = event.epoch
             /\ event.type \in {"content_type", "cause"} =>
                  g.activate = f.activate /\ g.deactivate = f.deactivate /\ g.text = f.text
<1>1. event.type \in {"activate", "surrounding_text"} => event.epoch \in Nat
  BY DEF Events, ModsEvents
<1>2. CASE event.type = "activate"
  BY <1>1, <1>2 DEF apply_event, Frame
<1>3. CASE event.type = "deactivate"
  BY <1>3 DEF apply_event, Frame
<1>4. CASE event.type = "surrounding_text"
  BY <1>1, <1>4 DEF apply_event, Frame
<1>5. CASE event.type = "content_type"
  BY <1>5 DEF apply_event, Frame
<1>6. CASE event.type = "cause"
  BY <1>6 DEF apply_event, Frame
<1> QED BY <1>2, <1>3, <1>4, <1>5, <1>6

(* Filling the frame does not touch the keys or the session.               *)
FillDigest ==
  LET event == Head(socket)
      v1activate == event.type = "activate" /\ ~IsV2
      current == event.type = "activate" /\ desk.active /\ event.epoch = desk.epoch
  IN  /\ event.type \in {"activate", "surrounding_text", "content_type", "cause"}
      /\ socket # <<>> /\ running # "no" /\ event \in Events
      /\ frame' \in Frame /\ desk' \in Desk /\ socket' \in Seq(Events)
      /\ frame'.ctx = IF v1activate THEN event.epoch ELSE frame.ctx
      /\ \A field \in {"activate", "deactivate", "text"} :
           frame'[field] = apply_event(frame, event)[field]
      /\ desk' = [desk EXCEPT !.grabbed = @ \/ (v1activate /\ current)]
      /\ Leaves(Tail(socket))
      /\ UNCHANGED <<profile, user, relay, router, focus, app, running, budget>>

(* An event of the frame is dispatched.                                    *)
LEMMA FillFacts == ASSUME Types, FillFrame PROVE FillDigest
<1> DEFINE event == Head(socket)
           v1activate == event.type = "activate" /\ ~IsV2
           current == event.type = "activate" /\ desk.active /\ event.epoch = desk.epoch
           mods == ModsEvent(UserMods, "user")
           ctx == IF v1activate THEN event.epoch ELSE apply_event(frame, event).ctx
           grabbed == desk.grabbed \/ (v1activate /\ current)
<1>1. PICK type \in {"activate", "surrounding_text", "content_type", "cause"} : Arrives(type)
  BY DEF FillFrame
<1>2. /\ frame' = [apply_event(frame, event) EXCEPT !.ctx = ctx]
      /\ desk' = [desk EXCEPT !.grabbed = grabbed]
      /\ socket' = Tail(socket) \o IF v1activate /\ current THEN <<mods>> ELSE <<>>
      /\ UNCHANGED <<profile, user, relay, router, focus, app, running, budget>>
  BY DEF FillFrame
<1>3. /\ socket # <<>> /\ running # "no" /\ event \in Events /\ event.type = type
      /\ Tail(socket) \in Seq(Events)
  BY <1>1, ArrivesFacts
<1>4. /\ apply_event(frame, event) \in Frame /\ apply_event(frame, event).ctx = frame.ctx
      /\ event.type = "activate" => event.epoch \in Nat
  BY <1>1, <1>3, TypesFacts, ApplyEventFacts
<1>5. ctx \in Nat /\ ctx = IF v1activate THEN event.epoch ELSE frame.ctx
  BY <1>4 DEF Frame
<1>6. mods \in ModsEvents
  BY TypesFacts DEF ModsEvent, ModsEvents, UserMods, Masks
<1>7. grabbed \in BOOLEAN /\ desk \in Desk
  BY TypesFacts DEF Desk
<1> HIDE DEF ctx, mods, grabbed
<1>8. frame' \in Frame /\ frame'.ctx = ctx
      /\ \A field \in {"activate", "deactivate", "text"} :
           frame'[field] = apply_event(frame, event)[field]
  <2> DEFINE g == apply_event(frame, event)
  <2>1. frame' = [g EXCEPT !.ctx = ctx] /\ g \in Frame
    BY <1>2, <1>4
  <2> HIDE DEF g
  <2>2. frame' \in Frame /\ frame'.ctx = ctx
        /\ \A field \in {"activate", "deactivate", "text"} : frame'[field] = g[field]
    BY <1>5, <2>1 DEF Frame
  <2> QED BY <2>2 DEF g
<1>9. desk' \in Desk
  BY <1>2, <1>7 DEF Desk
<1>10. Leaves(Tail(socket))
  <2>1. <<mods>> \in Seq(ModsEvents) /\ <<>> \in Seq(ModsEvents)
    BY <1>6
  <2> QED BY <1>2, <2>1 DEF Leaves
<1>11. socket' \in Seq(Events)
  <2>1. PICK echoes \in Seq(ModsEvents) : socket' = Tail(socket) \o echoes
    BY <1>10 DEF Leaves
  <2>2. ModsEvents \subseteq Events
    BY DEF Events
  <2>3. echoes \in Seq(Events)
    BY <2>2
  <2> QED BY <1>3, <2>1, <2>3, ConcatFacts
<1> QED BY <1>1, <1>2, <1>3, <1>5, <1>8, <1>9, <1>10, <1>11 DEF FillDigest, grabbed

(* The two deactivations.                                                  *)
LEMMA DeactivateFacts ==
  ASSUME Types, DeactivateV2 \/ DeactivateV1
  PROVE  /\ Arrives("deactivate") /\ socket' = Tail(socket) /\ socket' \in Seq(Events)
         /\ relay' \in KeyStates /\ relay'.held = None
         /\ frame' \in Frame /\ router' \in Router
         /\ UNCHANGED <<outside, focus, app>>
         /\ IsV2 => /\ UNCHANGED router /\ frame'.ctx = frame.ctx
                    /\ frame'.activate = frame.activate /\ frame'.deactivate
                    /\ frame'.text = frame.text
         /\ ~IsV2 => /\ frame'.ctx = 0 /\ frame'.activate = 0 /\ ~frame'.deactivate /\ frame'.text = 0
                     /\ \E f \in Frame : /\ f.activate = frame.activate /\ f.deactivate
                                         /\ f.text = frame.text /\ Frames(f)
<1>1. Arrives("deactivate") /\ relay' = cancel(relay) /\ socket' = Tail(socket)
      /\ UNCHANGED <<outside, focus, app>>
  BY DEF DeactivateV2, DeactivateV1, outside
<1>2. Head(socket) \in Events /\ Head(socket).type = "deactivate" /\ Tail(socket) \in Seq(Events)
  BY <1>1, ArrivesFacts
<1>3. Backspace \in KeyCodes
  BY DEF KeyCodes, UserKeys
<1>4. relay' \in KeyStates /\ relay'.held = None
  BY <1>1, <1>3, TypesFacts, TimerTyped
<1> DEFINE g == apply_event(frame, Head(socket))
<1>5. g \in Frame /\ g.ctx = frame.ctx /\ g.activate = frame.activate /\ g.deactivate
      /\ g.text = frame.text
  BY <1>2, TypesFacts, ApplyEventFacts
<1>6. CASE DeactivateV2
  <2>1. frame' = g /\ UNCHANGED router /\ IsV2
    BY <1>6 DEF DeactivateV2
  <2> QED BY <1>1, <1>2, <1>4, <1>5, <2>1, TypesFacts
<1>7. CASE DeactivateV1
  <2> DEFINE f == [g EXCEPT !.ctx = 0]
  <2>1. /\ frame' = [reset(f) EXCEPT !.acked = FALSE]
        /\ router' = NoteText(OpenOrClose(f), f, FALSE) /\ ~IsV2
    BY <1>7 DEF DeactivateV1
  <2> HIDE DEF g
  <2>2. f \in Frame /\ f.ctx = 0 /\ f.activate = frame.activate /\ f.deactivate /\ f.text = frame.text
    BY <1>5 DEF Frame
  <2> HIDE DEF f
  <2>3. /\ frame' \in Frame /\ frame'.activate = 0 /\ ~frame'.deactivate /\ frame'.text = 0
        /\ frame'.ctx = 0
    BY <2>1, <2>2, ResetFacts
  <2>4. Frames(f)
    BY <2>1, <2>2, NoteTextFacts
  <2>5. router' \in Router
    BY <2>4 DEF Frames
  <2> QED BY <1>1, <1>2, <1>4, <2>1, <2>2, <2>3, <2>4, <2>5
<1> QED BY <1>6, <1>7

(* The frame that done, commit_state and the end of a read apply.          *)
LEMMA CommittedTyped ==
  ASSUME Types
  PROVE  LET f == [frame EXCEPT !.commit = FALSE]
         IN  /\ f \in Frame /\ f.activate = frame.activate /\ f.deactivate = frame.deactivate
             /\ f.text = frame.text /\ f.ctx = frame.ctx
BY TypesFacts DEF Frame

(* A frame was applied, with the events `rest' to come.                    *)
AppliesFrame(rest) ==
  \E f \in Frame : /\ f.activate = frame.activate /\ f.deactivate = frame.deactivate
                   /\ f.text = frame.text /\ f.ctx = frame.ctx
                   /\ DoneDigest(f, rest)

(* The three ends of a frame: done of v2, commit_state of v1 and, for v1,  *)
(* the end of the dispatch.                                                *)
LEMMA AppliesFacts ==
  ASSUME Types
  PROVE  /\ Done => Arrives("done") /\ AppliesFrame(Tail(socket)) /\ UNCHANGED <<outside, focus>>
         /\ CommitState =>
              /\ Arrives("commit_state") /\ UNCHANGED <<outside, focus>>
              /\ \/ AppliesFrame(Tail(socket))
                 \/ /\ frame.activate = 0
                    /\ socket' = Tail(socket) /\ UNCHANGED <<relay, frame, router, app>>
         /\ EndOfDispatch =>
              /\ AppliesFrame(socket) /\ UNCHANGED <<outside, focus>>
              /\ running # "no" /\ ~IsV2
<1>1. ASSUME Done PROVE Arrives("done") /\ AppliesFrame(Tail(socket)) /\ UNCHANGED <<outside, focus>>
  <2>1. Arrives("done") /\ apply_done_frame(frame, Tail(socket)) /\ UNCHANGED <<outside, focus>>
    BY <1>1 DEF Done
  <2>2. Tail(socket) \in Seq(Events) /\ frame \in Frame
    BY <2>1, ArrivesFacts, TypesFacts
  <2>3. DoneDigest(frame, Tail(socket))
    BY <2>1, <2>2, DoneFrameFacts
  <2> QED BY <2>1, <2>2, <2>3 DEF AppliesFrame
<1> DEFINE f == [frame EXCEPT !.commit = FALSE]
<1>2. /\ f \in Frame /\ f.activate = frame.activate /\ f.deactivate = frame.deactivate
      /\ f.text = frame.text /\ f.ctx = frame.ctx
  BY CommittedTyped
<1>3. ASSUME CommitState
      PROVE  /\ Arrives("commit_state") /\ UNCHANGED <<outside, focus>>
             /\ \/ AppliesFrame(Tail(socket))
                \/ /\ frame.activate = 0
                   /\ socket' = Tail(socket) /\ UNCHANGED <<relay, frame, router, app>>
  <2>1. /\ Arrives("commit_state") /\ UNCHANGED <<outside, focus>>
        /\ IF frame.commit \/ frame.activate # 0 THEN apply_done_frame(f, Tail(socket))
           ELSE socket' = Tail(socket) /\ UNCHANGED <<relay, frame, router, app>>
    BY <1>3 DEF CommitState
  <2>2. Tail(socket) \in Seq(Events)
    BY <2>1, ArrivesFacts
  <2> HIDE DEF f
  <2>3. CASE frame.commit \/ frame.activate # 0
    <3>1. DoneDigest(f, Tail(socket))
      BY <1>2, <2>1, <2>2, <2>3, DoneFrameFacts
    <3> QED BY <1>2, <2>1, <3>1 DEF AppliesFrame
  <2>4. CASE ~(frame.commit \/ frame.activate # 0)
    BY <2>1, <2>4
  <2> QED BY <2>3, <2>4
<1>4. ASSUME EndOfDispatch
      PROVE  /\ AppliesFrame(socket) /\ UNCHANGED <<outside, focus>> /\ running # "no" /\ ~IsV2
  <2>1. apply_done_frame(f, socket) /\ UNCHANGED <<outside, focus>> /\ running # "no" /\ ~IsV2
    BY <1>4 DEF EndOfDispatch, FlushDue
  <2> HIDE DEF f
  <2>2. DoneDigest(f, socket)
    BY <1>2, <2>1, TypesFacts, DoneFrameFacts
  <2> QED BY <1>2, <2>1, <2>2 DEF AppliesFrame
<1> QED BY <1>1, <1>3, <1>4

(* A v1 reset drops the frame that was being read.                         *)
LEMMA ResetV1Facts ==
  ASSUME Types, ResetV1
  PROVE  /\ Arrives("reset") /\ socket' = Tail(socket) /\ socket' \in Seq(Events)
         /\ frame' \in Frame /\ frame'.activate = 0 /\ ~frame'.deactivate /\ frame'.text = 0
         /\ frame'.ctx = frame.ctx
         /\ UNCHANGED <<outside, relay, router, focus, app>>
<1>1. Arrives("reset") /\ frame' = reset(frame) /\ socket' = Tail(socket)
      /\ UNCHANGED <<outside, relay, router, focus, app>>
  BY DEF ResetV1
<1>2. frame' \in Frame /\ frame'.activate = 0 /\ ~frame'.deactivate /\ frame'.text = 0
      /\ frame'.ctx = frame.ctx
  BY <1>1, TypesFacts DEF reset, Frame
<1> QED BY <1>1, <1>2, ArrivesFacts

(* The input method's dispatch.                                            *)
LEMMA InputTyped == ASSUME Types, Input PROVE Types'
<1>1. ASSUME NEW rest, AppliesFrame(rest), UNCHANGED <<outside, focus>> PROVE Types'
  <2>1. PICK f \in Frame : DoneDigest(f, rest)
    BY <1>1 DEF AppliesFrame
  <2>2. router' \in Router
    BY <2>1 DEF DoneDigest, Frames
  <2> QED BY <1>1, <2>1, <2>2, TypesFacts, TypesStep DEF DoneDigest, outside
<1>2. CASE FillFrame
  BY <1>2, FillFacts, TypesFacts, TypesStep DEF FillDigest
<1>3. CASE DeactivateV2 \/ DeactivateV1
  BY <1>3, DeactivateFacts, TypesFacts, TypesStep DEF outside
<1>4. CASE Done \/ EndOfDispatch
  BY <1>1, <1>4, AppliesFacts
<1>5. CASE CommitState
  <2>1. Arrives("commit_state") /\ UNCHANGED <<outside, focus>>
        /\ (AppliesFrame(Tail(socket)) \/ (socket' = Tail(socket) /\ UNCHANGED <<relay, frame, router, app>>))
    BY <1>5, AppliesFacts
  <2>2. Tail(socket) \in Seq(Events)
    BY <2>1, ArrivesFacts
  <2> QED BY <1>1, <2>1, <2>2, TypesFacts, TypesStep DEF outside
<1>6. CASE ResetV1
  BY <1>6, ResetV1Facts, TypesFacts, TypesStep DEF outside
<1>7. CASE Unavailable
  <2>1. /\ Arrives("unavailable") /\ running' = "exiting" /\ socket' = Tail(socket)
        /\ UNCHANGED <<profile, user, desk, budget, relay, frame, router, focus, app>>
    BY <1>7 DEF Unavailable, adapter
  <2>2. Tail(socket) \in Seq(Events)
    BY <2>1, ArrivesFacts
  <2> QED BY <2>1, <2>2, TypesFacts, TypesStep
<1> QED BY <1>2, <1>3, <1>4, <1>5, <1>6, <1>7 DEF Input

-----------------------------------------------------------------------------
(* Types: the windows.                                                     *)

(* A step of the tracker publishes nothing, or what it has published last  *)
(* is the snapshot.                                                        *)
Tracks(t, u) ==
  /\ u \in Tracker
  /\ \/ u.sent = t.sent /\ u.current = t.current
     \/ u.sent # <<>> /\ u.sent[Len(u.sent)] = u.current

(* Entries stay entries when their fields are set.                         *)
LEMMA EntryFacts ==
  /\ NewEntry \in Entry
  /\ \A e \in Entry : CommitEntry(e) \in Entry
  /\ \A e \in Entry, id \in Apps :
       [e EXCEPT !["app_id"] = id] \in Entry /\ [e EXCEPT !["pending_app_id"] = id] \in Entry
  /\ \A e \in Entry, on \in {"yes", "no"} : [e EXCEPT !["pending_activated"] = on] \in Entry
  /\ \A e \in Entry, on \in BOOLEAN : [e EXCEPT !["activated"] = on] \in Entry
<1>1. NewEntry \in Entry
  BY DEF Entry, NewEntry
<1>2. ASSUME NEW e \in Entry PROVE CommitEntry(e) \in Entry
  <2> DEFINE id == IF e.pending_app_id = Nil THEN e.app_id ELSE e.pending_app_id
             on == IF e.pending_activated = Nil THEN e.activated ELSE e.pending_activated = "yes"
  <2>1. id \in Apps \cup {Nil} /\ on \in BOOLEAN
    BY DEF Entry
  <2>2. CommitEntry(e) = [app_id |-> id, activated |-> on, pending_app_id |-> Nil,
                          pending_activated |-> Nil]
    BY DEF CommitEntry
  <2> HIDE DEF id, on
  <2> QED BY <2>1, <2>2 DEF Entry
<1>3. ASSUME NEW e \in Entry, NEW id \in Apps
      PROVE  [e EXCEPT !["app_id"] = id] \in Entry /\ [e EXCEPT !["pending_app_id"] = id] \in Entry
  BY DEF Entry
<1>4. ASSUME NEW e \in Entry, NEW on \in {"yes", "no"}
      PROVE  [e EXCEPT !["pending_activated"] = on] \in Entry
  BY DEF Entry
<1>5. ASSUME NEW e \in Entry, NEW on \in BOOLEAN PROVE [e EXCEPT !["activated"] = on] \in Entry
  BY DEF Entry
<1> QED BY <1>1, <1>2, <1>3, <1>4, <1>5

(* A window's entry may change, as long as it stays one.                   *)
LEMMA EntryTracks ==
  ASSUME NEW t \in Tracker, NEW w, NEW e \in Entry \cup {Nil}
  PROVE  LET u == [t EXCEPT !.toplevels[w] = e]
         IN  /\ u \in Tracker /\ u.sent = t.sent /\ u.current = t.current /\ u.active = t.active
             /\ Tracks(t, u)
BY DEF Tracker, Tracks

(* A field of a window is set; nothing is published.                       *)
LEMMA SetTracks ==
  ASSUME NEW t \in Tracker, NEW w \in Windows, NEW field, NEW value,
         \A e \in Entry : [e EXCEPT ![field] = value] \in Entry
  PROVE  Tracks(t, Set(t, w, field, value))
<1>1. CASE Known(t, w)
  <2>1. t.toplevels[w] \in Entry
    BY <1>1 DEF Known, Tracker
  <2> DEFINE e == [t.toplevels[w] EXCEPT ![field] = value]
  <2>2. e \in Entry
    BY <2>1
  <2>3. Set(t, w, field, value) = [t EXCEPT !.toplevels[w] = e]
    BY <1>1 DEF Set
  <2> HIDE DEF e
  <2>4. Tracks(t, [t EXCEPT !.toplevels[w] = e])
    BY <2>2, EntryTracks
  <2> QED BY <2>3, <2>4
<1>2. CASE ~Known(t, w)
  BY <1>2 DEF Set, Tracks
<1> QED BY <1>1, <1>2

(* Publishing puts the snapshot last in the queue of changes.              *)
LEMMA PublishTracks ==
  ASSUME NEW t, NEW u \in Tracker, NEW w \in Windows \cup {Nil}, w # Nil => Known(u, w)
  PROVE  Tracks(t, Publish(u, w))
<1> DEFINE id == AppOf(u, w)
           sent == Append(u.sent, id)
<1>1. id \in Apps \cup {Nil}
  <2>1. w # Nil => u.toplevels[w] \in Entry
    BY DEF Known, Tracker
  <2> QED BY <2>1 DEF AppOf, Entry
<1> HIDE DEF id
<1>2. u.sent \in Seq(Apps \cup {Nil})
  BY DEF Tracker
<1>3. sent \in Seq(Apps \cup {Nil}) /\ sent # <<>> /\ sent[Len(sent)] = id
  BY <1>1, <1>2
<1> HIDE DEF sent
<1>4. Publish(u, w) = [u EXCEPT !.active = w, !.current = id, !.sent = sent]
  BY DEF Publish, id, sent
<1>5. Publish(u, w) \in Tracker /\ Publish(u, w).sent = sent /\ Publish(u, w).current = id
  BY <1>1, <1>3, <1>4 DEF Tracker
<1> QED BY <1>3, <1>5 DEF Tracks

(* The first activated window is a known one, if there is one.             *)
LEMMA FirstActivatedFacts ==
  ASSUME NEW t, NEW a \in FirstActivated(t)
  PROVE  a \in Windows \cup {Nil} /\ (a # Nil => Known(t, a))
BY DEF FirstActivated

(* The handlers of window events.                                          *)
LEMMA HandlersTrack ==
  ASSUME NEW t \in Tracker, NEW w \in Windows
  PROVE  /\ Tracks(t, NewToplevel(t, w)) /\ Tracks(t, Forget(t, w)) /\ Tracks(t, Finished(t))
         /\ \A u \in ToplevelDone(t, w) : Tracks(t, u)
<1>1. Tracks(t, NewToplevel(t, w))
  BY EntryFacts, EntryTracks DEF NewToplevel
<1>2. Tracks(t, Forget(t, w))
  <2> DEFINE rest == [t EXCEPT !.toplevels[w] = Nil]
  <2>1. rest \in Tracker /\ rest.sent = t.sent /\ rest.current = t.current /\ Tracks(t, rest)
    BY EntryTracks
  <2>2. Forget(t, w) = IF t.active = w THEN Publish(rest, Nil) ELSE rest
    BY DEF Forget
  <2> HIDE DEF rest
  <2>3. Tracks(t, Publish(rest, Nil))
    BY <2>1, PublishTracks
  <2> QED BY <2>1, <2>2, <2>3
<1>3. Tracks(t, Finished(t))
  BY DEF Finished, Tracks, Tracker
<1>4. ASSUME NEW u \in ToplevelDone(t, w) PROVE Tracks(t, u)
  <2> DEFINE e == CommitEntry(t.toplevels[w])
             v == IF Known(t, w) THEN [t EXCEPT !.toplevels[w] = e] ELSE t
  <2>1. Known(t, w) => e \in Entry
    <3>1. Known(t, w) => t.toplevels[w] \in Entry
      BY DEF Known, Tracker
    <3> QED BY <3>1, EntryFacts
  <2>2. PICK a \in FirstActivated(v) :
          u = IF EntryChanged(t, w) \/ a # t.active THEN Publish(v, a) ELSE v
    BY DEF ToplevelDone
  <2> HIDE DEF e
  <2>3. v \in Tracker /\ v.sent = t.sent /\ v.current = t.current /\ Tracks(t, v)
    <3>1. CASE Known(t, w)
      BY <2>1, <3>1, EntryTracks
    <3>2. CASE ~Known(t, w)
      BY <3>2 DEF Tracks
    <3> QED BY <3>1, <3>2
  <2> HIDE DEF v
  <2>4. a \in Windows \cup {Nil} /\ (a # Nil => Known(v, a))
    BY FirstActivatedFacts
  <2>5. Tracks(t, Publish(v, a))
    BY <2>3, <2>4, PublishTracks
  <2> QED BY <2>2, <2>3, <2>5
<1> QED BY <1>1, <1>2, <1>3, <1>4

(* Recomputing the focus publishes the new snapshot or nothing.            *)
LEMMA RecomputeTracks ==
  ASSUME NEW t, NEW u \in Tracker, NEW v \in Recompute(u), Tracks(t, u)
  PROVE  Tracks(t, v)
<1>1. PICK a \in FirstActivated(u) : v = IF a # u.active THEN Publish(u, a) ELSE u
  BY DEF Recompute
<1>2. a \in Windows \cup {Nil} /\ (a # Nil => Known(u, a))
  BY FirstActivatedFacts
<1>3. Tracks(t, Publish(u, a))
  BY <1>2, PublishTracks
<1> QED BY <1>1, <1>3

WindowDigest ==
  /\ socket # <<>> /\ running # "no" /\ Head(socket) \in Events
  /\ Head(socket).type \in {"toplevel", "app_id", "state", "toplevel_done", "closed", "finished"}
  /\ socket' = Tail(socket) /\ socket' \in Seq(Events) /\ Tracks(focus, focus')
  /\ UNCHANGED <<outside, relay, frame, router, app>>

(* An event of the window manager is dispatched.                           *)
LEMMA WindowFacts == ASSUME Types, WindowFields PROVE WindowDigest
<1> DEFINE event == Head(socket)
           wlr   == profile.source = "wlr"
           after == CASE event.type = "toplevel" -> NewToplevel(focus, event.window)
                      [] event.type = "app_id" ->
                           Set(focus, event.window, IF wlr THEN "pending_app_id" ELSE "app_id", event.value)
                      [] event.type = "state" ->
                           IF wlr THEN Set(focus, event.window, "pending_activated", event.value)
                           ELSE Set(focus, event.window, "activated", event.value = "yes")
                      [] event.type = "closed" -> Forget(focus, event.window)
                      [] event.type = "finished" -> Finished(focus)
                      [] event.type = "toplevel_done" -> focus
<1>1. PICK type \in {"toplevel", "app_id", "state", "toplevel_done", "closed", "finished"} : Arrives(type)
  BY DEF WindowFields
<1>2. /\ focus' \in IF event.type = "toplevel_done" THEN ToplevelDone(focus, event.window)
                     ELSE IF wlr \/ event.type = "toplevel" THEN {after}
                     ELSE Recompute(after)
      /\ socket' = Tail(socket)
      /\ UNCHANGED <<outside, relay, frame, router, app>>
  BY DEF WindowFields
<1>3. /\ socket # <<>> /\ running # "no" /\ event \in Events /\ event.type = type
      /\ Tail(socket) \in Seq(Events)
  BY <1>1, ArrivesFacts
<1>4. focus \in Tracker
  BY TypesFacts
<1>5. Tracks(focus, after)
  <2>1. CASE type = "toplevel"
    <3>1. event.window \in Windows
      BY <1>3, <2>1 DEF Events, ModsEvents
    <3>2. after = NewToplevel(focus, event.window)
      BY <1>3, <2>1
    <3> QED BY <1>4, <3>1, <3>2, HandlersTrack
  <2>2. CASE type = "closed"
    <3>1. event.window \in Windows
      BY <1>3, <2>2 DEF Events, ModsEvents
    <3>2. after = Forget(focus, event.window)
      BY <1>3, <2>2
    <3> QED BY <1>4, <3>1, <3>2, HandlersTrack
  <2>3. CASE type = "app_id"
    <3>1. event.window \in Windows /\ event.value \in Apps
      BY <1>3, <2>3 DEF Events, ModsEvents
    <3> DEFINE field == IF wlr THEN "pending_app_id" ELSE "app_id"
    <3>2. after = Set(focus, event.window, field, event.value)
      BY <1>3, <2>3
    <3>3. \A e \in Entry : [e EXCEPT ![field] = event.value] \in Entry
      BY <3>1, EntryFacts
    <3> HIDE DEF field
    <3> QED BY <1>4, <3>1, <3>2, <3>3, SetTracks
  <2>4. CASE type = "state"
    <3>1. event.window \in Windows /\ event.value \in {"yes", "no"}
      BY <1>3, <2>4 DEF Events, ModsEvents
    <3>2. after = IF wlr THEN Set(focus, event.window, "pending_activated", event.value)
                  ELSE Set(focus, event.window, "activated", event.value = "yes")
      BY <1>3, <2>4
    <3>3. /\ \A e \in Entry : [e EXCEPT !["pending_activated"] = event.value] \in Entry
          /\ \A e \in Entry : [e EXCEPT !["activated"] = (event.value = "yes")] \in Entry
      <4>1. (event.value = "yes") \in BOOLEAN
        OBVIOUS
      <4> QED BY <3>1, <4>1, EntryFacts
    <3>4. Tracks(focus, Set(focus, event.window, "pending_activated", event.value))
      BY <1>4, <3>1, <3>3, SetTracks
    <3>5. Tracks(focus, Set(focus, event.window, "activated", event.value = "yes"))
      BY <1>4, <3>1, <3>3, SetTracks
    <3> QED BY <3>2, <3>4, <3>5
  <2>5. CASE type = "finished"
    <3>1. after = Finished(focus)
      BY <1>3, <2>5
    <3>2. Tracks(focus, Finished(focus))
      BY <1>4 DEF Finished, Tracks, Tracker
    <3> QED BY <3>1, <3>2
  <2>6. CASE type = "toplevel_done"
    <3>1. after = focus
      BY <1>3, <2>6
    <3> QED BY <1>4, <3>1 DEF Tracks
  <2> QED BY <1>1, <2>1, <2>2, <2>3, <2>4, <2>5, <2>6
<1>6. event.type = "toplevel_done" => event.window \in Windows
  BY <1>3 DEF Events, ModsEvents
<1>7. after \in Tracker
  BY <1>5 DEF Tracks
<1> HIDE DEF after
<1>8. Tracks(focus, focus')
  <2>1. CASE event.type = "toplevel_done"
    <3>1. focus' \in ToplevelDone(focus, event.window)
      BY <1>2, <2>1
    <3> QED BY <1>4, <1>6, <2>1, <3>1, HandlersTrack
  <2>2. CASE event.type # "toplevel_done" /\ (wlr \/ event.type = "toplevel")
    <3>1. focus' = after
      BY <1>2, <2>2
    <3> QED BY <1>5, <3>1
  <2>3. CASE event.type # "toplevel_done" /\ ~(wlr \/ event.type = "toplevel")
    <3>1. focus' \in Recompute(after)
      BY <1>2, <2>3
    <3> QED BY <1>4, <1>5, <1>7, <3>1, RecomputeTracks
  <2> QED BY <2>1, <2>2, <2>3
<1> QED BY <1>1, <1>2, <1>3, <1>8 DEF WindowDigest

(* ... and keeps the types.                                                *)
LEMMA WindowsTyped == ASSUME Types, WindowFields PROVE Types'
BY WindowFacts, TypesFacts, TypesStep DEF WindowDigest, Tracks, outside

-----------------------------------------------------------------------------
(* Types: the loop.                                                        *)

(* A step of the environment spends one unit of its budget.                *)
LEMMA SpendFacts ==
  ASSUME Types, NEW kind \in BudgetKinds, Spend(kind)
  PROVE  running = "yes" /\ UNCHANGED running /\ budget' \in [BudgetKinds -> Nat]
<1>1. running = "yes" /\ UNCHANGED running /\ budget[kind] > 0
      /\ budget' = [budget EXCEPT ![kind] = @ - 1]
  BY DEF Spend
<1>2. budget \in [BudgetKinds -> Nat]
  BY TypesFacts
<1>3. budget[kind] \in Nat
  BY <1>2
<1>4. budget[kind] - 1 \in Nat
  BY <1>1, <1>3
<1> QED BY <1>1, <1>2, <1>4

(* The timer fires while the loop is idle: what it repeats is what it      *)
(* holds.                                                                  *)
LEMMA FiresFacts ==
  ASSUME Types, RepeatFires
  PROVE  /\ running = "yes" /\ socket = <<>> /\ relay.held # None
         /\ budget' \in [BudgetKinds -> Nat]
         /\ app' \in App /\ relay' \in KeyStates /\ frame' \in Frame /\ router' \in Router
         /\ socket' \in Seq(Events)
         /\ "trailing_repeat" \in app'.faults =>
              "trailing_repeat" \in app.faults \/ relay.held \notin user
         /\ app'.owed => app.owed
         /\ app'.down \subseteq app.down
         /\ relay'.held = relay.held
         /\ SameFrame /\ SameSession /\ Leaves(socket)
         /\ UNCHANGED <<profile, user, desk, running, focus>>
<1> DEFINE faults == IF relay.held \in user THEN app.faults ELSE app.faults \cup {"trailing_repeat"}
           a == [app EXCEPT !.faults = faults]
<1>1. /\ Spend("keys") /\ Idle /\ relay.held # None
      /\ RepeatKey(relay.held, TRUE, a, <<>>)
      /\ UNCHANGED <<profile, user, desk, focus>>
  BY DEF RepeatFires
<1>2. socket = <<>> /\ <<>> \in Seq(Events)
  <2>1. <<>> \in Seq(Events)
    OBVIOUS
  <2>2. socket = <<>>
    BY <1>1 DEF Idle
  <2> QED BY <2>1, <2>2
<1>3. running = "yes" /\ UNCHANGED running /\ budget' \in [BudgetKinds -> Nat]
  BY <1>1, SpendFacts DEF BudgetKinds
<1>4. relay.held \in KeyCodes
  BY <1>1, TypesFacts DEF Relay
<1>5. faults \in SUBSET {"lost_glyph", "modified_backspace", "trailing_repeat"}
      /\ ("trailing_repeat" \in faults => "trailing_repeat" \in app.faults \/ relay.held \notin user)
  BY TypesFacts DEF App
<1> HIDE DEF faults
<1>6. a \in App /\ a.faults = faults /\ a.down = app.down /\ a.owed = app.owed
  BY <1>5, TypesFacts DEF App
<1> HIDE DEF a
<1>7. KeyDigest(a, {relay.held}, <<>>) /\ app'.down \subseteq a.down
  BY <1>1, <1>2, <1>4, <1>6, RepeatKeyFacts
<1>8. Leaves(<<>>) => Leaves(socket)
  BY <1>2
<1> QED BY <1>1, <1>2, <1>3, <1>5, <1>6, <1>7, <1>8 DEF KeyDigest

(* A focus change replaces the session, or closes a synthetic one.         *)
LEMMA FocusSession ==
  ASSUME Types, NEW id \in Apps \cup {Nil}
  PROVE  LET r == on_focus_changed(id)
         IN  /\ r \in Router
             /\ \/ /\ r = router
                   /\ router.synthetic => router.app = id /\ router.active
                \/ /\ r.active /\ r.synthetic /\ r.app = id /\ r.session = 0 /\ r.seen = 0
                   /\ ~router.active \/ router.synthetic
                \/ ~r.active /\ ~r.synthetic /\ r.session = 0 /\ r.seen = 0 /\ router.synthetic
<1> DEFINE matched == id # Nil /\ IsV2
           target_changed == router.synthetic /\ matched /\ router.app # id
           closed == Closed(router)
           open == [closed EXCEPT !.active = TRUE, !.synthetic = TRUE, !.app = id, !.functional = FALSE]
           shut == [closed EXCEPT !.synthetic = FALSE]
<1>1. router \in Router
  BY TypesFacts
<1>2. /\ closed \in Router /\ ~closed.active /\ closed.session = 0 /\ closed.seen = 0
  BY <1>1 DEF Closed, Router
<1>3. on_focus_changed(id) = IF matched /\ (~router.active \/ target_changed) THEN open
                             ELSE IF router.synthetic /\ ~matched THEN shut ELSE router
  BY DEF on_focus_changed
<1> HIDE DEF closed
<1>4. open \in Router /\ open.active /\ open.synthetic /\ open.app = id /\ open.session = 0
      /\ open.seen = 0
  BY <1>2 DEF Router
<1>5. shut \in Router /\ ~shut.active /\ ~shut.synthetic /\ shut.session = 0 /\ shut.seen = 0
  BY <1>2 DEF Router
<1> HIDE DEF open, shut
<1>6. router.active \in BOOLEAN
  BY <1>1 DEF Router
<1> QED BY <1>1, <1>3, <1>4, <1>5, <1>6

(* A change of the focus reaches the daemon, which disarms the timer.      *)
LEMMA FocusFacts ==
  ASSUME Types, FocusChanges
  PROVE  /\ running = "yes" /\ Idle /\ focus.sent # <<>>
         /\ relay' \in KeyStates /\ relay'.held = None
         /\ Head(focus.sent) \in Apps \cup {Nil} /\ router' = on_focus_changed(Head(focus.sent))
         /\ router' \in Router
         /\ focus' \in Tracker /\ focus'.sent = Tail(focus.sent) /\ focus'.current = focus.current
         /\ UNCHANGED <<outside, socket, frame, app>>
<1>1. /\ running = "yes" /\ Idle /\ focus.sent # <<>>
      /\ relay' = cancel(relay) /\ router' = on_focus_changed(Head(focus.sent))
      /\ focus' = [focus EXCEPT !.sent = Tail(@)]
      /\ UNCHANGED <<outside, socket, frame, app>>
  BY DEF FocusChanges
<1>2. focus \in Tracker /\ focus.sent \in Seq(Apps \cup {Nil})
  BY TypesFacts DEF Tracker
<1> DEFINE rest == Tail(focus.sent)
<1>3. Head(focus.sent) \in Apps \cup {Nil} /\ rest \in Seq(Apps \cup {Nil})
  BY <1>1, <1>2
<1>4. focus' = [focus EXCEPT !.sent = rest]
  BY <1>1
<1> HIDE DEF rest
<1>5. focus' \in Tracker /\ focus'.sent = rest /\ focus'.current = focus.current
  BY <1>2, <1>3, <1>4 DEF Tracker
<1>6. Backspace \in KeyCodes
  BY DEF KeyCodes, UserKeys
<1>7. relay' \in KeyStates /\ relay'.held = None
  BY <1>1, <1>6, TypesFacts, TimerTyped
<1>8. router' \in Router
  BY <1>1, <1>3, FocusSession
<1> QED BY <1>1, <1>3, <1>5, <1>7, <1>8 DEF rest

(* The connection is torn down: the application keeps no key.              *)
LEMMA TeardownFacts ==
  ASSUME Types, Teardown
  PROVE  /\ running' = "no" /\ socket' = <<>> /\ socket' \in Seq(Events)
         /\ app' \in App /\ app'.down = {} /\ app'.faults = app.faults /\ app'.owed = app.owed
         /\ UNCHANGED <<profile, user, desk, relay, frame, router, focus, budget>>
<1>1. /\ running' = "no" /\ socket' = <<>> /\ app' = [app EXCEPT !.down = {}, !.covered = {}]
      /\ UNCHANGED <<profile, user, desk, relay, frame, router, focus, budget>>
  BY DEF Teardown, adapter
<1>2. app \in App
  BY TypesFacts
<1>3. app' \in App /\ app'.down = {} /\ app'.faults = app.faults /\ app'.owed = app.owed
  BY <1>1, <1>2 DEF App
<1> QED BY <1>1, <1>3

(* The steps of the loop keep the types.                                   *)
LEMMA LoopTyped == ASSUME Types, Loop PROVE Types'
<1>1. CASE RepeatFires
  BY <1>1, FiresFacts, TypesFacts, TypesStep
<1>2. CASE FocusChanges
  BY <1>2, FocusFacts, TypesFacts, TypesStep DEF outside
<1>3. CASE Teardown
  BY <1>3, TeardownFacts, TypesFacts, TypesStep
<1> QED BY <1>1, <1>2, <1>3 DEF Loop

-----------------------------------------------------------------------------
(* Types: the compositor, the user and time.                               *)

(* Events that neither press, release, activate, deactivate nor tell text: *)
(* of keys, only the repeats of a grab.                                    *)
Quiet ==
  {e \in Events : /\ e.type = "key" => e.value = 2 /\ KeysGrabbed
                  /\ e.type \notin {"activate", "deactivate", "surrounding_text", "mods"}}

Adds(S) == \E new \in Seq(S) : socket' = socket \o new

(* What the environment sends besides keys and text inputs is quiet.       *)
LEMMA QuietEvents ==
  /\ \A key \in UserKeys : KeysGrabbed => [type |-> "key", key |-> key, value |-> 2] \in Quiet
  /\ \A positive \in BOOLEAN : [type |-> "repeat_info", positive |-> positive] \in Quiet
  /\ Event("unavailable") \in Quiet /\ Event("finished") \in Quiet
  /\ \A w \in Windows : /\ [type |-> "toplevel", window |-> w] \in Quiet
                        /\ [type |-> "closed", window |-> w] \in Quiet
                        /\ [type |-> "toplevel_done", window |-> w] \in Quiet
  /\ \A w \in Windows, id \in Apps : WindowEvent("app_id", w, id) \in Seq(Quiet)
  /\ \A w \in Windows, on \in {"yes", "no"} : WindowEvent("state", w, on) \in Seq(Quiet)
<1>2. ASSUME NEW key \in UserKeys, KeysGrabbed PROVE [type |-> "key", key |-> key, value |-> 2] \in Quiet
  BY <1>2 DEF Quiet, Events
<1>3. ASSUME NEW positive \in BOOLEAN PROVE [type |-> "repeat_info", positive |-> positive] \in Quiet
  BY DEF Quiet, Events
<1>4. Event("unavailable") \in Quiet /\ Event("finished") \in Quiet
  BY DEF Quiet, Events, Event
<1>5. ASSUME NEW w \in Windows
      PROVE  /\ [type |-> "toplevel", window |-> w] \in Quiet
             /\ [type |-> "closed", window |-> w] \in Quiet
             /\ [type |-> "toplevel_done", window |-> w] \in Quiet
  BY DEF Quiet, Events
<1>6. ASSUME NEW w \in Windows, NEW first \in Quiet
      PROVE  <<first>> \o (IF profile.source = "wlr" THEN <<[type |-> "toplevel_done", window |-> w]>>
                           ELSE <<>>) \in Seq(Quiet)
  <2> DEFINE second == IF profile.source = "wlr" THEN <<[type |-> "toplevel_done", window |-> w]>>
                       ELSE <<>>
  <2>1. [type |-> "toplevel_done", window |-> w] \in Quiet
    BY <1>5
  <2>2. <<first>> \in Seq(Quiet)
    OBVIOUS
  <2>3. second \in Seq(Quiet)
    <3> DEFINE done == [type |-> "toplevel_done", window |-> w]
    <3>1. done \in Quiet
      BY <2>1
    <3> HIDE DEF done
    <3>2. <<done>> \in Seq(Quiet) /\ <<>> \in Seq(Quiet)
      BY <3>1
    <3> QED BY <3>2 DEF done
  <2> HIDE DEF second
  <2>4. <<first>> \o second \in Seq(Quiet)
    BY <2>2, <2>3
  <2> QED BY <2>4 DEF second
<1>7. ASSUME NEW w \in Windows, NEW id \in Apps PROVE WindowEvent("app_id", w, id) \in Seq(Quiet)
  <2>1. [type |-> "app_id", window |-> w, value |-> id] \in Quiet
    BY DEF Quiet, Events
  <2> QED BY <1>6, <2>1 DEF WindowEvent
<1>8. ASSUME NEW w \in Windows, NEW on \in {"yes", "no"} PROVE WindowEvent("state", w, on) \in Seq(Quiet)
  <2>1. [type |-> "state", window |-> w, value |-> on] \in Quiet
    BY DEF Quiet, Events
  <2> QED BY <1>6, <2>1 DEF WindowEvent
<1> QED BY <1>2, <1>3, <1>4, <1>5, <1>7, <1>8

(* Two batches of events are one.                                          *)
LEMMA AddsTwice ==
  ASSUME Types, NEW S, S \subseteq Events, NEW first \in Seq(S), NEW second \in Seq(S),
         socket' = socket \o first \o second
  PROVE  Adds(S)
<1>1. socket \in Seq(Events) /\ first \in Seq(Events) /\ second \in Seq(Events)
  BY TypesFacts
<1>2. (socket \o first) \o second = socket \o (first \o second)
  BY <1>1
<1>3. first \o second \in Seq(S)
  OBVIOUS
<1> QED BY <1>2, <1>3 DEF Adds

(* Quiet events arrive, and the compositor's text inputs stay.             *)
QuietDigest ==
  /\ running = "yes" /\ budget' \in [BudgetKinds -> Nat] /\ Adds(Quiet)
  /\ desk' \in Desk
  /\ \A field \in {"active", "epoch", "grabbed"} : desk'[field] = desk[field]
  /\ UNCHANGED <<profile, user, running, relay, frame, router, focus, app>>

(* Steps of the environment that only send quiet events.                   *)
LEMMA QuietFacts ==
  ASSUME Types,
         \/ CompositorRepeat \/ ChangeRate \/ RefuseInput \/ OpenWindow \/ RenameWindow
         \/ SwitchWindow \/ CloseWindow \/ ManagerFinishes
  PROVE  QuietDigest
<1> DEFINE SameInputs == \A field \in {"active", "epoch", "grabbed"} : desk'[field] = desk[field]
<1>1. ASSUME NEW kind \in BudgetKinds, Spend(kind),
             UNCHANGED <<profile, user, relay, frame, router, focus, app>>,
             desk' \in Desk, SameInputs, Adds(Quiet)
      PROVE  QuietDigest
  BY <1>1, SpendFacts DEF QuietDigest
<1>2. desk \in Desk
  BY TypesFacts
<1>3. ASSUME NEW event \in Quiet, socket' = Append(socket, event) PROVE Adds(Quiet)
  <2>1. socket \in Seq(Events)
    BY TypesFacts
  <2>2. <<event>> \in Seq(Quiet) /\ Append(socket, event) = socket \o <<event>>
    BY <2>1, <1>3
  <2> QED BY <1>3, <2>2 DEF Adds
<1>4. {"keys", "inputs", "windows", "others"} = BudgetKinds
  BY DEF BudgetKinds
<1>5. CASE CompositorRepeat
  <2>1. PICK key \in user \ ModKeys :
          /\ Spend("keys") /\ KeysGrabbed
          /\ socket' = Append(socket, [type |-> "key", key |-> key, value |-> 2])
          /\ UNCHANGED <<profile, user, desk, relay, frame, router, focus, app>>
    BY <1>5 DEF CompositorRepeat, adapter
  <2>2. key \in UserKeys
    BY TypesFacts
  <2>3. Adds(Quiet)
    BY <1>3, <2>1, <2>2, QuietEvents
  <2> QED BY <1>1, <1>2, <1>4, <2>1, <2>3
<1>6. CASE ChangeRate
  <2>1. /\ Spend("others")
        /\ desk' = [desk EXCEPT !.rate = ~desk.rate]
        /\ socket' = Append(socket, [type |-> "repeat_info", positive |-> ~desk.rate])
        /\ UNCHANGED <<profile, user, relay, frame, router, focus, app>>
    BY <1>6 DEF ChangeRate, adapter
  <2>2. (~desk.rate) \in BOOLEAN
    OBVIOUS
  <2>3. Adds(Quiet)
    BY <1>3, <2>1, <2>2, QuietEvents
  <2>4. desk' \in Desk /\ SameInputs
    BY <1>2, <2>1, <2>2 DEF Desk
  <2> QED BY <1>1, <1>4, <2>1, <2>3, <2>4
<1>7. CASE RefuseInput
  <2>1. /\ Spend("others") /\ socket' = Append(socket, Event("unavailable"))
        /\ UNCHANGED <<profile, user, desk, relay, frame, router, focus, app>>
    BY <1>7 DEF RefuseInput, adapter
  <2>2. Adds(Quiet)
    BY <1>3, <2>1, QuietEvents
  <2> QED BY <1>1, <1>2, <1>4, <2>1, <2>2
<1>8. CASE OpenWindow
  <2>1. PICK w \in Windows, id \in Apps :
          /\ Spend("windows")
          /\ desk' = [desk EXCEPT !.windows[w] = id]
          /\ socket' = socket \o <<[type |-> "toplevel", window |-> w]>> \o WindowEvent("app_id", w, id)
          /\ UNCHANGED <<profile, user, relay, frame, router, focus, app>>
    BY <1>8 DEF OpenWindow, adapter
  <2>2. Adds(Quiet)
    <3> DEFINE first == <<[type |-> "toplevel", window |-> w]>>
               second == WindowEvent("app_id", w, id)
    <3>1. socket' = socket \o first \o second /\ second \in Seq(Quiet)
      BY <2>1, QuietEvents
    <3>2. [type |-> "toplevel", window |-> w] \in Quiet
      BY <2>1, QuietEvents
    <3>3. first \in Seq(Quiet)
      BY <3>2
    <3> HIDE DEF first, second
    <3> QED BY <3>1, <3>3, AddsTwice DEF Quiet
  <2>3. desk' \in Desk /\ SameInputs
    BY <1>2, <2>1 DEF Desk
  <2> QED BY <1>1, <1>4, <2>1, <2>2, <2>3
<1>9. CASE RenameWindow
  <2>1. PICK w \in Windows, id \in Apps :
          /\ Spend("windows")
          /\ desk' = [desk EXCEPT !.windows[w] = id]
          /\ socket' = socket \o WindowEvent("app_id", w, id)
          /\ UNCHANGED <<profile, user, relay, frame, router, focus, app>>
    BY <1>9 DEF RenameWindow, adapter
  <2>2. Adds(Quiet)
    BY <2>1, QuietEvents DEF Adds
  <2>3. desk' \in Desk /\ SameInputs
    BY <1>2, <2>1 DEF Desk
  <2> QED BY <1>1, <1>4, <2>1, <2>2, <2>3
<1>10. CASE SwitchWindow
  <2>1. PICK w \in Windows \cup {Nil} :
          /\ Spend("windows") /\ w # desk.top
          /\ w # Nil => desk.windows[w] # Nil
          /\ desk' = [desk EXCEPT !.top = w, !.shown = IF w = Nil THEN Nil ELSE desk.windows[w]]
          /\ LET on  == IF w = Nil THEN <<>> ELSE WindowEvent("state", w, "yes")
                 off == IF desk.top = Nil THEN <<>> ELSE WindowEvent("state", desk.top, "no")
             IN  socket' \in {socket \o off \o on, socket \o on \o off}
          /\ UNCHANGED <<profile, user, relay, frame, router, focus, app>>
    BY <1>10 DEF SwitchWindow, adapter
  <2>2. Adds(Quiet)
    <3> DEFINE on  == IF w = Nil THEN <<>> ELSE WindowEvent("state", w, "yes")
               off == IF desk.top = Nil THEN <<>> ELSE WindowEvent("state", desk.top, "no")
    <3>1. desk.top \in Windows \cup {Nil} /\ <<>> \in Seq(Quiet)
      BY <1>2 DEF Desk
    <3>2. on \in Seq(Quiet) /\ off \in Seq(Quiet)
      BY <3>1, QuietEvents
    <3>3. socket' = socket \o off \o on \/ socket' = socket \o on \o off
      BY <2>1
    <3> HIDE DEF on, off
    <3> QED BY <3>2, <3>3, AddsTwice DEF Quiet
  <2>3. desk' \in Desk /\ SameInputs
    <3> DEFINE shown == IF w = Nil THEN Nil ELSE desk.windows[w]
    <3>1. shown \in Apps \cup {Nil}
      BY <1>2 DEF Desk
    <3>2. desk' = [desk EXCEPT !.top = w, !.shown = shown]
      BY <2>1
    <3> HIDE DEF shown
    <3> QED BY <1>2, <3>1, <3>2 DEF Desk
  <2> QED BY <1>1, <1>4, <2>1, <2>2, <2>3
<1>11. CASE CloseWindow
  <2>1. PICK w \in Windows :
          /\ Spend("windows")
          /\ desk' = [desk EXCEPT !.windows[w] = Nil,
                                  !.top = IF w = desk.top THEN Nil ELSE @,
                                  !.shown = IF w = desk.top THEN Nil ELSE @]
          /\ socket' = Append(socket, [type |-> "closed", window |-> w])
          /\ UNCHANGED <<profile, user, relay, frame, router, focus, app>>
    BY <1>11 DEF CloseWindow, adapter
  <2>2. Adds(Quiet)
    BY <1>3, <2>1, QuietEvents
  <2>3. desk' \in Desk /\ SameInputs
    <3> DEFINE top == IF w = desk.top THEN Nil ELSE desk.top
               shown == IF w = desk.top THEN Nil ELSE desk.shown
    <3>1. top \in Windows \cup {Nil} /\ shown \in Apps \cup {Nil}
      BY <1>2 DEF Desk
    <3>2. desk' = [desk EXCEPT !.windows[w] = Nil, !.top = top, !.shown = shown]
      BY <2>1
    <3> HIDE DEF top, shown
    <3> QED BY <1>2, <3>1, <3>2 DEF Desk
  <2> QED BY <1>1, <1>4, <2>1, <2>2, <2>3
<1>12. CASE ManagerFinishes
  <2>1. /\ Spend("others") /\ socket' = Append(socket, Event("finished"))
        /\ desk' = [desk EXCEPT !.tracked = FALSE]
        /\ UNCHANGED <<profile, user, relay, frame, router, focus, app>>
    BY <1>12 DEF ManagerFinishes, adapter
  <2>2. Adds(Quiet)
    BY <1>3, <2>1, QuietEvents
  <2>3. desk' \in Desk /\ SameInputs
    BY <1>2, <2>1 DEF Desk
  <2> QED BY <1>1, <1>4, <2>1, <2>2, <2>3
<1> QED BY <1>5, <1>6, <1>7, <1>8, <1>9, <1>10, <1>11, <1>12


(* A key of the user, on the grab or straight to the application.          *)
KeyOf(key, value) == [type |-> "key", key |-> key, value |-> value]

UserDigest(key, value) ==
  /\ running = "yes" /\ budget' \in [BudgetKinds -> Nat]
  /\ user' = (IF value = 1 THEN user \cup {key} ELSE user \ {key}) /\ user' \subseteq UserKeys
  /\ app' \in App /\ socket' \in Seq(Events)
  /\ "trailing_repeat" \in app'.faults <=> "trailing_repeat" \in app.faults
  /\ app'.owed => app.owed
  /\ KeysGrabbed => /\ app' = app
                    /\ \E new \in Seq(Events) :
                         /\ socket' = socket \o new /\ Len(new) \in Nat \ {0}
                         /\ new[1] = KeyOf(key, value)
                         /\ \A i \in DOMAIN new : i # 1 => new[i] \in ModsEvents
  /\ ~KeysGrabbed => /\ socket' = socket
                     /\ \A other \in app'.down :
                          IF value = 1 THEN other \in app.down \/ other = key
                          ELSE other \in app.down /\ other # key
  /\ UNCHANGED <<profile, desk, running, relay, frame, router, focus>>

(* What a key of the user adds to the socket.                              *)
LEMMA KeyEventsFacts ==
  ASSUME NEW key \in UserKeys, NEW value \in {0, 1}, NEW mods \in Masks
  PROVE  /\ KeyEvents(key, value, mods) \in Seq(Events)
         /\ Len(KeyEvents(key, value, mods)) \in Nat \ {0}
         /\ KeyEvents(key, value, mods)[1] = KeyOf(key, value)
         /\ \A i \in DOMAIN KeyEvents(key, value, mods) :
              i # 1 => KeyEvents(key, value, mods)[i] \in ModsEvents
<1> DEFINE event == KeyOf(key, value)
           second == ModsEvent(mods, "user")
           rest == IF key \in ModKeys THEN <<second>> ELSE <<>>
<1>1. event \in Events /\ second \in ModsEvents
  BY DEF Events, ModsEvents, ModsEvent, KeyOf
<1>2. ModsEvents \subseteq Events
  BY DEF Events
<1>3. KeyEvents(key, value, mods) = <<event>> \o rest
  BY DEF KeyEvents, KeyOf
<1> HIDE DEF event, second
<1>4. CASE key \in ModKeys
  <2>1. rest = <<second>>
    BY <1>4
  <2>2. <<event>> \o <<second>> \in Seq(Events) /\ Len(<<event>> \o <<second>>) = 2
        /\ (<<event>> \o <<second>>)[1] = event
        /\ DOMAIN (<<event>> \o <<second>>) = 1 .. 2
        /\ (<<event>> \o <<second>>)[2] = second
    BY <1>1, <1>2
  <2>3. \A i \in 1 .. 2 : i # 1 => i = 2
    OBVIOUS
  <2> HIDE DEF rest
  <2> QED BY <1>1, <1>3, <2>1, <2>2, <2>3 DEF event
<1>5. CASE key \notin ModKeys
  <2>1. rest = <<>>
    BY <1>5
  <2>2. <<event>> \o <<>> = <<event>> /\ <<event>> \in Seq(Events) /\ Len(<<event>>) = 1
        /\ <<event>>[1] = event /\ DOMAIN <<event>> = 1 .. 1
    BY <1>1
  <2>3. \A i \in 1 .. 1 : i = 1
    OBVIOUS
  <2> HIDE DEF rest
  <2> QED BY <1>1, <1>3, <2>1, <2>2, <2>3 DEF event
<1> QED BY <1>4, <1>5

(* An application without a grab takes a key of the user itself.           *)
LEMMA DirectKeyFacts ==
  ASSUME Types, NEW key \in UserKeys, NEW value \in {0, 1}, NEW mods \in Masks
  PROVE  LET b == TakeAll(app, <<UnstampedKey(key, value), Modifiers(mods)>>)
         IN  /\ b \in App
             /\ "trailing_repeat" \in b.faults <=> "trailing_repeat" \in app.faults
             /\ b.owed => app.owed
             /\ \A other \in b.down :
                  IF value = 1 THEN other \in app.down \/ other = key
                  ELSE other \in app.down /\ other # key
<1> DEFINE first == UnstampedKey(key, value)
           second == Modifiers(mods)
           requests == <<first, second>>
           b == TakeAll(app, requests)
<1>1. key \in KeyCodes /\ value \in {0, 1, 2} /\ app \in App
  BY TypesFacts DEF KeyCodes
<1>2. first \in Requests /\ second \in Requests
  BY <1>1, RequestsTyped
<1>3. first.op = "key" /\ first.key = key /\ first.value = value /\ second.op = "mods"
  BY DEF UnstampedKey, Key, Modifiers
<1> HIDE DEF first, second
<1>4. requests \in Seq(Requests) /\ DOMAIN requests = 1 .. 2
      /\ requests[1] = first /\ requests[2] = second
  BY <1>2
<1> HIDE DEF requests
<1>5. /\ b \in App
      /\ "trailing_repeat" \in b.faults <=> "trailing_repeat" \in app.faults
      /\ b.owed => app.owed
  BY <1>1, <1>4, TakeAllFacts
<1>6. \A other \in b.down :
         \/ other \in app.down /\ \A j \in DOMAIN requests : ~ReleaseOf(requests[j], other)
         \/ \E i \in DOMAIN requests : PressOf(requests[i], other)
  BY <1>1, <1>4, TakeAllFacts
<1> HIDE DEF b
<1>7. ASSUME NEW other \in b.down
      PROVE IF value = 1 THEN other \in app.down \/ other = key
            ELSE other \in app.down /\ other # key
  <2>1. ASSUME NEW i \in DOMAIN requests, PressOf(requests[i], other)
        PROVE  value = 1 /\ other = key
    BY <1>3, <1>4, <2>1 DEF PressOf
  <2>2. value = 0 => ReleaseOf(requests[1], key)
    BY <1>3, <1>4 DEF ReleaseOf
  <2>3. 1 \in DOMAIN requests
    BY <1>4
  <2>4. other \in app.down \/ (value = 1 /\ other = key)
    BY <1>6, <2>1
  <2>5. value = 0 => other # key
    BY <1>6, <2>1, <2>2, <2>3
  <2> QED BY <2>4, <2>5
<1> QED BY <1>5, <1>7 DEF b, requests, first, second

(* The two together.                                                       *)
LEMMA UserFacts ==
  ASSUME Types, NEW key \in UserKeys, NEW value \in {0, 1}, UserKey(key, value)
  PROVE  UserDigest(key, value)
<1>1. "keys" \in BudgetKinds
  BY DEF BudgetKinds
<1>2. /\ running = "yes" /\ UNCHANGED running /\ budget' \in [BudgetKinds -> Nat]
  BY <1>1, SpendFacts DEF UserKey
<1>3. UNCHANGED <<profile, desk, relay, frame, router, focus>>
  BY DEF UserKey, adapter
<1>4. user' = (IF value = 1 THEN user \cup {key} ELSE user \ {key}) /\ user' \subseteq UserKeys
  <2>1. user' = (IF value = 1 THEN user \cup {key} ELSE user \ {key})
    BY DEF UserKey
  <2> QED BY <2>1, TypesFacts
<1>5. app \in App /\ socket \in Seq(Events)
  BY TypesFacts
<1> DEFINE mods == user' \cap ModKeys
<1>6. mods \in Masks
  BY DEF Masks
<1>7. IF KeysGrabbed THEN socket' = socket \o KeyEvents(key, value, mods) /\ UNCHANGED app
      ELSE app' = TakeAll(app, <<UnstampedKey(key, value), Modifiers(mods)>>) /\ UNCHANGED socket
  BY DEF UserKey
<1> HIDE DEF mods
<1>8. CASE KeysGrabbed
  <2> DEFINE new == KeyEvents(key, value, mods)
  <2>1. socket' = socket \o new /\ app' = app
    BY <1>7, <1>8
  <2>2. /\ new \in Seq(Events) /\ Len(new) \in Nat \ {0} /\ new[1] = KeyOf(key, value)
        /\ \A i \in DOMAIN new : i # 1 => new[i] \in ModsEvents
    BY <1>6, KeyEventsFacts
  <2> HIDE DEF new
  <2>3. socket' \in Seq(Events)
    BY <1>5, <2>1, <2>2
  <2> QED BY <1>2, <1>3, <1>4, <1>5, <1>8, <2>1, <2>2, <2>3 DEF UserDigest
<1>9. CASE ~KeysGrabbed
  <2> DEFINE b == TakeAll(app, <<UnstampedKey(key, value), Modifiers(mods)>>)
  <2>1. socket' = socket /\ app' = b
    BY <1>7, <1>9
  <2>2. /\ b \in App
        /\ "trailing_repeat" \in b.faults <=> "trailing_repeat" \in app.faults
        /\ b.owed => app.owed
        /\ \A other \in b.down :
             IF value = 1 THEN other \in app.down \/ other = key
             ELSE other \in app.down /\ other # key
    BY <1>6, DirectKeyFacts
  <2> HIDE DEF b
  <2> QED BY <1>2, <1>3, <1>4, <1>5, <1>9, <2>1, <2>2 DEF UserDigest
<1> QED BY <1>8, <1>9

(* A text input is enabled: an activation, perhaps its text, and the end   *)
(* of the frame.                                                           *)
End == IF IsV2 THEN "done" ELSE "commit_state"

EnableDigest ==
  /\ running = "yes" /\ budget' \in [BudgetKinds -> Nat] /\ ~desk.active
  /\ desk' \in Desk /\ desk'.active /\ desk'.epoch = desk.epoch + 1 /\ desk'.grabbed = desk.grabbed
  /\ socket' \in Seq(Events)
  /\ \E new \in Seq(Events), m \in {2, 3} :
       /\ socket' = socket \o new /\ Len(new) = m
       /\ new[1].type = "activate" /\ new[1].epoch = desk.epoch + 1
       /\ m = 3 => new[2].type = "surrounding_text" /\ new[2].epoch = desk.epoch + 1
       /\ new[m].type = End
  /\ UNCHANGED <<profile, user, running, relay, frame, router, focus, app>>

(* A text input is enabled.                                                *)
LEMMA EnableFacts == ASSUME Types, EnableInput PROVE EnableDigest
<1> DEFINE activate == [type |-> "activate", epoch |-> desk.epoch + 1]
           text == TextEvent(desk.epoch + 1)
           end == Event(End)
<1>1. /\ Spend("inputs") /\ ~desk.active
      /\ desk' = [desk EXCEPT !.active = TRUE, !.epoch = @ + 1]
      /\ UNCHANGED <<profile, user, relay, frame, router, focus, app>>
  BY DEF EnableInput, adapter
<1>2. socket' = socket \o <<activate, end>> \/ socket' = socket \o <<activate, text, end>>
  BY DEF EnableInput, End
<1>3. desk \in Desk /\ desk.epoch \in Nat /\ socket \in Seq(Events)
  BY TypesFacts DEF Desk
<1>4. /\ desk' \in Desk /\ desk'.active /\ desk'.epoch = desk.epoch + 1
      /\ desk'.grabbed = desk.grabbed
  <2>1. PICK next \in Nat : next = desk.epoch + 1
    BY <1>3
  <2>2. desk' = [desk EXCEPT !.active = TRUE, !.epoch = next]
    BY <1>1, <2>1
  <2>3. desk' \in Desk /\ desk'.active /\ desk'.epoch = next /\ desk'.grabbed = desk.grabbed
    BY <1>3, <2>2 DEF Desk
  <2> QED BY <2>1, <2>3
<1>5. running = "yes" /\ UNCHANGED running /\ budget' \in [BudgetKinds -> Nat]
  BY <1>1, SpendFacts DEF BudgetKinds
<1>6. activate \in Events /\ text \in Events
  BY <1>3 DEF Events, TextEvent
<1>7. end \in Events
  BY DEF Events, Event, End
<1>8. /\ activate.type = "activate" /\ activate.epoch = desk.epoch + 1
      /\ text.type = "surrounding_text" /\ text.epoch = desk.epoch + 1 /\ end.type = End
  BY DEF TextEvent, Event
<1> HIDE DEF activate, text, end
<1>9. \E new \in Seq(Events), m \in {2, 3} :
        /\ socket' = socket \o new /\ Len(new) = m
        /\ new[1].type = "activate" /\ new[1].epoch = desk.epoch + 1
        /\ m = 3 => new[2].type = "surrounding_text" /\ new[2].epoch = desk.epoch + 1
        /\ new[m].type = End
  <2>1. CASE socket' = socket \o <<activate, end>>
    <3> DEFINE new == <<activate, end>>
    <3>1. new \in Seq(Events) /\ Len(new) = 2 /\ new[1] = activate /\ new[2] = end
      BY <1>6, <1>7
    <3>2. socket' = socket \o new
      BY <2>1
    <3> HIDE DEF new
    <3> QED BY <1>8, <3>1, <3>2
  <2>2. CASE socket' = socket \o <<activate, text, end>>
    <3> DEFINE new == <<activate, text, end>>
    <3>1. new \in Seq(Events) /\ Len(new) = 3 /\ new[1] = activate /\ new[2] = text
          /\ new[3] = end
      BY <1>6, <1>7
    <3>2. socket' = socket \o new
      BY <2>2
    <3> HIDE DEF new
    <3> QED BY <1>8, <3>1, <3>2
  <2> QED BY <1>2, <2>1, <2>2
<1>10. socket' \in Seq(Events)
  <2>1. PICK new \in Seq(Events) : socket' = socket \o new
    BY <1>9
  <2> QED BY <1>3, <2>1
<1> QED BY <1>1, <1>4, <1>5, <1>9, <1>10 DEF EnableDigest

(* One is disabled: a deactivation, which ends a frame of protocol v2.     *)
DisableDigest ==
  /\ running = "yes" /\ budget' \in [BudgetKinds -> Nat] /\ desk.active
  /\ desk' \in Desk /\ ~desk'.active /\ desk'.epoch = desk.epoch /\ ~desk'.grabbed
  /\ socket' \in Seq(Events)
  /\ \E new \in Seq(Events), m \in {1, 2} :
       /\ socket' = socket \o new /\ Len(new) = m
       /\ new[1].type = "deactivate"
       /\ m = IF IsV2 THEN 2 ELSE 1
       /\ IsV2 => new[2].type = "done"
  /\ app' \in App /\ app'.faults = app.faults /\ app'.owed = app.owed
  /\ app'.down = IF IsV2 THEN app.down ELSE {}
  /\ UNCHANGED <<profile, user, running, relay, frame, router, focus>>

(* A text input is disabled.                                               *)
LEMMA DisableFacts == ASSUME Types, DisableInput PROVE DisableDigest
<1>1. /\ Spend("inputs") /\ desk.active
      /\ desk' = [desk EXCEPT !.active = FALSE, !.grabbed = FALSE]
      /\ UNCHANGED <<profile, user, relay, frame, router, focus>>
  BY DEF DisableInput, adapter
<1>2. /\ socket' = socket \o (IF IsV2 THEN <<Event("deactivate"), Event("done")>>
                              ELSE <<Event("deactivate")>>)
      /\ app' = IF IsV2 THEN app ELSE [app EXCEPT !.down = {}, !.covered = {}, !.mods = UserMods]
  BY DEF DisableInput
<1>3. desk \in Desk /\ socket \in Seq(Events) /\ app \in App
  BY TypesFacts
<1>4. desk' \in Desk /\ ~desk'.active /\ desk'.epoch = desk.epoch /\ ~desk'.grabbed
  BY <1>1, <1>3 DEF Desk
<1>5. running = "yes" /\ UNCHANGED running /\ budget' \in [BudgetKinds -> Nat]
  BY <1>1, SpendFacts DEF BudgetKinds
<1>6. UserMods \in Masks
  BY DEF UserMods, Masks
<1>7. app' \in App /\ app'.faults = app.faults /\ app'.owed = app.owed
      /\ app'.down = IF IsV2 THEN app.down ELSE {}
  <2>1. CASE IsV2
    BY <1>2, <1>3, <2>1
  <2>2. CASE ~IsV2
    <3>1. app' = [app EXCEPT !.down = {}, !.covered = {}, !.mods = UserMods]
      BY <1>2, <2>2
    <3> QED BY <1>3, <1>6, <2>2, <3>1 DEF App
  <2> QED BY <2>1, <2>2
<1> DEFINE off == Event("deactivate")
           done == Event("done")
<1>8. off \in Events /\ done \in Events /\ off.type = "deactivate" /\ done.type = "done"
  BY DEF Events, Event
<1>9. socket' = socket \o IF IsV2 THEN <<off, done>> ELSE <<off>>
  BY <1>2
<1> HIDE DEF off, done
<1>10. \E new \in Seq(Events), m \in {1, 2} :
         /\ socket' = socket \o new /\ Len(new) = m
         /\ new[1].type = "deactivate"
         /\ m = IF IsV2 THEN 2 ELSE 1
         /\ IsV2 => new[2].type = "done"
  <2>1. CASE IsV2
    <3> DEFINE new == <<off, done>>
    <3>1. new \in Seq(Events) /\ Len(new) = 2 /\ new[1] = off /\ new[2] = done
      BY <1>8
    <3>2. socket' = socket \o new
      BY <1>9, <2>1
    <3> HIDE DEF new
    <3> QED BY <1>8, <2>1, <3>1, <3>2
  <2>2. CASE ~IsV2
    <3> DEFINE new == <<off>>
    <3>1. new \in Seq(Events) /\ Len(new) = 1 /\ new[1] = off
      BY <1>8
    <3>2. socket' = socket \o new
      BY <1>9, <2>2
    <3> HIDE DEF new
    <3> QED BY <1>8, <2>2, <3>1, <3>2
  <2> QED BY <2>1, <2>2
<1>11. socket' \in Seq(Events)
  <2>1. PICK new \in Seq(Events) : socket' = socket \o new
    BY <1>10
  <2> QED BY <1>3, <2>1
<1> QED BY <1>1, <1>4, <1>5, <1>7, <1>10, <1>11 DEF DisableDigest

(* An enabled one reports its text, or something else.                     *)
Report == {e \in Events : e.type = "surrounding_text" => e.epoch = desk.epoch}

ReportDigest ==
  /\ running = "yes" /\ budget' \in [BudgetKinds -> Nat] /\ desk.active
  /\ socket' \in Seq(Events)
  /\ \E new \in Seq(Report) :
       /\ socket' = socket \o new
       /\ \A i \in DOMAIN new : new[i].type \notin {"activate", "deactivate", "key", "mods"}
  /\ UNCHANGED <<profile, user, desk, running, relay, frame, router, focus, app>>

(* A text input reports its text.                                          *)
LEMMA ReportFacts == ASSUME Types, ReportInput PROVE ReportDigest
<1> DEFINE text == TextEvent(desk.epoch)
           Plain == {e \in Report : e.type \notin {"activate", "deactivate", "key", "mods"}}
<1>1. /\ Spend("inputs") /\ desk.active
      /\ UNCHANGED <<profile, user, desk, relay, frame, router, focus, app>>
  BY DEF ReportInput, adapter
<1>2. running = "yes" /\ UNCHANGED running /\ budget' \in [BudgetKinds -> Nat]
  BY <1>1, SpendFacts DEF BudgetKinds
<1>3. desk \in Desk /\ desk.epoch \in Nat /\ socket \in Seq(Events)
  BY TypesFacts DEF Desk
<1>4. text \in Plain
  BY <1>3 DEF Report, Events, TextEvent
<1>5. \A type \in {"cause", "done", "content_type", "commit_state", "reset"} : Event(type) \in Plain
  BY DEF Report, Events, Event
<1>6. \/ socket' = socket \o <<text, Event("cause"), Event("done")>>
      \/ socket' = socket \o <<Event("content_type"), Event("done")>>
      \/ socket' = socket \o <<text, Event("commit_state")>>
      \/ socket' = socket \o <<text>>
      \/ socket' = socket \o <<Event("content_type")>>
      \/ socket' = socket \o <<Event("reset")>>
  BY DEF ReportInput
<1> HIDE DEF text, Plain
<1>7. /\ <<text, Event("cause"), Event("done")>> \in Seq(Plain)
      /\ <<Event("content_type"), Event("done")>> \in Seq(Plain)
      /\ <<text, Event("commit_state")>> \in Seq(Plain)
      /\ <<text>> \in Seq(Plain)
      /\ <<Event("content_type")>> \in Seq(Plain)
      /\ <<Event("reset")>> \in Seq(Plain)
  BY <1>4, <1>5
<1>8. PICK new \in Seq(Plain) : socket' = socket \o new
  BY <1>6, <1>7
<1>9. new \in Seq(Report) /\ new \in Seq(Events)
      /\ \A i \in DOMAIN new : new[i].type \notin {"activate", "deactivate", "key", "mods"}
  BY DEF Plain, Report
<1>10. socket' \in Seq(Events)
  BY <1>3, <1>8, <1>9
<1> QED BY <1>1, <1>2, <1>8, <1>9, <1>10 DEF ReportDigest

(* Time passes, and the user switches the input method on or off.          *)
LEMMA TimeoutFacts ==
  ASSUME Types, EchoTimeout
  PROVE  /\ budget' \in [BudgetKinds -> Nat]
         /\ relay' \in KeyStates /\ relay'.held = relay.held
         /\ app' \in App /\ app'.down = app.down /\ app'.faults = app.faults /\ app'.owed = app.owed
         /\ UNCHANGED <<profile, user, desk, socket, running, frame, router, focus>>
<1>1. /\ Spend("others")
      /\ relay' = [relay EXCEPT !.late = TRUE]
      /\ app' = [app EXCEPT !.stray = TRUE]
      /\ UNCHANGED <<profile, user, desk, socket, frame, router, focus>>
  BY DEF EchoTimeout
<1>2. UNCHANGED running /\ budget' \in [BudgetKinds -> Nat]
  BY <1>1, SpendFacts DEF BudgetKinds
<1>3. relay \in KeyStates /\ app \in App
  BY TypesFacts
<1>4. relay' \in KeyStates /\ relay'.held = relay.held
  BY <1>1, <1>3, StampsTyped
<1>5. app' \in App /\ app'.down = app.down /\ app'.faults = app.faults /\ app'.owed = app.owed
  BY <1>1, <1>3 DEF App
<1> QED BY <1>1, <1>2, <1>4, <1>5

(* The tray turns the daemon on or off; the session stays.                 *)
LEMMA ToggleFacts ==
  ASSUME Types, Toggle
  PROVE  /\ budget' \in [BudgetKinds -> Nat] /\ router' \in Router /\ SameSession
         /\ UNCHANGED <<profile, user, desk, socket, running, relay, frame, focus, app>>
<1>1. /\ Spend("others")
      /\ router' = [router EXCEPT !.on = ~router.on]
      /\ UNCHANGED <<profile, user, desk, socket, relay, frame, focus, app>>
  BY DEF Toggle
<1>2. UNCHANGED running /\ budget' \in [BudgetKinds -> Nat]
  BY <1>1, SpendFacts DEF BudgetKinds
<1>3. router \in Router
  BY TypesFacts
<1>4. (~router.on) \in BOOLEAN
  OBVIOUS
<1>5. router' \in Router /\ SameSession
  BY <1>1, <1>3, <1>4 DEF Router, SameSession
<1> QED BY <1>1, <1>2, <1>5

(* All that the environment does.                                          *)
LEMMA OutsideTyped ==
  ASSUME Types, Press \/ Release \/ Compositor \/ EchoTimeout \/ Toggle
  PROVE  Types'
<1>1. CASE Press \/ Release
  <2>1. PICK key \in UserKeys, value \in {0, 1} : UserKey(key, value)
    BY <1>1, TypesFacts DEF Press, Release
  <2> QED BY <2>1, UserFacts, TypesFacts, TypesStep DEF UserDigest
<1>2. CASE Compositor
  <2>1. CASE EnableInput
    BY <2>1, EnableFacts, TypesFacts, TypesStep DEF EnableDigest
  <2>2. CASE DisableInput
    BY <2>2, DisableFacts, TypesFacts, TypesStep DEF DisableDigest
  <2>3. CASE ReportInput
    BY <2>3, ReportFacts, TypesFacts, TypesStep DEF ReportDigest
  <2>4. CASE ~EnableInput /\ ~DisableInput /\ ~ReportInput
    <3>1. QuietDigest
      BY <1>2, <2>4, QuietFacts DEF Compositor
    <3>2. PICK new \in Seq(Quiet) : socket' = socket \o new
      BY <3>1 DEF QuietDigest, Adds
    <3>3. new \in Seq(Events)
      BY DEF Quiet
    <3>4. socket' \in Seq(Events)
      BY <3>2, <3>3, TypesFacts
    <3> QED BY <3>1, <3>4, TypesFacts, TypesStep DEF QuietDigest
  <2> QED BY <2>1, <2>2, <2>3, <2>4
<1>3. CASE EchoTimeout
  BY <1>3, TimeoutFacts, TypesFacts, TypesStep
<1>4. CASE Toggle
  BY <1>4, ToggleFacts, TypesFacts, TypesStep
<1> QED BY <1>1, <1>2, <1>3, <1>4

(* The initial states have their types.                                    *)
LEMMA InitTyped == ASSUME Init PROVE Types
<1>1. profile \in Profiles /\ user \subseteq UserKeys /\ running \in {"yes", "exiting", "no"}
  BY DEF Init
<1>2. budget \in [BudgetKinds -> Nat]
  BY AdapterAssumption DEF Init
<1>3. <<>> \in Seq(Events) /\ <<>> \in Seq(Masks) /\ <<>> \in Seq(Apps \cup {Nil})
  OBVIOUS
<1>4. socket \in Seq(Events)
  BY <1>3 DEF Init
<1>5. desk \in Desk
  BY DEF Init, Desk
<1>6. relay \in Relay /\ relay.held = None
  BY <1>3 DEF Init, NewRelay, Relay, Masks
<1>7. frame \in Frame
  BY DEF Init, Frame
<1>8. router \in Router
  BY DEF Init, Router
<1>9. focus \in Tracker
  BY <1>3 DEF Init, NewTracker, Tracker
<1>10. app \in App
  BY DEF Init, App, Masks
<1> QED BY <1>1, <1>2, <1>4, <1>5, <1>6, <1>7, <1>8, <1>9, <1>10 DEF Types, TypeOK

(* Types is inductive.                                                     *)
LEMMA NextTyped == ASSUME Types, [Next]_vars PROVE Types'
<1>1. CASE UNCHANGED vars
  <2>1. UNCHANGED <<profile, user, desk, socket, relay, frame, router, focus, app, running, budget>>
    BY <1>1 DEF vars
  <2> QED BY <2>1, TypesFacts, TypesStep
<1>2. CASE Keyboard
  BY <1>2, KeyboardTyped
<1>3. CASE Input
  BY <1>3, InputTyped
<1>4. CASE WindowFields
  BY <1>4, WindowsTyped
<1>5. CASE Loop
  BY <1>5, LoopTyped
<1>6. CASE Press \/ Release \/ Compositor \/ EchoTimeout \/ Toggle
  BY <1>6, OutsideTyped
<1> QED BY <1>1, <1>2, <1>3, <1>4, <1>5, <1>6 DEF Next

(* Every variable keeps its type, through every handler and whatever the   *)
(* compositor, the user and the clock do; the repeat timer holds a key     *)
(* only while the rate is positive (set_info cancels it).                  *)
THEOREM AdapterTypeCorrect == Spec => []TypeOK
<1>1. Init => Types
  BY InitTyped
<1>2. Types /\ [Next]_vars => Types'
  BY NextTyped
<1>3. Types => TypeOK
  BY DEF Types
<1> QED BY <1>1, <1>2, <1>3, PTL DEF Spec

-----------------------------------------------------------------------------
(* Acknowledgements.                                                       *)

(* No handler leaves a done unanswered.                                    *)
LEMMA AcknowledgedStep ==
  ASSUME Types, DoneAcknowledged, [Next]_vars
  PROVE  DoneAcknowledged'
<1> USE DEF DoneAcknowledged
<1>1. CASE UNCHANGED vars
  BY <1>1 DEF vars
<1>2. CASE Keyboard
  BY <1>2, PressDigest, ReleaseDigest, RepeatDigest, ModifiersDigest, RepeatInfoDigest
     DEF Keyboard, KeyDigest
<1>3. CASE FillFrame
  BY <1>3, FillFacts DEF FillDigest
<1>4. CASE DeactivateV2 \/ DeactivateV1
  BY <1>4, DeactivateFacts
<1>5. CASE Done \/ CommitState \/ EndOfDispatch
  BY <1>5, AppliesFacts DEF AppliesFrame, DoneDigest
<1>6. CASE ResetV1
  BY <1>6, ResetV1Facts
<1>7. CASE Unavailable
  BY <1>7 DEF Unavailable
<1>8. CASE WindowFields
  BY <1>8, WindowFacts DEF WindowDigest
<1>9. CASE RepeatFires
  BY <1>9, FiresFacts
<1>10. CASE FocusChanges
  BY <1>10, FocusFacts
<1>11. CASE Teardown
  BY <1>11, TeardownFacts
<1>12. CASE Press \/ Release
  <2>1. PICK key \in UserKeys, value \in {0, 1} : UserKey(key, value)
    BY <1>12, TypesFacts DEF Press, Release
  <2> QED BY <2>1, UserFacts DEF UserDigest
<1>13. CASE Compositor
  BY <1>13, EnableFacts, DisableFacts, ReportFacts, QuietFacts
     DEF Compositor, EnableDigest, DisableDigest, ReportDigest, QuietDigest
<1>14. CASE EchoTimeout
  BY <1>14, TimeoutFacts
<1>15. CASE Toggle
  BY <1>15, ToggleFacts
<1> QED BY <1>1, <1>2, <1>3, <1>4, <1>5, <1>6, <1>7, <1>8, <1>9, <1>10, <1>11, <1>12, <1>13, <1>14,
           <1>15 DEF Next, Input, Loop

(* Every done of the compositor is answered with a commit in the same      *)
(* handler, by the edit it causes or by the heartbeat, whatever state the  *)
(* frame, the session and the repair are in.                               *)
THEOREM AdapterAcknowledges == Spec => []DoneAcknowledged
<1>1. Init => Types /\ DoneAcknowledged
  BY InitTyped DEF Init, DoneAcknowledged
<1>2. Types /\ DoneAcknowledged /\ [Next]_vars => Types' /\ DoneAcknowledged'
  BY NextTyped, AcknowledgedStep
<1> QED BY <1>1, <1>2, PTL DEF Spec

-----------------------------------------------------------------------------
(* The queue of key events.                                                *)

(* The events of a step: the first d are gone, those after them have moved *)
(* up, and behind them come events of S.                                   *)
Shifted(d, S) ==
  /\ \A i \in DOMAIN socket : i > d => i - d \in DOMAIN socket' /\ socket'[i - d] = socket[i]
  /\ \A j \in DOMAIN socket' :
       \/ j + d \in DOMAIN socket /\ socket'[j] = socket[j + d]
       \/ j + d > Len(socket) /\ socket'[j] \in S

(* Events that neither press nor release a key nor turn a text input on or *)
(* off.                                                                    *)
Mild ==
  {e \in Events : /\ e.type = "key" => e.value = 2
                  /\ e.type \notin {"activate", "deactivate"}}

(* The places of the socket are 1, ..., Len(socket).                       *)
LEMMA PlacesFacts ==
  ASSUME Types
  PROVE  /\ Len(socket) \in Nat /\ DOMAIN socket = 1 .. Len(socket)
         /\ \A i \in DOMAIN socket : i \in Nat /\ i > 0 /\ socket[i] \in Events
<1>1. socket \in Seq(Events)
  BY TypesFacts
<1> QED BY <1>1

(* Events are added, after one is taken or without.                        *)
LEMMA AddedShift ==
  ASSUME Types, NEW S, S \subseteq Events, NEW new \in Seq(S), socket' = socket \o new
  PROVE  Shifted(0, S)
<1>1. socket \in Seq(Events) /\ new \in Seq(Events)
  BY TypesFacts
<1>2. /\ DOMAIN socket = 1 .. Len(socket) /\ Len(socket) \in Nat /\ Len(new) \in Nat
      /\ DOMAIN new = 1 .. Len(new)
      /\ \A i \in DOMAIN socket : i \in DOMAIN socket' /\ socket'[i] = socket[i]
      /\ \A j \in DOMAIN socket' :
           \/ j \in DOMAIN socket
           \/ j > Len(socket) /\ j - Len(socket) \in DOMAIN new
              /\ socket'[j] = new[j - Len(socket)]
      /\ DOMAIN socket' = 1 .. (Len(socket) + Len(new))
  BY <1>1, ConcatFacts
<1>3. \A i \in DOMAIN new : new[i] \in S
  OBVIOUS
<1>4. \A i \in DOMAIN socket : i - 0 = i
  BY <1>2
<1>5. \A j \in DOMAIN socket' : j + 0 = j
  BY <1>2
<1> QED BY <1>2, <1>3, <1>4, <1>5 DEF Shifted

(* The first event is taken and others come behind the rest.               *)
LEMMA TakenShift ==
  ASSUME Types, socket # <<>>, NEW S, S \subseteq Events, NEW new \in Seq(S),
         socket' = Tail(socket) \o new
  PROVE  Shifted(1, S)
<1> DEFINE rest == Tail(socket)
<1>1. socket \in Seq(Events) /\ new \in Seq(Events)
  BY TypesFacts
<1>2. /\ rest \in Seq(Events) /\ Len(rest) = Len(socket) - 1 /\ Len(socket) \in Nat
      /\ \A i \in 1 .. Len(rest) : rest[i] = socket[i + 1]
  BY <1>1, TailFacts
<1>3. DOMAIN socket = 1 .. Len(socket)
  BY <1>1
<1>4. socket' = rest \o new
  OBVIOUS
<1> HIDE DEF rest
<1>5. /\ DOMAIN rest = 1 .. Len(rest) /\ Len(rest) \in Nat /\ Len(new) \in Nat
      /\ DOMAIN new = 1 .. Len(new)
      /\ \A i \in DOMAIN rest : i \in DOMAIN socket' /\ socket'[i] = rest[i]
      /\ \A j \in DOMAIN socket' :
           \/ j \in DOMAIN rest
           \/ j > Len(rest) /\ j - Len(rest) \in DOMAIN new /\ socket'[j] = new[j - Len(rest)]
      /\ DOMAIN socket' = 1 .. (Len(rest) + Len(new))
  BY <1>1, <1>2, <1>4, ConcatFacts
<1>6. \A i \in DOMAIN new : new[i] \in S
  OBVIOUS
<1>7. ASSUME NEW i \in DOMAIN socket, i > 1
      PROVE  i - 1 \in DOMAIN socket' /\ socket'[i - 1] = socket[i]
  <2>1. i - 1 \in 1 .. Len(rest) /\ (i - 1) + 1 = i
    BY <1>2, <1>3, <1>7
  <2> QED BY <1>2, <1>5, <2>1
<1>8. ASSUME NEW j \in DOMAIN socket'
      PROVE  \/ j + 1 \in DOMAIN socket /\ socket'[j] = socket[j + 1]
             \/ j + 1 > Len(socket) /\ socket'[j] \in S
  <2>1. CASE j \in DOMAIN rest
    <3>1. j \in 1 .. Len(rest) /\ j + 1 \in 1 .. Len(socket)
      BY <1>2, <1>5, <2>1
    <3> QED BY <1>2, <1>3, <1>5, <2>1, <3>1
  <2>2. CASE j > Len(rest) /\ j - Len(rest) \in DOMAIN new /\ socket'[j] = new[j - Len(rest)]
    <3>1. j + 1 > Len(socket)
      BY <1>2, <1>5, <2>2
    <3> QED BY <1>6, <2>2, <3>1
  <2> QED BY <1>5, <1>8, <2>1, <2>2
<1> QED BY <1>7, <1>8 DEF Shifted

(* The ways in which a handler leaves the socket, as shifts.               *)
LEMMA LeavesShift ==
  ASSUME Types
  PROVE  /\ Leaves(socket) => Shifted(0, ModsEvents)
         /\ socket # <<>> /\ Leaves(Tail(socket)) => Shifted(1, ModsEvents)
         /\ UNCHANGED socket => Shifted(0, {})
         /\ socket # <<>> /\ socket' = Tail(socket) => Shifted(1, {})
<1>1. ModsEvents \subseteq Events /\ {} \subseteq Events /\ <<>> \in Seq({})
  BY DEF Events
<1>2. socket \in Seq(Events) /\ (socket # <<>> => Tail(socket) \in Seq(Events))
  BY TypesFacts
<1>3. socket = socket \o <<>>
  BY <1>2
<1>4. socket # <<>> => Tail(socket) = Tail(socket) \o <<>>
  BY <1>2
<1>5. Leaves(socket) => Shifted(0, ModsEvents)
  BY <1>1, AddedShift DEF Leaves
<1>6. socket # <<>> /\ Leaves(Tail(socket)) => Shifted(1, ModsEvents)
  BY <1>1, TakenShift DEF Leaves
<1>7. UNCHANGED socket => Shifted(0, {})
  BY <1>1, <1>3, AddedShift
<1>8. socket # <<>> /\ socket' = Tail(socket) => Shifted(1, {})
  BY <1>1, <1>4, TakenShift
<1> QED BY <1>5, <1>6, <1>7, <1>8

(* Fewer events may come behind.                                           *)
LEMMA ShiftMore ==
  ASSUME NEW d, NEW S, NEW T, S \subseteq T, Shifted(d, S) PROVE Shifted(d, T)
BY DEF Shifted

(* Echoes and quiet events are mild.                                       *)
LEMMA MildEvents ==
  ModsEvents \subseteq Mild /\ Quiet \subseteq Mild /\ {} \subseteq Mild /\ Mild \subseteq Events
BY DEF ModsEvents, Mild, Quiet, Events

(* What waits in the queue at a place.                                     *)
Is(i, type) == socket[i].type = type
PressAt(i, key) == Is(i, "key") /\ socket[i].key = key /\ socket[i].value = 1
ReleaseAt(i, key) == Is(i, "key") /\ socket[i].key = key /\ socket[i].value = 0

(* With protocol v1, a deactivation ends every press before it: the        *)
(* application has lost the keyboard focus.                                *)
Ends(i, key) == ReleaseAt(i, key) \/ (~IsV2 /\ Is(i, "deactivate"))

Current(epoch) == desk.active /\ epoch = desk.epoch

(* A press that waits is of a key still down, or its end waits behind it.  *)
PressesEnd ==
  \A i \in DOMAIN socket, key \in UserKeys :
    PressAt(i, key) => key \in user \/ \E j \in DOMAIN socket : j > i /\ Ends(j, key)

(* Without the grab, the deactivation that ended it still waits.           *)
UngrabbedEnd ==
  ~KeysGrabbed /\ running # "no" =>
    \A i \in DOMAIN socket, key \in UserKeys :
      PressAt(i, key) => \E j \in DOMAIN socket : j > i /\ Is(j, "deactivate")

UngrabbedHeld ==
  ~KeysGrabbed /\ running # "no" /\ relay.held # None => \E j \in DOMAIN socket : Is(j, "deactivate")

(* The key that the timer repeats is down, or its end waits.               *)
HeldEnds ==
  running # "no" /\ relay.held # None =>
    relay.held \in user \/ \E j \in DOMAIN socket : Ends(j, relay.held)

(* A context whose deactivation waits is the application's no longer.      *)
ContextGone ==
  ~IsV2 => \A j \in DOMAIN socket :
    Is(j, "deactivate") =>
      /\ ~Current(frame.ctx)
      /\ \A i \in DOMAIN socket : i < j /\ Is(i, "activate") => ~Current(socket[i].epoch)

(* Text inputs are numbered in the order they are enabled in.              *)
EpochsGrow ==
  /\ desk.active => desk.epoch > 0
  /\ frame.ctx <= desk.epoch
  /\ \A i \in DOMAIN socket :
       Is(i, "activate") => frame.ctx < socket[i].epoch /\ socket[i].epoch <= desk.epoch
  /\ \A i, j \in DOMAIN socket :
       i < j /\ Is(i, "activate") /\ Is(j, "activate") => socket[i].epoch < socket[j].epoch

(* The grab of protocol v1 is that of the current context.                 *)
GrabCurrent == ~IsV2 /\ desk.grabbed => Current(frame.ctx) /\ frame.ctx # 0

(* A key that the application has down is down, or the grab will release   *)
(* it.                                                                     *)
DownEnds ==
  \A key \in app.down : key \in user \/ (KeysGrabbed /\ \E j \in DOMAIN socket : ReleaseAt(j, key))

Queue == PressesEnd /\ UngrabbedEnd /\ ContextGone /\ EpochsGrow /\ GrabCurrent
KeyQueue == Queue /\ UngrabbedHeld /\ HeldEnds /\ DownEnds

(* The events move up, and mild ones come behind them.                     *)
Moves(d) ==
  d \in {0, 1} /\ Shifted(d, Mild) /\ socket' \in Seq(Events) /\ UNCHANGED profile

(* ... after which whatever presses, releases or turns was there before.   *)
LEMMA MovesPlaces ==
  ASSUME Types, NEW d, Moves(d)
  PROVE  /\ IsV2' = IsV2
         /\ \A i \in DOMAIN socket : i > d =>
              /\ i - d \in DOMAIN socket'
              /\ \A type : Is(i - d, type)' <=> Is(i, type)
              /\ \A key : (ReleaseAt(i - d, key)' <=> ReleaseAt(i, key))
                            /\ (Ends(i - d, key)' <=> Ends(i, key))
         /\ \A j \in DOMAIN socket' :
              /\ j \in Nat /\ j > 0
              /\ \/ \E key : PressAt(j, key)'
                 \/ Is(j, "activate")' \/ Is(j, "deactivate")'
                 => j + d \in DOMAIN socket /\ socket'[j] = socket[j + d]
<1>1. IsV2' = IsV2
  BY DEF Moves, IsV2
<1>2. ASSUME NEW i \in DOMAIN socket, i > d
      PROVE  i - d \in DOMAIN socket' /\ socket'[i - d] = socket[i]
  BY <1>2 DEF Moves, Shifted
<1>3. ASSUME NEW i \in DOMAIN socket, i > d
      PROVE  /\ i - d \in DOMAIN socket'
             /\ \A type : Is(i - d, type)' <=> Is(i, type)
             /\ \A key : (ReleaseAt(i - d, key)' <=> ReleaseAt(i, key))
                           /\ (Ends(i - d, key)' <=> Ends(i, key))
  <2>1. i - d \in DOMAIN socket' /\ socket'[i - d] = socket[i]
    BY <1>2, <1>3
  <2> QED BY <1>1, <2>1 DEF Is, ReleaseAt, Ends
<1>4. ASSUME NEW j \in DOMAIN socket',
             \/ \E key : PressAt(j, key)'
             \/ Is(j, "activate")' \/ Is(j, "deactivate")'
      PROVE  j + d \in DOMAIN socket /\ socket'[j] = socket[j + d]
  <2>1. socket'[j] \notin Mild
    BY <1>4 DEF PressAt, Is, Mild
  <2> QED BY <2>1 DEF Moves, Shifted
<1>5. \A j \in DOMAIN socket' : j \in Nat /\ j > 0
  BY DEF Moves
<1> QED BY <1>1, <1>3, <1>4, <1>5

(* Presses keep their ends.                                                *)
LEMMA MovesPresses ==
  ASSUME Types, Queue, NEW d, Moves(d), UNCHANGED user
  PROVE  /\ PressesEnd'
         /\ (running' # "no" => running # "no") /\ (KeysGrabbed => KeysGrabbed') => UngrabbedEnd'
<1>1. d \in {0, 1}
  BY DEF Moves
<1>2. /\ IsV2' = IsV2
      /\ \A i \in DOMAIN socket : i > d =>
           /\ i - d \in DOMAIN socket'
           /\ \A type : Is(i - d, type)' <=> Is(i, type)
           /\ \A key : Ends(i - d, key)' <=> Ends(i, key)
      /\ \A j \in DOMAIN socket' :
           /\ j \in Nat /\ j > 0
           /\ (\E key : PressAt(j, key)') => j + d \in DOMAIN socket /\ socket'[j] = socket[j + d]
  BY MovesPlaces
<1>3. \A i \in DOMAIN socket : i \in Nat
  BY PlacesFacts
<1>4. ASSUME NEW i \in DOMAIN socket', NEW key \in UserKeys, PressAt(i, key)'
      PROVE  i + d \in DOMAIN socket /\ PressAt(i + d, key) /\ i \in Nat
  BY <1>2, <1>4 DEF PressAt, Is
<1>5. PressesEnd'
  <2>1. ASSUME NEW i \in DOMAIN socket', NEW key \in UserKeys, PressAt(i, key)', key \notin user
        PROVE  \E j \in DOMAIN socket' : j > i /\ Ends(j, key)'
    <3>1. PICK j \in DOMAIN socket : j > i + d /\ Ends(j, key)
      BY <1>4, <2>1 DEF Queue, PressesEnd
    <3>2. j > d /\ j - d > i
      BY <1>1, <1>3, <1>4, <2>1, <3>1
    <3> QED BY <1>2, <3>1, <3>2
  <2> QED BY <1>1, <2>1 DEF PressesEnd
<1>6. ASSUME running' # "no" => running # "no", KeysGrabbed => KeysGrabbed' PROVE UngrabbedEnd'
  <2>1. ASSUME ~KeysGrabbed, running' # "no",
               NEW i \in DOMAIN socket', NEW key \in UserKeys, PressAt(i, key)'
        PROVE  \E j \in DOMAIN socket' : j > i /\ Is(j, "deactivate")'
    <3>1. PICK j \in DOMAIN socket : j > i + d /\ Is(j, "deactivate")
      BY <1>4, <1>6, <2>1 DEF Queue, UngrabbedEnd
    <3>2. j > d /\ j - d > i
      BY <1>1, <1>3, <1>4, <2>1, <3>1
    <3> QED BY <1>2, <3>1, <3>2
  <2> QED BY <1>6, <2>1 DEF UngrabbedEnd
<1> QED BY <1>5, <1>6

(* Contexts keep their order, when the new one fits in.                    *)
LEMMA MovesContexts ==
  ASSUME Types, Queue, NEW d, Moves(d),
         desk'.active = desk.active, desk'.epoch = desk.epoch, NEW ctx, frame'.ctx = ctx,
         \A j \in DOMAIN socket : ~IsV2 /\ j > d /\ Is(j, "deactivate") => ~Current(ctx),
         ctx <= desk.epoch,
         \A i \in DOMAIN socket : i > d /\ Is(i, "activate") => ctx < socket[i].epoch
  PROVE  ContextGone' /\ EpochsGrow'
<1>1. d \in {0, 1}
  BY DEF Moves
<1>2. /\ IsV2' = IsV2 /\ \A c : Current(c)' <=> Current(c)
      /\ \A j \in DOMAIN socket' :
           /\ j \in Nat /\ j > 0
           /\ Is(j, "activate")' \/ Is(j, "deactivate")'
              => j + d \in DOMAIN socket /\ socket'[j] = socket[j + d]
  BY MovesPlaces DEF Current
<1>3. ASSUME NEW i \in DOMAIN socket', Is(i, "activate")' \/ Is(i, "deactivate")'
      PROVE  /\ i + d \in DOMAIN socket /\ i \in Nat /\ socket'[i] = socket[i + d]
             /\ \A type : Is(i, type)' <=> Is(i + d, type)
             /\ i + d > d
  BY <1>1, <1>2, <1>3 DEF Is
<1>4. ContextGone'
  <2>1. ASSUME ~IsV2, NEW j \in DOMAIN socket', Is(j, "deactivate")'
        PROVE  ~Current(ctx)
    BY <1>3, <2>1
  <2>2. ASSUME ~IsV2, NEW j \in DOMAIN socket', Is(j, "deactivate")',
               NEW i \in DOMAIN socket', i < j, Is(i, "activate")'
        PROVE  ~Current(socket'[i].epoch)
    <3>1. /\ i + d \in DOMAIN socket /\ j + d \in DOMAIN socket /\ socket'[i] = socket[i + d]
          /\ Is(i + d, "activate") /\ Is(j + d, "deactivate") /\ i \in Nat /\ j \in Nat
      BY <1>3, <2>2
    <3>2. i + d < j + d
      BY <1>1, <2>2, <3>1
    <3> QED BY <2>2, <3>1, <3>2 DEF Queue, ContextGone
  <2> QED BY <1>2, <2>1, <2>2 DEF ContextGone, Current
<1>5. EpochsGrow'
  <2>1. ASSUME NEW i \in DOMAIN socket', Is(i, "activate")'
        PROVE  ctx < socket'[i].epoch /\ socket'[i].epoch <= desk.epoch
    BY <1>3, <2>1 DEF Queue, EpochsGrow
  <2>2. ASSUME NEW i \in DOMAIN socket', NEW j \in DOMAIN socket', i < j,
               Is(i, "activate")', Is(j, "activate")'
        PROVE  socket'[i].epoch < socket'[j].epoch
    <3>1. /\ i + d \in DOMAIN socket /\ j + d \in DOMAIN socket /\ socket'[i] = socket[i + d]
          /\ socket'[j] = socket[j + d]
          /\ Is(i + d, "activate") /\ Is(j + d, "activate") /\ i \in Nat /\ j \in Nat
      BY <1>3, <2>2
    <3>2. i + d < j + d
      BY <1>1, <2>2, <3>1
    <3> QED BY <3>1, <3>2 DEF Queue, EpochsGrow
  <2> QED BY <2>1, <2>2 DEF Queue, EpochsGrow
<1> QED BY <1>4, <1>5

(* A step that only passes an event on.                                    *)
Passing(d) ==
  /\ Moves(d) /\ UNCHANGED user /\ (running' # "no" => running # "no")
  /\ desk'.active = desk.active /\ desk'.epoch = desk.epoch /\ desk'.grabbed = desk.grabbed
  /\ frame'.ctx = frame.ctx

(* The queue of key events survives a step that only passes an event on.   *)
LEMMA PassingQueue ==
  ASSUME Types, Queue, NEW d, Passing(d) PROVE Queue' /\ KeysGrabbed' = KeysGrabbed
<1>1. /\ Moves(d) /\ UNCHANGED user /\ UNCHANGED profile
      /\ desk'.active = desk.active /\ desk'.epoch = desk.epoch /\ desk'.grabbed = desk.grabbed
      /\ frame'.ctx = frame.ctx
  BY DEF Passing, Moves
<1>2. KeysGrabbed' = KeysGrabbed
  BY <1>1 DEF KeysGrabbed, IsV2
<1>3. PressesEnd' /\ UngrabbedEnd'
  BY <1>1, <1>2, MovesPresses DEF Passing
<1>4. ContextGone' /\ EpochsGrow'
  BY <1>1, MovesContexts DEF Queue, ContextGone, EpochsGrow
<1>5. GrabCurrent'
  BY <1>1 DEF Queue, GrabCurrent, Current, IsV2
<1> QED BY <1>2, <1>3, <1>4, <1>5 DEF Queue

(* The timer and the application keep what they had, or drop it.           *)
KeepsKeys(d) ==
  /\ Passing(d) /\ relay'.held \in {relay.held, None} /\ app'.down \subseteq app.down
  /\ d = 1 /\ relay'.held # None => ~Ends(1, relay'.held) /\ ~Is(1, "deactivate")
  /\ d = 1 /\ KeysGrabbed => \A key \in app'.down : ~ReleaseAt(1, key)

(* ... and so do the keys of the timer and of the application.             *)
LEMMA KeepsKeyQueue ==
  ASSUME Types, KeyQueue, NEW d, KeepsKeys(d) PROVE KeyQueue'
<1>1. /\ Passing(d) /\ Moves(d) /\ d \in {0, 1} /\ UNCHANGED user
      /\ (running' # "no" => running # "no")
  BY DEF KeepsKeys, Passing, Moves
<1>2. /\ IsV2' = IsV2 /\ KeysGrabbed' = KeysGrabbed
      /\ \A i \in DOMAIN socket : i > d =>
           /\ i - d \in DOMAIN socket'
           /\ \A type : Is(i - d, type)' <=> Is(i, type)
           /\ \A key : (ReleaseAt(i - d, key)' <=> ReleaseAt(i, key))
                         /\ (Ends(i - d, key)' <=> Ends(i, key))
  BY <1>1, MovesPlaces, PassingQueue DEF KeyQueue
<1>3. \A i \in DOMAIN socket : i \in Nat /\ i > 0 /\ (i # 1 \/ d = 0 => i > d)
  BY <1>1, PlacesFacts
<1>4. Queue'
  BY <1>1, PassingQueue DEF KeyQueue
<1>5. UngrabbedHeld'
  <2>1. ASSUME ~KeysGrabbed, running' # "no", relay'.held # None
        PROVE  \E j \in DOMAIN socket' : Is(j, "deactivate")'
    <3>1. PICK j \in DOMAIN socket : Is(j, "deactivate")
      BY <1>1, <2>1 DEF KeyQueue, UngrabbedHeld, KeepsKeys
    <3>2. j > d
      BY <1>3, <1>1, <2>1, <3>1 DEF KeepsKeys
    <3> QED BY <1>2, <3>1, <3>2
  <2> QED BY <1>2, <2>1 DEF UngrabbedHeld
<1>6. HeldEnds'
  <2>1. ASSUME running' # "no", relay'.held # None, relay'.held \notin user
        PROVE  \E j \in DOMAIN socket' : Ends(j, relay.held)'
    <3>1. PICK held : held = relay.held /\ held = relay'.held
      BY <2>1 DEF KeepsKeys
    <3>2. PICK j \in DOMAIN socket : Ends(j, held)
      BY <1>1, <2>1, <3>1 DEF KeyQueue, HeldEnds
    <3>3. j > d
      BY <1>3, <1>1, <2>1, <3>1, <3>2 DEF KeepsKeys
    <3>4. j - d \in DOMAIN socket' /\ Ends(j - d, held)'
      BY <1>2, <3>2, <3>3
    <3>5. Ends(j - d, relay.held)'
      BY <3>1, <3>4 DEF Ends, ReleaseAt
    <3> QED BY <3>4, <3>5
  <2> QED BY <1>1, <2>1 DEF HeldEnds
<1>7. DownEnds'
  <2>1. ASSUME NEW key \in app'.down, key \notin user
        PROVE  KeysGrabbed /\ \E j \in DOMAIN socket' : ReleaseAt(j, key)'
    <3>1. key \in app.down
      BY <2>1 DEF KeepsKeys
    <3>2. PICK j \in DOMAIN socket : KeysGrabbed /\ ReleaseAt(j, key)
      BY <2>1, <3>1 DEF KeyQueue, DownEnds
    <3>3. j > d
      BY <1>3, <1>1, <2>1, <3>2 DEF KeepsKeys
    <3> QED BY <1>2, <3>2, <3>3
  <2> QED BY <1>1, <1>2, <2>1 DEF DownEnds
<1> QED BY <1>4, <1>5, <1>6, <1>7 DEF KeyQueue

(* Most steps are of that kind: those that dispatch an event ...           *)
LEMMA DispatchPasses ==
  ASSUME Types, Types', socket # <<>>, Leaves(Tail(socket)) \/ socket' = Tail(socket),
         UNCHANGED <<profile, user>>, running' # "no" => running # "no",
         \A field \in {"active", "epoch", "grabbed"} : desk'[field] = desk[field],
         frame'.ctx = frame.ctx
  PROVE  Passing(1)
<1>1. Shifted(1, Mild)
  BY LeavesShift, ShiftMore, MildEvents
<1>2. socket' \in Seq(Events)
  BY DEF Types
<1> QED BY <1>1, <1>2 DEF Passing, Moves

(* ... and those that do not.                                              *)
LEMMA OtherPasses ==
  ASSUME Types, Types', Leaves(socket) \/ UNCHANGED socket \/ Adds(Quiet) \/ Adds(Mild),
         UNCHANGED <<profile, user>>, running' # "no" => running # "no",
         \A field \in {"active", "epoch", "grabbed"} : desk'[field] = desk[field],
         frame'.ctx = frame.ctx
  PROVE  Passing(0)
<1>1. ASSUME NEW S, S \subseteq Mild, Adds(S) PROVE Shifted(0, Mild)
  <2>1. S \subseteq Events
    BY <1>1, MildEvents
  <2>2. Shifted(0, S)
    BY <1>1, <2>1, AddedShift DEF Adds
  <2> QED BY <1>1, <2>2, ShiftMore
<1>2. Shifted(0, Mild)
  BY <1>1, LeavesShift, ShiftMore, MildEvents
<1>3. socket' \in Seq(Events)
  BY DEF Types
<1> QED BY <1>2, <1>3 DEF Passing, Moves

(* The event that is dispatched.                                           *)
LEMMA HeadPlace ==
  ASSUME Types, NEW type, Arrives(type)
  PROVE  /\ socket # <<>> /\ running # "no" /\ 1 \in DOMAIN socket /\ Is(1, type)
         /\ \A other : Is(1, other) => other = type
         /\ Head(socket) = socket[1]
<1>1. socket # <<>> /\ running # "no" /\ Head(socket).type = type /\ Head(socket) = socket[1]
  BY ArrivesFacts
<1>2. socket \in Seq(Events)
  BY TypesFacts
<1>3. 1 \in DOMAIN socket
  BY <1>1, <1>2
<1> QED BY <1>1, <1>3 DEF Is

(* While the keys are grabbed, requests reach the application.             *)
LEMMA GrabReaches == ASSUME Queue, KeysGrabbed PROVE Reaches
BY DEF Queue, GrabCurrent, KeysGrabbed, Current, Reaches

(* Handlers of the keyboard other than that of a press only pass an event  *)
(* on.                                                                     *)
LEMMA KeyboardKeeps ==
  ASSUME Types, Types', Queue,
         dispatch_key_release \/ dispatch_key_repeat \/ handle_modifiers \/ RepeatInfo
  PROVE  KeepsKeys(1)
<1>1. CASE dispatch_key_release
  <2> DEFINE key == Head(socket).key
  <2>1. /\ Arrives("key") /\ Head(socket).value = 0
        /\ KeyDigest(app, {relay.held, None} \ {key}, Tail(socket))
        /\ app'.down \subseteq app.down
        /\ Reaches => key \notin app'.down
        /\ UNCHANGED <<outside, focus>>
    BY <1>1, ReleaseDigest
  <2>2. socket # <<>> /\ 1 \in DOMAIN socket /\ Is(1, "key") /\ ~Is(1, "deactivate")
        /\ Head(socket) = socket[1]
    BY <2>1, HeadPlace
  <2>3. Passing(1)
    BY <2>1, <2>2, DispatchPasses DEF KeyDigest, SameFrame, outside
  <2>4. \A other : ReleaseAt(1, other) => other = key
    BY <2>2 DEF ReleaseAt
  <2>5. relay'.held \in {relay.held, None} /\ relay'.held # key
    BY <2>1 DEF KeyDigest
  <2>6. ~Ends(1, relay'.held)
    BY <2>2, <2>4, <2>5 DEF Ends
  <2> HIDE DEF key
  <2> QED BY <2>1, <2>2, <2>3, <2>4, <2>5, <2>6, GrabReaches DEF KeepsKeys
<1>2. ASSUME NEW type, type \in {"mods", "repeat_info"} \/ (type = "key" /\ Head(socket).value = 2),
             Arrives(type), KeyDigest(app, {relay.held, None}, Tail(socket)),
             app'.down \subseteq app.down, UNCHANGED <<outside, focus>>
      PROVE  KeepsKeys(1)
  <2>1. socket # <<>> /\ ~Is(1, "deactivate") /\ Head(socket) = socket[1] /\ Is(1, type)
    BY <1>2, HeadPlace
  <2>2. Passing(1)
    BY <1>2, <2>1, DispatchPasses DEF KeyDigest, SameFrame, outside
  <2>3. \A key : ~ReleaseAt(1, key)
    BY <1>2, <2>1 DEF ReleaseAt, Is
  <2>4. relay'.held \in {relay.held, None}
    BY <1>2 DEF KeyDigest
  <2> QED BY <1>2, <2>1, <2>2, <2>3, <2>4 DEF KeepsKeys, Ends
<1>3. KeyDigest(app, {relay.held}, Tail(socket)) => KeyDigest(app, {relay.held, None}, Tail(socket))
  BY DEF KeyDigest
<1>4. CASE dispatch_key_repeat
  BY <1>2, <1>3, <1>4, RepeatDigest
<1>5. CASE handle_modifiers
  BY <1>2, <1>3, <1>5, ModifiersDigest
<1>6. CASE RepeatInfo
  <2>1. app'.down \subseteq app.down
    BY <1>6, RepeatInfoDigest
  <2> QED BY <1>2, <1>6, <2>1, RepeatInfoDigest
<1> QED BY <1>1, <1>4, <1>5, <1>6

(* Dispatches that are not of keys.                                        *)
LEMMA EventKeeps ==
  ASSUME Types, Passing(1), ~Is(1, "key"),
         relay'.held = None \/ (relay'.held = relay.held /\ ~Is(1, "deactivate")),
         app'.down \subseteq app.down
  PROVE  KeepsKeys(1)
BY DEF KeepsKeys, Ends, ReleaseAt

(* So do the handlers of the input method, but for the v1 ones that grab   *)
(* and that let go.                                                        *)
LEMMA InputKeeps ==
  ASSUME Types, Types', Input, ~DeactivateV1, ~(FillFrame /\ ~IsV2 /\ Is(1, "activate"))
  PROVE  \E d \in {0, 1} : KeepsKeys(d)
<1>1. CASE FillFrame
  <2>1. FillDigest
    BY <1>1, FillFacts
  <2>2. Head(socket) = socket[1] /\ ~Is(1, "key") /\ ~Is(1, "deactivate")
    BY <2>1, TypesFacts DEF FillDigest, Is
  <2>3. ~(Head(socket).type = "activate" /\ ~IsV2)
    BY <1>1, <2>2 DEF Is
  <2>4. frame'.ctx = frame.ctx /\ desk' = [desk EXCEPT !.grabbed = @ \/ FALSE]
    BY <2>1, <2>3 DEF FillDigest
  <2>5. desk'.active = desk.active /\ desk'.epoch = desk.epoch /\ desk'.grabbed = desk.grabbed
    BY <2>4, TypesFacts DEF Desk
  <2>6. Passing(1)
    BY <2>1, <2>4, <2>5, DispatchPasses DEF FillDigest
  <2> QED BY <2>1, <2>2, <2>6, EventKeeps DEF FillDigest
<1>2. CASE DeactivateV2
  <2>1. /\ Arrives("deactivate") /\ socket' = Tail(socket) /\ relay'.held = None
        /\ UNCHANGED <<outside, focus, app>> /\ frame'.ctx = frame.ctx
    BY <1>2, DeactivateFacts DEF DeactivateV2
  <2>2. socket # <<>> /\ ~Is(1, "key")
    BY <2>1, HeadPlace
  <2>3. Passing(1)
    BY <2>1, <2>2, DispatchPasses DEF outside
  <2> QED BY <2>1, <2>2, <2>3, EventKeeps
<1>3. ASSUME NEW type \in {"done", "commit_state", "reset", "unavailable"}, Arrives(type),
             Leaves(Tail(socket)) \/ socket' = Tail(socket), UNCHANGED <<profile, user, desk>>,
             running' # "no" => running # "no",
             frame'.ctx = frame.ctx, relay'.held = relay.held, app'.down \subseteq app.down
      PROVE  KeepsKeys(1)
  <2>1. socket # <<>> /\ ~Is(1, "key") /\ ~Is(1, "deactivate")
    BY <1>3, HeadPlace
  <2>2. Passing(1)
    BY <1>3, <2>1, DispatchPasses
  <2> QED BY <1>3, <2>1, <2>2, EventKeeps
<1>4. ASSUME NEW rest, AppliesFrame(rest)
      PROVE  /\ Leaves(rest) /\ frame'.ctx = frame.ctx /\ relay'.held = relay.held
             /\ app'.down \subseteq app.down
  BY <1>4 DEF AppliesFrame, DoneDigest
<1>5. CASE Done
  BY <1>3, <1>4, <1>5, AppliesFacts DEF outside
<1>6. CASE CommitState
  BY <1>3, <1>4, <1>6, AppliesFacts DEF outside
<1>7. CASE EndOfDispatch
  <2>1. AppliesFrame(socket) /\ UNCHANGED <<outside, focus>>
    BY <1>7, AppliesFacts
  <2>2. Passing(0)
    BY <1>4, <2>1, OtherPasses DEF outside
  <2> QED BY <1>4, <2>1, <2>2 DEF KeepsKeys
<1>8. CASE ResetV1
  BY <1>3, <1>8, ResetV1Facts DEF outside
<1>9. CASE Unavailable
  BY <1>3, <1>9 DEF Unavailable, adapter, Arrives
<1> QED BY <1>1, <1>2, <1>5, <1>6, <1>7, <1>8, <1>9 DEF Input

(* So does whatever does not add presses, releases or turns.               *)
LEMMA OthersKeep ==
  ASSUME Types, Types',
         \/ UNCHANGED vars \/ WindowFields \/ RepeatFires \/ FocusChanges
         \/ EchoTimeout \/ Toggle
         \/ Compositor /\ ~EnableInput /\ ~DisableInput
  PROVE  \E d \in {0, 1} : KeepsKeys(d)
<1>1. CASE WindowFields
  <2>1. WindowDigest
    BY <1>1, WindowFacts
  <2>2. Head(socket) = socket[1] /\ ~Is(1, "key") /\ ~Is(1, "deactivate")
    BY <2>1, TypesFacts DEF WindowDigest, Is
  <2>3. Passing(1)
    BY <2>1, DispatchPasses DEF WindowDigest, outside
  <2> QED BY <2>1, <2>2, <2>3, EventKeeps DEF WindowDigest
<1>2. ASSUME Leaves(socket) \/ UNCHANGED socket \/ Adds(Quiet) \/ Adds(Mild),
             UNCHANGED <<profile, user>>, running' # "no" => running # "no",
             \A field \in {"active", "epoch", "grabbed"} : desk'[field] = desk[field],
             frame'.ctx = frame.ctx, relay'.held \in {relay.held, None},
             app'.down \subseteq app.down
      PROVE  KeepsKeys(0)
  <2>1. Passing(0)
    BY <1>2, OtherPasses
  <2> QED BY <1>2, <2>1 DEF KeepsKeys
<1>3. CASE UNCHANGED vars
  BY <1>2, <1>3 DEF vars
<1>4. CASE RepeatFires
  BY <1>2, <1>4, FiresFacts DEF SameFrame
<1>5. CASE FocusChanges
  BY <1>2, <1>5, FocusFacts DEF outside
<1>6. CASE EchoTimeout
  BY <1>2, <1>6, TimeoutFacts
<1>7. CASE Toggle
  BY <1>2, <1>7, ToggleFacts
<1>8. CASE ReportInput
  <2>1. ReportDigest
    BY <1>8, ReportFacts
  <2>2. PICK new \in Seq(Report) :
          /\ socket' = socket \o new
          /\ \A i \in DOMAIN new : new[i].type \notin {"activate", "deactivate", "key"}
    BY <2>1 DEF ReportDigest
  <2>3. \A i \in DOMAIN new : new[i] \in Mild
    BY <2>2 DEF Report, Mild
  <2>4. new \in Seq(Mild)
    <3>1. PICK m \in Nat : m = Len(new)
      OBVIOUS
    <3>2. DOMAIN new = 1 .. m /\ new = [i \in 1 .. m |-> new[i]]
      BY <3>1
    <3> QED BY <2>3, <3>2
  <2> QED BY <1>2, <2>1, <2>2, <2>4 DEF ReportDigest, Adds
<1>9. CASE Compositor /\ ~EnableInput /\ ~DisableInput /\ ~ReportInput
  <2>1. QuietDigest
    BY <1>9, QuietFacts DEF Compositor
  <2> QED BY <1>2, <2>1 DEF QuietDigest
<1> QED BY <1>1, <1>3, <1>4, <1>5, <1>6, <1>7, <1>8, <1>9

(* A press is dispatched: the key it leaves down, and on the timer, is one *)
(* that is still down or whose end waits.                                  *)
LEMMA PressKeeps ==
  ASSUME Types, Types', KeyQueue, dispatch_key_press PROVE KeyQueue'
<1>1. PICK key \in UserKeys :
        /\ key = Head(socket).key /\ Arrives("key") /\ Head(socket).value = 1
        /\ KeyDigest(app, {None, key}, Tail(socket))
        /\ \A other \in app'.down : other \in app.down \/ (Reaches /\ other = key)
        /\ UNCHANGED <<outside, focus>>
  BY PressDigest
<1>2. /\ socket # <<>> /\ running # "no" /\ 1 \in DOMAIN socket /\ Is(1, "key")
      /\ Head(socket) = socket[1] /\ ~Is(1, "deactivate")
  BY <1>1, HeadPlace
<1>3. PressAt(1, key) /\ \A other : ~ReleaseAt(1, other)
  BY <1>1, <1>2 DEF PressAt, ReleaseAt
<1>4. Passing(1) /\ Moves(1)
  BY <1>1, <1>2, DispatchPasses DEF KeyDigest, SameFrame, outside, Passing
<1>5. Queue' /\ KeysGrabbed' = KeysGrabbed /\ UNCHANGED <<user, running>>
  BY <1>1, <1>4, PassingQueue DEF KeyQueue, outside
<1>6. /\ IsV2' = IsV2
      /\ \A i \in DOMAIN socket : i > 1 =>
           /\ i - 1 \in DOMAIN socket'
           /\ \A type : Is(i - 1, type)' <=> Is(i, type)
           /\ \A other : (ReleaseAt(i - 1, other)' <=> ReleaseAt(i, other))
                           /\ (Ends(i - 1, other)' <=> Ends(i, other))
  BY <1>4, MovesPlaces
<1>7. key \in user \/ \E j \in DOMAIN socket : j > 1 /\ Ends(j, key)
  BY <1>2, <1>3 DEF KeyQueue, Queue, PressesEnd
<1>8. ~KeysGrabbed => \E j \in DOMAIN socket : j > 1 /\ Is(j, "deactivate")
  BY <1>2, <1>3 DEF KeyQueue, Queue, UngrabbedEnd
<1>9. relay'.held \in {None, key}
  BY <1>1 DEF KeyDigest
<1>10. UngrabbedHeld'
  BY <1>5, <1>6, <1>8 DEF UngrabbedHeld
<1>11. HeldEnds'
  <2>1. ASSUME key \notin user PROVE \E j \in DOMAIN socket' : Ends(j, key)'
    BY <1>6, <1>7, <2>1
  <2>2. ASSUME relay'.held = key PROVE \A j : Ends(j, relay.held)' <=> Ends(j, key)'
    BY <2>2 DEF Ends, ReleaseAt
  <2> QED BY <1>5, <1>9, <2>1, <2>2 DEF HeldEnds
<1>12. DownEnds'
  <2>1. ASSUME NEW other \in app'.down, other \notin user
        PROVE  KeysGrabbed /\ \E j \in DOMAIN socket : j > 1 /\ ReleaseAt(j, other)
    <3>1. CASE other \in app.down
      <4>1. PICK j \in DOMAIN socket : KeysGrabbed /\ ReleaseAt(j, other)
        BY <2>1, <3>1 DEF KeyQueue, DownEnds
      <4>2. j # 1 /\ j \in Nat /\ j > 0
        BY <1>3, <4>1, PlacesFacts
      <4> QED BY <4>1, <4>2
    <3>2. CASE Reaches /\ other = key
      <4>1. ASSUME ~IsV2, NEW j \in DOMAIN socket, Is(j, "deactivate") PROVE FALSE
        BY <3>2, <4>1 DEF KeyQueue, Queue, ContextGone, Reaches, Current
      <4>2. KeysGrabbed
        BY <1>8, <4>1 DEF KeysGrabbed
      <4> QED BY <1>7, <2>1, <3>2, <4>1, <4>2 DEF Ends
    <3> QED BY <1>1, <2>1, <3>1, <3>2
  <2> QED BY <1>5, <1>6, <2>1 DEF DownEnds
<1> QED BY <1>5, <1>10, <1>11, <1>12 DEF KeyQueue

(* Activations and texts carry the number of a text input.                 *)
LEMMA ActivateTyped ==
  ASSUME NEW event \in Events, event.type \in {"activate", "surrounding_text"}
  PROVE  event.epoch \in Nat
<1>1. PICK e \in [type : {"activate", "surrounding_text"}, epoch : Nat] : e = event
  BY DEF Events, ModsEvents
<1> QED BY <1>1

(* What is neither a key nor a deactivation takes no end away.             *)
LEMMA EndsStay ==
  ASSUME Types, KeyQueue, Moves(1), 1 \in DOMAIN socket, ~Is(1, "key"),
         UNCHANGED <<user, app>>, running' # "no" => running # "no", KeysGrabbed => KeysGrabbed',
         relay'.held = None \/ (UNCHANGED relay /\ ~Is(1, "deactivate"))
  PROVE  UngrabbedHeld' /\ HeldEnds' /\ DownEnds'
<1>1. /\ IsV2' = IsV2
      /\ \A i \in DOMAIN socket : i > 1 =>
           /\ i - 1 \in DOMAIN socket'
           /\ \A type : Is(i - 1, type)' <=> Is(i, type)
           /\ \A other : (ReleaseAt(i - 1, other)' <=> ReleaseAt(i, other))
                           /\ (Ends(i - 1, other)' <=> Ends(i, other))
  BY MovesPlaces
<1>2. \A i \in DOMAIN socket : i \in Nat /\ i > 0 /\ (i # 1 => i > 1)
  BY PlacesFacts
<1>3. \A key : ~ReleaseAt(1, key)
  BY DEF ReleaseAt
<1>4. UngrabbedHeld'
  BY <1>1, <1>2 DEF KeyQueue, UngrabbedHeld
<1>5. HeldEnds'
  BY <1>1, <1>2, <1>3 DEF KeyQueue, HeldEnds, Ends, ReleaseAt
<1>6. DownEnds'
  BY <1>1, <1>2, <1>3 DEF KeyQueue, DownEnds
<1> QED BY <1>4, <1>5, <1>6

(* The activation of protocol v1 makes the context, and takes the grab if  *)
(* its text input is still enabled.                                        *)
LEMMA ActivationKeeps ==
  ASSUME Types, Types', KeyQueue, FillFrame, ~IsV2, Is(1, "activate") PROVE KeyQueue'
<1>1. FillDigest
  BY FillFacts
<1>2. Head(socket) = socket[1] /\ 1 \in DOMAIN socket /\ socket[1].type = "activate"
      /\ ~Is(1, "key") /\ ~Is(1, "deactivate")
  BY <1>1, TypesFacts DEF FillDigest, Is
<1> DEFINE epoch == socket[1].epoch
           current == desk.active /\ epoch = desk.epoch
<1>3. /\ frame'.ctx = epoch
      /\ desk' = [desk EXCEPT !.grabbed = @ \/ current]
      /\ UNCHANGED <<profile, user, relay, app, running>>
  BY <1>1, <1>2 DEF FillDigest
<1>4. desk'.active = desk.active /\ desk'.epoch = desk.epoch
      /\ desk'.grabbed = (desk.grabbed \/ current)
  BY <1>3, TypesFacts DEF Desk
<1>5. Moves(1)
  <2>1. Shifted(1, Mild)
    BY <1>1, LeavesShift, ShiftMore, MildEvents DEF FillDigest
  <2> QED BY <1>1, <2>1 DEF FillDigest, Moves
<1>6. KeysGrabbed => KeysGrabbed'
  BY <1>3, <1>4 DEF KeysGrabbed, IsV2
<1>7. PressesEnd' /\ UngrabbedEnd'
  BY <1>3, <1>5, <1>6, MovesPresses DEF KeyQueue
<1>8. frame.ctx < epoch /\ epoch <= desk.epoch
  BY <1>2 DEF KeyQueue, Queue, EpochsGrow, Is
<1>9. ContextGone' /\ EpochsGrow'
  <2>1. \A j \in DOMAIN socket : ~IsV2 /\ j > 1 /\ Is(j, "deactivate") => ~Current(epoch)
    BY <1>2 DEF KeyQueue, Queue, ContextGone
  <2>2. \A i \in DOMAIN socket : i > 1 /\ Is(i, "activate") => epoch < socket[i].epoch
    BY <1>2 DEF KeyQueue, Queue, EpochsGrow
  <2> HIDE DEF epoch
  <2> QED BY <1>3, <1>4, <1>5, <1>8, <2>1, <2>2, MovesContexts DEF KeyQueue
<1>10. GrabCurrent'
  <2>1. frame.ctx \in Nat /\ desk.epoch \in Nat
    BY TypesFacts DEF Frame, Desk
  <2>2. ~desk.grabbed \/ frame.ctx = desk.epoch
    BY DEF KeyQueue, Queue, GrabCurrent, Current
  <2>3. desk.active => desk.epoch > 0
    BY DEF KeyQueue, Queue, EpochsGrow
  <2>4. epoch \in Nat
    BY <1>1, <1>2, ActivateTyped, PlacesFacts
  <2> HIDE DEF epoch
  <2>5. ~desk.grabbed
    <3>1. frame.ctx < epoch /\ epoch <= desk.epoch => frame.ctx # desk.epoch
      BY <2>1, <2>4
    <3> QED BY <1>8, <2>2, <3>1
  <2>6. desk'.grabbed => current
    BY <1>4, <2>5
  <2> QED BY <1>3, <1>4, <2>1, <2>3, <2>6 DEF GrabCurrent, Current
<1>11. UngrabbedHeld' /\ HeldEnds' /\ DownEnds'
  BY <1>2, <1>3, <1>5, <1>6, EndsStay
<1> QED BY <1>7, <1>9, <1>10, <1>11 DEF KeyQueue, Queue

(* Its deactivation drops the context, which is no longer the current one. *)
LEMMA DeactivationKeeps ==
  ASSUME Types, Types', KeyQueue, DeactivateV1 PROVE KeyQueue'
<1>1. /\ ~IsV2 /\ Arrives("deactivate") /\ socket' = Tail(socket) /\ relay'.held = None
      /\ UNCHANGED <<outside, focus, app>> /\ frame'.ctx = 0 /\ socket' \in Seq(Events)
  BY DeactivateFacts DEF DeactivateV1
<1>2. socket # <<>> /\ 1 \in DOMAIN socket /\ Is(1, "deactivate") /\ ~Is(1, "key")
  BY <1>1, HeadPlace
<1>3. Moves(1)
  <2>1. Shifted(1, Mild)
    BY <1>1, <1>2, LeavesShift, ShiftMore, MildEvents
  <2> QED BY <1>1, <2>1 DEF outside, Moves
<1>4. KeysGrabbed' = KeysGrabbed /\ UNCHANGED <<user, running, desk, profile>>
  BY <1>1 DEF KeysGrabbed, IsV2, outside
<1>5. PressesEnd' /\ UngrabbedEnd'
  BY <1>3, <1>4, MovesPresses DEF KeyQueue
<1>6. ContextGone' /\ EpochsGrow'
  <2>1. ~Current(0)
    BY DEF KeyQueue, Queue, EpochsGrow, Current
  <2>2. frame.ctx \in Nat /\ desk.epoch \in Nat
    BY TypesFacts DEF Frame, Desk
  <2>3. \A i \in DOMAIN socket : Is(i, "activate") => 0 < socket[i].epoch
    <3>1. ASSUME NEW i \in DOMAIN socket, Is(i, "activate") PROVE 0 < socket[i].epoch
      <4>1. socket[i].epoch \in Nat
        BY <3>1, PlacesFacts, ActivateTyped DEF Is
      <4>2. frame.ctx < socket[i].epoch
        BY <3>1 DEF KeyQueue, Queue, EpochsGrow
      <4> QED BY <2>2, <4>1, <4>2
    <3> QED BY <3>1
  <2> QED BY <1>1, <1>3, <1>4, <2>1, <2>2, <2>3, MovesContexts DEF KeyQueue
<1>7. GrabCurrent'
  <2>1. ~desk.grabbed
    BY <1>1, <1>2 DEF KeyQueue, Queue, GrabCurrent, ContextGone
  <2> QED BY <1>4, <2>1 DEF GrabCurrent
<1>8. UngrabbedHeld' /\ HeldEnds' /\ DownEnds'
  BY <1>1, <1>2, <1>3, <1>4, EndsStay
<1> QED BY <1>5, <1>6, <1>7, <1>8 DEF KeyQueue, Queue

(* Nothing waits and nothing is down after the teardown.                   *)
LEMMA TeardownKeeps == ASSUME Types, KeyQueue, Teardown PROVE KeyQueue'
<1>1. /\ running' = "no" /\ socket' = <<>> /\ app'.down = {}
      /\ UNCHANGED <<profile, user, desk, relay, frame, router, focus, budget>>
  BY TeardownFacts
<1>2. DOMAIN socket' = {}
  BY <1>1
<1>3. PressesEnd' /\ UngrabbedEnd' /\ ContextGone'
  BY <1>1, <1>2 DEF PressesEnd, UngrabbedEnd, ContextGone
<1>4. EpochsGrow'
  BY <1>1, <1>2 DEF KeyQueue, Queue, EpochsGrow
<1>5. GrabCurrent'
  BY <1>1 DEF KeyQueue, Queue, GrabCurrent, Current, IsV2
<1>6. UngrabbedHeld' /\ HeldEnds' /\ DownEnds'
  BY <1>1 DEF UngrabbedHeld, HeldEnds, DownEnds
<1> QED BY <1>3, <1>4, <1>5, <1>6 DEF KeyQueue, Queue

(* Events come behind those that wait.                                     *)
Grows(new) == new \in Seq(Events) /\ socket' = socket \o new /\ UNCHANGED profile

(* The events that waited stay where they were; the new ones are behind    *)
(* them.                                                                   *)
LEMMA GrowsPlaces ==
  ASSUME Types, NEW new, Grows(new)
  PROVE  /\ IsV2' = IsV2 /\ Len(socket) \in Nat
         /\ \A i \in DOMAIN socket :
              /\ i \in DOMAIN socket' /\ socket'[i] = socket[i] /\ i \in Nat /\ i > 0
              /\ i <= Len(socket)
              /\ \A type : Is(i, type)' <=> Is(i, type)
              /\ \A key : /\ PressAt(i, key)' <=> PressAt(i, key)
                          /\ ReleaseAt(i, key)' <=> ReleaseAt(i, key)
                          /\ Ends(i, key)' <=> Ends(i, key)
         /\ \A n \in DOMAIN new :
              n \in Nat /\ n > 0 /\ Len(socket) + n \in DOMAIN socket' /\ socket'[Len(socket) + n] = new[n]
         /\ \A j \in DOMAIN socket' :
              /\ j \in Nat /\ j > 0
              /\ j \in DOMAIN socket \/ \E n \in DOMAIN new : j = Len(socket) + n /\ socket'[j] = new[n]
<1>1. socket \in Seq(Events) /\ new \in Seq(Events) /\ socket' = socket \o new
  BY TypesFacts DEF Grows
<1>2. /\ Len(socket) \in Nat /\ Len(new) \in Nat
      /\ DOMAIN socket = 1 .. Len(socket) /\ DOMAIN new = 1 .. Len(new)
      /\ DOMAIN socket' = 1 .. (Len(socket) + Len(new))
      /\ \A i \in DOMAIN socket : i \in DOMAIN socket' /\ socket'[i] = socket[i]
      /\ \A n \in DOMAIN new : Len(socket) + n \in DOMAIN socket' /\ socket'[Len(socket) + n] = new[n]
      /\ \A j \in DOMAIN socket' :
           \/ j \in DOMAIN socket
           \/ j > Len(socket) /\ j - Len(socket) \in DOMAIN new /\ socket'[j] = new[j - Len(socket)]
  BY <1>1, ConcatFacts
<1>3. IsV2' = IsV2
  BY DEF Grows, IsV2
<1>4. ASSUME NEW i \in DOMAIN socket
      PROVE  /\ i \in DOMAIN socket' /\ socket'[i] = socket[i] /\ i \in Nat /\ i > 0
             /\ i <= Len(socket)
             /\ \A type : Is(i, type)' <=> Is(i, type)
             /\ \A key : /\ PressAt(i, key)' <=> PressAt(i, key)
                         /\ ReleaseAt(i, key)' <=> ReleaseAt(i, key)
                         /\ Ends(i, key)' <=> Ends(i, key)
  <2>1. i \in DOMAIN socket' /\ socket'[i] = socket[i]
    BY <1>2
  <2>2. i \in Nat /\ i > 0 /\ i <= Len(socket)
    BY <1>2
  <2> QED BY <1>3, <2>1, <2>2 DEF Is, PressAt, ReleaseAt, Ends
<1>5. ASSUME NEW j \in DOMAIN socket'
      PROVE  /\ j \in Nat /\ j > 0
             /\ j \in DOMAIN socket \/ \E n \in DOMAIN new : j = Len(socket) + n /\ socket'[j] = new[n]
  <2>1. j \in Nat /\ j > 0 /\ Len(socket) + (j - Len(socket)) = j
    BY <1>2
  <2> QED BY <1>2, <2>1
<1>6. \A n \in DOMAIN new : n \in Nat /\ n > 0
  BY <1>2
<1> QED BY <1>2, <1>3, <1>4, <1>5, <1>6

(* A key of the user.                                                      *)
LEMMA GrabbedKeyKeeps ==
  ASSUME Types, KeyQueue, NEW key \in UserKeys, NEW value \in {0, 1}, UserDigest(key, value),
         KeysGrabbed
  PROVE  KeyQueue'
<1>1. PICK new \in Seq(Events) :
        /\ socket' = socket \o new /\ Len(new) \in Nat \ {0}
        /\ new[1] = KeyOf(key, value)
        /\ \A i \in DOMAIN new : i # 1 => new[i] \in ModsEvents
  BY DEF UserDigest
<1>2. /\ UNCHANGED <<profile, desk, running, relay, frame, app>>
      /\ user' = IF value = 1 THEN user \cup {key} ELSE user \ {key}
  BY DEF UserDigest
<1>3. Grows(new)
  BY <1>1, <1>2 DEF Grows
<1>4. IsV2' = IsV2 /\ KeysGrabbed' = KeysGrabbed /\ \A c : Current(c)' <=> Current(c)
  BY <1>2 DEF IsV2, KeysGrabbed, Current
<1>5. 1 \in DOMAIN new
  BY <1>1
<1>6. PICK last \in Nat : last = Len(socket) + 1
  BY <1>3, GrowsPlaces
<1>7. last \in DOMAIN socket' /\ last \in Nat /\ socket'[last] = KeyOf(key, value)
      /\ \A i \in DOMAIN socket : last > i
  BY <1>1, <1>3, <1>5, <1>6, GrowsPlaces
<1>8. \A j \in DOMAIN socket' : j \in DOMAIN socket \/ j = last \/ socket'[j] \in ModsEvents
  <2>1. ASSUME NEW j \in DOMAIN socket', j \notin DOMAIN socket
        PROVE  j = last \/ socket'[j] \in ModsEvents
    <3>1. PICK n \in DOMAIN new : j = Len(socket) + n /\ socket'[j] = new[n]
      BY <1>3, <2>1, GrowsPlaces
    <3> QED BY <1>1, <1>6, <3>1
  <2> QED BY <2>1
<1>9. ASSUME NEW other, ReleaseAt(last, other)' \/ PressAt(last, other)' PROVE other = key
  BY <1>7, <1>9 DEF ReleaseAt, PressAt, KeyOf
<1>10. value = 0 => ReleaseAt(last, key)' /\ Ends(last, key)'
  BY <1>7 DEF ReleaseAt, Ends, Is, KeyOf
<1>11. ASSUME NEW i \in DOMAIN socket', NEW other, PressAt(i, other)'
       PROVE  (i \in DOMAIN socket /\ PressAt(i, other)) \/ (i = last /\ other = key /\ value = 1)
  <2>1. socket'[i] \notin ModsEvents
    BY <1>11 DEF PressAt, Is, ModsEvents
  <2>2. CASE i \in DOMAIN socket
    BY <1>3, <1>11, <2>2, GrowsPlaces
  <2>3. CASE i = last
    BY <1>7, <1>11, <2>3 DEF PressAt, KeyOf
  <2> QED BY <1>8, <2>1, <2>2, <2>3
<1>12. ASSUME NEW i \in DOMAIN socket', Is(i, "activate")' \/ Is(i, "deactivate")'
       PROVE  /\ i \in DOMAIN socket /\ socket'[i] = socket[i]
              /\ \A type : Is(i, type)' <=> Is(i, type)
  <2>1. socket'[i] \notin ModsEvents
    BY <1>12 DEF Is, ModsEvents
  <2>2. i # last
    BY <1>7, <1>12 DEF Is, KeyOf
  <2> QED BY <1>3, <1>8, <2>1, <2>2, GrowsPlaces
<1>13. PressesEnd'
  <2>1. ASSUME NEW i \in DOMAIN socket', NEW other \in UserKeys, PressAt(i, other)', other \notin user'
        PROVE  \E j \in DOMAIN socket' : j > i /\ Ends(j, other)'
    <3>1. i \in DOMAIN socket /\ PressAt(i, other)
      BY <1>2, <1>11, <2>1
    <3>2. CASE other \in user
      <4>1. other = key /\ value = 0
        BY <1>2, <2>1, <3>2
      <4> QED BY <1>7, <1>10, <3>1, <4>1
    <3>3. CASE other \notin user
      <4>1. PICK j \in DOMAIN socket : j > i /\ Ends(j, other)
        BY <3>1, <3>3 DEF KeyQueue, Queue, PressesEnd
      <4> QED BY <1>3, <4>1, GrowsPlaces
    <3> QED BY <3>2, <3>3
  <2> QED BY <2>1 DEF PressesEnd
<1>14. UngrabbedEnd' /\ UngrabbedHeld'
  BY <1>4 DEF UngrabbedEnd, UngrabbedHeld
<1>15. ContextGone'
  BY <1>2, <1>4, <1>12 DEF KeyQueue, Queue, ContextGone, Current
<1>16. EpochsGrow'
  BY <1>2, <1>12 DEF KeyQueue, Queue, EpochsGrow
<1>17. GrabCurrent'
  BY <1>2, <1>4 DEF KeyQueue, Queue, GrabCurrent, Current
<1>18. HeldEnds'
  <2>1. ASSUME running' # "no", relay.held # None, relay.held \notin user'
        PROVE  \E j \in DOMAIN socket' : Ends(j, relay.held)'
    <3>1. \A j, other : other = relay.held => (Ends(j, relay.held)' <=> Ends(j, other)')
      BY <1>2 DEF Ends, ReleaseAt
    <3>2. CASE relay.held \in user
      <4>1. relay.held = key /\ value = 0
        BY <1>2, <2>1, <3>2
      <4> QED BY <1>7, <1>10, <3>1, <4>1
    <3>3. CASE relay.held \notin user
      <4>1. PICK j \in DOMAIN socket : Ends(j, relay.held)
        BY <1>2, <2>1, <3>3 DEF KeyQueue, HeldEnds
      <4>2. PICK held : held = relay.held
        OBVIOUS
      <4>3. j \in DOMAIN socket' /\ Ends(j, held)'
        BY <1>3, <4>1, <4>2, GrowsPlaces
      <4> QED BY <3>1, <4>2, <4>3
    <3> QED BY <3>2, <3>3
  <2> QED BY <1>2, <2>1 DEF HeldEnds
<1>19. DownEnds'
  <2>1. ASSUME NEW other \in app.down, other \notin user'
        PROVE  \E j \in DOMAIN socket' : ReleaseAt(j, other)'
    <3>1. CASE other \in user
      <4>1. other = key /\ value = 0
        BY <1>2, <2>1, <3>1
      <4> QED BY <1>7, <1>10, <4>1
    <3>2. CASE other \notin user
      <4>1. PICK j \in DOMAIN socket : ReleaseAt(j, other)
        BY <2>1, <3>2 DEF KeyQueue, DownEnds
      <4> QED BY <1>3, <4>1, GrowsPlaces
    <3> QED BY <3>1, <3>2
  <2> QED BY <1>2, <1>4, <2>1 DEF DownEnds
<1> QED BY <1>13, <1>14, <1>15, <1>16, <1>17, <1>18, <1>19 DEF KeyQueue, Queue

(* The user presses or releases a key that the application gets itself.    *)
LEMMA DirectKeyKeeps ==
  ASSUME Types, KeyQueue, NEW key \in UserKeys, NEW value \in {0, 1}, UserDigest(key, value),
         ~KeysGrabbed
  PROVE  KeyQueue'
<1>1. /\ UNCHANGED <<profile, desk, running, relay, frame, socket>> /\ running = "yes"
      /\ user' = (IF value = 1 THEN user \cup {key} ELSE user \ {key})
      /\ \A other \in app'.down : IF value = 1 THEN other \in app.down \/ other = key
                                  ELSE other \in app.down /\ other # key
  BY DEF UserDigest
<1>2. /\ IsV2' = IsV2 /\ ~IsV2 /\ KeysGrabbed' = KeysGrabbed /\ \A c : Current(c)' <=> Current(c)
      /\ \A i, type : Is(i, type)' <=> Is(i, type)
      /\ \A i, other : (PressAt(i, other)' <=> PressAt(i, other)) /\ (Ends(i, other)' <=> Ends(i, other))
  BY <1>1 DEF IsV2, KeysGrabbed, Current, Is, PressAt, ReleaseAt, Ends
<1>3. PressesEnd'
  BY <1>1, <1>2 DEF KeyQueue, Queue, UngrabbedEnd, PressesEnd, Ends
<1>4. UngrabbedEnd' /\ UngrabbedHeld'
  BY <1>1, <1>2 DEF KeyQueue, Queue, UngrabbedEnd, UngrabbedHeld
<1>5. ContextGone' /\ EpochsGrow' /\ GrabCurrent'
  BY <1>1, <1>2 DEF KeyQueue, Queue, ContextGone, EpochsGrow, GrabCurrent, Current
<1>6. HeldEnds'
  BY <1>1, <1>2 DEF KeyQueue, UngrabbedHeld, HeldEnds, Ends
<1>7. DownEnds'
  BY <1>1 DEF KeyQueue, DownEnds
<1> QED BY <1>3, <1>4, <1>5, <1>6, <1>7 DEF KeyQueue, Queue

(* Text inputs that are enabled and disabled bring no key.                 *)
LEMMA InputsKeepEnds ==
  ASSUME Types, KeyQueue, NEW new, Grows(new), UNCHANGED <<user, running, relay>>,
         \A n \in DOMAIN new : ~(new[n].type = "key")
  PROVE  PressesEnd' /\ HeldEnds'
<1>1. ASSUME NEW i \in DOMAIN socket', NEW key, PressAt(i, key)'
      PROVE  i \in DOMAIN socket /\ PressAt(i, key)
  BY <1>1, GrowsPlaces DEF PressAt, Is
<1>2. PressesEnd'
  <2>1. ASSUME NEW i \in DOMAIN socket', NEW key \in UserKeys, PressAt(i, key)', key \notin user
        PROVE  \E j \in DOMAIN socket' : j > i /\ Ends(j, key)'
    <3>1. PICK j \in DOMAIN socket : j > i /\ Ends(j, key)
      BY <1>1, <2>1 DEF KeyQueue, Queue, PressesEnd
    <3> QED BY <3>1, GrowsPlaces
  <2> QED BY <2>1 DEF PressesEnd
<1>3. HeldEnds'
  <2>1. ASSUME running # "no", relay.held # None, relay.held \notin user
        PROVE  \E j \in DOMAIN socket' : Ends(j, relay.held)'
    <3>1. PICK held : held = relay.held
      OBVIOUS
    <3>2. PICK j \in DOMAIN socket : Ends(j, held)
      BY <2>1, <3>1 DEF KeyQueue, HeldEnds
    <3>3. j \in DOMAIN socket' /\ Ends(j, held)'
      BY <3>2, GrowsPlaces
    <3>4. Ends(j, relay.held)'
      BY <3>1, <3>3 DEF Ends, ReleaseAt
    <3> QED BY <3>3, <3>4
  <2> QED BY <2>1 DEF HeldEnds
<1> QED BY <1>2, <1>3

(* A text input is enabled: no press waits that no release follows.        *)
LEMMA EnableKeeps == ASSUME Types, KeyQueue, EnableInput PROVE KeyQueue'
<1>1. /\ ~desk.active /\ desk'.active /\ desk'.epoch = desk.epoch + 1 /\ desk'.grabbed = desk.grabbed
      /\ UNCHANGED <<profile, user, running, relay, frame, app>>
  BY EnableFacts DEF EnableDigest
<1>2. PICK new \in Seq(Events), m \in {2, 3} :
        /\ socket' = socket \o new /\ Len(new) = m
        /\ new[1].type = "activate" /\ new[1].epoch = desk.epoch + 1
        /\ m = 3 => new[2].type = "surrounding_text" /\ new[2].epoch = desk.epoch + 1
        /\ new[m].type = End
  BY EnableFacts DEF EnableDigest
<1>3. Grows(new)
  BY <1>1, <1>2 DEF Grows
<1>4. \A n \in DOMAIN new : n = 1 \/ (n = 2 /\ m = 3) \/ n = m
  BY <1>2
<1>5. \A n \in DOMAIN new :
        /\ new[n].type \notin {"key", "deactivate"}
        /\ new[n].type = "activate" => n = 1
  BY <1>2, <1>4 DEF End
<1>6. desk.epoch \in Nat /\ frame.ctx \in Nat
  BY TypesFacts DEF Desk, Frame
<1>7. ~KeysGrabbed => ~KeysGrabbed'
  BY <1>1 DEF KeysGrabbed, IsV2
<1>8. PressesEnd' /\ HeldEnds'
  BY <1>1, <1>3, <1>5, InputsKeepEnds
<1>9. ~KeysGrabbed' => ~KeysGrabbed
  BY <1>1 DEF KeysGrabbed, IsV2
<1>10. ASSUME NEW i \in DOMAIN socket', NEW key, PressAt(i, key)'
       PROVE  i \in DOMAIN socket /\ PressAt(i, key)
  BY <1>3, <1>5, <1>10, GrowsPlaces DEF PressAt, Is
<1>11. UngrabbedEnd'
  <2>1. ASSUME ~KeysGrabbed, running # "no",
               NEW i \in DOMAIN socket', NEW key \in UserKeys, PressAt(i, key)'
        PROVE  \E j \in DOMAIN socket' : j > i /\ Is(j, "deactivate")'
    <3>1. PICK j \in DOMAIN socket : j > i /\ Is(j, "deactivate")
      BY <1>10, <2>1 DEF KeyQueue, Queue, UngrabbedEnd
    <3> QED BY <1>3, <3>1, GrowsPlaces
  <2> QED BY <1>1, <1>9, <2>1 DEF UngrabbedEnd
<1>12. UngrabbedHeld'
  <2>1. ASSUME ~KeysGrabbed, running # "no", relay.held # None
        PROVE  \E j \in DOMAIN socket' : Is(j, "deactivate")'
    <3>1. PICK j \in DOMAIN socket : Is(j, "deactivate")
      BY <2>1 DEF KeyQueue, UngrabbedHeld
    <3> QED BY <1>3, <3>1, GrowsPlaces
  <2> QED BY <1>1, <1>9, <2>1 DEF UngrabbedHeld
<1>13. ASSUME NEW i \in DOMAIN socket', Is(i, "activate")' \/ Is(i, "deactivate")'
       PROVE  \/ /\ i \in DOMAIN socket /\ socket'[i] = socket[i] /\ i <= Len(socket)
                 /\ \A type : Is(i, type)' <=> Is(i, type)
              \/ i = Len(socket) + 1 /\ socket'[i].epoch = desk.epoch + 1 /\ ~Is(i, "deactivate")'
  <2>1. CASE i \in DOMAIN socket
    BY <1>3, <2>1, GrowsPlaces
  <2>2. CASE i \notin DOMAIN socket
    <3>1. PICK n \in DOMAIN new : i = Len(socket) + n /\ socket'[i] = new[n]
      BY <1>3, <2>2, GrowsPlaces
    <3>2. n = 1
      BY <1>5, <1>13, <3>1 DEF Is
    <3> QED BY <1>2, <3>1, <3>2 DEF Is
  <2> QED BY <2>1, <2>2
<1>14. ASSUME NEW i \in DOMAIN socket, Is(i, "activate")
       PROVE  /\ socket[i].epoch \in Nat /\ frame.ctx < socket[i].epoch
              /\ socket[i].epoch <= desk.epoch
  <2>1. socket[i].epoch \in Nat
    BY <1>14, PlacesFacts, ActivateTyped DEF Is
  <2> QED BY <1>14, <2>1 DEF KeyQueue, Queue, EpochsGrow
<1>15. frame.ctx <= desk.epoch
  BY DEF KeyQueue, Queue, EpochsGrow
<1>16. ContextGone'
  <2>1. ASSUME NEW j \in DOMAIN socket', Is(j, "deactivate")'
        PROVE  /\ frame.ctx # desk.epoch + 1
               /\ \A i \in DOMAIN socket' :
                    i < j /\ Is(i, "activate")' => socket'[i].epoch # desk.epoch + 1
    <3>1. j \in DOMAIN socket /\ j <= Len(socket) /\ j \in Nat
      BY <1>13, <2>1, PlacesFacts
    <3>2. frame.ctx # desk.epoch + 1
      BY <1>6, <1>15
    <3>3. ASSUME NEW i \in DOMAIN socket', i < j, Is(i, "activate")'
          PROVE  socket'[i].epoch # desk.epoch + 1
      <4>1. Len(socket) \in Nat /\ i \in Nat
        BY <1>3, GrowsPlaces
      <4>2. i # Len(socket) + 1
        BY <3>1, <3>3, <4>1
      <4>3. i \in DOMAIN socket /\ socket'[i] = socket[i] /\ Is(i, "activate")
        BY <1>13, <3>3, <4>2
      <4> QED BY <1>6, <1>14, <4>3
    <3> QED BY <3>2, <3>3
  <2> QED BY <1>1, <2>1 DEF ContextGone, Current
<1>17. EpochsGrow'
  <2>1. ASSUME NEW i \in DOMAIN socket', Is(i, "activate")'
        PROVE  frame.ctx < socket'[i].epoch /\ socket'[i].epoch <= desk.epoch + 1
    <3>1. CASE socket'[i].epoch = desk.epoch + 1
      BY <1>6, <1>15, <3>1
    <3>2. CASE i \in DOMAIN socket /\ socket'[i] = socket[i] /\ Is(i, "activate")
      BY <1>6, <1>14, <3>2
    <3> QED BY <1>13, <2>1, <3>1, <3>2
  <2>2. ASSUME NEW i \in DOMAIN socket', NEW j \in DOMAIN socket', i < j,
               Is(i, "activate")', Is(j, "activate")'
        PROVE  socket'[i].epoch < socket'[j].epoch
    <3>1. Len(socket) \in Nat /\ i \in Nat /\ j \in Nat
      BY <1>3, GrowsPlaces
    <3>2. j <= Len(socket) + 1
      <4>1. j <= Len(socket) => j <= Len(socket) + 1
        BY <3>1
      <4> QED BY <1>13, <2>2, <3>1, <4>1
    <3>3. i \in DOMAIN socket /\ socket'[i] = socket[i] /\ Is(i, "activate")
      <4>1. i # Len(socket) + 1
        BY <2>2, <3>1, <3>2
      <4> QED BY <1>13, <2>2, <4>1
    <3>4. CASE j \in DOMAIN socket /\ socket'[j] = socket[j] /\ Is(j, "activate")
      BY <2>2, <3>3, <3>4 DEF KeyQueue, Queue, EpochsGrow
    <3>5. CASE socket'[j].epoch = desk.epoch + 1
      BY <1>6, <1>14, <3>3, <3>5
    <3> QED BY <1>13, <2>2, <3>4, <3>5
  <2>3. desk.epoch + 1 > 0 /\ frame.ctx <= desk.epoch + 1
    BY <1>6, <1>15
  <2> QED BY <1>1, <2>1, <2>2, <2>3 DEF EpochsGrow
<1>18. GrabCurrent'
  BY <1>1 DEF KeyQueue, Queue, GrabCurrent, Current, IsV2
<1>19. DownEnds'
  <2>1. ASSUME NEW key \in app.down, key \notin user
        PROVE  KeysGrabbed /\ \E j \in DOMAIN socket' : ReleaseAt(j, key)'
    <3>1. PICK j \in DOMAIN socket : KeysGrabbed /\ ReleaseAt(j, key)
      BY <2>1 DEF KeyQueue, DownEnds
    <3> QED BY <1>3, <3>1, GrowsPlaces
  <2> QED BY <1>1, <1>9, <2>1 DEF DownEnds
<1> QED BY <1>8, <1>11, <1>12, <1>16, <1>17, <1>18, <1>19 DEF KeyQueue, Queue

(* A text input is disabled: its end comes behind every key that waits.    *)
LEMMA DisableKeeps == ASSUME Types, KeyQueue, DisableInput PROVE KeyQueue'
<1>1. /\ ~desk'.active /\ desk'.epoch = desk.epoch /\ ~desk'.grabbed
      /\ UNCHANGED <<profile, user, running, relay, frame>>
      /\ app'.down = IF IsV2 THEN app.down ELSE {}
  BY DisableFacts DEF DisableDigest
<1>2. PICK new \in Seq(Events), m \in {1, 2} :
        /\ socket' = socket \o new /\ Len(new) = m
        /\ new[1].type = "deactivate"
        /\ m = IF IsV2 THEN 2 ELSE 1
        /\ IsV2 => new[2].type = "done"
  BY DisableFacts DEF DisableDigest
<1>3. Grows(new)
  BY <1>1, <1>2 DEF Grows
<1>4. \A n \in DOMAIN new : n = 1 \/ (n = 2 /\ IsV2)
  BY <1>2
<1>5. \A n \in DOMAIN new : new[n].type \notin {"key", "activate"}
  BY <1>2, <1>4
<1>6. PressesEnd' /\ HeldEnds'
  BY <1>1, <1>3, <1>5, InputsKeepEnds
<1>7. PICK last \in DOMAIN socket' : /\ last = Len(socket) + 1 /\ Is(last, "deactivate")'
                                     /\ \A i \in DOMAIN socket : last > i
  <2>1. 1 \in DOMAIN new
    BY <1>2
  <2>2. Len(socket) + 1 \in DOMAIN socket' /\ socket'[Len(socket) + 1] = new[1]
    BY <1>3, <2>1, GrowsPlaces
  <2>3. \A i \in DOMAIN socket : Len(socket) + 1 > i
    BY <1>3, GrowsPlaces
  <2> QED BY <1>2, <2>2, <2>3 DEF Is
<1>8. UngrabbedEnd'
  <2>1. ASSUME NEW i \in DOMAIN socket', NEW key, PressAt(i, key)' PROVE i \in DOMAIN socket
    BY <1>3, <1>5, <2>1, GrowsPlaces DEF PressAt, Is
  <2> QED BY <1>7, <2>1 DEF UngrabbedEnd
<1>9. UngrabbedHeld'
  BY <1>7 DEF UngrabbedHeld
<1>10. ContextGone'
  BY <1>1 DEF ContextGone, Current
<1>11. ASSUME NEW i \in DOMAIN socket', Is(i, "activate")'
       PROVE  i \in DOMAIN socket /\ socket'[i] = socket[i] /\ Is(i, "activate")
  BY <1>3, <1>5, <1>11, GrowsPlaces DEF Is
<1>12. EpochsGrow'
  BY <1>1, <1>11 DEF KeyQueue, Queue, EpochsGrow
<1>13. GrabCurrent'
  BY <1>1 DEF GrabCurrent
<1>14. DownEnds'
  <2>1. CASE ~IsV2
    BY <1>1, <2>1 DEF DownEnds
  <2>2. ASSUME IsV2, NEW key \in app.down, key \notin user
        PROVE  \E j \in DOMAIN socket' : ReleaseAt(j, key)'
    <3>1. PICK j \in DOMAIN socket : KeysGrabbed /\ ReleaseAt(j, key)
      BY <2>2 DEF KeyQueue, DownEnds
    <3> QED BY <1>3, <3>1, GrowsPlaces
  <2>3. IsV2 => KeysGrabbed'
    BY <1>1 DEF KeysGrabbed, IsV2
  <2> QED BY <1>1, <2>1, <2>2, <2>3 DEF DownEnds
<1> QED BY <1>6, <1>8, <1>9, <1>10, <1>12, <1>13, <1>14 DEF KeyQueue, Queue

(* KeyQueue is inductive, given Types.                                     *)
LEMMA KeyQueueStep ==
  ASSUME Types, Types', KeyQueue, [Next]_vars PROVE KeyQueue'
<1>1. ASSUME NEW d, KeepsKeys(d) PROVE KeyQueue'
  BY <1>1, KeepsKeyQueue
<1>2. CASE Press \/ Release
  <2>1. PICK key \in UserKeys, value \in {0, 1} : UserKey(key, value)
    BY <1>2, TypesFacts DEF Press, Release
  <2>2. UserDigest(key, value)
    BY <2>1, UserFacts
  <2> QED BY <2>2, GrabbedKeyKeeps, DirectKeyKeeps
<1>3. CASE Compositor
  BY <1>1, <1>3, EnableKeeps, DisableKeeps, OthersKeep
<1>4. CASE dispatch_key_press
  BY <1>4, PressKeeps
<1>5. CASE dispatch_key_release \/ dispatch_key_repeat \/ handle_modifiers \/ RepeatInfo
  BY <1>1, <1>5, KeyboardKeeps DEF KeyQueue
<1>6. CASE Input
  <2>1. CASE DeactivateV1
    BY <2>1, DeactivationKeeps
  <2>2. CASE FillFrame /\ ~IsV2 /\ Is(1, "activate")
    BY <2>2, ActivationKeeps
  <2> QED BY <1>1, <1>6, <2>1, <2>2, InputKeeps
<1>7. CASE Teardown
  BY <1>7, TeardownKeeps
<1>8. CASE \/ UNCHANGED vars \/ WindowFields \/ RepeatFires \/ FocusChanges
           \/ EchoTimeout \/ Toggle
  BY <1>1, <1>8, OthersKeep
<1> QED BY <1>2, <1>3, <1>4, <1>5, <1>6, <1>7, <1>8 DEF Next, Keyboard, Loop

(* KeyQueue holds initially: nothing waits.                                *)
LEMMA KeyQueueInit == ASSUME Init PROVE KeyQueue
<1>1. /\ user = {} /\ socket = <<>> /\ ~desk.active /\ desk.epoch = 0 /\ ~desk.grabbed
      /\ relay.held = None /\ frame.ctx = 0 /\ app.down = {}
  BY DEF Init, NewRelay
<1>2. DOMAIN socket = {}
  BY <1>1
<1>3. Queue
  BY <1>1, <1>2
     DEF Queue, PressesEnd, UngrabbedEnd, ContextGone, EpochsGrow, GrabCurrent
<1>4. UngrabbedHeld /\ HeldEnds /\ DownEnds
  BY <1>1 DEF UngrabbedHeld, HeldEnds, DownEnds
<1> QED BY <1>3, <1>4 DEF KeyQueue

(* Through the grab, the commits of edits, protocol v1's coming and going  *)
(* contexts and the end of the loop, every press that reached the          *)
(* application is followed by a release (dispatch_key_release always       *)
(* forwards, DeactivateV1 only when the context is dead anyway).           *)
THEOREM AdapterNoKeyLeftDown == Spec => []NoKeyLeftDown
<1>1. Init => Types /\ KeyQueue
  BY InitTyped, KeyQueueInit
<1>2. Types /\ KeyQueue /\ [Next]_vars => Types' /\ KeyQueue'
  BY NextTyped, KeyQueueStep
<1>3. KeyQueue => NoKeyLeftDown
  BY DEF KeyQueue, DownEnds, NoKeyLeftDown, Idle
<1> QED BY <1>1, <1>2, <1>3, PTL DEF Spec

(* The timer never repeats a key that the user has let go of: whatever     *)
(* ends the key is in the socket, and the select takes the socket first.   *)
THEOREM AdapterNoTrailingRepeat == Spec => []NoTrailingRepeat
<1> DEFINE Inv == Types /\ KeyQueue /\ NoTrailingRepeat
<1>1. Init => Inv
  BY InitTyped, KeyQueueInit DEF Init, NoTrailingRepeat
<1>2. ASSUME Inv, [Next]_vars PROVE NoTrailingRepeat'
  <2> USE <1>2 DEF NoTrailingRepeat
  <2>1. CASE UNCHANGED vars
    BY <2>1 DEF vars
  <2>2. CASE Keyboard
    BY <2>2, PressDigest, ReleaseDigest, RepeatDigest, ModifiersDigest, RepeatInfoDigest
       DEF Keyboard, KeyDigest
  <2>3. CASE FillFrame
    BY <2>3, FillFacts DEF FillDigest
  <2>4. CASE DeactivateV2 \/ DeactivateV1
    BY <2>4, DeactivateFacts
  <2>5. CASE Done \/ CommitState \/ EndOfDispatch
    BY <2>5, AppliesFacts DEF AppliesFrame, DoneDigest
  <2>6. CASE ResetV1
    BY <2>6, ResetV1Facts
  <2>7. CASE Unavailable
    BY <2>7 DEF Unavailable
  <2>8. CASE WindowFields
    BY <2>8, WindowFacts DEF WindowDigest
  <2>9. CASE RepeatFires
    <3>1. /\ running = "yes" /\ socket = <<>> /\ relay.held # None
          /\ "trailing_repeat" \in app'.faults =>
               "trailing_repeat" \in app.faults \/ relay.held \notin user
      <4>1. Types
        BY <1>2
      <4> QED BY ONLY <2>9, <4>1, FiresFacts
    <3>2. \A j \in DOMAIN socket : FALSE
      <4>1. socket = <<>>
        BY <3>1
      <4> QED BY ONLY <4>1
    <3>3. relay.held \in user
      BY <3>1, <3>2 DEF KeyQueue, HeldEnds
    <3> QED BY <2>9, <3>1, <3>3
  <2>10. CASE FocusChanges
    BY <2>10, FocusFacts
  <2>11. CASE Teardown
    BY <2>11, TeardownFacts
  <2>12. CASE Press \/ Release
    <3>1. PICK key \in UserKeys, value \in {0, 1} : UserKey(key, value)
      BY <2>12, TypesFacts DEF Press, Release
    <3> QED BY <3>1, UserFacts DEF UserDigest
  <2>13. CASE Compositor
    BY <2>13, EnableFacts, DisableFacts, ReportFacts, QuietFacts
       DEF Compositor, EnableDigest, DisableDigest, ReportDigest, QuietDigest
  <2>14. CASE EchoTimeout
    BY <2>14, TimeoutFacts
  <2>15. CASE Toggle
    BY <2>15, ToggleFacts
  <2> QED BY <2>1, <2>2, <2>3, <2>4, <2>5, <2>6, <2>7, <2>8, <2>9, <2>10, <2>11, <2>12, <2>13, <2>14,
             <2>15 DEF Next, Input, Loop
<1>3. Inv /\ [Next]_vars => Inv'
  BY <1>2, NextTyped, KeyQueueStep
<1>4. Inv => NoTrailingRepeat
  OBVIOUS
<1> QED BY <1>1, <1>3, <1>4, PTL DEF Spec

-----------------------------------------------------------------------------
(* The queue of sessions.                                                  *)

(* The text input that the session will be for when the pending frame is   *)
(* applied.                                                                *)
Live ==
  IF frame.deactivate THEN 0 ELSE IF frame.activate # 0 THEN frame.activate ELSE router.session

At(i, type) == i \in DOMAIN socket /\ Is(i, type)
Between(i, j, type) == \E k \in DOMAIN socket : i < k /\ k < j /\ Is(k, type)
Later(i, type) == \E k \in DOMAIN socket : i < k /\ Is(k, type)
TurnTypes == {"activate", "deactivate"}

(* Activations and deactivations take turns, from the live session on.     *)
Alternate ==
  /\ \A i, j \in DOMAIN socket :
       i < j /\ Is(i, "activate") /\ Is(j, "activate") => Between(i, j, "deactivate")
  /\ \A i, j \in DOMAIN socket :
       i < j /\ Is(i, "deactivate") /\ Is(j, "deactivate") => Between(i, j, "activate")
  /\ \A j \in DOMAIN socket : Is(j, "activate") /\ Live # 0 => Between(0, j, "deactivate")
  /\ \A j \in DOMAIN socket : Is(j, "deactivate") /\ Live = 0 => Between(0, j, "activate")

(* A text that waits is that of the session that will be live when it is   *)
(* read.                                                                   *)
TextsOwned ==
  \A i \in DOMAIN socket : Is(i, "surrounding_text") =>
    \/ Live = socket[i].epoch /\ \A type \in TurnTypes : ~Between(0, i, type)
    \/ \E a \in DOMAIN socket :
         a < i /\ Is(a, "activate") /\ socket[a].epoch = socket[i].epoch
         /\ ~Between(a, i, "deactivate")

(* Everything dispatched, the session is that of the enabled text input,   *)
(* or none.                                                                *)
DeskOpen ==
  running # "no" /\ desk.active =>
    \/ Live = desk.epoch /\ \A type \in TurnTypes : ~Later(0, type)
    \/ \E a \in DOMAIN socket :
         Is(a, "activate") /\ socket[a].epoch = desk.epoch /\ ~Later(a, "deactivate")

DeskClosed ==
  running # "no" /\ ~desk.active =>
    /\ Live # 0 => Later(0, "deactivate")
    /\ \A a \in DOMAIN socket : Is(a, "activate") => Later(a, "deactivate")

(* An activation is followed by the end of its frame, perhaps after the    *)
(* text.                                                                   *)
Ended(i) == At(i + 1, End) \/ (At(i + 1, "surrounding_text") /\ At(i + 2, End))
FramesEnd ==
  /\ \A i \in DOMAIN socket : Is(i, "activate") => Ended(i)
  /\ \A i \in DOMAIN socket : IsV2 /\ Is(i, "deactivate") => At(i + 1, "done")

Turns == Alternate /\ TextsOwned /\ DeskOpen /\ DeskClosed /\ FramesEnd

(* The frame that is being read.                                           *)
FramePending ==
  /\ running # "no" /\ frame.activate # 0 => Ended(0)
  /\ running # "no" /\ frame.deactivate => IsV2 /\ At(1, "done")
FrameText == frame.text # 0 /\ ~frame.deactivate => frame.text = Live

Sessions ==
  /\ router.session # 0 <=> router.active /\ ~router.synthetic
  /\ frame.deactivate => router.session # 0
  /\ router.synthetic => router.active
  /\ frame.activate # 0 => router.session = 0 /\ ~frame.deactivate
  /\ router.seen # 0 => router.seen = router.session

(* The last focus change that waits is the current one.                    *)
FocusQueue ==
  IF focus.sent = <<>> THEN router.synthetic => router.app = focus.current
  ELSE focus.sent[Len(focus.sent)] = focus.current

SessionQueue == Turns /\ FramePending /\ FrameText /\ Sessions /\ FocusQueue

(* The events move up, and others than of a text input come behind them.   *)
Calm == {e \in Events : e.type \notin {"activate", "deactivate", "surrounding_text"}}

Slides(d) ==
  d \in {0, 1} /\ Shifted(d, Calm) /\ socket' \in Seq(Events) /\ UNCHANGED profile

(* After a slide, whatever turns a text input on or off was there before.  *)
LEMMA SlidesPlaces ==
  ASSUME Types, NEW d, Slides(d)
  PROVE  /\ d \in {0, 1} /\ IsV2' = IsV2 /\ End' = End
         /\ \A i \in DOMAIN socket : i > d =>
              /\ i - d \in DOMAIN socket' /\ socket'[i - d] = socket[i]
              /\ \A type : Is(i - d, type)' <=> Is(i, type)
         /\ \A j \in DOMAIN socket' :
              /\ j \in Nat /\ j > 0
              /\ \/ Is(j, "activate")' \/ Is(j, "deactivate")' \/ Is(j, "surrounding_text")'
                 => /\ j + d \in DOMAIN socket /\ socket'[j] = socket[j + d]
                    /\ \A type : Is(j, type)' <=> Is(j + d, type)
<1>1. d \in {0, 1} /\ IsV2' = IsV2 /\ End' = End
  BY DEF Slides, IsV2, End
<1>2. ASSUME NEW i \in DOMAIN socket, i > d
      PROVE  /\ i - d \in DOMAIN socket' /\ socket'[i - d] = socket[i]
             /\ \A type : Is(i - d, type)' <=> Is(i, type)
  <2>1. i - d \in DOMAIN socket' /\ socket'[i - d] = socket[i]
    BY <1>2 DEF Slides, Shifted
  <2> QED BY <2>1 DEF Is
<1>3. ASSUME NEW j \in DOMAIN socket',
             Is(j, "activate")' \/ Is(j, "deactivate")' \/ Is(j, "surrounding_text")'
      PROVE  /\ j + d \in DOMAIN socket /\ socket'[j] = socket[j + d]
             /\ \A type : Is(j, type)' <=> Is(j + d, type)
  <2>1. socket'[j] \notin Calm
    BY <1>3 DEF Is, Calm
  <2>2. j + d \in DOMAIN socket /\ socket'[j] = socket[j + d]
    BY <2>1 DEF Slides, Shifted
  <2> QED BY <2>2 DEF Is
<1>4. \A j \in DOMAIN socket' : j \in Nat /\ j > 0
  BY DEF Slides
<1> QED BY <1>1, <1>2, <1>3, <1>4

(* What is between two places, or behind one, moves with them.             *)
LEMMA SlidesBetween ==
  ASSUME Types, NEW d, Slides(d), NEW type \in TurnTypes, NEW i \in Nat
  PROVE  /\ \A j \in Nat : Between(i, j, type)' <=> Between(i + d, j + d, type)
         /\ Later(i, type)' <=> Later(i + d, type)
<1>1. /\ d \in {0, 1}
      /\ \A k \in DOMAIN socket : k > d =>
           k - d \in DOMAIN socket' /\ (Is(k - d, type)' <=> Is(k, type))
      /\ \A k \in DOMAIN socket' :
           /\ k \in Nat /\ k > 0
           /\ Is(k, type)' => k + d \in DOMAIN socket /\ Is(k + d, type)
  BY SlidesPlaces DEF TurnTypes
<1>2. \A k \in DOMAIN socket : k \in Nat
  BY PlacesFacts
<1>3. ASSUME NEW k \in DOMAIN socket, i + d < k, Is(k, type)
      PROVE  /\ k - d \in DOMAIN socket' /\ i < k - d /\ Is(k - d, type)'
             /\ \A j \in Nat : k < j + d => k - d < j
  <2>1. k > d /\ i < k - d /\ k \in Nat /\ \A j \in Nat : k < j + d => k - d < j
    BY <1>1, <1>2, <1>3
  <2> QED BY <1>1, <1>3, <2>1
<1>4. ASSUME NEW k \in DOMAIN socket', i < k, Is(k, type)'
      PROVE  /\ k + d \in DOMAIN socket /\ i + d < k + d /\ Is(k + d, type)
             /\ \A j \in Nat : k < j => k + d < j + d
  <2>1. i + d < k + d /\ \A j \in Nat : k < j => k + d < j + d
    BY <1>1, <1>4
  <2> QED BY <1>1, <1>4, <2>1
<1>5. ASSUME NEW j \in Nat PROVE Between(i, j, type)' <=> Between(i + d, j + d, type)
  BY <1>3, <1>4 DEF Between
<1>6. Later(i, type)' <=> Later(i + d, type)
  BY <1>3, <1>4 DEF Later
<1> QED BY <1>5, <1>6

(* What lies behind the first event, when that is of another type, is what *)
(* lies behind the start.                                                  *)
LEMMA HeadBetween ==
  ASSUME Types, NEW type, ~Is(1, type)
  PROVE  /\ \A j \in Nat : Between(0, j, type) <=> Between(1, j, type)
         /\ Later(0, type) <=> Later(1, type)
<1>1. \A k \in DOMAIN socket : k \in Nat /\ k > 0 /\ (k # 1 => 1 < k) /\ 0 < k
  BY PlacesFacts
<1>2. \A k \in DOMAIN socket : 1 < k => 0 < k
  BY <1>1
<1>3. \A k \in DOMAIN socket : Is(k, type) => 1 < k
  BY <1>1
<1> QED BY <1>1, <1>2, <1>3 DEF Between, Later

(* The places behind an activation or a deactivation.                      *)
LEMMA EndedMoves ==
  ASSUME Types, NEW d, Slides(d), FramesEnd PROVE FramesEnd'
<1>1. ASSUME NEW i \in Nat, NEW n \in {1, 2}, NEW type, At(i + d + n, type) PROVE At(i + n, type)'
  <2>1. d \in {0, 1} /\ i + d + n > d /\ (i + d + n) - d = i + n
    BY SlidesPlaces
  <2> QED BY <1>1, <2>1, SlidesPlaces DEF At
<1>2. ASSUME NEW j \in DOMAIN socket', Is(j, "activate")' PROVE Ended(j)'
  <2>1. j \in Nat /\ j + d \in DOMAIN socket /\ Is(j + d, "activate") /\ End' = End
    BY <1>2, SlidesPlaces
  <2>2. Ended(j + d)
    BY <2>1 DEF FramesEnd
  <2>3. CASE At(j + d + 1, End)
    <3>1. PICK end : end = End
      OBVIOUS
    <3>2. At(j + 1, end)'
      BY <1>1, <2>1, <2>3, <3>1
    <3> QED BY <2>1, <3>1, <3>2 DEF Ended, At, Is
  <2>4. CASE At(j + d + 1, "surrounding_text") /\ At(j + d + 2, End)
    <3>1. PICK end : end = End
      OBVIOUS
    <3>2. At(j + 1, "surrounding_text")' /\ At(j + 2, end)'
      BY <1>1, <2>1, <2>4, <3>1
    <3> QED BY <2>1, <3>1, <3>2 DEF Ended, At, Is
  <2> QED BY <2>2, <2>3, <2>4 DEF Ended
<1>3. ASSUME IsV2, NEW j \in DOMAIN socket', Is(j, "deactivate")' PROVE At(j + 1, "done")'
  <2>1. j \in Nat /\ j + d \in DOMAIN socket /\ Is(j + d, "deactivate")
    BY <1>3, SlidesPlaces
  <2>2. At(j + d + 1, "done")
    BY <1>3, <2>1 DEF FramesEnd
  <2> QED BY <1>1, <2>1, <2>2
<1>4. IsV2' = IsV2
  BY SlidesPlaces
<1> QED BY <1>2, <1>3, <1>4 DEF FramesEnd

(* A step that dispatches no turn, and leaves the session that will be     *)
(* live.                                                                   *)
LEMMA SlidesTurns ==
  ASSUME Types, Turns, NEW d, Slides(d), d = 1 => ~Is(1, "activate") /\ ~Is(1, "deactivate"),
         Live' = Live, desk'.active = desk.active, desk'.epoch = desk.epoch,
         running' # "no" => running # "no"
  PROVE  Turns'
<1>1. /\ d \in {0, 1} /\ 0 \in Nat
      /\ \A i \in DOMAIN socket : i > d =>
           /\ i - d \in DOMAIN socket' /\ socket'[i - d] = socket[i]
           /\ \A type : Is(i - d, type)' <=> Is(i, type)
      /\ \A j \in DOMAIN socket' :
           /\ j \in Nat /\ j > 0
           /\ \/ Is(j, "activate")' \/ Is(j, "deactivate")' \/ Is(j, "surrounding_text")'
              => /\ j + d \in DOMAIN socket /\ socket'[j] = socket[j + d]
                 /\ \A type : Is(j, type)' <=> Is(j + d, type)
  BY SlidesPlaces
<1>2. \A k \in DOMAIN socket : k \in Nat /\ k > 0
  BY PlacesFacts
<1>3. ASSUME NEW type \in TurnTypes
      PROVE  /\ \A i, j \in Nat : Between(i, j, type)' <=> Between(i + d, j + d, type)
             /\ \A j \in Nat : Between(0, j, type)' <=> Between(0, j + d, type)
             /\ \A i \in Nat : Later(i, type)' <=> Later(i + d, type)
             /\ Later(0, type)' <=> Later(0, type)
  <2>1. /\ \A i, j \in Nat : Between(i, j, type)' <=> Between(i + d, j + d, type)
        /\ \A i \in Nat : Later(i, type)' <=> Later(i + d, type)
    BY SlidesBetween
  <2>2. /\ \A j \in Nat : Between(0, j, type)' <=> Between(d, j + d, type)
        /\ Later(0, type)' <=> Later(d, type)
    <3>1. 0 + d = d
      BY <1>1
    <3> QED BY <1>1, <2>1, <3>1
  <2>3. /\ \A j \in Nat : Between(0, j + d, type) <=> Between(d, j + d, type)
        /\ Later(0, type) <=> Later(d, type)
    <3>1. CASE d = 0
      BY <3>1
    <3>2. CASE d = 1
      <4>1. ~Is(1, type)
        BY <3>2 DEF TurnTypes
      <4>2. \A j \in Nat : j + d \in Nat
        BY <3>2
      <4> QED BY <3>2, <4>1, <4>2, HeadBetween
    <3> QED BY <1>1, <3>1, <3>2
  <2> QED BY <2>1, <2>2, <2>3
<1>4. \A i, j \in Nat : i < j => i + d < j + d
  BY <1>1
<1>5. ASSUME NEW a \in DOMAIN socket, Is(a, "activate")
      PROVE  /\ a > d /\ a - d \in DOMAIN socket' /\ socket'[a - d] = socket[a] /\ a - d \in Nat
             /\ (a - d) + d = a /\ Is(a - d, "activate")'
             /\ \A j \in Nat : a < j + d => a - d < j
  <2>1. a > d
    BY <1>1, <1>2, <1>5
  <2> QED BY <1>1, <1>2, <1>5, <2>1
<1>6. "activate" \in TurnTypes /\ "deactivate" \in TurnTypes
  BY DEF TurnTypes
<1>7. Alternate'
  <2>1. ASSUME NEW i \in DOMAIN socket', NEW j \in DOMAIN socket', i < j,
               Is(i, "activate")', Is(j, "activate")'
        PROVE  Between(i, j, "deactivate")'
    BY <1>1, <1>3, <1>4, <1>6, <2>1 DEF Turns, Alternate
  <2>2. ASSUME NEW i \in DOMAIN socket', NEW j \in DOMAIN socket', i < j,
               Is(i, "deactivate")', Is(j, "deactivate")'
        PROVE  Between(i, j, "activate")'
    BY <1>1, <1>3, <1>4, <1>6, <2>2 DEF Turns, Alternate
  <2>3. ASSUME NEW j \in DOMAIN socket', Is(j, "activate")', Live # 0
        PROVE  Between(0, j, "deactivate")'
    BY <1>1, <1>3, <1>6, <2>3 DEF Turns, Alternate
  <2>4. ASSUME NEW j \in DOMAIN socket', Is(j, "deactivate")', Live = 0
        PROVE  Between(0, j, "activate")'
    BY <1>1, <1>3, <1>6, <2>4 DEF Turns, Alternate
  <2> QED BY <2>1, <2>2, <2>3, <2>4 DEF Alternate
<1>8. TextsOwned'
  <2>1. ASSUME NEW i \in DOMAIN socket', Is(i, "surrounding_text")'
        PROVE  \/ Live = socket'[i].epoch /\ \A type \in TurnTypes : ~Between(0, i, type)'
               \/ \E a \in DOMAIN socket' :
                    a < i /\ Is(a, "activate")' /\ socket'[a].epoch = socket'[i].epoch
                    /\ ~Between(a, i, "deactivate")'
    <3>1. i \in Nat /\ i + d \in DOMAIN socket /\ socket'[i] = socket[i + d]
          /\ Is(i + d, "surrounding_text")
      BY <1>1, <2>1
    <3>2. CASE Live = socket[i + d].epoch /\ \A type \in TurnTypes : ~Between(0, i + d, type)
      BY <1>3, <3>1, <3>2
    <3>3. CASE \E a \in DOMAIN socket :
                 a < i + d /\ Is(a, "activate") /\ socket[a].epoch = socket[i + d].epoch
                 /\ ~Between(a, i + d, "deactivate")
      <4>1. PICK a \in DOMAIN socket :
              a < i + d /\ Is(a, "activate") /\ socket[a].epoch = socket[i + d].epoch
              /\ ~Between(a, i + d, "deactivate")
        BY <3>3
      <4>2. /\ a - d \in DOMAIN socket' /\ socket'[a - d] = socket[a] /\ a - d \in Nat
            /\ (a - d) + d = a /\ Is(a - d, "activate")' /\ a - d < i
        BY <1>5, <3>1, <4>1
      <4>3. ~Between(a - d, i, "deactivate")'
        BY <1>3, <1>6, <3>1, <4>1, <4>2
      <4> QED BY <3>1, <4>1, <4>2, <4>3
    <3> QED BY <3>1, <3>2, <3>3 DEF Turns, TextsOwned
  <2> QED BY <2>1 DEF TextsOwned, TurnTypes
<1>9. DeskOpen'
  <2>1. ASSUME running # "no", desk.active
        PROVE  \/ Live = desk.epoch /\ \A type \in TurnTypes : ~Later(0, type)'
               \/ \E a \in DOMAIN socket' :
                    Is(a, "activate")' /\ socket'[a].epoch = desk.epoch /\ ~Later(a, "deactivate")'
    <3>1. CASE Live = desk.epoch /\ \A type \in TurnTypes : ~Later(0, type)
      BY <1>3, <3>1
    <3>2. CASE \E a \in DOMAIN socket :
                 Is(a, "activate") /\ socket[a].epoch = desk.epoch /\ ~Later(a, "deactivate")
      <4>1. PICK a \in DOMAIN socket :
              Is(a, "activate") /\ socket[a].epoch = desk.epoch /\ ~Later(a, "deactivate")
        BY <3>2
      <4>2. /\ a - d \in DOMAIN socket' /\ socket'[a - d] = socket[a] /\ a - d \in Nat
            /\ (a - d) + d = a /\ Is(a - d, "activate")'
        BY <1>5, <4>1
      <4>3. ~Later(a - d, "deactivate")'
        BY <1>3, <1>6, <4>1, <4>2
      <4> QED BY <4>1, <4>2, <4>3
    <3> QED BY <2>1, <3>1, <3>2 DEF Turns, DeskOpen
  <2> QED BY <2>1 DEF DeskOpen, TurnTypes
<1>10. DeskClosed'
  <2>1. ASSUME running # "no", ~desk.active
        PROVE  /\ Live # 0 => Later(0, "deactivate")'
               /\ \A a \in DOMAIN socket' : Is(a, "activate")' => Later(a, "deactivate")'
    BY <1>1, <1>3, <1>6, <2>1 DEF Turns, DeskClosed
  <2> QED BY <2>1 DEF DeskClosed
<1>11. FramesEnd'
  BY EndedMoves DEF Turns
<1> QED BY <1>7, <1>8, <1>9, <1>10, <1>11 DEF Turns

(* A turn is dispatched.                                                   *)
Steady ==
  desk'.active = desk.active /\ desk'.epoch = desk.epoch /\ (running' # "no" => running # "no")

(* When the first event is gone, places count from one less, and what lay  *)
(* behind the first event lies behind the start.                           *)
LEMMA FirstMoves ==
  ASSUME Types, Slides(1)
  PROVE  /\ \A j \in DOMAIN socket' :
              /\ j \in Nat /\ j > 0
              /\ \/ Is(j, "activate")' \/ Is(j, "deactivate")' \/ Is(j, "surrounding_text")'
                 => /\ j + 1 \in DOMAIN socket /\ socket'[j] = socket[j + 1] /\ 1 < j + 1
                    /\ \A type : Is(j, type)' <=> Is(j + 1, type)
         /\ \A type \in TurnTypes :
              /\ \A i, j \in Nat : Between(i, j, type)' <=> Between(i + 1, j + 1, type)
              /\ \A j \in Nat : Between(0, j, type)' <=> Between(1, j + 1, type)
              /\ \A i \in Nat : Later(i, type)' <=> Later(i + 1, type)
              /\ Later(0, type)' <=> Later(1, type)
         /\ \A a \in DOMAIN socket : a # 1 =>
              /\ a - 1 \in DOMAIN socket' /\ socket'[a - 1] = socket[a] /\ a - 1 \in Nat
              /\ (a - 1) + 1 = a /\ (Is(a - 1, "activate")' <=> Is(a, "activate"))
              /\ \A j \in Nat : a < j + 1 => a - 1 < j
<1>1. ASSUME NEW type \in TurnTypes
      PROVE  /\ \A i, j \in Nat : Between(i, j, type)' <=> Between(i + 1, j + 1, type)
             /\ \A j \in Nat : Between(0, j, type)' <=> Between(1, j + 1, type)
             /\ \A i \in Nat : Later(i, type)' <=> Later(i + 1, type)
             /\ Later(0, type)' <=> Later(1, type)
  <2>1. /\ \A i, j \in Nat : Between(i, j, type)' <=> Between(i + 1, j + 1, type)
        /\ \A i \in Nat : Later(i, type)' <=> Later(i + 1, type)
    BY SlidesBetween
  <2>2. 0 \in Nat /\ 0 + 1 = 1
    OBVIOUS
  <2>3. /\ \A j \in Nat : Between(0, j, type)' <=> Between(0 + 1, j + 1, type)
        /\ Later(0, type)' <=> Later(0 + 1, type)
    BY <2>1, <2>2
  <2> QED BY <2>1, <2>2, <2>3
<1>2. ASSUME NEW a \in DOMAIN socket, a # 1
      PROVE  /\ a - 1 \in DOMAIN socket' /\ socket'[a - 1] = socket[a] /\ a - 1 \in Nat
             /\ (a - 1) + 1 = a /\ (Is(a - 1, "activate")' <=> Is(a, "activate"))
             /\ \A j \in Nat : a < j + 1 => a - 1 < j
  <2>1. a \in Nat /\ a > 1
    BY <1>2, PlacesFacts
  <2> QED BY <2>1, SlidesPlaces
<1>3. ASSUME NEW j \in DOMAIN socket'
      PROVE  /\ j \in Nat /\ j > 0
             /\ \/ Is(j, "activate")' \/ Is(j, "deactivate")' \/ Is(j, "surrounding_text")'
                => /\ j + 1 \in DOMAIN socket /\ socket'[j] = socket[j + 1] /\ 1 < j + 1
                   /\ \A type : Is(j, type)' <=> Is(j + 1, type)
  <2>1. j \in Nat /\ j > 0
    BY SlidesPlaces
  <2>2. 1 < j + 1
    BY <2>1
  <2> QED BY <2>1, <2>2, SlidesPlaces
<1> QED BY <1>1, <1>2, <1>3

(* An activation is dispatched: its text input is now the live one.        *)
LEMMA ActivateTurns ==
  ASSUME Types, Turns, Slides(1), At(1, "activate"), Steady,
         Live' = socket[1].epoch, socket[1].epoch # 0
  PROVE  Turns'
<1>1. /\ \A j \in DOMAIN socket' :
           /\ j \in Nat /\ j > 0
           /\ \/ Is(j, "activate")' \/ Is(j, "deactivate")' \/ Is(j, "surrounding_text")'
              => /\ j + 1 \in DOMAIN socket /\ socket'[j] = socket[j + 1] /\ 1 < j + 1
                 /\ \A type : Is(j, type)' <=> Is(j + 1, type)
      /\ \A type \in TurnTypes :
           /\ \A i, j \in Nat : Between(i, j, type)' <=> Between(i + 1, j + 1, type)
           /\ \A j \in Nat : Between(0, j, type)' <=> Between(1, j + 1, type)
           /\ \A i \in Nat : Later(i, type)' <=> Later(i + 1, type)
           /\ Later(0, type)' <=> Later(1, type)
      /\ \A a \in DOMAIN socket : a # 1 =>
           /\ a - 1 \in DOMAIN socket' /\ socket'[a - 1] = socket[a] /\ a - 1 \in Nat
           /\ (a - 1) + 1 = a /\ (Is(a - 1, "activate")' <=> Is(a, "activate"))
           /\ \A j \in Nat : a < j + 1 => a - 1 < j
  BY FirstMoves
<1>2. \A i, j \in Nat : i < j => i + 1 < j + 1
  OBVIOUS
<1>3. "activate" \in TurnTypes /\ "deactivate" \in TurnTypes
      /\ \A type \in TurnTypes : type \in {"activate", "deactivate"}
  BY DEF TurnTypes
<1>4. 1 \in DOMAIN socket /\ Is(1, "activate") /\ ~Is(1, "deactivate") /\ ~Is(1, "surrounding_text")
  BY DEF At, Is
<1>5. Alternate'
  <2>1. ASSUME NEW i \in DOMAIN socket', NEW j \in DOMAIN socket', i < j,
               Is(i, "activate")', Is(j, "activate")'
        PROVE  Between(i, j, "deactivate")'
    BY <1>1, <1>2, <1>3, <2>1 DEF Turns, Alternate
  <2>2. ASSUME NEW i \in DOMAIN socket', NEW j \in DOMAIN socket', i < j,
               Is(i, "deactivate")', Is(j, "deactivate")'
        PROVE  Between(i, j, "activate")'
    BY <1>1, <1>2, <1>3, <2>2 DEF Turns, Alternate
  <2>3. ASSUME NEW j \in DOMAIN socket', Is(j, "activate")' PROVE Between(0, j, "deactivate")'
    BY <1>1, <1>3, <1>4, <2>3 DEF Turns, Alternate
  <2> QED BY <2>1, <2>2, <2>3 DEF Alternate
<1>6. ASSUME NEW j \in DOMAIN socket, 1 < j, Is(j, "activate")
      PROVE  Between(1, j, "deactivate")
  BY <1>4, <1>6 DEF Turns, Alternate
<1>7. ASSUME NEW j \in Nat, Between(1, j, "activate") PROVE Between(1, j, "deactivate")
  <2>1. PICK k \in DOMAIN socket : 1 < k /\ k < j /\ Is(k, "activate")
    BY <1>7 DEF Between
  <2>2. PICK m \in DOMAIN socket : 1 < m /\ m < k /\ Is(m, "deactivate")
    BY <1>6, <2>1 DEF Between
  <2>3. m < j
    BY <2>1, <2>2, PlacesFacts
  <2> QED BY <2>2, <2>3 DEF Between
<1>8. Later(1, "activate") => Later(1, "deactivate")
  BY <1>6 DEF Later, Between
<1>9. TextsOwned'
  <2>1. ASSUME NEW i \in DOMAIN socket', Is(i, "surrounding_text")'
        PROVE  \/ socket[1].epoch = socket'[i].epoch /\ \A type \in TurnTypes : ~Between(0, i, type)'
               \/ \E a \in DOMAIN socket' :
                    a < i /\ Is(a, "activate")' /\ socket'[a].epoch = socket'[i].epoch
                    /\ ~Between(a, i, "deactivate")'
    <3>1. i \in Nat /\ i + 1 \in DOMAIN socket /\ socket'[i] = socket[i + 1]
          /\ Is(i + 1, "surrounding_text") /\ 1 < i + 1 /\ i + 1 \in Nat
      BY <1>1, <2>1
    <3>2. Between(0, i + 1, "activate")
      <4>1. 0 < 1
        OBVIOUS
      <4> QED BY <1>4, <3>1, <4>1 DEF Between
    <3>3. PICK a \in DOMAIN socket :
            a < i + 1 /\ Is(a, "activate") /\ socket[a].epoch = socket[i + 1].epoch
            /\ ~Between(a, i + 1, "deactivate")
      BY <1>3, <3>1, <3>2 DEF Turns, TextsOwned
    <3>4. CASE a = 1
      <4>1. ~Between(1, i + 1, "deactivate") /\ ~Between(1, i + 1, "activate")
        BY <1>7, <3>1, <3>3, <3>4
      <4>2. \A type \in TurnTypes : ~Between(0, i, type)'
        BY <1>1, <1>3, <3>1, <4>1
      <4> QED BY <3>1, <3>3, <3>4, <4>2
    <3>5. CASE a # 1
      <4>1. /\ a - 1 \in DOMAIN socket' /\ socket'[a - 1] = socket[a] /\ a - 1 \in Nat
            /\ (a - 1) + 1 = a /\ Is(a - 1, "activate")' /\ a - 1 < i
        BY <1>1, <3>1, <3>3, <3>5
      <4>2. ~Between(a - 1, i, "deactivate")'
        BY <1>1, <1>3, <3>1, <3>3, <4>1
      <4> QED BY <3>1, <3>3, <4>1, <4>2
    <3> QED BY <3>4, <3>5
  <2> QED BY <2>1 DEF TextsOwned, TurnTypes
<1>10. DeskOpen'
  <2>1. ASSUME running # "no", desk.active
        PROVE  \/ socket[1].epoch = desk.epoch /\ \A type \in TurnTypes : ~Later(0, type)'
               \/ \E a \in DOMAIN socket' :
                    Is(a, "activate")' /\ socket'[a].epoch = desk.epoch /\ ~Later(a, "deactivate")'
    <3>1. Later(0, "activate")
      <4>1. 0 < 1
        OBVIOUS
      <4> QED BY <1>4, <4>1 DEF Later
    <3>2. PICK a \in DOMAIN socket :
            Is(a, "activate") /\ socket[a].epoch = desk.epoch /\ ~Later(a, "deactivate")
      BY <1>3, <2>1, <3>1 DEF Turns, DeskOpen
    <3>3. CASE a = 1
      <4>1. \A type \in TurnTypes : ~Later(1, type)
        BY <1>3, <1>8, <3>2, <3>3
      <4> QED BY <1>1, <3>2, <3>3, <4>1
    <3>4. CASE a # 1
      <4>1. /\ a - 1 \in DOMAIN socket' /\ socket'[a - 1] = socket[a] /\ a - 1 \in Nat
            /\ (a - 1) + 1 = a /\ Is(a - 1, "activate")'
        BY <1>1, <3>2, <3>4
      <4>2. ~Later(a - 1, "deactivate")'
        BY <1>1, <1>3, <3>2, <4>1
      <4> QED BY <3>2, <4>1, <4>2
    <3> QED BY <3>3, <3>4
  <2> QED BY <2>1 DEF DeskOpen, TurnTypes, Steady
<1>11. DeskClosed'
  <2>1. ASSUME running # "no", ~desk.active
        PROVE  /\ Later(0, "deactivate")'
               /\ \A a \in DOMAIN socket' : Is(a, "activate")' => Later(a, "deactivate")'
    BY <1>1, <1>3, <1>4, <2>1 DEF Turns, DeskClosed
  <2> QED BY <2>1 DEF DeskClosed, Steady
<1>12. FramesEnd'
  BY EndedMoves DEF Turns
<1> QED BY <1>5, <1>9, <1>10, <1>11, <1>12 DEF Turns

(* A deactivation is dispatched: no text input is live.                    *)
LEMMA DeactivateTurns ==
  ASSUME Types, Turns, Slides(1), At(1, "deactivate"), Steady, Live' = 0
  PROVE  Turns'
<1>1. /\ \A j \in DOMAIN socket' :
           /\ j \in Nat /\ j > 0
           /\ \/ Is(j, "activate")' \/ Is(j, "deactivate")' \/ Is(j, "surrounding_text")'
              => /\ j + 1 \in DOMAIN socket /\ socket'[j] = socket[j + 1] /\ 1 < j + 1
                 /\ \A type : Is(j, type)' <=> Is(j + 1, type)
      /\ \A type \in TurnTypes :
           /\ \A i, j \in Nat : Between(i, j, type)' <=> Between(i + 1, j + 1, type)
           /\ \A j \in Nat : Between(0, j, type)' <=> Between(1, j + 1, type)
           /\ \A i \in Nat : Later(i, type)' <=> Later(i + 1, type)
      /\ \A a \in DOMAIN socket : a # 1 =>
           /\ a - 1 \in DOMAIN socket' /\ socket'[a - 1] = socket[a] /\ a - 1 \in Nat
           /\ (a - 1) + 1 = a /\ (Is(a - 1, "activate")' <=> Is(a, "activate"))
           /\ \A j \in Nat : a < j + 1 => a - 1 < j
  BY FirstMoves
<1>2. \A i, j \in Nat : i < j => i + 1 < j + 1
  OBVIOUS
<1>3. "activate" \in TurnTypes /\ "deactivate" \in TurnTypes
  BY DEF TurnTypes
<1>4. 1 \in DOMAIN socket /\ Is(1, "deactivate") /\ ~Is(1, "activate") /\ 0 < 1
  BY DEF At, Is
<1>5. Alternate'
  <2>1. ASSUME NEW i \in DOMAIN socket', NEW j \in DOMAIN socket', i < j,
               Is(i, "activate")', Is(j, "activate")'
        PROVE  Between(i, j, "deactivate")'
    BY <1>1, <1>2, <1>3, <2>1 DEF Turns, Alternate
  <2>2. ASSUME NEW i \in DOMAIN socket', NEW j \in DOMAIN socket', i < j,
               Is(i, "deactivate")', Is(j, "deactivate")'
        PROVE  Between(i, j, "activate")'
    BY <1>1, <1>2, <1>3, <2>2 DEF Turns, Alternate
  <2>3. ASSUME NEW j \in DOMAIN socket', Is(j, "deactivate")' PROVE Between(0, j, "activate")'
    BY <1>1, <1>3, <1>4, <2>3 DEF Turns, Alternate
  <2> QED BY <2>1, <2>2, <2>3 DEF Alternate
<1>6. TextsOwned'
  <2>1. ASSUME NEW i \in DOMAIN socket', Is(i, "surrounding_text")'
        PROVE  \E a \in DOMAIN socket' :
                 a < i /\ Is(a, "activate")' /\ socket'[a].epoch = socket'[i].epoch
                 /\ ~Between(a, i, "deactivate")'
    <3>1. i \in Nat /\ i + 1 \in DOMAIN socket /\ socket'[i] = socket[i + 1]
          /\ Is(i + 1, "surrounding_text") /\ 1 < i + 1
      BY <1>1, <2>1
    <3>2. Between(0, i + 1, "deactivate")
      BY <1>4, <3>1 DEF Between
    <3>3. PICK a \in DOMAIN socket :
            a < i + 1 /\ Is(a, "activate") /\ socket[a].epoch = socket[i + 1].epoch
            /\ ~Between(a, i + 1, "deactivate")
      BY <1>3, <3>1, <3>2 DEF Turns, TextsOwned
    <3>4. /\ a - 1 \in DOMAIN socket' /\ socket'[a - 1] = socket[a] /\ a - 1 \in Nat
          /\ (a - 1) + 1 = a /\ Is(a - 1, "activate")' /\ a - 1 < i
      BY <1>1, <1>4, <3>1, <3>3
    <3>5. ~Between(a - 1, i, "deactivate")'
      BY <1>1, <1>3, <3>1, <3>3, <3>4
    <3> QED BY <3>1, <3>3, <3>4, <3>5
  <2> QED BY <2>1 DEF TextsOwned
<1>7. DeskOpen'
  <2>1. ASSUME running # "no", desk.active
        PROVE  \E a \in DOMAIN socket' :
                 Is(a, "activate")' /\ socket'[a].epoch = desk.epoch /\ ~Later(a, "deactivate")'
    <3>1. Later(0, "deactivate")
      BY <1>4 DEF Later
    <3>2. PICK a \in DOMAIN socket :
            Is(a, "activate") /\ socket[a].epoch = desk.epoch /\ ~Later(a, "deactivate")
      BY <1>3, <2>1, <3>1 DEF Turns, DeskOpen
    <3>3. /\ a - 1 \in DOMAIN socket' /\ socket'[a - 1] = socket[a] /\ a - 1 \in Nat
          /\ (a - 1) + 1 = a /\ Is(a - 1, "activate")'
      BY <1>1, <1>4, <3>2
    <3>4. ~Later(a - 1, "deactivate")'
      BY <1>1, <1>3, <3>2, <3>3
    <3> QED BY <3>2, <3>3, <3>4
  <2> QED BY <2>1 DEF DeskOpen, Steady
<1>8. DeskClosed'
  <2>1. ASSUME running # "no", ~desk.active
        PROVE  \A a \in DOMAIN socket' : Is(a, "activate")' => Later(a, "deactivate")'
    BY <1>1, <1>3, <2>1 DEF Turns, DeskClosed
  <2> QED BY <2>1 DEF DeskClosed, Steady
<1>9. FramesEnd'
  BY EndedMoves DEF Turns
<1> QED BY <1>5, <1>6, <1>7, <1>8, <1>9 DEF Turns

(* Events come behind those that wait: what is between two of those, or    *)
(* behind one.                                                             *)
LEMMA GrowsBetween ==
  ASSUME Types, NEW new, Grows(new), NEW type
  PROVE  /\ \A i \in Nat, j \in DOMAIN socket : Between(i, j, type)' <=> Between(i, j, type)
         /\ \A j : \A i \in Nat : j = Len(socket) + 1 /\ Later(i, type) => Between(i, j, type)'
         /\ \A i \in Nat : Later(i, type) => Later(i, type)'
         /\ \A i \in Nat :
              Later(i, type)' => \/ Later(i, type)
                                 \/ \E n \in DOMAIN new : i < Len(socket) + n /\ new[n].type = type
         /\ \A i \in Nat : At(i, type) => At(i, type)'
         /\ \A i, j : Between(i, j, type)' => Later(i, type)'
<1>1. PICK len \in Nat : len = Len(socket)
  BY GrowsPlaces
<1>2. \A k \in DOMAIN socket :
        k \in DOMAIN socket' /\ k \in Nat /\ k <= len /\ (Is(k, type)' <=> Is(k, type))
  BY <1>1, GrowsPlaces
<1>3. ASSUME NEW k \in DOMAIN socket', k \notin DOMAIN socket, Is(k, type)'
      PROVE  k > len /\ \E n \in DOMAIN new : k = len + n /\ new[n].type = type
  <2>1. PICK n \in DOMAIN new : k = len + n /\ socket'[k] = new[n]
    BY <1>1, <1>3, GrowsPlaces
  <2>2. n \in Nat /\ n > 0
    BY GrowsPlaces
  <2>3. len + n > len
    BY <2>2
  <2> QED BY <1>3, <2>1, <2>3 DEF Is
<1>4. ASSUME NEW i \in Nat, NEW j \in DOMAIN socket
      PROVE  Between(i, j, type)' <=> Between(i, j, type)
  <2>1. ASSUME NEW k \in DOMAIN socket', i < k, k < j, Is(k, type)' PROVE k \in DOMAIN socket
    <3>1. SUFFICES ASSUME k \notin DOMAIN socket PROVE FALSE
      OBVIOUS
    <3>2. k > len /\ j <= len /\ j \in Nat /\ k \in Nat
      BY <1>2, <1>3, <2>1, <3>1, GrowsPlaces
    <3> QED BY <2>1, <3>2
  <2> QED BY <1>2, <2>1 DEF Between
<1>5. ASSUME NEW i \in Nat, Later(i, type), NEW j
      PROVE  (j = Len(socket) + 1 => Between(i, j, type)') /\ Later(i, type)'
  <2>1. PICK k \in DOMAIN socket : i < k /\ Is(k, type)
    BY <1>5 DEF Later
  <2>2. k < len + 1
    BY <1>2
  <2>3. j = len + 1 => Between(i, j, type)'
    BY <1>2, <2>1, <2>2 DEF Between
  <2>4. Later(i, type)'
    BY <1>2, <2>1 DEF Later
  <2> QED BY <1>1, <2>3, <2>4
<1>6. ASSUME NEW i \in Nat, Later(i, type)'
      PROVE  \/ Later(i, type)
             \/ \E n \in DOMAIN new : i < Len(socket) + n /\ new[n].type = type
  BY <1>1, <1>2, <1>3, <1>6 DEF Later
<1>7. ASSUME NEW i \in Nat, At(i, type) PROVE At(i, type)'
  BY <1>2, <1>7 DEF At
<1>8. ASSUME NEW i, NEW j, Between(i, j, type)' PROVE Later(i, type)'
  BY <1>8 DEF Between, Later
<1> QED BY <1>4, <1>5, <1>6, <1>7, <1>8

(* ... and the frames and texts among them.                                *)
LEMMA GrowsTurns ==
  ASSUME Types, Turns, NEW new, Grows(new), Live' = Live
  PROVE  /\ \A i \in DOMAIN socket : Is(i, "activate") => Ended(i)'
         /\ \A i \in DOMAIN socket : IsV2 /\ Is(i, "deactivate") => At(i + 1, "done")'
         /\ \A i \in DOMAIN socket : Is(i, "surrounding_text") =>
              \/ Live = socket[i].epoch /\ \A type \in TurnTypes : ~Between(0, i, type)'
              \/ \E a \in DOMAIN socket' :
                   a < i /\ Is(a, "activate")' /\ socket'[a].epoch = socket[i].epoch
                   /\ ~Between(a, i, "deactivate")'
<1>1. \A i \in DOMAIN socket :
        i \in DOMAIN socket' /\ socket'[i] = socket[i] /\ i \in Nat
        /\ \A type : Is(i, type)' <=> Is(i, type)
  BY GrowsPlaces
<1>2. \A type : \A i \in Nat, j \in DOMAIN socket : Between(i, j, type)' <=> Between(i, j, type)
  BY GrowsBetween
<1>3. ASSUME NEW i \in Nat, NEW type, At(i, type) PROVE At(i, type)'
  BY <1>3, GrowsBetween
<1>4. ASSUME NEW i \in DOMAIN socket, Is(i, "activate") PROVE Ended(i)'
  <2>1. Ended(i) /\ i + 1 \in Nat /\ i + 2 \in Nat
    BY <1>1, <1>4 DEF Turns, FramesEnd
  <2>2. PICK end : end = End
    OBVIOUS
  <2>3. End' = End
    BY DEF Grows, End, IsV2
  <2>4. CASE At(i + 1, end)
    <3>1. At(i + 1, end)'
      BY <1>3, <2>1, <2>4
    <3> QED BY <2>2, <2>3, <3>1 DEF Ended, At, Is
  <2>5. CASE At(i + 1, "surrounding_text") /\ At(i + 2, end)
    <3>1. At(i + 1, "surrounding_text")' /\ At(i + 2, end)'
      BY <1>3, <2>1, <2>5
    <3> QED BY <2>2, <2>3, <3>1 DEF Ended, At, Is
  <2> QED BY <2>1, <2>2, <2>4, <2>5 DEF Ended
<1>5. ASSUME NEW i \in DOMAIN socket, IsV2, Is(i, "deactivate") PROVE At(i + 1, "done")'
  <2>1. At(i + 1, "done") /\ i + 1 \in Nat
    BY <1>1, <1>5 DEF Turns, FramesEnd
  <2> QED BY <1>3, <2>1
<1>6. ASSUME NEW i \in DOMAIN socket, Is(i, "surrounding_text")
      PROVE  \/ Live = socket[i].epoch /\ \A type \in TurnTypes : ~Between(0, i, type)'
             \/ \E a \in DOMAIN socket' :
                  a < i /\ Is(a, "activate")' /\ socket'[a].epoch = socket[i].epoch
                  /\ ~Between(a, i, "deactivate")'
  <2>1. CASE Live = socket[i].epoch /\ \A type \in TurnTypes : ~Between(0, i, type)
    <3>1. 0 \in Nat
      OBVIOUS
    <3> QED BY <1>2, <2>1, <3>1
  <2>2. CASE \E a \in DOMAIN socket :
               a < i /\ Is(a, "activate") /\ socket[a].epoch = socket[i].epoch
               /\ ~Between(a, i, "deactivate")
    BY <1>1, <1>2, <2>2
  <2> QED BY <1>6, <2>1, <2>2 DEF Turns, TextsOwned
<1> QED BY <1>4, <1>5, <1>6

(* A text input is enabled: the activation comes behind the end of the one *)
(* before.                                                                 *)
LEMMA EnableTurns ==
  ASSUME Types, Turns, EnableInput PROVE Turns'
<1>1. /\ running = "yes" /\ ~desk.active /\ desk'.active /\ desk'.epoch = desk.epoch + 1
      /\ UNCHANGED <<profile, running, frame, router>>
  BY EnableFacts DEF EnableDigest
<1>2. PICK new \in Seq(Events), m \in {2, 3} :
        /\ socket' = socket \o new /\ Len(new) = m
        /\ new[1].type = "activate" /\ new[1].epoch = desk.epoch + 1
        /\ m = 3 => new[2].type = "surrounding_text" /\ new[2].epoch = desk.epoch + 1
        /\ new[m].type = End
  BY EnableFacts DEF EnableDigest
<1>3. Grows(new) /\ Live' = Live /\ End' = End /\ IsV2' = IsV2
  BY <1>1, <1>2 DEF Grows, Live, End, IsV2
<1>4. PICK last : last = Len(socket) + 1
  OBVIOUS
<1>5. /\ last \in DOMAIN socket' /\ socket'[last] = new[1] /\ Is(last, "activate")' /\ last \in Nat
      /\ last > 0
      /\ \A i \in DOMAIN socket : i < last
      /\ m = 2 => last + 1 \in DOMAIN socket' /\ socket'[last + 1] = new[2]
      /\ m = 3 => /\ last + 1 \in DOMAIN socket' /\ socket'[last + 1] = new[2]
                  /\ last + 2 \in DOMAIN socket' /\ socket'[last + 2] = new[3]
  <2>1. DOMAIN new = 1 .. m
    BY <1>2
  <2>2. PICK len \in Nat : len = Len(socket)
    BY <1>3, GrowsPlaces
  <2>3. /\ \A n \in DOMAIN new : len + n \in DOMAIN socket' /\ socket'[len + n] = new[n]
        /\ \A i \in DOMAIN socket : i \in Nat /\ i <= len
    BY <1>3, <2>2, GrowsPlaces
  <2>4. last = len + 1 /\ last + 1 = len + 2 /\ last + 2 = len + 3 /\ last \in Nat /\ last > 0
        /\ \A i \in DOMAIN socket : i < last
    BY <1>4, <2>2, <2>3
  <2>5. /\ 1 \in DOMAIN new /\ 2 \in DOMAIN new
        /\ m = 3 => 3 \in DOMAIN new
    BY <2>1
  <2> QED BY <1>2, <2>3, <2>4, <2>5 DEF Is
<1>6. ASSUME NEW j \in DOMAIN socket', j \notin DOMAIN socket
      PROVE  /\ j \in Nat /\ j >= last
             /\ ~Is(j, "deactivate")' /\ (Is(j, "activate")' => j = last)
             /\ Is(j, "surrounding_text")' =>
                  j = last + 1 /\ last < j /\ socket'[j].epoch = desk.epoch + 1
  <2>1. PICK n \in DOMAIN new : j = Len(socket) + n /\ socket'[j] = new[n]
    BY <1>3, <1>6, GrowsPlaces
  <2>2. n \in Nat /\ n > 0 /\ Len(socket) \in Nat
    BY <1>3, GrowsPlaces
  <2>3. n \in 1 .. m
    BY <1>2
  <2>4. n = 1 \/ (n = 2 /\ m = 3) \/ n = m
    BY <2>3
  <2>5. /\ new[n].type # "deactivate" /\ (new[n].type = "activate" => n = 1)
        /\ new[n].type = "surrounding_text" => n = 2 /\ new[n].epoch = desk.epoch + 1
    BY <1>2, <2>4 DEF End
  <2>6. j \in Nat /\ j >= last /\ (n = 1 => j = last) /\ (n = 2 => j = last + 1 /\ last < j)
    BY <1>4, <2>1, <2>2
  <2> QED BY <2>1, <2>5, <2>6 DEF Is
<1>7. \A i \in DOMAIN socket :
        i \in DOMAIN socket' /\ socket'[i] = socket[i] /\ i \in Nat
        /\ \A type : Is(i, type)' <=> Is(i, type)
  BY <1>3, GrowsPlaces
<1>8. \A type : /\ \A i \in Nat, j \in DOMAIN socket : Between(i, j, type)' <=> Between(i, j, type)
                /\ \A i \in Nat : Later(i, type) => Between(i, last, type)' /\ Later(i, type)'
                /\ \A i \in Nat : Later(i, type)' =>
                     \/ Later(i, type)
                     \/ \E n \in DOMAIN new : i < Len(socket) + n /\ new[n].type = type
                /\ \A i, j : Between(i, j, type)' => Later(i, type)'
  BY <1>3, <1>4, GrowsBetween
<1>9. 0 \in Nat
  OBVIOUS
<1>10. /\ Live # 0 => Later(0, "deactivate")
       /\ \A a \in DOMAIN socket : Is(a, "activate") => Later(a, "deactivate")
  BY <1>1 DEF Turns, DeskClosed
<1>11. Alternate'
  <2>1. ASSUME NEW i \in DOMAIN socket', NEW j \in DOMAIN socket', i < j,
               Is(i, "activate")', Is(j, "activate")'
        PROVE  Between(i, j, "deactivate")'
    <3>1. CASE j \in DOMAIN socket
      <4>1. i \in DOMAIN socket
        <5>1. j < last /\ j \in Nat /\ last \in Nat
          BY <1>5, <1>7, <3>1
        <5>2. i \notin DOMAIN socket => i >= last /\ i \in Nat
          BY <1>6
        <5> QED BY <2>1, <5>1, <5>2
      <4> QED BY <1>7, <1>8, <2>1, <3>1, <4>1 DEF Turns, Alternate
    <3>2. CASE j \notin DOMAIN socket
      <4>1. j = last
        BY <1>6, <2>1, <3>2
      <4>2. i \in DOMAIN socket
        BY <1>5, <1>6, <2>1, <4>1
      <4> QED BY <1>7, <1>8, <1>10, <2>1, <4>1, <4>2
    <3> QED BY <3>1, <3>2
  <2>2. ASSUME NEW i \in DOMAIN socket', NEW j \in DOMAIN socket', i < j,
               Is(i, "deactivate")', Is(j, "deactivate")'
        PROVE  Between(i, j, "activate")'
    BY <1>6, <1>7, <1>8, <2>2 DEF Turns, Alternate
  <2>3. ASSUME NEW j \in DOMAIN socket', Is(j, "activate")', Live # 0
        PROVE  Between(0, j, "deactivate")'
    BY <1>6, <1>7, <1>8, <1>9, <1>10, <2>3 DEF Turns, Alternate
  <2>4. ASSUME NEW j \in DOMAIN socket', Is(j, "deactivate")', Live = 0
        PROVE  Between(0, j, "activate")'
    BY <1>6, <1>7, <1>8, <1>9, <2>4 DEF Turns, Alternate
  <2> QED BY <1>3, <2>1, <2>2, <2>3, <2>4 DEF Alternate
<1>12. ~Later(last, "deactivate")'
  <2>1. ASSUME NEW k \in DOMAIN socket', last < k PROVE k \notin DOMAIN socket
    <3>1. k \in DOMAIN socket => k < last /\ k \in Nat
      BY <1>5, <1>7
    <3> QED BY <1>5, <2>1, <3>1
  <2> QED BY <1>6, <2>1 DEF Later
<1>13. TextsOwned'
  <2>1. ASSUME NEW i \in DOMAIN socket', Is(i, "surrounding_text")'
        PROVE  \/ Live = socket'[i].epoch /\ \A type \in TurnTypes : ~Between(0, i, type)'
               \/ \E a \in DOMAIN socket' :
                    a < i /\ Is(a, "activate")' /\ socket'[a].epoch = socket'[i].epoch
                    /\ ~Between(a, i, "deactivate")'
    <3>1. CASE i \in DOMAIN socket
      BY <1>3, <1>7, <2>1, <3>1, GrowsTurns
    <3>2. CASE i \notin DOMAIN socket
      <4>1. last < i /\ socket'[i].epoch = desk.epoch + 1
        BY <1>6, <2>1, <3>2
      <4> QED BY <1>2, <1>5, <1>8, <1>12, <4>1
    <3> QED BY <3>1, <3>2
  <2> QED BY <1>3, <2>1 DEF TextsOwned, TurnTypes
<1>14. DeskOpen'
  BY <1>1, <1>2, <1>5, <1>12 DEF DeskOpen
<1>15. DeskClosed'
  BY <1>1 DEF DeskClosed
<1>16. Ended(last)'
  <2>1. PICK end : end = End
    OBVIOUS
  <2>2. CASE m = 2
    <3>1. At(last + 1, end)'
      BY <1>2, <1>5, <2>1, <2>2 DEF At, Is
    <3> QED BY <1>3, <2>1, <3>1 DEF Ended, At, Is
  <2>3. CASE m = 3
    <3>1. At(last + 1, "surrounding_text")' /\ At(last + 2, end)'
      BY <1>2, <1>5, <2>1, <2>3 DEF At, Is
    <3> QED BY <1>3, <2>1, <3>1 DEF Ended, At, Is
  <2> QED BY <2>2, <2>3
<1>17. FramesEnd'
  <2>1. ASSUME NEW i \in DOMAIN socket', Is(i, "activate")' PROVE Ended(i)'
    BY <1>3, <1>6, <1>7, <1>16, <2>1, GrowsTurns
  <2>2. ASSUME IsV2, NEW i \in DOMAIN socket', Is(i, "deactivate")' PROVE At(i + 1, "done")'
    BY <1>3, <1>6, <1>7, <2>2, GrowsTurns
  <2> QED BY <1>3, <2>1, <2>2 DEF FramesEnd
<1> QED BY <1>11, <1>13, <1>14, <1>15, <1>17 DEF Turns

(* A text input is disabled: the deactivation comes behind its activation. *)
LEMMA DisableTurns ==
  ASSUME Types, Turns, EpochsGrow, DisableInput PROVE Turns'
<1>1. /\ running = "yes" /\ desk.active /\ ~desk'.active
      /\ UNCHANGED <<profile, running, frame, router>>
  BY DisableFacts DEF DisableDigest
<1>2. PICK new \in Seq(Events), m \in {1, 2} :
        /\ socket' = socket \o new /\ Len(new) = m
        /\ new[1].type = "deactivate"
        /\ m = IF IsV2 THEN 2 ELSE 1
        /\ IsV2 => new[2].type = "done"
  BY DisableFacts DEF DisableDigest
<1>3. Grows(new) /\ Live' = Live /\ IsV2' = IsV2
  BY <1>1, <1>2 DEF Grows, Live, IsV2
<1>4. PICK last : last = Len(socket) + 1
  OBVIOUS
<1>5. /\ last \in DOMAIN socket' /\ Is(last, "deactivate")' /\ last \in Nat
      /\ last > 0
      /\ \A i \in DOMAIN socket : i < last
      /\ IsV2 => At(last + 1, "done")'
  <2>1. DOMAIN new = 1 .. m
    BY <1>2
  <2>2. PICK len \in Nat : len = Len(socket)
    BY <1>3, GrowsPlaces
  <2>3. /\ \A n \in DOMAIN new : len + n \in DOMAIN socket' /\ socket'[len + n] = new[n]
        /\ \A i \in DOMAIN socket : i \in Nat /\ i <= len
    BY <1>3, <2>2, GrowsPlaces
  <2>4. last = len + 1 /\ last + 1 = len + 2 /\ last \in Nat /\ last > 0
        /\ \A i \in DOMAIN socket : i < last
    BY <1>4, <2>2, <2>3
  <2>5. 1 \in DOMAIN new /\ (IsV2 => 2 \in DOMAIN new)
    BY <1>2, <2>1
  <2> QED BY <1>2, <2>3, <2>4, <2>5 DEF Is, At
<1>6. ASSUME NEW j \in DOMAIN socket', j \notin DOMAIN socket
      PROVE  /\ ~Is(j, "activate")' /\ ~Is(j, "surrounding_text")'
             /\ Is(j, "deactivate")' => j = last
  <2>1. PICK n \in DOMAIN new : j = Len(socket) + n /\ socket'[j] = new[n]
    BY <1>3, <1>6, GrowsPlaces
  <2>2. n \in 1 .. m
    BY <1>2
  <2>3. n = 1 \/ (n = 2 /\ IsV2)
    BY <1>2, <2>2
  <2>4. /\ new[n].type \notin {"activate", "surrounding_text"}
        /\ new[n].type = "deactivate" => n = 1
    BY <1>2, <2>3
  <2> QED BY <1>4, <2>1, <2>4 DEF Is
<1>7. \A i \in DOMAIN socket :
        i \in DOMAIN socket' /\ socket'[i] = socket[i] /\ i \in Nat /\ 0 < i
        /\ \A type : Is(i, type)' <=> Is(i, type)
  BY <1>3, GrowsPlaces
<1>8. \A type : \A i \in Nat, j \in DOMAIN socket : Between(i, j, type)' <=> Between(i, j, type)
  BY <1>3, GrowsBetween
<1>9. 0 \in Nat
  OBVIOUS
<1>10. \/ Live # 0 /\ \A type \in TurnTypes : ~Later(0, type)
       \/ \E a \in DOMAIN socket : Is(a, "activate") /\ ~Later(a, "deactivate")
  <2>1. desk.epoch > 0 /\ desk.epoch \in Nat
    BY <1>1, TypesFacts DEF EpochsGrow, Desk
  <2>2. desk.epoch # 0
    BY <2>1
  <2> QED BY <1>1, <2>2 DEF Turns, DeskOpen
<1>11. Alternate'
  <2>1. ASSUME NEW i \in DOMAIN socket', NEW j \in DOMAIN socket', i < j,
               Is(i, "activate")', Is(j, "activate")'
        PROVE  Between(i, j, "deactivate")'
    BY <1>6, <1>7, <1>8, <2>1 DEF Turns, Alternate
  <2>2. ASSUME NEW i \in DOMAIN socket', NEW j \in DOMAIN socket', i < j,
               Is(i, "deactivate")', Is(j, "deactivate")'
        PROVE  Between(i, j, "activate")'
    <3>1. i \in DOMAIN socket
      <4>1. SUFFICES ASSUME i \notin DOMAIN socket PROVE FALSE
        OBVIOUS
      <4>2. i = last /\ (j = last \/ (j \in DOMAIN socket /\ j < last /\ j \in Nat))
        BY <1>5, <1>6, <1>7, <2>2, <4>1
      <4> QED BY <1>5, <2>2, <4>2
    <3>2. CASE j \in DOMAIN socket
      BY <1>7, <1>8, <2>2, <3>1, <3>2 DEF Turns, Alternate
    <3>3. CASE j \notin DOMAIN socket
      <4>1. j = last /\ Later(0, "deactivate") /\ "deactivate" \in TurnTypes
        BY <1>6, <1>7, <2>2, <3>1, <3>3 DEF Later, TurnTypes
      <4>2. PICK a \in DOMAIN socket : Is(a, "activate") /\ ~Later(a, "deactivate")
        BY <1>10, <4>1
      <4>3. ~(a < i)
        BY <1>7, <2>2, <3>1, <4>2 DEF Later
      <4>4. a # i
        BY <1>7, <2>2, <3>1, <4>2 DEF Is
      <4>5. i < a /\ a < j
        BY <1>5, <1>7, <3>1, <4>1, <4>3, <4>4
      <4> QED BY <1>7, <4>2, <4>5 DEF Between
    <3> QED BY <3>2, <3>3
  <2>3. ASSUME NEW j \in DOMAIN socket', Is(j, "activate")', Live # 0
        PROVE  Between(0, j, "deactivate")'
    BY <1>6, <1>7, <1>8, <1>9, <2>3 DEF Turns, Alternate
  <2>4. ASSUME NEW j \in DOMAIN socket', Is(j, "deactivate")', Live = 0
        PROVE  Between(0, j, "activate")'
    <3>1. CASE j \in DOMAIN socket
      BY <1>7, <1>8, <1>9, <2>4, <3>1 DEF Turns, Alternate
    <3>2. CASE j \notin DOMAIN socket
      <4>1. PICK a \in DOMAIN socket : Is(a, "activate") /\ ~Later(a, "deactivate")
        BY <1>10, <2>4
      <4>2. 0 < a /\ a < j
        BY <1>5, <1>6, <1>7, <2>4, <3>2
      <4> QED BY <1>7, <4>1, <4>2 DEF Between
    <3> QED BY <3>1, <3>2
  <2> QED BY <1>3, <2>1, <2>2, <2>3, <2>4 DEF Alternate
<1>12. TextsOwned'
  <2>1. ASSUME NEW i \in DOMAIN socket', Is(i, "surrounding_text")'
        PROVE  \/ Live = socket'[i].epoch /\ \A type \in TurnTypes : ~Between(0, i, type)'
               \/ \E a \in DOMAIN socket' :
                    a < i /\ Is(a, "activate")' /\ socket'[a].epoch = socket'[i].epoch
                    /\ ~Between(a, i, "deactivate")'
    BY <1>3, <1>6, <1>7, <2>1, GrowsTurns
  <2> QED BY <1>3, <2>1 DEF TextsOwned, TurnTypes
<1>13. DeskOpen'
  BY <1>1 DEF DeskOpen
<1>14. DeskClosed'
  <2>1. Later(0, "deactivate")'
    BY <1>5, <1>9 DEF Later
  <2>2. \A a \in DOMAIN socket' : Is(a, "activate")' => Later(a, "deactivate")'
    BY <1>5, <1>6 DEF Later
  <2> QED BY <2>1, <2>2 DEF DeskClosed
<1>15. FramesEnd'
  <2>1. ASSUME NEW i \in DOMAIN socket', Is(i, "activate")' PROVE Ended(i)'
    BY <1>3, <1>6, <1>7, <2>1, GrowsTurns
  <2>2. ASSUME IsV2, NEW i \in DOMAIN socket', Is(i, "deactivate")' PROVE At(i + 1, "done")'
    BY <1>3, <1>5, <1>6, <1>7, <2>2, GrowsTurns
  <2> QED BY <1>3, <2>1, <2>2 DEF FramesEnd
<1> QED BY <1>11, <1>12, <1>13, <1>14, <1>15 DEF Turns

(* A text is reported behind the activation of the text input it is of.    *)
LEMMA ReportTurns ==
  ASSUME Types, Turns, ReportInput PROVE Turns'
<1>1. /\ running = "yes" /\ desk.active
      /\ UNCHANGED <<profile, running, frame, router, desk>>
  BY ReportFacts DEF ReportDigest
<1>2. PICK new \in Seq(Report) :
        /\ socket' = socket \o new
        /\ \A i \in DOMAIN new : new[i].type \notin {"activate", "deactivate", "key"}
  BY ReportFacts DEF ReportDigest
<1>3. Grows(new) /\ Live' = Live /\ IsV2' = IsV2
  <2>1. new \in Seq(Events)
    BY DEF Report
  <2> QED BY <1>1, <1>2, <2>1 DEF Grows, Live, IsV2
<1>4. ASSUME NEW j \in DOMAIN socket', j \notin DOMAIN socket
      PROVE  /\ ~Is(j, "activate")' /\ ~Is(j, "deactivate")' /\ j \in Nat
             /\ \A i \in DOMAIN socket : i < j
             /\ Is(j, "surrounding_text")' => socket'[j].epoch = desk.epoch
  <2>1. PICK n \in DOMAIN new : j = Len(socket) + n /\ socket'[j] = new[n]
    BY <1>3, <1>4, GrowsPlaces
  <2>2. new[n] \in Report
    OBVIOUS
  <2>3. new[n].type \notin {"activate", "deactivate"}
    BY <1>2
  <2>4. n \in Nat /\ n > 0 /\ Len(socket) \in Nat /\ \A i \in DOMAIN socket : i \in Nat /\ i <= Len(socket)
    BY <1>3, GrowsPlaces
  <2>5. j \in Nat /\ \A i \in DOMAIN socket : i < j
    BY <2>1, <2>4
  <2> QED BY <2>1, <2>2, <2>3, <2>5 DEF Is, Report
<1>5. \A i \in DOMAIN socket :
        i \in DOMAIN socket' /\ socket'[i] = socket[i] /\ i \in Nat
        /\ \A type : Is(i, type)' <=> Is(i, type)
  BY <1>3, GrowsPlaces
<1>6. \A type : /\ \A i \in Nat, j \in DOMAIN socket : Between(i, j, type)' <=> Between(i, j, type)
                /\ \A i \in Nat : Later(i, type) => Later(i, type)'
                /\ \A i, j : Between(i, j, type)' => Later(i, type)'
  BY <1>3, GrowsBetween
<1>7. ASSUME NEW type \in TurnTypes, NEW i \in Nat, Later(i, type)' PROVE Later(i, type)
  <2>1. \A n \in DOMAIN new : new[n].type # type
    BY <1>2 DEF TurnTypes
  <2> QED BY <1>3, <1>7, <2>1, GrowsBetween
<1>8. 0 \in Nat /\ "deactivate" \in TurnTypes
  BY DEF TurnTypes
<1>9. \/ Live = desk.epoch /\ \A type \in TurnTypes : ~Later(0, type)'
      \/ \E a \in DOMAIN socket' :
           a \in DOMAIN socket /\ Is(a, "activate")' /\ socket'[a].epoch = desk.epoch
           /\ ~Later(a, "deactivate")'
  <2>1. CASE Live = desk.epoch /\ \A type \in TurnTypes : ~Later(0, type)
    BY <1>7, <1>8, <2>1
  <2>2. CASE \E a \in DOMAIN socket :
               Is(a, "activate") /\ socket[a].epoch = desk.epoch /\ ~Later(a, "deactivate")
    BY <1>5, <1>7, <1>8, <2>2
  <2> QED BY <1>1, <2>1, <2>2 DEF Turns, DeskOpen
<1>10. Alternate'
  <2>1. ASSUME NEW i \in DOMAIN socket', NEW j \in DOMAIN socket', i < j,
               Is(i, "activate")', Is(j, "activate")'
        PROVE  Between(i, j, "deactivate")'
    BY <1>4, <1>5, <1>6, <2>1 DEF Turns, Alternate
  <2>2. ASSUME NEW i \in DOMAIN socket', NEW j \in DOMAIN socket', i < j,
               Is(i, "deactivate")', Is(j, "deactivate")'
        PROVE  Between(i, j, "activate")'
    BY <1>4, <1>5, <1>6, <2>2 DEF Turns, Alternate
  <2>3. ASSUME NEW j \in DOMAIN socket', Is(j, "activate")', Live # 0
        PROVE  Between(0, j, "deactivate")'
    BY <1>4, <1>5, <1>6, <1>8, <2>3 DEF Turns, Alternate
  <2>4. ASSUME NEW j \in DOMAIN socket', Is(j, "deactivate")', Live = 0
        PROVE  Between(0, j, "activate")'
    BY <1>4, <1>5, <1>6, <1>8, <2>4 DEF Turns, Alternate
  <2> QED BY <1>3, <2>1, <2>2, <2>3, <2>4 DEF Alternate
<1>11. TextsOwned'
  <2>1. ASSUME NEW i \in DOMAIN socket', Is(i, "surrounding_text")'
        PROVE  \/ Live = socket'[i].epoch /\ \A type \in TurnTypes : ~Between(0, i, type)'
               \/ \E a \in DOMAIN socket' :
                    a < i /\ Is(a, "activate")' /\ socket'[a].epoch = socket'[i].epoch
                    /\ ~Between(a, i, "deactivate")'
    <3>1. CASE i \in DOMAIN socket
      BY <1>3, <1>5, <2>1, <3>1, GrowsTurns
    <3>2. CASE i \notin DOMAIN socket
      BY <1>4, <1>6, <1>9, <2>1, <3>2
    <3> QED BY <3>1, <3>2
  <2> QED BY <1>3, <2>1 DEF TextsOwned, TurnTypes
<1>12. DeskOpen'
  BY <1>1, <1>3, <1>9 DEF DeskOpen, TurnTypes
<1>13. DeskClosed'
  BY <1>1 DEF DeskClosed
<1>14. FramesEnd'
  <2>1. ASSUME NEW i \in DOMAIN socket', Is(i, "activate")' PROVE Ended(i)'
    BY <1>3, <1>4, <1>5, <2>1, GrowsTurns
  <2>2. ASSUME IsV2, NEW i \in DOMAIN socket', Is(i, "deactivate")' PROVE At(i + 1, "done")'
    BY <1>3, <1>4, <1>5, <2>2, GrowsTurns
  <2> QED BY <1>3, <2>1, <2>2 DEF FramesEnd
<1> QED BY <1>10, <1>11, <1>12, <1>13, <1>14 DEF Turns

-----------------------------------------------------------------------------
(* The session through each step.                                          *)

(* The ways in which a step leaves the socket, as slides.                  *)
LEMMA SlidesFrom ==
  ASSUME Types, Types', UNCHANGED profile
  PROVE  /\ Leaves(socket) \/ UNCHANGED socket \/ Adds(Quiet) \/ Adds(Calm) => Slides(0)
         /\ socket # <<>> /\ (Leaves(Tail(socket)) \/ socket' = Tail(socket)) => Slides(1)
<1>1. ModsEvents \subseteq Calm /\ Quiet \subseteq Calm /\ {} \subseteq Calm /\ Quiet \subseteq Events
  BY DEF ModsEvents, Calm, Quiet, Events
<1>2. socket' \in Seq(Events)
  BY DEF Types
<1>3. (Adds(Quiet) => Shifted(0, Quiet)) /\ (Adds(Calm) => Shifted(0, Calm))
  <2>1. Calm \subseteq Events
    BY DEF Calm
  <2> QED BY <1>1, <2>1, AddedShift DEF Adds
<1>4. Leaves(socket) \/ UNCHANGED socket \/ Adds(Quiet) \/ Adds(Calm) => Shifted(0, Calm)
  BY <1>1, <1>3, LeavesShift, ShiftMore
<1>5. socket # <<>> /\ (Leaves(Tail(socket)) \/ socket' = Tail(socket)) => Shifted(1, Calm)
  BY <1>1, LeavesShift, ShiftMore
<1> QED BY <1>2, <1>4, <1>5 DEF Slides

(* While a frame is being read, what comes next is its end or its text.    *)
LEMMA PlainHead ==
  ASSUME Types, FramePending, NEW type, Arrives(type)
  PROVE  /\ type \notin {"done", "commit_state", "surrounding_text"} => frame.activate = 0
         /\ type # "done" => ~frame.deactivate
<1>1. running # "no" /\ 1 \in DOMAIN socket /\ \A other : Is(1, other) => other = type
  BY HeadPlace
<1>2. 0 + 1 = 1
  OBVIOUS
<1>3. \A other : At(0 + 1, other) => other = type
  BY <1>1, <1>2 DEF At
<1>4. frame.activate # 0 => type \in {"done", "commit_state", "surrounding_text"}
  BY <1>1, <1>3 DEF FramePending, Ended, End
<1>5. frame.deactivate => type = "done"
  BY <1>1 DEF FramePending, At
<1> QED BY <1>4, <1>5

(* What follows an activation, or the frame that is being read, moves up   *)
(* with it.                                                                *)
LEMMA PendingMoves ==
  ASSUME Types, NEW d, Slides(d)
  PROVE  /\ Ended(d) => Ended(0)'
         /\ At(d + 1, "done") => At(1, "done")'
<1>1. ASSUME NEW n \in {1, 2}, NEW type, At(d + n, type) PROVE At(n, type)'
  <2>1. d \in {0, 1} /\ d + n > d /\ (d + n) - d = n
    BY SlidesPlaces
  <2> QED BY <1>1, <2>1, SlidesPlaces DEF At
<1>2. 0 + 1 = 1 /\ 0 + 2 = 2
  OBVIOUS
<1>3. ASSUME Ended(d) PROVE Ended(0)'
  <2>1. PICK end : end = End
    OBVIOUS
  <2>2. End' = End
    BY SlidesPlaces
  <2>3. CASE At(d + 1, end)
    <3>1. At(1, end)'
      BY <1>1, <2>3
    <3> QED BY <1>2, <2>1, <2>2, <3>1 DEF Ended, At, Is
  <2>4. CASE At(d + 1, "surrounding_text") /\ At(d + 2, end)
    <3>1. At(1, "surrounding_text")' /\ At(2, end)'
      BY <1>1, <2>4
    <3> QED BY <1>2, <2>1, <2>2, <3>1 DEF Ended, At, Is
  <2> QED BY <1>3, <2>1, <2>3, <2>4 DEF Ended
<1>4. At(d + 1, "done") => At(1, "done")'
  BY <1>1
<1> QED BY <1>3, <1>4

(* The queue of focus changes survives the steps of the tracker.           *)
LEMMA FocusTracks ==
  ASSUME FocusQueue, Tracks(focus, focus'),
         router'.synthetic => router.synthetic /\ router'.app = router.app
  PROVE  FocusQueue'
<1>1. CASE focus'.sent = focus.sent /\ focus'.current = focus.current
  BY <1>1 DEF FocusQueue
<1>2. CASE focus'.sent # <<>> /\ focus'.sent[Len(focus'.sent)] = focus'.current
  BY <1>2 DEF FocusQueue
<1> QED BY <1>1, <1>2 DEF Tracks

(* An unchanged tracker has published nothing.                             *)
LEMMA TracksSame == ASSUME Types, UNCHANGED focus PROVE Tracks(focus, focus')
BY TypesFacts DEF Tracks

(* Whatever has nothing to do with text inputs.                            *)
Aside(d) ==
  /\ Slides(d) /\ Tracks(focus, focus') /\ SameSession
  /\ d = 1 => /\ ~Is(1, "activate") /\ ~Is(1, "deactivate")
              /\ frame.activate = 0 /\ ~frame.deactivate
  /\ \A field \in {"activate", "deactivate", "text"} : frame'[field] = frame[field]
  /\ \A field \in {"active", "epoch"} : desk'[field] = desk[field]
  /\ running' # "no" => running # "no"

(* The queue of sessions survives whatever has nothing to do with text     *)
(* inputs.                                                                 *)
LEMMA AsideKeeps ==
  ASSUME Types, SessionQueue, NEW d, Aside(d) PROVE SessionQueue'
<1>1. /\ frame'.activate = frame.activate /\ frame'.deactivate = frame.deactivate
      /\ frame'.text = frame.text
      /\ desk'.active = desk.active /\ desk'.epoch = desk.epoch
      /\ Slides(d) /\ Tracks(focus, focus') /\ (running' # "no" => running # "no")
      /\ d = 1 => /\ ~Is(1, "activate") /\ ~Is(1, "deactivate")
                  /\ frame.activate = 0 /\ ~frame.deactivate
  BY DEF Aside
<1>2. /\ router'.active = router.active /\ router'.synthetic = router.synthetic
      /\ router'.app = router.app /\ router'.session = router.session /\ router'.seen = router.seen
  BY DEF Aside, SameSession
<1>3. Live' = Live /\ d \in {0, 1} /\ IsV2' = IsV2
  BY <1>1, <1>2, SlidesPlaces DEF Live
<1>4. Turns'
  BY <1>1, <1>3, SlidesTurns DEF SessionQueue
<1>5. FramePending'
  <2>1. CASE d = 1
    BY <1>1, <2>1 DEF FramePending
  <2>2. CASE d = 0
    <3>1. d + 1 = 1
      BY <2>2
    <3>2. /\ running # "no" /\ frame.activate # 0 => Ended(0)'
          /\ running # "no" /\ frame.deactivate => IsV2 /\ At(1, "done")'
      BY <1>1, <2>2, <3>1, PendingMoves DEF SessionQueue, FramePending
    <3> QED BY <1>1, <1>3, <3>2 DEF FramePending
  <2> QED BY <1>3, <2>1, <2>2
<1>6. FrameText' /\ Sessions'
  BY <1>1, <1>2, <1>3 DEF SessionQueue, FrameText, Sessions
<1>7. FocusQueue'
  BY <1>1, <1>2, FocusTracks DEF SessionQueue
<1> QED BY <1>4, <1>5, <1>6, <1>7 DEF SessionQueue

(* The keys, the windows and the clock.                                    *)
LEMMA KeysAside ==
  ASSUME Types, Types', SessionQueue, Keyboard \/ RepeatFires PROVE SessionQueue'
<1>1. ASSUME NEW type \in {"key", "mods", "repeat_info"}, Arrives(type)
      PROVE  /\ socket # <<>> /\ ~Is(1, "activate") /\ ~Is(1, "deactivate")
             /\ frame.activate = 0 /\ ~frame.deactivate
  <2>1. frame.activate = 0 /\ ~frame.deactivate
    BY <1>1, PlainHead DEF SessionQueue
  <2> QED BY <1>1, <2>1, HeadPlace
<1>2. ASSUME NEW type \in {"key", "mods", "repeat_info"}, Arrives(type), NEW a, NEW held,
             KeyDigest(a, held, Tail(socket)), UNCHANGED <<outside, focus>>
      PROVE  SessionQueue'
  <2>1. Slides(1)
    BY <1>1, <1>2, SlidesFrom DEF KeyDigest, outside
  <2>2. Aside(1)
    BY <1>1, <1>2, <2>1, TracksSame DEF Aside, KeyDigest, SameFrame, outside
  <2> QED BY <2>2, AsideKeeps
<1>3. CASE dispatch_key_press
  BY <1>2, <1>3, PressDigest
<1>4. CASE dispatch_key_release
  BY <1>2, <1>4, ReleaseDigest
<1>5. CASE dispatch_key_repeat
  BY <1>2, <1>5, RepeatDigest
<1>6. CASE handle_modifiers
  BY <1>2, <1>6, ModifiersDigest
<1>7. CASE RepeatInfo
  <2>1. Arrives("repeat_info") /\ socket' = Tail(socket) /\ UNCHANGED <<outside, frame, router, focus>>
    BY <1>7 DEF RepeatInfo
  <2>2. Slides(1)
    BY <1>1, <2>1, SlidesFrom DEF outside
  <2>3. Aside(1)
    BY <1>1, <2>1, <2>2, TracksSame, SameFields DEF Aside, outside
  <2> QED BY <2>3, AsideKeeps
<1>8. CASE RepeatFires
  <2>1. /\ SameFrame /\ SameSession /\ Leaves(socket) /\ UNCHANGED <<profile, running, desk, focus>>
    BY <1>8, FiresFacts DEF KeyDigest
  <2>2. Slides(0)
    BY <2>1, SlidesFrom
  <2>3. Aside(0)
    BY <2>1, <2>2, TracksSame DEF Aside, SameFrame
  <2> QED BY <2>3, AsideKeeps
<1> QED BY <1>3, <1>4, <1>5, <1>6, <1>7, <1>8 DEF Keyboard

(* The steps that have nothing to do with text inputs.                     *)
LEMMA OthersAside ==
  ASSUME Types, Types', SessionQueue,
         \/ Press \/ Release \/ EchoTimeout \/ Toggle \/ UNCHANGED vars
         \/ WindowFields \/ Unavailable
         \/ Compositor /\ ~EnableInput /\ ~DisableInput /\ ~ReportInput
  PROVE  SessionQueue'
<1>1. ASSUME Leaves(socket) \/ UNCHANGED socket \/ Adds(Quiet) \/ Adds(Calm), SameSession,
             UNCHANGED <<profile, frame, focus>>, running' # "no" => running # "no",
             \A field \in {"active", "epoch"} : desk'[field] = desk[field]
      PROVE  SessionQueue'
  <2>1. Slides(0)
    BY <1>1, SlidesFrom
  <2>2. Aside(0)
    BY <1>1, <2>1, TracksSame DEF Aside
  <2> QED BY <2>2, AsideKeeps
<1>2. CASE Press \/ Release
  <2>1. PICK key \in UserKeys, value \in {0, 1} : UserKey(key, value)
    BY <1>2, TypesFacts DEF Press, Release
  <2>2. UserDigest(key, value)
    BY <2>1, UserFacts
  <2>3. UNCHANGED <<profile, desk, running, frame, router, focus>>
    BY <2>2 DEF UserDigest
  <2>4. CASE KeysGrabbed
    <3>1. PICK new \in Seq(Events) :
            /\ socket' = socket \o new /\ new[1] = KeyOf(key, value)
            /\ \A i \in DOMAIN new : i # 1 => new[i] \in ModsEvents
      BY <2>2, <2>4 DEF UserDigest
    <3>2. KeyOf(key, value) \in Calm /\ ModsEvents \subseteq Calm
      BY DEF Calm, KeyOf, Events, ModsEvents
    <3>3. \A i \in DOMAIN new : new[i] \in Calm
      BY <3>1, <3>2
    <3>4. new \in Seq(Calm)
      BY <3>3
    <3>5. Adds(Calm)
      BY <3>1, <3>4 DEF Adds
    <3> QED BY <1>1, <2>3, <3>5, SameFields
  <2>5. CASE ~KeysGrabbed
    <3>1. socket' = socket
      BY <2>2, <2>5 DEF UserDigest
    <3> QED BY <1>1, <2>3, <3>1, SameFields
  <2> QED BY <2>4, <2>5
<1>3. CASE EchoTimeout
  BY <1>1, <1>3, TimeoutFacts, SameFields
<1>4. CASE Toggle
  BY <1>1, <1>4, ToggleFacts
<1>5. CASE UNCHANGED vars
  BY <1>1, <1>5, SameFields DEF vars
<1>6. ASSUME NEW type,
             type \notin {"activate", "deactivate", "done", "commit_state", "surrounding_text"},
             Arrives(type), socket' = Tail(socket), Tracks(focus, focus'),
             UNCHANGED <<profile, desk, frame, router>>, running' # "no" => running # "no"
      PROVE  SessionQueue'
  <2>1. frame.activate = 0 /\ ~frame.deactivate
    BY <1>6, PlainHead DEF SessionQueue
  <2>2. socket # <<>> /\ ~Is(1, "activate") /\ ~Is(1, "deactivate")
    BY <1>6, HeadPlace
  <2>3. Slides(1)
    BY <1>6, <2>2, SlidesFrom
  <2>4. Aside(1)
    BY <1>6, <2>1, <2>2, <2>3, SameFields DEF Aside
  <2> QED BY <2>4, AsideKeeps
<1>7. CASE WindowFields
  <2>1. WindowDigest
    BY <1>7, WindowFacts
  <2>2. Arrives(Head(socket).type)
    BY <2>1 DEF WindowDigest, Arrives
  <2>3. Head(socket).type \notin {"activate", "deactivate", "done", "commit_state", "surrounding_text"}
    BY <2>1 DEF WindowDigest
  <2> QED BY <1>6, <2>1, <2>2, <2>3 DEF WindowDigest, outside
<1>8. CASE Unavailable
  <2>1. /\ Arrives("unavailable") /\ socket' = Tail(socket) /\ running # "no"
        /\ UNCHANGED <<profile, desk, frame, router, focus>>
    BY <1>8 DEF Unavailable, adapter, Arrives
  <2> QED BY <1>6, <2>1, TracksSame
<1>9. CASE Compositor /\ ~EnableInput /\ ~DisableInput /\ ~ReportInput
  <2>1. QuietDigest
    BY <1>9, QuietFacts DEF Compositor
  <2> QED BY <1>1, <2>1, SameFields DEF QuietDigest
<1> QED BY <1>2, <1>3, <1>4, <1>5, <1>7, <1>8, <1>9

(* The text inputs of the compositor.                                      *)
LEMMA InputsQueue ==
  ASSUME Types, Types', SessionQueue, EpochsGrow, EnableInput \/ DisableInput \/ ReportInput
  PROVE  SessionQueue'
<1>1. Turns'
  BY EnableTurns, DisableTurns, ReportTurns DEF SessionQueue
<1>2. PICK new : Grows(new) /\ UNCHANGED <<running, frame, router, focus>>
  <2>1. CASE EnableInput
    BY <2>1, EnableFacts DEF EnableDigest, Grows
  <2>2. CASE DisableInput
    BY <2>2, DisableFacts DEF DisableDigest, Grows
  <2>3. CASE ReportInput
    <3>1. ReportDigest
      BY <2>3, ReportFacts
    <3>2. PICK new \in Seq(Report) : socket' = socket \o new
      BY <3>1 DEF ReportDigest
    <3>3. new \in Seq(Events)
      BY DEF Report
    <3> QED BY <3>1, <3>2, <3>3 DEF ReportDigest, Grows
  <2> QED BY <2>1, <2>2, <2>3
<1>3. Live' = Live /\ IsV2' = IsV2 /\ End' = End
  BY <1>2 DEF Grows, Live, IsV2, End
<1>4. ASSUME NEW n \in {1, 2}, NEW type, At(n, type) PROVE At(n, type)'
  <2>1. n \in Nat
    OBVIOUS
  <2> QED BY <1>2, <1>4, <2>1, GrowsBetween
<1>5. 0 + 1 = 1 /\ 0 + 2 = 2
  OBVIOUS
<1>6. ASSUME Ended(0) PROVE Ended(0)'
  <2>1. PICK end : end = End
    OBVIOUS
  <2>2. CASE At(1, end)
    <3>1. At(1, end)'
      BY <1>4, <2>2
    <3> QED BY <1>3, <1>5, <2>1, <3>1 DEF Ended, At, Is
  <2>3. CASE At(1, "surrounding_text") /\ At(2, end)
    <3>1. At(1, "surrounding_text")' /\ At(2, end)'
      BY <1>4, <2>3
    <3> QED BY <1>3, <1>5, <2>1, <3>1 DEF Ended, At, Is
  <2> QED BY <1>5, <1>6, <2>1, <2>2, <2>3 DEF Ended
<1>7. FramePending'
  BY <1>2, <1>3, <1>4, <1>6 DEF SessionQueue, FramePending
<1>8. FrameText' /\ Sessions' /\ FocusQueue'
  BY <1>2, <1>3 DEF SessionQueue, FrameText, Sessions, FocusQueue
<1> QED BY <1>1, <1>7, <1>8 DEF SessionQueue

(* Nothing waits after the teardown.                                       *)
LEMMA TeardownQueue == ASSUME Types, SessionQueue, Teardown PROVE SessionQueue'
<1>1. /\ running' = "no" /\ socket' = <<>> /\ UNCHANGED <<profile, frame, router, focus>>
  BY TeardownFacts
<1>2. DOMAIN socket' = {}
  BY <1>1
<1>3. Turns'
  BY <1>1, <1>2 DEF Turns, Alternate, TextsOwned, DeskOpen, DeskClosed, FramesEnd
<1>4. FramePending' /\ FrameText' /\ Sessions' /\ FocusQueue'
  BY <1>1 DEF SessionQueue, FramePending, FrameText, Sessions, FocusQueue, Live
<1> QED BY <1>3, <1>4 DEF SessionQueue

(* The frame fills.                                                        *)
LEMMA FillQueue ==
  ASSUME Types, Types', SessionQueue, EpochsGrow, FillFrame PROVE SessionQueue'
<1>1. FillDigest
  BY FillFacts
<1>2. PICK event : event = socket[1]
  OBVIOUS
<1>3. /\ Head(socket) = event /\ event \in Events /\ Arrives(event.type)
      /\ event.type \in {"activate", "surrounding_text", "content_type", "cause"}
      /\ 1 \in DOMAIN socket /\ socket # <<>> /\ \A type : Is(1, type) <=> event.type = type
  <2>1. Head(socket) = socket[1]
    BY <1>1, TypesFacts DEF FillDigest
  <2>2. Arrives(event.type)
    BY <1>1, <1>2, <2>1 DEF FillDigest, Arrives
  <2> QED BY <1>1, <1>2, <2>1, <2>2, HeadPlace DEF FillDigest, Is
<1>4. /\ \A field \in {"activate", "deactivate", "text"} :
           frame'[field] = apply_event(frame, event)[field]
      /\ desk'.active = desk.active /\ desk'.epoch = desk.epoch
      /\ UNCHANGED <<profile, router, focus, running>>
      /\ Leaves(Tail(socket))
  BY <1>1, <1>3, TypesFacts DEF FillDigest, Desk
<1>5. Slides(1) /\ Steady /\ running # "no"
  BY <1>1, <1>3, <1>4, SlidesFrom DEF Steady, FillDigest
<1>6. frame \in Frame
  BY TypesFacts
<1>7. CASE event.type = "activate"
  <2>1. /\ event.epoch \in Nat /\ frame'.activate = event.epoch
        /\ frame'.deactivate = frame.deactivate /\ frame'.text = frame.text
    BY <1>3, <1>4, <1>6, <1>7, ApplyEventFacts
  <2>2. ~frame.deactivate
    BY <1>3, <1>7, PlainHead DEF SessionQueue
  <2>3. Live = 0
    <3>1. ~Between(0, 1, "deactivate")
      BY PlacesFacts DEF Between
    <3> QED BY <1>3, <1>7, <3>1 DEF SessionQueue, Turns, Alternate
  <2>4. frame.activate = 0 /\ router.session = 0 /\ frame.text = 0
    BY <2>2, <2>3 DEF Live, SessionQueue, FrameText
  <2>5. event.epoch # 0
    <3>1. frame.ctx < event.epoch /\ frame.ctx \in Nat
      BY <1>2, <1>3, <1>6, <1>7 DEF EpochsGrow, Frame
    <3> QED BY <2>1, <3>1
  <2>6. Live' = socket[1].epoch
    BY <1>2, <2>1, <2>2, <2>5 DEF Live
  <2>7. Turns'
    BY <1>2, <1>3, <1>5, <1>7, <2>5, <2>6, ActivateTurns DEF SessionQueue, At
  <2>8. FramePending'
    <3>1. Ended(1)
      BY <1>3, <1>7 DEF SessionQueue, Turns, FramesEnd
    <3>2. Ended(0)'
      BY <1>5, <3>1, PendingMoves
    <3> QED BY <2>1, <2>2, <3>2 DEF FramePending
  <2>9. FrameText'
    BY <2>1, <2>4 DEF FrameText
  <2>10. Sessions'
    BY <1>4, <2>1, <2>2, <2>4 DEF SessionQueue, Sessions
  <2>11. FocusQueue'
    BY <1>4 DEF SessionQueue, FocusQueue
  <2> QED BY <2>7, <2>8, <2>9, <2>10, <2>11 DEF SessionQueue
<1>8. CASE event.type = "surrounding_text"
  <2>1. /\ event.epoch \in Nat /\ frame'.activate = frame.activate
        /\ frame'.deactivate = frame.deactivate /\ frame'.text = event.epoch
    BY <1>3, <1>4, <1>6, <1>8, ApplyEventFacts
  <2>2. ~frame.deactivate
    BY <1>3, <1>8, PlainHead DEF SessionQueue
  <2>3. Live' = Live
    BY <1>4, <2>1 DEF Live
  <2>4. Live = event.epoch
    <3>1. \A a \in DOMAIN socket : ~(a < 1)
      BY PlacesFacts
    <3> QED BY <1>2, <1>3, <1>8, <3>1 DEF SessionQueue, Turns, TextsOwned
  <2>5. Turns'
    BY <1>3, <1>4, <1>5, <1>8, <2>3, SlidesTurns DEF SessionQueue
  <2>6. FramePending'
    <3>1. ASSUME frame.activate # 0 PROVE Ended(0)'
      <4>1. Ended(0) /\ 0 + 1 = 1 /\ 0 + 2 = 2 /\ 1 + 1 = 2
        BY <1>5, <3>1 DEF SessionQueue, FramePending
      <4>2. ~At(1, End)
        BY <1>3, <1>8 DEF At, End
      <4>3. At(2, End)
        BY <4>1, <4>2 DEF Ended
      <4>4. Ended(1)
        BY <4>1, <4>3 DEF Ended
      <4> QED BY <1>5, <4>4, PendingMoves
    <3> QED BY <2>1, <2>2, <3>1 DEF FramePending
  <2>7. FrameText'
    BY <2>1, <2>3, <2>4 DEF FrameText
  <2>8. Sessions' /\ FocusQueue'
    BY <1>4, <2>1 DEF SessionQueue, Sessions, FocusQueue
  <2> QED BY <2>5, <2>6, <2>7, <2>8 DEF SessionQueue
<1>9. CASE event.type \in {"content_type", "cause"}
  <2>1. /\ frame'.activate = frame.activate
        /\ frame'.deactivate = frame.deactivate /\ frame'.text = frame.text
    BY <1>3, <1>4, <1>6, <1>9, ApplyEventFacts
  <2>2. frame.activate = 0 /\ ~frame.deactivate
    BY <1>3, <1>9, PlainHead DEF SessionQueue
  <2>3. Aside(1)
    BY <1>3, <1>4, <1>5, <1>9, <2>1, <2>2, TracksSame, SameFields DEF Aside
  <2> QED BY <2>3, AsideKeeps
<1> QED BY <1>3, <1>7, <1>8, <1>9

(* A deactivation.                                                         *)
LEMMA DeactivateQueue ==
  ASSUME Types, Types', SessionQueue, DeactivateV2 \/ DeactivateV1 PROVE SessionQueue'
<1>1. /\ Arrives("deactivate") /\ socket' = Tail(socket)
      /\ UNCHANGED <<outside, focus>>
      /\ IsV2 => /\ UNCHANGED router
                 /\ frame'.activate = frame.activate /\ frame'.deactivate
                 /\ frame'.text = frame.text
      /\ ~IsV2 => /\ frame'.activate = 0 /\ ~frame'.deactivate /\ frame'.text = 0
                  /\ \E f \in Frame : /\ f.activate = frame.activate /\ f.deactivate
                                      /\ f.text = frame.text /\ Frames(f)
  BY DeactivateFacts
<1>2. /\ socket # <<>> /\ running # "no" /\ 1 \in DOMAIN socket /\ Is(1, "deactivate")
  BY <1>1, HeadPlace
<1>3. frame.activate = 0 /\ ~frame.deactivate
  BY <1>1, PlainHead DEF SessionQueue
<1>4. Live # 0
  <2>1. ~Between(0, 1, "activate")
    BY PlacesFacts DEF Between
  <2> QED BY <1>2, <2>1 DEF SessionQueue, Turns, Alternate
<1>5. router.session # 0 /\ router.active /\ ~router.synthetic
  BY <1>3, <1>4 DEF Live, SessionQueue, Sessions
<1>6. Slides(1) /\ Steady
  BY <1>1, <1>2, SlidesFrom DEF Steady, outside
<1>7. ASSUME Live' = 0 PROVE Turns'
  BY <1>2, <1>6, <1>7, DeactivateTurns DEF SessionQueue, At
<1>8. CASE IsV2
  <2>1. Live' = 0 /\ IsV2'
    BY <1>1, <1>6, <1>8, SlidesPlaces DEF Live
  <2>2. At(1, "done")'
    <3>1. At(1 + 1, "done")
      BY <1>2, <1>8 DEF SessionQueue, Turns, FramesEnd
    <3> QED BY <1>6, <3>1, PendingMoves
  <2>3. FramePending' /\ FrameText'
    BY <1>1, <1>3, <1>8, <2>1, <2>2 DEF FramePending, FrameText
  <2>4. Sessions' /\ FocusQueue'
    BY <1>1, <1>3, <1>5, <1>8 DEF SessionQueue, Sessions, FocusQueue
  <2> QED BY <1>7, <2>1, <2>3, <2>4 DEF SessionQueue
<1>9. CASE ~IsV2
  <2>1. PICK f \in Frame : f.activate = frame.activate /\ f.deactivate /\ Frames(f)
    BY <1>1, <1>9
  <2>2. PICK r : r = OpenOrClose(f)
    OBVIOUS
  <2>3. ~Opens(f)
    BY <1>3, <2>1 DEF Opens
  <2>4. ~r.active /\ r.synthetic = router.synthetic /\ r.session = 0 /\ r.seen = 0
    BY <1>5, <2>1, <2>2, <2>3, OpenOrCloseFacts
  <2>5. /\ router'.active = r.active /\ router'.synthetic = r.synthetic
        /\ router'.session = r.session
        /\ router'.seen = IF r.active /\ f.text # 0 THEN f.text ELSE r.seen
    BY <2>1, <2>2 DEF Frames
  <2>6. /\ ~router'.active /\ ~router'.synthetic /\ router'.session = 0 /\ router'.seen = 0
        /\ frame'.activate = 0 /\ ~frame'.deactivate /\ frame'.text = 0
    BY <1>1, <1>5, <1>9, <2>4, <2>5
  <2>7. Live' = 0
    BY <2>6 DEF Live
  <2>8. FramePending' /\ FrameText' /\ Sessions'
    BY <2>6 DEF FramePending, FrameText, Sessions
  <2>9. FocusQueue'
    BY <1>1, <2>6 DEF SessionQueue, FocusQueue
  <2> QED BY <1>7, <2>7, <2>8, <2>9 DEF SessionQueue
<1> QED BY <1>8, <1>9

(* The frame is applied: the session becomes what it was going to be.      *)
LEMMA AppliedQueue ==
  ASSUME Types, SessionQueue, NEW rest, AppliesFrame(rest), NEW d, Slides(d),
         d = 1 => ~Is(1, "activate") /\ ~Is(1, "deactivate"), UNCHANGED <<outside, focus>>
  PROVE  SessionQueue'
<1>1. PICK f \in Frame : /\ f.activate = frame.activate /\ f.deactivate = frame.deactivate
                         /\ f.text = frame.text /\ DoneDigest(f, rest)
  BY DEF AppliesFrame
<1>2. PICK r : r = OpenOrClose(f)
  OBVIOUS
<1>3. /\ frame'.activate = 0 /\ ~frame'.deactivate /\ frame'.text = 0
      /\ router'.active = r.active /\ router'.synthetic = r.synthetic /\ router'.app = r.app
      /\ router'.session = r.session
      /\ router'.seen = IF r.active /\ frame.text # 0 THEN frame.text ELSE r.seen
  BY <1>1, <1>2 DEF DoneDigest, Frames
<1>4. /\ router.session # 0 <=> router.active /\ ~router.synthetic
      /\ frame.deactivate => router.session # 0
      /\ router.synthetic => router.active
      /\ frame.activate # 0 => router.session = 0 /\ ~frame.deactivate
      /\ router.seen # 0 => router.seen = router.session
      /\ frame.text # 0 /\ ~frame.deactivate => frame.text = Live
  BY DEF SessionQueue, Sessions, FrameText
<1>5. /\ Opens(f) => r.active /\ ~r.synthetic /\ r.session = f.activate /\ r.seen = 0
      /\ ~Opens(f) /\ f.deactivate /\ router.active =>
           ~r.active /\ r.synthetic = router.synthetic /\ r.session = 0 /\ r.seen = 0
      /\ ~Opens(f) /\ ~(f.deactivate /\ router.active) => r = router
  BY <1>2, OpenOrCloseFacts
<1>6. Opens(f) <=> frame.activate # 0
  BY <1>1, <1>4 DEF Opens
<1>7. /\ router'.session = Live
      /\ router'.session # 0 <=> router'.active /\ ~router'.synthetic
      /\ router'.synthetic => router'.active
      /\ router'.seen # 0 => router'.seen = router'.session
      /\ router'.synthetic => router.synthetic /\ router'.app = router.app
  <2>1. CASE frame.activate # 0
    BY <1>1, <1>3, <1>4, <1>5, <1>6, <2>1 DEF Live
  <2>2. CASE frame.activate = 0 /\ frame.deactivate
    BY <1>1, <1>3, <1>4, <1>5, <1>6, <2>2 DEF Live
  <2>3. CASE frame.activate = 0 /\ ~frame.deactivate
    BY <1>1, <1>3, <1>4, <1>5, <1>6, <2>3 DEF Live
  <2> QED BY <2>1, <2>2, <2>3
<1>8. Live' = Live
  BY <1>3, <1>7 DEF Live
<1>9. Turns'
  BY <1>8, SlidesTurns DEF SessionQueue, outside
<1>10. FramePending' /\ FrameText' /\ Sessions'
  BY <1>3, <1>7 DEF FramePending, FrameText, Sessions
<1>11. FocusQueue'
  BY <1>7, TracksSame, FocusTracks DEF SessionQueue
<1> QED BY <1>9, <1>10, <1>11 DEF SessionQueue

(* The queue of sessions through the handlers of the input method.         *)
LEMMA InputQueue ==
  ASSUME Types, Types', SessionQueue, EpochsGrow, Input PROVE SessionQueue'
<1>1. ASSUME NEW type \in {"done", "commit_state", "reset"}, Arrives(type)
      PROVE  socket # <<>> /\ ~Is(1, "activate") /\ ~Is(1, "deactivate")
  BY <1>1, HeadPlace
<1>2. CASE FillFrame
  BY <1>2, FillQueue
<1>3. CASE DeactivateV2 \/ DeactivateV1
  BY <1>3, DeactivateQueue
<1>4. ASSUME AppliesFrame(Tail(socket)), UNCHANGED <<outside, focus>>,
             NEW type \in {"done", "commit_state"}, Arrives(type)
      PROVE  SessionQueue'
  <2>1. Leaves(Tail(socket))
    BY <1>4 DEF AppliesFrame, DoneDigest
  <2>2. Slides(1)
    BY <1>1, <1>4, <2>1, SlidesFrom DEF outside
  <2> QED BY <1>1, <1>4, <2>2, AppliedQueue
<1>5. CASE Done
  BY <1>4, <1>5, AppliesFacts
<1>6. CASE CommitState
  <2>1. /\ Arrives("commit_state") /\ UNCHANGED <<outside, focus>>
        /\ \/ AppliesFrame(Tail(socket))
           \/ frame.activate = 0 /\ socket' = Tail(socket) /\ UNCHANGED <<relay, frame, router, app>>
    BY <1>6, AppliesFacts
  <2>2. CASE AppliesFrame(Tail(socket))
    BY <1>4, <2>1, <2>2
  <2>3. CASE frame.activate = 0 /\ socket' = Tail(socket) /\ UNCHANGED <<relay, frame, router, app>>
    <3>1. ~frame.deactivate
      BY <2>1, PlainHead DEF SessionQueue
    <3>2. Slides(1)
      BY <1>1, <2>1, <2>3, SlidesFrom DEF outside
    <3>3. Aside(1)
      BY <1>1, <2>1, <2>3, <3>1, <3>2, TracksSame, SameFields DEF Aside, outside
    <3> QED BY <3>3, AsideKeeps
  <2> QED BY <2>1, <2>2, <2>3
<1>7. CASE EndOfDispatch
  <2>1. AppliesFrame(socket) /\ UNCHANGED <<outside, focus>>
    BY <1>7, AppliesFacts
  <2>2. Leaves(socket)
    BY <2>1 DEF AppliesFrame, DoneDigest
  <2>3. Slides(0)
    BY <2>1, <2>2, SlidesFrom DEF outside
  <2> QED BY <2>1, <2>3, AppliedQueue
<1>8. CASE ResetV1
  <2>1. /\ Arrives("reset") /\ socket' = Tail(socket)
        /\ frame'.activate = 0 /\ ~frame'.deactivate /\ frame'.text = 0
        /\ UNCHANGED <<outside, relay, router, focus, app>>
    BY <1>8, ResetV1Facts
  <2>2. frame.activate = 0 /\ ~frame.deactivate
    BY <2>1, PlainHead DEF SessionQueue
  <2>3. Slides(1)
    BY <1>1, <2>1, SlidesFrom DEF outside
  <2>4. Live' = Live
    BY <2>1, <2>2 DEF Live
  <2>5. Turns'
    BY <1>1, <2>1, <2>3, <2>4, SlidesTurns DEF SessionQueue, outside
  <2>6. FramePending' /\ FrameText' /\ Sessions' /\ FocusQueue'
    BY <2>1, <2>2 DEF SessionQueue, FramePending, FrameText, Sessions, FocusQueue
  <2> QED BY <2>5, <2>6 DEF SessionQueue
<1>9. CASE Unavailable
  BY <1>9, OthersAside
<1> QED BY <1>2, <1>3, <1>5, <1>6, <1>7, <1>8, <1>9 DEF Input

(* A focus change opens, moves or closes a synthetic session only.         *)
LEMMA FocusChangeQueue ==
  ASSUME Types, Types', SessionQueue, FocusChanges PROVE SessionQueue'
<1>1. /\ running = "yes" /\ Idle /\ focus.sent # <<>>
      /\ Head(focus.sent) \in Apps \cup {Nil} /\ router' = on_focus_changed(Head(focus.sent))
      /\ focus'.sent = Tail(focus.sent) /\ focus'.current = focus.current
      /\ UNCHANGED <<outside, socket, frame, app>>
  BY FocusFacts
<1>2. PICK id \in Apps \cup {Nil} : id = Head(focus.sent)
  BY <1>1
<1>3. \/ router' = router /\ (router.synthetic => router.app = id)
      \/ /\ router'.active /\ router'.synthetic /\ router'.app = id /\ router'.session = 0
         /\ router'.seen = 0 /\ (~router.active \/ router.synthetic)
      \/ ~router'.active /\ ~router'.synthetic /\ router'.session = 0 /\ router'.seen = 0
         /\ router.synthetic
  BY <1>1, <1>2, FocusSession
<1>4. /\ router.session # 0 <=> router.active /\ ~router.synthetic
      /\ router.synthetic => router.active
      /\ router.seen # 0 => router.seen = router.session
  BY DEF SessionQueue, Sessions
<1>5. /\ router'.session = router.session
      /\ router'.session # 0 <=> router'.active /\ ~router'.synthetic
      /\ router'.synthetic => router'.active /\ router'.app = id
      /\ router'.seen # 0 => router'.seen = router'.session
  BY <1>3, <1>4
<1>6. Live' = Live /\ Slides(0)
  BY <1>1, <1>5, SlidesFrom DEF Live, outside
<1>7. Turns'
  BY <1>1, <1>6, SlidesTurns DEF SessionQueue, outside
<1>8. FramePending' /\ FrameText' /\ Sessions'
  <2>1. frame' = frame /\ running' = running /\ socket' = socket /\ IsV2' = IsV2
    BY <1>1 DEF outside, IsV2
  <2>2. FramePending'
    BY <2>1 DEF SessionQueue, FramePending, Ended, At, Is, End, IsV2
  <2>3. FrameText'
    BY <1>6, <2>1 DEF SessionQueue, FrameText
  <2>4. Sessions'
    BY <1>5, <2>1 DEF SessionQueue, Sessions
  <2> QED BY <2>2, <2>3, <2>4
<1>9. FocusQueue'
  <2>1. PICK sent \in Seq(Apps \cup {Nil}) : sent = focus.sent
    BY TypesFacts DEF Tracker
  <2>2. sent # <<>> /\ sent[Len(sent)] = focus.current /\ focus'.sent = Tail(sent)
        /\ id = Head(sent)
    BY <1>1, <1>2, <2>1 DEF SessionQueue, FocusQueue
  <2>3. CASE Tail(sent) = <<>>
    <3>1. id = sent[Len(sent)]
      <4>1. Len(Tail(sent)) = Len(sent) - 1 /\ Len(sent) \in Nat /\ Head(sent) = sent[1]
        BY <2>2
      <4>2. Len(sent) - 1 = 0
        BY <2>3, <4>1
      <4>3. Len(sent) = 1
        BY <4>1, <4>2
      <4> QED BY <2>2, <4>1, <4>3
    <3> QED BY <1>1, <1>5, <2>2, <2>3, <3>1 DEF FocusQueue
  <2>4. CASE Tail(sent) # <<>>
    <3>1. Tail(sent)[Len(Tail(sent))] = sent[Len(sent)]
      BY <2>2, <2>4
    <3> QED BY <1>1, <2>2, <2>4, <3>1 DEF FocusQueue
  <2> QED BY <2>3, <2>4
<1> QED BY <1>7, <1>8, <1>9 DEF SessionQueue

(* SessionQueue is inductive, given Types and the epochs of the key queue. *)
LEMMA SessionQueueStep ==
  ASSUME Types, Types', SessionQueue, EpochsGrow, [Next]_vars PROVE SessionQueue'
<1>1. CASE Keyboard \/ RepeatFires
  BY <1>1, KeysAside
<1>2. CASE Input
  BY <1>2, InputQueue
<1>3. CASE FocusChanges
  BY <1>3, FocusChangeQueue
<1>4. CASE Teardown
  BY <1>4, TeardownQueue
<1>5. CASE EnableInput \/ DisableInput \/ ReportInput
  BY <1>5, InputsQueue
<1>6. CASE \/ Press \/ Release \/ EchoTimeout \/ Toggle \/ UNCHANGED vars \/ WindowFields
           \/ Compositor /\ ~EnableInput /\ ~DisableInput /\ ~ReportInput
  BY <1>6, OthersAside
<1> QED BY <1>1, <1>2, <1>3, <1>4, <1>5, <1>6 DEF Next, Loop

(* SessionQueue holds initially: nothing waits and no session is open.     *)
LEMMA SessionQueueInit == ASSUME Init PROVE SessionQueue
<1>1. /\ socket = <<>> /\ ~desk.active /\ focus.sent = <<>>
      /\ frame.activate = 0 /\ ~frame.deactivate /\ frame.text = 0
      /\ ~router.active /\ ~router.synthetic /\ router.session = 0 /\ router.seen = 0
  BY DEF Init, NewTracker
<1>2. DOMAIN socket = {} /\ Live = 0
  BY <1>1 DEF Live
<1>3. Turns
  BY <1>1, <1>2 DEF Turns, Alternate, TextsOwned, DeskOpen, DeskClosed, FramesEnd
<1>4. FramePending /\ FrameText /\ Sessions /\ FocusQueue
  BY <1>1 DEF FramePending, FrameText, Sessions, FocusQueue
<1> QED BY <1>3, <1>4 DEF SessionQueue

(* The three parts together.                                               *)
LEMMA SessionsInvariant == Spec => [](Types /\ KeyQueue /\ SessionQueue)
<1> DEFINE Inv == Types /\ KeyQueue /\ SessionQueue
<1>1. Init => Inv
  BY InitTyped, KeyQueueInit, SessionQueueInit
<1>2. Inv /\ [Next]_vars => Inv'
  <2> SUFFICES ASSUME Inv, [Next]_vars PROVE Inv'
    OBVIOUS
  <2>1. Types' /\ KeyQueue'
    BY NextTyped, KeyQueueStep
  <2>2. EpochsGrow
    BY DEF KeyQueue, Queue
  <2> QED BY <2>1, <2>2, SessionQueueStep
<1> QED BY <1>1, <1>2, PTL DEF Spec

(* What the Composer of a session has seen is the text of the session's    *)
(* own text input: a text that is read belongs to the session that its     *)
(* frame will leave open, across deactivations that wait for done, frames  *)
(* of protocol v1 that nothing ends, and a reset that drops a frame        *)
(* half read (apply_event, take_pending_text, on_done_frame).              *)
THEOREM AdapterTextOfSession == Spec => []TextOfSession
<1>1. Types /\ KeyQueue /\ SessionQueue => TextOfSession
  BY DEF SessionQueue, Sessions, TextOfSession
<1> QED BY <1>1, SessionsInvariant, PTL

(* Once everything is dispatched, the daemon's session is real exactly     *)
(* when a text input is enabled, and a synthetic one is for the            *)
(* application with the focus (on_done_frame, on_focus_changed).           *)
THEOREM AdapterSessionAgrees == Spec => []SessionAgrees
<1>1. ASSUME Types, KeyQueue, SessionQueue, Idle, running = "yes"
      PROVE  IF desk.active THEN router.active /\ ~router.synthetic
             ELSE /\ router.active = router.synthetic
                  /\ router.synthetic /\ focus.sent = <<>> => router.app = focus.current
  <2>1. DOMAIN socket = {} /\ running # "no"
    BY <1>1 DEF Idle
  <2>2. frame.activate = 0 /\ ~frame.deactivate
    BY <1>1, <2>1 DEF SessionQueue, FramePending, Ended, At
  <2>3. Live = router.session
    BY <2>2 DEF Live
  <2>4. router.active \in BOOLEAN /\ router.synthetic \in BOOLEAN
    BY <1>1, TypesFacts DEF Router
  <2>5. CASE desk.active
    <3>1. desk.epoch > 0 /\ desk.epoch \in Nat
      BY <1>1, <2>5, TypesFacts DEF KeyQueue, Queue, EpochsGrow, Desk
    <3>2. desk.epoch # 0
      BY <3>1
    <3>3. Live = desk.epoch
      BY <1>1, <2>1, <2>5 DEF SessionQueue, Turns, DeskOpen
    <3> QED BY <1>1, <2>3, <2>5, <3>2, <3>3 DEF SessionQueue, Sessions
  <2>6. CASE ~desk.active
    <3>1. Live = 0
      BY <1>1, <2>1, <2>6 DEF SessionQueue, Turns, DeskClosed, Later
    <3>2. router.active <=> router.synthetic
      BY <1>1, <2>3, <3>1 DEF SessionQueue, Sessions
    <3>3. router.synthetic /\ focus.sent = <<>> => router.app = focus.current
      BY <1>1 DEF SessionQueue, FocusQueue
    <3> QED BY <2>4, <2>6, <3>2, <3>3
  <2> QED BY <2>5, <2>6
<1>2. Types /\ KeyQueue /\ SessionQueue => SessionAgrees
  BY <1>1 DEF SessionAgrees
<1> QED BY <1>2, SessionsInvariant, PTL

=============================================================================
