----------------------- MODULE WaylandAdapterViewProofs -----------------------
(***************************************************************************)
(* What TLAPS proves of WaylandAdapter's view of the world: of the keys    *)
(* and modifiers that the application has, of the modifiers that the user  *)
(* holds, and of the windows.  The types, the keys and the sessions of     *)
(* WaylandAdapterProofs are used throughout.                               *)
(*                                                                         *)
(* EditQueue says that the only key whose press would be dropped is the    *)
(* one the user holds, and that the application has the adapter's          *)
(* modifiers, with protocol v1 unless the user's still wait;               *)
(* EditKeysArrive follows. ModsQueue says that the masks awaited are       *)
(* found, in order, among the modifier events that wait, and that what is  *)
(* left of these ends with the user's own (without echoes, that only the   *)
(* user's masks wait); ModsSettle follows. WindowQueue says that the       *)
(* events of windows that wait lead, one by one, from the tracker's table  *)
(* to the compositor's; FocusFollows follows.                              *)
(***************************************************************************)
EXTENDS WaylandAdapterProofs

-----------------------------------------------------------------------------
(* The keys of an edit.                                                    *)

EditFaultKinds == {"lost_glyph", "modified_backspace"}
Clean(a) == a.faults \cap EditFaultKinds = {}

(* The keys whose press the application would drop.                        *)
Bare(a) == a.down \ a.covered

(* What one request does to those keys, to the modifiers and to what went  *)
(* wrong.                                                                  *)
Takes(a, r, b) ==
  /\ b \in App
  /\ b.mods = IF r.op = "mods" THEN r.mask ELSE a.mods
  /\ \A key \in Bare(b) : ~ReleaseOf(r, key) /\ (key \in Bare(a) \/ PressOf(r, key))
  /\ r.op = "key" /\ r.by = "shortcut" => Bare(b) \subseteq Bare(a)
  /\ r.op = "key" /\ r.value = 1 /\ r.by = "user" => Bare(b) \subseteq {r.key}
  /\ \A fault \in b.faults :
       \/ fault \in a.faults
       \/ r.op = "key" /\ r.value = 1 /\ fault \in EditFaults(a, r)
       \/ r.op = "keysym" /\ r.mapped /\ r.glyph.key \in Bare(a)

(* That is what the application does with a request.                       *)
LEMMA TakeEffects ==
  ASSUME NEW a \in App, NEW r \in Requests PROVE Takes(a, r, Take(a, r))
<1> DEFINE b == Take(a, r)
           Good(x) == /\ x.mods = IF r.op = "mods" THEN r.mask ELSE a.mods
                      /\ \A key \in Bare(x) : ~ReleaseOf(r, key) /\ (key \in Bare(a) \/ PressOf(r, key))
                      /\ r.op = "key" /\ r.by = "shortcut" => Bare(x) \subseteq Bare(a)
                      /\ r.op = "key" /\ r.value = 1 /\ r.by = "user" => Bare(x) \subseteq {r.key}
                      /\ \A fault \in x.faults :
                           \/ fault \in a.faults
                           \/ r.op = "key" /\ r.value = 1 /\ fault \in EditFaults(a, r)
                           \/ r.op = "keysym" /\ r.mapped /\ r.glyph.key \in Bare(a)
<1>1. b \in App
  BY TakeFacts
<1> SUFFICES Good(b)
  BY <1>1 DEF Takes
<1>2. r.op \in {"key", "mods", "keysym", "text", "commit"}
  BY DEF Requests
<1>3. CASE r.op = "key"
  <2>1. r.value \in {0, 1, 2} /\ r.by \in {"user", "shortcut", "edit"}
    BY <1>3 DEF Requests
  <2>2. CASE r.value = 1
    <3> DEFINE faults == a.faults \cup EditFaults(a, r)
               stray == a.stray \/ Unawaited(r)
               covered == CASE r.by = "shortcut" -> a.covered \cup {r.key}
                            [] r.by = "user" -> a.down \ {r.key}
                            [] r.by = "edit" -> a.covered
    <3>1. b = [a EXCEPT !.down = a.down \cup {r.key}, !.faults = faults, !.stray = stray,
                        !.covered = covered]
      <4>1. b = TakePress(a, r)
        BY <1>3, <2>2 DEF Take
      <4> QED BY <4>1 DEF TakePress
    <3>2. covered = IF r.by = "shortcut" THEN a.covered \cup {r.key}
                    ELSE IF r.by = "user" THEN a.down \ {r.key} ELSE a.covered
      BY <2>1
    <3> HIDE DEF b, faults, stray, covered
    <3>3. b.down = a.down \cup {r.key} /\ b.covered = covered /\ b.faults = faults /\ b.mods = a.mods
      BY <3>1 DEF App
    <3>4. \A key \in Bare(b) : key \in Bare(a) \/ key = r.key
      BY <2>1, <3>2, <3>3 DEF Bare
    <3>5. r.by = "shortcut" => Bare(b) \subseteq Bare(a)
      BY <3>2, <3>3 DEF Bare
    <3>6. r.by = "user" => Bare(b) \subseteq {r.key}
      BY <3>2, <3>3 DEF Bare
    <3>7. \A key : ~ReleaseOf(r, key) /\ (key = r.key => PressOf(r, key))
      BY <1>3, <2>2 DEF ReleaseOf, PressOf
    <3> QED BY <1>3, <2>2, <3>3, <3>4, <3>5, <3>6, <3>7 DEF faults
  <2>3. CASE r.value = 0
    <3>1. b = [a EXCEPT !.down = a.down \ {r.key}, !.covered = a.covered \ {r.key}]
      BY <1>3, <2>3 DEF Take
    <3> HIDE DEF b
    <3>2. /\ b.down = a.down \ {r.key} /\ b.covered = a.covered \ {r.key}
          /\ b.faults = a.faults /\ b.mods = a.mods
      BY <3>1 DEF App
    <3> QED BY <1>3, <2>3, <3>2 DEF ReleaseOf, Bare
  <2>4. CASE r.value = 2
    <3>1. b = a
      BY <1>3, <2>4 DEF Take
    <3> HIDE DEF b
    <3> QED BY <1>3, <2>4, <3>1 DEF ReleaseOf
  <2> QED BY <2>1, <2>2, <2>3, <2>4
<1>4. CASE r.op = "mods"
  <2>1. b = [a EXCEPT !.mods = r.mask]
    BY <1>4 DEF Take
  <2> HIDE DEF b
  <2>2. b.mods = r.mask /\ Bare(b) = Bare(a) /\ b.faults = a.faults
    BY <2>1 DEF App, Bare
  <2> QED BY <1>4, <2>2 DEF ReleaseOf
<1>5. CASE r.op = "keysym"
  <2> DEFINE more == IF Dropped(a, r.glyph.key) THEN {"lost_glyph"} ELSE {}
             faults == a.faults \cup more
  <2>1. b = IF r.mapped THEN [a EXCEPT !.faults = faults] ELSE a
    BY <1>5 DEF Take, Requests
  <2>2. more = IF r.glyph.key \in Bare(a) THEN {"lost_glyph"} ELSE {}
    BY DEF Dropped, Bare
  <2> HIDE DEF b, more
  <2>3. b.mods = a.mods /\ Bare(b) = Bare(a) /\ b.faults = IF r.mapped THEN faults ELSE a.faults
    BY <2>1 DEF App, Bare
  <2> HIDE DEF Bare
  <2> QED BY <1>5, <2>2, <2>3 DEF ReleaseOf
<1>6. CASE r.op \in {"text", "commit"}
  <2>1. b = a \/ b = [a EXCEPT !.owed = FALSE]
    BY <1>6 DEF Take
  <2> HIDE DEF b
  <2>2. b.mods = a.mods /\ Bare(b) = Bare(a) /\ b.faults = a.faults
    BY <2>1 DEF App, Bare
  <2> QED BY <1>6, <2>2 DEF ReleaseOf
<1> QED BY <1>2, <1>3, <1>4, <1>5, <1>6

(* Taking no request, one, and some after others.                          *)
LEMMA TakeNone == ASSUME NEW a \in App PROVE TakeAll(a, <<>>) = a
<1>1. \A s \in Seq(Requests) : s = <<>> => Len(s) = 0
  OBVIOUS
<1>2. ASSUME NEW s \in Seq(Requests), s = <<>> PROVE TakeAll(a, s) = a
  <2>1. 0 \in Nat /\ 0 = Len(s)
    BY <1>1, <1>2
  <2>2. PICK f : f[0] = a /\ f[0] = TakeAll(a, s)
    <3>1. \E f : /\ f[0] = a /\ f[0] = TakeAll(a, s)
                 /\ \A n \in 0 .. 0 : f[n] \in App
                 /\ \A n \in 1 .. 0 : f[n] = Take(f[n - 1], s[n])
      BY <2>1, TakeTrace
    <3> QED BY <3>1
  <2> QED BY <2>2
<1>3. <<>> \in Seq(Requests)
  OBVIOUS
<1> QED BY <1>2, <1>3

(* A single request is taken as one.                                       *)
LEMMA TakeOne ==
  ASSUME NEW a \in App, NEW r \in Requests PROVE TakeAll(a, <<r>>) = Take(a, r)
<1>1. PICK s : s \in Seq(Requests) /\ s = <<r>> /\ Len(s) = 1 /\ s[1] = r
  <2> DEFINE s == <<r>>
  <2>1. s \in Seq(Requests) /\ Len(s) = 1 /\ s[1] = r
    OBVIOUS
  <2> QED BY <2>1
<1>2. PICK f : f[0] = a /\ f[1] = TakeAll(a, s) /\ \A n \in 1 .. 1 : f[n] = Take(f[n - 1], s[n])
  <2>1. 1 \in Nat
    OBVIOUS
  <2>2. \E f : /\ f[0] = a /\ f[1] = TakeAll(a, s)
               /\ \A n \in 0 .. 1 : f[n] \in App
               /\ \A n \in 1 .. 1 : f[n] = Take(f[n - 1], s[n])
    BY <1>1, <2>1, TakeTrace
  <2> QED BY <2>2
<1>3. f[1] = Take(f[0], s[1])
  <2>1. 1 \in 1 .. 1 /\ 1 - 1 = 0
    OBVIOUS
  <2> QED BY <1>2, <2>1
<1> QED BY <1>1, <1>2, <1>3

(* Two batches of requests are taken one after the other.                  *)
LEMMA TakeConcat ==
  ASSUME NEW a \in App, NEW s \in Seq(Requests), NEW t \in Seq(Requests)
  PROVE  /\ TakeAll(a, s \o t) = TakeAll(TakeAll(a, s), t)
         /\ TakeAll(a, s) \in App
<1> DEFINE b == TakeAll(a, s)
           st == s \o t
<1>1. b \in App
  BY TakeAllFacts
<1>2. PICK m \in Nat : m = Len(s)
  OBVIOUS
<1>3. PICK n \in Nat : n = Len(t)
  OBVIOUS
<1>4. st \in Seq(Requests) /\ Len(st) = m + n /\ m + n \in Nat
  BY <1>2, <1>3
<1>5. /\ \A i \in 1 .. m : st[i] = s[i]
      /\ \A i \in 1 .. n : st[m + i] = t[i]
  BY <1>2, <1>3
<1> HIDE DEF b, st
<1>6. PICK f : f[0] = a /\ f[m] = b /\ \A i \in 1 .. m : f[i] = Take(f[i - 1], s[i])
  <2>1. \E f : /\ f[0] = a /\ f[m] = TakeAll(a, s)
               /\ \A i \in 0 .. m : f[i] \in App
               /\ \A i \in 1 .. m : f[i] = Take(f[i - 1], s[i])
    BY <1>2, TakeTrace
  <2> QED BY <2>1 DEF b
<1>7. PICK g : g[0] = b /\ g[n] = TakeAll(b, t) /\ \A i \in 1 .. n : g[i] = Take(g[i - 1], t[i])
  <2>1. \E g : /\ g[0] = b /\ g[n] = TakeAll(b, t)
               /\ \A i \in 0 .. n : g[i] \in App
               /\ \A i \in 1 .. n : g[i] = Take(g[i - 1], t[i])
    BY <1>1, <1>3, TakeTrace
  <2> QED BY <2>1
<1>8. PICK h : /\ h[0] = a /\ h[m + n] = TakeAll(a, st)
               /\ \A i \in 1 .. (m + n) : h[i] = Take(h[i - 1], st[i])
  <2>1. \E h : /\ h[0] = a /\ h[m + n] = TakeAll(a, st)
               /\ \A i \in 0 .. (m + n) : h[i] \in App
               /\ \A i \in 1 .. (m + n) : h[i] = Take(h[i - 1], st[i])
    BY <1>4, TakeTrace
  <2> QED BY <2>1
<1>9. h[m] = f[m]
  <2> DEFINE T == {i \in 0 .. m : h[i] = f[i]}
  <2>1. 0 \in T
    BY <1>6, <1>8
  <2>2. ASSUME NEW i \in 1 .. m, i - 1 \in T PROVE i \in T
    <3>1. i \in 1 .. (m + n) /\ i \in 0 .. m
      OBVIOUS
    <3>2. h[i] = Take(h[i - 1], st[i]) /\ f[i] = Take(f[i - 1], s[i])
      BY <1>6, <1>8, <3>1
    <3> QED BY <1>5, <2>2, <3>1, <3>2
  <2> HIDE DEF T
  <2>3. 0 .. m \subseteq T
    BY <2>1, <2>2, IntervalInduction
  <2> QED BY <2>3 DEF T
<1>10. h[m + n] = g[n]
  <2> DEFINE T == {i \in 0 .. n : h[m + i] = g[i]}
  <2>1. 0 \in T
    BY <1>6, <1>7, <1>9
  <2>2. ASSUME NEW i \in 1 .. n, i - 1 \in T PROVE i \in T
    <3>1. m + i \in 1 .. (m + n) /\ i \in 0 .. n /\ (m + i) - 1 = m + (i - 1)
      OBVIOUS
    <3>2. h[m + i] = Take(h[m + (i - 1)], st[m + i]) /\ g[i] = Take(g[i - 1], t[i])
      BY <1>7, <1>8, <3>1
    <3> QED BY <1>5, <2>2, <3>1, <3>2
  <2> HIDE DEF T
  <2>3. 0 .. n \subseteq T
    BY <2>1, <2>2, IntervalInduction
  <2> QED BY <2>3 DEF T
<1> QED BY <1>1, <1>7, <1>8, <1>10 DEF b, st

(* Nothing goes wrong, and no key more would be dropped.                   *)
Gentle(a, b) == b \in App /\ Bare(b) \subseteq Bare(a) /\ b.faults \subseteq a.faults

(* One gentle change after another.                                        *)
LEMMA GentleTwice == ASSUME NEW a, NEW b, NEW c, Gentle(a, b), Gentle(b, c) PROVE Gentle(a, c)
BY DEF Gentle

(* A request that presses no key.                                         *)
LEMMA GentleOne ==
  ASSUME NEW a \in App, NEW r \in Requests, r.op # "key" \/ r.value = 0,
         r.op = "keysym" /\ r.mapped => r.glyph.key \notin Bare(a)
  PROVE  /\ Gentle(a, TakeAll(a, <<r>>))
         /\ TakeAll(a, <<r>>).mods = IF r.op = "mods" THEN r.mask ELSE a.mods
         /\ \A key \in Bare(TakeAll(a, <<r>>)) : ~ReleaseOf(r, key)
<1>1. PICK b : b = TakeAll(a, <<r>>) /\ b = Take(a, r)
  BY TakeOne
<1>2. Takes(a, r, b)
  BY <1>1, TakeEffects
<1>3. \A key : ~PressOf(r, key)
  BY DEF PressOf
<1>4. Gentle(a, b)
  BY <1>2, <1>3 DEF Takes, Gentle
<1>5. b.mods = IF r.op = "mods" THEN r.mask ELSE a.mods
  BY <1>2 DEF Takes
<1>6. \A key \in Bare(b) : ~ReleaseOf(r, key)
  BY <1>2 DEF Takes
<1> QED BY <1>1, <1>4, <1>5, <1>6

(* A mask, ...                                                             *)
LEMMA GentleMask ==
  ASSUME NEW a \in App, NEW mask \in Masks
  PROVE  Gentle(a, TakeAll(a, <<Modifiers(mask)>>)) /\ TakeAll(a, <<Modifiers(mask)>>).mods = mask
<1>1. PICK r \in Requests : r = Modifiers(mask) /\ r.op = "mods" /\ r.mask = mask
  BY RequestsTyped DEF Modifiers
<1>2. Gentle(a, TakeAll(a, <<r>>)) /\ TakeAll(a, <<r>>).mods = mask
  BY <1>1, GentleOne
<1> QED BY <1>1, <1>2

(* ... a release of an edit, ...                                           *)
LEMMA GentleRelease ==
  ASSUME NEW a \in App, NEW key \in KeyCodes
  PROVE  LET b == TakeAll(a, <<EditKey(key, 0)>>)
         IN  Gentle(a, b) /\ b.mods = a.mods /\ key \notin Bare(b)
<1>1. PICK r \in Requests : r = EditKey(key, 0) /\ r.op = "key" /\ r.key = key /\ r.value = 0
  BY RequestsTyped DEF EditKey, Key
<1>2. ReleaseOf(r, key)
  BY <1>1 DEF ReleaseOf
<1>3. /\ Gentle(a, TakeAll(a, <<r>>)) /\ TakeAll(a, <<r>>).mods = a.mods
      /\ key \notin Bare(TakeAll(a, <<r>>))
  BY <1>1, <1>2, GentleOne
<1> QED BY <1>1, <1>3

(* ... a text or its commit, ...                                           *)
LEMMA GentleText ==
  ASSUME NEW a \in App, NEW r \in {Text, Commit}
  PROVE  Gentle(a, TakeAll(a, <<r>>)) /\ TakeAll(a, <<r>>).mods = a.mods
<1>1. r \in Requests /\ r.op \in {"text", "commit"}
  BY RequestsTyped DEF Text, Commit
<1> QED BY <1>1, GentleOne

(* ... and a character whose key is not held.                              *)
LEMMA GentleKeysym ==
  ASSUME NEW a \in App, NEW glyph \in GlyphSpecs \cup {None}, NEW mapped \in BOOLEAN,
         mapped => glyph.key \notin Bare(a)
  PROVE  LET b == TakeAll(a, <<Keysym(glyph, mapped)>>) IN Gentle(a, b) /\ b.mods = a.mods
<1>1. PICK r \in Requests : /\ r = Keysym(glyph, mapped) /\ r.op = "keysym" /\ r.glyph = glyph
                            /\ r.mapped = mapped
  BY RequestsTyped DEF Keysym
<1>2. Gentle(a, TakeAll(a, <<r>>)) /\ TakeAll(a, <<r>>).mods = a.mods
  BY <1>1, GentleOne
<1> QED BY <1>1, <1>2

(* A tap of an edit, when its press does what it should.                   *)
LEMMA GentleTap ==
  ASSUME NEW a \in App, NEW key \in KeyCodes, NEW press \in Requests,
         press.op = "key", press.key = key, EditFaults(a, press) = {}
  PROVE  LET b == TakeAll(a, <<press, EditKey(key, 0)>>) IN Gentle(a, b) /\ b.mods = a.mods
<1>1. EditKey(key, 0) \in Requests
  BY RequestsTyped
<1>2. PICK c : c = TakeAll(a, <<press>>) /\ c = Take(a, press)
  BY TakeOne
<1>3. /\ c \in App /\ c.mods = a.mods /\ c.faults \subseteq a.faults
      /\ \A other \in Bare(c) : other \in Bare(a) \/ other = key
  BY <1>2, TakeEffects DEF Takes, PressOf
<1>4. PICK b : b = TakeAll(c, <<EditKey(key, 0)>>)
  OBVIOUS
<1>5. Gentle(c, b) /\ b.mods = c.mods /\ key \notin Bare(b)
  BY <1>3, <1>4, GentleRelease
<1>6. b = TakeAll(a, <<press, EditKey(key, 0)>>)
  <2>1. <<press, EditKey(key, 0)>> = <<press>> \o <<EditKey(key, 0)>>
    OBVIOUS
  <2>2. <<press>> \in Seq(Requests) /\ <<EditKey(key, 0)>> \in Seq(Requests)
    BY <1>1
  <2>3. TakeAll(a, <<press>> \o <<EditKey(key, 0)>>) = TakeAll(TakeAll(a, <<press>>), <<EditKey(key, 0)>>)
    BY <2>2, TakeConcat
  <2> QED BY <1>2, <1>4, <2>1, <2>3
<1> QED BY <1>3, <1>5, <1>6 DEF Gentle

(* Requests between two masks.                                             *)
LEMMA GentleGuard ==
  ASSUME NEW a \in App, NEW tap \in Seq(Requests), NEW up \in Masks, NEW down \in Masks,
         \A c \in App : Gentle(a, c) /\ c.mods = up => Gentle(c, TakeAll(c, tap))
  PROVE  LET b == TakeAll(a, <<Modifiers(up)>> \o tap \o <<Modifiers(down)>>)
         IN  Gentle(a, b) /\ b.mods = down
<1>1. <<Modifiers(up)>> \in Seq(Requests) /\ <<Modifiers(down)>> \in Seq(Requests)
  BY QuietRequest
<1>2. PICK c : c = TakeAll(a, <<Modifiers(up)>>)
  OBVIOUS
<1>3. Gentle(a, c) /\ c.mods = up /\ c \in App
  BY <1>2, GentleMask DEF Gentle
<1>4. PICK d : d = TakeAll(c, tap)
  OBVIOUS
<1>5. Gentle(c, d) /\ d \in App
  BY <1>3, <1>4 DEF Gentle
<1>6. PICK b : b = TakeAll(d, <<Modifiers(down)>>)
  OBVIOUS
<1>7. Gentle(d, b) /\ b.mods = down
  BY <1>5, <1>6, GentleMask
<1> DEFINE first == <<Modifiers(up)>>
           last == <<Modifiers(down)>>
<1>8. /\ TakeAll(a, first \o tap) = TakeAll(TakeAll(a, first), tap)
      /\ first \o tap \in Seq(Requests)
  <2> HIDE DEF first
  <2>1. first \in Seq(Requests)
    BY <1>1 DEF first
  <2> QED BY <2>1, TakeConcat
<1>9. TakeAll(a, (first \o tap) \o last) = TakeAll(TakeAll(a, first \o tap), last)
  <2> HIDE DEF first, last
  <2>1. last \in Seq(Requests)
    BY <1>1 DEF last
  <2> QED BY <1>8, <2>1, TakeConcat
<1>10. b = TakeAll(a, <<Modifiers(up)>> \o tap \o <<Modifiers(down)>>)
  BY <1>2, <1>4, <1>6, <1>8, <1>9
<1> QED BY <1>3, <1>5, <1>7, <1>10, GentleTwice

(* A Backspace of an edit is never seen with a modifier.                   *)
LEMMA BackspaceGentle ==
  ASSUME NEW a \in App, NEW k \in Relay, k.raw_mods = a.mods
  PROVE  LET b == TakeAll(a, BackspaceTap(k)) IN Gentle(a, b) /\ b.mods = a.mods
<1> DEFINE press == EditKey(Backspace, 1)
           tap == <<press, EditKey(Backspace, 0)>>
<1>1. Backspace \in KeyCodes
  BY DEF KeyCodes, UserKeys
<1>2. /\ press \in Requests /\ press.op = "key" /\ press.key = Backspace
      /\ EditKey(Backspace, 0) \in Requests
  BY <1>1, RequestsTyped DEF EditKey, Key
<1>3. tap \in Seq(Requests)
  BY <1>2
<1>4. ASSUME NEW c \in App, c.mods = {}
      PROVE  Gentle(c, TakeAll(c, tap)) /\ TakeAll(c, tap).mods = c.mods
  <2>1. press.glyph = None
    BY DEF EditKey, Key
  <2>2. EditFaults(c, press) = {}
    BY <1>4, <2>1 DEF EditFaults
  <2> HIDE DEF press
  <2> QED BY <1>1, <1>2, <2>2, GentleTap DEF tap
<1>5. {} \in Masks /\ k.raw_mods \in Masks
  BY DanceMasks
<1> HIDE DEF tap
<1>6. CASE k.raw_mods = {}
  BY <1>4, <1>6 DEF BackspaceTap, tap
<1>7. CASE k.raw_mods # {}
  <2>1. BackspaceTap(k) = <<Modifiers({})>> \o tap \o <<Modifiers(k.raw_mods)>>
    BY <1>7 DEF BackspaceTap, tap
  <2> QED BY <1>3, <1>4, <1>5, <2>1, GentleGuard
<1> QED BY <1>6, <1>7

(* After the prelude, the key of the edit is not held.                     *)
LEMMA PreludeGentle ==
  ASSUME NEW a \in App, NEW key \in KeyCodes, NEW held, Bare(a) \subseteq {held}
  PROVE  LET b == TakeAll(a, Prelude(key, held))
         IN  Gentle(a, b) /\ b.mods = a.mods /\ key \notin Bare(b) /\ b \in App
<1>1. CASE held # None /\ key = held
  <2>1. Prelude(key, held) = <<EditKey(key, 0)>>
    BY <1>1 DEF Prelude
  <2> QED BY <2>1, GentleRelease DEF Gentle
<1>2. CASE ~(held # None /\ key = held)
  <2>1. Prelude(key, held) = <<>>
    BY <1>2 DEF Prelude
  <2>2. TakeAll(a, Prelude(key, held)) = a
    BY <2>1, TakeNone
  <2>3. key # None
    BY RelayAssumption
  <2>4. key \notin Bare(a)
    BY <1>2, <2>3
  <2> QED BY <2>2, <2>4 DEF Gentle
<1> QED BY <1>1, <1>2

(* A character typed by the virtual keyboard arrives at its level, its key *)
(* released first if the user still holds it.                              *)
LEMMA EmitCharGentle ==
  ASSUME relay \in Relay, NEW a \in App, a.mods = relay.raw_mods,
         NEW k \in Relay, k.raw_mods = relay.raw_mods, NEW glyph \in GlyphSpecs,
         NEW held, Bare(a) \subseteq {held}
  PROVE  LET b == TakeAll(a, emit_char(k, glyph, held)) IN Gentle(a, b) /\ b.mods = a.mods
<1> DEFINE press == GlyphKey(glyph)
           tap == <<press, EditKey(glyph.key, 0)>>
           up == k.raw_mods \cup glyph.mods
           rest == IF glyph.mods = {} THEN tap
                   ELSE <<Modifiers(up)>> \o tap \o <<Modifiers(k.raw_mods)>>
           first == Prelude(glyph.key, held)
<1>1. glyph.key \in KeyCodes /\ glyph.key # Backspace
  BY RelayAssumption DEF GlyphSpecs, KeyCodes, UserKeys
<1>2. /\ press \in Requests /\ press.op = "key" /\ press.key = glyph.key /\ press.glyph = glyph
      /\ EditKey(glyph.key, 0) \in Requests
  <2>1. press \in Requests
    BY RequestsTyped
  <2>2. EditKey(glyph.key, 0) \in Requests
    BY <1>1, RequestsTyped
  <2>3. press.op = "key" /\ press.key = glyph.key /\ press.glyph = glyph
    BY DEF GlyphKey, EditKey, Key
  <2> QED BY <2>1, <2>2, <2>3
<1>3. tap \in Seq(Requests)
  BY <1>2
<1>4. ASSUME NEW c \in App, c.mods = relay.raw_mods \cup glyph.mods, glyph.key \notin Bare(c)
      PROVE  Gentle(c, TakeAll(c, tap)) /\ TakeAll(c, tap).mods = c.mods
  <2>1. EditFaults(c, press) = {}
    BY <1>1, <1>2, <1>4 DEF EditFaults, Dropped, Bare
  <2> HIDE DEF press
  <2> QED BY <1>1, <1>2, <2>1, GentleTap DEF tap
<1>5. up \in Masks /\ k.raw_mods \in Masks
  BY DanceMasks
<1> HIDE DEF tap
<1>6. ASSUME NEW c \in App, c.mods = relay.raw_mods, glyph.key \notin Bare(c)
      PROVE  Gentle(c, TakeAll(c, rest)) /\ TakeAll(c, rest).mods = relay.raw_mods
  <2>1. CASE glyph.mods = {}
    BY <1>4, <1>6, <2>1
  <2>2. CASE glyph.mods # {}
    <3>1. ASSUME NEW d \in App, Gentle(c, d), d.mods = up PROVE Gentle(d, TakeAll(d, tap))
      BY <1>4, <1>6, <3>1 DEF Gentle
    <3>2. LET b == TakeAll(c, <<Modifiers(up)>> \o tap \o <<Modifiers(k.raw_mods)>>)
          IN  Gentle(c, b) /\ b.mods = k.raw_mods
      <4> HIDE DEF up
      <4> QED BY <1>3, <1>5, <3>1, GentleGuard
    <3> QED BY <2>2, <3>2
  <2> QED BY <2>1, <2>2
<1>7. rest \in Seq(Requests) /\ first \in Seq(Requests)
  <2>1. <<Modifiers(up)>> \in Seq(Requests) /\ <<Modifiers(k.raw_mods)>> \in Seq(Requests)
    BY <1>5, QuietRequest
  <2>2. first \in Seq(Requests)
    BY <1>1, PreludeTidy DEF Tidy
  <2> QED BY <1>3, <2>1, <2>2
<1>8. emit_char(k, glyph, held) = first \o rest
  <2>1. CASE glyph.mods = {}
    BY <2>1 DEF emit_char, plan_mod_dance, tap
  <2>2. CASE glyph.mods # {}
    <3>1. plan_mod_dance(k, glyph) = <<up, k.raw_mods>>
      BY <2>2 DEF plan_mod_dance
    <3>2. /\ plan_mod_dance(k, glyph) # <<>> /\ plan_mod_dance(k, glyph)[1] = up
          /\ plan_mod_dance(k, glyph)[2] = k.raw_mods
      BY <3>1
    <3> QED BY <2>2, <3>2 DEF emit_char, tap
  <2> QED BY <2>1, <2>2
<1>9. PICK c : c = TakeAll(a, first)
  OBVIOUS
<1>10. Gentle(a, c) /\ c.mods = a.mods /\ glyph.key \notin Bare(c) /\ c \in App
  BY <1>1, <1>9, PreludeGentle
<1> HIDE DEF rest, first
<1>11. TakeAll(a, first \o rest) = TakeAll(c, rest)
  BY <1>7, <1>9, TakeConcat
<1>12. Gentle(c, TakeAll(c, rest)) /\ TakeAll(c, rest).mods = relay.raw_mods
  BY <1>6, <1>10
<1> QED BY <1>8, <1>10, <1>11, <1>12, GentleTwice

(* So does a character typed as a keysym.                                  *)
LEMMA KeysymGentle ==
  ASSUME relay \in Relay, NEW a \in App, a.mods = relay.raw_mods,
         NEW k \in Relay, k.raw_mods = relay.raw_mods, NEW glyph \in GlyphSpecs \cup {None},
         NEW functional, NEW held, Bare(a) \subseteq {held}
  PROVE  LET b == TakeAll(a, commit_via_keysym_v1(k, glyph, functional, held))
         IN  Gentle(a, b) /\ b.mods = a.mods
<1> DEFINE mapped == Mapped(k, glyph)
           guard == mapped /\ ~functional /\ k.raw_mods # {}
           first == IF mapped THEN Prelude(glyph.key, held) ELSE <<>>
           keysym == <<Keysym(glyph, mapped)>>
           guarded == <<Modifiers({}), Keysym(glyph, mapped), Modifiers(k.raw_mods)>>
           rest == IF guard THEN guarded ELSE keysym
<1>1. mapped \in BOOLEAN
  BY DEF Mapped
<1>2. mapped => glyph.key \in KeyCodes
  BY DEF Mapped, GlyphSpecs, KeyCodes, UserKeys
<1>3. commit_via_keysym_v1(k, glyph, functional, held) = first \o rest
  BY DEF commit_via_keysym_v1
<1> HIDE DEF mapped
<1>4. keysym \in Seq(Requests) /\ {} \in Masks /\ k.raw_mods \in Masks
  BY <1>1, QuietRequest, DanceMasks
<1>5. guarded = <<Modifiers({})>> \o keysym \o <<Modifiers(k.raw_mods)>>
  OBVIOUS
<1>6. PICK c : c = TakeAll(a, first)
  OBVIOUS
<1>7. /\ Gentle(a, c) /\ c.mods = a.mods /\ (mapped => glyph.key \notin Bare(c)) /\ c \in App
      /\ first \in Seq(Requests)
  <2>1. CASE mapped
    BY <1>2, <1>6, <2>1, PreludeGentle, PreludeTidy DEF Tidy
  <2>2. CASE ~mapped
    <3>1. c = a /\ first = <<>>
      BY <1>6, <2>2, TakeNone
    <3> QED BY <2>2, <3>1, BalancedBlocks DEF Gentle
  <2> QED BY <2>1, <2>2
<1>8. ASSUME NEW d \in App, mapped => glyph.key \notin Bare(d)
      PROVE  Gentle(d, TakeAll(d, keysym)) /\ TakeAll(d, keysym).mods = d.mods
  BY <1>1, <1>8, GentleKeysym
<1> HIDE DEF keysym, guarded, first
<1>9. rest \in Seq(Requests) /\ Gentle(c, TakeAll(c, rest)) /\ TakeAll(c, rest).mods = c.mods
  <2>1. CASE guard
    <3>1. ASSUME NEW d \in App, Gentle(c, d), d.mods = {} PROVE Gentle(d, TakeAll(d, keysym))
      BY <1>7, <1>8, <3>1 DEF Gentle
    <3>2. Gentle(c, TakeAll(c, guarded)) /\ TakeAll(c, guarded).mods = k.raw_mods
      BY <1>4, <1>5, <1>7, <3>1, GentleGuard
    <3>3. guarded \in Seq(Requests)
      <4>1. <<Modifiers({})>> \in Seq(Requests) /\ <<Modifiers(k.raw_mods)>> \in Seq(Requests)
        BY <1>4, QuietRequest
      <4> QED BY <1>4, <1>5, <4>1
    <3> QED BY <1>7, <2>1, <3>2, <3>3
  <2>2. CASE ~guard
    BY <1>4, <1>7, <1>8, <2>2
  <2> QED BY <2>1, <2>2
<1> HIDE DEF rest
<1>10. TakeAll(a, first \o rest) = TakeAll(c, rest)
  BY <1>6, <1>7, <1>9, TakeConcat
<1> QED BY <1>3, <1>7, <1>9, <1>10, GentleTwice

(* Every edit, when the modifiers that the adapter knows are the           *)
(* application's and only the key it is for may be held.                   *)
LEMMA EditGentle ==
  ASSUME relay \in Relay, NEW a \in App, a.mods = relay.raw_mods,
         NEW k \in Relay, k.raw_mods = relay.raw_mods, NEW e \in EditSpecs,
         NEW protocol, NEW functional, NEW held, Bare(a) \subseteq {held}
  PROVE  LET b == TakeAll(a, EditRequests(protocol, k, functional, e, held))
         IN  Gentle(a, b) /\ b.mods = a.mods
<1> DEFINE vk == ByVirtualKeyboard(protocol, functional, e)
           first == IF e.backspaces = 0 THEN <<>> ELSE BackspaceTap(k)
           commit == IF protocol = "ImV2" THEN <<Commit>> ELSE <<>>
           channel == <<Text>> \o commit
           second == IF vk THEN emit_char(k, e.glyph, held)
                     ELSE IF protocol = "ImV1" /\ e.delete = "keys"
                     THEN commit_via_keysym_v1(k, e.glyph, functional, held)
                     ELSE channel
<1>1. e.glyph \in GlyphSpecs \cup {None}
  BY DEF EditSpecs
<1>2. vk => e.glyph \in GlyphSpecs
  BY <1>1 DEF ByVirtualKeyboard
<1>3. EditRequests(protocol, k, functional, e, held) = first \o second
  BY DEF EditRequests
<1> HIDE DEF vk
<1>4. PICK c : c = TakeAll(a, first)
  OBVIOUS
<1>5. Gentle(a, c) /\ c.mods = a.mods /\ first \in Seq(Requests)
  <2>1. CASE e.backspaces = 0
    <3>1. c = a /\ first = <<>>
      BY <1>4, <2>1, TakeNone
    <3> QED BY <3>1, BalancedBlocks DEF Gentle
  <2>2. CASE e.backspaces # 0
    BY <1>4, <2>2, BackspaceGentle, BackspaceTapTidy DEF Tidy
  <2> QED BY <2>1, <2>2
<1>6. c \in App /\ c.mods = relay.raw_mods /\ Bare(c) \subseteq {held}
  BY <1>5 DEF Gentle
<1>7. channel \in Seq(Requests) /\ Gentle(c, TakeAll(c, channel)) /\ TakeAll(c, channel).mods = c.mods
  <2>1. <<Text>> \in Seq(Requests) /\ commit \in Seq(Requests)
    BY QuietRequest, BalancedBlocks
  <2>2. PICK d : d = TakeAll(c, <<Text>>)
    OBVIOUS
  <2>3. Gentle(c, d) /\ d.mods = c.mods /\ d \in App
    BY <1>6, <2>2, GentleText DEF Gentle
  <2>4. Gentle(d, TakeAll(d, commit)) /\ TakeAll(d, commit).mods = d.mods
    <3>1. TakeAll(d, <<>>) = d
      BY <2>3, TakeNone
    <3> QED BY <2>3, <3>1, GentleText DEF Gentle
  <2> HIDE DEF commit
  <2>5. TakeAll(c, <<Text>> \o commit) = TakeAll(d, commit)
    BY <1>6, <2>1, <2>2, TakeConcat
  <2> QED BY <2>1, <2>3, <2>4, <2>5, GentleTwice
<1> HIDE DEF first, channel
<1>8. second \in Seq(Requests) /\ Gentle(c, TakeAll(c, second)) /\ TakeAll(c, second).mods = c.mods
  <2>1. CASE vk
    <3>1. second = emit_char(k, e.glyph, held)
      BY <2>1
    <3> QED BY <1>2, <1>6, <2>1, <3>1, EmitCharGentle, EmitCharTidy DEF Tidy
  <2>2. CASE ~vk /\ protocol = "ImV1" /\ e.delete = "keys"
    <3>1. second = commit_via_keysym_v1(k, e.glyph, functional, held)
      BY <2>2
    <3> QED BY <1>1, <1>6, <3>1, KeysymGentle, KeysymTidy DEF Tidy
  <2>3. CASE ~vk /\ ~(protocol = "ImV1" /\ e.delete = "keys")
    BY <1>7, <2>3
  <2> QED BY <2>1, <2>2, <2>3
<1> HIDE DEF second
<1>9. TakeAll(a, first \o second) = TakeAll(c, second)
  BY <1>4, <1>5, <1>8, TakeConcat
<1> QED BY <1>3, <1>5, <1>8, <1>9, GentleTwice

(* An edit leaves the stamps and the modifiers, and with protocol v1       *)
(* expects no echo.                                                        *)
LEMMA AfterEditFacts ==
  ASSUME NEW protocol, NEW k \in Relay, NEW functional, NEW e
  PROVE  LET b == AfterEdit(protocol, k, functional, e)
         IN  /\ b.raw_mods = k.raw_mods /\ held_user_kc(b) = held_user_kc(k)
             /\ protocol # "ImV2" => b.expected = k.expected
<1> DEFINE b == AfterEdit(protocol, k, functional, e)
           more == k.expected \o plan_mod_dance(k, e.glyph)
<1>1. b = k \/ (protocol = "ImV2" /\ b = [k EXCEPT !.expected = more, !.late = FALSE])
  BY DEF AfterEdit, ByVirtualKeyboard, ExpectEcho
<1> HIDE DEF b, more
<1>2. /\ b.raw_mods = k.raw_mods /\ b.last_key = k.last_key
      /\ b.last_release = k.last_release /\ b.released = k.released
      /\ protocol # "ImV2" => b.expected = k.expected
  BY <1>1 DEF Relay
<1> QED BY <1>2 DEF held_user_kc, b

(* What the timer, the stamps and the echoes do to the held key and to the *)
(* modifiers.                                                              *)
SameKeys(k, b) ==
  b.raw_mods = k.raw_mods /\ held_user_kc(b) = held_user_kc(k) /\ b.expected = k.expected

(* The timer leaves these alone; a forwarded press or release is what the  *)
(* last key is read from.                                                  *)
LEMMA StampFacts ==
  ASSUME NEW k \in Relay, NEW key \in KeyCodes
  PROVE  /\ SameKeys(k, cancel(k)) /\ SameKeys(k, arm(k, key)) /\ SameKeys(k, release(k, key))
         /\ \A positive \in BOOLEAN : SameKeys(k, set_info(k, positive))
         /\ SameKeys(k, [k EXCEPT !.late = TRUE])
         /\ LET b == StampPress(k, key)
            IN  b.raw_mods = k.raw_mods /\ held_user_kc(b) = key /\ b.expected = k.expected
         /\ LET b == StampRelease(k, key)
            IN  /\ b.raw_mods = k.raw_mods /\ b.expected = k.expected
                /\ held_user_kc(b) = IF k.last_key = key THEN None ELSE k.last_key
<1>1. SameKeys(k, cancel(k)) /\ SameKeys(k, [k EXCEPT !.late = TRUE])
  BY DEF cancel, SameKeys, held_user_kc, Relay
<1>2. SameKeys(k, arm(k, key))
  BY DEF arm, SameKeys, held_user_kc, Relay
<1>3. SameKeys(k, release(k, key))
  BY <1>1 DEF release, SameKeys
<1>4. ASSUME NEW positive \in BOOLEAN PROVE SameKeys(k, set_info(k, positive))
  BY DEF set_info, SameKeys, held_user_kc, Relay
<1>5. LET b == StampPress(k, key)
      IN  b.raw_mods = k.raw_mods /\ held_user_kc(b) = key /\ b.expected = k.expected
  BY DEF StampPress, held_user_kc, Relay
<1>6. LET b == StampRelease(k, key)
      IN  /\ b.raw_mods = k.raw_mods /\ b.expected = k.expected
          /\ held_user_kc(b) = IF k.last_key = key THEN None ELSE k.last_key
  BY DEF StampRelease, held_user_kc, Relay
<1> QED BY <1>1, <1>2, <1>3, <1>4, <1>5, <1>6

(* What the application has after a step that types for the state a.       *)
TypesFrom(a) ==
  /\ app' \in App /\ (Clean(a) => Clean(app')) /\ app'.mods = a.mods
  /\ Bare(app') \subseteq {held_user_kc(relay')}
  /\ ~Reaches => app' = a

(* Requests that reach the application, or not.                            *)
LEMMA SendGentle ==
  ASSUME NEW a \in App, NEW requests, NEW rest, SendFrom(a, requests, rest),
         Reaches => Gentle(a, TakeAll(a, requests)) /\ TakeAll(a, requests).mods = a.mods
  PROVE  Gentle(a, app') /\ app'.mods = a.mods /\ (~Reaches => app' = a)
<1>1. app' = IF Reaches THEN TakeAll(a, requests) ELSE a
  BY DEF SendFrom
<1>2. Gentle(a, a)
  BY DEF Gentle
<1> QED BY <1>1, <1>2

(* An edit that knows the modifiers and the key that is held.              *)
LEMMA ApplyPendingGentle ==
  ASSUME Types, NEW k \in Relay, NEW e \in EditSpecs, NEW a \in App, NEW rest,
         ApplyPending(k, e, a, rest), k.raw_mods = relay.raw_mods,
         Reaches => a.mods = relay.raw_mods, Bare(a) \subseteq {held_user_kc(k)}
  PROVE  /\ TypesFrom(a) /\ relay'.raw_mods = k.raw_mods
         /\ ~IsV2 => relay'.expected = k.expected
<1> DEFINE requests == EditRequests(profile.protocol, k, router.functional, e, held_user_kc(k))
<1>1. SendFrom(a, requests, rest) /\ relay' = AfterEdit(profile.protocol, k, router.functional, e)
  BY DEF ApplyPending
<1>2. relay \in Relay
  BY TypesFacts
<1>3. Reaches => Gentle(a, TakeAll(a, requests)) /\ TakeAll(a, requests).mods = a.mods
  BY <1>2, EditGentle
<1> HIDE DEF requests
<1>4. Gentle(a, app') /\ app'.mods = a.mods /\ (~Reaches => app' = a)
  BY <1>1, <1>3, SendGentle
<1>5. /\ relay'.raw_mods = k.raw_mods /\ held_user_kc(relay') = held_user_kc(k)
      /\ ~IsV2 => relay'.expected = k.expected
  BY <1>1, AfterEditFacts DEF IsV2
<1>6. Bare(app') \subseteq {held_user_kc(relay')}
  BY <1>4, <1>5 DEF Gentle
<1> QED BY <1>4, <1>5, <1>6 DEF TypesFrom, Gentle, Clean

(* A request that only forwards a key.                                     *)
Forwarded(a, key, value, b) ==
  /\ b \in App /\ b.faults \subseteq a.faults /\ b.mods = a.mods
  /\ value = 0 => Bare(b) \subseteq Bare(a) \ {key}
  /\ value = 1 => Bare(b) \subseteq {key}
  /\ value = 2 => Bare(b) \subseteq Bare(a)

(* What a forwarded key, stamped or not, does to the application.          *)
LEMMA ForwardGentle ==
  ASSUME NEW a \in App, NEW key \in KeyCodes, NEW value \in {0, 1, 2}
  PROVE  /\ LET b == TakeAll(a, <<UnstampedKey(key, value)>>) IN Gentle(a, b) /\ b.mods = a.mods
         /\ Forwarded(a, key, value, TakeAll(a, <<Key(key, value)>>))
<1>1. PICK r \in Requests : /\ r = UnstampedKey(key, value) /\ r.op = "key" /\ r.key = key
                            /\ r.value = value /\ r.by = "shortcut" /\ r.glyph = None
  <2>1. UnstampedKey(key, value) \in Requests
    BY RequestsTyped
  <2> QED BY <2>1 DEF UnstampedKey, Key
<1>2. PICK s \in Requests : /\ s = Key(key, value) /\ s.op = "key" /\ s.key = key
                            /\ s.value = value /\ s.by = "user" /\ s.glyph = None
  <2>1. Key(key, value) \in Requests
    BY RequestsTyped
  <2> QED BY <2>1 DEF Key
<1>3. EditFaults(a, r) = {} /\ EditFaults(a, s) = {}
  BY <1>1, <1>2 DEF EditFaults
<1>4. PICK b : b = TakeAll(a, <<r>>) /\ Takes(a, r, b)
  BY TakeOne, TakeEffects
<1>5. PICK c : c = TakeAll(a, <<s>>) /\ Takes(a, s, c)
  BY TakeOne, TakeEffects
<1>6. Gentle(a, b) /\ b.mods = a.mods
  BY <1>1, <1>3, <1>4 DEF Takes, Gentle
<1>7. c \in App /\ c.faults \subseteq a.faults /\ c.mods = a.mods
  BY <1>2, <1>3, <1>5 DEF Takes
<1>8. ReleaseOf(s, key) <=> value = 0
  BY <1>2 DEF ReleaseOf
<1>9. value # 1 => \A other : ~PressOf(s, other)
  BY <1>2 DEF PressOf
<1>10. /\ value = 0 => Bare(c) \subseteq Bare(a) \ {key}
       /\ value = 1 => Bare(c) \subseteq {key}
       /\ value = 2 => Bare(c) \subseteq Bare(a)
  BY <1>2, <1>5, <1>8, <1>9 DEF Takes
<1> QED BY <1>1, <1>2, <1>4, <1>5, <1>6, <1>7, <1>10 DEF Forwarded

(* A press at the head of the socket: what is forwarded is the held key,   *)
(* and what is typed for it arrives.                                       *)
LEMMA PressTypes ==
  ASSUME Types, NEW key \in KeyCodes, PressKey(key, cancel(relay)),
         Bare(app) \subseteq {held_user_kc(relay)}, ~Reaches => Bare(app) = {},
         Reaches => app.mods = relay.raw_mods
  PROVE  /\ TypesFrom(app) /\ relay'.raw_mods = relay.raw_mods
         /\ ~IsV2 => relay'.expected = relay.expected
<1> DEFINE k == cancel(relay)
<1>1. PICK d \in on_key_pressed(key) :
        \/ /\ d.kind = "consumed"
           /\ SendFrom(app, <<UnstampedKey(key, 1)>>, Tail(socket))
           /\ relay' = k
        \/ /\ d.kind = "raw"
           /\ SendFrom(app, <<Key(key, 1)>>, Tail(socket))
           /\ relay' = StampPress(k, key)
        \/ d.kind = "apply" /\ ApplyPending(arm(k, key), d.edit, app, Tail(socket))
  BY DEF PressKey
<1>2. d.kind = "apply" => d.edit \in EditSpecs
  BY DecisionFacts
<1>3. app \in App /\ relay \in Relay /\ relay \in KeyStates
  BY TypesFacts
<1>4. k \in Relay /\ SameKeys(relay, k)
  BY <1>3, StampFacts, TimerTyped DEF KeyStates
<1>5. arm(k, key) \in Relay /\ SameKeys(k, arm(k, key))
  <2>1. k \in KeyStates
    BY <1>3, TimerTyped
  <2> HIDE DEF k
  <2> QED BY <1>4, <2>1, StampFacts, TimerTyped DEF KeyStates
<1> HIDE DEF k
<1>6. CASE d.kind = "consumed"
  <2>1. Gentle(app, app') /\ app'.mods = app.mods /\ (~Reaches => app' = app)
    BY <1>1, <1>3, <1>6, ForwardGentle, SendGentle
  <2>2. relay' = k
    BY <1>1, <1>6
  <2> QED BY <1>4, <2>1, <2>2 DEF TypesFrom, Gentle, Clean, SameKeys
<1>7. CASE d.kind = "raw"
  <2>1. app' = IF Reaches THEN TakeAll(app, <<Key(key, 1)>>) ELSE app
    BY <1>1, <1>7 DEF SendFrom
  <2>2. relay'.raw_mods = k.raw_mods /\ held_user_kc(relay') = key /\ relay'.expected = k.expected
    <3>1. relay' = StampPress(k, key)
      BY <1>1, <1>7
    <3> QED BY <1>4, <3>1, StampFacts
  <2>3. PICK b : b = TakeAll(app, <<Key(key, 1)>>) /\ Forwarded(app, key, 1, b)
    BY <1>3, ForwardGentle
  <2> QED BY <1>3, <1>4, <2>1, <2>2, <2>3 DEF TypesFrom, Clean, SameKeys, Forwarded
<1>8. CASE d.kind = "apply"
  <2>1. ApplyPending(arm(k, key), d.edit, app, Tail(socket)) /\ d.edit \in EditSpecs
    BY <1>1, <1>2, <1>8
  <2>2. arm(k, key).raw_mods = relay.raw_mods /\ arm(k, key).expected = relay.expected
        /\ held_user_kc(arm(k, key)) = held_user_kc(relay)
    BY <1>4, <1>5 DEF SameKeys
  <2> QED BY <1>3, <1>5, <2>1, <2>2, ApplyPendingGentle
<1> QED BY <1>1, <1>6, <1>7, <1>8

(* A repeat, of the compositor or of the timer.                            *)
LEMMA RepeatTypes ==
  ASSUME Types, NEW key \in KeyCodes, NEW pulse, NEW a \in App, NEW rest,
         RepeatKey(key, pulse, a, rest),
         Bare(a) \subseteq {held_user_kc(relay)}, Reaches => a.mods = relay.raw_mods
  PROVE  /\ TypesFrom(a) /\ relay'.raw_mods = relay.raw_mods
         /\ ~IsV2 => relay'.expected = relay.expected
<1>1. PICK d \in on_key_pressed(key) :
        \/ /\ d.kind = "consumed"
           /\ SendFrom(a, <<UnstampedKey(key, 2)>>, rest)
           /\ relay' = relay
        \/ /\ d.kind = "raw"
           /\ SendFrom(a, IF pulse THEN <<Key(key, 1), Key(key, 0)>> ELSE <<Key(key, 2)>>, rest)
           /\ relay' = relay
        \/ d.kind = "apply" /\ ApplyPending(relay, d.edit, a, rest)
  BY DEF RepeatKey
<1>2. relay \in Relay /\ (d.kind = "apply" => d.edit \in EditSpecs)
  BY DecisionFacts, TypesFacts
<1>3. ASSUME relay' = relay, Gentle(a, app'), app'.mods = a.mods, ~Reaches => app' = a
      PROVE  /\ TypesFrom(a) /\ relay'.raw_mods = relay.raw_mods
             /\ ~IsV2 => relay'.expected = relay.expected
  BY <1>3 DEF TypesFrom, Gentle, Clean
<1>4. CASE d.kind = "consumed"
  <2>1. SendFrom(a, <<UnstampedKey(key, 2)>>, rest) /\ relay' = relay
    BY <1>1, <1>4
  <2>2. Gentle(a, app') /\ app'.mods = a.mods /\ (~Reaches => app' = a)
    BY <2>1, ForwardGentle, SendGentle
  <2> QED BY <1>3, <2>1, <2>2
<1>5. CASE d.kind = "raw"
  <2> DEFINE requests == IF pulse THEN <<Key(key, 1), Key(key, 0)>> ELSE <<Key(key, 2)>>
  <2>1. SendFrom(a, requests, rest) /\ relay' = relay
    BY <1>1, <1>5
  <2>2. Gentle(a, TakeAll(a, requests)) /\ TakeAll(a, requests).mods = a.mods
    <3>1. CASE pulse
      <4> DEFINE first == <<Key(key, 1)>>
                 second == <<Key(key, 0)>>
      <4>1. requests = first \o second
        BY <3>1
      <4>2. first \in Seq(Requests) /\ second \in Seq(Requests)
        <5>1. Key(key, 1) \in Requests /\ Key(key, 0) \in Requests
          BY RequestsTyped
        <5> QED BY <5>1
      <4>3. PICK b : b = TakeAll(a, first) /\ Forwarded(a, key, 1, b)
        BY ForwardGentle
      <4>4. PICK c : c = TakeAll(b, second) /\ Forwarded(b, key, 0, c)
        <5>1. b \in App
          BY <4>3 DEF Forwarded
        <5> QED BY <5>1, ForwardGentle
      <4>5. Gentle(a, c) /\ c.mods = a.mods /\ b \in App
        BY <4>3, <4>4 DEF Gentle, Forwarded
      <4> HIDE DEF requests, first, second
      <4>6. TakeAll(a, requests) = c
        BY <4>1, <4>2, <4>3, <4>4, <4>5, TakeConcat
      <4> QED BY <4>5, <4>6
    <3>2. CASE ~pulse
      <4>1. PICK b : b = TakeAll(a, <<Key(key, 2)>>) /\ Forwarded(a, key, 2, b)
        BY ForwardGentle
      <4>2. Gentle(a, b) /\ b.mods = a.mods
        BY <4>1 DEF Gentle, Forwarded
      <4> QED BY <3>2, <4>1, <4>2
    <3> QED BY <3>1, <3>2
  <2> HIDE DEF requests
  <2>3. Gentle(a, app') /\ app'.mods = a.mods /\ (~Reaches => app' = a)
    BY <2>1, <2>2, SendGentle
  <2> QED BY <1>3, <2>1, <2>3
<1>6. CASE d.kind = "apply"
  <2>1. ApplyPending(relay, d.edit, a, rest) /\ d.edit \in EditSpecs
    BY <1>1, <1>2, <1>6
  <2> QED BY <1>2, <2>1, ApplyPendingGentle
<1> QED BY <1>1, <1>4, <1>5, <1>6

-----------------------------------------------------------------------------
(* The invariant behind EditKeysArrive.                                    *)

(* A key whose press would be dropped is the one that the user holds, and  *)
(* there is none while the application gets the keys itself.               *)
HeldBare ==
  Bare(app) \subseteq {held_user_kc(relay)} /\ (~KeysGrabbed => Bare(app) = {})

(* The current context of protocol v1 has the grab, and no key waits       *)
(* behind an activation that will take it.                                 *)
ContextGrabbed == ~IsV2 /\ frame.ctx # 0 /\ Current(frame.ctx) => desk.grabbed
GrabFirst ==
  ~IsV2 /\ ~desk.grabbed =>
    \A i, j \in DOMAIN socket :
      i < j /\ Is(i, "activate") /\ Current(socket[i].epoch) => ~Is(j, "key")

(* Only an open session repairs, and protocol v1 has neither synthetic     *)
(* sessions nor a dance.                                                   *)
Plain == (router.raw => router.active) /\ (~IsV2 => ~router.synthetic /\ relay.expected = <<>>)

(* The adapter's modifiers are the application's.  With protocol v1 those  *)
(* of the user come with the grab, before any press and any repair.        *)
ModsWait ==
  \E j \in DOMAIN socket :
    Is(j, "mods") /\ \A i \in DOMAIN socket : i < j /\ Is(i, "key") => socket[i].value = 0
ModsFresh ==
  IF IsV2 THEN app.mods = relay.raw_mods
  ELSE running # "no" /\ desk.grabbed /\ app.mods # relay.raw_mods => ~router.raw /\ ModsWait

EditQueue == Clean(app) /\ HeldBare /\ ContextGrabbed /\ GrabFirst /\ Plain /\ ModsFresh

(* A step's part of it that concerns the keys and the modifiers.           *)
Typed == Clean(app') /\ HeldBare' /\ Plain' /\ ModsFresh'

(* Events that are no activation, and keys only of a grab.                 *)
Still == {e \in Events : (e.type = "key" => KeysGrabbed) /\ e.type # "activate"}
Unturned == \A field \in {"active", "epoch", "grabbed"} : desk'[field] = desk[field]

(* The grab stays where it was through a step that turns nothing.          *)
LEMMA GrabStays ==
  ASSUME Types, ContextGrabbed, GrabFirst, NEW d \in {0, 1}, Shifted(d, Still),
         socket' \in Seq(Events), UNCHANGED profile, Unturned,
         frame'.ctx \in {frame.ctx, 0} \/ ~Current(frame'.ctx)
  PROVE  ContextGrabbed' /\ GrabFirst'
<1>1. IsV2' = IsV2 /\ \A epoch : Current(epoch)' <=> Current(epoch)
  BY DEF IsV2, Current, Unturned
<1>2. desk'.grabbed = desk.grabbed
  BY DEF Unturned
<1>3. ContextGrabbed'
  BY <1>1, <1>2 DEF ContextGrabbed
<1>4. ASSUME ~IsV2, ~desk.grabbed, NEW i \in DOMAIN socket', NEW j \in DOMAIN socket', i < j,
             Is(i, "activate")', Current(socket'[i].epoch), Is(j, "key")'
      PROVE  FALSE
  <2>1. i + d \in DOMAIN socket /\ socket'[i] = socket[i + d]
    BY <1>4 DEF Shifted, Still, Is
  <2>2. j + d \in DOMAIN socket /\ socket'[j] = socket[j + d]
    BY <1>4 DEF Shifted, Still, Is, KeysGrabbed
  <2>3. i + d < j + d
    <3>1. i \in Nat /\ j \in Nat /\ d \in Nat
      OBVIOUS
    <3> QED BY <1>4, <3>1
  <2>4. Is(i + d, "activate") /\ Current(socket[i + d].epoch) /\ Is(j + d, "key")
    BY <1>4, <2>1, <2>2 DEF Is
  <2> QED BY <1>4, <2>1, <2>2, <2>3, <2>4 DEF GrabFirst
<1>5. GrabFirst'
  BY <1>1, <1>2, <1>4 DEF GrabFirst
<1> QED BY <1>3, <1>5

(* The modifiers that wait before any press still do when the first event, *)
(* which is not theirs, is gone.                                           *)
LEMMA WaitMoves ==
  ASSUME Types, ModsWait, NEW d \in {0, 1}, NEW S, Shifted(d, S), socket' \in Seq(Events),
         d = 1 => ~Is(1, "mods")
  PROVE  ModsWait'
<1>1. PICK j \in DOMAIN socket :
        Is(j, "mods") /\ \A i \in DOMAIN socket : i < j /\ Is(i, "key") => socket[i].value = 0
  BY DEF ModsWait
<1>2. /\ DOMAIN socket = 1 .. Len(socket) /\ Len(socket) \in Nat
      /\ j \in Nat /\ j > 0
  BY PlacesFacts
<1>3. j > d
  BY <1>1, <1>2
<1>4. j - d \in DOMAIN socket' /\ socket'[j - d] = socket[j]
  BY <1>3 DEF Shifted
<1>5. ASSUME NEW i \in DOMAIN socket', i < j - d, Is(i, "key")' PROVE socket'[i].value = 0
  <2>1. i \in Nat /\ i > 0 /\ d \in Nat
    OBVIOUS
  <2>2. i + d \in DOMAIN socket /\ i + d < j
    BY <1>2, <1>5, <2>1
  <2>3. socket'[i] = socket[i + d]
    BY <1>2, <2>2 DEF Shifted
  <2> QED BY <1>1, <1>5, <2>2, <2>3 DEF Is
<1>6. Is(j - d, "mods")'
  BY <1>1, <1>4 DEF Is
<1> QED BY <1>4, <1>5, <1>6 DEF ModsWait

(* Nothing of it concerns keys or modifiers.                               *)
KeepsTyping(d) ==
  /\ d \in {0, 1} /\ Shifted(d, Events) /\ socket' \in Seq(Events)
  /\ UNCHANGED profile /\ Unturned /\ (running' # "no" => running # "no")
  /\ (d = 1 => ~Is(1, "mods"))
  /\ (Clean(app) => Clean(app')) /\ app'.mods = app.mods
  /\ relay'.raw_mods = relay.raw_mods /\ (~IsV2 => relay'.expected = relay.expected)
  /\ HeldBare'
  /\ (router'.raw => router.raw /\ router'.active) /\ (router'.synthetic => router.synthetic \/ IsV2)

(* What such a step leaves.                                                *)
LEMMA TypingKept ==
  ASSUME Types, EditQueue, NEW d, KeepsTyping(d) PROVE Typed
<1>1. IsV2' = IsV2 /\ desk'.grabbed = desk.grabbed
  BY DEF KeepsTyping, IsV2, Unturned
<1>2. Clean(app') /\ HeldBare'
  BY DEF EditQueue, KeepsTyping
<1>3. Plain'
  BY <1>1 DEF EditQueue, KeepsTyping, Plain
<1>4. ModsWait => ModsWait'
  BY WaitMoves DEF KeepsTyping
<1>5. ModsFresh'
  BY <1>1, <1>4 DEF EditQueue, KeepsTyping, ModsFresh
<1> QED BY <1>2, <1>3, <1>5 DEF Typed

(* Requests reach the application only while its keys are grabbed.         *)
LEMMA ReachesGrabbed ==
  ASSUME ContextGrabbed, Reaches PROVE KeysGrabbed
BY DEF ContextGrabbed, Reaches, Current, KeysGrabbed

(* When a press or a repeat is next, or nothing at all, the modifiers are  *)
(* the application's.                                                      *)
LEMMA HeadFresh ==
  ASSUME Types, EditQueue, running # "no", Reaches,
         socket = <<>> \/ (Is(1, "key") /\ socket[1].value # 0)
  PROVE  app.mods = relay.raw_mods
<1>1. KeysGrabbed
  BY ReachesGrabbed DEF EditQueue
<1>2. ~ModsWait
  <2> SUFFICES ASSUME NEW j \in DOMAIN socket, Is(j, "mods"),
                      \A i \in DOMAIN socket : i < j /\ Is(i, "key") => socket[i].value = 0
               PROVE  FALSE
    BY DEF ModsWait
  <2>1. DOMAIN socket = 1 .. Len(socket) /\ Len(socket) \in Nat /\ j \in Nat /\ j > 0
    BY PlacesFacts
  <2>2. socket # <<>> /\ 1 \in DOMAIN socket
    BY <2>1
  <2>3. j # 1
    BY <2>2 DEF Is
  <2> QED BY <2>1, <2>2, <2>3
<1> QED BY <1>1, <1>2 DEF EditQueue, ModsFresh, KeysGrabbed

(* A step that typed with the modifiers it knows.                          *)
LEMMA TypedFresh ==
  ASSUME Types, Queue, EditQueue, NEW a, TypesFrom(a), Clean(a), a.mods = app.mods,
         ~Reaches => Bare(a) = {}, Reaches => app.mods = relay.raw_mods,
         UNCHANGED <<profile, desk>>,
         relay'.raw_mods = relay.raw_mods, ~IsV2 => relay'.expected = relay.expected,
         router'.raw => router'.active, router'.synthetic => router.synthetic
  PROVE  Typed
<1>1. IsV2' = IsV2 /\ desk'.grabbed = desk.grabbed /\ KeysGrabbed' = KeysGrabbed
  BY DEF IsV2, KeysGrabbed
<1>2. ~KeysGrabbed => ~Reaches
  BY ReachesGrabbed DEF EditQueue
<1>3. Clean(app') /\ HeldBare'
  BY <1>1, <1>2 DEF TypesFrom, HeldBare
<1>4. Plain'
  BY <1>1 DEF EditQueue, Plain
<1>5. KeysGrabbed => app'.mods = relay'.raw_mods
  BY GrabReaches DEF TypesFrom
<1>6. ModsFresh'
  BY <1>1, <1>5 DEF ModsFresh, KeysGrabbed
<1> QED BY <1>3, <1>4, <1>6 DEF Typed

(* A session that has forwarded a character is open.                       *)
LEMMA NoteRawFacts ==
  ASSUME Types, NEW key, NEW d, router' = NoteRaw(key, d)
  PROVE  (router'.raw => router.raw \/ router.active) /\ router'.synthetic = router.synthetic
<1> DEFINE raw == router.raw \/ (d.kind = "raw" /\ router.active /\ key \in CharKeys)
<1>1. router' = [router EXCEPT !.raw = raw] /\ router \in Router
  BY TypesFacts DEF NoteRaw
<1>2. router'.raw = raw /\ router'.synthetic = router.synthetic
  <2> HIDE DEF raw
  <2> QED BY <1>1 DEF Router
<1> QED BY <1>2

(* A handler that leaves the frame and the text inputs alone.              *)
LEMMA HandlerGrab ==
  ASSUME Types, EditQueue, NEW d \in {0, 1}, d = 1 => socket # <<>>,
         Leaves(IF d = 1 THEN Tail(socket) ELSE socket), socket' \in Seq(Events),
         UNCHANGED <<profile, desk>>, frame'.ctx = frame.ctx
  PROVE  ContextGrabbed' /\ GrabFirst' /\ Shifted(d, Events)
<1>1. Shifted(d, ModsEvents)
  BY LeavesShift
<1>2. ModsEvents \subseteq Still /\ ModsEvents \subseteq Events
  BY DEF ModsEvents, Still, Events
<1>3. Shifted(d, Still) /\ Shifted(d, Events)
  BY <1>1, <1>2, ShiftMore
<1> QED BY <1>3, GrabStays DEF EditQueue, Unturned

(* A press is dispatched.                                                  *)
LEMMA PressEdits ==
  ASSUME Types, Queue, EditQueue, dispatch_key_press PROVE EditQueue'
<1> DEFINE key == Head(socket).key
<1>1. /\ key \in UserKeys /\ Arrives("key") /\ Head(socket).value = 1
      /\ KeyDigest(app, {None, key}, Tail(socket)) /\ UNCHANGED <<outside, focus>>
  BY PressDigest
<1>2. PressKey(key, cancel(relay))
  BY DEF dispatch_key_press
<1>3. key \in KeyCodes
  BY <1>1 DEF KeyCodes
<1> HIDE DEF key
<1>4. /\ socket # <<>> /\ running # "no" /\ Is(1, "key") /\ socket[1].value = 1
  BY <1>1, HeadPlace
<1>5. ContextGrabbed' /\ GrabFirst'
  BY <1>1, <1>4, HandlerGrab DEF KeyDigest, SameFrame, outside
<1>6. Reaches => app.mods = relay.raw_mods
  BY <1>4, HeadFresh
<1>7. Bare(app) \subseteq {held_user_kc(relay)} /\ (~Reaches => Bare(app) = {})
  BY GrabReaches DEF EditQueue, HeldBare
<1>8. /\ TypesFrom(app) /\ relay'.raw_mods = relay.raw_mods
      /\ ~IsV2 => relay'.expected = relay.expected
  BY <1>2, <1>3, <1>6, <1>7, PressTypes
<1>9. (router'.raw => router'.active) /\ router'.synthetic = router.synthetic
  <2>1. PICK d : router' = NoteRaw(key, d)
    BY <1>2 DEF PressKey
  <2>2. router'.active = router.active
    BY <1>1 DEF KeyDigest, SameSession
  <2> QED BY <2>1, <2>2, NoteRawFacts DEF EditQueue, Plain
<1>10. Typed
  BY <1>1, <1>6, <1>7, <1>8, <1>9, TypedFresh DEF EditQueue, outside
<1> QED BY <1>5, <1>10 DEF Typed, EditQueue

(* A repeat of the compositor is dispatched, ...                           *)
LEMMA RepeatEdits ==
  ASSUME Types, Queue, EditQueue, dispatch_key_repeat PROVE EditQueue'
<1> DEFINE key == Head(socket).key
<1>1. /\ Arrives("key") /\ Head(socket).value = 2
      /\ KeyDigest(app, {relay.held}, Tail(socket)) /\ UNCHANGED <<outside, focus>>
  BY RepeatDigest
<1>2. RepeatKey(key, FALSE, app, Tail(socket))
  BY DEF dispatch_key_repeat
<1>3. key \in KeyCodes
  BY <1>1, ArrivesFacts, KeyEventTyped
<1> HIDE DEF key
<1>4. /\ socket # <<>> /\ running # "no" /\ Is(1, "key") /\ socket[1].value = 2
  BY <1>1, HeadPlace
<1>5. ContextGrabbed' /\ GrabFirst'
  BY <1>1, <1>4, HandlerGrab DEF KeyDigest, SameFrame, outside
<1>6. Reaches => app.mods = relay.raw_mods
  BY <1>4, HeadFresh
<1>7. Bare(app) \subseteq {held_user_kc(relay)} /\ (~Reaches => Bare(app) = {}) /\ app \in App
  BY GrabReaches, TypesFacts DEF EditQueue, HeldBare
<1>8. /\ TypesFrom(app) /\ relay'.raw_mods = relay.raw_mods
      /\ ~IsV2 => relay'.expected = relay.expected
  BY <1>2, <1>3, <1>6, <1>7, RepeatTypes
<1>9. (router'.raw => router'.active) /\ router'.synthetic = router.synthetic
  <2>1. PICK d : router' = NoteRaw(key, d)
    BY <1>2 DEF RepeatKey
  <2>2. router'.active = router.active
    BY <1>1 DEF KeyDigest, SameSession
  <2> QED BY <2>1, <2>2, NoteRawFacts DEF EditQueue, Plain
<1>10. Typed
  BY <1>1, <1>6, <1>7, <1>8, <1>9, TypedFresh DEF EditQueue, outside
<1> QED BY <1>5, <1>10 DEF Typed, EditQueue

(* ... or the timer fires.                                                 *)
LEMMA FiresEdits ==
  ASSUME Types, Queue, EditQueue, RepeatFires PROVE EditQueue'
<1> DEFINE faults == IF relay.held \in user THEN app.faults ELSE app.faults \cup {"trailing_repeat"}
           a == [app EXCEPT !.faults = faults]
<1>1. /\ running = "yes" /\ socket = <<>> /\ relay.held # None
      /\ router' \in Router /\ socket' \in Seq(Events)
      /\ SameFrame /\ SameSession /\ Leaves(socket)
      /\ UNCHANGED <<profile, user, desk, running, focus>>
  BY FiresFacts
<1>2. RepeatKey(relay.held, TRUE, a, <<>>)
  BY DEF RepeatFires
<1>3. relay.held \in KeyCodes /\ app \in App
  BY <1>1, TypesFacts DEF Relay
<1>4. a \in App /\ a.mods = app.mods /\ Bare(a) = Bare(app) /\ Clean(a)
  <2>1. Clean(app)
    BY DEF EditQueue
  <2>2. faults \in SUBSET {"lost_glyph", "modified_backspace", "trailing_repeat"}
        /\ faults \cap EditFaultKinds = {}
    BY <1>3, <2>1 DEF App, Clean, EditFaultKinds
  <2> HIDE DEF faults
  <2> QED BY <1>3, <2>2 DEF App, Bare, Clean
<1> HIDE DEF a
<1>5. ContextGrabbed' /\ GrabFirst'
  <2>1. frame'.ctx = frame.ctx
    BY <1>1 DEF SameFrame
  <2> QED BY <1>1, <2>1, HandlerGrab
<1>6. Reaches => app.mods = relay.raw_mods
  BY <1>1, HeadFresh
<1>7. Bare(a) \subseteq {held_user_kc(relay)} /\ (~Reaches => Bare(a) = {})
  BY <1>4, GrabReaches DEF EditQueue, HeldBare
<1>8. /\ TypesFrom(a) /\ relay'.raw_mods = relay.raw_mods
      /\ ~IsV2 => relay'.expected = relay.expected
  BY <1>2, <1>3, <1>4, <1>6, <1>7, RepeatTypes
<1>9. (router'.raw => router'.active) /\ router'.synthetic = router.synthetic
  <2>1. PICK d : router' = NoteRaw(relay.held, d)
    BY <1>2 DEF RepeatKey
  <2>2. router'.active = router.active
    BY <1>1 DEF SameSession
  <2> QED BY <2>1, <2>2, NoteRawFacts DEF EditQueue, Plain
<1>10. Typed
  BY <1>1, <1>4, <1>6, <1>7, <1>8, <1>9, TypedFresh
<1> QED BY <1>5, <1>10 DEF Typed, EditQueue

(* A release is dispatched: a key that is held no longer is dropped no     *)
(* longer.                                                                 *)
LEMMA ReleaseEdits ==
  ASSUME Types, Queue, EditQueue, dispatch_key_release PROVE EditQueue'
<1> DEFINE key == Head(socket).key
           k == release(relay, key)
<1>1. /\ key \in UserKeys /\ Arrives("key") /\ Head(socket).value = 0
      /\ KeyDigest(app, {relay.held, None} \ {key}, Tail(socket)) /\ UNCHANGED <<outside, focus>>
  BY ReleaseDigest
<1>2. /\ SendFrom(app, <<Key(key, 0)>>, Tail(socket)) /\ relay' = StampRelease(k, key)
      /\ UNCHANGED router
  BY DEF dispatch_key_release
<1>3. key \in KeyCodes /\ app \in App /\ relay \in Relay /\ relay \in KeyStates
  BY <1>1, TypesFacts DEF KeyCodes
<1> HIDE DEF key
<1>4. k \in Relay /\ k.last_key = relay.last_key /\ SameKeys(relay, k)
  <2>1. k \in KeyStates /\ SameKeys(relay, k)
    BY <1>3, StampFacts, TimerTyped
  <2>2. k.last_key = relay.last_key
    BY <1>3 DEF release, cancel, Relay
  <2> QED BY <2>1, <2>2 DEF KeyStates
<1> HIDE DEF k
<1>5. /\ relay'.raw_mods = relay.raw_mods /\ relay'.expected = relay.expected
      /\ held_user_kc(relay') = IF relay.last_key = key THEN None ELSE relay.last_key
  <2>1. LET b == StampRelease(k, key)
        IN  /\ b.raw_mods = k.raw_mods /\ b.expected = k.expected
            /\ held_user_kc(b) = IF k.last_key = key THEN None ELSE k.last_key
    BY <1>3, <1>4, StampFacts
  <2> QED BY <1>2, <1>4, <2>1 DEF SameKeys
<1>6. /\ socket # <<>> /\ running # "no" /\ Is(1, "key") /\ ~Is(1, "mods")
  BY <1>1, HeadPlace DEF Is
<1>7. ContextGrabbed' /\ GrabFirst' /\ Shifted(1, Events)
  BY <1>1, <1>6, HandlerGrab DEF KeyDigest, SameFrame, outside
<1>8. PICK b : b = TakeAll(app, <<Key(key, 0)>>) /\ Forwarded(app, key, 0, b)
  BY <1>3, ForwardGentle
<1>9. app' = IF Reaches THEN b ELSE app
  BY <1>2, <1>8 DEF SendFrom
<1>10. app'.mods = app.mods /\ (Clean(app) => Clean(app')) /\ Bare(app') \subseteq Bare(app)
       /\ (Reaches => key \notin Bare(app'))
  BY <1>8, <1>9 DEF Forwarded, Clean
<1>11. HeldBare'
  <2>1. KeysGrabbed' = KeysGrabbed
    BY <1>1 DEF KeysGrabbed, IsV2, outside
  <2>2. ~Reaches => Bare(app) = {}
    BY GrabReaches DEF EditQueue, HeldBare
  <2>3. ASSUME NEW other \in Bare(app') PROVE other = held_user_kc(relay')
    <3>1. other \in Bare(app) /\ other # key
      BY <1>10, <2>2, <2>3
    <3>2. other = held_user_kc(relay) /\ other # None
      <4>1. other \in KeyCodes
        BY <1>3, <3>1 DEF Bare, App
      <4> QED BY <3>1, <4>1, RelayAssumption DEF EditQueue, HeldBare
    <3>3. other = relay.last_key
      BY <3>2 DEF held_user_kc
    <3> QED BY <1>5, <3>1, <3>3
  <2> QED BY <1>10, <2>1, <2>3 DEF EditQueue, HeldBare
<1>12. KeepsTyping(1)
  BY <1>1, <1>2, <1>5, <1>6, <1>7, <1>10, <1>11
     DEF KeepsTyping, KeyDigest, outside, Unturned, EditQueue, Plain
<1>13. Typed
  BY <1>12, TypingKept
<1> QED BY <1>7, <1>13 DEF Typed, EditQueue

(* A change of the modifiers is dispatched: whatever is the user's is      *)
(* passed on.                                                              *)
LEMMA ModifiersEdits ==
  ASSUME Types, Queue, EditQueue, handle_modifiers PROVE EditQueue'
<1> DEFINE mask == Head(socket).mask
           k == ForceReset(relay)
           swallowed == ~relay.late /\ k.expected # <<>> /\ mask = Head(k.expected)
           a == IF Head(socket).by = "echo" THEN app ELSE [app EXCEPT !.swallowed = swallowed]
<1>1. /\ Arrives("mods") /\ KeyDigest(app, {relay.held}, Tail(socket)) /\ UNCHANGED <<outside, focus>>
  BY ModifiersDigest
<1>2. /\ \/ IsEcho(k, mask) /\ relay' = PopEcho(k) /\ app' = a
         \/ ~IsEcho(k, mask) /\ relay' = [k EXCEPT !.raw_mods = mask]
            /\ SendFrom(a, <<Modifiers(mask)>>, Tail(socket))
      /\ UNCHANGED router
  BY DEF handle_modifiers
<1>3. mask \in Masks
  BY <1>1, ArrivesFacts DEF Events, ModsEvents
<1>4. relay \in Relay /\ app \in App
  BY TypesFacts
<1>5. a \in App /\ a.mods = app.mods /\ Bare(a) = Bare(app) /\ (Clean(app) => Clean(a))
  <2>1. swallowed \in BOOLEAN
    OBVIOUS
  <2> HIDE DEF swallowed
  <2> QED BY <1>4, <2>1 DEF App, Bare, Clean
<1> HIDE DEF a, mask
<1>6. /\ k \in Relay /\ held_user_kc(k) = held_user_kc(relay) /\ k.raw_mods = relay.raw_mods
      /\ (relay.expected = <<>> => k.expected = <<>>)
  <2>1. <<>> \in Seq(Masks)
    OBVIOUS
  <2> QED BY <1>4, <2>1 DEF ForceReset, Relay, held_user_kc
<1> HIDE DEF k
<1>7. ContextGrabbed' /\ GrabFirst'
  BY <1>1, HeadPlace, HandlerGrab DEF KeyDigest, SameFrame, outside
<1>8. IsV2' = IsV2 /\ KeysGrabbed' = KeysGrabbed /\ Plain /\ UNCHANGED desk
  BY <1>1 DEF IsV2, KeysGrabbed, outside, EditQueue
<1>9. ~KeysGrabbed => ~Reaches /\ Bare(app) = {}
  BY ReachesGrabbed DEF EditQueue, HeldBare
<1>10. Clean(app) /\ Bare(app) \subseteq {held_user_kc(relay)}
  BY DEF EditQueue, HeldBare
<1>11. CASE IsEcho(k, mask)
  <2>1. relay' = PopEcho(k) /\ app' = a /\ IsV2
    BY <1>2, <1>6, <1>8, <1>11 DEF IsEcho, Plain
  <2>2. held_user_kc(relay') = held_user_kc(k) /\ relay'.raw_mods = k.raw_mods
    BY <1>6, <2>1 DEF PopEcho, Relay, held_user_kc
  <2>3. Clean(app') /\ HeldBare'
    BY <1>5, <1>6, <1>8, <1>9, <1>10, <2>1, <2>2 DEF HeldBare
  <2>4. Plain' /\ ModsFresh'
    BY <1>2, <1>5, <1>6, <1>8, <2>1, <2>2 DEF Plain, ModsFresh, EditQueue
  <2> QED BY <1>7, <2>3, <2>4 DEF EditQueue
<1>12. CASE ~IsEcho(k, mask)
  <2>1. relay' = [k EXCEPT !.raw_mods = mask] /\ SendFrom(a, <<Modifiers(mask)>>, Tail(socket))
    BY <1>2, <1>12
  <2>2. /\ held_user_kc(relay') = held_user_kc(k) /\ relay'.raw_mods = mask
        /\ relay'.expected = k.expected
    BY <1>6, <2>1 DEF Relay, held_user_kc
  <2>3. PICK b : /\ b = TakeAll(a, <<Modifiers(mask)>>) /\ Gentle(a, b) /\ b.mods = mask
    BY <1>3, <1>5, GentleMask
  <2>4. app' = IF Reaches THEN b ELSE a
    BY <2>1, <2>3 DEF SendFrom
  <2>5. Clean(app') /\ HeldBare'
    BY <1>5, <1>6, <1>8, <1>9, <1>10, <2>2, <2>3, <2>4 DEF HeldBare, Gentle, Clean
  <2>6. KeysGrabbed => app'.mods = relay'.raw_mods
    BY <2>2, <2>3, <2>4, GrabReaches
  <2>7. Plain'
    BY <1>2, <1>6, <1>8, <2>2 DEF Plain
  <2>8. ModsFresh'
    BY <1>8, <2>6 DEF ModsFresh, KeysGrabbed
  <2> QED BY <1>7, <2>5, <2>7, <2>8 DEF EditQueue
<1> QED BY <1>11, <1>12

(* A step that leaves the key state, the application and the session.      *)
LEMMA AsideTyping ==
  ASSUME Types, EditQueue, NEW d \in {0, 1}, Shifted(d, Events), socket' \in Seq(Events),
         UNCHANGED <<profile, app>>, Unturned, running' # "no" => running # "no",
         d = 1 => ~Is(1, "mods"), SameKeys(relay, relay'),
         router'.raw => router.raw /\ router'.active, router'.synthetic => router.synthetic \/ IsV2
  PROVE  Typed
<1>1. KeysGrabbed' = KeysGrabbed
  BY DEF KeysGrabbed, IsV2, Unturned
<1>2. HeldBare'
  BY <1>1 DEF HeldBare, SameKeys, EditQueue
<1>3. KeepsTyping(d)
  BY <1>2 DEF KeepsTyping, SameKeys
<1> QED BY <1>3, TypingKept

(* The keyboard's dispatch.                                                *)
LEMMA KeyboardEdits ==
  ASSUME Types, Queue, EditQueue, Keyboard PROVE EditQueue'
<1>1. CASE RepeatInfo
  <2>1. /\ Arrives("repeat_info") /\ KeyDigest(app, {relay.held, None}, Tail(socket))
        /\ app' = app /\ UNCHANGED <<outside, focus>>
    BY <1>1, RepeatInfoDigest
  <2>2. relay' = set_info(relay, Head(socket).positive) /\ UNCHANGED router
    BY <1>1 DEF RepeatInfo
  <2>3. Head(socket).positive \in BOOLEAN
    BY <2>1, ArrivesFacts DEF Events, ModsEvents
  <2>4. SameKeys(relay, relay')
    <3>1. relay \in Relay
      BY TypesFacts
    <3> QED BY <2>2, <2>3, <3>1 DEF set_info, SameKeys, held_user_kc, Relay
  <2>5. socket # <<>> /\ ~Is(1, "mods")
    BY <2>1, HeadPlace DEF Is
  <2>6. ContextGrabbed' /\ GrabFirst' /\ Shifted(1, Events)
    BY <2>1, <2>5, HandlerGrab DEF KeyDigest, SameFrame, outside
  <2>7. Typed
    BY <2>1, <2>2, <2>4, <2>5, <2>6, AsideTyping
       DEF KeyDigest, outside, Unturned, EditQueue, Plain
  <2> QED BY <2>6, <2>7 DEF Typed, EditQueue
<1> QED BY <1>1, PressEdits, ReleaseEdits, RepeatEdits, ModifiersEdits DEF Keyboard

(* A frame opens a session that has forwarded nothing, or leaves the one   *)
(* there is.                                                               *)
LEMMA FrameRaw ==
  ASSUME Types, Plain, NEW f \in Frame, NEW dead
  PROVE  LET r == OpenOrClose(f)
             after == NoteText(r, f, dead)
         IN  /\ r.raw => router.raw
             /\ after.raw => router.raw /\ after.active
             /\ after.synthetic => router.synthetic
<1> DEFINE r == OpenOrClose(f)
           s == IF f.activate # 0 /\ router.synthetic
                THEN [Closed(router) EXCEPT !.synthetic = FALSE] ELSE router
<1>1. router \in Router /\ (router.raw => router.active)
  BY TypesFacts DEF Plain
<1>2. ASSUME NEW t \in Router
      PROVE  /\ Closed(t) \in Router /\ ~Closed(t).raw /\ ~Closed(t).active
             /\ Closed(t).synthetic = t.synthetic
  BY <1>2 DEF Closed, Router
<1>3. s \in Router /\ (s.raw => s = router) /\ (s.synthetic => router.synthetic)
  <2>1. CASE f.activate # 0 /\ router.synthetic
    BY <1>1, <1>2, <2>1 DEF Router
  <2>2. CASE ~(f.activate # 0 /\ router.synthetic)
    BY <1>1, <2>2
  <2> QED BY <2>1, <2>2
<1> HIDE DEF s
<1>4. \/ r = [Closed(s) EXCEPT !.active = TRUE, !.app = focus.current, !.session = f.activate]
      \/ r = Closed(s) \/ r = s
  BY DEF OpenOrClose, s
<1> HIDE DEF r
<1>5. r \in Router
  BY OpenOrCloseFacts DEF r
<1>6. (r.raw => r = router) /\ (r.synthetic => router.synthetic)
  <2>1. CASE r = [Closed(s) EXCEPT !.active = TRUE, !.app = focus.current, !.session = f.activate]
    BY <1>2, <1>3, <2>1 DEF Router
  <2>2. CASE r = Closed(s)
    BY <1>2, <1>3, <2>2
  <2>3. CASE r = s
    BY <1>3, <2>3
  <2> QED BY <1>4, <2>1, <2>2, <2>3
<1> DEFINE after == NoteText(r, f, dead)
           functional == r.functional /\ ~dead
<1>7. after = r \/ after = [r EXCEPT !.seen = f.text, !.functional = functional]
  BY DEF NoteText
<1> HIDE DEF after, functional
<1>8. after.raw = r.raw /\ after.active = r.active /\ after.synthetic = r.synthetic
  BY <1>5, <1>7 DEF Router
<1> QED BY <1>1, <1>6, <1>8 DEF after, r

(* Before a repair, the modifiers are the application's.                   *)
LEMMA RepairFresh ==
  ASSUME EditQueue, running # "no", Reaches, router.raw PROVE app.mods = relay.raw_mods
BY ReachesGrabbed DEF EditQueue, ModsFresh, KeysGrabbed

(* A frame is applied: its repair, if any, arrives, for no key is held as  *)
(* far as it goes.                                                         *)
LEMMA DoneEdits ==
  ASSUME Types, Queue, EditQueue, NEW f \in Frame, f.ctx = frame.ctx,
         NEW d \in {0, 1}, d = 1 => socket # <<>> /\ ~Is(1, "mods"),
         apply_done_frame(f, IF d = 1 THEN Tail(socket) ELSE socket),
         running # "no", UNCHANGED <<outside, focus>>
  PROVE  EditQueue'
<1> DEFINE rest == IF d = 1 THEN Tail(socket) ELSE socket
           r == OpenOrClose(f)
           After(dead) == NoteText(r, f, dead /\ ~Opens(f))
           Edit(dead, repair) ==
             IF repair = None THEN <<>>
             ELSE EditRequests(profile.protocol, relay, After(dead).functional, repair, None)
           Acked(dead, repair) == Commit \in Range(Edit(dead, repair))
           Heartbeat(dead, repair) == IF IsV2 /\ ~Acked(dead, repair) THEN <<Commit>> ELSE <<>>
           Before(repair) == [app EXCEPT !.owed = IsV2,
                                         !.covered = IF repair = None THEN @ ELSE app.down]
<1>1. PICK dead \in BOOLEAN, repair \in Repairs(r, f) :
        /\ SendFrom(Before(repair), Edit(dead, repair) \o Heartbeat(dead, repair), rest)
        /\ router' = After(dead)
        /\ relay' = IF repair = None THEN relay
                    ELSE AfterEdit(profile.protocol, relay, After(dead).functional, repair)
  BY DEF apply_done_frame
<1> DEFINE edit == Edit(dead, repair)
           heartbeat == Heartbeat(dead, repair)
           before == Before(repair)
           covered == IF repair = None THEN app.covered ELSE app.down
<1>2. rest \in Seq(Events) /\ app \in App /\ relay \in Relay /\ relay \in KeyStates
  BY TypesFacts
<1>3. DoneDigest(f, rest)
  <2> HIDE DEF rest
  <2> QED BY <1>2, DoneFrameFacts DEF rest
<1>4. ContextGrabbed' /\ GrabFirst' /\ Shifted(d, Events)
  BY <1>3, HandlerGrab DEF DoneDigest, outside
<1>5. repair # None => router.raw /\ repair \in EditSpecs
  <2>1. repair # None => r.raw /\ repair \in EditSpecs
    BY <1>1, EditsTyped DEF Repairs
  <2> QED BY <2>1, FrameRaw DEF EditQueue
<1>6. (router'.raw => router.raw /\ router'.active) /\ (router'.synthetic => router.synthetic)
  BY <1>1, FrameRaw DEF EditQueue
<1>7. /\ before \in App /\ before.mods = app.mods /\ before.faults = app.faults
      /\ repair = None => Bare(before) = Bare(app)
      /\ repair # None => Bare(before) = {}
  <2>1. before = [app EXCEPT !.owed = IsV2, !.covered = covered]
    OBVIOUS
  <2>2. covered \in SUBSET KeyCodes /\ IsV2 \in BOOLEAN
    BY <1>2 DEF App, IsV2
  <2>3. /\ repair = None => covered = app.covered
        /\ repair # None => covered = app.down
    OBVIOUS
  <2> HIDE DEF covered, before
  <2> QED BY <1>2, <2>1, <2>2, <2>3 DEF App, Bare
<1>8. SendFrom(before, edit \o heartbeat, rest)
  BY <1>1
<1>9. heartbeat \in {<<>>, <<Commit>>}
  OBVIOUS
<1>10. repair = None => edit = <<>> /\ relay' = relay
  BY <1>1
<1>11. repair # None =>
         \E functional : /\ edit = EditRequests(profile.protocol, relay, functional, repair, None)
                         /\ relay' = AfterEdit(profile.protocol, relay, functional, repair)
  BY <1>1
<1> HIDE DEF edit, heartbeat, before, rest
<1>12. heartbeat \in Seq(Requests)
  BY <1>9, QuietRequest, BalancedBlocks
<1>13. ASSUME NEW a \in App
       PROVE  Gentle(a, TakeAll(a, heartbeat)) /\ TakeAll(a, heartbeat).mods = a.mods
  <2>1. TakeAll(a, <<>>) = a /\ Gentle(a, a)
    BY TakeNone DEF Gentle
  <2> QED BY <1>9, <2>1, GentleText
<1>14. IsV2' = IsV2 /\ KeysGrabbed' = KeysGrabbed
  BY DEF IsV2, KeysGrabbed, outside
<1>15. CASE repair = None
  <2>1. edit \o heartbeat = heartbeat
    BY <1>10, <1>12, <1>15
  <2>2. Gentle(before, app') /\ app'.mods = before.mods
    BY <1>7, <1>8, <1>13, <2>1, SendGentle
  <2>3. Bare(app') \subseteq Bare(app) /\ (Clean(app) => Clean(app')) /\ app'.mods = app.mods
    BY <1>7, <1>15, <2>2 DEF Gentle, Clean
  <2>4. relay' = relay
    BY <1>10, <1>15
  <2>5. HeldBare'
    BY <1>14, <2>3, <2>4 DEF HeldBare, EditQueue
  <2>6. KeepsTyping(d)
    BY <1>3, <1>4, <1>6, <2>3, <2>4, <2>5 DEF KeepsTyping, DoneDigest, outside, Unturned
  <2>7. Typed
    BY <2>6, TypingKept
  <2> QED BY <1>4, <2>7 DEF Typed, EditQueue
<1>16. CASE repair # None
  <2>1. Reaches => app.mods = relay.raw_mods
    BY <1>5, <1>16, RepairFresh
  <2>2. PICK functional :
          /\ edit = EditRequests(profile.protocol, relay, functional, repair, None)
          /\ relay' = AfterEdit(profile.protocol, relay, functional, repair)
    BY <1>11, <1>16
  <2>3. /\ relay'.raw_mods = relay.raw_mods
        /\ ~IsV2 => relay'.expected = relay.expected
    BY <1>2, <2>2, AfterEditFacts DEF IsV2
  <2>4. edit \in Seq(Requests)
    BY <1>2, <1>5, <1>16, <2>2, EditFacts DEF Tidy
  <2>5. Reaches => /\ Gentle(before, TakeAll(before, edit \o heartbeat))
                   /\ TakeAll(before, edit \o heartbeat).mods = before.mods
    <3> SUFFICES ASSUME Reaches
                 PROVE  /\ Gentle(before, TakeAll(before, edit \o heartbeat))
                        /\ TakeAll(before, edit \o heartbeat).mods = before.mods
      OBVIOUS
    <3>1. PICK b : b = TakeAll(before, edit)
      OBVIOUS
    <3>2. Gentle(before, b) /\ b.mods = before.mods
      BY <1>2, <1>5, <1>7, <1>16, <2>1, <2>2, <3>1, EditGentle
    <3>3. b \in App
      BY <3>2 DEF Gentle
    <3>4. TakeAll(before, edit \o heartbeat) = TakeAll(b, heartbeat)
      BY <1>7, <1>12, <2>4, <3>1, TakeConcat
    <3> QED BY <1>13, <3>2, <3>3, <3>4, GentleTwice
  <2>6. Gentle(before, app') /\ app'.mods = before.mods /\ (~Reaches => app' = before)
    BY <1>7, <1>8, <2>5, SendGentle
  <2>7. TypesFrom(before) /\ Clean(before)
    BY <1>7, <1>16, <2>6 DEF TypesFrom, Gentle, Clean, EditQueue
  <2>8. Typed
    BY <1>6, <1>7, <1>16, <2>1, <2>3, <2>7, TypedFresh DEF outside
  <2> QED BY <1>4, <2>8 DEF Typed, EditQueue
<1> QED BY <1>15, <1>16

(* An event of the input method that leaves the keys alone.                *)
LEMMA EventEdits ==
  ASSUME Types, Types', EditQueue, NEW type, Arrives(type), type \notin {"mods", "key"},
         Leaves(Tail(socket)) \/ socket' = Tail(socket),
         UNCHANGED <<profile, app>>, Unturned, running' # "no" => running # "no",
         frame'.ctx \in {frame.ctx, 0} \/ ~Current(frame'.ctx), SameKeys(relay, relay'),
         router'.raw => router.raw /\ router'.active, router'.synthetic => router.synthetic
  PROVE  EditQueue'
<1>1. socket # <<>> /\ ~Is(1, "mods")
  BY HeadPlace
<1>2. Shifted(1, ModsEvents)
  BY <1>1, LeavesShift, ShiftMore
<1>3. ModsEvents \subseteq Still /\ ModsEvents \subseteq Events /\ socket' \in Seq(Events)
  BY TypesFacts DEF ModsEvents, Still, Events, Types
<1>4. Shifted(1, Still) /\ Shifted(1, Events)
  BY <1>2, <1>3, ShiftMore
<1>5. ContextGrabbed' /\ GrabFirst'
  BY <1>3, <1>4, GrabStays DEF EditQueue
<1>6. Typed
  BY <1>1, <1>3, <1>4, AsideTyping
<1> QED BY <1>5, <1>6 DEF Typed, EditQueue

(* The session of protocol v1 is closed before its next text input is      *)
(* activated.                                                              *)
LEMMA ActivationClosed ==
  ASSUME Types, SessionQueue, Plain, ~IsV2, Arrives("activate") PROVE ~router.raw
<1>1. 1 \in DOMAIN socket /\ Is(1, "activate")
  BY HeadPlace
<1>2. ~frame.deactivate
  BY PlainHead DEF SessionQueue
<1>3. Live = 0
  <2>1. ~Between(0, 1, "deactivate")
    BY PlacesFacts DEF Between
  <2> QED BY <1>1, <2>1 DEF SessionQueue, Turns, Alternate
<1>4. router.session = 0
  BY <1>2, <1>3 DEF Live, SessionQueue
<1> QED BY <1>4 DEF Plain, SessionQueue, Sessions

(* The activation of protocol v1: when it takes the grab, the modifiers    *)
(* come before any key.                                                    *)
LEMMA ActivationEdits ==
  ASSUME Types, Types', Queue, SessionQueue, EditQueue, FillFrame, ~IsV2, Arrives("activate")
  PROVE  EditQueue'
<1> DEFINE epoch == socket[1].epoch
           current == desk.active /\ epoch = desk.epoch
<1>1. FillDigest
  BY FillFacts
<1>2. /\ Head(socket) = socket[1] /\ 1 \in DOMAIN socket /\ Is(1, "activate")
      /\ socket # <<>> /\ running # "no" /\ socket[1].type = "activate"
  BY HeadPlace DEF Is
<1>3. /\ frame'.ctx = epoch
      /\ desk' = [desk EXCEPT !.grabbed = @ \/ current]
      /\ UNCHANGED <<profile, user, relay, router, app, running>>
      /\ Leaves(Tail(socket))
  BY <1>1, <1>2 DEF FillDigest
<1>4. desk'.active = desk.active /\ desk'.epoch = desk.epoch
      /\ desk'.grabbed = (desk.grabbed \/ current)
  BY <1>3, TypesFacts DEF Desk
<1>5. CASE ~current
  <2>1. Unturned
    <3>1. desk.grabbed \in BOOLEAN
      BY TypesFacts DEF Desk
    <3> QED BY <1>4, <1>5, <3>1 DEF Unturned
  <2>2. ~Current(frame'.ctx)
    BY <1>3, <1>5 DEF Current
  <2>3. SameKeys(relay, relay')
    BY <1>3 DEF SameKeys
  <2> QED BY <1>3, <2>1, <2>2, <2>3, EventEdits DEF EditQueue, Plain
<1>6. CASE current
  <2>1. ~desk.grabbed
    <3>1. frame.ctx \in Nat /\ desk.epoch \in Nat
      BY TypesFacts DEF Frame, Desk
    <3>2. frame.ctx < desk.epoch
      BY <1>2, <1>6, <3>1 DEF Queue, EpochsGrow, Is
    <3>3. frame.ctx # desk.epoch
      BY <3>1, <3>2
    <3> QED BY <3>3 DEF Queue, GrabCurrent, Current
  <2>2. desk'.grabbed /\ IsV2' = IsV2
    BY <1>3, <1>4, <1>6 DEF IsV2
  <2>3. ContextGrabbed' /\ GrabFirst'
    BY <2>2 DEF ContextGrabbed, GrabFirst
  <2>4. HeldBare'
    BY <1>3, <2>1, <2>2 DEF EditQueue, HeldBare, KeysGrabbed
  <2>5. Plain' /\ Clean(app')
    BY <1>3, <2>2 DEF EditQueue, Plain
  <2>6. ~router.raw
    BY ActivationClosed DEF EditQueue
  <2>7. ModsWait'
    <3> DEFINE mods == ModsEvent(UserMods, "user")
               tail == Tail(socket)
    <3>1. socket' = tail \o <<mods>>
      BY <1>2, <1>6 DEF FillFrame
    <3>2. mods.type = "mods" /\ tail \in Seq(Events)
      BY <1>2, TypesFacts DEF ModsEvent
    <3>3. PICK n \in Nat : n = Len(tail)
      BY <3>2
    <3>4. /\ Len(socket) = n + 1 /\ DOMAIN socket = 1 .. (n + 1)
          /\ \A i \in 1 .. n : tail[i] = socket[i + 1]
      BY <1>2, <3>3, TypesFacts
    <3> HIDE DEF mods, tail
    <3>5. /\ n + 1 \in DOMAIN socket' /\ socket'[n + 1] = mods
          /\ \A i \in DOMAIN socket' : i < n + 1 => i \in 1 .. n /\ socket'[i] = tail[i]
      <4> DEFINE last == <<mods>>
      <4>1. Len(last) = 1 /\ last[1] = mods
        OBVIOUS
      <4>2. /\ Len(socket') = n + 1 /\ DOMAIN socket' = 1 .. (n + 1)
            /\ \A i \in 1 .. n : socket'[i] = tail[i]
            /\ socket'[n + 1] = mods
        BY <3>1, <3>2, <3>3
      <4> QED BY <4>2
    <3>6. Is(n + 1, "mods")'
      BY <3>2, <3>5 DEF Is
    <3>7. ASSUME NEW i \in DOMAIN socket', i < n + 1, Is(i, "key")' PROVE FALSE
      <4>1. i + 1 \in DOMAIN socket /\ 1 < i + 1 /\ socket'[i] = socket[i + 1]
        BY <3>4, <3>5, <3>7
      <4>2. Is(i + 1, "key")
        BY <3>7, <4>1 DEF Is
      <4>3. Is(1, "activate") /\ Current(socket[1].epoch)
        BY <1>2, <1>6 DEF Current
      <4> QED BY <1>2, <2>1, <4>1, <4>2, <4>3 DEF EditQueue, GrabFirst
    <3> QED BY <3>5, <3>6, <3>7 DEF ModsWait
  <2>8. ModsFresh'
    BY <1>3, <2>2, <2>6, <2>7 DEF ModsFresh
  <2> QED BY <2>3, <2>4, <2>5, <2>8 DEF EditQueue
<1> QED BY <1>5, <1>6

(* The input method's dispatch.                                            *)
LEMMA InputEdits ==
  ASSUME Types, Types', Queue, SessionQueue, EditQueue, Input PROVE EditQueue'
<1>1. SameKeys(relay, relay) /\ SameKeys(relay, cancel(relay))
  BY TypesFacts, StampFacts DEF SameKeys, cancel, held_user_kc, Relay
<1>2. router.raw => router.active
  BY DEF EditQueue, Plain
<1>3. CASE FillFrame
  <2>1. FillDigest
    BY <1>3, FillFacts
  <2>2. CASE Arrives("activate") /\ ~IsV2
    BY <1>3, <2>2, ActivationEdits
  <2>3. CASE ~(Arrives("activate") /\ ~IsV2)
    <3>1. PICK type \in {"activate", "surrounding_text", "content_type", "cause"} : Arrives(type)
      BY <1>3 DEF FillFrame
    <3>2. ~(Head(socket).type = "activate" /\ ~IsV2)
      BY <2>1, <2>3 DEF FillDigest, Arrives
    <3>3. /\ frame'.ctx = frame.ctx /\ desk' = [desk EXCEPT !.grabbed = @]
          /\ Leaves(Tail(socket)) /\ UNCHANGED <<profile, relay, router, app, running>>
      BY <2>1, <3>2, TypesFacts DEF FillDigest, Desk
    <3>4. Unturned
      BY <3>3, TypesFacts DEF Unturned, Desk
    <3>5. type \notin {"mods", "key"} /\ SameKeys(relay, relay')
      BY <1>1, <3>1, <3>3
    <3> QED BY <1>2, <3>1, <3>3, <3>4, <3>5, EventEdits
  <2> QED BY <2>2, <2>3
<1>4. CASE DeactivateV2
  <2>1. Arrives("deactivate") /\ relay' = cancel(relay) /\ socket' = Tail(socket)
        /\ UNCHANGED <<outside, router, app>> /\ frame'.ctx = frame.ctx
    BY <1>4, DeactivateFacts DEF DeactivateV2
  <2>2. Unturned /\ SameKeys(relay, relay')
    BY <1>1, <2>1 DEF outside, Unturned
  <2> QED BY <1>2, <2>1, <2>2, EventEdits DEF outside
<1>5. CASE DeactivateV1
  <2>1. Arrives("deactivate") /\ relay' = cancel(relay) /\ socket' = Tail(socket)
        /\ UNCHANGED <<outside, app>> /\ frame'.ctx = 0
    BY <1>5, DeactivateFacts DEF DeactivateV1
  <2>2. Unturned /\ SameKeys(relay, relay')
    BY <1>1, <2>1 DEF outside, Unturned
  <2>3. PICK f : f \in Frame /\ router' = NoteText(OpenOrClose(f), f, FALSE)
    <3> DEFINE g == apply_event(frame, Head(socket))
               h == [g EXCEPT !.ctx = 0]
    <3>1. h \in Frame
      <4>1. g \in Frame
        BY <2>1, ArrivesFacts, ApplyEventFacts, TypesFacts
      <4> HIDE DEF g
      <4> QED BY <4>1 DEF Frame
    <3>2. router' = NoteText(OpenOrClose(h), h, FALSE)
      BY <1>5 DEF DeactivateV1
    <3> QED BY <3>1, <3>2
  <2>4. (router'.raw => router.raw /\ router'.active) /\ (router'.synthetic => router.synthetic)
    BY <2>3, FrameRaw DEF EditQueue
  <2> QED BY <2>1, <2>2, <2>4, EventEdits DEF outside
<1>6. CASE ResetV1
  <2>1. Arrives("reset") /\ socket' = Tail(socket) /\ frame'.ctx = frame.ctx
        /\ UNCHANGED <<outside, relay, router, app>>
    BY <1>6, ResetV1Facts
  <2>2. Unturned /\ SameKeys(relay, relay')
    BY <1>1, <2>1 DEF outside, Unturned
  <2> QED BY <1>2, <2>1, <2>2, EventEdits DEF outside
<1>7. CASE Unavailable
  <2>1. Arrives("unavailable") /\ socket' = Tail(socket) /\ running # "no"
        /\ UNCHANGED <<profile, desk, relay, frame, router, app>>
    BY <1>7 DEF Unavailable, adapter, Arrives
  <2>2. Unturned /\ SameKeys(relay, relay')
    BY <1>1, <2>1 DEF Unturned
  <2> QED BY <1>2, <2>1, <2>2, EventEdits
<1> DEFINE f == [frame EXCEPT !.commit = FALSE]
<1>8. f \in Frame /\ f.ctx = frame.ctx /\ frame \in Frame
  BY CommittedTyped, TypesFacts
<1> HIDE DEF f
<1>9. CASE Done
  <2>1. socket # <<>> /\ ~Is(1, "mods") /\ running # "no"
    BY <1>9, HeadPlace DEF Done, Is
  <2>2. apply_done_frame(frame, IF 1 = 1 THEN Tail(socket) ELSE socket) /\ UNCHANGED <<outside, focus>>
    BY <1>9 DEF Done
  <2> QED BY <1>8, <2>1, <2>2, DoneEdits
<1>10. CASE CommitState
  <2>1. socket # <<>> /\ ~Is(1, "mods") /\ running # "no" /\ Arrives("commit_state")
    BY <1>10, HeadPlace DEF CommitState, Is
  <2>2. \/ apply_done_frame(f, IF 1 = 1 THEN Tail(socket) ELSE socket)
        \/ socket' = Tail(socket) /\ UNCHANGED <<relay, frame, router, app>>
    BY <1>10 DEF CommitState, f
  <2>3. UNCHANGED <<outside, focus>>
    BY <1>10 DEF CommitState
  <2>4. CASE apply_done_frame(f, IF 1 = 1 THEN Tail(socket) ELSE socket)
    BY <1>8, <2>1, <2>3, <2>4, DoneEdits
  <2>5. CASE socket' = Tail(socket) /\ UNCHANGED <<relay, frame, router, app>>
    <3>1. Unturned /\ SameKeys(relay, relay')
      BY <1>1, <2>3, <2>5 DEF outside, Unturned
    <3> QED BY <1>2, <2>1, <2>3, <2>5, <3>1, EventEdits DEF outside
  <2> QED BY <2>2, <2>4, <2>5
<1>11. CASE EndOfDispatch
  <2>1. running # "no" /\ UNCHANGED <<outside, focus>>
        /\ apply_done_frame(f, IF 0 = 1 THEN Tail(socket) ELSE socket)
    BY <1>11 DEF EndOfDispatch, f
  <2> QED BY <1>8, <2>1, DoneEdits
<1> QED BY <1>3, <1>4, <1>5, <1>6, <1>7, <1>9, <1>10, <1>11 DEF Input

(* Events come behind those that wait, and nothing else happens.           *)
LEMMA AddedEdits ==
  ASSUME Types, Types', EditQueue, Adds(Still) \/ UNCHANGED socket,
         UNCHANGED <<profile, app, frame>>, Unturned, running' # "no" => running # "no",
         SameKeys(relay, relay'), router'.raw => router.raw /\ router'.active,
         router'.synthetic => router.synthetic \/ IsV2
  PROVE  EditQueue'
<1>1. Still \subseteq Events /\ socket' \in Seq(Events)
  BY TypesFacts DEF Still, Types
<1>2. Shifted(0, Still) /\ Shifted(0, Events)
  <2>1. CASE Adds(Still)
    <3>1. PICK new \in Seq(Still) : socket' = socket \o new
      BY <2>1 DEF Adds
    <3> QED BY <1>1, <3>1, AddedShift, ShiftMore
  <2>2. CASE UNCHANGED socket
    <3>1. Shifted(0, {})
      BY <2>2, LeavesShift
    <3> QED BY <3>1, ShiftMore
  <2> QED BY <2>1, <2>2
<1>3. ContextGrabbed' /\ GrabFirst'
  BY <1>1, <1>2, GrabStays DEF EditQueue
<1>4. Typed
  BY <1>1, <1>2, AsideTyping
<1> QED BY <1>3, <1>4 DEF Typed, EditQueue

(* A window event, a focus change, time, the tray, and what the compositor *)
(* sends besides keys and turns.                                           *)
LEMMA OthersEdits ==
  ASSUME Types, Types', Queue, EditQueue,
         \/ UNCHANGED vars \/ WindowFields \/ FocusChanges \/ EchoTimeout \/ Toggle
         \/ Compositor /\ ~EnableInput /\ ~DisableInput
  PROVE  EditQueue'
<1>1. SameKeys(relay, relay)
  BY DEF SameKeys
<1>2. (router.raw => router.active) /\ (~IsV2 => ~router.synthetic) /\ router \in Router
      /\ relay \in Relay
  BY TypesFacts DEF EditQueue, Plain
<1>3. CASE UNCHANGED vars
  <2>1. UNCHANGED <<profile, desk, socket, relay, frame, router, app, running>>
    BY <1>3 DEF vars
  <2> QED BY <1>1, <1>2, <2>1, AddedEdits DEF Unturned
<1>4. CASE WindowFields
  <2>1. WindowDigest
    BY <1>4, WindowFacts
  <2>2. PICK type : type = Head(socket).type
    OBVIOUS
  <2>3. Arrives(type) /\ type \notin {"mods", "key"}
    BY <2>1, <2>2 DEF WindowDigest, Arrives
  <2>4. Unturned /\ UNCHANGED <<profile, app, relay, router, frame, running>>
    BY <2>1 DEF WindowDigest, outside, Unturned
  <2> QED BY <1>1, <1>2, <2>1, <2>3, <2>4, EventEdits DEF WindowDigest
<1>5. CASE FocusChanges
  <2>1. /\ relay' = cancel(relay) /\ UNCHANGED <<outside, socket, frame, app>>
        /\ router' = on_focus_changed(Head(focus.sent))
    BY <1>5, FocusFacts DEF FocusChanges
  <2>2. SameKeys(relay, relay')
    BY <1>2, <2>1 DEF SameKeys, cancel, held_user_kc, Relay
  <2>3. /\ router'.raw => router.raw /\ router'.active
        /\ router'.synthetic => router.synthetic \/ IsV2
    <3>1. ~Closed(router).raw /\ Closed(router).synthetic = router.synthetic
          /\ Closed(router) \in Router
      BY <1>2 DEF Closed, Router
    <3>2. PICK id : router' = on_focus_changed(id)
      BY <2>1
    <3>3. \/ router' = [Closed(router) EXCEPT !.active = TRUE, !.synthetic = TRUE, !.app = id,
                                              !.functional = FALSE] /\ IsV2
          \/ router' = [Closed(router) EXCEPT !.synthetic = FALSE]
          \/ router' = router
      BY <3>2 DEF on_focus_changed
    <3> QED BY <1>2, <3>1, <3>3 DEF Router
  <2>4. Unturned /\ UNCHANGED <<profile, running>>
    BY <2>1 DEF outside, Unturned
  <2> QED BY <2>1, <2>2, <2>3, <2>4, AddedEdits
<1>6. CASE EchoTimeout
  <2>1. /\ relay' = [relay EXCEPT !.late = TRUE] /\ app' = [app EXCEPT !.stray = TRUE]
        /\ UNCHANGED <<profile, user, desk, socket, frame, router, focus, running>>
    BY <1>6 DEF EchoTimeout, Spend
  <2>2. /\ app'.mods = app.mods /\ Bare(app') = Bare(app) /\ Clean(app') = Clean(app)
        /\ SameKeys(relay, relay')
    BY <1>2, <2>1, TypesFacts, StampFacts DEF App, Bare, Clean, SameKeys, held_user_kc, Relay
  <2>3. IsV2' = IsV2 /\ KeysGrabbed' = KeysGrabbed /\ \A i, type : Is(i, type)' <=> Is(i, type)
    BY <2>1 DEF IsV2, KeysGrabbed, Is
  <2>4. Clean(app') /\ HeldBare' /\ Plain'
    BY <2>1, <2>2, <2>3 DEF EditQueue, HeldBare, Plain, SameKeys
  <2>5. ContextGrabbed' /\ GrabFirst'
    BY <2>1, <2>3 DEF EditQueue, ContextGrabbed, GrabFirst, Current
  <2>6. ModsFresh'
    BY <2>1, <2>2, <2>3 DEF EditQueue, ModsFresh, ModsWait, SameKeys
  <2> QED BY <2>4, <2>5, <2>6 DEF EditQueue
<1>7. CASE Toggle
  <2>1. /\ router' = [router EXCEPT !.on = ~router.on]
        /\ UNCHANGED <<profile, user, desk, socket, relay, frame, focus, app, running>>
    BY <1>7 DEF Toggle, Spend
  <2>2. router'.raw = router.raw /\ router'.active = router.active
        /\ router'.synthetic = router.synthetic
    BY <1>2, <2>1 DEF Router
  <2> QED BY <1>1, <1>2, <2>1, <2>2, AddedEdits DEF Unturned
<1>8. CASE ReportInput
  <2>1. ReportDigest
    BY <1>8, ReportFacts
  <2>2. PICK new \in Seq(Report) :
          /\ socket' = socket \o new
          /\ \A i \in DOMAIN new : new[i].type \notin {"activate", "deactivate", "key", "mods"}
    BY <2>1 DEF ReportDigest
  <2>3. \A i \in DOMAIN new : new[i] \in Still
    BY <2>2 DEF Report, Still
  <2>4. new \in Seq(Still)
    <3>1. PICK m \in Nat : m = Len(new)
      OBVIOUS
    <3>2. DOMAIN new = 1 .. m /\ new = [i \in 1 .. m |-> new[i]]
      BY <3>1
    <3> QED BY <2>3, <3>2
  <2>5. Adds(Still)
    BY <2>2, <2>4 DEF Adds
  <2> QED BY <1>1, <1>2, <2>1, <2>5, AddedEdits DEF ReportDigest, Unturned
<1>9. CASE Compositor /\ ~EnableInput /\ ~DisableInput /\ ~ReportInput
  <2>1. QuietDigest
    BY <1>9, QuietFacts DEF Compositor
  <2>2. Adds(Still)
    <3>1. PICK new \in Seq(Quiet) : socket' = socket \o new
      BY <2>1 DEF QuietDigest, Adds
    <3>2. Quiet \subseteq Still
      BY DEF Quiet, Still
    <3>3. new \in Seq(Still)
      BY <3>2
    <3> QED BY <3>1, <3>3 DEF Adds
  <2>3. Unturned
    BY <2>1 DEF QuietDigest, Unturned
  <2> QED BY <1>1, <1>2, <2>1, <2>2, <2>3, AddedEdits DEF QuietDigest
<1> QED BY <1>3, <1>4, <1>5, <1>6, <1>7, <1>8, <1>9

(* A key of the user waits for the grab, behind the modifiers that wait.   *)
LEMMA GrabbedKeyEdits ==
  ASSUME Types, Types', EditQueue, NEW key \in UserKeys, NEW value \in {0, 1},
         UserDigest(key, value), KeysGrabbed
  PROVE  EditQueue'
<1>1. /\ app' = app /\ UNCHANGED <<profile, desk, running, relay, frame, router, focus>>
      /\ \E new \in Seq(Events) : socket' = socket \o new
  BY DEF UserDigest
<1>2. Shifted(0, Events) /\ socket' \in Seq(Events)
  BY <1>1, AddedShift, TypesFacts DEF UserDigest
<1>3. Typed
  BY <1>1, <1>2, AsideTyping DEF Unturned, SameKeys, EditQueue, Plain
<1>4. ContextGrabbed' /\ GrabFirst'
  BY <1>1 DEF EditQueue, ContextGrabbed, GrabFirst, Current, IsV2, KeysGrabbed
<1> QED BY <1>3, <1>4 DEF Typed, EditQueue

(* The application takes a key itself, which covers it.                    *)
LEMMA DirectKeyEdits ==
  ASSUME Types, Types', EditQueue, NEW key \in UserKeys, NEW value \in {0, 1},
         UserKey(key, value), UserDigest(key, value), ~KeysGrabbed
  PROVE  EditQueue'
<1>1. /\ socket' = socket /\ UNCHANGED <<profile, desk, running, relay, frame, router, focus>>
  BY DEF UserDigest
<1>2. PICK mods : app' = TakeAll(app, <<UnstampedKey(key, value), Modifiers(mods)>>)
                  /\ mods = user' \cap ModKeys
  BY DEF UserKey
<1>3. mods \in Masks /\ key \in KeyCodes /\ app \in App
  BY <1>2, TypesFacts DEF Masks, KeyCodes
<1> DEFINE first == <<UnstampedKey(key, value)>>
           second == <<Modifiers(mods)>>
<1>4. PICK b : b = TakeAll(app, first) /\ Gentle(app, b)
  BY <1>3, ForwardGentle
<1>5. PICK c : c = TakeAll(b, second) /\ Gentle(b, c)
  <2>1. b \in App
    BY <1>4 DEF Gentle
  <2> QED BY <1>3, <2>1, GentleMask
<1>6. first \in Seq(Requests) /\ second \in Seq(Requests)
  <2>1. UnstampedKey(key, value) \in Requests /\ Modifiers(mods) \in Requests
    BY <1>3, RequestsTyped
  <2> QED BY <2>1
<1>7. <<UnstampedKey(key, value), Modifiers(mods)>> = first \o second
  OBVIOUS
<1> HIDE DEF first, second
<1>8. TakeAll(app, first \o second) = c
  BY <1>3, <1>4, <1>5, <1>6, TakeConcat
<1>9. Gentle(app, app')
  BY <1>2, <1>4, <1>5, <1>7, <1>8, GentleTwice
<1>10. IsV2' = IsV2 /\ KeysGrabbed' = KeysGrabbed /\ ~IsV2 /\ ~desk.grabbed
       /\ \A i, type : Is(i, type)' <=> Is(i, type)
  BY <1>1 DEF IsV2, KeysGrabbed, Is
<1>11. Clean(app') /\ HeldBare' /\ Plain' /\ ModsFresh'
  BY <1>1, <1>9, <1>10 DEF EditQueue, Gentle, Clean, HeldBare, Plain, ModsFresh
<1>12. ContextGrabbed' /\ GrabFirst'
  BY <1>1, <1>10 DEF EditQueue, ContextGrabbed, GrabFirst, Current
<1> QED BY <1>11, <1>12 DEF EditQueue

(* A text input is enabled.                                                *)
LEMMA EnableEdits ==
  ASSUME Types, Types', Queue, EditQueue, EnableInput PROVE EditQueue'
<1>1. /\ ~desk.active /\ desk'.active /\ desk'.epoch = desk.epoch + 1
      /\ desk'.grabbed = desk.grabbed
      /\ UNCHANGED <<profile, user, running, relay, frame, router, focus, app>>
  BY EnableFacts DEF EnableDigest
<1>2. PICK new \in Seq(Events), m \in {2, 3} :
        /\ socket' = socket \o new /\ Len(new) = m
        /\ new[1].type = "activate" /\ new[1].epoch = desk.epoch + 1
        /\ m = 3 => new[2].type = "surrounding_text" /\ new[2].epoch = desk.epoch + 1
        /\ new[m].type = End
  BY EnableFacts DEF EnableDigest
<1>3. Grows(new) /\ IsV2' = IsV2 /\ KeysGrabbed' = KeysGrabbed
  BY <1>1, <1>2 DEF Grows, IsV2, KeysGrabbed
<1>4. desk.epoch \in Nat /\ frame.ctx \in Nat /\ desk.epoch # desk.epoch + 1
  BY TypesFacts DEF Desk, Frame
<1>5. ~IsV2 => ~desk.grabbed
  BY <1>1 DEF Queue, GrabCurrent, Current
<1>6. HeldBare' /\ Plain' /\ Clean(app')
  BY <1>1, <1>3 DEF EditQueue, HeldBare, Plain
<1>7. ModsFresh'
  BY <1>1, <1>3, <1>5 DEF EditQueue, ModsFresh
<1>8. ContextGrabbed'
  <2>1. frame.ctx <= desk.epoch
    BY DEF Queue, EpochsGrow
  <2>2. frame.ctx # desk.epoch + 1
    BY <1>4, <2>1
  <2> QED BY <1>1, <2>2 DEF ContextGrabbed, Current
<1>9. GrabFirst'
  <2>1. SUFFICES ASSUME ~IsV2, NEW i \in DOMAIN socket', NEW j \in DOMAIN socket',
                        i < j, Is(i, "activate")', Current(socket[i].epoch)', Is(j, "key")'
                 PROVE  FALSE
    BY <1>3 DEF GrabFirst
  <2>2. CASE i \in DOMAIN socket
    <3>1. socket'[i] = socket[i] /\ Is(i, "activate")
      BY <1>3, <2>1, <2>2, GrowsPlaces DEF Is
    <3>2. socket[i].epoch <= desk.epoch
      BY <2>2, <3>1 DEF Queue, EpochsGrow
    <3>3. socket[i].epoch = desk.epoch + 1
      BY <1>1, <2>1, <3>1 DEF Current
    <3> QED BY <1>4, <3>2, <3>3
  <2>3. CASE i \notin DOMAIN socket
    <3>1. j \notin DOMAIN socket
      BY <1>3, <2>1, <2>3, GrowsPlaces
    <3>2. PICK n \in DOMAIN new : j = Len(socket) + n /\ socket'[j] = new[n]
      BY <1>3, <3>1, GrowsPlaces
    <3>3. n \in 1 .. m
      BY <1>2
    <3>4. new[n].type # "key"
      BY <1>2, <3>3 DEF End
    <3> QED BY <2>1, <3>2, <3>4 DEF Is
  <2> QED BY <2>2, <2>3
<1> QED BY <1>6, <1>7, <1>8, <1>9 DEF EditQueue

(* A text input is disabled: a v1 application then has no key down.        *)
LEMMA DisableEdits ==
  ASSUME Types, Types', EditQueue, DisableInput PROVE EditQueue'
<1>1. /\ ~desk'.active /\ ~desk'.grabbed
      /\ app' \in App /\ app'.faults = app.faults
      /\ UNCHANGED <<profile, user, running, relay, frame, router, focus>>
  BY DisableFacts DEF DisableDigest
<1>2. IsV2' = IsV2 /\ (IsV2 => KeysGrabbed')
  BY <1>1 DEF IsV2, KeysGrabbed
<1>3. app' = IF IsV2 THEN app ELSE [app EXCEPT !.down = {}, !.covered = {}, !.mods = UserMods]
  BY DEF DisableInput
<1>4. IsV2 => app' = app
  BY <1>3
<1>5. ~IsV2 => Bare(app') = {}
  BY <1>1, <1>3, TypesFacts DEF App, Bare
<1>6. HeldBare'
  BY <1>1, <1>2, <1>4, <1>5 DEF EditQueue, HeldBare, KeysGrabbed
<1>7. Plain' /\ Clean(app')
  BY <1>1, <1>2 DEF EditQueue, Plain, Clean
<1>8. ModsFresh'
  BY <1>1, <1>2, <1>4 DEF EditQueue, ModsFresh
<1>9. ContextGrabbed' /\ GrabFirst'
  BY <1>1 DEF ContextGrabbed, GrabFirst, Current
<1> QED BY <1>6, <1>7, <1>8, <1>9 DEF EditQueue

(* The connection is torn down: no key stays down.                         *)
LEMMA TeardownEdits ==
  ASSUME Types, EditQueue, Teardown PROVE EditQueue'
<1>1. /\ running' = "no" /\ socket' = <<>>
      /\ app' = [app EXCEPT !.down = {}, !.covered = {}]
      /\ UNCHANGED <<profile, user, desk, relay, frame, router, focus, budget>>
  BY DEF Teardown, adapter
<1>2. Bare(app') = {} /\ app'.mods = app.mods /\ app'.faults = app.faults
  BY <1>1, TypesFacts DEF App, Bare
<1>3. IsV2' = IsV2 /\ DOMAIN socket' = {}
  BY <1>1 DEF IsV2
<1>4. HeldBare' /\ Plain' /\ Clean(app') /\ ModsFresh'
  BY <1>1, <1>2, <1>3 DEF EditQueue, HeldBare, Plain, Clean, ModsFresh
<1>5. ContextGrabbed' /\ GrabFirst'
  BY <1>1, <1>3 DEF EditQueue, ContextGrabbed, GrabFirst, Current
<1> QED BY <1>4, <1>5 DEF EditQueue

(* A key goes down or up.                                                  *)
LEMMA UserEdits ==
  ASSUME Types, Types', EditQueue, Press \/ Release PROVE EditQueue'
<1>1. PICK key \in UserKeys, value \in {0, 1} : UserKey(key, value)
  BY TypesFacts DEF Press, Release
<1>2. UserDigest(key, value)
  BY <1>1, UserFacts
<1>3. CASE KeysGrabbed
  BY <1>2, <1>3, GrabbedKeyEdits
<1>4. CASE ~KeysGrabbed
  BY <1>1, <1>2, <1>4, DirectKeyEdits
<1> QED BY <1>3, <1>4

(* EditQueue is inductive, given the types and the other queues.           *)
LEMMA EditQueueStep ==
  ASSUME Types, Types', Queue, SessionQueue, EditQueue, [Next]_vars PROVE EditQueue'
<1>1. CASE Keyboard
  BY <1>1, KeyboardEdits
<1>2. CASE Input
  BY <1>2, InputEdits
<1>3. CASE RepeatFires
  BY <1>3, FiresEdits
<1>4. CASE Teardown
  BY <1>4, TeardownEdits
<1>5. CASE EnableInput
  BY <1>5, EnableEdits
<1>6. CASE DisableInput
  BY <1>6, DisableEdits
<1>7. CASE Press \/ Release
  BY <1>7, UserEdits
<1>8. CASE \/ UNCHANGED vars \/ WindowFields \/ FocusChanges \/ EchoTimeout \/ Toggle
           \/ Compositor /\ ~EnableInput /\ ~DisableInput
  BY <1>8, OthersEdits
<1> QED BY <1>1, <1>2, <1>3, <1>4, <1>5, <1>6, <1>7, <1>8 DEF Next, Loop

(* EditQueue holds initially: no key is down, no modifier and no context.  *)
LEMMA EditQueueInit == ASSUME Init PROVE EditQueue
<1>1. /\ socket = <<>> /\ ~desk.active /\ ~desk.grabbed /\ frame.ctx = 0
      /\ app.down = {} /\ app.mods = {} /\ app.faults = {}
      /\ relay.raw_mods = {} /\ relay.expected = <<>>
      /\ ~router.active /\ ~router.synthetic /\ ~router.raw
  BY DEF Init, NewRelay
<1>2. DOMAIN socket = {} /\ Bare(app) = {} /\ Clean(app)
  BY <1>1 DEF Bare, Clean
<1> QED BY <1>1, <1>2 DEF EditQueue, HeldBare, ContextGrabbed, GrabFirst, Plain, ModsFresh

(* The four parts together.                                                *)
LEMMA EditsInvariant == Spec => []EditQueue
<1>1. Init => EditQueue
  BY EditQueueInit
<1>2. Types /\ Types' /\ KeyQueue /\ SessionQueue /\ EditQueue /\ [Next]_vars => EditQueue'
  BY EditQueueStep DEF KeyQueue
<1> QED BY <1>1, <1>2, SessionsInvariant, PTL DEF Spec

(* The keys of an edit arrive as they are meant: the press that types a    *)
(* glyph is never dropped for a key that is down, nor read at another      *)
(* level than the dance selected, and no Backspace comes with a modifier,  *)
(* however keys, repairs, repeats, grabs and the turns of text inputs      *)
(* interleave (emit_char, AdapterSink::vk_key, take_held).                 *)
THEOREM AdapterEditKeysArrive == Spec => []EditKeysArrive
<1>1. EditQueue => EditKeysArrive
  BY DEF EditQueue, Clean, EditFaultKinds, EditKeysArrive
<1> QED BY <1>1, EditsInvariant, PTL

-----------------------------------------------------------------------------
(* Masks that wait and masks that are awaited.                             *)
(*                                                                         *)
(* M maps places of the socket to the masks that wait there, E is the      *)
(* queue of awaited masks.  f takes every awaited mask to the first place  *)
(* behind those before it where the mask waits, which is how               *)
(* handle_modifiers will find them; the masks at the other places will be  *)
(* taken for the user's.                                                   *)
Awaits(f, M, E) ==
  /\ f \in [DOMAIN E -> DOMAIN M]
  /\ \A k \in DOMAIN E : M[f[k]] = E[k]
  /\ \A j, k \in DOMAIN E : j < k => f[j] < f[k]
  /\ \A k \in DOMAIN E, p \in DOMAIN M :
       p < f[k] /\ M[p] = E[k] => \E j \in DOMAIN E : j < k /\ p <= f[j]

Free(f, M, E) == DOMAIN M \ {f[k] : k \in DOMAIN E}

(* The masks at the places F will lead from m to the user's mask U.        *)
Settles(F, M, m, U) ==
  /\ F = {} => m = U
  /\ F # {} => \E p \in F : M[p] = U
  /\ m = U => \A p \in F : (\A q \in F : q <= p) => M[p] = U

Settled(M, E, m, U) == \E f : Awaits(f, M, E) /\ Settles(Free(f, M, E), M, m, U)

(* A non-empty set of numbers has a least one.                             *)
LEMMA LeastPlace ==
  ASSUME NEW S, S \subseteq Nat, S # {} PROVE \E x \in S : \A y \in S : x <= y
<1> DEFINE R == OpToRel(<, Nat)
<1>1. IsWellFoundedOn(R, Nat)
  BY NatLessThanWellFounded
<1>2. S \in SUBSET Nat
  OBVIOUS
<1> HIDE DEF R
<1>3. PICK x \in S : \A y \in S : ~(<<y, x>> \in R)
  BY <1>1, <1>2, WFMin
<1>4. \A y \in S : ~(y < x) /\ y \in Nat /\ x \in Nat
  BY <1>3 DEF R, OpToRel
<1> QED BY <1>4

(* The places may be renumbered.                                           *)
LEMMA SettledMoves ==
  ASSUME NEW M, DOMAIN M \subseteq Nat, NEW N, DOMAIN N \subseteq Nat, NEW d \in Nat,
         \A p \in DOMAIN M : p - d \in DOMAIN N /\ N[p - d] = M[p],
         \A q \in DOMAIN N : q + d \in DOMAIN M,
         NEW E, NEW m, NEW U, Settled(M, E, m, U)
  PROVE  Settled(N, E, m, U)
<1>1. PICK f : Awaits(f, M, E) /\ Settles(Free(f, M, E), M, m, U)
  BY DEF Settled
<1> DEFINE g == [k \in DOMAIN E |-> f[k] - d]
           F == Free(f, M, E)
           G == Free(g, N, E)
<1>2. \A k \in DOMAIN E : f[k] \in DOMAIN M /\ f[k] \in Nat /\ g[k] = f[k] - d
  BY <1>1 DEF Awaits
<1>3. \A q \in DOMAIN N : q \in Nat /\ q + d \in Nat /\ (q + d) - d = q /\ N[q] = M[q + d]
  <2> TAKE q \in DOMAIN N
  <2>1. q \in Nat /\ q + d \in Nat /\ (q + d) - d = q /\ q + d \in DOMAIN M
    OBVIOUS
  <2> QED BY <2>1
<1>4. Awaits(g, N, E)
  <2>1. g \in [DOMAIN E -> DOMAIN N]
    BY <1>2
  <2>2. \A k \in DOMAIN E : N[g[k]] = E[k]
    BY <1>1, <1>2 DEF Awaits
  <2>3. \A j, k \in DOMAIN E : j < k => g[j] < g[k]
    BY <1>1, <1>2 DEF Awaits
  <2>4. ASSUME NEW k \in DOMAIN E, NEW q \in DOMAIN N, q < g[k], N[q] = E[k]
        PROVE  \E j \in DOMAIN E : j < k /\ q <= g[j]
    <3>1. q + d < f[k] /\ M[q + d] = E[k] /\ q + d \in DOMAIN M
      BY <1>2, <1>3, <2>4
    <3>2. PICK j \in DOMAIN E : j < k /\ q + d <= f[j]
      BY <1>1, <3>1 DEF Awaits
    <3> QED BY <1>2, <1>3, <3>2
  <2> QED BY <2>1, <2>2, <2>3, <2>4 DEF Awaits
<1>5. \A q \in DOMAIN N : q \in G <=> q + d \in F
  <2> TAKE q \in DOMAIN N
  <2>1. \A k \in DOMAIN E : q = g[k] <=> q + d = f[k]
    BY <1>2, <1>3
  <2> QED BY <2>1 DEF Free
<1>6. \A p \in F : p \in Nat /\ p - d \in G /\ N[p - d] = M[p]
  <2> TAKE p \in F
  <2>1. p \in DOMAIN M
    BY DEF Free
  <2>2. p \in Nat /\ p - d \in DOMAIN N /\ (p - d) + d = p /\ N[p - d] = M[p]
    BY <2>1
  <2> QED BY <1>5, <2>2
<1>7. \A q \in G : q \in DOMAIN N /\ q + d \in F
  BY <1>5 DEF Free
<1> HIDE DEF g, F, G
<1>8. Settles(G, N, m, U)
  <2>1. F = {} <=> G = {}
    BY <1>6, <1>7
  <2>2. ASSUME NEW p \in F, M[p] = U PROVE \E q \in G : N[q] = U
    BY <1>6, <2>2
  <2>3. ASSUME m = U, NEW q \in G, \A r \in G : r <= q PROVE N[q] = U
    <3>1. \A p \in F : p <= q + d
      BY <1>3, <1>6, <1>7, <2>3
    <3> QED BY <1>1, <1>3, <1>7, <2>3, <3>1 DEF Settles, F
  <2> QED BY <1>1, <2>1, <2>2, <2>3 DEF Settles, F
<1> QED BY <1>4, <1>8 DEF Settled, G

(* The first mask that waits is the one awaited.                           *)
LEMMA SettledEcho ==
  ASSUME NEW M, DOMAIN M \subseteq Nat, NEW S, NEW E \in Seq(S), NEW m, NEW U,
         Settled(M, E, m, U), NEW p \in DOMAIN M, \A q \in DOMAIN M : p <= q,
         E # <<>>, M[p] = Head(E),
         NEW N, DOMAIN N = DOMAIN M \ {p}, \A q \in DOMAIN N : N[q] = M[q]
  PROVE  Settled(N, Tail(E), m, U)
<1>1. PICK f : Awaits(f, M, E) /\ Settles(Free(f, M, E), M, m, U)
  BY DEF Settled
<1>2. PICK n \in Nat : n = Len(E)
  OBVIOUS
<1>3. n > 0 /\ DOMAIN E = 1 .. n /\ 1 \in DOMAIN E /\ Head(E) = E[1]
  BY <1>2
<1> DEFINE T == Tail(E)
<1>4. DOMAIN T = 1 .. (n - 1) /\ \A k \in 1 .. (n - 1) : T[k] = E[k + 1]
  BY <1>2, <1>3
<1> HIDE DEF T
<1>5. \A k \in DOMAIN E : f[k] \in DOMAIN M /\ f[k] \in Nat
  BY <1>1 DEF Awaits
<1>6. f[1] = p
  <2>1. ~(p < f[1])
    BY <1>1, <1>3 DEF Awaits
  <2> QED BY <1>3, <1>5, <2>1
<1> DEFINE g == [k \in DOMAIN T |-> f[k + 1]]
<1>7. \A k \in 1 .. (n - 1) : /\ k + 1 \in DOMAIN E /\ g[k] = f[k + 1] /\ f[k + 1] > p
                              /\ f[k + 1] \in DOMAIN N
  <2> TAKE k \in 1 .. (n - 1)
  <2>1. k + 1 \in DOMAIN E /\ 1 < k + 1
    BY <1>3
  <2>2. f[1] < f[k + 1]
    BY <1>1, <1>3, <2>1 DEF Awaits
  <2> QED BY <1>4, <1>5, <1>6, <2>1, <2>2
<1>8. Awaits(g, N, T)
  <2>1. \A k \in DOMAIN T : g[k] \in DOMAIN N
    BY <1>4, <1>5, <1>7
  <2>2. \A k \in DOMAIN T : N[g[k]] = T[k]
    BY <1>1, <1>4, <1>7, <2>1 DEF Awaits
  <2>3. \A j, k \in DOMAIN T : j < k => g[j] < g[k]
    <3> SUFFICES ASSUME NEW j \in 1 .. (n - 1), NEW k \in 1 .. (n - 1), j < k PROVE g[j] < g[k]
      BY <1>4
    <3>1. j + 1 \in DOMAIN E /\ k + 1 \in DOMAIN E
      BY <1>7
    <3>2. j + 1 < k + 1
      OBVIOUS
    <3>3. f[j + 1] < f[k + 1]
      BY <1>1, <3>1, <3>2 DEF Awaits
    <3> QED BY <1>7, <3>3
  <2>4. ASSUME NEW k \in DOMAIN T, NEW q \in DOMAIN N, q < g[k], N[q] = T[k]
        PROVE  \E j \in DOMAIN T : j < k /\ q <= g[j]
    <3>1. k \in 1 .. (n - 1) /\ q \in DOMAIN M /\ q # p /\ q < f[k + 1] /\ M[q] = E[k + 1]
      BY <1>4, <1>7, <2>4
    <3>2. PICK j \in DOMAIN E : j < k + 1 /\ q <= f[j]
      BY <1>1, <1>7, <3>1 DEF Awaits
    <3>3. j # 1
      BY <1>5, <1>6, <3>1, <3>2
    <3>4. j - 1 \in 1 .. (n - 1) /\ j - 1 < k /\ (j - 1) + 1 = j
      BY <1>3, <3>1, <3>2, <3>3
    <3> QED BY <1>4, <1>7, <3>2, <3>4
  <2> QED BY <2>1, <2>2, <2>3, <2>4 DEF Awaits
<1>9. Free(g, N, T) = Free(f, M, E)
  <2>1. ASSUME NEW q \in Free(g, N, T), NEW k \in DOMAIN E, q = f[k] PROVE FALSE
    <3>1. q # p
      BY <2>1 DEF Free
    <3>2. k - 1 \in 1 .. (n - 1) /\ (k - 1) + 1 = k
      BY <1>3, <1>6, <2>1, <3>1
    <3> QED BY <1>4, <1>7, <2>1, <3>2 DEF Free
  <2>2. ASSUME NEW q \in Free(f, M, E), NEW k \in DOMAIN T, q = g[k] PROVE FALSE
    BY <1>4, <1>7, <2>2 DEF Free
  <2>3. ASSUME NEW q \in Free(f, M, E) PROVE q \in DOMAIN N
    BY <1>3, <1>6, <2>3 DEF Free
  <2>4. ASSUME NEW q \in Free(g, N, T) PROVE q \in DOMAIN M
    BY <2>4 DEF Free
  <2> QED BY <2>1, <2>2, <2>3, <2>4 DEF Free
<1> HIDE DEF g
<1>10. \A q \in Free(f, M, E) : N[q] = M[q]
  BY <1>9 DEF Free
<1>11. Settles(Free(f, M, E), N, m, U)
  BY <1>1, <1>10 DEF Settles
<1> QED BY <1>8, <1>9, <1>11 DEF Settled, T

(* Masks that come behind are at free places.                              *)
Behind(M, N, Q) ==
  /\ DOMAIN M \subseteq Nat /\ Q \subseteq Nat
  /\ DOMAIN N = DOMAIN M \cup Q
  /\ \A p \in DOMAIN M : N[p] = M[p]
  /\ \A p \in DOMAIN M, q \in Q : p < q

(* Those awaited stay where they are, and the new ones are free.           *)
(* Masks that come behind all others are free.                             *)
LEMMA AwaitsMore ==
  ASSUME NEW M, NEW N, NEW Q, Behind(M, N, Q), NEW E, NEW f, Awaits(f, M, E)
  PROVE  Awaits(f, N, E) /\ Free(f, N, E) = Free(f, M, E) \cup Q
<1>1. \A k \in DOMAIN E : f[k] \in DOMAIN M /\ f[k] \in DOMAIN N /\ f[k] \in Nat /\ f[k] \notin Q
  BY DEF Awaits, Behind
<1>2. f \in [DOMAIN E -> DOMAIN N]
  BY <1>1 DEF Awaits
<1>3. \A k \in DOMAIN E : N[f[k]] = E[k]
  BY <1>1 DEF Awaits, Behind
<1>4. ASSUME NEW k \in DOMAIN E, NEW p \in DOMAIN N, p < f[k], N[p] = E[k]
      PROVE  \E j \in DOMAIN E : j < k /\ p <= f[j]
  <2>1. p \in DOMAIN M
    <3>1. ASSUME p \in Q PROVE FALSE
      <4>1. f[k] < p /\ p \in Nat
        BY <1>1, <3>1 DEF Behind
      <4> QED BY <1>1, <1>4, <4>1
    <3> QED BY <3>1 DEF Behind
  <2>2. M[p] = E[k]
    BY <1>4, <2>1 DEF Behind
  <2> QED BY <1>4, <2>1, <2>2 DEF Awaits
<1>5. \A j, k \in DOMAIN E : j < k => f[j] < f[k]
  BY DEF Awaits
<1>6. Awaits(f, N, E)
  BY <1>2, <1>3, <1>4, <1>5 DEF Awaits
<1>7. Free(f, N, E) = Free(f, M, E) \cup Q
  BY <1>1 DEF Free, Behind
<1> QED BY <1>6, <1>7

(* The user's next mask leads to itself.                                   *)
LEMMA SettledUser ==
  ASSUME NEW M, NEW N, NEW q, Behind(M, N, {q}), NEW E, NEW f, Awaits(f, M, E), NEW m
  PROVE  Settled(N, E, m, N[q])
<1>1. Awaits(f, N, E) /\ Free(f, N, E) = Free(f, M, E) \cup {q}
  BY AwaitsMore
<1>2. \A p \in Free(f, M, E) : p < q /\ p \in Nat /\ q \in Nat
  BY DEF Free, Behind
<1>3. Settles(Free(f, N, E), N, m, N[q])
  <2>1. ASSUME NEW p \in Free(f, N, E), \A r \in Free(f, N, E) : r <= p PROVE N[p] = N[q]
    BY <1>1, <1>2, <2>1
  <2> QED BY <1>1, <2>1 DEF Settles
<1> QED BY <1>1, <1>3 DEF Settled

(* A bounded set of numbers has a last one.                                *)
LEMMA LastPlace ==
  ASSUME NEW b \in Nat, NEW S, S \subseteq 0 .. b, S # {} PROVE \E x \in S : \A y \in S : y <= x
<1>1. Max(S) \in S /\ \A y \in S : Max(S) >= y
  BY MaxOfSubset
<1>2. \A y \in S : y <= Max(S)
  BY <1>1
<1> QED BY <1>1, <1>2

(* The first mask is taken for the user's, and is echoed if it changes     *)
(* anything.                                                               *)
LEMMA SettledTaken ==
  ASSUME NEW M, NEW b \in Nat, DOMAIN M \subseteq 0 .. b, NEW S, NEW E \in Seq(S), NEW m, NEW U,
         Settled(M, E, m, U), NEW p \in DOMAIN M, \A q \in DOMAIN M : p <= q,
         ~(E # <<>> /\ M[p] = Head(E)),
         NEW L, DOMAIN L = DOMAIN M \ {p}, \A q \in DOMAIN L : L[q] = M[q],
         NEW N, NEW last, Behind(L, N, IF M[p] = m THEN {} ELSE {last}),
         M[p] # m => N[last] = M[p]
  PROVE  Settled(N, E, M[p], U)
<1>1. PICK f : Awaits(f, M, E) /\ Settles(Free(f, M, E), M, m, U)
  BY DEF Settled
<1>2. \A k \in DOMAIN E : f[k] \in DOMAIN M /\ f[k] \in Nat
  BY <1>1 DEF Awaits
<1>3. \A k \in DOMAIN E : f[k] # p
  <2> SUFFICES ASSUME NEW k \in DOMAIN E, f[k] = p PROVE FALSE
    OBVIOUS
  <2>1. PICK n \in Nat : n = Len(E)
    OBVIOUS
  <2>2. DOMAIN E = 1 .. n /\ 1 \in 1 .. n /\ E # <<>> /\ Head(E) = E[1]
    BY <2>1
  <2>3. CASE k = 1
    BY <1>1, <2>2, <2>3 DEF Awaits
  <2>4. CASE k # 1
    <3>1. 1 < k
      BY <2>2, <2>4
    <3>2. f[1] < p /\ f[1] \in DOMAIN M
      BY <1>1, <1>2, <2>2, <3>1 DEF Awaits
    <3> QED BY <1>2, <2>2, <3>2
  <2> QED BY <2>3, <2>4
<1>4. Awaits(f, L, E)
  <2>1. f \in [DOMAIN E -> DOMAIN L]
    BY <1>1, <1>2, <1>3 DEF Awaits
  <2>2. \A k \in DOMAIN E : L[f[k]] = E[k]
    BY <1>1, <1>2, <1>3 DEF Awaits
  <2>3. \A j, k \in DOMAIN E : j < k => f[j] < f[k]
    BY <1>1 DEF Awaits
  <2>4. \A k \in DOMAIN E, q \in DOMAIN L :
          q < f[k] /\ L[q] = E[k] => \E j \in DOMAIN E : j < k /\ q <= f[j]
    BY <1>1 DEF Awaits
  <2> QED BY <2>1, <2>2, <2>3, <2>4 DEF Awaits
<1> DEFINE F == Free(f, M, E)
           G == Free(f, N, E)
           x == M[p]
           Q == IF x = m THEN {} ELSE {last}
<1>5. Free(f, L, E) = F \ {p}
  BY <1>3 DEF Free
<1>6. Awaits(f, N, E) /\ G = (F \ {p}) \cup Q
  <2> HIDE DEF Q
  <2> QED BY <1>4, <1>5, AwaitsMore DEF Q
<1>7. p \in F /\ (\A q \in F : p <= q /\ q \in DOMAIN M /\ q \in Nat /\ (q # p => N[q] = M[q]))
  BY <1>3 DEF Free, Behind
<1>8. Settles(F, M, m, U)
  BY <1>1
<1>9. CASE x = m
  <2>1. G = F \ {p}
    BY <1>6, <1>9
  <2> HIDE DEF F, G
  <2>2. ASSUME G = {} PROVE x = U
    BY <1>7, <1>8, <2>1, <2>2 DEF Settles
  <2>3. ASSUME x = U, NEW q \in G, \A r \in G : r <= q PROVE N[q] = U
    <3>1. q \in F /\ q # p /\ \A r \in F : r <= q
      BY <1>7, <2>1, <2>3
    <3> QED BY <1>7, <1>8, <1>9, <2>3, <3>1 DEF Settles
  <2>4. ASSUME G # {} PROVE \E q \in G : N[q] = U
    <3>1. CASE x # U
      <4>1. PICK q \in F : M[q] = U
        BY <1>7, <1>8 DEF Settles
      <4> QED BY <1>7, <2>1, <3>1, <4>1
    <3>2. CASE x = U
      <4>1. \A r \in G : r \in F /\ r # p /\ r \in Nat
        BY <1>7, <2>1
      <4>2. PICK q \in F : M[q] = U /\ q # p
        <5>1. F \subseteq 0 .. b /\ F # {}
          BY <1>7
        <5>2. PICK q \in F : \A r \in F : r <= q
          BY <5>1, LastPlace
        <5>3. q # p
          BY <1>7, <2>4, <4>1, <5>2
        <5> QED BY <1>8, <1>9, <3>2, <5>2, <5>3 DEF Settles
      <4> QED BY <1>7, <2>1, <4>2
    <3> QED BY <3>1, <3>2
  <2>5. Settles(G, N, x, U)
    BY <2>2, <2>3, <2>4 DEF Settles
  <2> QED BY <1>6, <2>5 DEF Settled, G
<1>10. CASE x # m
  <2>1. G = (F \ {p}) \cup {last} /\ last \in G /\ N[last] = x
    BY <1>6, <1>10
  <2>2. \A q \in F : q # p => q < last /\ last \in Nat
    BY <1>10 DEF Behind, Free
  <2> HIDE DEF F, G
  <2>3. ASSUME x = U, NEW q \in G, \A r \in G : r <= q PROVE N[q] = U
    <3>1. last <= q
      BY <2>1, <2>3
    <3>2. q = last
      BY <1>7, <2>1, <2>2, <3>1
    <3> QED BY <2>1, <2>3, <3>2
  <2>4. \E q \in G : N[q] = U
    <3>1. PICK q \in F : M[q] = U
      BY <1>7, <1>8 DEF Settles
    <3>2. CASE q = p
      BY <2>1, <3>1, <3>2
    <3>3. CASE q # p
      BY <1>7, <2>1, <3>1, <3>3
    <3> QED BY <3>2, <3>3
  <2>5. Settles(G, N, x, U)
    BY <2>1, <2>3, <2>4 DEF Settles
  <2> QED BY <1>6, <2>5 DEF Settled, G
<1> QED BY <1>9, <1>10

(* One more mask is awaited, at the first place behind the others.         *)
AwaitsAt(x, mask, g, f, M, E) ==
  /\ Awaits(g, M, Append(E, mask)) /\ x \in Free(f, M, E) /\ M[x] = mask
  /\ Free(g, M, Append(E, mask)) = Free(f, M, E) \ {x}
  /\ \A k \in DOMAIN Append(E, mask) : g[k] <= x
  /\ \A k \in DOMAIN E : f[k] < x
  /\ \A y \in DOMAIN M : M[y] = mask /\ (\A k \in DOMAIN E : f[k] < y) => x <= y

(* There is such a place, no later than any that holds the mask.           *)
LEMMA AwaitsNext ==
  ASSUME NEW M, DOMAIN M \subseteq Nat, NEW S, NEW E \in Seq(S), NEW mask \in S, NEW f, Awaits(f, M, E),
         NEW p \in DOMAIN M, M[p] = mask, \A k \in DOMAIN E : f[k] < p
  PROVE  \E g, x : x <= p /\ AwaitsAt(x, mask, g, f, M, E)
<1> DEFINE A == Append(E, mask)
           Places == {y \in DOMAIN M : M[y] = mask /\ \A k \in DOMAIN E : f[k] < y}
<1>1. PICK n \in Nat : n = Len(E)
  OBVIOUS
<1>2. /\ DOMAIN E = 1 .. n /\ DOMAIN A = 1 .. (n + 1) /\ A[n + 1] = mask
      /\ \A k \in 1 .. n : A[k] = E[k]
  BY <1>1
<1> HIDE DEF A
<1>3. p \in Places /\ Places \subseteq Nat /\ Places \subseteq DOMAIN M
  OBVIOUS
<1>4. PICK x \in Places : \A y \in Places : x <= y
  <2> HIDE DEF Places
  <2> QED BY <1>3, LeastPlace
<1>5. \A k \in 1 .. n : f[k] \in DOMAIN M /\ f[k] \in Nat /\ f[k] < x
  BY <1>2, <1>4 DEF Awaits
<1>6. x \in DOMAIN M /\ x \in Nat /\ M[x] = mask /\ x <= p
  BY <1>3, <1>4
<1>7. \A y \in DOMAIN M : M[y] = mask /\ (\A k \in DOMAIN E : f[k] < y) => x <= y
  BY <1>4
<1> DEFINE g == [k \in 1 .. (n + 1) |-> IF k = n + 1 THEN x ELSE f[k]]
<1>8. /\ n + 1 \in 1 .. (n + 1) /\ g[n + 1] = x
      /\ \A k \in 1 .. n : k \in 1 .. (n + 1) /\ g[k] = f[k] /\ k < n + 1
      /\ \A k \in 1 .. (n + 1) : k = n + 1 \/ k \in 1 .. n
  OBVIOUS
<1>9. g \in [1 .. (n + 1) -> DOMAIN M]
  BY <1>5, <1>6
<1> HIDE DEF g, Places
<1>10. Awaits(g, M, A)
  <2>1. \A k \in DOMAIN A : M[g[k]] = A[k]
    BY <1>2, <1>6, <1>8 DEF Awaits
  <2>2. ASSUME NEW j \in DOMAIN A, NEW k \in DOMAIN A, j < k PROVE g[j] < g[k]
    <3>1. j \in 1 .. n
      BY <1>2, <1>8, <2>2
    <3>2. CASE k = n + 1
      BY <1>5, <1>8, <3>1, <3>2
    <3>3. CASE k \in 1 .. n
      BY <1>2, <1>8, <2>2, <3>1, <3>3 DEF Awaits
    <3> QED BY <1>2, <1>8, <3>2, <3>3
  <2>3. ASSUME NEW k \in DOMAIN A, NEW q \in DOMAIN M, q < g[k], M[q] = A[k]
        PROVE  \E j \in DOMAIN A : j < k /\ q <= g[j]
    <3>1. CASE k \in 1 .. n
      <4>1. q < f[k] /\ M[q] = E[k] /\ k \in DOMAIN E
        BY <1>2, <1>8, <2>3, <3>1
      <4>2. PICK j \in DOMAIN E : j < k /\ q <= f[j]
        BY <4>1 DEF Awaits
      <4> QED BY <1>2, <1>8, <4>2
    <3>2. CASE k = n + 1
      <4>1. q < x /\ M[q] = mask /\ q \in Nat
        BY <1>2, <1>8, <2>3, <3>2
      <4>2. PICK j \in DOMAIN E : ~(f[j] < q)
        BY <1>6, <1>7, <4>1
      <4>3. q <= f[j]
        BY <1>2, <1>5, <4>1, <4>2
      <4> QED BY <1>2, <1>8, <3>2, <4>2, <4>3
    <3> QED BY <1>2, <1>8, <3>1, <3>2
  <2> QED BY <1>2, <1>9, <2>1, <2>2, <2>3 DEF Awaits
<1>11. x \in Free(f, M, E)
  BY <1>2, <1>5, <1>6 DEF Free
<1>12. Free(g, M, A) = Free(f, M, E) \ {x}
  BY <1>2, <1>8 DEF Free
<1>13. \A k \in DOMAIN A : g[k] <= x
  BY <1>2, <1>5, <1>6, <1>8
<1>14. \A k \in DOMAIN E : f[k] < x
  BY <1>2, <1>5
<1>15. AwaitsAt(x, mask, g, f, M, E)
  BY <1>6, <1>7, <1>10, <1>11, <1>12, <1>13, <1>14 DEF A, AwaitsAt
<1> QED BY <1>6, <1>15

(* A dance: both its masks change something, so both are echoed; an echo   *)
(* may be free where the dance will find an earlier mask of the same kind. *)
LEMMA SettledDance ==
  ASSUME NEW M, NEW b \in Nat, DOMAIN M \subseteq 0 .. b, NEW S, NEW E \in Seq(S),
         NEW m \in S, NEW U, Settled(M, E, m, U), NEW mask \in S, mask # m,
         NEW N, NEW q, NEW r, Behind(M, N, {q, r}), q < r, N[q] = mask, N[r] = m
  PROVE  Settled(N, Append(Append(E, mask), m), m, U)
<1>1. PICK f : Awaits(f, M, E) /\ Settles(Free(f, M, E), M, m, U)
  BY DEF Settled
<1> DEFINE F == Free(f, M, E)
           A == Append(E, mask)
<1>2. Awaits(f, N, E) /\ Free(f, N, E) = F \cup {q, r}
  <2> DEFINE Q == {q, r}
  <2>1. Behind(M, N, Q)
    OBVIOUS
  <2> HIDE DEF Q
  <2>2. Awaits(f, N, E) /\ Free(f, N, E) = F \cup Q
    BY <1>1, <2>1, AwaitsMore
  <2> QED BY <2>2 DEF Q
<1>3. /\ q \in Nat /\ r \in Nat /\ q \in DOMAIN N /\ r \in DOMAIN N /\ DOMAIN N \subseteq Nat
      /\ \A p \in DOMAIN N : p \in DOMAIN M \/ p = q \/ p = r
      /\ \A p \in DOMAIN M : p < q /\ p < r /\ N[p] = M[p] /\ p \in Nat /\ p # q /\ p # r
  BY DEF Behind
<1>4. \A k \in DOMAIN E : f[k] < q /\ f[k] \in DOMAIN M
  BY <1>1, <1>3 DEF Awaits
<1>5. PICK g, x : x <= q /\ AwaitsAt(x, mask, g, f, N, E)
  <2>1. \E g, x : x <= q /\ AwaitsAt(x, mask, g, f, N, E)
    BY <1>2, <1>3, <1>4, AwaitsNext
  <2> QED BY <2>1
<1>6. /\ Awaits(g, N, A) /\ x \in Free(f, N, E) /\ x <= q /\ N[x] = mask
      /\ Free(g, N, A) = Free(f, N, E) \ {x}
      /\ \A k \in DOMAIN A : g[k] <= x
  BY <1>5 DEF AwaitsAt
<1>7. A \in Seq(S)
  OBVIOUS
<1>8. x \in Nat /\ x \in DOMAIN N /\ \A k \in DOMAIN A : g[k] \in Nat
  BY <1>3, <1>6 DEF Free, Awaits
<1>9. \A k \in DOMAIN A : g[k] < r
  BY <1>3, <1>6, <1>8
<1> HIDE DEF A, F
<1>10. PICK h, y : y <= r /\ AwaitsAt(y, m, h, g, N, A)
  <2>1. \E h, y : y <= r /\ AwaitsAt(y, m, h, g, N, A)
    BY <1>3, <1>6, <1>7, <1>9, AwaitsNext
  <2> QED BY <2>1
<1>11. /\ Awaits(h, N, Append(A, m)) /\ y \in Free(g, N, A) /\ y <= r /\ N[y] = m
       /\ Free(h, N, Append(A, m)) = Free(g, N, A) \ {y}
       /\ \A k \in DOMAIN A : g[k] < y
       /\ \A z \in DOMAIN N : N[z] = m /\ (\A k \in DOMAIN A : g[k] < z) => y <= z
  BY <1>10 DEF AwaitsAt
<1> DEFINE H == Free(h, N, Append(A, m))
<1>12. H = (F \cup {q, r}) \ {x, y} /\ y \in F \cup {q, r} /\ x \in F \cup {q, r} /\ y # q /\ x # r
  BY <1>2, <1>3, <1>6, <1>11
<1> HIDE DEF H
<1>13. F \subseteq DOMAIN M
  BY DEF Free, F
<1>14. CASE x = q
  <2>1. y = r
    <3>1. PICK k \in DOMAIN A : g[k] = x
      <4>1. x \notin Free(g, N, A)
        BY <1>6
      <4> QED BY <1>8, <4>1 DEF Free
    <3>2. q < y
      BY <1>11, <1>14, <3>1
    <3> QED BY <1>3, <1>12, <1>13, <3>2
  <2>2. H = F
    BY <1>3, <1>12, <1>13, <1>14, <2>1
  <2>3. Settles(H, N, m, U)
    BY <1>1, <1>3, <1>13, <2>2 DEF Settles, F
  <2> QED BY <1>11, <2>3 DEF Settled, H, A
<1>15. CASE x # q
  <2>1. x \in F /\ q \in H /\ M[x] = mask
    BY <1>3, <1>12, <1>13, <1>15, <1>6
  <2>2. CASE m = U
    <3>1. F # {} /\ F \subseteq 0 .. b
      BY <1>13, <2>1
    <3>2. PICK l \in F : \A p \in F : p <= l
      BY <3>1, LastPlace
    <3>3. M[l] = U
      BY <1>1, <2>2, <3>2 DEF Settles, F
    <3>4. x < l /\ l \in DOMAIN N
      <4>1. x # l
        BY <2>1, <2>2, <3>3
      <4>2. x <= l /\ l \in DOMAIN M /\ x \in DOMAIN M
        BY <1>13, <2>1, <3>2
      <4> QED BY <1>3, <1>8, <4>1, <4>2 DEF Behind
    <3>5. \A k \in DOMAIN A : g[k] < l
      BY <1>3, <1>6, <1>8, <1>13, <3>4
    <3>6. y <= l
      BY <1>3, <1>11, <1>13, <2>2, <3>3, <3>4, <3>5
    <3>7. r \in H
      <4>1. y # r
        BY <1>3, <1>13, <3>2, <3>6
      <4> QED BY <1>12, <4>1
    <3>8. \A p \in H : p <= r /\ p \in Nat
      BY <1>3, <1>12, <1>13
    <3>9. Settles(H, N, m, U)
      <4>1. ASSUME NEW p \in H, \A z \in H : z <= p PROVE N[p] = U
        <5>1. p = r
          BY <1>3, <3>7, <3>8, <4>1
        <5> QED BY <2>2, <5>1
      <4> QED BY <2>2, <3>7, <4>1 DEF Settles
    <3> QED BY <1>11, <3>9 DEF Settled, H, A
  <2>3. CASE m # U
    <3>1. PICK p \in F : M[p] = U
      BY <1>1, <2>3 DEF Settles, F
    <3>2. CASE p = x
      <4>1. N[q] = U
        BY <2>1, <3>1, <3>2
      <4>2. Settles(H, N, m, U)
        BY <2>1, <2>3, <4>1 DEF Settles
      <4> QED BY <1>11, <4>2 DEF Settled, H, A
    <3>3. CASE p # x
      <4>1. p \in H /\ N[p] = U
        BY <1>3, <1>11, <1>12, <1>13, <2>3, <3>1, <3>3
      <4>2. Settles(H, N, m, U)
        BY <2>3, <4>1 DEF Settles
      <4> QED BY <1>11, <4>2 DEF Settled, H, A
    <3> QED BY <3>2, <3>3
  <2> QED BY <2>2, <2>3
<1> QED BY <1>14, <1>15

(* A guard is not awaited, and leads back to the mask there was.           *)
LEMMA SettledGuard ==
  ASSUME NEW M, NEW E, NEW m, NEW U, Settled(M, E, m, U),
         NEW N, NEW q, NEW r, Behind(M, N, {q, r}), q < r, N[r] = m
  PROVE  Settled(N, E, m, U)
<1>1. PICK f : Awaits(f, M, E) /\ Settles(Free(f, M, E), M, m, U)
  BY DEF Settled
<1> DEFINE F == Free(f, M, E)
           H == Free(f, N, E)
           Q == {q, r}
<1>2. Awaits(f, N, E) /\ H = F \cup Q
  <2>1. Behind(M, N, Q)
    OBVIOUS
  <2> HIDE DEF Q
  <2> QED BY <1>1, <2>1, AwaitsMore
<1>3. q \in Nat /\ r \in Nat /\ \A p \in F : p < r /\ p \in Nat /\ N[p] = M[p]
  BY DEF Behind, Free
<1>4. r \in H /\ \A p \in H : p \in F \/ p = q \/ p = r
  BY <1>2
<1>5. Settles(F, M, m, U) /\ F \subseteq H
  BY <1>1, <1>2
<1> HIDE DEF F, H
<1>6. Settles(H, N, m, U)
  <2>1. ASSUME m = U, NEW p \in H, \A z \in H : z <= p PROVE N[p] = U
    <3>1. r <= p
      BY <1>4, <2>1
    <3>2. p = r
      BY <1>3, <1>4, <3>1
    <3> QED BY <2>1, <3>2
  <2>2. \E p \in H : N[p] = U
    <3>1. CASE m = U
      BY <1>4, <3>1
    <3>2. CASE m # U
      <4>1. PICK p \in F : M[p] = U
        BY <1>5, <3>2 DEF Settles
      <4> QED BY <1>3, <1>5, <4>1
    <3> QED BY <3>1, <3>2
  <2> QED BY <1>4, <2>1, <2>2 DEF Settles
<1> QED BY <1>2, <1>6 DEF Settled, H

-----------------------------------------------------------------------------
(* The echoes of an edit.                                                  *)

(* Requests leave the mask that is echoed last, and masks as events.       *)
LEMMA EchoAllTyped ==
  ASSUME NEW a \in Accs, NEW s \in Seq(Requests) PROVE EchoAll(a, s) \in Accs
<1>1. PICK m \in Nat : m = Len(s)
  OBVIOUS
<1>2. \E f : /\ f[0] = a /\ f[m] = EchoAll(a, s)
             /\ \A n \in 0 .. m : f[n] \in Accs
             /\ \A n \in 1 .. m : f[n] = EchoStep(f[n - 1], s[n])
  BY <1>1, EchoTrace
<1>3. m \in 0 .. m
  OBVIOUS
<1> QED BY <1>2, <1>3

(* The echo of one request, and those of two batches of requests.          *)
LEMMA EchoOne ==
  ASSUME NEW a \in Accs, NEW r \in Requests PROVE EchoAll(a, <<r>>) = EchoStep(a, r)
<1>1. PICK s : s \in Seq(Requests) /\ s = <<r>> /\ Len(s) = 1 /\ s[1] = r
  <2> DEFINE s == <<r>>
  <2>1. s \in Seq(Requests) /\ Len(s) = 1 /\ s[1] = r
    OBVIOUS
  <2> QED BY <2>1
<1>2. PICK f : f[0] = a /\ f[1] = EchoAll(a, s) /\ \A n \in 1 .. 1 : f[n] = EchoStep(f[n - 1], s[n])
  <2>1. 1 \in Nat
    OBVIOUS
  <2>2. \E f : /\ f[0] = a /\ f[1] = EchoAll(a, s)
               /\ \A n \in 0 .. 1 : f[n] \in Accs
               /\ \A n \in 1 .. 1 : f[n] = EchoStep(f[n - 1], s[n])
    BY <1>1, <2>1, EchoTrace
  <2> QED BY <2>2
<1>3. f[1] = EchoStep(f[0], s[1])
  <2>1. 1 \in 1 .. 1 /\ 1 - 1 = 0
    OBVIOUS
  <2> QED BY <1>2, <2>1
<1> QED BY <1>1, <1>2, <1>3

(* The second batch is echoed behind the first.                            *)
LEMMA EchoConcat ==
  ASSUME NEW a \in Accs, NEW s \in Seq(Requests), NEW t \in Seq(Requests)
  PROVE  /\ EchoAll(a, s \o t) = EchoAll(EchoAll(a, s), t)
         /\ EchoAll(a, s) \in Accs
<1> DEFINE b == EchoAll(a, s)
           st == s \o t
<1>1. b \in Accs
  BY EchoAllTyped
<1>2. PICK m \in Nat : m = Len(s)
  OBVIOUS
<1>3. PICK n \in Nat : n = Len(t)
  OBVIOUS
<1>4. st \in Seq(Requests) /\ Len(st) = m + n /\ m + n \in Nat
  BY <1>2, <1>3
<1>5. /\ \A i \in 1 .. m : st[i] = s[i]
      /\ \A i \in 1 .. n : st[m + i] = t[i]
  BY <1>2, <1>3
<1> HIDE DEF b, st
<1>6. PICK f : f[0] = a /\ f[m] = b /\ \A i \in 1 .. m : f[i] = EchoStep(f[i - 1], s[i])
  <2>1. \E f : /\ f[0] = a /\ f[m] = EchoAll(a, s)
               /\ \A i \in 0 .. m : f[i] \in Accs
               /\ \A i \in 1 .. m : f[i] = EchoStep(f[i - 1], s[i])
    BY <1>2, EchoTrace
  <2> QED BY <2>1 DEF b
<1>7. PICK g : g[0] = b /\ g[n] = EchoAll(b, t) /\ \A i \in 1 .. n : g[i] = EchoStep(g[i - 1], t[i])
  <2>1. \E g : /\ g[0] = b /\ g[n] = EchoAll(b, t)
               /\ \A i \in 0 .. n : g[i] \in Accs
               /\ \A i \in 1 .. n : g[i] = EchoStep(g[i - 1], t[i])
    BY <1>1, <1>3, EchoTrace
  <2> QED BY <2>1
<1>8. PICK h : /\ h[0] = a /\ h[m + n] = EchoAll(a, st)
               /\ \A i \in 1 .. (m + n) : h[i] = EchoStep(h[i - 1], st[i])
  <2>1. \E h : /\ h[0] = a /\ h[m + n] = EchoAll(a, st)
               /\ \A i \in 0 .. (m + n) : h[i] \in Accs
               /\ \A i \in 1 .. (m + n) : h[i] = EchoStep(h[i - 1], st[i])
    BY <1>4, EchoTrace
  <2> QED BY <2>1
<1>9. h[m] = f[m]
  <2> DEFINE T == {i \in 0 .. m : h[i] = f[i]}
  <2>1. 0 \in T
    BY <1>6, <1>8
  <2>2. ASSUME NEW i \in 1 .. m, i - 1 \in T PROVE i \in T
    <3>1. i \in 1 .. (m + n) /\ i \in 0 .. m
      OBVIOUS
    <3>2. h[i] = EchoStep(h[i - 1], st[i]) /\ f[i] = EchoStep(f[i - 1], s[i])
      BY <1>6, <1>8, <3>1
    <3> QED BY <1>5, <2>2, <3>1, <3>2
  <2> HIDE DEF T
  <2>3. 0 .. m \subseteq T
    BY <2>1, <2>2, IntervalInduction
  <2> QED BY <2>3 DEF T
<1>10. h[m + n] = g[n]
  <2> DEFINE T == {i \in 0 .. n : h[m + i] = g[i]}
  <2>1. 0 \in T
    BY <1>6, <1>7, <1>9
  <2>2. ASSUME NEW i \in 1 .. n, i - 1 \in T PROVE i \in T
    <3>1. m + i \in 1 .. (m + n) /\ i \in 0 .. n /\ (m + i) - 1 = m + (i - 1)
      OBVIOUS
    <3>2. h[m + i] = EchoStep(h[m + (i - 1)], st[m + i]) /\ g[i] = EchoStep(g[i - 1], t[i])
      BY <1>7, <1>8, <3>1
    <3> QED BY <1>5, <2>2, <3>1, <3>2
  <2> HIDE DEF T
  <2>3. 0 .. n \subseteq T
    BY <2>1, <2>2, IntervalInduction
  <2> QED BY <2>3 DEF T
<1> QED BY <1>1, <1>7, <1>8, <1>10 DEF b, st

(* Requests that set no modifiers are not echoed.                          *)
LEMMA EchoSilent ==
  ASSUME NEW a \in Accs, NEW s \in Seq(Requests), \A i \in DOMAIN s : s[i].op # "mods"
  PROVE  EchoAll(a, s) = a
<1>1. PICK m \in Nat : m = Len(s)
  OBVIOUS
<1>2. PICK f : /\ f[0] = a /\ f[m] = EchoAll(a, s)
               /\ \A n \in 1 .. m : f[n] = EchoStep(f[n - 1], s[n])
  <2>1. \E f : /\ f[0] = a /\ f[m] = EchoAll(a, s)
               /\ \A n \in 0 .. m : f[n] \in Accs
               /\ \A n \in 1 .. m : f[n] = EchoStep(f[n - 1], s[n])
    BY <1>1, EchoTrace
  <2> QED BY <2>1
<1> DEFINE T == {n \in 0 .. m : f[n] = a}
<1>3. 0 \in T
  BY <1>2
<1>4. ASSUME NEW n \in 1 .. m, n - 1 \in T PROVE n \in T
  <2>1. s[n].op # "mods" /\ n \in 0 .. m
    BY <1>1
  <2>2. f[n] = f[n - 1]
    BY <1>2, <2>1 DEF EchoStep
  <2> QED BY <1>4, <2>1, <2>2
<1> HIDE DEF T
<1>5. 0 .. m \subseteq T
  BY <1>3, <1>4, IntervalInduction
<1>6. m \in 0 .. m
  OBVIOUS
<1> QED BY <1>2, <1>5, <1>6 DEF T

(* A mask that changes something is echoed.                                *)
LEMMA EchoMask ==
  ASSUME NEW a \in Accs, NEW mask \in Masks
  PROVE  EchoAll(a, <<Modifiers(mask)>>) =
           IF mask = a.mods THEN a
           ELSE [mods |-> mask, events |-> Append(a.events, ModsEvent(mask, "echo"))]
<1>1. PICK r \in Requests : r = Modifiers(mask) /\ r.op = "mods" /\ r.mask = mask
  <2>1. Modifiers(mask) \in Requests
    BY RequestsTyped
  <2> QED BY <2>1 DEF Modifiers
<1>2. EchoAll(a, <<r>>) = EchoStep(a, r)
  BY EchoOne
<1> QED BY <1>1, <1>2 DEF EchoStep

(* How requests and events are put together.                               *)
LEMMA PairFacts ==
  /\ \A s, t \in Seq(Requests) : s \o t \in Seq(Requests)
  /\ \A x, y \in ModsEvents : Append(<<x>>, y) = <<x, y>>
<1>1. \A s, t \in Seq(Requests) : s \o t \in Seq(Requests)
  OBVIOUS
<1>2. \A s \in Seq(ModsEvents), e \in ModsEvents :
          /\ Append(s, e) \in Seq(ModsEvents) /\ Len(Append(s, e)) = Len(s) + 1
          /\ Append(s, e)[Len(s) + 1] = e
          /\ \A i \in 1 .. Len(s) : Append(s, e)[i] = s[i]
  OBVIOUS
<1>3. ASSUME NEW x \in ModsEvents, NEW y \in ModsEvents PROVE Append(<<x>>, y) = <<x, y>>
  <2>1. PICK one \in Seq(ModsEvents) : one = <<x>> /\ Len(one) = 1 /\ one[1] = x
    <3>1. <<x>> \in Seq(ModsEvents) /\ Len(<<x>>) = 1 /\ <<x>>[1] = x
      OBVIOUS
    <3> QED BY <3>1
  <2>2. PICK two \in Seq(ModsEvents) : two = <<x, y>> /\ Len(two) = 2 /\ two[1] = x /\ two[2] = y
    <3>1. <<x, y>> \in Seq(ModsEvents) /\ Len(<<x, y>>) = 2 /\ <<x, y>>[1] = x /\ <<x, y>>[2] = y
      OBVIOUS
    <3> QED BY <3>1
  <2>3. PICK more \in Seq(ModsEvents) : /\ more = Append(one, y) /\ Len(more) = Len(one) + 1
                                        /\ more[Len(one) + 1] = y
                                        /\ \A i \in 1 .. Len(one) : more[i] = one[i]
    BY <1>2
  <2>4. Len(more) = 2 /\ more[1] = x /\ more[2] = y
    BY <2>1, <2>3
  <2>5. more = two
    BY <2>2, <2>4
  <2> QED BY <2>1, <2>2, <2>3, <2>5
<1> QED BY <1>1, <1>3

(* Two masks more are awaited.                                             *)
LEMMA TwoMore ==
  ASSUME NEW S, NEW E \in Seq(S), NEW x \in S, NEW y \in S
  PROVE  E \o <<x, y>> = Append(Append(E, x), y)
<1>1. PICK two \in Seq(S) : two = <<x, y>> /\ Len(two) = 2 /\ two[1] = x /\ two[2] = y
  <2>1. <<x, y>> \in Seq(S) /\ Len(<<x, y>>) = 2 /\ <<x, y>>[1] = x /\ <<x, y>>[2] = y
    OBVIOUS
  <2> QED BY <2>1
<1> DEFINE one == Append(E, x)
           both == Append(one, y)
           all == E \o two
<1>2. /\ one \in Seq(S) /\ Len(one) = Len(E) + 1 /\ one[Len(E) + 1] = x
      /\ \A i \in 1 .. Len(E) : one[i] = E[i]
  OBVIOUS
<1>3. /\ all \in Seq(S) /\ Len(all) = Len(E) + 2 /\ all[Len(E) + 1] = x /\ all[Len(E) + 2] = y
      /\ \A i \in 1 .. Len(E) : all[i] = E[i]
  BY <1>1
<1>4. /\ both \in Seq(S) /\ Len(both) = Len(E) + 2 /\ both[Len(E) + 2] = y
      /\ \A i \in 1 .. (Len(E) + 1) : both[i] = one[i]
  <2>1. PICK s \in Seq(S) : s = one
    BY <1>2
  <2>2. /\ Append(s, y) \in Seq(S) /\ Len(Append(s, y)) = Len(s) + 1 /\ Append(s, y)[Len(s) + 1] = y
        /\ \A i \in 1 .. Len(s) : Append(s, y)[i] = s[i]
    OBVIOUS
  <2>3. Len(s) = Len(E) + 1 /\ Len(s) + 1 = Len(E) + 2 /\ Append(s, y) = both
    BY <1>2, <2>1
  <2> HIDE DEF one, both
  <2> QED BY <2>1, <2>2, <2>3
<1> HIDE DEF one, both, all
<1>5. \A i \in 1 .. (Len(E) + 2) : i \in 1 .. Len(E) \/ i = Len(E) + 1 \/ i = Len(E) + 2
  OBVIOUS
<1>6. \A i \in 1 .. (Len(E) + 2) : all[i] = both[i]
  BY <1>2, <1>3, <1>4, <1>5
<1>7. all = both
  BY <1>3, <1>4, <1>6
<1> QED BY <1>1, <1>7 DEF all, both, one

(* The event of a mask.                                                    *)
LEMMA ModsEventFacts ==
  \A mask \in Masks, by \in {"echo", "user"} :
    LET event == ModsEvent(mask, by)
    IN  /\ event \in ModsEvents /\ event \in Events
        /\ event.type = "mods" /\ event.mask = mask /\ event.by = by
BY DEF ModsEvent, ModsEvents, Events

(* A tap between another mask and the one there was.                       *)
LEMMA EchoGuard ==
  ASSUME NEW m \in Masks, NEW up \in Masks, up # m,
         NEW tap \in Seq(Requests), \A i \in DOMAIN tap : tap[i].op # "mods"
  PROVE  EchoAll([mods |-> m, events |-> <<>>], <<Modifiers(up)>> \o tap \o <<Modifiers(m)>>).events
           = <<ModsEvent(up, "echo"), ModsEvent(m, "echo")>>
<1> DEFINE one == <<Modifiers(up)>>
           two == <<Modifiers(m)>>
           first == ModsEvent(up, "echo")
           second == ModsEvent(m, "echo")
<1>1. one \in Seq(Requests) /\ two \in Seq(Requests)
  BY QuietRequest
<1>2. PICK a \in Accs : a = [mods |-> m, events |-> <<>>]
  <2>1. <<>> \in Seq(ModsEvents)
    OBVIOUS
  <2> QED BY <2>1 DEF Accs
<1>3. first \in ModsEvents /\ second \in ModsEvents
  BY DEF ModsEvent, ModsEvents
<1>4. PICK b \in Accs : b = EchoAll(a, one) /\ b = [mods |-> up, events |-> <<first>>]
  <2>1. EchoAll(a, one) = [mods |-> up, events |-> Append(a.events, first)]
    BY <1>2, EchoMask
  <2>2. Append(a.events, first) = <<first>>
    BY <1>2
  <2> QED BY <1>1, <2>1, <2>2, EchoAllTyped
<1>5. EchoAll(b, two) = [mods |-> m, events |-> Append(b.events, second)]
  BY <1>4, EchoMask
<1> HIDE DEF first, second, one, two
<1>6. Append(b.events, second) = <<first, second>>
  <2>1. b.events = <<first>>
    BY <1>4
  <2> QED BY <1>3, <2>1, PairFacts
<1>7. EchoAll(b, tap) = b
  BY EchoSilent
<1>8. one \o tap \in Seq(Requests)
  BY <1>1, PairFacts
<1>9. EchoAll(a, one \o tap) = b
  <2>1. EchoAll(a, one \o tap) = EchoAll(EchoAll(a, one), tap)
    BY <1>1, EchoConcat
  <2> QED BY <1>4, <1>7, <2>1
<1>10. EchoAll(a, (one \o tap) \o two) = EchoAll(b, two)
  BY <1>1, <1>8, <1>9, EchoConcat
<1>11. EchoAll(a, (one \o tap) \o two).events = <<first, second>>
  BY <1>5, <1>6, <1>10
<1> QED BY <1>2, <1>11 DEF first, second, one, two

(* What a press that is not echoed as it is awaited leaves behind.         *)
LEMMA StrayTaken ==
  ASSUME NEW a \in App, NEW s \in Seq(Requests)
  PROVE  LET b == TakeAll(a, s)
         IN  /\ b \in App /\ b.swallowed = a.swallowed /\ (a.stray => b.stray)
             /\ (\E i \in DOMAIN s : s[i].op = "key" /\ s[i].value = 1 /\ Unawaited(s[i])) => b.stray
<1>1. PICK m \in Nat : m = Len(s)
  OBVIOUS
<1>2. PICK f : /\ f[0] = a /\ f[m] = TakeAll(a, s)
               /\ \A n \in 0 .. m : f[n] \in App
               /\ \A n \in 1 .. m : f[n] = Take(f[n - 1], s[n])
  BY <1>1, TakeTrace
<1>3. ASSUME NEW c \in App, NEW r \in Requests
      PROVE  /\ Take(c, r).swallowed = c.swallowed
             /\ c.stray => Take(c, r).stray
             /\ r.op = "key" /\ r.value = 1 /\ Unawaited(r) => Take(c, r).stray
  <2>1. CASE r.op = "key" /\ r.value = 1
    <3>1. Take(c, r) = TakePress(c, r)
      BY <2>1 DEF Take
    <3>2. TakePress(c, r).swallowed = c.swallowed /\ TakePress(c, r).stray = (c.stray \/ Unawaited(r))
      BY DEF TakePress, App
    <3> QED BY <3>1, <3>2
  <2>2. CASE r.op = "key" /\ r.value # 1
    <3>1. \/ Take(c, r) = c
          \/ Take(c, r) = [c EXCEPT !.down = c.down \ {r.key}, !.covered = c.covered \ {r.key}]
      BY <2>2 DEF Take
    <3> QED BY <2>2, <3>1 DEF App
  <2>3. CASE r.op # "key"
    <3> DEFINE more == IF Dropped(c, r.glyph.key) THEN {"lost_glyph"} ELSE {}
    <3>1. \/ Take(c, r) = c
          \/ Take(c, r) = [c EXCEPT !.faults = c.faults \cup more]
          \/ Take(c, r) = [c EXCEPT !.mods = r.mask]
          \/ Take(c, r) = [c EXCEPT !.owed = FALSE]
      BY <2>3 DEF Take, Requests
    <3> HIDE DEF more
    <3> QED BY <2>3, <3>1 DEF App
  <2> QED BY <2>1, <2>2, <2>3
<1> DEFINE Taken(n) == {i \in 1 .. n : s[i].op = "key" /\ s[i].value = 1 /\ Unawaited(s[i])}
           T == {n \in 0 .. m : /\ f[n].swallowed = a.swallowed
                                /\ a.stray \/ Taken(n) # {} => f[n].stray}
<1>4. 0 \in T
  BY <1>2
<1>5. ASSUME NEW n \in 1 .. m, n - 1 \in T PROVE n \in T
  <2>1. n - 1 \in 0 .. m /\ n \in 0 .. m /\ s[n] \in Requests
    BY <1>1
  <2>2. \A i \in 1 .. n : i = n \/ i \in 1 .. (n - 1)
    OBVIOUS
  <2>3. f[n - 1] \in App /\ f[n] = Take(f[n - 1], s[n])
    BY <1>2, <2>1
  <2>4. /\ f[n].swallowed = f[n - 1].swallowed
        /\ f[n - 1].stray => f[n].stray
        /\ s[n].op = "key" /\ s[n].value = 1 /\ Unawaited(s[n]) => f[n].stray
    BY <1>3, <2>1, <2>3
  <2>5. Taken(n) # {} => Taken(n - 1) # {} \/ n \in Taken(n)
    BY <2>2
  <2> QED BY <1>5, <2>1, <2>4, <2>5
<1> HIDE DEF T
<1>6. 0 .. m \subseteq T
  BY <1>4, <1>5, IntervalInduction
<1>7. m \in 0 .. m /\ DOMAIN s = 1 .. m
  BY <1>1
<1>8. f[m].swallowed = a.swallowed /\ (a.stray \/ Taken(m) # {} => f[m].stray) /\ f[m] \in App
  BY <1>2, <1>6, <1>7 DEF T
<1> QED BY <1>2, <1>7, <1>8

(* Requests that set no modifiers, and requests with a press that is not   *)
(* echoed as it is awaited.                                                *)
Silent(s) == s \in Seq(Requests) /\ \A i \in DOMAIN s : s[i].op # "mods"
Strays(s) == \E i \in DOMAIN s : s[i].op = "key" /\ s[i].value = 1 /\ Unawaited(s[i])

(* The blocks of an edit that are silent.                                  *)
LEMMA SilentBlocks ==
  /\ Silent(<<>>)
  /\ \A r \in Requests : r.op # "mods" => Silent(<<r>>)
  /\ \A r, q \in Requests : r.op # "mods" /\ q.op # "mods" => Silent(<<r, q>>)
  /\ \A key \in KeyCodes : \A held : Silent(Prelude(key, held))
  /\ \A s, t : Silent(s) /\ Silent(t) => Silent(s \o t)
<1>1. Silent(<<>>)
  BY DEF Silent
<1>2. ASSUME NEW r \in Requests, r.op # "mods" PROVE Silent(<<r>>)
  BY <1>2 DEF Silent
<1>3. ASSUME NEW r \in Requests, NEW q \in Requests, r.op # "mods", q.op # "mods" PROVE Silent(<<r, q>>)
  <2>1. <<r, q>> \in Seq(Requests) /\ DOMAIN <<r, q>> = {1, 2} /\ <<r, q>>[1] = r /\ <<r, q>>[2] = q
    OBVIOUS
  <2> QED BY <1>3, <2>1 DEF Silent
<1>4. ASSUME NEW key \in KeyCodes, NEW held PROVE Silent(Prelude(key, held))
  <2>1. PICK r \in Requests : r = EditKey(key, 0) /\ r.op # "mods"
    <3>1. EditKey(key, 0) \in Requests
      BY RequestsTyped
    <3> QED BY <3>1 DEF EditKey, Key
  <2>2. Silent(<<r>>)
    BY <1>2, <2>1
  <2> QED BY <1>1, <2>1, <2>2 DEF Prelude
<1>5. ASSUME NEW s, NEW t, Silent(s), Silent(t) PROVE Silent(s \o t)
  <2>1. s \in Seq(Requests) /\ t \in Seq(Requests)
    BY <1>5 DEF Silent
  <2>2. ASSUME NEW j \in DOMAIN (s \o t) PROVE (s \o t)[j].op # "mods"
    <3>1. \/ j \in DOMAIN s /\ (s \o t)[j] = s[j]
          \/ j - Len(s) \in DOMAIN t /\ (s \o t)[j] = t[j - Len(s)]
      BY <2>1, ConcatFacts
    <3> QED BY <1>5, <3>1 DEF Silent
  <2> QED BY <2>1, <2>2, PairFacts DEF Silent
<1> QED BY <1>1, <1>2, <1>3, <1>4, <1>5

(* Silent requests do not change what others are answered with.            *)
LEMMA EchoPrefix ==
  ASSUME NEW acc \in Accs, NEW s, Silent(s), NEW t \in Seq(Requests)
  PROVE  EchoAll(acc, s \o t) = EchoAll(acc, t)
<1>1. s \in Seq(Requests) /\ EchoAll(acc, s) = acc
  BY EchoSilent DEF Silent
<1>2. EchoAll(acc, s \o t) = EchoAll(EchoAll(acc, s), t)
  BY <1>1, EchoConcat
<1> QED BY <1>1, <1>2

(* A stray press is one among whatever is sent with it.                    *)
LEMMA StrayConcat ==
  ASSUME NEW s \in Seq(Requests), NEW t \in Seq(Requests), Strays(s) \/ Strays(t)
  PROVE  Strays(s \o t)
<1>1. CASE Strays(s)
  <2>1. PICK i \in DOMAIN s : s[i].op = "key" /\ s[i].value = 1 /\ Unawaited(s[i])
    BY <1>1 DEF Strays
  <2>2. i \in DOMAIN (s \o t) /\ (s \o t)[i] = s[i]
    BY ConcatFacts
  <2> QED BY <2>1, <2>2 DEF Strays
<1>2. CASE Strays(t)
  <2>1. PICK i \in DOMAIN t : t[i].op = "key" /\ t[i].value = 1 /\ Unawaited(t[i])
    BY <1>2 DEF Strays
  <2>2. Len(s) + i \in DOMAIN (s \o t) /\ (s \o t)[Len(s) + i] = t[i]
    BY ConcatFacts
  <2> QED BY <2>1, <2>2 DEF Strays
<1> QED BY <1>1, <1>2

(* How the masks of requests come back, when m is the mask before them and *)
(* the queue of awaited masks becomes `after': not at all, or as the two   *)
(* masks around a press, which are awaited or not.                         *)
Reply(m, requests) == EchoAll([mods |-> m, events |-> <<>>], requests).events

Answers(m, requests, before, after) ==
  \/ Reply(m, requests) = <<>> /\ after = before
  \/ \E mask \in Masks :
       /\ mask # m /\ Reply(m, requests) = <<ModsEvent(mask, "echo"), ModsEvent(m, "echo")>>
       /\ after \in {before, Append(Append(before, mask), m)}

(* Nothing set, nothing comes back.                                        *)
LEMMA SilentReply ==
  ASSUME NEW m \in Masks, NEW s, Silent(s) PROVE Reply(m, s) = <<>>
<1>1. PICK acc \in Accs : acc = [mods |-> m, events |-> <<>>]
  <2>1. <<>> \in Seq(ModsEvents)
    OBVIOUS
  <2> QED BY <2>1 DEF Accs
<1>2. EchoAll(acc, s) = acc
  BY EchoSilent DEF Silent
<1> QED BY <1>1, <1>2 DEF Reply

(* Silent requests before others.                                          *)
LEMMA PrefixReply ==
  ASSUME NEW m \in Masks, NEW s, Silent(s), NEW t \in Seq(Requests)
  PROVE  Reply(m, s \o t) = Reply(m, t)
<1>1. PICK acc \in Accs : acc = [mods |-> m, events |-> <<>>]
  <2>1. <<>> \in Seq(ModsEvents)
    OBVIOUS
  <2> QED BY <2>1 DEF Accs
<1>2. EchoAll(acc, s \o t) = EchoAll(acc, t)
  BY EchoPrefix
<1> QED BY <1>1, <1>2 DEF Reply

(* A character typed by the virtual keyboard.                              *)
LEMMA EmitCharReply ==
  ASSUME NEW k \in Relay, k.raw_mods = relay.raw_mods, NEW glyph \in GlyphSpecs, glyph # None,
         NEW held
  PROVE  LET requests == emit_char(k, glyph, held)
         IN  Strays(requests) \/ Answers(k.raw_mods, requests, k.expected, ExpectEcho(k, glyph).expected)
<1> DEFINE press == GlyphKey(glyph)
           lift == EditKey(glyph.key, 0)
           tap == <<press, lift>>
           up == k.raw_mods \cup glyph.mods
           m == k.raw_mods
           dance == <<Modifiers(up)>> \o tap \o <<Modifiers(m)>>
           rest == IF glyph.mods = {} THEN tap ELSE dance
           first == Prelude(glyph.key, held)
           after == ExpectEcho(k, glyph).expected
<1>1. glyph.key \in KeyCodes
  BY DEF GlyphSpecs, KeyCodes, UserKeys
<1>2. press \in Requests /\ press.op = "key" /\ press.value = 1 /\ press.glyph = glyph
  <2>1. press \in Requests
    BY RequestsTyped
  <2> QED BY <2>1 DEF GlyphKey, EditKey, Key
<1>3. lift \in Requests /\ lift.op = "key"
  <2>1. lift \in Requests
    BY <1>1, RequestsTyped
  <2> QED BY <2>1 DEF EditKey, Key
<1>4. up \in Masks /\ m \in Masks
  BY DanceMasks
<1>5. emit_char(k, glyph, held) = first \o rest
  <2>1. CASE glyph.mods = {}
    BY <2>1 DEF emit_char, plan_mod_dance
  <2>2. CASE glyph.mods # {}
    <3>1. plan_mod_dance(k, glyph) = <<up, m>>
      BY <2>2 DEF plan_mod_dance
    <3>2. /\ plan_mod_dance(k, glyph) # <<>> /\ plan_mod_dance(k, glyph)[1] = up
          /\ plan_mod_dance(k, glyph)[2] = m
      BY <3>1
    <3> QED BY <2>2, <3>2 DEF emit_char
  <2> QED BY <2>1, <2>2
<1>6. after = IF glyph.mods = {} THEN k.expected ELSE Append(Append(k.expected, up), m)
  <2>1. CASE glyph.mods = {}
    BY <2>1 DEF ExpectEcho, plan_mod_dance
  <2>2. CASE glyph.mods # {}
    <3>1. plan_mod_dance(k, glyph) = <<up, m>> /\ plan_mod_dance(k, glyph) # <<>>
      BY <2>2 DEF plan_mod_dance
    <3>2. PICK expected \in Seq(Masks) : expected = k.expected
      BY DEF Relay
    <3>3. expected \o <<up, m>> = Append(Append(expected, up), m)
      <4> HIDE DEF up, m
      <4> QED BY <1>4, TwoMore
    <3>4. after = expected \o <<up, m>>
      <4> DEFINE more == k.expected \o plan_mod_dance(k, glyph)
      <4>1. ExpectEcho(k, glyph) = [k EXCEPT !.expected = more, !.late = FALSE]
        BY <3>1 DEF ExpectEcho
      <4> HIDE DEF more
      <4>2. after = more
        BY <4>1 DEF Relay
      <4> QED BY <3>1, <3>2, <4>2 DEF more
    <3> QED BY <2>2, <3>2, <3>3, <3>4
  <2> QED BY <2>1, <2>2
<1> HIDE DEF press, lift, up, m, after, first
<1>7. Silent(tap) /\ Silent(first)
  BY <1>1, <1>2, <1>3, SilentBlocks DEF first
<1>8. <<Modifiers(up)>> \in Seq(Requests) /\ <<Modifiers(m)>> \in Seq(Requests) /\ tap \in Seq(Requests)
  BY <1>4, <1>7, QuietRequest DEF Silent
<1>9. dance \in Seq(Requests) /\ <<Modifiers(up)>> \o tap \in Seq(Requests)
  <2>1. <<Modifiers(up)>> \o tap \in Seq(Requests)
    BY <1>8, PairFacts
  <2> QED BY <1>8, <2>1, PairFacts
<1>10. CASE glyph.mods = {}
  <2>1. Reply(m, first \o tap) = <<>>
    BY <1>4, <1>7, SilentBlocks, SilentReply
  <2> QED BY <1>5, <1>6, <1>10, <2>1 DEF Answers, m, after
<1>11. CASE glyph.mods # {} /\ glyph.mods \subseteq relay.raw_mods
  <2>1. Strays(tap)
    <3>1. 1 \in DOMAIN tap /\ tap[1] = press
      OBVIOUS
    <3>2. press.glyph # None
      BY <1>2
    <3> QED BY <1>2, <1>11, <3>1, <3>2 DEF Strays, Unawaited
  <2> HIDE DEF tap
  <2>2. Strays(<<Modifiers(up)>> \o tap)
    BY <1>8, <2>1, StrayConcat
  <2>3. Strays(dance)
    BY <1>8, <1>9, <2>2, StrayConcat
  <2>4. Strays(first \o dance)
    <3> HIDE DEF dance
    <3> QED BY <1>7, <1>9, <2>3, StrayConcat DEF Silent
  <2> QED BY <1>5, <1>11, <2>4
<1>12. CASE ~(glyph.mods \subseteq relay.raw_mods)
  <2>1. up # m
    BY <1>12 DEF up, m
  <2>2. Reply(m, dance) = <<ModsEvent(up, "echo"), ModsEvent(m, "echo")>>
    <3> HIDE DEF tap
    <3> QED BY <1>4, <1>7, <2>1, EchoGuard DEF Silent, Reply
  <2> HIDE DEF dance
  <2>3. Reply(m, first \o dance) = Reply(m, dance)
    BY <1>4, <1>7, <1>9, PrefixReply
  <2> QED BY <1>4, <1>5, <1>6, <1>12, <2>1, <2>2, <2>3 DEF Answers, m, after
<1> QED BY <1>10, <1>11, <1>12

(* A character typed as a keysym, which is not awaited.                    *)
LEMMA KeysymReply ==
  ASSUME NEW k \in Relay, NEW glyph \in GlyphSpecs \cup {None}, NEW functional, NEW held
  PROVE  Answers(k.raw_mods, commit_via_keysym_v1(k, glyph, functional, held), k.expected, k.expected)
<1> DEFINE mapped == Mapped(k, glyph)
           guard == mapped /\ ~functional /\ k.raw_mods # {}
           first == IF mapped THEN Prelude(glyph.key, held) ELSE <<>>
           keysym == <<Keysym(glyph, mapped)>>
           guarded == <<Modifiers({}), Keysym(glyph, mapped), Modifiers(k.raw_mods)>>
           rest == IF guard THEN guarded ELSE keysym
           m == k.raw_mods
<1>1. mapped \in BOOLEAN
  BY DEF Mapped
<1>2. mapped => glyph.key \in KeyCodes
  BY DEF Mapped, GlyphSpecs, KeyCodes, UserKeys
<1>3. commit_via_keysym_v1(k, glyph, functional, held) = first \o rest
  BY DEF commit_via_keysym_v1
<1> HIDE DEF mapped
<1>4. Silent(first)
  BY <1>2, SilentBlocks
<1>5. Silent(keysym) /\ keysym \in Seq(Requests)
  <2>1. PICK r \in Requests : r = Keysym(glyph, mapped) /\ r.op # "mods"
    <3>1. Keysym(glyph, mapped) \in Requests
      BY <1>1, RequestsTyped
    <3> QED BY <3>1 DEF Keysym
  <2> QED BY <2>1, SilentBlocks DEF Silent
<1>6. {} \in Masks /\ m \in Masks
  BY DanceMasks
<1>7. guarded = <<Modifiers({})>> \o keysym \o <<Modifiers(m)>>
  OBVIOUS
<1>8. <<Modifiers({})>> \in Seq(Requests) /\ <<Modifiers(m)>> \in Seq(Requests)
  BY <1>6, QuietRequest
<1> HIDE DEF keysym, guarded, first, m
<1>9. guarded \in Seq(Requests)
  <2>1. <<Modifiers({})>> \o keysym \in Seq(Requests)
    BY <1>5, <1>8, PairFacts
  <2> QED BY <1>7, <1>8, <2>1, PairFacts
<1>10. CASE guard
  <2>1. Reply(m, guarded) = <<ModsEvent({}, "echo"), ModsEvent(m, "echo")>>
    BY <1>5, <1>6, <1>7, <1>10, EchoGuard DEF Silent, Reply, m
  <2>2. Reply(m, first \o guarded) = Reply(m, guarded)
    BY <1>4, <1>6, <1>9, PrefixReply
  <2> QED BY <1>3, <1>6, <1>10, <2>1, <2>2 DEF Answers, m
<1>11. CASE ~guard
  <2>1. Reply(m, first \o keysym) = <<>>
    BY <1>4, <1>5, <1>6, SilentBlocks, SilentReply
  <2> QED BY <1>3, <1>11, <2>1 DEF Answers, m
<1> QED BY <1>10, <1>11

(* What comes back of an edit: nothing, or the masks of a dance or of a    *)
(* guard, both of which change something; otherwise the application is     *)
(* marked for what may stray.                                              *)
LEMMA EditAnswers ==
  ASSUME relay \in Relay, NEW a \in App, NEW k \in Relay, k.raw_mods = relay.raw_mods,
         NEW e \in EditSpecs, NEW protocol, NEW functional, NEW held
  PROVE  LET requests == EditRequests(protocol, k, functional, e, held)
         IN  \/ TakeAll(a, requests).stray
             \/ Answers(k.raw_mods, requests, k.expected, AfterEdit(protocol, k, functional, e).expected)
<1> DEFINE vk == ByVirtualKeyboard(protocol, functional, e)
           first == IF e.backspaces = 0 THEN <<>> ELSE BackspaceTap(k)
           commit == IF protocol = "ImV2" THEN <<Commit>> ELSE <<>>
           channel == <<Text>> \o commit
           second == IF vk THEN emit_char(k, e.glyph, held)
                     ELSE IF protocol = "ImV1" /\ e.delete = "keys"
                     THEN commit_via_keysym_v1(k, e.glyph, functional, held)
                     ELSE channel
           after == AfterEdit(protocol, k, functional, e).expected
           m == k.raw_mods
<1>1. e.glyph \in GlyphSpecs \cup {None}
  BY DEF EditSpecs
<1>2. vk => e.glyph \in GlyphSpecs /\ e.glyph # None
  BY <1>1 DEF ByVirtualKeyboard
<1>3. EditRequests(protocol, k, functional, e, held) = first \o second
  BY DEF EditRequests
<1>4. after = IF vk THEN ExpectEcho(k, e.glyph).expected ELSE k.expected
  BY DEF AfterEdit
<1> HIDE DEF vk, after
<1>5. m \in Masks
  BY DanceMasks
<1>6. Silent(channel)
  <2>1. Silent(<<Text>>) /\ Silent(<<Commit>>)
    <3>1. Text \in Requests /\ Commit \in Requests /\ Text.op # "mods" /\ Commit.op # "mods"
      BY RequestsTyped DEF Text, Commit
    <3> QED BY <3>1, SilentBlocks
  <2>2. Silent(commit)
    BY <2>1, SilentBlocks
  <2> QED BY <2>1, <2>2, SilentBlocks
<1> HIDE DEF channel
<1>7. second \in Seq(Requests) /\ (Strays(second) \/ Answers(m, second, k.expected, after))
  <2>1. CASE vk
    <3>1. second = emit_char(k, e.glyph, held) /\ after = ExpectEcho(k, e.glyph).expected
      BY <1>4, <2>1
    <3> HIDE DEF second
    <3>2. second \in Seq(Requests)
      BY <1>2, <2>1, <3>1, EmitCharTidy DEF Tidy
    <3> QED BY <1>2, <2>1, <3>1, <3>2, EmitCharReply
  <2>2. CASE ~vk /\ protocol = "ImV1" /\ e.delete = "keys"
    <3>1. second = commit_via_keysym_v1(k, e.glyph, functional, held) /\ after = k.expected
      BY <1>4, <2>2
    <3> HIDE DEF second
    <3>2. second \in Seq(Requests)
      BY <1>1, <3>1, KeysymTidy DEF Tidy
    <3> QED BY <1>1, <3>1, <3>2, KeysymReply
  <2>3. CASE ~vk /\ ~(protocol = "ImV1" /\ e.delete = "keys")
    <3>1. second = channel /\ after = k.expected
      BY <1>4, <2>3
    <3>2. Reply(m, channel) = <<>> /\ channel \in Seq(Requests)
      BY <1>5, <1>6, SilentReply DEF Silent
    <3> QED BY <3>1, <3>2 DEF Answers
  <2> QED BY <2>1, <2>2, <2>3
<1> HIDE DEF second
<1> DEFINE press == EditKey(Backspace, 1)
           lift == EditKey(Backspace, 0)
           tap == <<press, lift>>
<1>8. /\ press \in Requests /\ lift \in Requests /\ press.op = "key" /\ press.value = 1
      /\ press.by = "edit" /\ press.key = Backspace /\ lift.op = "key"
  <2>1. press \in Requests /\ lift \in Requests
    <3>1. Backspace \in KeyCodes
      BY DEF KeyCodes, UserKeys
    <3> QED BY <3>1, RequestsTyped
  <2> QED BY <2>1 DEF EditKey, Key
<1>9. Silent(tap)
  <2> HIDE DEF press, lift
  <2> QED BY <1>8, SilentBlocks
<1>10. CASE e.backspaces # 0 /\ k.raw_mods # {}
  <2>1. first = <<Modifiers({})>> \o tap \o <<Modifiers(m)>>
    BY <1>10 DEF BackspaceTap
  <2>2. Strays(tap)
    <3>1. 1 \in DOMAIN tap /\ tap[1] = press
      OBVIOUS
    <3> HIDE DEF tap, press
    <3>2. Unawaited(press)
      BY <1>8, <1>10 DEF Unawaited
    <3> QED BY <1>8, <3>1, <3>2 DEF Strays
  <2> HIDE DEF tap, first
  <2>3. <<Modifiers({})>> \in Seq(Requests) /\ <<Modifiers(m)>> \in Seq(Requests) /\ tap \in Seq(Requests)
    BY <1>5, <1>9, DanceMasks, QuietRequest DEF Silent
  <2>4. <<Modifiers({})>> \o tap \in Seq(Requests) /\ Strays(<<Modifiers({})>> \o tap)
    BY <2>2, <2>3, StrayConcat, PairFacts
  <2>5. first \in Seq(Requests) /\ Strays(first)
    BY <2>1, <2>3, <2>4, StrayConcat, PairFacts
  <2>6. first \o second \in Seq(Requests) /\ Strays(first \o second)
    BY <1>7, <2>5, StrayConcat, PairFacts
  <2> QED BY <1>3, <2>6, StrayTaken DEF Strays
<1>11. CASE ~(e.backspaces # 0 /\ k.raw_mods # {})
  <2>1. Silent(first)
    <3>1. first = <<>> \/ first = tap
      BY <1>11 DEF BackspaceTap
    <3> QED BY <1>9, <3>1, SilentBlocks
  <2> HIDE DEF first
  <2>2. first \in Seq(Requests) /\ first \o second \in Seq(Requests)
    BY <1>7, <2>1, PairFacts DEF Silent
  <2>3. CASE Strays(second)
    <3>1. Strays(first \o second)
      BY <1>7, <2>2, <2>3, StrayConcat
    <3> QED BY <1>3, <2>2, <3>1, StrayTaken DEF Strays
  <2>4. CASE Answers(m, second, k.expected, after)
    <3>1. Reply(m, first \o second) = Reply(m, second)
      BY <1>5, <1>7, <2>1, PrefixReply
    <3>2. Answers(m, first \o second, k.expected, after)
      BY <2>4, <3>1 DEF Answers
    <3> QED BY <1>3, <3>2 DEF after
  <2> QED BY <1>7, <2>3, <2>4
<1> QED BY <1>10, <1>11
-----------------------------------------------------------------------------
(* The invariant behind ModsSettle.                                        *)

(* The masks that wait in events, by their places.                         *)
MasksIn(events) == [i \in {i \in DOMAIN events : events[i].type = "mods"} |-> events[i].mask]

(* Their places, and a mask.                                               *)
LEMMA MasksPlaces ==
  ASSUME NEW s \in Seq(Events)
  PROVE  /\ DOMAIN MasksIn(s) = {i \in DOMAIN s : s[i].type = "mods"}
         /\ DOMAIN MasksIn(s) \subseteq 0 .. Len(s) /\ DOMAIN MasksIn(s) \subseteq Nat
         /\ \A i \in DOMAIN MasksIn(s) : MasksIn(s)[i] = s[i].mask
<1>1. Len(s) \in Nat /\ DOMAIN s = 1 .. Len(s)
  OBVIOUS
<1> QED BY <1>1 DEF MasksIn

(* Masks behind others.                                                    *)
LEMMA MasksBehind ==
  ASSUME NEW s \in Seq(Events), NEW t \in Seq(Events),
         NEW Q, Q = {Len(s) + i : i \in {i \in DOMAIN t : t[i].type = "mods"}}
  PROVE  /\ Behind(MasksIn(s), MasksIn(s \o t), Q)
         /\ \A i \in DOMAIN t : t[i].type = "mods" => MasksIn(s \o t)[Len(s) + i] = t[i].mask
<1> DEFINE M == MasksIn(s)
           N == MasksIn(s \o t)
<1>1. /\ s \o t \in Seq(Events) /\ Len(s) \in Nat /\ Len(t) \in Nat
      /\ DOMAIN s = 1 .. Len(s) /\ DOMAIN t = 1 .. Len(t)
      /\ \A i \in DOMAIN s : i \in DOMAIN (s \o t) /\ (s \o t)[i] = s[i]
      /\ \A i \in DOMAIN t : Len(s) + i \in DOMAIN (s \o t) /\ (s \o t)[Len(s) + i] = t[i]
      /\ \A j \in DOMAIN (s \o t) :
           j \in DOMAIN s \/ (j > Len(s) /\ j - Len(s) \in DOMAIN t /\ (s \o t)[j] = t[j - Len(s)])
      /\ DOMAIN (s \o t) = 1 .. (Len(s) + Len(t))
  BY ConcatFacts
<1>2. /\ DOMAIN M = {i \in DOMAIN s : s[i].type = "mods"} /\ DOMAIN M \subseteq Nat
      /\ \A i \in DOMAIN M : M[i] = s[i].mask
  BY MasksPlaces
<1>3. /\ DOMAIN N = {i \in DOMAIN (s \o t) : (s \o t)[i].type = "mods"}
      /\ \A i \in DOMAIN N : N[i] = (s \o t)[i].mask
  BY <1>1, MasksPlaces
<1> HIDE DEF M, N
<1>4. Q \subseteq Nat
  BY <1>1
<1>5. DOMAIN N = DOMAIN M \cup Q
  <2>1. ASSUME NEW j \in DOMAIN N PROVE j \in DOMAIN M \cup Q
    <3>1. CASE j \in DOMAIN s
      BY <1>1, <1>2, <1>3, <3>1
    <3>2. CASE j \notin DOMAIN s
      <4>1. PICK i : i = j - Len(s)
        OBVIOUS
      <4>2. i \in DOMAIN t /\ (s \o t)[j] = t[i] /\ j = Len(s) + i
        BY <1>1, <1>3, <3>2, <4>1
      <4>3. t[i].type = "mods"
        BY <1>3, <4>2
      <4> QED BY <4>2, <4>3
    <3> QED BY <3>1, <3>2
  <2>2. DOMAIN M \subseteq DOMAIN N
    BY <1>1, <1>2, <1>3
  <2>3. Q \subseteq DOMAIN N
    <3>1. ASSUME NEW i \in DOMAIN t, t[i].type = "mods" PROVE Len(s) + i \in DOMAIN N
      BY <1>1, <1>3, <3>1
    <3> QED BY <3>1
  <2> QED BY <2>1, <2>2, <2>3
<1>6. \A p \in DOMAIN M : N[p] = M[p] /\ p \in DOMAIN s
  BY <1>1, <1>2, <1>3, <1>5
<1>7. \A p \in DOMAIN M, q \in Q : p < q
  <2>1. ASSUME NEW p \in DOMAIN M, NEW i \in DOMAIN t PROVE p < Len(s) + i
    <3>1. p \in 1 .. Len(s) /\ i \in 1 .. Len(t)
      BY <1>1, <1>2
    <3> QED BY <1>1, <3>1
  <2> QED BY <2>1
<1>8. ASSUME NEW i \in DOMAIN t, t[i].type = "mods" PROVE N[Len(s) + i] = t[i].mask
  BY <1>1, <1>3, <1>8
<1> QED BY <1>2, <1>4, <1>5, <1>6, <1>7, <1>8 DEF Behind, M, N

(* Behind nothing new, nothing changes.                                    *)
LEMMA MasksSame ==
  ASSUME NEW s \in Seq(Events), NEW t \in Seq(Events), \A i \in DOMAIN t : t[i].type # "mods"
  PROVE  MasksIn(s \o t) = MasksIn(s)
<1> DEFINE Q == {Len(s) + i : i \in {i \in DOMAIN t : t[i].type = "mods"}}
<1>1. Q = {}
  OBVIOUS
<1> HIDE DEF Q
<1>2. Behind(MasksIn(s), MasksIn(s \o t), Q)
  BY MasksBehind DEF Q
<1>3. /\ DOMAIN MasksIn(s \o t) = DOMAIN MasksIn(s)
      /\ \A p \in DOMAIN MasksIn(s) : MasksIn(s \o t)[p] = MasksIn(s)[p]
  BY <1>1, <1>2 DEF Behind
<1> QED BY <1>3 DEF MasksIn

(* One mask, or two, behind others.                                        *)
LEMMA MasksOne ==
  ASSUME NEW s \in Seq(Events), NEW e \in ModsEvents
  PROVE  /\ Behind(MasksIn(s), MasksIn(s \o <<e>>), {Len(s) + 1})
         /\ MasksIn(s \o <<e>>)[Len(s) + 1] = e.mask
<1>1. PICK t \in Seq(Events) : t = <<e>> /\ DOMAIN t = {1} /\ t[1] = e
  <2>1. e \in Events
    BY DEF Events
  <2>2. <<e>> \in Seq(Events) /\ DOMAIN <<e>> = {1} /\ <<e>>[1] = e
    BY <2>1
  <2> QED BY <2>2
<1>2. e.type = "mods"
  BY DEF ModsEvents
<1>3. {Len(s) + 1} = {Len(s) + i : i \in {i \in DOMAIN t : t[i].type = "mods"}}
  BY <1>1, <1>2
<1>4. /\ Behind(MasksIn(s), MasksIn(s \o t), {Len(s) + 1})
      /\ \A i \in DOMAIN t : t[i].type = "mods" => MasksIn(s \o t)[Len(s) + i] = t[i].mask
  BY <1>3, MasksBehind
<1> QED BY <1>1, <1>2, <1>4

(* The two of a dance or a guard.                                          *)
LEMMA MasksTwo ==
  ASSUME NEW s \in Seq(Events), NEW e \in ModsEvents, NEW g \in ModsEvents
  PROVE  /\ Behind(MasksIn(s), MasksIn(s \o <<e, g>>), {Len(s) + 1, Len(s) + 2})
         /\ MasksIn(s \o <<e, g>>)[Len(s) + 1] = e.mask /\ MasksIn(s \o <<e, g>>)[Len(s) + 2] = g.mask
<1>1. PICK t \in Seq(Events) : t = <<e, g>> /\ DOMAIN t = {1, 2} /\ t[1] = e /\ t[2] = g
  <2>1. e \in Events /\ g \in Events
    BY DEF Events
  <2>2. <<e, g>> \in Seq(Events) /\ DOMAIN <<e, g>> = {1, 2} /\ <<e, g>>[1] = e /\ <<e, g>>[2] = g
    BY <2>1
  <2> QED BY <2>2
<1>2. e.type = "mods" /\ g.type = "mods"
  BY DEF ModsEvents
<1>3. {Len(s) + 1, Len(s) + 2} = {Len(s) + i : i \in {i \in DOMAIN t : t[i].type = "mods"}}
  BY <1>1, <1>2
<1>4. /\ Behind(MasksIn(s), MasksIn(s \o t), {Len(s) + 1, Len(s) + 2})
      /\ \A i \in DOMAIN t : t[i].type = "mods" => MasksIn(s \o t)[Len(s) + i] = t[i].mask
  BY <1>3, MasksBehind
<1>5. 1 \in DOMAIN t /\ 2 \in DOMAIN t
  BY <1>1
<1> QED BY <1>1, <1>2, <1>4, <1>5

(* The first event is gone: every mask moves up, but for one that was      *)
(* first.                                                                  *)
LEMMA MasksTail ==
  ASSUME NEW s \in Seq(Events), s # <<>>
  PROVE  /\ \A p \in DOMAIN MasksIn(s) : p # 1 => p - 1 \in DOMAIN MasksIn(Tail(s))
                                                 /\ MasksIn(Tail(s))[p - 1] = MasksIn(s)[p]
         /\ \A q \in DOMAIN MasksIn(Tail(s)) : q + 1 \in DOMAIN MasksIn(s)
<1> DEFINE t == Tail(s)
           M == MasksIn(s)
           N == MasksIn(t)
<1>1. /\ t \in Seq(Events) /\ Len(t) = Len(s) - 1 /\ Len(s) \in Nat /\ DOMAIN s = 1 .. Len(s)
      /\ DOMAIN t = 1 .. Len(t) /\ \A i \in 1 .. Len(t) : t[i] = s[i + 1]
  BY TailFacts
<1>2. /\ DOMAIN M = {i \in DOMAIN s : s[i].type = "mods"}
      /\ \A i \in DOMAIN M : M[i] = s[i].mask
  BY MasksPlaces
<1>3. /\ DOMAIN N = {i \in DOMAIN t : t[i].type = "mods"}
      /\ \A i \in DOMAIN N : N[i] = t[i].mask
  BY <1>1, MasksPlaces
<1> HIDE DEF M, N, t
<1>4. ASSUME NEW p \in DOMAIN M, p # 1 PROVE p - 1 \in DOMAIN N /\ N[p - 1] = M[p]
  <2>1. p - 1 \in 1 .. Len(t) /\ (p - 1) + 1 = p
    BY <1>1, <1>2, <1>4
  <2>2. t[p - 1] = s[p]
    BY <1>1, <2>1
  <2> QED BY <1>1, <1>2, <1>3, <2>1, <2>2
<1>5. ASSUME NEW q \in DOMAIN N PROVE q + 1 \in DOMAIN M
  <2>1. q \in 1 .. Len(t) /\ q + 1 \in 1 .. Len(s)
    BY <1>1, <1>3
  <2> QED BY <1>1, <1>2, <1>3, <2>1
<1> QED BY <1>4, <1>5 DEF M, N, t

(* What is settled stays so when an event that is no mask is gone.         *)
LEMMA SettledTail ==
  ASSUME NEW s \in Seq(Events), s # <<>>, s[1].type # "mods",
         NEW E, NEW m, NEW U, Settled(MasksIn(s), E, m, U)
  PROVE  Settled(MasksIn(Tail(s)), E, m, U)
<1> DEFINE M == MasksIn(s)
           N == MasksIn(Tail(s))
<1>1. Tail(s) \in Seq(Events)
  BY TailFacts
<1>2. DOMAIN M \subseteq Nat /\ DOMAIN N \subseteq Nat /\ \A p \in DOMAIN M : p # 1
  BY <1>1, MasksPlaces
<1>3. /\ \A p \in DOMAIN M : p - 1 \in DOMAIN N /\ N[p - 1] = M[p]
      /\ \A q \in DOMAIN N : q + 1 \in DOMAIN M
  BY <1>2, MasksTail
<1>4. 1 \in Nat
  OBVIOUS
<1> HIDE DEF M, N
<1> QED BY <1>2, <1>3, <1>4, SettledMoves DEF M, N

(* The last mask that waits is the user's.                                 *)
Final(M, U) == \A i \in DOMAIN M : (\A j \in DOMAIN M : j <= i) => M[i] = U
ByUser(events) == \A i \in DOMAIN events : events[i].type = "mods" => events[i].by = "user"

(* While every change of the virtual keyboard's modifiers is echoed and    *)
(* nothing went stray, the masks that wait lead the application's          *)
(* modifiers to the user's.  Without echoes only the user's masks wait.    *)
EchoSettle ==
  profile.echo = "each" /\ running # "no" /\ KeysGrabbed /\ ~app.stray =>
    Settled(MasksIn(socket), relay.expected, app.mods, UserMods)
NoEcho ==
  profile.echo = "none" /\ running # "no" =>
    /\ ByUser(socket)
    /\ KeysGrabbed =>
         /\ Final(MasksIn(socket), UserMods)
         /\ DOMAIN MasksIn(socket) = {} /\ ~app.swallowed => relay.raw_mods = UserMods

(* Without the grab the application has the user's modifiers anyway; and   *)
(* the clock never runs out unmarked.                                      *)
Ungrabbed == running # "no" /\ ~KeysGrabbed => app.mods = UserMods
LateStray == relay.late => app.stray

ModsQueue == EchoSettle /\ NoEcho /\ Ungrabbed /\ LateStray

(* The events that are left when one that is no mask may have been taken.  *)
Rests(rest) ==
  rest = socket \/ (socket # <<>> /\ ~Is(1, "mods") /\ rest = Tail(socket))

(* The masks in them.                                                      *)
LEMMA RestMasks ==
  ASSUME Types, NEW rest, Rests(rest)
  PROVE  /\ rest \in Seq(Events)
         /\ \A E, m, U : Settled(MasksIn(socket), E, m, U) => Settled(MasksIn(rest), E, m, U)
         /\ \A U : Final(MasksIn(socket), U) => Final(MasksIn(rest), U)
         /\ DOMAIN MasksIn(rest) = {} => DOMAIN MasksIn(socket) = {}
         /\ ByUser(socket) => ByUser(rest)
<1>1. CASE rest = socket
  BY <1>1 DEF Types
<1>2. CASE socket # <<>> /\ ~Is(1, "mods") /\ rest = Tail(socket)
  <2> DEFINE M == MasksIn(socket)
             N == MasksIn(rest)
  <2>1. socket \in Seq(Events) /\ socket[1].type # "mods"
    BY <1>2 DEF Types, Is
  <2>2. rest \in Seq(Events) /\ Len(rest) \in Nat /\ Len(socket) \in Nat
    BY <1>2, <2>1, TailFacts
  <2>3. ASSUME NEW E, NEW m, NEW U, Settled(M, E, m, U) PROVE Settled(N, E, m, U)
    BY <1>2, <2>1, <2>3, SettledTail
  <2>4. DOMAIN M \subseteq Nat /\ DOMAIN N \subseteq Nat /\ \A p \in DOMAIN M : p # 1
    BY <2>1, <2>2, MasksPlaces
  <2>5. /\ \A p \in DOMAIN M : p - 1 \in DOMAIN N /\ N[p - 1] = M[p]
        /\ \A q \in DOMAIN N : q + 1 \in DOMAIN M
    BY <1>2, <2>1, <2>4, MasksTail
  <2> HIDE DEF M, N
  <2>6. ASSUME NEW U, Final(M, U), NEW i \in DOMAIN N, \A j \in DOMAIN N : j <= i PROVE N[i] = U
    <3>1. i + 1 \in DOMAIN M /\ i \in Nat /\ (i + 1) - 1 = i
      BY <2>4, <2>5
    <3>2. \A j \in DOMAIN M : j <= i + 1
      <4>1. ASSUME NEW j \in DOMAIN M PROVE j <= i + 1
        <5>1. j - 1 <= i /\ j \in Nat
          BY <2>4, <2>5, <2>6
        <5> QED BY <3>1, <5>1
      <4> QED BY <4>1
    <3> QED BY <2>5, <2>6, <3>1, <3>2 DEF Final
  <2>7. DOMAIN N = {} => DOMAIN M = {}
    BY <2>5
  <2>8. ByUser(socket) => ByUser(rest)
    <3>1. \A i \in DOMAIN rest : i + 1 \in DOMAIN socket /\ rest[i] = socket[i + 1]
      BY <1>2, <2>1, TailFacts
    <3> QED BY <3>1 DEF ByUser
  <2> QED BY <2>2, <2>3, <2>6, <2>7, <2>8 DEF M, N, Final
<1> QED BY <1>1, <1>2 DEF Rests

(* Quiet events behind them do not matter.                                 *)
LEMMA QuietMasks ==
  ASSUME NEW s \in Seq(Events), NEW t \in Seq(Events), \A i \in DOMAIN t : t[i].type # "mods"
  PROVE  MasksIn(s \o t) = MasksIn(s) /\ (ByUser(s) => ByUser(s \o t))
<1>1. MasksIn(s \o t) = MasksIn(s)
  BY MasksSame
<1>2. ASSUME ByUser(s), NEW j \in DOMAIN (s \o t), (s \o t)[j].type = "mods"
      PROVE  (s \o t)[j].by = "user"
  <2>1. \/ j \in DOMAIN s /\ (s \o t)[j] = s[j]
        \/ j - Len(s) \in DOMAIN t /\ (s \o t)[j] = t[j - Len(s)]
    BY ConcatFacts
  <2> QED BY <1>2, <2>1 DEF ByUser
<1> QED BY <1>1, <1>2 DEF ByUser

(* A step that neither takes nor adds a mask and leaves the modifiers.     *)
LEMMA ModsKept ==
  ASSUME Types, ModsQueue, NEW rest, Rests(rest),
         NEW new \in Seq(Events), \A i \in DOMAIN new : new[i].type # "mods", socket' = rest \o new,
         UNCHANGED profile, UserMods' = UserMods, KeysGrabbed' = KeysGrabbed,
         running' # "no" => running # "no",
         relay'.expected = relay.expected, relay'.raw_mods = relay.raw_mods,
         app'.mods = app.mods, app'.swallowed = app.swallowed, app.stray => app'.stray,
         relay'.late => app'.stray
  PROVE  ModsQueue'
<1>1. /\ rest \in Seq(Events)
      /\ \A E, m, U : Settled(MasksIn(socket), E, m, U) => Settled(MasksIn(rest), E, m, U)
      /\ \A U : Final(MasksIn(socket), U) => Final(MasksIn(rest), U)
      /\ DOMAIN MasksIn(rest) = {} => DOMAIN MasksIn(socket) = {}
      /\ ByUser(socket) => ByUser(rest)
  BY RestMasks
<1>2. MasksIn(socket') = MasksIn(rest) /\ (ByUser(rest) => ByUser(socket'))
  BY <1>1, QuietMasks
<1>3. EchoSettle'
  BY <1>1, <1>2 DEF ModsQueue, EchoSettle
<1>4. NoEcho'
  BY <1>1, <1>2 DEF ModsQueue, NoEcho
<1>5. Ungrabbed' /\ LateStray'
  BY DEF ModsQueue, Ungrabbed, LateStray
<1> QED BY <1>3, <1>4, <1>5 DEF ModsQueue

(* What the settled masks become when an edit is answered.                 *)
LEMMA SettledAnswers ==
  ASSUME NEW s \in Seq(Events), NEW E \in Seq(Masks), NEW m \in Masks, NEW U,
         Settled(MasksIn(s), E, m, U), NEW requests, NEW after, Answers(m, requests, E, after)
  PROVE  Settled(MasksIn(s \o Reply(m, requests)), after, m, U)
<1> DEFINE b == Len(s)
<1>1. b \in Nat /\ DOMAIN MasksIn(s) \subseteq 0 .. b
  <2>1. b \in Nat
    OBVIOUS
  <2>2. DOMAIN MasksIn(s) \subseteq 0 .. b
    BY MasksPlaces
  <2> QED BY <2>1, <2>2
<1>2. CASE Reply(m, requests) = <<>> /\ after = E
  <2>1. s \o <<>> = s
    OBVIOUS
  <2> QED BY <1>2, <2>1
<1>3. ASSUME NEW mask \in Masks, mask # m,
             Reply(m, requests) = <<ModsEvent(mask, "echo"), ModsEvent(m, "echo")>>,
             after \in {E, Append(Append(E, mask), m)}
      PROVE  Settled(MasksIn(s \o Reply(m, requests)), after, m, U)
  <2>1. PICK e \in ModsEvents : e = ModsEvent(mask, "echo") /\ e.mask = mask
    BY <1>3, ModsEventFacts
  <2>2. PICK g \in ModsEvents : g = ModsEvent(m, "echo") /\ g.mask = m
    BY <1>3, ModsEventFacts
  <2> DEFINE M == MasksIn(s)
             N == MasksIn(s \o <<e, g>>)
             q == b + 1
             r == b + 2
  <2>3. b \in Nat /\ DOMAIN M \subseteq 0 .. b
    BY <1>1
  <2>4. Behind(M, N, {q, r}) /\ N[q] = mask /\ N[r] = m
    BY <2>1, <2>2, MasksTwo
  <2>5. q < r
    BY <2>3
  <2> HIDE DEF M, N, q, r, b
  <2>6. Settled(M, E, m, U)
    BY DEF M
  <2>7. CASE after = E
    <3>1. Settled(N, E, m, U)
      BY <2>4, <2>5, <2>6, SettledGuard
    <3> QED BY <1>3, <2>1, <2>2, <2>7, <3>1 DEF N
  <2>8. CASE after = Append(Append(E, mask), m)
    <3>1. Settled(N, Append(Append(E, mask), m), m, U)
      BY <1>3, <2>3, <2>4, <2>5, <2>6, SettledDance
    <3> QED BY <1>3, <2>1, <2>2, <2>8, <3>1 DEF N
  <2> QED BY <1>3, <2>7, <2>8
<1> QED BY <1>2, <1>3 DEF Answers

(* A step that sends requests, as an edit is sent.                         *)
LEMMA SentMods ==
  ASSUME Types, Queue, ModsQueue, NEW rest, Rests(rest),
         NEW a \in App, a.mods = app.mods, a.swallowed = app.swallowed, a.stray = app.stray,
         NEW requests \in Seq(Requests), SendFrom(a, requests, rest),
         \/ TakeAll(a, requests).stray
         \/ Answers(app.mods, requests, relay.expected, relay'.expected)
         \/ ~Reaches,
         app'.mods = app.mods, relay'.raw_mods = relay.raw_mods, relay'.late => relay.late,
         UNCHANGED <<profile, user, desk>>, running' # "no" => running # "no"
  PROVE  ModsQueue'
<1>1. /\ rest \in Seq(Events)
      /\ \A E, m, U : Settled(MasksIn(socket), E, m, U) => Settled(MasksIn(rest), E, m, U)
      /\ \A U : Final(MasksIn(socket), U) => Final(MasksIn(rest), U)
      /\ DOMAIN MasksIn(rest) = {} => DOMAIN MasksIn(socket) = {}
      /\ ByUser(socket) => ByUser(rest)
  BY RestMasks
<1>2. /\ app' = IF Reaches THEN TakeAll(a, requests) ELSE a
      /\ socket' = IF Reaches THEN rest \o Echoes(a, requests) ELSE rest
  BY DEF SendFrom
<1>3. app'.swallowed = app.swallowed /\ (app.stray => app'.stray)
  <2>1. TakeAll(a, requests).swallowed = a.swallowed /\ (a.stray => TakeAll(a, requests).stray)
    BY StrayTaken
  <2> QED BY <1>2, <2>1
<1>4. KeysGrabbed' = KeysGrabbed /\ UserMods' = UserMods
  BY DEF KeysGrabbed, IsV2, UserMods
<1>5. KeysGrabbed => Reaches
  BY GrabReaches
<1>6. EchoSettle'
  <2>1. SUFFICES ASSUME profile.echo = "each", running # "no", KeysGrabbed, ~app'.stray
        PROVE  Settled(MasksIn(socket'), relay'.expected, app'.mods, UserMods)
    BY <1>4 DEF EchoSettle
  <2>2. Settled(MasksIn(socket), relay.expected, app.mods, UserMods)
    BY <1>3, <2>1 DEF ModsQueue, EchoSettle
  <2>3. Answers(app.mods, requests, relay.expected, relay'.expected)
    BY <1>2, <1>5, <2>1
  <2>4. relay.expected \in Seq(Masks) /\ app.mods \in Masks
    BY TypesFacts DEF Relay, App
  <2>5. Settled(MasksIn(rest \o Reply(app.mods, requests)), relay'.expected, app.mods, UserMods)
    <3>1. Settled(MasksIn(rest), relay.expected, app.mods, UserMods)
      BY <1>1, <2>2
    <3> QED BY <1>1, <2>3, <2>4, <3>1, SettledAnswers
  <2>6. socket' = rest \o Reply(app.mods, requests)
    <3>1. socket' = rest \o Echoes(a, requests)
      BY <1>2, <1>5, <2>1
    <3> QED BY <2>1, <3>1 DEF Echoes, Reply, EchoAll
  <2> QED BY <2>5, <2>6
<1>7. NoEcho'
  <2>1. SUFFICES ASSUME profile.echo = "none", running # "no"
        PROVE  /\ ByUser(socket')
               /\ KeysGrabbed =>
                    /\ Final(MasksIn(socket'), UserMods)
                    /\ DOMAIN MasksIn(socket') = {} /\ ~app'.swallowed => relay'.raw_mods = UserMods
    BY <1>4 DEF NoEcho
  <2>2. socket' = rest
    <3>1. rest \o <<>> = rest
      BY <1>1
    <3> QED BY <1>2, <2>1, <3>1 DEF Echoes
  <2> QED BY <1>1, <1>3, <2>1, <2>2 DEF ModsQueue, NoEcho
<1>8. Ungrabbed' /\ LateStray'
  BY <1>3, <1>4 DEF ModsQueue, Ungrabbed, LateStray
<1> QED BY <1>6, <1>7, <1>8 DEF ModsQueue

(* Neither edits nor the keys of the timer make a mask late.               *)
LEMMA LateFacts ==
  ASSUME NEW k \in Relay, NEW key
  PROVE  /\ \A protocol, functional, e : AfterEdit(protocol, k, functional, e).late => k.late
         /\ cancel(k).late = k.late /\ arm(k, key).late = k.late /\ release(k, key).late = k.late
         /\ StampPress(k, key).late = k.late /\ StampRelease(k, key).late = k.late
         /\ \A positive \in BOOLEAN : set_info(k, positive).late = k.late
<1>1. ASSUME NEW protocol, NEW functional, NEW e PROVE AfterEdit(protocol, k, functional, e).late => k.late
  <2> DEFINE more == k.expected \o plan_mod_dance(k, e.glyph)
             b == [k EXCEPT !.expected = more, !.late = FALSE]
  <2>1. AfterEdit(protocol, k, functional, e) \in {k, b}
    BY DEF AfterEdit, ExpectEcho
  <2> HIDE DEF more
  <2>2. ~b.late
    BY DEF Relay
  <2> HIDE DEF b
  <2> QED BY <2>1, <2>2
<1>2. cancel(k).late = k.late /\ arm(k, key).late = k.late /\ release(k, key).late = k.late
  BY DEF cancel, arm, release, Relay
<1>3. StampPress(k, key).late = k.late /\ StampRelease(k, key).late = k.late
  BY DEF StampPress, StampRelease, Relay
<1>4. \A positive \in BOOLEAN : set_info(k, positive).late = k.late
  BY DEF set_info, Relay
<1> QED BY <1>1, <1>2, <1>3, <1>4

(* An edit that is applied at once.                                        *)
LEMMA ApplyPendingMods ==
  ASSUME Types, Queue, ModsQueue, NEW rest, Rests(rest),
         NEW a \in App, a.mods = app.mods, a.swallowed = app.swallowed, a.stray = app.stray,
         NEW k \in Relay, SameKeys(relay, k), k.late = relay.late,
         NEW e \in EditSpecs, ApplyPending(k, e, a, rest), Reaches => app.mods = relay.raw_mods,
         app'.mods = app.mods, UNCHANGED <<profile, user, desk>>, running' # "no" => running # "no"
  PROVE  ModsQueue'
<1> DEFINE requests == EditRequests(profile.protocol, k, router.functional, e, held_user_kc(k))
<1>1. SendFrom(a, requests, rest) /\ relay' = AfterEdit(profile.protocol, k, router.functional, e)
  BY DEF ApplyPending
<1>2. relay \in Relay /\ k.raw_mods = relay.raw_mods /\ k.expected = relay.expected
  BY TypesFacts DEF SameKeys
<1>3. \/ TakeAll(a, requests).stray
      \/ Answers(k.raw_mods, requests, k.expected, relay'.expected)
  BY <1>1, <1>2, EditAnswers
<1>4. requests \in Seq(Requests)
  BY EditTidy DEF Tidy
<1>5. relay'.raw_mods = relay.raw_mods /\ (relay'.late => relay.late)
  BY <1>1, <1>2, AfterEditFacts, LateFacts
<1> HIDE DEF requests
<1>6. \/ TakeAll(a, requests).stray
      \/ Answers(app.mods, requests, relay.expected, relay'.expected)
      \/ ~Reaches
  BY <1>2, <1>3
<1> QED BY <1>1, <1>4, <1>5, <1>6, SentMods

(* A key that is forwarded, by requests that are not answered.             *)
LEMMA ForwardedMods ==
  ASSUME Types, Queue, ModsQueue, NEW rest, Rests(rest),
         NEW a \in App, a.mods = app.mods, a.swallowed = app.swallowed, a.stray = app.stray,
         NEW requests, Silent(requests), SendFrom(a, requests, rest),
         relay'.raw_mods = relay.raw_mods, relay'.expected = relay.expected,
         relay'.late = relay.late,
         app'.mods = app.mods, UNCHANGED <<profile, user, desk>>, running' # "no" => running # "no"
  PROVE  ModsQueue'
<1>1. app.mods \in Masks /\ requests \in Seq(Requests)
  BY TypesFacts DEF App, Silent
<1>2. Answers(app.mods, requests, relay.expected, relay'.expected)
  BY <1>1, SilentReply DEF Answers
<1> QED BY <1>1, <1>2, SentMods

(* The requests that forward a key.                                        *)
LEMMA SilentKeys ==
  ASSUME NEW key \in KeyCodes
  PROVE  /\ \A value \in {0, 1, 2} : Silent(<<Key(key, value)>>) /\ Silent(<<UnstampedKey(key, value)>>)
         /\ Silent(<<Key(key, 1), Key(key, 0)>>)
<1>1. \A value \in {0, 1, 2} : /\ Key(key, value) \in Requests /\ Key(key, value).op # "mods"
                               /\ UnstampedKey(key, value) \in Requests
                               /\ UnstampedKey(key, value).op # "mods"
  <2>1. \A value \in {0, 1, 2} : Key(key, value) \in Requests /\ UnstampedKey(key, value) \in Requests
    BY RequestsTyped
  <2> QED BY <2>1 DEF Key, UnstampedKey
<1> QED BY <1>1, SilentBlocks

(* A press is dispatched, ...                                              *)
LEMMA PressMods ==
  ASSUME Types, Queue, EditQueue, ModsQueue, dispatch_key_press PROVE ModsQueue'
<1> DEFINE key == Head(socket).key
           k == cancel(relay)
           rest == Tail(socket)
<1>1. /\ key \in UserKeys /\ Arrives("key") /\ Head(socket).value = 1
      /\ KeyDigest(app, {None, key}, Tail(socket)) /\ UNCHANGED <<outside, focus>>
  BY PressDigest
<1>2. PressKey(key, k)
  BY DEF dispatch_key_press
<1>3. key \in KeyCodes
  BY <1>1 DEF KeyCodes
<1> HIDE DEF key
<1>4. /\ socket # <<>> /\ running # "no" /\ Is(1, "key") /\ ~Is(1, "mods") /\ socket[1].value = 1
  BY <1>1, HeadPlace DEF Is
<1>5. Reaches => app.mods = relay.raw_mods
  BY <1>4, HeadFresh
<1>6. app'.mods = app.mods
  <2>1. Bare(app) \subseteq {held_user_kc(relay)} /\ (~Reaches => Bare(app) = {})
    BY GrabReaches DEF EditQueue, HeldBare
  <2>2. TypesFrom(app)
    BY <1>2, <1>3, <1>5, <2>1, PressTypes
  <2> QED BY <2>2 DEF TypesFrom
<1>7. PICK d \in on_key_pressed(key) :
        \/ /\ d.kind = "consumed"
           /\ SendFrom(app, <<UnstampedKey(key, 1)>>, rest)
           /\ relay' = k
        \/ /\ d.kind = "raw"
           /\ SendFrom(app, <<Key(key, 1)>>, rest)
           /\ relay' = StampPress(k, key)
        \/ d.kind = "apply" /\ ApplyPending(arm(k, key), d.edit, app, rest)
  BY <1>2 DEF PressKey
<1>8. d.kind = "apply" => d.edit \in EditSpecs
  BY <1>3, DecisionFacts
<1>9. app \in App /\ relay \in Relay /\ relay \in KeyStates
  BY TypesFacts
<1>10. k \in KeyStates /\ k \in Relay /\ SameKeys(relay, k) /\ k.late = relay.late
  BY <1>3, <1>9, StampFacts, TimerTyped, LateFacts DEF KeyStates
<1>11. Rests(rest)
  BY <1>4 DEF Rests
<1>12. UNCHANGED <<profile, user, desk>> /\ (running' # "no" => running # "no")
  BY <1>1 DEF outside
<1> HIDE DEF k, rest
<1>13. CASE d.kind = "consumed"
  <2>1. SendFrom(app, <<UnstampedKey(key, 1)>>, rest) /\ relay' = k
    BY <1>7, <1>13
  <2>2. Silent(<<UnstampedKey(key, 1)>>)
    BY <1>3, SilentKeys
  <2> QED BY <1>6, <1>9, <1>10, <1>11, <1>12, <2>1, <2>2, ForwardedMods DEF SameKeys
<1>14. CASE d.kind = "raw"
  <2>1. SendFrom(app, <<Key(key, 1)>>, rest) /\ relay' = StampPress(k, key)
    BY <1>7, <1>14
  <2>2. Silent(<<Key(key, 1)>>)
    BY <1>3, SilentKeys
  <2>3. /\ relay'.raw_mods = relay.raw_mods /\ relay'.expected = relay.expected
        /\ relay'.late = relay.late
    <3>1. StampPress(k, key).late = k.late
      BY <1>10, LateFacts
    <3> QED BY <1>3, <1>10, <2>1, <3>1, StampFacts DEF SameKeys
  <2> QED BY <1>6, <1>9, <1>11, <1>12, <2>1, <2>2, <2>3, ForwardedMods
<1>15. CASE d.kind = "apply"
  <2>1. ApplyPending(arm(k, key), d.edit, app, rest) /\ d.edit \in EditSpecs
    BY <1>7, <1>8, <1>15
  <2>2. arm(k, key) \in Relay /\ SameKeys(relay, arm(k, key)) /\ arm(k, key).late = relay.late
    <3>1. arm(k, key) \in Relay /\ SameKeys(k, arm(k, key)) /\ arm(k, key).late = k.late
      BY <1>3, <1>10, StampFacts, TimerTyped, LateFacts DEF KeyStates
    <3> QED BY <1>10, <3>1 DEF SameKeys
  <2> QED BY <1>5, <1>6, <1>9, <1>11, <1>12, <2>1, <2>2, ApplyPendingMods
<1> QED BY <1>7, <1>13, <1>14, <1>15

(* ... a repeat, ...                                                       *)
LEMMA RepeatedMods ==
  ASSUME Types, Queue, EditQueue, ModsQueue, NEW key \in KeyCodes, NEW pulse, NEW rest, Rests(rest),
         NEW a \in App, a.mods = app.mods, a.swallowed = app.swallowed, a.stray = app.stray,
         Bare(a) = Bare(app), RepeatKey(key, pulse, a, rest), Reaches => app.mods = relay.raw_mods,
         UNCHANGED <<profile, user, desk>>, running' # "no" => running # "no"
  PROVE  ModsQueue'
<1> DEFINE requests == IF pulse THEN <<Key(key, 1), Key(key, 0)>> ELSE <<Key(key, 2)>>
<1>1. app'.mods = app.mods
  <2>1. Bare(a) \subseteq {held_user_kc(relay)} /\ (Reaches => a.mods = relay.raw_mods)
    BY DEF EditQueue, HeldBare
  <2>2. TypesFrom(a)
    BY <2>1, RepeatTypes
  <2> QED BY <2>2 DEF TypesFrom
<1>2. PICK d \in on_key_pressed(key) :
        \/ /\ d.kind = "consumed"
           /\ SendFrom(a, <<UnstampedKey(key, 2)>>, rest)
           /\ UNCHANGED relay
        \/ /\ d.kind = "raw"
           /\ SendFrom(a, requests, rest)
           /\ UNCHANGED relay
        \/ d.kind = "apply" /\ ApplyPending(relay, d.edit, a, rest)
  BY DEF RepeatKey
<1>3. d.kind = "apply" => d.edit \in EditSpecs
  BY DecisionFacts
<1>4. relay \in Relay /\ SameKeys(relay, relay)
  BY TypesFacts DEF SameKeys
<1>5. Silent(<<UnstampedKey(key, 2)>>) /\ Silent(requests)
  BY SilentKeys
<1> HIDE DEF requests
<1>6. CASE d.kind = "consumed"
  <2>1. SendFrom(a, <<UnstampedKey(key, 2)>>, rest) /\ relay' = relay
    BY <1>2, <1>6
  <2> QED BY <1>1, <1>5, <2>1, ForwardedMods
<1>7. CASE d.kind = "raw"
  <2>1. SendFrom(a, requests, rest) /\ relay' = relay
    BY <1>2, <1>7
  <2> QED BY <1>1, <1>5, <2>1, ForwardedMods
<1>8. CASE d.kind = "apply"
  <2>1. ApplyPending(relay, d.edit, a, rest) /\ d.edit \in EditSpecs
    BY <1>2, <1>3, <1>8
  <2> QED BY <1>1, <1>4, <2>1, ApplyPendingMods
<1> QED BY <1>2, <1>6, <1>7, <1>8

(* ... of the compositor ...                                               *)
LEMMA RepeatMods ==
  ASSUME Types, Queue, EditQueue, ModsQueue, dispatch_key_repeat PROVE ModsQueue'
<1> DEFINE key == Head(socket).key
           rest == Tail(socket)
<1>1. /\ Arrives("key") /\ Head(socket).value = 2 /\ UNCHANGED <<outside, focus>>
  BY RepeatDigest
<1>2. RepeatKey(key, FALSE, app, rest)
  BY DEF dispatch_key_repeat
<1>3. key \in KeyCodes
  BY <1>1, ArrivesFacts, KeyEventTyped
<1> HIDE DEF key
<1>4. /\ socket # <<>> /\ running # "no" /\ Is(1, "key") /\ ~Is(1, "mods") /\ socket[1].value = 2
  BY <1>1, HeadPlace DEF Is
<1>5. Reaches => app.mods = relay.raw_mods
  BY <1>4, HeadFresh
<1>6. Rests(rest) /\ app \in App
  BY <1>4, TypesFacts DEF Rests
<1>7. UNCHANGED <<profile, user, desk>> /\ (running' # "no" => running # "no")
  BY <1>1 DEF outside
<1> HIDE DEF rest
<1> QED BY <1>2, <1>3, <1>5, <1>6, <1>7, RepeatedMods

(* ... or of the timer, ...                                                *)
LEMMA FiresMods ==
  ASSUME Types, Queue, EditQueue, ModsQueue, RepeatFires PROVE ModsQueue'
<1> DEFINE faults == IF relay.held \in user THEN app.faults ELSE app.faults \cup {"trailing_repeat"}
           a == [app EXCEPT !.faults = faults]
<1>1. /\ running = "yes" /\ socket = <<>> /\ relay.held # None
      /\ UNCHANGED <<profile, user, desk, running, focus>>
  BY FiresFacts
<1>2. RepeatKey(relay.held, TRUE, a, <<>>)
  BY DEF RepeatFires
<1>3. relay.held \in KeyCodes /\ app \in App
  BY <1>1, TypesFacts DEF Relay
<1>4. /\ a \in App /\ a.mods = app.mods /\ a.swallowed = app.swallowed /\ a.stray = app.stray
      /\ Bare(a) = Bare(app)
  <2>1. faults \in SUBSET {"lost_glyph", "modified_backspace", "trailing_repeat"}
    BY <1>3 DEF App
  <2> HIDE DEF faults
  <2> QED BY <1>3, <2>1 DEF App, Bare
<1> HIDE DEF a
<1>5. Reaches => app.mods = relay.raw_mods
  BY <1>1, HeadFresh
<1>6. Rests(<<>>)
  BY <1>1 DEF Rests
<1> QED BY <1>1, <1>2, <1>3, <1>4, <1>5, <1>6, RepeatedMods

(* ... and a release.                                                      *)
LEMMA ReleaseMods ==
  ASSUME Types, Queue, EditQueue, ModsQueue, dispatch_key_release PROVE ModsQueue'
<1> DEFINE key == Head(socket).key
           k == release(relay, key)
           rest == Tail(socket)
<1>1. key \in UserKeys /\ Arrives("key") /\ UNCHANGED <<outside, focus>>
  BY ReleaseDigest
<1>2. SendFrom(app, <<Key(key, 0)>>, rest) /\ relay' = StampRelease(k, key)
  BY DEF dispatch_key_release
<1>3. key \in KeyCodes /\ app \in App /\ relay \in Relay /\ relay \in KeyStates
  BY <1>1, TypesFacts DEF KeyCodes
<1> HIDE DEF key
<1>4. k \in Relay /\ SameKeys(relay, k) /\ k.late = relay.late
  <2>1. k \in KeyStates /\ SameKeys(relay, k) /\ k.late = relay.late
    BY <1>3, StampFacts, TimerTyped, LateFacts
  <2> QED BY <2>1 DEF KeyStates
<1> HIDE DEF k
<1>5. /\ relay'.raw_mods = relay.raw_mods /\ relay'.expected = relay.expected
      /\ relay'.late = relay.late
  <2>1. /\ StampRelease(k, key).raw_mods = k.raw_mods /\ StampRelease(k, key).expected = k.expected
        /\ StampRelease(k, key).late = k.late
    BY <1>3, <1>4, StampFacts, LateFacts
  <2> QED BY <1>2, <1>4, <2>1 DEF SameKeys
<1>6. socket # <<>> /\ running # "no" /\ ~Is(1, "mods")
  BY <1>1, HeadPlace DEF Is
<1>7. PICK b : b = TakeAll(app, <<Key(key, 0)>>) /\ Forwarded(app, key, 0, b)
  BY <1>3, ForwardGentle
<1>8. app'.mods = app.mods
  <2>1. app' = IF Reaches THEN b ELSE app
    BY <1>2, <1>7 DEF SendFrom
  <2> QED BY <1>7, <2>1 DEF Forwarded
<1>9. Rests(rest) /\ UNCHANGED <<profile, user, desk>> /\ (running' # "no" => running # "no")
  BY <1>1, <1>6 DEF Rests, outside
<1>10. Silent(<<Key(key, 0)>>)
  BY <1>3, SilentKeys
<1> HIDE DEF rest
<1> QED BY <1>2, <1>3, <1>5, <1>8, <1>9, <1>10, ForwardedMods

(* The mask that waits first is taken.                                     *)
LEMMA FirstTaken ==
  ASSUME NEW s \in Seq(Events), s # <<>>, s[1].type = "mods",
         NEW N, N = [p \in DOMAIN MasksIn(s) \ {1} |-> MasksIn(s)[p]]
  PROVE  /\ 1 \in DOMAIN MasksIn(s) /\ MasksIn(s)[1] = s[1].mask
         /\ \A q \in DOMAIN MasksIn(s) : 1 <= q
         /\ \A E, m, U : Settled(N, E, m, U) => Settled(MasksIn(Tail(s)), E, m, U)
         /\ DOMAIN N \subseteq Nat
<1> DEFINE M == MasksIn(s)
           T == MasksIn(Tail(s))
<1>1. Tail(s) \in Seq(Events) /\ 1 \in DOMAIN s /\ \A i \in DOMAIN s : i \in Nat /\ 1 <= i
  BY TailFacts
<1>2. /\ DOMAIN M = {i \in DOMAIN s : s[i].type = "mods"}
      /\ DOMAIN M \subseteq Nat /\ DOMAIN T \subseteq Nat
      /\ \A i \in DOMAIN M : M[i] = s[i].mask
  BY <1>1, MasksPlaces
<1>3. /\ \A p \in DOMAIN M : p # 1 => p - 1 \in DOMAIN T /\ T[p - 1] = M[p]
      /\ \A q \in DOMAIN T : q + 1 \in DOMAIN M
  BY MasksTail
<1>4. 1 \in DOMAIN M /\ M[1] = s[1].mask /\ \A q \in DOMAIN M : 1 <= q
  BY <1>1, <1>2
<1> HIDE DEF M, T
<1>5. ASSUME NEW E, NEW m, NEW U, Settled(N, E, m, U) PROVE Settled(T, E, m, U)
  <2>1. N = [p \in DOMAIN M \ {1} |-> M[p]]
    BY DEF M
  <2>2. DOMAIN N = DOMAIN M \ {1} /\ \A p \in DOMAIN N : N[p] = M[p]
    BY <2>1
  <2>3. DOMAIN N \subseteq Nat /\ \A p \in DOMAIN N : p - 1 \in DOMAIN T /\ T[p - 1] = N[p]
    BY <1>2, <1>3, <2>2
  <2>4. \A q \in DOMAIN T : q + 1 \in DOMAIN N
    <3>1. ASSUME NEW q \in DOMAIN T PROVE q + 1 # 1
      <4>1. q \in Nat
        BY <1>2
      <4>2. q # 0
        <5>1. q \in DOMAIN Tail(s)
          BY <1>1, MasksPlaces DEF T
        <5> QED BY <5>1, TailFacts
      <4> QED BY <4>1, <4>2
    <3> QED BY <1>3, <2>2, <3>1
  <2>5. 1 \in Nat
    OBVIOUS
  <2> QED BY <1>2, <1>5, <2>3, <2>4, <2>5, SettledMoves
<1>6. DOMAIN N \subseteq Nat
  BY <1>2 DEF M
<1> QED BY <1>4, <1>5, <1>6 DEF M, T

(* It is the echo that is awaited.                                         *)
LEMMA FirstEcho ==
  ASSUME NEW s \in Seq(Events), s # <<>>, s[1].type = "mods",
         NEW E \in Seq(Masks), E # <<>>, s[1].mask = Head(E), NEW m, NEW U,
         Settled(MasksIn(s), E, m, U)
  PROVE  Settled(MasksIn(Tail(s)), Tail(E), m, U)
<1> DEFINE M == MasksIn(s)
           N == [p \in DOMAIN M \ {1} |-> M[p]]
<1>1. /\ 1 \in DOMAIN M /\ M[1] = Head(E)
      /\ \A q \in DOMAIN M : 1 <= q
      /\ Settled(N, Tail(E), m, U) => Settled(MasksIn(Tail(s)), Tail(E), m, U)
  BY FirstTaken
<1>2. DOMAIN M \subseteq Nat
  BY MasksPlaces
<1>3. DOMAIN N = DOMAIN M \ {1} /\ \A q \in DOMAIN N : N[q] = M[q]
  OBVIOUS
<1>4. Settled(M, E, m, U)
  OBVIOUS
<1> HIDE DEF M, N
<1>5. Settled(N, Tail(E), m, U)
  BY <1>1, <1>2, <1>3, <1>4, SettledEcho
<1> QED BY <1>1, <1>5

(* The reply to a mask.                                                    *)
LEMMA MaskReply ==
  ASSUME NEW m \in Masks, NEW mask \in Masks
  PROVE  Reply(m, <<Modifiers(mask)>>) =
           IF mask = m THEN <<>> ELSE <<ModsEvent(mask, "echo")>>
<1> DEFINE acc == [mods |-> m, events |-> <<>>]
<1>1. acc \in Accs /\ acc.mods = m /\ acc.events = <<>>
  BY DEF Accs
<1>2. Append(<<>>, ModsEvent(mask, "echo")) = <<ModsEvent(mask, "echo")>>
  OBVIOUS
<1> HIDE DEF acc
<1>3. EchoAll(acc, <<Modifiers(mask)>>) =
        IF mask = acc.mods THEN acc
        ELSE [mods |-> mask, events |-> Append(acc.events, ModsEvent(mask, "echo"))]
  BY <1>1, EchoMask
<1>4. EchoAll(acc, <<Modifiers(mask)>>).events =
        IF mask = m THEN <<>> ELSE <<ModsEvent(mask, "echo")>>
  BY <1>1, <1>2, <1>3
<1> QED BY <1>4 DEF Reply, acc

(* It is taken for the user's.                                             *)
LEMMA FirstUser ==
  ASSUME NEW s \in Seq(Events), s # <<>>, s[1].type = "mods", NEW mask \in Masks, s[1].mask = mask,
         NEW E \in Seq(Masks), ~(E # <<>> /\ mask = Head(E)), NEW m \in Masks, NEW U,
         Settled(MasksIn(s), E, m, U)
  PROVE  Settled(MasksIn(Tail(s) \o Reply(m, <<Modifiers(mask)>>)), E, mask, U)
<1> DEFINE M == MasksIn(s)
           L == [p \in DOMAIN M \ {1} |-> M[p]]
           last == Len(s) + 1
<1>1. /\ 1 \in DOMAIN M /\ M[1] = mask
      /\ \A q \in DOMAIN M : 1 <= q
      /\ \A F, n, V : Settled(L, F, n, V) => Settled(MasksIn(Tail(s)), F, n, V)
      /\ DOMAIN L \subseteq Nat
  BY FirstTaken
<1>2. DOMAIN M \subseteq 0 .. Len(s) /\ DOMAIN M \subseteq Nat
  BY MasksPlaces
<1>3. DOMAIN L = DOMAIN M \ {1} /\ \A q \in DOMAIN L : L[q] = M[q]
  OBVIOUS
<1>4. Settled(M, E, m, U)
  OBVIOUS
<1>5. Len(s) \in Nat /\ last \in Nat
  <2>1. Len(s) \in Nat
    OBVIOUS
  <2> QED BY <2>1
<1>6. Tail(s) \in Seq(Events)
  BY TailFacts
<1>7. CASE mask = m
  <2>1. Behind(L, L, {})
    BY <1>1 DEF Behind
  <2> HIDE DEF M, L, last
  <2>2. Behind(L, L, IF M[1] = m THEN {} ELSE {last})
    BY <1>1, <1>7, <2>1
  <2>3. Settled(L, E, M[1], U)
    BY <1>1, <1>2, <1>3, <1>4, <1>5, <1>7, <2>2, SettledTaken
  <2>4. Reply(m, <<Modifiers(mask)>>) = <<>>
    BY <1>7, MaskReply
  <2>5. Tail(s) \o <<>> = Tail(s)
    BY <1>6
  <2> QED BY <1>1, <2>3, <2>4, <2>5
<1>8. CASE mask # m
  <2>1. PICK e \in ModsEvents : e = ModsEvent(mask, "echo") /\ e.mask = mask /\ e \in Events
    BY ModsEventFacts
  <2> DEFINE big == s \o <<e>>
             B == MasksIn(big)
             N == [p \in DOMAIN B \ {1} |-> B[p]]
  <2>2. Reply(m, <<Modifiers(mask)>>) = <<e>>
    BY <1>8, <2>1, MaskReply
  <2>3. Behind(M, B, {last}) /\ B[last] = mask
    BY <2>1, MasksOne
  <2>4. <<e>> \in Seq(Events)
    BY <2>1
  <2>5. big \in Seq(Events) /\ big # <<>> /\ big[1] = s[1] /\ Tail(big) = Tail(s) \o <<e>>
    <3>1. \A x \in Seq(Events), y \in Seq(Events) :
            x # <<>> => x \o y \in Seq(Events) /\ x \o y # <<>> /\ (x \o y)[1] = x[1]
                        /\ Tail(x \o y) = Tail(x) \o y
      OBVIOUS
    <3> QED BY <2>4, <3>1
  <2>6. DOMAIN N = DOMAIN B \ {1} /\ \A p \in DOMAIN N : N[p] = B[p]
    OBVIOUS
  <2>7. \A F, n, V : Settled(N, F, n, V) => Settled(MasksIn(Tail(big)), F, n, V)
    <3> HIDE DEF big
    <3>1. big[1].type = "mods"
      BY <2>5
    <3> QED BY <2>5, <3>1, FirstTaken
  <2> HIDE DEF M, L, B, N, last, big
  <2>8. last # 1
    <3>1. 1 < last
      BY <1>1, <2>3 DEF Behind
    <3> QED BY <3>1, <1>5
  <2>9. Behind(L, N, {last}) /\ N[last] = M[1]
    BY <1>1, <1>3, <2>3, <2>6, <2>8 DEF Behind
  <2>10. Behind(L, N, IF M[1] = m THEN {} ELSE {last})
    BY <1>1, <1>8, <2>9
  <2>11. Settled(N, E, M[1], U)
    BY <1>1, <1>2, <1>3, <1>4, <1>5, <2>9, <2>10, SettledTaken
  <2>12. Settled(MasksIn(Tail(big)), E, mask, U)
    BY <1>1, <2>7, <2>11
  <2> QED BY <2>2, <2>5, <2>12
<1> QED BY <1>7, <1>8

(* What waits last is the user's.                                          *)
LEMMA FinalTail ==
  ASSUME NEW s \in Seq(Events), s # <<>>, NEW U, Final(MasksIn(s), U)
  PROVE  /\ Final(MasksIn(Tail(s)), U)
         /\ s[1].type = "mods" /\ DOMAIN MasksIn(Tail(s)) = {} => s[1].mask = U
<1> DEFINE M == MasksIn(s)
           N == MasksIn(Tail(s))
<1>1. Tail(s) \in Seq(Events) /\ 1 \in DOMAIN s
  BY TailFacts
<1>2. /\ DOMAIN M = {i \in DOMAIN s : s[i].type = "mods"} /\ \A i \in DOMAIN M : M[i] = s[i].mask
      /\ DOMAIN M \subseteq Nat /\ DOMAIN N \subseteq Nat
  BY <1>1, MasksPlaces
<1>3. /\ \A p \in DOMAIN M : p # 1 => p - 1 \in DOMAIN N /\ N[p - 1] = M[p]
      /\ \A q \in DOMAIN N : q + 1 \in DOMAIN M
  BY MasksTail
<1>4. \A q \in DOMAIN N : q # 0
  <2>1. \A q \in DOMAIN N : q \in DOMAIN Tail(s)
    BY <1>1, MasksPlaces
  <2> QED BY <2>1, TailFacts
<1>5. \A j \in DOMAIN s : j \in Nat /\ 1 <= j
  OBVIOUS
<1>6. 1 \in DOMAIN M => M[1] = s[1].mask
  BY <1>2
<1>7. s[1].type = "mods" => 1 \in DOMAIN M
  BY <1>1, <1>2
<1>8. Final(M, U)
  OBVIOUS
<1> HIDE DEF M, N
<1>9. ASSUME NEW i \in DOMAIN N, \A j \in DOMAIN N : j <= i PROVE N[i] = U
  <2>1. i \in Nat /\ i + 1 \in DOMAIN M /\ (i + 1) - 1 = i /\ i + 1 # 1
    BY <1>2, <1>3, <1>4
  <2>2. ASSUME NEW j \in DOMAIN M PROVE j <= i + 1
    <3>1. j \in Nat
      BY <1>2
    <3>2. j # 1 => j - 1 <= i
      BY <1>3, <1>9
    <3> QED BY <2>1, <3>1, <3>2
  <2>3. N[i] = M[i + 1]
    BY <1>3, <2>1
  <2> QED BY <1>8, <2>1, <2>2, <2>3 DEF Final
<1>10. ASSUME s[1].type = "mods", DOMAIN N = {} PROVE s[1].mask = U
  <2>1. \A j \in DOMAIN M : j <= 1
    BY <1>3, <1>10
  <2> QED BY <1>6, <1>7, <1>8, <1>10, <2>1 DEF Final
<1> QED BY <1>9, <1>10 DEF Final, M, N

(* A change of the modifiers is dispatched: the echo that is awaited is    *)
(* skipped, anything else becomes the application's.                       *)
LEMMA ModifiersMods ==
  ASSUME Types, Queue, EditQueue, ModsQueue, handle_modifiers PROVE ModsQueue'
<1> DEFINE mask == Head(socket).mask
           k == ForceReset(relay)
           swallowed == ~relay.late /\ k.expected # <<>> /\ mask = Head(k.expected)
           a == IF Head(socket).by = "echo" THEN app ELSE [app EXCEPT !.swallowed = swallowed]
           rest == Tail(socket)
<1>1. /\ Arrives("mods") /\ KeyDigest(app, {relay.held}, Tail(socket)) /\ UNCHANGED <<outside, focus>>
  BY ModifiersDigest
<1>2. \/ IsEcho(k, mask) /\ relay' = PopEcho(k) /\ app' = a /\ socket' = rest
      \/ ~IsEcho(k, mask) /\ relay' = [k EXCEPT !.raw_mods = mask]
         /\ SendFrom(a, <<Modifiers(mask)>>, rest)
  BY DEF handle_modifiers
<1>3. mask \in Masks
  BY <1>1, ArrivesFacts DEF Events, ModsEvents
<1>4. relay \in Relay /\ app \in App /\ app.mods \in Masks
  BY TypesFacts DEF App
<1>5. /\ a \in App /\ a.mods = app.mods /\ a.stray = app.stray
      /\ Head(socket).by # "echo" => a.swallowed = swallowed
  <2>1. swallowed \in BOOLEAN
    OBVIOUS
  <2> HIDE DEF swallowed
  <2> QED BY <1>4, <2>1 DEF App
<1>6. /\ socket # <<>> /\ running # "no" /\ Is(1, "mods") /\ socket \in Seq(Events)
  BY <1>1, HeadPlace DEF Types
<1>7. socket[1].type = "mods" /\ socket[1] = Head(socket) /\ socket[1].mask = mask /\ rest \in Seq(Events)
  <2>1. socket[1] = Head(socket) /\ 1 \in DOMAIN socket
    BY <1>6, TailFacts
  <2>2. rest \in Seq(Events)
    BY <1>6, TailFacts
  <2> QED BY <1>6, <2>1, <2>2 DEF Is
<1>8. /\ UNCHANGED <<profile, desk>> /\ UserMods' = UserMods /\ KeysGrabbed' = KeysGrabbed
      /\ running' = running
  BY <1>1 DEF outside, IsV2, KeysGrabbed, UserMods
<1>9. /\ k \in Relay /\ k.late = FALSE /\ (~relay.late => k = relay)
      /\ (relay.late => k.expected = <<>>)
  <2>1. <<>> \in Seq(Masks) /\ relay.late \in BOOLEAN
    BY <1>4 DEF Relay
  <2> QED BY <1>4, <2>1 DEF ForceReset, Relay
<1>10. ~KeysGrabbed => ~Reaches
  BY ReachesGrabbed DEF EditQueue
<1>11. rest \o <<>> = rest
  BY <1>7
<1> DEFINE EachGoal == profile.echo = "each" /\ KeysGrabbed /\ ~app'.stray
                         => Settled(MasksIn(socket'), relay'.expected, app'.mods, UserMods)
           NoneGoal == profile.echo = "none" =>
                         /\ socket' = rest
                         /\ KeysGrabbed /\ ~app'.swallowed => relay'.raw_mods = mask
<1>12. profile.echo = "each" /\ KeysGrabbed /\ ~app.stray
         => /\ Settled(MasksIn(socket), relay.expected, app.mods, UserMods)
            /\ k = relay
  BY <1>6, <1>9 DEF ModsQueue, EchoSettle, LateStray
<1>13. profile.echo = "none" => Head(socket).by = "user"
  <2>1. 1 \in DOMAIN socket
    BY <1>6, TailFacts
  <2> QED BY <1>6, <1>7, <2>1 DEF ModsQueue, NoEcho, ByUser
<1>14. relay.expected \in Seq(Masks) /\ k.expected \in Seq(Masks)
  BY <1>4, <1>9 DEF Relay
<1> DEFINE Goal == EachGoal /\ NoneGoal /\ (~KeysGrabbed => app'.mods = app.mods) /\ relay'.late = FALSE
<1>15. ASSUME IsEcho(k, mask) PROVE Goal
  <2>1. /\ relay' = PopEcho(k) /\ app' = a /\ socket' = rest
        /\ k.expected # <<>> /\ mask = Head(k.expected)
    BY <1>2, <1>15 DEF IsEcho
  <2>2. relay'.late = FALSE /\ relay'.expected = Tail(k.expected)
    <3> DEFINE late == k.late /\ Len(k.expected) > 1
               left == Tail(k.expected)
    <3>1. relay' = [k EXCEPT !.expected = left, !.late = late]
      BY <2>1 DEF PopEcho
    <3>2. late = FALSE
      BY <1>9
    <3> HIDE DEF late, left
    <3>3. relay'.late = FALSE /\ relay'.expected = left
      BY <1>9, <3>1, <3>2 DEF Relay
    <3> QED BY <3>3 DEF left
  <2>3. EachGoal
    <3> SUFFICES ASSUME profile.echo = "each", KeysGrabbed, ~app'.stray
                 PROVE  Settled(MasksIn(socket'), relay'.expected, app'.mods, UserMods)
      OBVIOUS
    <3>1. Settled(MasksIn(socket), relay.expected, app.mods, UserMods) /\ k = relay
      BY <1>5, <1>12, <2>1
    <3>2. Settled(MasksIn(rest), Tail(relay.expected), app.mods, UserMods)
      BY <1>6, <1>7, <1>14, <2>1, <3>1, FirstEcho
    <3> QED BY <1>5, <2>1, <2>2, <3>1, <3>2
  <2>4. NoneGoal
    BY <1>5, <1>9, <1>13, <2>1
  <2>5. ~KeysGrabbed => app'.mods = app.mods
    BY <1>5, <2>1
  <2>6. relay'.late = FALSE
    BY <2>2
  <2> QED BY <2>3, <2>4, <2>5, <2>6
<1>16. ASSUME ~IsEcho(k, mask) PROVE Goal
  <2>1. relay' = [k EXCEPT !.raw_mods = mask] /\ SendFrom(a, <<Modifiers(mask)>>, rest)
    BY <1>2, <1>16
  <2>2. relay'.late = FALSE /\ relay'.raw_mods = mask /\ relay'.expected = k.expected
    BY <1>9, <2>1 DEF Relay
  <2>3. PICK b : /\ b = TakeAll(a, <<Modifiers(mask)>>) /\ b.mods = mask
    BY <1>3, <1>5, GentleMask
  <2>4. a.stray => b.stray
    <3>1. <<Modifiers(mask)>> \in Seq(Requests)
      <4>1. Modifiers(mask) \in Requests
        BY <1>3, RequestsTyped
      <4> QED BY <4>1
    <3> QED BY <1>5, <2>3, <3>1, StrayTaken
  <2>5. app' = IF Reaches THEN b ELSE a
    BY <2>1, <2>3 DEF SendFrom
  <2>6. socket' = IF Reaches THEN rest \o Echoes(a, <<Modifiers(mask)>>) ELSE rest
    BY <2>1 DEF SendFrom
  <2>7. EachGoal
    <3> SUFFICES ASSUME profile.echo = "each", KeysGrabbed, ~app'.stray
                 PROVE  Settled(MasksIn(socket'), relay'.expected, app'.mods, UserMods)
      OBVIOUS
    <3>1. Reaches
      BY GrabReaches
    <3>2. app' = b /\ socket' = rest \o Echoes(a, <<Modifiers(mask)>>)
      BY <2>5, <2>6, <3>1
    <3>3. ~app.stray
      BY <1>5, <2>4, <3>2
    <3>4. Settled(MasksIn(socket), relay.expected, app.mods, UserMods) /\ k = relay
      BY <1>12, <3>3
    <3>5. Echoes(a, <<Modifiers(mask)>>) = Reply(app.mods, <<Modifiers(mask)>>)
      BY <1>5 DEF Echoes, Reply, EchoAll
    <3>6. ~(relay.expected # <<>> /\ mask = Head(relay.expected))
      BY <1>16, <3>4 DEF IsEcho
    <3>7. Settled(MasksIn(rest \o Reply(app.mods, <<Modifiers(mask)>>)), relay.expected, mask, UserMods)
      BY <1>3, <1>4, <1>6, <1>7, <1>14, <3>4, <3>6, FirstUser
    <3> QED BY <2>2, <2>3, <3>2, <3>4, <3>5, <3>7
  <2>8. NoneGoal
    <3>1. profile.echo = "none" => Echoes(a, <<Modifiers(mask)>>) = <<>>
      BY DEF Echoes
    <3> QED BY <1>11, <2>2, <2>6, <3>1
  <2>9. ~KeysGrabbed => app'.mods = app.mods
    BY <1>5, <1>10, <2>5
  <2> QED BY <2>2, <2>7, <2>8, <2>9
<1>17. EchoSettle' /\ Ungrabbed' /\ LateStray'
  BY <1>6, <1>8, <1>15, <1>16 DEF EchoSettle, Ungrabbed, LateStray, ModsQueue
<1> HIDE DEF k, mask, a, EachGoal
<1>18. NoEcho'
  <2> SUFFICES ASSUME profile.echo = "none"
               PROVE  /\ ByUser(socket')
                      /\ KeysGrabbed =>
                           /\ Final(MasksIn(socket'), UserMods)
                           /\ DOMAIN MasksIn(socket') = {} /\ ~app'.swallowed
                                => relay'.raw_mods = UserMods
    BY <1>8 DEF NoEcho
  <2>1. /\ socket' = Tail(socket)
        /\ KeysGrabbed /\ ~app'.swallowed => relay'.raw_mods = mask
    BY <1>15, <1>16
  <2>2. ByUser(socket) /\ (KeysGrabbed => Final(MasksIn(socket), UserMods))
    BY <1>6 DEF ModsQueue, NoEcho
  <2>3. ByUser(socket')
    <3>1. \A i \in DOMAIN Tail(socket) : i + 1 \in DOMAIN socket /\ Tail(socket)[i] = socket[i + 1]
      BY <1>6, TailFacts
    <3> QED BY <2>1, <2>2, <3>1 DEF ByUser
  <2>4. KeysGrabbed => /\ Final(MasksIn(socket'), UserMods)
                       /\ DOMAIN MasksIn(socket') = {} => mask = UserMods
    BY <1>6, <1>7, <2>1, <2>2, FinalTail
  <2> QED BY <2>1, <2>3, <2>4
<1> QED BY <1>17, <1>18 DEF ModsQueue

(* The keyboard's dispatch.                                                *)
LEMMA KeyboardMods ==
  ASSUME Types, Queue, EditQueue, ModsQueue, Keyboard PROVE ModsQueue'
<1>1. CASE RepeatInfo
  <2>1. /\ Arrives("repeat_info") /\ app' = app /\ UNCHANGED <<outside, focus>>
    BY <1>1, RepeatInfoDigest
  <2>2. relay' = set_info(relay, Head(socket).positive) /\ socket' = Tail(socket)
    BY <1>1 DEF RepeatInfo
  <2>3. Head(socket).positive \in BOOLEAN
    BY <2>1, ArrivesFacts DEF Events, ModsEvents
  <2>4. relay'.raw_mods = relay.raw_mods /\ relay'.expected = relay.expected
    <3>1. relay \in Relay
      BY TypesFacts
    <3> QED BY <2>2, <2>3, <3>1 DEF set_info, Relay
  <2>5. relay'.late = relay.late
    <3>1. relay \in Relay
      BY TypesFacts
    <3> QED BY <2>2, <2>3, <3>1, LateFacts
  <2>6. socket # <<>> /\ ~Is(1, "mods") /\ running # "no" /\ socket \in Seq(Events)
    BY <2>1, HeadPlace DEF Is, Types
  <2>7. Rests(Tail(socket)) /\ Tail(socket) \in Seq(Events)
    BY <2>6, TailFacts DEF Rests
  <2>8. /\ <<>> \in Seq(Events) /\ Tail(socket) \o <<>> = Tail(socket)
        /\ \A i \in DOMAIN <<>> : <<>>[i].type # "mods"
    BY <2>7
  <2>9. /\ UNCHANGED profile /\ UserMods' = UserMods /\ KeysGrabbed' = KeysGrabbed
        /\ running' # "no" => running # "no"
    BY <2>1 DEF outside, IsV2, KeysGrabbed, UserMods
  <2> QED BY <2>1, <2>2, <2>4, <2>5, <2>7, <2>8, <2>9, ModsKept DEF ModsQueue, LateStray
<1> QED BY <1>1, PressMods, ReleaseMods, RepeatMods, ModifiersMods DEF Keyboard

(* Silent requests behind others.                                          *)
LEMMA SuffixReply ==
  ASSUME NEW m \in Masks, NEW s \in Seq(Requests), NEW t, Silent(t)
  PROVE  Reply(m, s \o t) = Reply(m, s)
<1> DEFINE acc == [mods |-> m, events |-> <<>>]
<1>1. acc \in Accs
  BY DEF Accs
<1> HIDE DEF acc
<1>2. t \in Seq(Requests)
  BY DEF Silent
<1>3. EchoAll(acc, s \o t) = EchoAll(EchoAll(acc, s), t) /\ EchoAll(acc, s) \in Accs
  BY <1>1, <1>2, EchoConcat
<1>4. EchoAll(EchoAll(acc, s), t) = EchoAll(acc, s)
  BY <1>3, EchoSilent DEF Silent
<1>5. EchoAll(acc, s \o t).events = EchoAll(acc, s).events
  BY <1>3, <1>4
<1> QED BY <1>5 DEF Reply, acc

(* A frame is applied, with the masks of its repair.                       *)
LEMMA DoneMods ==
  ASSUME Types, Queue, EditQueue, ModsQueue, NEW f \in Frame, NEW rest, Rests(rest),
         apply_done_frame(f, rest), running # "no", UNCHANGED <<outside, focus>>
  PROVE  ModsQueue'
<1> DEFINE r == OpenOrClose(f)
           After(dead) == NoteText(r, f, dead /\ ~Opens(f))
           Edit(dead, repair) ==
             IF repair = None THEN <<>>
             ELSE EditRequests(profile.protocol, relay, After(dead).functional, repair, None)
           Acked(dead, repair) == Commit \in Range(Edit(dead, repair))
           Heartbeat(dead, repair) == IF IsV2 /\ ~Acked(dead, repair) THEN <<Commit>> ELSE <<>>
           Before(repair) == [app EXCEPT !.owed = IsV2,
                                         !.covered = IF repair = None THEN @ ELSE app.down]
<1>1. PICK dead \in BOOLEAN, repair \in Repairs(r, f) :
        /\ SendFrom(Before(repair), Edit(dead, repair) \o Heartbeat(dead, repair), rest)
        /\ relay' = IF repair = None THEN relay
                    ELSE AfterEdit(profile.protocol, relay, After(dead).functional, repair)
  BY DEF apply_done_frame
<1> DEFINE edit == Edit(dead, repair)
           heartbeat == Heartbeat(dead, repair)
           before == Before(repair)
           covered == IF repair = None THEN app.covered ELSE app.down
<1>2. app \in App /\ relay \in Relay /\ relay \in KeyStates
  BY TypesFacts
<1>3. repair # None => router.raw /\ repair \in EditSpecs
  <2>1. repair # None => r.raw /\ repair \in EditSpecs
    BY <1>1, EditsTyped DEF Repairs
  <2> QED BY <2>1, FrameRaw DEF EditQueue
<1>4. /\ before \in App /\ before.mods = app.mods /\ before.stray = app.stray
      /\ before.swallowed = app.swallowed
      /\ repair # None => Bare(before) = {}
  <2>1. before = [app EXCEPT !.owed = IsV2, !.covered = covered]
    OBVIOUS
  <2>2. covered \in SUBSET KeyCodes /\ IsV2 \in BOOLEAN
    BY <1>2 DEF App, IsV2
  <2>3. repair # None => covered = app.down
    OBVIOUS
  <2> HIDE DEF covered, before
  <2> QED BY <1>2, <2>1, <2>2, <2>3 DEF App, Bare
<1>5. SendFrom(before, edit \o heartbeat, rest)
  BY <1>1
<1>6. heartbeat \in {<<>>, <<Commit>>}
  OBVIOUS
<1>7. repair = None => edit = <<>> /\ relay' = relay
  BY <1>1
<1>8. repair # None =>
        \E functional : /\ edit = EditRequests(profile.protocol, relay, functional, repair, None)
                        /\ relay' = AfterEdit(profile.protocol, relay, functional, repair)
  BY <1>1
<1> HIDE DEF edit, heartbeat, before, r
<1>9. Silent(heartbeat)
  <2>1. Commit \in Requests /\ Commit.op # "mods"
    BY QuietRequest DEF Commit
  <2> QED BY <1>6, <2>1, SilentBlocks
<1>10. heartbeat \in Seq(Requests)
  BY <1>9 DEF Silent
<1>11. ASSUME NEW a \in App PROVE TakeAll(a, heartbeat).mods = a.mods
  <2>1. TakeAll(a, <<>>) = a
    BY TakeNone
  <2> QED BY <1>6, <2>1, GentleText
<1>12. UNCHANGED <<profile, user, desk>> /\ (running' # "no" => running # "no")
  BY DEF outside
<1>13. CASE repair = None
  <2>1. edit \o heartbeat = heartbeat
    BY <1>7, <1>10, <1>13
  <2>2. SendFrom(before, heartbeat, rest) /\ relay' = relay
    BY <1>5, <1>7, <1>13, <2>1
  <2>3. app'.mods = app.mods
    BY <1>4, <1>11, <2>2 DEF SendFrom
  <2> QED BY <1>4, <1>9, <1>12, <2>2, <2>3, ForwardedMods
<1>14. CASE repair # None
  <2>1. Reaches => app.mods = relay.raw_mods
    BY <1>3, <1>14, RepairFresh
  <2>2. PICK functional :
          /\ edit = EditRequests(profile.protocol, relay, functional, repair, None)
          /\ relay' = AfterEdit(profile.protocol, relay, functional, repair)
    BY <1>8, <1>14
  <2>3. relay'.raw_mods = relay.raw_mods
    BY <1>2, <2>2, AfterEditFacts
  <2>4. edit \in Seq(Requests)
    BY <1>2, <1>3, <1>14, <2>2, EditFacts DEF Tidy
  <2>5. relay'.late => relay.late
    BY <1>2, <2>2, LateFacts
  <2>6. PICK b : b = TakeAll(before, edit)
    OBVIOUS
  <2>7. b \in App
    BY <1>4, <2>4, <2>6, StrayTaken
  <2>8. TakeAll(before, edit \o heartbeat) = TakeAll(b, heartbeat)
    BY <1>4, <1>10, <2>4, <2>6, TakeConcat
  <2>9. Reaches => b.mods = before.mods
    <3>1. Reaches => Gentle(before, b) /\ b.mods = before.mods
      BY <1>2, <1>3, <1>4, <1>14, <2>1, <2>2, <2>6, EditGentle
    <3> QED BY <3>1
  <2>10. app'.mods = app.mods
    BY <1>4, <1>5, <1>11, <2>7, <2>8, <2>9 DEF SendFrom
  <2>11. \/ b.stray
         \/ Answers(relay.raw_mods, edit, relay.expected, relay'.expected)
    BY <1>2, <1>3, <1>4, <1>14, <2>2, <2>6, EditAnswers
  <2>12. b.stray => TakeAll(before, edit \o heartbeat).stray
    BY <1>10, <2>7, <2>8, StrayTaken
  <2>13. ASSUME Reaches, Answers(relay.raw_mods, edit, relay.expected, relay'.expected)
         PROVE  Answers(app.mods, edit \o heartbeat, relay.expected, relay'.expected)
    <3>1. app.mods \in Masks /\ app.mods = relay.raw_mods
      BY <1>2, <2>1, <2>13 DEF App
    <3>2. Reply(app.mods, edit \o heartbeat) = Reply(app.mods, edit)
      BY <1>9, <2>4, <3>1, SuffixReply
    <3> QED BY <2>13, <3>1, <3>2 DEF Answers
  <2>14. \/ TakeAll(before, edit \o heartbeat).stray
         \/ Answers(app.mods, edit \o heartbeat, relay.expected, relay'.expected)
         \/ ~Reaches
    BY <2>11, <2>12, <2>13
  <2>15. edit \o heartbeat \in Seq(Requests)
    BY <1>10, <2>4, PairFacts
  <2> QED BY <1>4, <1>5, <1>12, <2>3, <2>5, <2>10, <2>14, <2>15, SentMods
<1> QED BY <1>13, <1>14

(* The modifiers as the adapter follows them.                              *)
SameMods ==
  /\ relay'.expected = relay.expected /\ relay'.raw_mods = relay.raw_mods
  /\ relay'.late = relay.late

(* An event that is no mask is taken, and no mask is sent.                 *)
LEMMA EventMods ==
  ASSUME Types, ModsQueue, NEW type, Arrives(type), type # "mods", socket' = Tail(socket),
         UNCHANGED <<profile, user, app>>, KeysGrabbed' = KeysGrabbed, SameMods
  PROVE  ModsQueue'
<1>1. socket # <<>> /\ ~Is(1, "mods") /\ running # "no" /\ socket \in Seq(Events)
  BY HeadPlace DEF Is, Types
<1>2. Rests(Tail(socket)) /\ Tail(socket) \in Seq(Events)
  BY <1>1, TailFacts DEF Rests
<1>3. /\ <<>> \in Seq(Events) /\ Tail(socket) \o <<>> = Tail(socket)
      /\ \A i \in DOMAIN <<>> : <<>>[i].type # "mods"
  BY <1>2
<1>4. UserMods' = UserMods
  BY DEF UserMods
<1> QED BY <1>1, <1>2, <1>3, <1>4, ModsKept DEF ModsQueue, LateStray, SameMods

(* A mask of the user comes behind others.                                 *)
LEMMA UserMask ==
  ASSUME NEW s \in Seq(Events), NEW U \in Masks, NEW t, t = s \o <<ModsEvent(U, "user")>>
  PROVE  /\ \A f, E, m : Awaits(f, MasksIn(s), E) => Settled(MasksIn(t), E, m, U)
         /\ ByUser(s) => ByUser(t)
         /\ Final(MasksIn(t), U) /\ DOMAIN MasksIn(t) # {}
<1>1. PICK e \in ModsEvents : e = ModsEvent(U, "user") /\ e.mask = U /\ e.by = "user" /\ e \in Events
  BY ModsEventFacts
<1>2. t = s \o <<e>> /\ <<e>> \in Seq(Events)
  BY <1>1
<1>3. PICK q : q = Len(s) + 1
  OBVIOUS
<1>4. Behind(MasksIn(s), MasksIn(t), {q}) /\ MasksIn(t)[q] = U
  BY <1>1, <1>2, <1>3, MasksOne
<1>5. q \in Nat /\ q \in DOMAIN MasksIn(t)
  BY <1>4 DEF Behind
<1>6. ASSUME NEW f, NEW E, NEW m, Awaits(f, MasksIn(s), E) PROVE Settled(MasksIn(t), E, m, U)
  BY <1>4, <1>6, SettledUser
<1>7. ASSUME ByUser(s), NEW j \in DOMAIN (s \o <<e>>), (s \o <<e>>)[j].type = "mods"
      PROVE  (s \o <<e>>)[j].by = "user"
  <2>1. \/ j \in DOMAIN s /\ (s \o <<e>>)[j] = s[j]
        \/ j - Len(s) \in DOMAIN <<e>> /\ (s \o <<e>>)[j] = <<e>>[j - Len(s)]
    BY <1>2, ConcatFacts
  <2>2. \A i \in DOMAIN <<e>> : <<e>>[i] = e
    OBVIOUS
  <2> QED BY <1>1, <1>7, <2>1, <2>2 DEF ByUser
<1>8. ASSUME NEW i \in DOMAIN MasksIn(t), \A j \in DOMAIN MasksIn(t) : j <= i PROVE i = q
  <2>1. i = q \/ (i < q /\ i \in Nat)
    BY <1>4 DEF Behind
  <2>2. q <= i
    BY <1>5, <1>8
  <2> QED BY <1>5, <2>1, <2>2
<1> QED BY <1>2, <1>4, <1>5, <1>6, <1>7, <1>8 DEF ByUser, Final

(* The activation of protocol v1 that takes the grab: the application has  *)
(* the user's modifiers, and the compositor sends them.                    *)
LEMMA ActivationMods ==
  ASSUME Types, Types', Queue, EditQueue, ModsQueue, FillFrame, ~IsV2, Arrives("activate"),
         desk.active, Head(socket).epoch = desk.epoch
  PROVE  ModsQueue'
<1>1. /\ Head(socket) = socket[1] /\ 1 \in DOMAIN socket /\ Is(1, "activate")
      /\ socket # <<>> /\ running # "no"
  BY HeadPlace DEF Is
<1>2. /\ socket' = Tail(socket) \o <<ModsEvent(UserMods, "user")>>
      /\ UNCHANGED <<profile, user, relay, router, app, running>>
  BY DEF FillFrame, Arrives
<1>3. ~desk.grabbed
  <2>1. frame.ctx \in Nat /\ desk.epoch \in Nat
    BY TypesFacts DEF Frame, Desk
  <2>2. frame.ctx < desk.epoch
    BY <1>1, <2>1 DEF Queue, EpochsGrow, Is
  <2>3. frame.ctx # desk.epoch
    BY <2>1, <2>2
  <2> QED BY <2>3 DEF Queue, GrabCurrent, Current
<1>4. ~KeysGrabbed /\ app.mods = UserMods /\ relay.expected = <<>>
  BY <1>1, <1>3 DEF KeysGrabbed, ModsQueue, Ungrabbed, EditQueue, Plain
<1>5. KeysGrabbed'
  <2>1. desk' = [desk EXCEPT !.grabbed = @ \/ TRUE]
    BY <1>1 DEF FillFrame, Arrives
  <2>2. desk'.grabbed
    BY <2>1, TypesFacts DEF Desk
  <2> QED BY <2>2 DEF KeysGrabbed
<1>6. Tail(socket) \in Seq(Events) /\ Rests(Tail(socket))
  BY <1>1, TailFacts DEF Rests, Is, Types
<1>7. UserMods \in Masks /\ UserMods' = UserMods
  BY <1>2, TypesFacts DEF UserMods, Masks
<1>8. /\ \A f, E, m : Awaits(f, MasksIn(Tail(socket)), E) => Settled(MasksIn(socket'), E, m, UserMods)
      /\ ByUser(Tail(socket)) => ByUser(socket')
      /\ Final(MasksIn(socket'), UserMods) /\ DOMAIN MasksIn(socket') # {}
  BY <1>2, <1>6, <1>7, UserMask
<1>9. EchoSettle'
  <2>1. Awaits(<<>>, MasksIn(Tail(socket)), <<>>)
    <3>1. <<>> \in [DOMAIN <<>> -> DOMAIN MasksIn(Tail(socket))] /\ DOMAIN <<>> = {}
      OBVIOUS
    <3> QED BY <3>1 DEF Awaits
  <2>2. Settled(MasksIn(socket'), <<>>, app.mods, UserMods)
    BY <1>8, <2>1
  <2> QED BY <1>2, <1>4, <1>7, <2>2 DEF EchoSettle
<1>10. NoEcho'
  <2>1. profile.echo = "none" => ByUser(Tail(socket))
    BY <1>1, <1>6, RestMasks DEF ModsQueue, NoEcho
  <2> QED BY <1>2, <1>7, <1>8, <2>1 DEF NoEcho
<1>11. Ungrabbed' /\ LateStray'
  BY <1>2, <1>5 DEF ModsQueue, Ungrabbed, LateStray
<1> QED BY <1>9, <1>10, <1>11 DEF ModsQueue

(* The input method's dispatch.                                            *)
LEMMA InputMods ==
  ASSUME Types, Types', Queue, EditQueue, ModsQueue, Input PROVE ModsQueue'
<1>1. /\ cancel(relay).expected = relay.expected /\ cancel(relay).raw_mods = relay.raw_mods
      /\ cancel(relay).late = relay.late
  BY TypesFacts DEF cancel, Relay
<1>2. /\ relay' = relay \/ relay' = cancel(relay) => SameMods
      /\ UNCHANGED <<profile, desk>> => KeysGrabbed' = KeysGrabbed
  BY <1>1 DEF SameMods, KeysGrabbed, IsV2
<1>3. CASE FillFrame
  <2> DEFINE current == Head(socket).type = "activate" /\ ~IsV2 /\ desk.active
                         /\ Head(socket).epoch = desk.epoch
  <2>1. PICK type \in {"activate", "surrounding_text", "content_type", "cause"} : Arrives(type)
    BY <1>3 DEF FillFrame
  <2>2. CASE current
    <3>1. Arrives("activate") /\ ~IsV2 /\ desk.active /\ Head(socket).epoch = desk.epoch
      BY <2>1, <2>2 DEF Arrives
    <3> QED BY <1>3, <3>1, ActivationMods
  <2>3. CASE ~current
    <3>1. Tail(socket) \o <<>> = Tail(socket)
      <4>1. Tail(socket) \in Seq(Events)
        BY <2>1, TailFacts DEF Arrives, Types
      <4> QED BY <4>1
    <3>2. socket' = Tail(socket) /\ desk' = [desk EXCEPT !.grabbed = @ \/ FALSE]
          /\ UNCHANGED <<profile, user, relay, app>>
      BY <1>3, <2>3, <3>1 DEF FillFrame
    <3>3. desk'.grabbed = desk.grabbed
      BY <3>2, TypesFacts DEF Desk
    <3>4. KeysGrabbed' = KeysGrabbed /\ SameMods
      BY <1>2, <3>2, <3>3 DEF KeysGrabbed, IsV2
    <3>5. type # "mods"
      BY <2>1
    <3> QED BY <2>1, <3>2, <3>4, <3>5, EventMods
  <2> QED BY <2>2, <2>3
<1>4. CASE DeactivateV2
  <2>1. Arrives("deactivate") /\ relay' = cancel(relay) /\ socket' = Tail(socket)
        /\ UNCHANGED <<profile, user, desk, app>>
    BY <1>4 DEF DeactivateV2, outside
  <2> QED BY <1>2, <2>1, EventMods
<1>5. CASE DeactivateV1
  <2>1. Arrives("deactivate") /\ relay' = cancel(relay) /\ socket' = Tail(socket)
        /\ UNCHANGED <<profile, user, desk, app>>
    BY <1>5 DEF DeactivateV1, outside
  <2> QED BY <1>2, <2>1, EventMods
<1>6. CASE ResetV1
  <2>1. Arrives("reset") /\ socket' = Tail(socket) /\ UNCHANGED <<profile, user, desk, relay, app>>
    BY <1>6 DEF ResetV1, outside
  <2> QED BY <1>2, <2>1, EventMods
<1>7. CASE Unavailable
  <2>1. Arrives("unavailable") /\ socket' = Tail(socket)
        /\ UNCHANGED <<profile, user, desk, relay, app>>
    BY <1>7 DEF Unavailable, adapter
  <2> QED BY <1>2, <2>1, EventMods
<1> DEFINE f == [frame EXCEPT !.commit = FALSE]
<1>8. f \in Frame /\ frame \in Frame
  BY CommittedTyped, TypesFacts
<1> HIDE DEF f
<1>9. CASE Done
  <2>1. socket # <<>> /\ ~Is(1, "mods") /\ running # "no"
    BY <1>9, HeadPlace DEF Done, Is
  <2>2. apply_done_frame(frame, Tail(socket)) /\ UNCHANGED <<outside, focus>> /\ Rests(Tail(socket))
    BY <1>9, <2>1 DEF Done, Rests
  <2> QED BY <1>8, <2>1, <2>2, DoneMods
<1>10. CASE CommitState
  <2>1. socket # <<>> /\ ~Is(1, "mods") /\ running # "no" /\ Arrives("commit_state")
    BY <1>10, HeadPlace DEF CommitState, Is
  <2>2. UNCHANGED <<outside, focus>> /\ Rests(Tail(socket))
    BY <1>10, <2>1 DEF CommitState, Rests
  <2>3. \/ apply_done_frame(f, Tail(socket))
        \/ socket' = Tail(socket) /\ UNCHANGED <<relay, frame, router, app>>
    BY <1>10 DEF CommitState, f
  <2>4. CASE apply_done_frame(f, Tail(socket))
    BY <1>8, <2>1, <2>2, <2>4, DoneMods
  <2>5. CASE socket' = Tail(socket) /\ UNCHANGED <<relay, frame, router, app>>
    BY <1>2, <2>1, <2>2, <2>5, EventMods DEF outside
  <2> QED BY <2>3, <2>4, <2>5
<1>11. CASE EndOfDispatch
  <2>1. running # "no" /\ UNCHANGED <<outside, focus>> /\ Rests(socket) /\ apply_done_frame(f, socket)
    BY <1>11 DEF EndOfDispatch, f, Rests
  <2> QED BY <1>8, <2>1, DoneMods
<1> QED BY <1>3, <1>4, <1>5, <1>6, <1>7, <1>9, <1>10, <1>11 DEF Input

(* Events that are no masks come behind those that wait.                   *)
LEMMA AddedMods ==
  ASSUME Types, ModsQueue, NEW new \in Seq(Events), \A i \in DOMAIN new : new[i].type # "mods",
         socket' = socket \o new, UNCHANGED profile, UserMods' = UserMods,
         KeysGrabbed' = KeysGrabbed, running' # "no" => running # "no", SameMods, app' = app
  PROVE  ModsQueue'
<1>1. Rests(socket)
  BY DEF Rests
<1>2. relay'.late => app'.stray
  BY DEF ModsQueue, LateStray, SameMods
<1> QED BY <1>1, <1>2, ModsKept DEF SameMods

(* Nothing comes.                                                          *)
LEMMA StillMods ==
  ASSUME Types, ModsQueue, UNCHANGED <<profile, user, socket, app>>, KeysGrabbed' = KeysGrabbed,
         running' # "no" => running # "no", SameMods
  PROVE  ModsQueue'
<1>1. /\ <<>> \in Seq(Events) /\ \A i \in DOMAIN <<>> : <<>>[i].type # "mods"
  OBVIOUS
<1>2. socket' = socket \o <<>>
  BY DEF Types
<1>3. UserMods' = UserMods
  BY DEF UserMods
<1> QED BY <1>1, <1>2, <1>3, AddedMods

(* A window event, a focus change, time, the tray, and what the compositor *)
(* sends besides keys and turns.                                           *)
LEMMA OthersMods ==
  ASSUME Types, ModsQueue,
         \/ UNCHANGED vars \/ WindowFields \/ FocusChanges \/ EchoTimeout \/ Toggle
         \/ Compositor /\ ~EnableInput /\ ~DisableInput
  PROVE  ModsQueue'
<1>1. /\ UNCHANGED <<profile, desk>> => KeysGrabbed' = KeysGrabbed
      /\ relay' = relay => SameMods
      /\ UNCHANGED user => UserMods' = UserMods
  BY DEF KeysGrabbed, IsV2, SameMods, UserMods
<1>2. CASE UNCHANGED vars
  BY <1>1, <1>2, StillMods DEF vars
<1>3. CASE WindowFields
  <2>1. WindowDigest
    BY <1>3, WindowFacts
  <2>2. PICK type : type = Head(socket).type
    OBVIOUS
  <2>3. Arrives(type) /\ type # "mods"
    BY <2>1, <2>2 DEF WindowDigest, Arrives
  <2> QED BY <1>1, <2>1, <2>3, EventMods DEF WindowDigest, outside
<1>4. CASE FocusChanges
  <2>1. relay' = cancel(relay) /\ UNCHANGED <<profile, user, desk, socket, app, running>>
    BY <1>4 DEF FocusChanges, outside
  <2>2. SameMods
    BY <2>1, TypesFacts DEF cancel, Relay, SameMods
  <2> QED BY <1>1, <2>1, <2>2, StillMods
<1>5. CASE EchoTimeout
  <2>1. /\ relay' = [relay EXCEPT !.late = TRUE] /\ app' = [app EXCEPT !.stray = TRUE]
        /\ UNCHANGED <<profile, user, desk, socket, running>>
    BY <1>5 DEF EchoTimeout, Spend
  <2>2. /\ app'.mods = app.mods /\ app'.swallowed = app.swallowed /\ app'.stray
        /\ relay'.expected = relay.expected /\ relay'.raw_mods = relay.raw_mods
    BY <2>1, TypesFacts DEF App, Relay
  <2>3. /\ <<>> \in Seq(Events) /\ \A i \in DOMAIN <<>> : <<>>[i].type # "mods"
        /\ socket' = socket \o <<>> /\ Rests(socket)
    BY <2>1 DEF Types, Rests
  <2> QED BY <1>1, <2>1, <2>2, <2>3, ModsKept
<1>6. CASE Toggle
  BY <1>1, <1>6, StillMods DEF Toggle, Spend
<1>7. CASE ReportInput
  <2>1. ReportDigest
    BY <1>7, ReportFacts
  <2>2. PICK new \in Seq(Report) :
          /\ socket' = socket \o new
          /\ \A i \in DOMAIN new : new[i].type \notin {"activate", "deactivate", "key", "mods"}
    BY <2>1 DEF ReportDigest
  <2>3. new \in Seq(Events)
    <3>1. Report \subseteq Events
      BY DEF Report
    <3> QED BY <3>1
  <2>4. \A i \in DOMAIN new : new[i].type # "mods"
    BY <2>2
  <2> QED BY <1>1, <2>1, <2>2, <2>3, <2>4, AddedMods DEF ReportDigest
<1>8. CASE Compositor /\ ~EnableInput /\ ~DisableInput /\ ~ReportInput
  <2>1. QuietDigest
    BY <1>8, QuietFacts DEF Compositor
  <2>2. PICK new \in Seq(Quiet) : socket' = socket \o new
    BY <2>1 DEF QuietDigest, Adds
  <2>3. new \in Seq(Events) /\ \A i \in DOMAIN new : new[i].type # "mods"
    <3>1. Quiet \subseteq Events /\ \A e \in Quiet : e.type # "mods"
      BY DEF Quiet
    <3> QED BY <3>1
  <2>4. KeysGrabbed' = KeysGrabbed
    BY <2>1 DEF QuietDigest, KeysGrabbed, IsV2
  <2> QED BY <1>1, <2>1, <2>2, <2>3, <2>4, AddedMods DEF QuietDigest
<1> QED BY <1>2, <1>3, <1>4, <1>5, <1>6, <1>7, <1>8

(* A text input is enabled.                                                *)
LEMMA EnableMods ==
  ASSUME Types, ModsQueue, EnableInput PROVE ModsQueue'
<1>1. /\ desk'.grabbed = desk.grabbed
      /\ UNCHANGED <<profile, user, running, relay, frame, router, focus, app>>
  BY EnableFacts DEF EnableDigest
<1>2. PICK new \in Seq(Events), m \in {2, 3} :
        /\ socket' = socket \o new /\ Len(new) = m
        /\ new[1].type = "activate"
        /\ m = 3 => new[2].type = "surrounding_text"
        /\ new[m].type = End
  BY EnableFacts DEF EnableDigest
<1>3. \A i \in DOMAIN new : new[i].type # "mods"
  <2>1. DOMAIN new = 1 .. m
    BY <1>2
  <2> QED BY <1>2, <2>1 DEF End
<1>4. KeysGrabbed' = KeysGrabbed /\ SameMods /\ UserMods' = UserMods
  BY <1>1 DEF KeysGrabbed, IsV2, SameMods, UserMods
<1> QED BY <1>1, <1>2, <1>3, <1>4, AddedMods

(* A text input is disabled: a v1 application gets the user's modifiers    *)
(* with the keyboard.                                                      *)
LEMMA DisableMods ==
  ASSUME Types, ModsQueue, DisableInput PROVE ModsQueue'
<1>1. /\ ~desk'.grabbed
      /\ UNCHANGED <<profile, user, running, relay, frame, router, focus>>
  BY DisableFacts DEF DisableDigest
<1>2. PICK new \in Seq(Events), m \in {1, 2} :
        /\ socket' = socket \o new /\ Len(new) = m
        /\ new[1].type = "deactivate"
        /\ m = IF IsV2 THEN 2 ELSE 1
        /\ IsV2 => new[2].type = "done"
  BY DisableFacts DEF DisableDigest
<1>3. \A i \in DOMAIN new : new[i].type # "mods"
  <2>1. DOMAIN new = 1 .. m
    BY <1>2
  <2> QED BY <1>2, <2>1
<1>4. SameMods /\ UserMods' = UserMods /\ IsV2' = IsV2
  BY <1>1 DEF IsV2, SameMods, UserMods
<1>5. app' = IF IsV2 THEN app ELSE [app EXCEPT !.down = {}, !.covered = {}, !.mods = UserMods]
  BY DEF DisableInput
<1>6. CASE IsV2
  <2>1. KeysGrabbed' = KeysGrabbed /\ app' = app
    BY <1>4, <1>5, <1>6 DEF KeysGrabbed
  <2> QED BY <1>1, <1>2, <1>3, <1>4, <2>1, AddedMods
<1>7. CASE ~IsV2
  <2>1. ~KeysGrabbed'
    BY <1>1, <1>4, <1>7 DEF KeysGrabbed
  <2>2. app'.mods = UserMods /\ app'.stray = app.stray
    BY <1>5, <1>7, TypesFacts DEF App
  <2>3. ByUser(socket) => ByUser(socket')
    BY <1>2, <1>3, QuietMasks DEF Types
  <2>4. EchoSettle' /\ NoEcho' /\ Ungrabbed' /\ LateStray'
    BY <1>1, <1>4, <2>1, <2>2, <2>3 DEF ModsQueue, EchoSettle, NoEcho, Ungrabbed, LateStray
  <2> QED BY <2>4 DEF ModsQueue
<1> QED BY <1>6, <1>7

(* The connection is torn down.                                            *)
LEMMA TeardownMods ==
  ASSUME Types, ModsQueue, Teardown PROVE ModsQueue'
<1>1. /\ running' = "no" /\ app' = [app EXCEPT !.down = {}, !.covered = {}] /\ relay' = relay
  BY DEF Teardown, adapter
<1>2. app'.stray = app.stray
  BY <1>1, TypesFacts DEF App
<1> QED BY <1>1, <1>2 DEF ModsQueue, EchoSettle, NoEcho, Ungrabbed, LateStray

(* A key of the user waits for the grab, and with a modifier its mask.     *)
LEMMA GrabbedKeyMods ==
  ASSUME Types, Types', ModsQueue, NEW key \in UserKeys, NEW value \in {0, 1},
         UserKey(key, value), KeysGrabbed
  PROVE  ModsQueue'
<1> DEFINE event == [type |-> "key", key |-> key, value |-> value]
           keyed == socket \o <<event>>
<1>1. /\ user' = (IF value = 1 THEN user \cup {key} ELSE user \ {key})
      /\ running = "yes" /\ socket' = socket \o KeyEvents(key, value, UserMods') /\ app' = app
      /\ UNCHANGED <<profile, desk, running, relay>>
  BY DEF UserKey, Spend, adapter, UserMods
<1>2. event \in Events /\ event.type # "mods" /\ socket \in Seq(Events)
  BY DEF Types, Events
<1>3. UserMods' \in Masks
  BY TypesFacts DEF UserMods, Masks
<1> HIDE DEF event
<1>4. <<event>> \in Seq(Events) /\ \A i \in DOMAIN <<event>> : <<event>>[i].type # "mods"
  BY <1>2
<1>5. KeysGrabbed' /\ SameMods
  BY <1>1 DEF KeysGrabbed, IsV2, SameMods
<1>6. keyed \in Seq(Events) /\ MasksIn(keyed) = MasksIn(socket) /\ (ByUser(socket) => ByUser(keyed))
  <2>1. keyed \in Seq(Events)
    BY <1>2, <1>4
  <2> QED BY <1>2, <1>4, <2>1, QuietMasks
<1>7. CASE key \notin ModKeys
  <2>1. <<event>> \o <<>> = <<event>>
    OBVIOUS
  <2>2. KeyEvents(key, value, UserMods') = <<event>>
    BY <1>7, <2>1 DEF KeyEvents, event
  <2>3. UserMods' = UserMods
    BY <1>1, <1>7 DEF UserMods
  <2> QED BY <1>1, <1>4, <1>5, <2>2, <2>3, AddedMods
<1>8. CASE key \in ModKeys
  <2> DEFINE mods == ModsEvent(UserMods', "user")
  <2>1. KeyEvents(key, value, UserMods') = <<event>> \o <<mods>>
    BY <1>8 DEF KeyEvents, event
  <2>2. mods \in Events
    BY <1>3, ModsEventFacts
  <2> HIDE DEF mods
  <2>3. <<mods>> \in Seq(Events)
    BY <2>2
  <2>4. socket' = keyed \o <<mods>>
    <3>1. \A x \in Seq(Events), y \in Seq(Events), z \in Seq(Events) : x \o (y \o z) = (x \o y) \o z
      OBVIOUS
    <3> QED BY <1>1, <1>2, <1>4, <2>1, <2>3, <3>1
  <2>5. /\ \A f, E, m : Awaits(f, MasksIn(keyed), E) => Settled(MasksIn(socket'), E, m, UserMods')
        /\ ByUser(keyed) => ByUser(socket')
        /\ Final(MasksIn(socket'), UserMods') /\ DOMAIN MasksIn(socket') # {}
    <3> HIDE DEF keyed
    <3> QED BY <1>3, <1>6, <2>4, UserMask DEF mods
  <2>6. EchoSettle'
    <3>1. SUFFICES ASSUME profile.echo = "each", ~app.stray
          PROVE  Settled(MasksIn(socket'), relay.expected, app.mods, UserMods')
      BY <1>1 DEF EchoSettle
    <3>2. Settled(MasksIn(socket), relay.expected, app.mods, UserMods)
      BY <1>1, <3>1 DEF ModsQueue, EchoSettle
    <3>3. PICK f : Awaits(f, MasksIn(socket), relay.expected)
      BY <3>2 DEF Settled
    <3> QED BY <1>6, <2>5, <3>3
  <2>7. NoEcho'
    BY <1>1, <1>6, <2>5 DEF ModsQueue, NoEcho
  <2>8. Ungrabbed' /\ LateStray'
    BY <1>1, <1>5 DEF ModsQueue, Ungrabbed, LateStray
  <2> QED BY <2>6, <2>7, <2>8 DEF ModsQueue
<1> QED BY <1>7, <1>8

(* Without the grab the application takes the user's key and mask.         *)
LEMMA DirectKeyMods ==
  ASSUME Types, Types', ModsQueue, NEW key \in UserKeys, NEW value \in {0, 1},
         UserKey(key, value), ~KeysGrabbed
  PROVE  ModsQueue'
<1>1. /\ app' = TakeAll(app, <<UnstampedKey(key, value), Modifiers(UserMods')>>)
      /\ UNCHANGED <<profile, desk, running, relay, socket>>
  BY DEF UserKey, Spend, adapter, UserMods
<1>2. UserMods' \in Masks /\ key \in KeyCodes /\ app \in App
  BY TypesFacts DEF UserMods, Masks, KeyCodes
<1> DEFINE first == <<UnstampedKey(key, value)>>
           second == <<Modifiers(UserMods')>>
<1>3. PICK b : b = TakeAll(app, first) /\ Gentle(app, b)
  BY <1>2, ForwardGentle
<1>4. b \in App
  BY <1>3 DEF Gentle
<1>5. PICK c : c = TakeAll(b, second) /\ c.mods = UserMods'
  BY <1>2, <1>4, GentleMask
<1>6. first \in Seq(Requests) /\ second \in Seq(Requests)
  <2>1. UnstampedKey(key, value) \in Requests /\ Modifiers(UserMods') \in Requests
    BY <1>2, RequestsTyped
  <2> QED BY <2>1
<1>7. <<UnstampedKey(key, value), Modifiers(UserMods')>> = first \o second
  OBVIOUS
<1> HIDE DEF first, second
<1>8. app' = c
  BY <1>1, <1>2, <1>3, <1>5, <1>6, <1>7, TakeConcat
<1>9. app.stray => app'.stray
  BY <1>2, <1>3, <1>4, <1>5, <1>6, <1>8, StrayTaken
<1>10. ~KeysGrabbed'
  BY <1>1 DEF KeysGrabbed, IsV2
<1>11. EchoSettle' /\ NoEcho' /\ Ungrabbed' /\ LateStray'
  BY <1>1, <1>5, <1>8, <1>9, <1>10 DEF ModsQueue, EchoSettle, NoEcho, Ungrabbed, LateStray
<1> QED BY <1>11 DEF ModsQueue

(* ModsQueue is inductive, given the types and the other queues.           *)
LEMMA ModsQueueStep ==
  ASSUME Types, Types', Queue, EditQueue, ModsQueue, [Next]_vars PROVE ModsQueue'
<1>1. CASE Keyboard
  BY <1>1, KeyboardMods
<1>2. CASE Input
  BY <1>2, InputMods
<1>3. CASE RepeatFires
  BY <1>3, FiresMods
<1>4. CASE Teardown
  BY <1>4, TeardownMods
<1>5. CASE EnableInput
  BY <1>5, EnableMods
<1>6. CASE DisableInput
  BY <1>6, DisableMods
<1>7. CASE Press \/ Release
  <2>1. PICK key \in UserKeys, value \in {0, 1} : UserKey(key, value)
    BY <1>7, TypesFacts DEF Press, Release
  <2> QED BY <2>1, GrabbedKeyMods, DirectKeyMods
<1>8. CASE \/ UNCHANGED vars \/ WindowFields \/ FocusChanges \/ EchoTimeout \/ Toggle
           \/ Compositor /\ ~EnableInput /\ ~DisableInput
  BY <1>8, OthersMods
<1> QED BY <1>1, <1>2, <1>3, <1>4, <1>5, <1>6, <1>7, <1>8 DEF Next, Loop

(* ModsQueue holds initially: no mask waits and none is awaited.           *)
LEMMA ModsQueueInit == ASSUME Init PROVE ModsQueue
<1>1. /\ socket = <<>> /\ user = {} /\ app.mods = {} /\ ~relay.late
      /\ relay.raw_mods = {} /\ relay.expected = <<>>
  BY DEF Init, NewRelay
<1>2. UserMods = {} /\ DOMAIN socket = {}
  BY <1>1 DEF UserMods
<1>3. DOMAIN MasksIn(socket) = {}
  BY <1>2 DEF MasksIn
<1>4. Settled(MasksIn(socket), <<>>, {}, {})
  <2>1. Awaits(<<>>, MasksIn(socket), <<>>)
    <3>1. <<>> \in [DOMAIN <<>> -> DOMAIN MasksIn(socket)] /\ DOMAIN <<>> = {}
      OBVIOUS
    <3> QED BY <3>1 DEF Awaits
  <2>2. Settles(Free(<<>>, MasksIn(socket), <<>>), MasksIn(socket), {}, {})
    BY <1>3 DEF Settles, Free
  <2> QED BY <2>1, <2>2 DEF Settled
<1> QED BY <1>1, <1>2, <1>3, <1>4 DEF ModsQueue, EchoSettle, NoEcho, Ungrabbed, LateStray, Final, ByUser

(* Together with the other queues.                                         *)
LEMMA ModsInvariant == Spec => [](Types /\ EditQueue /\ ModsQueue)
<1>1. Init => ModsQueue
  BY ModsQueueInit
<1>2. Types /\ Types' /\ KeyQueue /\ EditQueue /\ ModsQueue /\ [Next]_vars => ModsQueue'
  BY ModsQueueStep DEF KeyQueue
<1> QED BY <1>1, <1>2, SessionsInvariant, EditsInvariant, PTL DEF Spec

(* When everything is dispatched and no synthetic mask is awaited, the     *)
(* adapter's modifiers and the application's are the user's, unless a mask *)
(* came back as another than it is taken for (handle_modifiers,            *)
(* plan_mod_dance, the 50 ms of the expected masks).                       *)
THEOREM AdapterModsSettle == Spec => []ModsSettle
<1>1. Types /\ EditQueue /\ ModsQueue => ModsSettle
  <2> SUFFICES ASSUME Types, EditQueue, ModsQueue, Idle, running = "yes", KeysGrabbed,
                      relay.expected = <<>>, ~app.swallowed, profile.echo = "each" => ~app.stray
               PROVE  relay.raw_mods = UserMods /\ app.mods = UserMods
    BY DEF ModsSettle
  <2>1. socket = <<>> /\ DOMAIN socket = {}
    BY DEF Idle
  <2>2. DOMAIN MasksIn(socket) = {}
    BY <2>1 DEF MasksIn
  <2>3. app.mods = relay.raw_mods
    BY <2>1 DEF EditQueue, ModsFresh, ModsWait, KeysGrabbed
  <2>4. profile.echo \in {"each", "none"}
    BY AdapterAssumption DEF Types, TypeOK
  <2>5. CASE profile.echo = "each"
    <3>1. Settled(MasksIn(socket), relay.expected, app.mods, UserMods)
      BY <2>5 DEF ModsQueue, EchoSettle
    <3>2. app.mods = UserMods
      BY <2>2, <3>1 DEF Settled, Settles, Free
    <3> QED BY <2>3, <3>2
  <2>6. CASE profile.echo = "none"
    BY <2>2, <2>3, <2>6 DEF ModsQueue, NoEcho
  <2> QED BY <2>4, <2>5, <2>6
<1> QED BY <1>1, ModsInvariant, PTL

-----------------------------------------------------------------------------
(* The invariant behind FocusFollows.                                      *)

(* What an event of a window makes of its entry, pending fields and all.   *)
OfWindow == {"toplevel", "closed", "app_id", "state", "toplevel_done"}

EntryStep(wlr, e, event) ==
  CASE event.type = "toplevel" -> NewEntry
    [] event.type = "closed" -> Nil
    [] event.type \notin {"toplevel", "closed"} /\ e = Nil -> Nil
    [] event.type = "app_id" /\ e # Nil ->
         IF wlr THEN [e EXCEPT !.pending_app_id = event.value]
         ELSE [e EXCEPT !.app_id = event.value]
    [] event.type = "state" /\ e # Nil ->
         IF wlr THEN [e EXCEPT !.pending_activated = event.value]
         ELSE [e EXCEPT !.activated = (event.value = "yes")]
    [] event.type = "toplevel_done" /\ e # Nil -> CommitEntry(e)

(* A view is a table of windows, the window that was activated last unless *)
(* it has been deactivated since, and the id it had then.                  *)
Lit(tops) == {w \in Windows : tops[w] # Nil /\ tops[w].activated}
First(tops) == IF Lit(tops) = {} THEN {Nil} ELSE Lit(tops)

Turned(v, w, tops) ==
  [tops |-> tops,
   top |-> IF w \in Lit(tops) \ Lit(v.tops) THEN w
           ELSE IF w = v.top /\ w \notin Lit(tops) THEN Nil ELSE v.top,
   shown |-> IF w \in Lit(tops) \ Lit(v.tops) THEN tops[w].app_id
             ELSE IF w = v.top /\ w \notin Lit(tops) THEN Nil ELSE v.shown]

Changed(tops, w, e) == [tops EXCEPT ![w] = e]

(* Between the two halves of a switch two windows may be activated; the    *)
(* one that was activated last still has the id of that time.              *)
Good(v) ==
  IF v.top = Nil THEN Lit(v.tops) = {} /\ v.shown = Nil
  ELSE v.top \in Lit(v.tops) /\ (Lit(v.tops) # {v.top} => v.tops[v.top].app_id = v.shown)

(* A window is announced once, and closed only when no other takes over.   *)
Fair(v, event) ==
  /\ event.type = "toplevel" => v.tops[event.window] = Nil
  /\ event.type = "closed" /\ event.window \in Lit(v.tops) => event.window = v.top

Follows(wlr, v, event, u) ==
  IF event.type \in OfWindow
  THEN /\ u = Turned(v, event.window,
                     Changed(v.tops, event.window, EntryStep(wlr, v.tops[event.window], event)))
       /\ Good(u) /\ Fair(v, event)
  ELSE u = v /\ event.type # "finished"

(* A chain of views, along events.                                         *)
Leads(wlr, v, events, u) ==
  \E f : /\ f[0] = v /\ f[Len(events)] = u
         /\ \A n \in DOMAIN events : Follows(wlr, f[n - 1], events[n], f[n])

(* The tracker's table is that of the view; its active window is one of    *)
(* the activated, with the id in the snapshot if it is the view's.         *)
Linked(v) ==
  /\ v.tops = focus.toplevels /\ Good(v)
  /\ focus.active \in First(focus.toplevels)
  /\ focus.active = v.top => focus.current = v.shown

(* The compositor's own view.                                              *)
Row(id, lit) ==
  [app_id |-> id, activated |-> lit, pending_app_id |-> Nil, pending_activated |-> Nil]
Table(windows, top) ==
  [w \in Windows |-> IF windows[w] = Nil THEN Nil ELSE Row(windows[w], w = top)]
Seen(windows, top, shown) == [tops |-> Table(windows, top), top |-> top, shown |-> shown]
Desktop == Seen(desk.windows, desk.top, desk.shown)

(* While the window manager runs, the events that wait lead the tracker's  *)
(* view to the compositor's.                                               *)
IsWlr == profile.source = "wlr"
TopOpen == IF desk.top = Nil THEN desk.shown = Nil ELSE desk.windows[desk.top] # Nil
WindowQueue ==
  /\ TopOpen
  /\ running # "no" /\ desk.tracked => \E v : Linked(v) /\ Leads(IsWlr, v, socket, Desktop)

(* Nothing happens, ...                                                    *)
LEMMA LeadsNone == ASSUME NEW wlr, NEW v PROVE Leads(wlr, v, <<>>, v)
<1> DEFINE f == [n \in {0} |-> v]
<1>1. f[0] = v /\ Len(<<>>) = 0 /\ DOMAIN <<>> = {}
  OBVIOUS
<1> HIDE DEF f
<1> QED BY <1>1 DEF Leads

(* ... one event, ...                                                      *)
LEMMA LeadsOne ==
  ASSUME NEW wlr, NEW v, NEW event, NEW u, Follows(wlr, v, event, u)
  PROVE  Leads(wlr, v, <<event>>, u)
<1> DEFINE f == [n \in {0, 1} |-> IF n = 0 THEN v ELSE u]
<1>1. f[0] = v /\ f[1] = u
  OBVIOUS
<1>2. Len(<<event>>) = 1 /\ <<event>>[1] = event /\ \A n \in DOMAIN <<event>> : n = 1
  OBVIOUS
<1> HIDE DEF f
<1>3. ASSUME NEW n \in DOMAIN <<event>> PROVE Follows(wlr, f[n - 1], <<event>>[n], f[n])
  <2>1. n = 1 /\ n - 1 = 0
    BY <1>2
  <2> QED BY <1>1, <1>2, <2>1
<1> QED BY <1>1, <1>2, <1>3 DEF Leads

(* ... and events behind others.                                           *)
LEMMA LeadsConcat ==
  ASSUME NEW wlr, NEW S, NEW s \in Seq(S), NEW t \in Seq(S), NEW v, NEW u, NEW w,
         Leads(wlr, v, s, u), Leads(wlr, u, t, w)
  PROVE  Leads(wlr, v, s \o t, w)
<1>1. PICK m \in Nat : m = Len(s)
  OBVIOUS
<1>2. PICK k \in Nat : k = Len(t)
  OBVIOUS
<1>3. PICK f : /\ f[0] = v /\ f[m] = u
               /\ \A n \in DOMAIN s : Follows(wlr, f[n - 1], s[n], f[n])
  BY <1>1 DEF Leads
<1>4. PICK g : /\ g[0] = u /\ g[k] = w
               /\ \A n \in DOMAIN t : Follows(wlr, g[n - 1], t[n], g[n])
  BY <1>2 DEF Leads
<1> DEFINE h == [n \in 0 .. (m + k) |-> IF n <= m THEN f[n] ELSE g[n - m]]
           st == s \o t
<1>5. /\ Len(st) = m + k /\ DOMAIN s = 1 .. m /\ DOMAIN t = 1 .. k /\ DOMAIN st = 1 .. (m + k)
      /\ \A i \in 1 .. m : st[i] = s[i]
      /\ \A i \in 1 .. k : st[m + i] = t[i]
  BY <1>1, <1>2
<1>6. /\ \A n \in 0 .. m : h[n] = f[n]
      /\ \A n \in 0 .. k : h[m + n] = g[n]
  <2>1. \A n \in 0 .. m : n \in 0 .. (m + k) /\ n <= m
    OBVIOUS
  <2>2. ASSUME NEW n \in 0 .. k PROVE h[m + n] = g[n]
    <3>1. m + n \in 0 .. (m + k) /\ (m + n) - m = n /\ (m + n <= m <=> n = 0) /\ m + 0 = m
      OBVIOUS
    <3> QED BY <1>3, <1>4, <3>1
  <2> QED BY <2>1, <2>2
<1> HIDE DEF h, st
<1>7. h[0] = v /\ h[m + k] = w
  <2>1. 0 \in 0 .. m /\ k \in 0 .. k
    OBVIOUS
  <2> QED BY <1>3, <1>4, <1>6, <2>1
<1>8. ASSUME NEW n \in DOMAIN st PROVE Follows(wlr, h[n - 1], st[n], h[n])
  <2>1. CASE n \in 1 .. m
    <3>1. n - 1 \in 0 .. m /\ n \in 0 .. m
      BY <2>1
    <3> QED BY <1>3, <1>5, <1>6, <2>1, <3>1
  <2>2. CASE n \notin 1 .. m
    <3>1. PICK i \in 1 .. k : i = n - m /\ n = m + i /\ n - 1 = m + (i - 1)
      <4>1. n - m \in 1 .. k /\ n = m + (n - m) /\ n - 1 = m + ((n - m) - 1)
        BY <1>5, <2>2
      <4> QED BY <4>1
    <3>2. i \in 0 .. k /\ i - 1 \in 0 .. k
      OBVIOUS
    <3>3. h[n] = g[i] /\ h[n - 1] = g[i - 1] /\ st[n] = t[i]
      BY <1>5, <1>6, <3>1, <3>2
    <3> QED BY <1>4, <1>5, <3>3
  <2> QED BY <2>1, <2>2
<1> QED BY <1>5, <1>7, <1>8 DEF Leads, st

(* The first event is taken.                                               *)
LEMMA LeadsTail ==
  ASSUME NEW wlr, NEW S, NEW s \in Seq(S), s # <<>>, NEW v, NEW w, Leads(wlr, v, s, w)
  PROVE  \E u : Follows(wlr, v, s[1], u) /\ Leads(wlr, u, Tail(s), w)
<1>1. PICK m \in Nat : m = Len(Tail(s))
  BY TailFacts
<1>2. /\ Len(s) = m + 1 /\ DOMAIN s = 1 .. (m + 1) /\ DOMAIN Tail(s) = 1 .. m
      /\ \A i \in 1 .. m : Tail(s)[i] = s[i + 1]
  BY <1>1
<1>3. PICK f : /\ f[0] = v /\ f[m + 1] = w
               /\ \A n \in DOMAIN s : Follows(wlr, f[n - 1], s[n], f[n])
  BY <1>2 DEF Leads
<1> DEFINE g == [n \in 0 .. m |-> f[n + 1]]
<1>4. g[0] = f[1] /\ g[m] = w
  BY <1>3
<1>5. Follows(wlr, v, s[1], f[1])
  <2>1. 1 \in DOMAIN s /\ 1 - 1 = 0
    BY <1>2
  <2> QED BY <1>3, <2>1
<1>6. ASSUME NEW n \in 1 .. m PROVE Follows(wlr, g[n - 1], Tail(s)[n], g[n])
  <2>1. /\ n \in 0 .. m /\ n - 1 \in 0 .. m /\ (n - 1) + 1 = n
        /\ n + 1 \in DOMAIN s /\ (n + 1) - 1 = n
    BY <1>2
  <2>2. g[n] = f[n + 1] /\ g[n - 1] = f[n]
    BY <2>1
  <2>3. Follows(wlr, f[(n + 1) - 1], s[n + 1], f[n + 1])
    BY <1>3, <2>1
  <2> HIDE DEF g
  <2> QED BY <1>2, <2>1, <2>2, <2>3
<1> HIDE DEF g
<1>7. Leads(wlr, f[1], Tail(s), w)
  BY <1>1, <1>2, <1>4, <1>6 DEF Leads
<1> QED BY <1>5, <1>7

(* Events that concern no window.                                          *)
Asides == {e \in Events : e.type \notin OfWindow \cup {"finished"}}

(* They leave every view as it is.                                         *)
(* They leave every view as it is.                                         *)
LEMMA LeadsAside ==
  ASSUME NEW wlr, NEW v, NEW s \in Seq(Asides) PROVE Leads(wlr, v, s, v)
<1>1. PICK m \in Nat : m = Len(s) /\ DOMAIN s = 1 .. m
  OBVIOUS
<1> DEFINE f == [n \in 0 .. m |-> v]
<1>2. f[0] = v /\ f[m] = v
  OBVIOUS
<1>3. ASSUME NEW n \in DOMAIN s PROVE Follows(wlr, f[n - 1], s[n], f[n])
  <2>1. n \in 0 .. m /\ n - 1 \in 0 .. m /\ s[n] \in Asides
    BY <1>1
  <2>2. f[n] = v /\ f[n - 1] = v
    BY <2>1
  <2> HIDE DEF f
  <2> QED BY <2>1, <2>2 DEF Follows, Asides
<1> HIDE DEF f
<1> QED BY <1>1, <1>2, <1>3 DEF Leads
-----------------------------------------------------------------------------
(* The tracker follows the view.                                           *)

(* What the tracker makes of a table: its active window is an activated    *)
(* one, and what it publishes is of a change.                              *)
Looked(t, u, tops) ==
  /\ u.toplevels = tops /\ u.active \in First(tops)
  /\ \/ u.active = t.active /\ u.current = t.current
     \/ /\ u.current = AppOf(u, u.active)
        /\ u.active # t.active \/ Lit(tops) # Lit(t.toplevels)

(* A change of one entry activates no other window, ...                    *)
LEMMA LitChanged ==
  ASSUME NEW tops \in [Windows -> Entry \cup {Nil}], NEW w \in Windows, NEW e
  PROVE  LET then == Changed(tops, w, e)
         IN  /\ then[w] = e /\ \A x \in Windows : x # w => then[x] = tops[x]
             /\ \A x : x # w => (x \in Lit(then) <=> x \in Lit(tops))
             /\ w \in Lit(then) <=> e # Nil /\ e.activated
<1>1. /\ Changed(tops, w, e)[w] = e
      /\ \A x \in Windows : x # w => Changed(tops, w, e)[x] = tops[x]
  BY DEF Changed
<1> QED BY <1>1 DEF Lit

(* ... so that the view's window, as long as the tracker has it, keeps the *)
(* id in the snapshot.                                                     *)
LEMMA LookedLinks ==
  ASSUME NEW t \in Tracker, NEW then, NEW v, NEW w \in Windows, NEW e, NEW u,
         v.tops = t.toplevels, Good(v), t.active \in First(t.toplevels),
         t.active = v.top => t.current = v.shown,
         u = Turned(v, w, Changed(v.tops, w, e)), Good(u),
         Looked(t, then, Changed(v.tops, w, e))
  PROVE  then.active = u.top => then.current = u.shown
<1> DEFINE new == Changed(v.tops, w, e)
<1>1. /\ \A x \in Windows : x # w => new[x] = v.tops[x]
      /\ \A x : x # w => (x \in Lit(new) <=> x \in Lit(v.tops))
  <2>1. v.tops \in [Windows -> Entry \cup {Nil}]
    BY DEF Tracker
  <2> QED BY <2>1, LitChanged
<1>2. /\ u.tops = new
      /\ u.top = IF w \in Lit(new) \ Lit(v.tops) THEN w
                 ELSE IF w = v.top /\ w \notin Lit(new) THEN Nil ELSE v.top
      /\ u.shown = IF w \in Lit(new) \ Lit(v.tops) THEN new[w].app_id
                   ELSE IF w = v.top /\ w \notin Lit(new) THEN Nil ELSE v.shown
  BY DEF Turned
<1>3. /\ then.toplevels = new /\ then.active \in First(new)
      /\ \/ then.active = t.active /\ then.current = t.current
         \/ /\ then.current = AppOf(then, then.active)
            /\ then.active # t.active \/ Lit(new) # Lit(v.tops)
  BY DEF Looked
<1>4. /\ Nil \notin Windows
      /\ \A tops : Lit(tops) \subseteq Windows
      /\ \A tops : Nil \notin Lit(tops)
  BY FocusAssumption DEF Lit
<1> HIDE DEF new
<1>5. ASSUME then.active = u.top, w \in Lit(new) \ Lit(v.tops) PROVE then.current = u.shown
  <2>1. u.top = w /\ u.shown = new[w].app_id
    BY <1>2, <1>5
  <2>2. t.active # w
    BY <1>4, <1>5 DEF First
  <2>3. then.current = AppOf(then, w)
    BY <1>3, <1>5, <2>1, <2>2
  <2> QED BY <1>3, <1>4, <2>1, <2>3 DEF AppOf
<1>6. ASSUME then.active = u.top, w \notin Lit(new) \ Lit(v.tops), w = v.top, w \notin Lit(new)
      PROVE  then.current = u.shown
  <2>1. u.top = Nil /\ u.shown = Nil
    BY <1>2, <1>6
  <2>2. t.active # Nil
    BY <1>4, <1>6 DEF First, Good
  <2>3. then.current = AppOf(then, Nil)
    BY <1>3, <1>6, <2>1, <2>2
  <2> QED BY <2>1, <2>3 DEF AppOf
<1>7. ASSUME then.active = u.top, w \notin Lit(new) \ Lit(v.tops), ~(w = v.top /\ w \notin Lit(new))
      PROVE  then.current = u.shown
  <2>1. u.top = v.top /\ u.shown = v.shown
    BY <1>2, <1>7
  <2>2. CASE then.active = t.active /\ then.current = t.current
    BY <1>7, <2>1, <2>2
  <2>3. CASE v.top = Nil /\ then.current = AppOf(then, then.active)
    BY <1>7, <2>1, <2>3 DEF AppOf, Good
  <2>4. CASE v.top # Nil /\ then.current = AppOf(then, then.active)
                /\ (then.active # t.active \/ Lit(new) # Lit(v.tops))
    <3>1. /\ v.top \in Lit(v.tops) /\ v.top \in Lit(new) /\ v.top \in Windows
          /\ Lit(v.tops) # {v.top} => v.tops[v.top].app_id = v.shown
          /\ Lit(new) # {v.top} => new[v.top].app_id = v.shown
      BY <1>2, <1>4, <2>1, <2>4 DEF Good
    <3>2. then.current = new[v.top].app_id
      BY <1>3, <1>7, <2>1, <2>4 DEF AppOf
    <3>3. CASE Lit(new) # {v.top}
      BY <2>1, <3>1, <3>2, <3>3
    <3>4. CASE Lit(new) = {v.top}
      <4>1. Lit(v.tops) # {v.top}
        BY <1>3, <1>7, <2>1, <2>4, <3>4 DEF First
      <4>2. w # v.top
        BY <1>1, <3>1, <3>4, <4>1
      <4> QED BY <1>1, <2>1, <3>1, <3>2, <4>1, <4>2
    <3> QED BY <3>3, <3>4
  <2> QED BY <1>3, <2>2, <2>3, <2>4
<1> QED BY <1>5, <1>6, <1>7

(* The tracker's handlers, one by one.                                     *)
LEMMA PublishFacts ==
  ASSUME NEW t \in Tracker, NEW a
  PROVE  LET u == Publish(t, a)
         IN  u.toplevels = t.toplevels /\ u.active = a /\ u.current = AppOf(t, a)
                 /\ u.current = AppOf(u, u.active)
<1>1. /\ Publish(t, a).toplevels = t.toplevels /\ Publish(t, a).active = a
      /\ Publish(t, a).current = AppOf(t, a)
  BY DEF Publish, Tracker
<1>2. AppOf(Publish(t, a), a) = AppOf(t, a)
  BY <1>1 DEF AppOf
<1> QED BY <1>1, <1>2

(* The first activated window is worked out from the table alone.          *)
(* The first activated window is worked out from the table alone.          *)
LEMMA FirstOfTable == ASSUME NEW t PROVE FirstActivated(t) = First(t.toplevels)
BY DEF FirstActivated, First, Lit, Known

(* Plasma: a table changes and the active window is worked out again.      *)
LEMMA RecomputeLooks ==
  ASSUME NEW t, NEW u \in Tracker, NEW x \in Recompute(u),
         u.active = t.active, u.current = t.current
  PROVE  Looked(t, x, u.toplevels)
<1>1. PICK a \in First(u.toplevels) : x = IF a # u.active THEN Publish(u, a) ELSE u
  BY FirstOfTable DEF Recompute
<1>2. CASE a # u.active
  <2>1. x.toplevels = u.toplevels /\ x.active = a /\ x.current = AppOf(x, x.active)
    BY <1>1, <1>2, PublishFacts
  <2> QED BY <1>1, <1>2, <2>1 DEF Looked
<1>3. CASE a = u.active
  BY <1>1, <1>3 DEF Looked
<1> QED BY <1>2, <1>3

(* wlr: the pending fields are committed.                                  *)
LEMMA DoneLooks ==
  ASSUME NEW t \in Tracker, NEW w \in Windows, NEW x \in ToplevelDone(t, w),
         t.active \in First(t.toplevels)
  PROVE  Looked(t, x, Changed(t.toplevels, w,
                              IF Known(t, w) THEN CommitEntry(t.toplevels[w]) ELSE Nil))
<1> DEFINE e == IF Known(t, w) THEN CommitEntry(t.toplevels[w]) ELSE Nil
           new == Changed(t.toplevels, w, e)
           d == IF Known(t, w) THEN [t EXCEPT !.toplevels[w] = CommitEntry(@)] ELSE t
<1>1. t.toplevels \in [Windows -> Entry \cup {Nil}] /\ e \in Entry \cup {Nil}
  <2>1. t.toplevels \in [Windows -> Entry \cup {Nil}]
    BY DEF Tracker
  <2>2. Known(t, w) => t.toplevels[w] \in Entry
    BY <2>1 DEF Known
  <2> QED BY <2>1, <2>2, EntryFacts
<1>2. d.toplevels = new /\ d.active = t.active /\ d.current = t.current /\ d \in Tracker
  <2>1. CASE Known(t, w)
    <3>1. d = [t EXCEPT !.toplevels[w] = e]
      BY <2>1
    <3>2. d \in Tracker /\ d.current = t.current /\ d.active = t.active
      BY <1>1, <3>1, EntryTracks
    <3>3. d.toplevels = [t.toplevels EXCEPT ![w] = e]
      BY <3>1 DEF Tracker
    <3> QED BY <3>2, <3>3 DEF Changed
  <2>2. CASE ~Known(t, w)
    <3>1. new = t.toplevels
      BY <1>1, <2>2 DEF Changed, Known
    <3> QED BY <2>2, <3>1
  <2> QED BY <2>1, <2>2
<1>3. PICK a \in First(new) :
        x = IF EntryChanged(t, w) \/ a # t.active THEN Publish(d, a) ELSE d
  <2>1. FirstActivated(d) = First(new)
    BY <1>2, FirstOfTable
  <2> HIDE DEF new
  <2>2. \E a \in FirstActivated(d) :
           x = IF EntryChanged(t, w) \/ a # t.active THEN Publish(d, a) ELSE d
    BY DEF ToplevelDone
  <2> QED BY <2>1, <2>2
<1>4. EntryChanged(t, w) => Lit(new) # Lit(t.toplevels)
  <2>1. w \in Lit(new) <=> e # Nil /\ e.activated
    BY <1>1, LitChanged
  <2>2. SUFFICES ASSUME EntryChanged(t, w) PROVE ~(w \in Lit(new) <=> w \in Lit(t.toplevels))
    OBVIOUS
  <2>3. Known(t, w) /\ e = CommitEntry(t.toplevels[w]) /\ e.activated # t.toplevels[w].activated
    BY <2>2 DEF EntryChanged
  <2>4. e \in Entry /\ t.toplevels[w] \in Entry
    BY <1>1, <2>3, EntryFacts DEF Known
  <2>5. e.activated \in BOOLEAN /\ t.toplevels[w].activated \in BOOLEAN /\ e # Nil
    BY <2>4, FocusAssumption DEF Entry
  <2> HIDE DEF e, new
  <2>6. w \in Lit(t.toplevels) <=> t.toplevels[w].activated
    BY <2>3 DEF Lit, Known
  <2> QED BY <2>1, <2>3, <2>5, <2>6
<1> HIDE DEF new, d
<1>5. CASE EntryChanged(t, w) \/ a # t.active
  <2>1. x.toplevels = new /\ x.active = a /\ x.current = AppOf(x, x.active)
    BY <1>2, <1>3, <1>5, PublishFacts
  <2> QED BY <1>3, <1>4, <1>5, <2>1 DEF Looked, new
<1>6. CASE ~(EntryChanged(t, w) \/ a # t.active)
  BY <1>2, <1>3, <1>6 DEF Looked, new
<1> QED BY <1>5, <1>6

(* An entry that is neither lit nor turned off leaves the lit windows.     *)
LEMMA LitKept ==
  ASSUME NEW tops \in [Windows -> Entry \cup {Nil}], NEW w \in Windows, NEW e,
         e # Nil /\ e.activated <=> w \in Lit(tops)
  PROVE  Lit(Changed(tops, w, e)) = Lit(tops)
<1>1. \A x : x \in Lit(Changed(tops, w, e)) <=> x \in Lit(tops)
  BY LitChanged
<1> QED BY <1>1

(* A table whose lit windows stay looks the same.                          *)
LEMMA KeptLooks ==
  ASSUME NEW t \in Tracker, NEW u, NEW w \in Windows, NEW e,
         t.active \in First(t.toplevels),
         e # Nil /\ e.activated <=> w \in Lit(t.toplevels),
         u.toplevels = Changed(t.toplevels, w, e), u.active = t.active, u.current = t.current
  PROVE  Looked(t, u, Changed(t.toplevels, w, e))
<1>1. t.toplevels \in [Windows -> Entry \cup {Nil}]
  BY DEF Tracker
<1>2. Lit(Changed(t.toplevels, w, e)) = Lit(t.toplevels)
  BY <1>1, LitKept
<1> QED BY <1>2 DEF Looked, First

(* A new window is not activated.                                          *)
LEMMA NewLooks ==
  ASSUME NEW t \in Tracker, NEW w \in Windows, t.toplevels[w] = Nil,
         t.active \in First(t.toplevels)
  PROVE  Looked(t, NewToplevel(t, w), Changed(t.toplevels, w, NewEntry))
<1>1. /\ NewToplevel(t, w).toplevels = Changed(t.toplevels, w, NewEntry)
      /\ NewToplevel(t, w).active = t.active /\ NewToplevel(t, w).current = t.current
  BY DEF NewToplevel, Tracker, Changed
<1>2. ~NewEntry.activated /\ w \notin Lit(t.toplevels)
  BY DEF NewEntry, Lit
<1> QED BY <1>1, <1>2, KeptLooks

(* A field of an entry, if there is one, is set.                           *)
SetEntry(t, w, field, value) ==
  IF Known(t, w) THEN [t.toplevels[w] EXCEPT ![field] = value] ELSE Nil

(* The table has the entry with its field set; nothing else changes.       *)
(* The table has the entry with its field set; nothing else changes.       *)
LEMMA SetFacts ==
  ASSUME NEW t \in Tracker, NEW w \in Windows, NEW field, NEW value,
         \A e \in Entry : [e EXCEPT ![field] = value] \in Entry
  PROVE  LET u == Set(t, w, field, value)
         IN  /\ u \in Tracker /\ u.active = t.active /\ u.current = t.current
             /\ u.toplevels = Changed(t.toplevels, w, SetEntry(t, w, field, value))
<1>1. t.toplevels \in [Windows -> Entry \cup {Nil}]
  BY DEF Tracker
<1>2. CASE Known(t, w)
  <2>1. PICK e \in Entry : e = [t.toplevels[w] EXCEPT ![field] = value]
    BY <1>1, <1>2 DEF Known
  <2>2. /\ Set(t, w, field, value) = [t EXCEPT !.toplevels[w] = e]
        /\ SetEntry(t, w, field, value) = e
    BY <1>2, <2>1 DEF Set, SetEntry
  <2>3. [t EXCEPT !.toplevels[w] = e].toplevels = [t.toplevels EXCEPT ![w] = e]
    BY DEF Tracker
  <2> DEFINE u == [t EXCEPT !.toplevels[w] = e]
  <2>4. u \in Tracker /\ u.active = t.active /\ u.current = t.current
    <3>1. e \in Entry \cup {Nil}
      BY <2>1
    <3> QED BY <3>1, EntryTracks
  <2>5. u.toplevels = Changed(t.toplevels, w, e) /\ Set(t, w, field, value) = u
    BY <2>2, <2>3 DEF Changed
  <2> HIDE DEF u
  <2> QED BY <2>2, <2>4, <2>5
<1>3. CASE ~Known(t, w)
  <2>1. Set(t, w, field, value) = t /\ SetEntry(t, w, field, value) = Nil
    BY <1>3 DEF Set, SetEntry
  <2>2. Changed(t.toplevels, w, Nil) = t.toplevels
    BY <1>1, <1>3 DEF Changed, Known
  <2> QED BY <2>1, <2>2
<1> QED BY <1>2, <1>3

(* A window goes: if it was the active one, no other is.                   *)
LEMMA ForgetLooks ==
  ASSUME NEW t \in Tracker, NEW w \in Windows, t.active \in First(t.toplevels),
         w \in Lit(t.toplevels) => Lit(Changed(t.toplevels, w, Nil)) = {}
  PROVE  LET u == Forget(t, w)
         IN  /\ Looked(t, u, Changed(t.toplevels, w, Nil))
             /\ \A x \in Recompute(u) : Looked(t, x, Changed(t.toplevels, w, Nil))
<1> DEFINE new == Changed(t.toplevels, w, Nil)
           r == [t EXCEPT !.toplevels[w] = Nil]
<1>1. r.toplevels = new /\ r.active = t.active /\ r.current = t.current /\ r \in Tracker
  <2>1. r.toplevels = [t.toplevels EXCEPT ![w] = Nil]
    BY DEF Tracker
  <2>2. r \in Tracker /\ r.active = t.active /\ r.current = t.current
    BY EntryTracks
  <2> QED BY <2>1, <2>2 DEF Changed
<1>2. \A x : x \in Lit(new) <=> x \in Lit(t.toplevels) /\ x # w
  <2>1. t.toplevels \in [Windows -> Entry \cup {Nil}]
    BY DEF Tracker
  <2> QED BY <2>1, LitChanged
<1>3. Nil \notin Windows /\ Lit(t.toplevels) \subseteq Windows
  BY FocusAssumption DEF Lit
<1>4. Forget(t, w) = IF t.active = w THEN Publish(r, Nil) ELSE r
  BY DEF Forget
<1> HIDE DEF new, r
<1>5. CASE t.active = w
  <2>1. w \in Lit(t.toplevels)
    BY <1>3, <1>5 DEF First
  <2>2. First(new) = {Nil}
    BY <2>1 DEF First, new
  <2>3. /\ Forget(t, w).toplevels = new /\ Forget(t, w).active = Nil
        /\ Forget(t, w).current = AppOf(Forget(t, w), Forget(t, w).active)
    BY <1>1, <1>4, <1>5, PublishFacts
  <2>4. Looked(t, Forget(t, w), new)
    BY <1>3, <1>5, <2>2, <2>3 DEF Looked
  <2>5. \A x \in Recompute(Forget(t, w)) : x = Forget(t, w)
    BY <2>2, <2>3, FirstOfTable DEF Recompute
  <2> QED BY <2>4, <2>5 DEF new
<1>6. CASE t.active # w
  <2>1. Lit(new) = Lit(t.toplevels)
    <3>1. w \notin Lit(t.toplevels)
      <4>1. SUFFICES ASSUME w \in Lit(t.toplevels) PROVE FALSE
        OBVIOUS
      <4>2. t.active \in Lit(new)
        BY <1>2, <1>6, <4>1 DEF First
      <4> QED BY <4>1, <4>2 DEF new
    <3> QED BY <1>2, <3>1
  <2>2. Forget(t, w) = r
    BY <1>4, <1>6
  <2>3. Looked(t, r, new)
    BY <1>1, <2>1 DEF Looked, First
  <2>4. \A x \in Recompute(r) : Looked(t, x, new)
    BY <1>1, RecomputeLooks
  <2> QED BY <2>2, <2>3, <2>4 DEF new
<1> QED BY <1>5, <1>6

(* A window event, as long as it is one of the view's.                     *)
LEMMA WindowLooks ==
  ASSUME Types, WindowFields, NEW v, NEW u, Linked(v), Head(socket).type \in OfWindow,
         Follows(IsWlr, v, Head(socket), u)
  PROVE  LET w == Head(socket).window
         IN  /\ w \in Windows
             /\ Looked(focus, focus',
                       Changed(focus.toplevels, w, EntryStep(IsWlr, focus.toplevels[w], Head(socket))))
<1>1. /\ Head(socket) \in Events /\ Head(socket).type \in OfWindow /\ focus \in Tracker
      /\ focus.toplevels \in [Windows -> Entry \cup {Nil}]
  BY WindowFacts, TypesFacts DEF WindowDigest, Tracker
<1> DEFINE event == Head(socket)
           w == event.window
           e == focus.toplevels[w]
<1>2. /\ w \in Windows
      /\ event.type = "app_id" => event.value \in Apps
      /\ event.type = "state" => event.value \in {"yes", "no"}
  BY <1>1 DEF Events, ModsEvents, OfWindow
<1>3. /\ e \in Entry \cup {Nil}
      /\ focus.active \in First(focus.toplevels) /\ v.tops = focus.toplevels
      /\ Good(u) /\ Fair(v, event)
      /\ u = Turned(v, w, Changed(focus.toplevels, w, EntryStep(IsWlr, e, event)))
  BY <1>1, <1>2 DEF Linked, Follows
<1>4. ASSUME event.type = "toplevel"
      PROVE  Looked(focus, focus', Changed(focus.toplevels, w, EntryStep(IsWlr, e, event)))
  <2>1. focus' = NewToplevel(focus, w)
    BY <1>4 DEF WindowFields
  <2>2. EntryStep(IsWlr, e, event) = NewEntry /\ focus.toplevels[w] = Nil
    BY <1>3, <1>4 DEF EntryStep, Fair
  <2>3. Looked(focus, NewToplevel(focus, w), Changed(focus.toplevels, w, NewEntry))
    BY <1>1, <1>2, <1>3, <2>2, NewLooks
  <2> QED BY <2>1, <2>2, <2>3
<1>5. ASSUME event.type = "closed"
      PROVE  Looked(focus, focus', Changed(focus.toplevels, w, EntryStep(IsWlr, e, event)))
  <2>1. focus' = Forget(focus, w) \/ focus' \in Recompute(Forget(focus, w))
    BY <1>5 DEF WindowFields
  <2>2. EntryStep(IsWlr, e, event) = Nil
    BY <1>5 DEF EntryStep
  <2>3. w \in Lit(focus.toplevels) => Lit(Changed(focus.toplevels, w, Nil)) = {}
    <3>1. SUFFICES ASSUME w \in Lit(focus.toplevels)
                   PROVE  Lit(Changed(focus.toplevels, w, Nil)) = {}
      OBVIOUS
    <3>2. w = v.top
      BY <1>3, <1>5, <3>1 DEF Fair
    <3>3. w \notin Lit(Changed(focus.toplevels, w, Nil))
      BY <1>1, <1>2, LitChanged
    <3>4. u.tops = Changed(focus.toplevels, w, Nil) /\ u.top = Nil
      BY <1>3, <2>2, <3>2, <3>3 DEF Turned
    <3> QED BY <1>3, <3>4 DEF Good
  <2>4. /\ Looked(focus, Forget(focus, w), Changed(focus.toplevels, w, Nil))
        /\ \A x \in Recompute(Forget(focus, w)) : Looked(focus, x, Changed(focus.toplevels, w, Nil))
    BY <1>1, <1>2, <1>3, <2>3, ForgetLooks
  <2> QED BY <2>1, <2>2, <2>4
<1>6. ASSUME event.type = "toplevel_done"
      PROVE  Looked(focus, focus', Changed(focus.toplevels, w, EntryStep(IsWlr, e, event)))
  <2>1. focus' \in ToplevelDone(focus, w)
    BY <1>6 DEF WindowFields
  <2>2. EntryStep(IsWlr, e, event) = IF Known(focus, w) THEN CommitEntry(e) ELSE Nil
    BY <1>6 DEF EntryStep, Known
  <2>3. Looked(focus, focus', Changed(focus.toplevels, w,
                                      IF Known(focus, w) THEN CommitEntry(e) ELSE Nil))
    BY <1>1, <1>2, <1>3, <2>1, DoneLooks
  <2> QED BY <2>2, <2>3
<1>7. ASSUME NEW field, NEW value, \A x \in Entry : [x EXCEPT ![field] = value] \in Entry,
             EntryStep(IsWlr, e, event) = SetEntry(focus, w, field, value),
             \/ focus' \in Recompute(Set(focus, w, field, value))
             \/ focus' = Set(focus, w, field, value) /\ field # "activated"
      PROVE  Looked(focus, focus', Changed(focus.toplevels, w, EntryStep(IsWlr, e, event)))
  <2> DEFINE s == Set(focus, w, field, value)
             f == SetEntry(focus, w, field, value)
  <2>1. /\ s \in Tracker /\ s.active = focus.active /\ s.current = focus.current
        /\ s.toplevels = Changed(focus.toplevels, w, f)
    BY <1>1, <1>2, <1>7, SetFacts
  <2>2. field # "activated" => (f # Nil /\ f.activated <=> w \in Lit(focus.toplevels))
    <3>1. SUFFICES ASSUME field # "activated"
                   PROVE  f # Nil /\ f.activated <=> w \in Lit(focus.toplevels)
      OBVIOUS
    <3>2. CASE Known(focus, w)
      <4>1. e \in Entry /\ f = [e EXCEPT ![field] = value]
        BY <1>3, <3>2 DEF Known, SetEntry
      <4>2. f \in Entry
        BY <1>7, <4>1
      <4>3. f.activated = e.activated /\ f # Nil
        BY <3>1, <4>1, <4>2, FocusAssumption DEF Entry
      <4> HIDE DEF f
      <4> QED BY <1>2, <3>2, <4>3 DEF Lit, Known
    <3>3. CASE ~Known(focus, w)
      BY <3>3 DEF Lit, Known, SetEntry
    <3> QED BY <3>2, <3>3
  <2> HIDE DEF s, f
  <2>3. CASE focus' \in Recompute(s)
    <3>1. Looked(focus, focus', s.toplevels)
      BY <2>1, <2>3, RecomputeLooks
    <3> QED BY <1>7, <2>1, <3>1 DEF f
  <2>4. CASE focus' = s /\ field # "activated"
    <3>1. Looked(focus, s, Changed(focus.toplevels, w, f))
      BY <1>1, <1>2, <1>3, <2>1, <2>2, <2>4, KeptLooks
    <3> QED BY <1>7, <2>4, <3>1 DEF f
  <2> QED BY <1>7, <2>3, <2>4 DEF s
<1>8. ASSUME event.type = "app_id"
      PROVE  Looked(focus, focus', Changed(focus.toplevels, w, EntryStep(IsWlr, e, event)))
  <2>1. CASE IsWlr
    <3>1. focus' = Set(focus, w, "pending_app_id", event.value)
      BY <1>8, <2>1 DEF WindowFields, IsWlr
    <3>2. EntryStep(IsWlr, e, event) = SetEntry(focus, w, "pending_app_id", event.value)
      BY <1>8, <2>1 DEF EntryStep, SetEntry, Known
    <3>3. \A x \in Entry : [x EXCEPT !["pending_app_id"] = event.value] \in Entry
      BY <1>2, <1>8, EntryFacts
    <3> QED BY <1>7, <3>1, <3>2, <3>3
  <2>2. CASE ~IsWlr
    <3>1. focus' \in Recompute(Set(focus, w, "app_id", event.value))
      BY <1>8, <2>2 DEF WindowFields, IsWlr
    <3>2. EntryStep(IsWlr, e, event) = SetEntry(focus, w, "app_id", event.value)
      BY <1>8, <2>2 DEF EntryStep, SetEntry, Known
    <3>3. \A x \in Entry : [x EXCEPT !["app_id"] = event.value] \in Entry
      BY <1>2, <1>8, EntryFacts
    <3> QED BY <1>7, <3>1, <3>2, <3>3
  <2> QED BY <2>1, <2>2
<1>9. ASSUME event.type = "state"
      PROVE  Looked(focus, focus', Changed(focus.toplevels, w, EntryStep(IsWlr, e, event)))
  <2>1. CASE IsWlr
    <3>1. focus' = Set(focus, w, "pending_activated", event.value)
      BY <1>9, <2>1 DEF WindowFields, IsWlr
    <3>2. EntryStep(IsWlr, e, event) = SetEntry(focus, w, "pending_activated", event.value)
      BY <1>9, <2>1 DEF EntryStep, SetEntry, Known
    <3>3. \A x \in Entry : [x EXCEPT !["pending_activated"] = event.value] \in Entry
      BY <1>2, <1>9, EntryFacts
    <3> QED BY <1>7, <3>1, <3>2, <3>3
  <2>2. CASE ~IsWlr
    <3>1. focus' \in Recompute(Set(focus, w, "activated", event.value = "yes"))
      BY <1>9, <2>2 DEF WindowFields, IsWlr
    <3>2. EntryStep(IsWlr, e, event) = SetEntry(focus, w, "activated", event.value = "yes")
      BY <1>9, <2>2 DEF EntryStep, SetEntry, Known
    <3>3. \A x \in Entry : [x EXCEPT !["activated"] = (event.value = "yes")] \in Entry
      BY EntryFacts
    <3> QED BY <1>7, <3>1, <3>2, <3>3
  <2> QED BY <2>1, <2>2
<1> QED BY <1>1, <1>2, <1>4, <1>5, <1>6, <1>8, <1>9 DEF OfWindow

(* The invariant of the next state, spelled out.                           *)
LEMMA WindowQueueNext ==
  ASSUME TopOpen',
         running' # "no" /\ desk'.tracked =>
           \E v : Linked(v)' /\ Leads(IsWlr', v, socket', Desktop')
  PROVE  WindowQueue'
BY DEF WindowQueue

(* An event of a window is dispatched.                                     *)
LEMMA WindowsFollow == ASSUME Types, WindowQueue, WindowFields PROVE WindowQueue'
<1>1. WindowDigest
  BY WindowFacts
<1>2. /\ socket \in Seq(Events) /\ socket # <<>> /\ running # "no" /\ Head(socket) = socket[1]
      /\ socket' = Tail(socket) /\ UNCHANGED <<profile, desk>>
      /\ Head(socket).type \in OfWindow \cup {"finished"}
  BY <1>1, TypesFacts DEF WindowDigest, outside, OfWindow
<1>3. IsWlr' = IsWlr /\ Desktop' = Desktop /\ TopOpen'
  BY <1>2 DEF WindowQueue, IsWlr, Desktop, TopOpen
<1>4. ASSUME desk.tracked PROVE \E v : Linked(v)' /\ Leads(IsWlr', v, socket', Desktop')
  <2>1. PICK v : Linked(v) /\ Leads(IsWlr, v, socket, Desktop)
    BY <1>2, <1>4 DEF WindowQueue
  <2>2. PICK u : Follows(IsWlr, v, socket[1], u) /\ Leads(IsWlr, u, Tail(socket), Desktop)
    BY <1>2, <2>1, LeadsTail
  <2>3. Head(socket).type \in OfWindow
    BY <1>2, <2>2 DEF Follows
  <2> DEFINE w == Head(socket).window
             e == EntryStep(IsWlr, focus.toplevels[w], Head(socket))
  <2>4. w \in Windows /\ Looked(focus, focus', Changed(focus.toplevels, w, e))
    BY <1>2, <2>1, <2>2, <2>3, WindowLooks
  <2>5. /\ v.tops = focus.toplevels /\ Good(v) /\ focus.active \in First(focus.toplevels)
        /\ focus.active = v.top => focus.current = v.shown
    BY <2>1 DEF Linked
  <2>6. u = Turned(v, w, Changed(v.tops, w, e)) /\ Good(u)
    BY <1>2, <2>2, <2>3, <2>5 DEF Follows
  <2> HIDE DEF w, e
  <2>7. focus \in Tracker
    BY TypesFacts
  <2>8. focus'.active = u.top => focus'.current = u.shown
    BY <2>4, <2>5, <2>6, <2>7, LookedLinks
  <2>9. Linked(u)'
    <3>1. /\ focus'.toplevels = Changed(v.tops, w, e)
          /\ focus'.active \in First(focus'.toplevels)
      BY <2>4, <2>5 DEF Looked
    <3>2. u.tops = focus'.toplevels
      BY <2>6, <3>1 DEF Turned
    <3> QED BY <2>6, <2>8, <3>1, <3>2 DEF Linked
  <2> QED BY <1>2, <1>3, <2>2, <2>9
<1> QED BY <1>2, <1>3, <1>4, WindowQueueNext

(* Nothing happens to the windows.                                         *)
SameWindows ==
  /\ profile' = profile /\ (running' # "no" => running # "no")
  /\ \A field \in {"windows", "top", "shown", "tracked"} : desk'[field] = desk[field]
  /\ \A field \in {"toplevels", "active", "current"} : focus'[field] = focus[field]

(* Steps that concern no window.                                           *)
LEMMA WindowsKept ==
  ASSUME Types, WindowQueue, SameWindows, NEW rest \in Seq(Events), NEW new \in Seq(Asides),
         socket' = rest \o new,
         rest = socket \/ (socket # <<>> /\ Head(socket).type \notin OfWindow /\ rest = Tail(socket))
  PROVE  WindowQueue'
<1>1. /\ desk'.windows = desk.windows /\ desk'.top = desk.top /\ desk'.shown = desk.shown
      /\ desk'.tracked = desk.tracked
      /\ focus'.toplevels = focus.toplevels /\ focus'.active = focus.active
      /\ focus'.current = focus.current
  BY DEF SameWindows
<1>2. IsWlr' = IsWlr /\ Desktop' = Desktop /\ TopOpen'
  BY <1>1 DEF WindowQueue, IsWlr, Desktop, TopOpen, SameWindows
<1>3. \A v : Linked(v)' <=> Linked(v)
  BY <1>1 DEF Linked
<1>4. ASSUME running # "no", desk.tracked
      PROVE  \E v : Linked(v)' /\ Leads(IsWlr', v, socket', Desktop')
  <2>1. PICK v : Linked(v) /\ Leads(IsWlr, v, socket, Desktop)
    BY <1>4 DEF WindowQueue
  <2>2. Leads(IsWlr, v, rest, Desktop)
    <3>1. CASE rest = socket
      BY <2>1, <3>1
    <3>2. CASE socket # <<>> /\ Head(socket).type \notin OfWindow /\ rest = Tail(socket)
      <4>1. socket \in Seq(Events) /\ Head(socket) = socket[1]
        BY <3>2, TypesFacts
      <4>2. PICK u : Follows(IsWlr, v, socket[1], u) /\ Leads(IsWlr, u, Tail(socket), Desktop)
        BY <2>1, <3>2, <4>1, LeadsTail
      <4>3. u = v
        BY <3>2, <4>1, <4>2 DEF Follows
      <4> QED BY <3>2, <4>2, <4>3
    <3> QED BY <3>1, <3>2
  <2>3. new \in Seq(Events)
    BY DEF Asides
  <2>4. Leads(IsWlr, Desktop, new, Desktop)
    BY LeadsAside
  <2>5. Leads(IsWlr, v, rest \o new, Desktop)
    BY <2>2, <2>3, <2>4, LeadsConcat
  <2> QED BY <1>2, <1>3, <2>1, <2>5
<1> QED BY <1>1, <1>2, <1>4, WindowQueueNext DEF SameWindows

(* ... of which only modifier events follow.                               *)
LEMMA WindowsLeft ==
  ASSUME Types, WindowQueue, SameWindows, NEW rest \in Seq(Events), Leaves(rest),
         rest = socket \/ (socket # <<>> /\ Head(socket).type \notin OfWindow /\ rest = Tail(socket))
  PROVE  WindowQueue'
<1>1. PICK echoes \in Seq(ModsEvents) : socket' = rest \o echoes
  BY DEF Leaves
<1>2. ModsEvents \subseteq Asides
  BY DEF ModsEvents, Asides, Events, OfWindow
<1>3. echoes \in Seq(Asides)
  BY <1>1, <1>2
<1> QED BY <1>1, <1>3, WindowsKept

-----------------------------------------------------------------------------
(* What the compositor sends leads its old view to its new one.            *)

(* A view is what the events of its windows make of it.                    *)
IsView(v) ==
  /\ v = [tops |-> v.tops, top |-> v.top, shown |-> v.shown]
  /\ v.tops \in [Windows -> Entry \cup {Nil}] /\ Good(v)

(* An entry's activation decides whether its window is lit.                *)
LEMMA TurnedFacts ==
  ASSUME NEW v, IsView(v), NEW w \in Windows, NEW e \in Entry \cup {Nil}
  PROVE  LET u == Turned(v, w, Changed(v.tops, w, e))
         IN  /\ u.tops = Changed(v.tops, w, e) /\ u.tops[w] = e
             /\ u.tops \in [Windows -> Entry \cup {Nil}]
             /\ u = [tops |-> u.tops, top |-> u.top, shown |-> u.shown]
             /\ \A x : x # w => (x \in Lit(u.tops) <=> x \in Lit(v.tops))
             /\ w \in Lit(u.tops) <=> e # Nil /\ e.activated
<1>1. /\ Turned(v, w, Changed(v.tops, w, e)).tops = Changed(v.tops, w, e)
      /\ Turned(v, w, Changed(v.tops, w, e)) =
           [tops |-> Turned(v, w, Changed(v.tops, w, e)).tops,
            top |-> Turned(v, w, Changed(v.tops, w, e)).top,
            shown |-> Turned(v, w, Changed(v.tops, w, e)).shown]
  BY DEF Turned
<1>2. Changed(v.tops, w, e) \in [Windows -> Entry \cup {Nil}] /\ Changed(v.tops, w, e)[w] = e
  BY DEF IsView, Changed
<1>3. /\ \A x : x # w => (x \in Lit(Changed(v.tops, w, e)) <=> x \in Lit(v.tops))
      /\ w \in Lit(Changed(v.tops, w, e)) <=> e # Nil /\ e.activated
  BY LitChanged DEF IsView
<1> QED BY <1>1, <1>2, <1>3

(* A pending field does not show, ...                                      *)
LEMMA PendingShows ==
  ASSUME NEW v, IsView(v), NEW w \in Windows, v.tops[w] # Nil, NEW e \in Entry,
         e.app_id = v.tops[w].app_id, e.activated = v.tops[w].activated
  PROVE  LET u == Turned(v, w, Changed(v.tops, w, e))
         IN  u.top = v.top /\ u.shown = v.shown /\ Lit(u.tops) = Lit(v.tops) /\ Good(u) /\ IsView(u)
<1> DEFINE new == Changed(v.tops, w, e)
           u == Turned(v, w, new)
<1>1. /\ u.tops = new /\ u.tops[w] = e
      /\ u.tops \in [Windows -> Entry \cup {Nil}]
      /\ u = [tops |-> u.tops, top |-> u.top, shown |-> u.shown]
      /\ \A x : x # w => (x \in Lit(u.tops) <=> x \in Lit(v.tops))
      /\ w \in Lit(u.tops) <=> e # Nil /\ e.activated
  BY TurnedFacts
<1>2. e # Nil
  BY FocusAssumption
<1>3. w \in Lit(v.tops) <=> e.activated
  BY DEF Lit
<1>4. Lit(u.tops) = Lit(v.tops)
  BY <1>1, <1>2, <1>3
<1>5. u.top = v.top /\ u.shown = v.shown
  <2>1. w = v.top => w \in Lit(v.tops)
    BY FocusAssumption DEF IsView, Good
  <2>2. Lit(new) = Lit(v.tops)
    BY <1>1, <1>4
  <2> HIDE DEF new
  <2> QED BY <2>1, <2>2 DEF Turned
<1>6. v.top \in Windows => u.tops[v.top].app_id = v.tops[v.top].app_id
  BY <1>1 DEF Changed, IsView
<1>7. Lit(v.tops) \subseteq Windows /\ Good(v)
  BY DEF Lit, IsView
<1> HIDE DEF u
<1>8. Good(u)
  BY <1>4, <1>5, <1>6, <1>7 DEF Good
<1> QED BY <1>1, <1>4, <1>5, <1>8 DEF IsView, u

(* ... and a field of a window is as good as set.                          *)
Batch(wlr, event) ==
  <<event>> \o IF wlr THEN <<[type |-> "toplevel_done", window |-> event.window]>> ELSE <<>>

(* The view is led to the one with the field set, on wlr by way of one with*)
(* the field pending.                                                      *)
(* The view is led to the one with the field set, on wlr by way of one with*)
(* the field pending.                                                      *)
LEMMA FieldLeads ==
  ASSUME NEW wlr \in BOOLEAN, NEW v, IsView(v), NEW w \in Windows, NEW event \in Events,
         event.window = w, event.type \in {"app_id", "state"},
         NEW e \in Entry, EntryStep(wlr, v.tops[w], event) = e, v.tops[w] # Nil,
         wlr => e.app_id = v.tops[w].app_id /\ e.activated = v.tops[w].activated,
         NEW u, u = Turned(v, w, Changed(v.tops, w, IF wlr THEN CommitEntry(e) ELSE e)), Good(u)
  PROVE  Leads(wlr, v, Batch(wlr, event), u)
<1>1. event.type \in OfWindow
  BY DEF OfWindow
<1>2. CASE ~wlr
  <2>1. Follows(wlr, v, event, u)
    BY <1>1, <1>2 DEF Follows, Fair
  <2>2. Batch(wlr, event) = <<event>>
    BY <1>2 DEF Batch
  <2> QED BY <2>1, <2>2, LeadsOne
<1>3. CASE wlr
  <2> DEFINE mid == Turned(v, w, Changed(v.tops, w, e))
             done == [type |-> "toplevel_done", window |-> w]
  <2>1. /\ mid.top = v.top /\ mid.shown = v.shown /\ Lit(mid.tops) = Lit(v.tops) /\ Good(mid)
    BY <1>3, PendingShows
  <2>2. mid.tops = Changed(v.tops, w, e) /\ mid.tops[w] = e
    <3>1. Changed(v.tops, w, e)[w] = e
      BY DEF Changed, IsView
    <3> QED BY <3>1 DEF Turned
  <2>3. Follows(wlr, v, event, mid)
    BY <1>1, <2>1 DEF Follows, Fair
  <2>4. EntryStep(wlr, e, done) = CommitEntry(e)
    BY FocusAssumption DEF EntryStep
  <2>5. Changed(mid.tops, w, CommitEntry(e)) = Changed(v.tops, w, CommitEntry(e))
    BY <2>2 DEF Changed, IsView
  <2> HIDE DEF mid
  <2>6. Turned(mid, w, Changed(v.tops, w, CommitEntry(e))) = u
    BY <1>3, <2>1 DEF Turned
  <2>7. Follows(wlr, mid, done, u)
    BY <2>2, <2>4, <2>5, <2>6 DEF Follows, Fair, OfWindow
  <2>8. Leads(wlr, v, <<event>>, mid) /\ Leads(wlr, mid, <<done>>, u)
    BY <2>3, <2>7, LeadsOne
  <2>9. done \in Events /\ Batch(wlr, event) = <<event>> \o <<done>>
    BY <1>3 DEF Events, Batch
  <2> HIDE DEF done
  <2>10. <<event>> \in Seq(Events) /\ <<done>> \in Seq(Events)
    BY <2>9
  <2> QED BY <2>8, <2>9, <2>10, LeadsConcat
<1> QED BY <1>2, <1>3

(* A row is a settled entry; a new id or state, committed, makes another.  *)
AppEvent(w, id) == [type |-> "app_id", window |-> w, value |-> id]
StateEvent(w, on) == [type |-> "state", window |-> w, value |-> on]

(* A row is an entry, with its id and state.                               *)
(* A row is an entry, with its id and state.                               *)
LEMMA RowFacts ==
  ASSUME NEW id \in Apps \cup {Nil}, NEW lit \in BOOLEAN
  PROVE  /\ Row(id, lit) \in Entry /\ Row(id, lit) # Nil
         /\ Row(id, lit).app_id = id /\ Row(id, lit).activated = lit
<1>1. Row(id, lit) \in Entry
  BY DEF Row, Entry
<1> QED BY <1>1, FocusAssumption DEF Row

RowStep(wlr, r, event, e, after) ==
  /\ EntryStep(wlr, r, event) = e
  /\ wlr => e.app_id = r.app_id /\ e.activated = r.activated
  /\ (IF wlr THEN CommitEntry(e) ELSE e) = after

(* What a new id makes of a row.                                           *)
(* What a new id makes of a row.                                           *)
LEMMA AppStep ==
  ASSUME NEW wlr \in BOOLEAN, NEW w, NEW id \in Apps \cup {Nil}, NEW lit \in BOOLEAN,
         NEW name \in Apps
  PROVE  \E e \in Entry : RowStep(wlr, Row(id, lit), AppEvent(w, name), e, Row(name, lit))
<1> DEFINE r == Row(id, lit)
           e == IF wlr THEN [r EXCEPT !.pending_app_id = name] ELSE [r EXCEPT !.app_id = name]
<1>1. r \in Entry /\ r # Nil /\ r.app_id = id /\ r.activated = lit
  BY RowFacts
<1>2. EntryStep(wlr, r, AppEvent(w, name)) = e
  <2> HIDE DEF r
  <2> QED BY <1>1 DEF EntryStep, AppEvent
<1>3. e = IF wlr THEN [app_id |-> id, activated |-> lit, pending_app_id |-> name,
                       pending_activated |-> Nil]
          ELSE Row(name, lit)
  BY DEF Row
<1> HIDE DEF e
<1>4. e \in Entry
  BY <1>3 DEF Entry, Row
<1>5. (IF wlr THEN CommitEntry(e) ELSE e) = Row(name, lit)
  BY <1>3, FocusAssumption DEF CommitEntry, Row
<1>6. wlr => e.app_id = id /\ e.activated = lit
  BY <1>3
<1> HIDE DEF r
<1>7. RowStep(wlr, r, AppEvent(w, name), e, Row(name, lit))
  BY <1>1, <1>2, <1>5, <1>6 DEF RowStep
<1> QED BY <1>4, <1>7 DEF r

(* What a new state makes of a row.                                        *)
(* What a new state makes of a row.                                        *)
LEMMA StateStep ==
  ASSUME NEW wlr \in BOOLEAN, NEW w, NEW id \in Apps \cup {Nil}, NEW lit \in BOOLEAN,
         NEW on \in {"yes", "no"}
  PROVE  \E e \in Entry : RowStep(wlr, Row(id, lit), StateEvent(w, on), e, Row(id, on = "yes"))
<1> DEFINE r == Row(id, lit)
           e == IF wlr THEN [r EXCEPT !.pending_activated = on]
                ELSE [r EXCEPT !.activated = (on = "yes")]
<1>1. r \in Entry /\ r # Nil /\ r.app_id = id /\ r.activated = lit
  BY RowFacts
<1>2. EntryStep(wlr, r, StateEvent(w, on)) = e
  <2> HIDE DEF r
  <2> QED BY <1>1 DEF EntryStep, StateEvent
<1>3. e = IF wlr THEN [app_id |-> id, activated |-> lit, pending_app_id |-> Nil,
                       pending_activated |-> on]
          ELSE Row(id, on = "yes")
  BY DEF Row
<1> HIDE DEF e
<1>4. e \in Entry
  BY <1>3 DEF Entry, Row
<1>5. (IF wlr THEN CommitEntry(e) ELSE e) = Row(id, on = "yes")
  BY <1>3, FocusAssumption DEF CommitEntry, Row
<1>6. wlr => e.app_id = id /\ e.activated = lit
  BY <1>3
<1> HIDE DEF r
<1>7. RowStep(wlr, r, StateEvent(w, on), e, Row(id, on = "yes"))
  BY <1>1, <1>2, <1>5, <1>6 DEF RowStep
<1> QED BY <1>4, <1>7 DEF r

(* A window gets another id, ...                                           *)
LEMMA AppLeads ==
  ASSUME NEW wlr \in BOOLEAN, NEW v, IsView(v), NEW w \in Windows,
         NEW id \in Apps \cup {Nil}, NEW lit \in BOOLEAN, v.tops[w] = Row(id, lit),
         NEW name \in Apps, NEW u, u = Turned(v, w, Changed(v.tops, w, Row(name, lit))), Good(u)
  PROVE  Leads(wlr, v, Batch(wlr, AppEvent(w, name)), u)
<1>1. /\ Row(id, lit) # Nil /\ Row(id, lit).app_id = id /\ Row(id, lit).activated = lit
  BY RowFacts
<1>2. PICK e \in Entry : RowStep(wlr, Row(id, lit), AppEvent(w, name), e, Row(name, lit))
  BY AppStep
<1>3. /\ AppEvent(w, name) \in Events /\ AppEvent(w, name).window = w
      /\ AppEvent(w, name).type = "app_id"
  BY DEF AppEvent, Events
<1>4. /\ EntryStep(wlr, v.tops[w], AppEvent(w, name)) = e
      /\ wlr => e.app_id = v.tops[w].app_id /\ e.activated = v.tops[w].activated
      /\ u = Turned(v, w, Changed(v.tops, w, IF wlr THEN CommitEntry(e) ELSE e))
  BY <1>2 DEF RowStep
<1> QED BY <1>1, <1>2, <1>3, <1>4, FieldLeads

(* ... or is activated or deactivated.                                     *)
LEMMA StateLeads ==
  ASSUME NEW wlr \in BOOLEAN, NEW v, IsView(v), NEW w \in Windows,
         NEW id \in Apps \cup {Nil}, NEW lit \in BOOLEAN, v.tops[w] = Row(id, lit),
         NEW on \in {"yes", "no"},
         NEW u, u = Turned(v, w, Changed(v.tops, w, Row(id, on = "yes"))), Good(u)
  PROVE  Leads(wlr, v, Batch(wlr, StateEvent(w, on)), u)
<1>1. /\ Row(id, lit) # Nil /\ Row(id, lit).app_id = id /\ Row(id, lit).activated = lit
  BY RowFacts
<1>2. PICK e \in Entry : RowStep(wlr, Row(id, lit), StateEvent(w, on), e, Row(id, on = "yes"))
  BY StateStep
<1>3. /\ StateEvent(w, on) \in Events /\ StateEvent(w, on).window = w
      /\ StateEvent(w, on).type = "state"
  BY DEF StateEvent, Events
<1>4. /\ EntryStep(wlr, v.tops[w], StateEvent(w, on)) = e
      /\ wlr => e.app_id = v.tops[w].app_id /\ e.activated = v.tops[w].activated
      /\ u = Turned(v, w, Changed(v.tops, w, IF wlr THEN CommitEntry(e) ELSE e))
  BY <1>2 DEF RowStep
<1> QED BY <1>1, <1>2, <1>3, <1>4, FieldLeads

(* The compositor's view.                                                  *)
Opened(windows, top, shown) ==
  /\ windows \in [Windows -> Apps \cup {Nil}] /\ top \in Windows \cup {Nil}
  /\ IF top = Nil THEN shown = Nil ELSE windows[top] # Nil

SeenAs(v, windows, top, shown) ==
  /\ v.tops = Table(windows, top) /\ v.top = top /\ v.shown = shown
  /\ \A w \in Windows :
       v.tops[w] = IF windows[w] = Nil THEN Nil ELSE Row(windows[w], w = top)
  /\ Lit(v.tops) = {top} \ {Nil}
  /\ v = [tops |-> v.tops, top |-> v.top, shown |-> v.shown] /\ IsView(v) /\ Good(v)

(* The compositor's view is a view, with its top window lit.               *)
(* The compositor's view is a view, with its top window lit.               *)
LEMMA SeenFacts ==
  ASSUME NEW windows, NEW top, NEW shown, Opened(windows, top, shown)
  PROVE  SeenAs(Seen(windows, top, shown), windows, top, shown)
<1> DEFINE v == Seen(windows, top, shown)
<1>1. /\ v.tops = Table(windows, top) /\ v.top = top /\ v.shown = shown
      /\ v = [tops |-> v.tops, top |-> v.top, shown |-> v.shown]
  BY DEF Seen
<1>2. /\ \A w \in Windows :
           v.tops[w] = IF windows[w] = Nil THEN Nil ELSE Row(windows[w], w = top)
      /\ v.tops = [w \in Windows |-> v.tops[w]]
  BY <1>1 DEF Table
<1> HIDE DEF v
<1>3. \A w \in Windows : windows[w] \in Apps \cup {Nil} /\ (w = top) \in BOOLEAN
  BY DEF Opened
<1>4. ASSUME NEW w \in Windows
      PROVE  v.tops[w] \in Entry \cup {Nil} /\ (w \in Lit(v.tops) <=> windows[w] # Nil /\ w = top)
  <2>1. CASE windows[w] = Nil
    BY <1>2, <2>1 DEF Lit
  <2>2. CASE windows[w] # Nil
    <3>1. /\ Row(windows[w], w = top) \in Entry /\ Row(windows[w], w = top) # Nil
          /\ Row(windows[w], w = top).activated <=> w = top
      BY <1>3, RowFacts
    <3> QED BY <1>2, <2>2, <3>1 DEF Lit
  <2> QED BY <2>1, <2>2
<1>5. Lit(v.tops) = {top} \ {Nil}
  <2>1. Lit(v.tops) \subseteq Windows
    BY DEF Lit
  <2> QED BY <1>4, <2>1, FocusAssumption DEF Opened
<1>6. Good(v)
  BY <1>1, <1>5 DEF Good, Opened
<1>7. v.tops \in [Windows -> Entry \cup {Nil}]
  BY <1>2, <1>4
<1>8. SeenAs(v, windows, top, shown)
  BY <1>1, <1>2, <1>5, <1>6, <1>7 DEF SeenAs, IsView
<1> QED BY <1>8 DEF v

(* The table when the entry of one window changes.                         *)
LEMMA TableGone ==
  ASSUME NEW windows \in [Windows -> Apps \cup {Nil}], NEW top, NEW w \in Windows
  PROVE  Table([windows EXCEPT ![w] = Nil], top) = Changed(Table(windows, top), w, Nil)
<1> DEFINE new == [windows EXCEPT ![w] = Nil]
<1>1. new[w] = Nil /\ \A x \in Windows : x # w => new[x] = windows[x]
  OBVIOUS
<1> HIDE DEF new
<1>2. Table(new, top) = Changed(Table(windows, top), w, Nil)
  BY <1>1 DEF Table, Changed
<1> QED BY <1>2 DEF new

(* A window gets another id.                                               *)
LEMMA RenameLeads ==
  ASSUME NEW wlr \in BOOLEAN, NEW windows, NEW top, NEW shown, Opened(windows, top, shown),
         NEW w \in Windows, windows[w] # Nil, NEW id \in Apps
  PROVE  /\ Opened([windows EXCEPT ![w] = id], top, shown)
         /\ Leads(wlr, Seen(windows, top, shown), Batch(wlr, AppEvent(w, id)),
                  Seen([windows EXCEPT ![w] = id], top, shown))
<1> DEFINE v == Seen(windows, top, shown)
           new == [windows EXCEPT ![w] = id]
           u == Seen(new, top, shown)
<1>1. /\ windows \in [Windows -> Apps \cup {Nil}] /\ windows[w] \in Apps
      /\ id # Nil
  BY FocusAssumption DEF Opened
<1>2. Opened(new, top, shown)
  BY <1>1 DEF Opened
<1>3. SeenAs(v, windows, top, shown) /\ SeenAs(u, new, top, shown)
  BY <1>2, SeenFacts
<1> HIDE DEF u, v
<1>4. v.tops[w] = Row(windows[w], w = top)
  BY <1>3 DEF SeenAs
<1>5. u.tops = Changed(v.tops, w, Row(id, w = top))
  <2>1. Table(new, top) = Changed(Table(windows, top), w, Row(id, w = top))
    <3>1. new[w] = id /\ \A x \in Windows : x # w => new[x] = windows[x]
      BY <1>1
    <3> HIDE DEF new
    <3> QED BY <1>1, <3>1 DEF Table, Changed
  <2> HIDE DEF new
  <2> QED BY <1>3, <2>1 DEF SeenAs
<1> HIDE DEF new
<1>6. u = Turned(v, w, u.tops)
  BY <1>3, FocusAssumption DEF Turned, SeenAs
<1>7. Leads(wlr, v, Batch(wlr, AppEvent(w, id)), u)
  <2>1. (w = top) \in BOOLEAN /\ windows[w] \in Apps \cup {Nil} /\ IsView(v) /\ Good(u)
    BY <1>1, <1>3 DEF SeenAs
  <2> QED BY <1>4, <1>5, <1>6, <2>1, AppLeads
<1> QED BY <1>2, <1>7 DEF u, v, new

(* A window closes.                                                        *)
LEMMA CloseLeads ==
  ASSUME NEW wlr \in BOOLEAN, NEW windows, NEW top, NEW shown, Opened(windows, top, shown),
         NEW w \in Windows, windows[w] # Nil
  PROVE  LET then == IF w = top THEN Nil ELSE top
             now  == IF w = top THEN Nil ELSE shown
         IN  /\ Opened([windows EXCEPT ![w] = Nil], then, now)
             /\ Leads(wlr, Seen(windows, top, shown), <<[type |-> "closed", window |-> w]>>,
                      Seen([windows EXCEPT ![w] = Nil], then, now))
<1> DEFINE v == Seen(windows, top, shown)
           new == [windows EXCEPT ![w] = Nil]
           then == IF w = top THEN Nil ELSE top
           now == IF w = top THEN Nil ELSE shown
           u == Seen(new, then, now)
           event == [type |-> "closed", window |-> w]
<1>1. windows \in [Windows -> Apps \cup {Nil}]
  BY DEF Opened
<1>2. Opened(new, then, now)
  BY <1>1 DEF Opened
<1> HIDE DEF then, now
<1>3. SeenAs(v, windows, top, shown) /\ SeenAs(u, new, then, now)
  BY <1>2, SeenFacts
<1> HIDE DEF u, v
<1>5. u.tops = Changed(v.tops, w, Nil)
  <2>1. Table(new, top) = Changed(Table(windows, top), w, Nil)
    BY <1>1, TableGone
  <2>2. Table(new, then) = Table(new, top)
    <3>1. new[w] = Nil
      BY <1>1
    <3> HIDE DEF new
    <3> QED BY <3>1, FocusAssumption DEF Table, then
  <2> HIDE DEF new
  <2> QED BY <1>3, <2>1, <2>2 DEF SeenAs
<1> HIDE DEF new
<1>6. u = Turned(v, w, u.tops)
  <2>1. w \notin Lit(u.tops) /\ w \notin Lit(u.tops) \ Lit(v.tops)
    BY <1>3, FocusAssumption DEF SeenAs, then
  <2> QED BY <1>3, <2>1 DEF Turned, SeenAs, then, now
<1>7. Leads(wlr, v, <<event>>, u)
  <2>1. EntryStep(wlr, v.tops[w], event) = Nil /\ event.type \in OfWindow /\ event.window = w
    BY DEF EntryStep, OfWindow
  <2>2. event.type = "closed" /\ Good(u)
    BY <1>3 DEF SeenAs
  <2> HIDE DEF event
  <2>3. Fair(v, event)
    BY <1>3, <2>1, <2>2 DEF Fair, SeenAs
  <2>4. Follows(wlr, v, event, u)
    BY <1>5, <1>6, <2>1, <2>2, <2>3 DEF Follows
  <2> QED BY <2>4, LeadsOne
<1> QED BY <1>2, <1>7 DEF u, v, new, then, now

(* A window is announced, and then gets its id.                            *)
LEMMA BatchTyped ==
  ASSUME NEW wlr, NEW w \in Windows
  PROVE  /\ \A id \in Apps : Batch(wlr, AppEvent(w, id)) \in Seq(Events)
         /\ \A on \in {"yes", "no"} : Batch(wlr, StateEvent(w, on)) \in Seq(Events)
<1>1. /\ \A id \in Apps : AppEvent(w, id) \in Events
      /\ \A on \in {"yes", "no"} : StateEvent(w, on) \in Events
  BY DEF AppEvent, StateEvent, Events
<1>2. ASSUME NEW event \in Events, event.window = w PROVE Batch(wlr, event) \in Seq(Events)
  <2> DEFINE done == [type |-> "toplevel_done", window |-> event.window]
  <2>1. done \in Events
    BY <1>2 DEF Events
  <2> HIDE DEF done
  <2>2. <<event>> \in Seq(Events) /\ <<done>> \in Seq(Events)
    BY <2>1
  <2>3. <<event>> \o <<done>> \in Seq(Events) /\ <<event>> \o <<>> \in Seq(Events)
    BY <2>2
  <2> QED BY <2>3 DEF Batch, done
<1>3. /\ \A id \in Apps : AppEvent(w, id).window = w
      /\ \A on \in {"yes", "no"} : StateEvent(w, on).window = w
  BY DEF AppEvent, StateEvent
<1> QED BY <1>1, <1>2, <1>3

(* The compositor's view with the new window is reached.                   *)
(* The compositor's view with the new window is reached.                   *)
LEMMA OpenLeads ==
  ASSUME NEW wlr \in BOOLEAN, NEW windows, NEW top, NEW shown, Opened(windows, top, shown),
         NEW w \in Windows, windows[w] = Nil, NEW id \in Apps
  PROVE  /\ Opened([windows EXCEPT ![w] = id], top, shown)
         /\ Leads(wlr, Seen(windows, top, shown),
                  <<[type |-> "toplevel", window |-> w]>> \o Batch(wlr, AppEvent(w, id)),
                  Seen([windows EXCEPT ![w] = id], top, shown))
<1> DEFINE v == Seen(windows, top, shown)
           new == [windows EXCEPT ![w] = id]
           u == Seen(new, top, shown)
           mid == Turned(v, w, Changed(v.tops, w, Row(Nil, FALSE)))
           event == [type |-> "toplevel", window |-> w]
<1>1. /\ windows \in [Windows -> Apps \cup {Nil}] /\ w # top
      /\ new[w] = id /\ id # Nil /\ \A x \in Windows : x # w => new[x] = windows[x]
  BY FocusAssumption DEF Opened
<1>2. Opened(new, top, shown)
  BY <1>1 DEF Opened
<1>3. SeenAs(v, windows, top, shown) /\ SeenAs(u, new, top, shown)
  BY <1>2, SeenFacts
<1> HIDE DEF u, v, new
<1>4. u.tops = Changed(v.tops, w, Row(id, FALSE))
  <2>1. (w = top) = FALSE
    BY <1>1
  <2>2. Table(new, top) = Changed(Table(windows, top), w, Row(id, FALSE))
    BY <1>1, <2>1 DEF Table, Changed
  <2> QED BY <1>3, <2>2 DEF SeenAs
<1>5. /\ Row(Nil, FALSE) \in Entry /\ ~Row(Nil, FALSE).activated /\ NewEntry = Row(Nil, FALSE)
  <2>1. Row(Nil, FALSE) \in Entry /\ Row(Nil, FALSE).activated = FALSE
    BY RowFacts
  <2> QED BY <2>1 DEF NewEntry, Row
<1>6. /\ mid.tops = Changed(v.tops, w, Row(Nil, FALSE)) /\ mid.tops[w] = Row(Nil, FALSE)
      /\ mid.tops \in [Windows -> Entry \cup {Nil}]
      /\ mid = [tops |-> mid.tops, top |-> mid.top, shown |-> mid.shown]
      /\ \A x : x # w => (x \in Lit(mid.tops) <=> x \in Lit(v.tops))
      /\ w \in Lit(mid.tops) <=> Row(Nil, FALSE) # Nil /\ Row(Nil, FALSE).activated
  <2>1. IsView(v) /\ Row(Nil, FALSE) \in Entry \cup {Nil}
    BY <1>3, <1>5 DEF SeenAs
  <2> QED BY <2>1, TurnedFacts
<1>7. w \notin Lit(v.tops) /\ w \notin Lit(mid.tops) /\ Lit(mid.tops) = Lit(v.tops)
  <2>1. w \notin Lit(v.tops)
    BY <1>1, <1>3 DEF SeenAs
  <2> HIDE DEF mid
  <2>2. w \notin Lit(mid.tops)
    BY <1>5, <1>6
  <2>3. \A x : x \in Lit(mid.tops) <=> x \in Lit(v.tops)
    BY <1>6, <2>1, <2>2
  <2> QED BY <2>1, <2>2, <2>3
<1>8. mid.top = top /\ mid.shown = shown
  <2>1. w \notin Lit(Changed(v.tops, w, Row(Nil, FALSE)))
    BY <1>6, <1>7
  <2> QED BY <1>1, <1>3, <2>1 DEF Turned, SeenAs
<1>9. Good(mid) /\ IsView(mid)
  <2>1. Lit(mid.tops) = {top} \ {Nil}
    BY <1>3, <1>7 DEF SeenAs
  <2>2. Good(mid)
    BY <1>8, <2>1 DEF Good, Opened
  <2> QED BY <1>6, <2>2 DEF IsView
<1>10. Follows(wlr, v, event, mid)
  <2>1. EntryStep(wlr, v.tops[w], event) = Row(Nil, FALSE) /\ event.window = w
    BY <1>5 DEF EntryStep
  <2>2. event.type = "toplevel" /\ v.tops[w] = Nil
    BY <1>3 DEF SeenAs
  <2> HIDE DEF event
  <2>3. Fair(v, event)
    BY <2>1, <2>2 DEF Fair
  <2> QED BY <1>9, <2>1, <2>2, <2>3 DEF Follows, OfWindow
<1> HIDE DEF mid
<1>11. u = Turned(mid, w, Changed(mid.tops, w, Row(id, FALSE))) /\ Good(u)
  <2>1. Changed(mid.tops, w, Row(id, FALSE)) = u.tops
    <3>1. v.tops \in [Windows -> Entry \cup {Nil}]
      BY <1>3 DEF SeenAs, IsView
    <3>2. mid.tops = [v.tops EXCEPT ![w] = Row(Nil, FALSE)]
      BY <1>6 DEF Changed
    <3> QED BY <1>4, <3>1, <3>2 DEF Changed
  <2>2. w \notin Lit(u.tops)
    BY <1>1, <1>3 DEF SeenAs
  <2>3. u = [tops |-> u.tops, top |-> top, shown |-> shown] /\ Good(u)
    BY <1>3 DEF SeenAs
  <2> QED BY <1>1, <1>8, <2>1, <2>2, <2>3 DEF Turned
<1>12. Leads(wlr, mid, Batch(wlr, AppEvent(w, id)), u)
  <2>1. Nil \in Apps \cup {Nil} /\ FALSE \in BOOLEAN
    OBVIOUS
  <2> QED BY <1>6, <1>9, <1>11, <2>1, AppLeads
<1>13. Leads(wlr, v, <<event>>, mid)
  BY <1>10, LeadsOne
<1>14. <<event>> \in Seq(Events) /\ Batch(wlr, AppEvent(w, id)) \in Seq(Events)
  <2>1. event \in Events
    BY DEF Events
  <2> HIDE DEF event
  <2>2. Batch(wlr, AppEvent(w, id)) \in Seq(Events)
    BY BatchTyped
  <2> QED BY <2>1, <2>2
<1> HIDE DEF event
<1>15. Leads(wlr, v, <<event>> \o Batch(wlr, AppEvent(w, id)), u)
  BY <1>12, <1>13, <1>14, LeadsConcat
<1> QED BY <1>2, <1>15 DEF u, v, new, event

(* The active window is deactivated.                                       *)
LEMMA OffLeads ==
  ASSUME NEW wlr \in BOOLEAN, NEW windows, NEW top, NEW shown, Opened(windows, top, shown),
         top # Nil
  PROVE  /\ Opened(windows, Nil, Nil)
         /\ Leads(wlr, Seen(windows, top, shown), Batch(wlr, StateEvent(top, "no")),
                  Seen(windows, Nil, Nil))
<1> DEFINE v == Seen(windows, top, shown)
           u == Seen(windows, Nil, Nil)
<1>1. /\ windows \in [Windows -> Apps \cup {Nil}] /\ top \in Windows /\ windows[top] \in Apps
      /\ Nil \notin Windows
  BY FocusAssumption DEF Opened
<1>2. Opened(windows, Nil, Nil)
  BY <1>1 DEF Opened
<1>3. SeenAs(v, windows, top, shown) /\ SeenAs(u, windows, Nil, Nil)
  BY <1>2, SeenFacts
<1> HIDE DEF u, v
<1>4. v.tops[top] = Row(windows[top], TRUE)
  <2>1. v.tops[top] = Row(windows[top], top = top) /\ (top = top) = TRUE
    BY <1>1, <1>3, FocusAssumption DEF SeenAs
  <2> QED BY <2>1
<1>5. u.tops = Changed(v.tops, top, Row(windows[top], FALSE))
  <2>1. \A x \in Windows : (x = Nil) = FALSE /\ (x # top => (x = top) = FALSE)
    BY <1>1
  <2>2. Table(windows, Nil) = Changed(Table(windows, top), top, Row(windows[top], FALSE))
    BY <1>1, <2>1, FocusAssumption DEF Table, Changed
  <2> QED BY <1>3, <2>2 DEF SeenAs
<1>6. u = Turned(v, top, u.tops)
  <2>1. Lit(u.tops) = {} /\ v.top = top
    BY <1>3 DEF SeenAs
  <2> QED BY <1>3, <2>1 DEF Turned, SeenAs
<1>7. Leads(wlr, v, Batch(wlr, StateEvent(top, "no")), u)
  <2>1. /\ TRUE \in BOOLEAN /\ windows[top] \in Apps \cup {Nil} /\ IsView(v) /\ Good(u)
        /\ "no" \in {"yes", "no"} /\ ("no" = "yes") = FALSE
    BY <1>1, <1>3 DEF SeenAs
  <2>2. u = Turned(v, top, Changed(v.tops, top, Row(windows[top], "no" = "yes")))
    BY <1>5, <1>6, <2>1
  <2> QED BY <1>1, <1>4, <2>1, <2>2, StateLeads
<1> QED BY <1>2, <1>7 DEF u, v

(* A window is activated while none is, or before the other is deactivated. *)
TurnedOn(wlr, windows, top, shown, w, mid) ==
  /\ IsView(mid)
  /\ mid.tops = Changed(Table(windows, top), w, Row(windows[w], TRUE))
  /\ mid.top = w /\ mid.shown = windows[w]
  /\ Leads(wlr, Seen(windows, top, shown), Batch(wlr, StateEvent(w, "yes")), mid)

(* Such a view is reached, whichever window was active.                    *)
(* Such a view is reached, whichever window was active.                    *)
LEMMA OnLeads ==
  ASSUME NEW wlr \in BOOLEAN, NEW windows, NEW top, NEW shown, Opened(windows, top, shown),
         NEW w \in Windows, w # top, windows[w] # Nil
  PROVE  /\ Opened(windows, w, windows[w])
         /\ \E mid : TurnedOn(wlr, windows, top, shown, w, mid)
<1> DEFINE v == Seen(windows, top, shown)
           mid == Turned(v, w, Changed(Table(windows, top), w, Row(windows[w], TRUE)))
<1>1. /\ windows \in [Windows -> Apps \cup {Nil}] /\ windows[w] \in Apps
      /\ Nil \notin Windows /\ Opened(windows, w, windows[w])
  BY FocusAssumption DEF Opened
<1>2. SeenAs(v, windows, top, shown)
  BY SeenFacts
<1> HIDE DEF v
<1>3. v.tops[w] = Row(windows[w], FALSE) /\ w \notin Lit(v.tops) /\ v.tops = Table(windows, top)
  <2>1. v.tops[w] = Row(windows[w], w = top) /\ (w = top) = FALSE
    BY <1>1, <1>2 DEF SeenAs
  <2> QED BY <1>2, <2>1 DEF SeenAs
<1>4. /\ Row(windows[w], TRUE) \in Entry /\ Row(windows[w], TRUE) # Nil
      /\ Row(windows[w], TRUE).app_id = windows[w] /\ Row(windows[w], TRUE).activated
  <2>1. TRUE \in BOOLEAN /\ windows[w] \in Apps \cup {Nil}
    BY <1>1
  <2> QED BY <2>1, RowFacts
<1>5. /\ mid.tops = Changed(Table(windows, top), w, Row(windows[w], TRUE))
      /\ mid.tops[w] = Row(windows[w], TRUE)
      /\ mid.tops \in [Windows -> Entry \cup {Nil}]
      /\ mid = [tops |-> mid.tops, top |-> mid.top, shown |-> mid.shown]
      /\ w \in Lit(mid.tops)
  <2> DEFINE e == Row(windows[w], TRUE)
             u == Turned(v, w, Changed(v.tops, w, e))
  <2>1. /\ IsView(v) /\ e \in Entry \cup {Nil}
        /\ mid = Turned(v, w, Changed(v.tops, w, Row(windows[w], TRUE)))
    BY <1>2, <1>3, <1>4 DEF SeenAs
  <2> HIDE DEF mid, e
  <2>2. /\ u.tops = Changed(v.tops, w, e) /\ u.tops[w] = e
        /\ u.tops \in [Windows -> Entry \cup {Nil}]
        /\ u = [tops |-> u.tops, top |-> u.top, shown |-> u.shown]
        /\ w \in Lit(u.tops) <=> e # Nil /\ e.activated
    BY <2>1, TurnedFacts
  <2>3. mid = u
    BY <2>1 DEF e
  <2> HIDE DEF u
  <2> QED BY <1>3, <1>4, <2>2, <2>3 DEF e
<1>6. mid.top = w /\ mid.shown = windows[w]
  <2>1. w \in Lit(Changed(Table(windows, top), w, Row(windows[w], TRUE))) \ Lit(v.tops)
    BY <1>3, <1>5
  <2>2. mid.top = w /\ mid.shown = mid.tops[w].app_id
    BY <2>1 DEF Turned
  <2> HIDE DEF mid
  <2> QED BY <1>4, <1>5, <2>2
<1>7. Good(mid) /\ IsView(mid)
  <2> HIDE DEF mid
  <2>1. w # Nil /\ mid.tops[w].app_id = mid.shown
    BY <1>1, <1>4, <1>5, <1>6
  <2>2. Good(mid)
    BY <1>5, <1>6, <2>1 DEF Good
  <2> QED BY <1>5, <2>2 DEF IsView
<1>8. Leads(wlr, v, Batch(wlr, StateEvent(w, "yes")), mid)
  <2>1. /\ FALSE \in BOOLEAN /\ windows[w] \in Apps \cup {Nil} /\ IsView(v)
        /\ "yes" \in {"yes", "no"} /\ ("yes" = "yes") = TRUE
    BY <1>1, <1>2 DEF SeenAs
  <2>2. mid = Turned(v, w, Changed(v.tops, w, Row(windows[w], "yes" = "yes")))
    BY <1>3, <2>1
  <2> HIDE DEF mid
  <2> QED BY <1>3, <1>7, <2>1, <2>2, StateLeads
<1> HIDE DEF mid
<1>9. TurnedOn(wlr, windows, top, shown, w, mid)
  BY <1>5, <1>6, <1>7, <1>8 DEF TurnedOn, v
<1> QED BY <1>1, <1>9

(* The other window is activated first.                                    *)
LEMMA OverLeads ==
  ASSUME NEW wlr \in BOOLEAN, NEW windows, NEW top, NEW shown, Opened(windows, top, shown),
         top # Nil, NEW w \in Windows, w # top, windows[w] # Nil
  PROVE  Leads(wlr, Seen(windows, top, shown),
               Batch(wlr, StateEvent(w, "yes")) \o Batch(wlr, StateEvent(top, "no")),
               Seen(windows, w, windows[w]))
<1> DEFINE v == Seen(windows, top, shown)
           u == Seen(windows, w, windows[w])
           e == Row(windows[w], TRUE)
<1>1. /\ Opened(windows, w, windows[w])
      /\ \E mid : TurnedOn(wlr, windows, top, shown, w, mid)
  BY OnLeads
<1>2. PICK mid : TurnedOn(wlr, windows, top, shown, w, mid)
  BY <1>1
<1>3. /\ Opened(windows, w, windows[w]) /\ IsView(mid)
      /\ mid.tops = Changed(Table(windows, top), w, e)
      /\ mid.top = w /\ mid.shown = windows[w]
      /\ Leads(wlr, v, Batch(wlr, StateEvent(w, "yes")), mid)
  BY <1>1, <1>2 DEF TurnedOn
<1>4. SeenAs(v, windows, top, shown) /\ SeenAs(u, windows, w, windows[w])
  BY <1>3, SeenFacts
<1>5. /\ windows \in [Windows -> Apps \cup {Nil}] /\ top \in Windows /\ windows[top] \in Apps
  BY DEF Opened
<1> HIDE DEF u, v
<1>6. mid.tops[top] = Row(windows[top], TRUE)
  <2>1. Table(windows, top)[top] = Row(windows[top], top = top) /\ (top = top) = TRUE
    BY <1>5, FocusAssumption DEF Table
  <2>2. mid.tops[top] = Table(windows, top)[top]
    BY <1>3, <1>5 DEF Changed, Table
  <2> QED BY <2>1, <2>2
<1>7. u.tops = Changed(mid.tops, top, Row(windows[top], FALSE))
  <2>1. /\ (w = w) = TRUE /\ (top = w) = FALSE
        /\ \A x \in Windows : (x # w /\ x # top) => (x = w) = (x = top)
    OBVIOUS
  <2>2. Table(windows, w) = Changed(mid.tops, top, Row(windows[top], FALSE))
    <3>1. mid.tops = [Table(windows, top) EXCEPT ![w] = e]
      BY <1>3 DEF Changed
    <3>2. Changed(mid.tops, top, Row(windows[top], FALSE))
            = [x \in Windows |-> IF x = top THEN Row(windows[top], FALSE)
                                 ELSE IF x = w THEN Row(windows[w], TRUE)
                                 ELSE IF windows[x] = Nil THEN Nil ELSE Row(windows[x], FALSE)]
      <4>1. \A x \in Windows : x # top => (x = top) = FALSE
        OBVIOUS
      <4> QED BY <3>1, <4>1 DEF Changed, Table
    <3>3. Table(windows, w)
            = [x \in Windows |-> IF x = top THEN Row(windows[top], FALSE)
                                 ELSE IF x = w THEN Row(windows[w], TRUE)
                                 ELSE IF windows[x] = Nil THEN Nil ELSE Row(windows[x], FALSE)]
      <4>1. \A x \in Windows : x # w => (x = w) = FALSE
        OBVIOUS
      <4> QED BY <1>5, <2>1, <4>1, FocusAssumption DEF Table
    <3> QED BY <3>2, <3>3
  <2> QED BY <1>4, <2>2 DEF SeenAs
<1>8. u = Turned(mid, top, u.tops)
  <2>1. top \notin Lit(u.tops)
    BY <1>4 DEF SeenAs
  <2>2. u = [tops |-> u.tops, top |-> w, shown |-> windows[w]]
    BY <1>4 DEF SeenAs
  <2> QED BY <1>3, <2>1, <2>2 DEF Turned
<1>9. Leads(wlr, mid, Batch(wlr, StateEvent(top, "no")), u)
  <2>1. /\ TRUE \in BOOLEAN /\ windows[top] \in Apps \cup {Nil} /\ Good(u)
        /\ "no" \in {"yes", "no"} /\ ("no" = "yes") = FALSE
    BY <1>4, <1>5 DEF SeenAs
  <2>2. u = Turned(mid, top, Changed(mid.tops, top, Row(windows[top], "no" = "yes")))
    BY <1>7, <1>8, <2>1
  <2> QED BY <1>3, <1>5, <1>6, <2>1, <2>2, StateLeads
<1>10. /\ Batch(wlr, StateEvent(w, "yes")) \in Seq(Events)
      /\ Batch(wlr, StateEvent(top, "no")) \in Seq(Events)
  BY <1>5, BatchTyped
<1>11. Leads(wlr, v, Batch(wlr, StateEvent(w, "yes")) \o Batch(wlr, StateEvent(top, "no")), u)
  BY <1>3, <1>9, <1>10, LeadsConcat
<1> QED BY <1>11 DEF u, v

(* A switch, its two states in either order.                               *)
LEMMA SwitchLeads ==
  ASSUME NEW wlr \in BOOLEAN, NEW windows, NEW top, NEW shown, Opened(windows, top, shown),
         NEW w \in Windows \cup {Nil}, w # top, w # Nil => windows[w] # Nil,
         NEW on, on = IF w = Nil THEN <<>> ELSE Batch(wlr, StateEvent(w, "yes")),
         NEW off, off = IF top = Nil THEN <<>> ELSE Batch(wlr, StateEvent(top, "no"))
  PROVE  LET now == IF w = Nil THEN Nil ELSE windows[w]
         IN  /\ Opened(windows, w, now) /\ on \in Seq(Events) /\ off \in Seq(Events)
             /\ Leads(wlr, Seen(windows, top, shown), off \o on, Seen(windows, w, now))
             /\ Leads(wlr, Seen(windows, top, shown), on \o off, Seen(windows, w, now))
<1> DEFINE v == Seen(windows, top, shown)
           mid == Seen(windows, Nil, Nil)
<1>1. on \in Seq(Events) /\ off \in Seq(Events)
  BY BatchTyped DEF Opened
<1>2. on \o <<>> = on /\ <<>> \o on = on /\ off \o <<>> = off /\ <<>> \o off = off
  BY <1>1
<1>3. CASE w = Nil
  <2>1. top # Nil
    BY <1>3
  <2>2. Opened(windows, Nil, Nil) /\ Leads(wlr, v, off, mid)
    <3>1. Opened(windows, Nil, Nil) /\ Leads(wlr, v, Batch(wlr, StateEvent(top, "no")), mid)
      BY <2>1, OffLeads
    <3> QED BY <2>1, <3>1
  <2> QED BY <1>1, <1>2, <1>3, <2>2
<1>4. CASE w # Nil
  <2> DEFINE u == Seen(windows, w, windows[w])
  <2>1. /\ on = Batch(wlr, StateEvent(w, "yes")) /\ w \in Windows /\ windows[w] # Nil
        /\ windows \in [Windows -> Apps \cup {Nil}] /\ Nil \notin Windows
    BY <1>4, FocusAssumption DEF Opened
  <2>2. Opened(windows, w, windows[w])
    BY <2>1 DEF Opened
  <2>3. ASSUME NEW old, NEW id, Opened(windows, old, id), old = Nil PROVE Leads(wlr, Seen(windows, old, id), on, u)
    <3>1. PICK t : TurnedOn(wlr, windows, old, id, w, t)
      <4>1. w # old
        BY <1>4, <2>3
      <4> QED BY <2>1, <2>3, <4>1, OnLeads
    <3>2. /\ IsView(t) /\ t.tops = Changed(Table(windows, old), w, Row(windows[w], TRUE))
          /\ t.top = w /\ t.shown = windows[w]
          /\ Leads(wlr, Seen(windows, old, id), on, t)
      BY <2>1, <3>1 DEF TurnedOn
    <3>3. t.tops = Table(windows, w)
      <4>1. \A x \in Windows : (x = old) = FALSE /\ (x # w => (x = w) = FALSE) /\ (w = w) = TRUE
        BY <2>1, <2>3
      <4> QED BY <2>1, <3>2, <4>1 DEF Changed, Table
    <3>4. t = u
      BY <3>2, <3>3 DEF IsView, Seen
    <3> QED BY <3>2, <3>4
  <2>4. CASE top = Nil
    <3>1. Leads(wlr, v, on, u)
      BY <2>3, <2>4
    <3>2. off = <<>>
      BY <2>4
    <3> QED BY <1>1, <1>2, <1>4, <2>2, <3>1, <3>2
  <2>5. CASE top # Nil
    <3>1. off = Batch(wlr, StateEvent(top, "no"))
      BY <2>5
    <3>2. Opened(windows, Nil, Nil) /\ Leads(wlr, v, off, mid)
      BY <2>5, <3>1, OffLeads
    <3>3. Leads(wlr, mid, on, u)
      BY <2>3, <3>2
    <3>4. Leads(wlr, v, off \o on, u)
      BY <1>1, <3>2, <3>3, LeadsConcat
    <3>5. Leads(wlr, v, on \o off, u)
      BY <2>1, <2>5, <3>1, OverLeads
    <3> QED BY <1>1, <1>4, <2>2, <3>4, <3>5
  <2> QED BY <2>4, <2>5
<1> QED BY <1>3, <1>4

-----------------------------------------------------------------------------
(* The compositor's steps on windows.                                      *)
LEMMA DeskOpened ==
  ASSUME Types, WindowQueue
  PROVE  /\ Opened(desk.windows, desk.top, desk.shown) /\ desk.top \in Windows \cup {Nil}
         /\ IsWlr \in BOOLEAN /\ socket \in Seq(Events)
<1>1. desk.windows \in [Windows -> Apps \cup {Nil}] /\ desk.top \in Windows \cup {Nil}
  BY TypesFacts DEF Desk
<1>2. IF desk.top = Nil THEN desk.shown = Nil ELSE desk.windows[desk.top] # Nil
  BY DEF WindowQueue, TopOpen
<1>3. socket \in Seq(Events)
  BY TypesFacts
<1> QED BY <1>1, <1>2, <1>3 DEF Opened, IsWlr

(* The events sent lead from the old view to the new one.                  *)
LEMMA WindowsSent ==
  ASSUME Types, WindowQueue, running # "no", desk.tracked,
         NEW new \in Seq(Events), socket' = socket \o new, UNCHANGED <<profile, focus>>,
         Opened(desk'.windows, desk'.top, desk'.shown),
         Leads(IsWlr, Seen(desk.windows, desk.top, desk.shown), new,
               Seen(desk'.windows, desk'.top, desk'.shown))
  PROVE  WindowQueue'
<1>1. TopOpen'
  <2>1. IF desk'.top = Nil THEN desk'.shown = Nil ELSE desk'.windows[desk'.top] # Nil
    BY DEF Opened
  <2> QED BY <2>1 DEF TopOpen
<1>2. PICK v : Linked(v) /\ Leads(IsWlr, v, socket, Desktop)
  BY DEF WindowQueue
<1>3. Leads(IsWlr, v, socket \o new, Seen(desk'.windows, desk'.top, desk'.shown))
  <2>1. socket \in Seq(Events) /\ Desktop = Seen(desk.windows, desk.top, desk.shown)
    BY TypesFacts DEF Desktop
  <2> QED BY <1>2, <2>1, LeadsConcat
<1>4. Linked(v)' /\ IsWlr' = IsWlr /\ Desktop' = Seen(desk'.windows, desk'.top, desk'.shown)
  BY <1>2 DEF Linked, IsWlr, Desktop
<1>5. Linked(v)' /\ Leads(IsWlr', v, socket', Desktop')
  BY <1>3, <1>4
<1> QED BY <1>1, <1>5, WindowQueueNext

(* The compositor's batches.                                               *)
LEMMA WindowEvents ==
  ASSUME NEW w
  PROVE  /\ \A id : WindowEvent("app_id", w, id) = Batch(IsWlr, AppEvent(w, id))
         /\ \A on : WindowEvent("state", w, on) = Batch(IsWlr, StateEvent(w, on))
<1>1. /\ \A id : AppEvent(w, id).window = w
      /\ \A on : StateEvent(w, on).window = w
  BY DEF AppEvent, StateEvent
<1> QED BY <1>1 DEF WindowEvent, Batch, IsWlr, AppEvent, StateEvent

(* A window opens.                                                         *)
(* A window opens.                                                         *)
LEMMA OpenFollows == ASSUME Types, WindowQueue, OpenWindow PROVE WindowQueue'
<1>1. PICK w \in Windows, id \in Apps :
        /\ desk.windows[w] = Nil /\ desk' = [desk EXCEPT !.windows[w] = id]
        /\ socket' = socket \o <<[type |-> "toplevel", window |-> w]>> \o WindowEvent("app_id", w, id)
  BY DEF OpenWindow
<1>2. running # "no" /\ desk.tracked /\ UNCHANGED <<profile, focus>>
  BY DEF OpenWindow, Spend, adapter
<1>3. /\ desk'.windows = [desk.windows EXCEPT ![w] = id]
      /\ desk'.top = desk.top /\ desk'.shown = desk.shown
  BY <1>1, TypesFacts DEF Desk
<1> DEFINE first == <<[type |-> "toplevel", window |-> w]>>
           second == Batch(IsWlr, AppEvent(w, id))
<1>4. Opened(desk.windows, desk.top, desk.shown) /\ IsWlr \in BOOLEAN /\ socket \in Seq(Events)
  BY DeskOpened
<1>5. /\ Opened([desk.windows EXCEPT ![w] = id], desk.top, desk.shown)
      /\ Leads(IsWlr, Seen(desk.windows, desk.top, desk.shown), first \o second,
               Seen([desk.windows EXCEPT ![w] = id], desk.top, desk.shown))
  BY <1>1, <1>4, OpenLeads
<1>6. first \in Seq(Events) /\ second \in Seq(Events)
  <2>1. [type |-> "toplevel", window |-> w] \in Events
    BY DEF Events
  <2>2. second \in Seq(Events)
    BY BatchTyped
  <2> HIDE DEF second
  <2> QED BY <2>1, <2>2
<1>7. socket' = socket \o first \o second
  BY <1>1, WindowEvents
<1> HIDE DEF first, second
<1>8. first \o second \in Seq(Events) /\ socket \o first \o second = socket \o (first \o second)
  BY <1>4, <1>6, ConcatFacts
<1> QED BY <1>2, <1>3, <1>5, <1>7, <1>8, WindowsSent

(* A window gets another id.                                               *)
(* A window gets another id.                                               *)
LEMMA RenameFollows == ASSUME Types, WindowQueue, RenameWindow PROVE WindowQueue'
<1>1. PICK w \in Windows, id \in Apps :
        /\ desk.windows[w] # Nil /\ desk' = [desk EXCEPT !.windows[w] = id]
        /\ socket' = socket \o WindowEvent("app_id", w, id)
  BY DEF RenameWindow
<1>2. running # "no" /\ desk.tracked /\ UNCHANGED <<profile, focus>>
  BY DEF RenameWindow, Spend, adapter
<1>3. /\ desk'.windows = [desk.windows EXCEPT ![w] = id]
      /\ desk'.top = desk.top /\ desk'.shown = desk.shown
  BY <1>1, TypesFacts DEF Desk
<1> DEFINE new == Batch(IsWlr, AppEvent(w, id))
<1>4. Opened(desk.windows, desk.top, desk.shown) /\ IsWlr \in BOOLEAN
  BY DeskOpened
<1>5. /\ Opened([desk.windows EXCEPT ![w] = id], desk.top, desk.shown)
      /\ Leads(IsWlr, Seen(desk.windows, desk.top, desk.shown), new,
               Seen([desk.windows EXCEPT ![w] = id], desk.top, desk.shown))
  BY <1>1, <1>4, RenameLeads
<1>6. new \in Seq(Events) /\ socket' = socket \o new
  BY <1>1, BatchTyped, WindowEvents
<1> HIDE DEF new
<1> QED BY <1>2, <1>3, <1>5, <1>6, WindowsSent

(* The active window changes.                                              *)
(* The active window changes.                                              *)
LEMMA SwitchFollows == ASSUME Types, WindowQueue, SwitchWindow PROVE WindowQueue'
<1> DEFINE on(w) == IF w = Nil THEN <<>> ELSE WindowEvent("state", w, "yes")
           off == IF desk.top = Nil THEN <<>> ELSE WindowEvent("state", desk.top, "no")
<1>1. PICK w \in Windows \cup {Nil} :
        /\ w # desk.top /\ (w # Nil => desk.windows[w] # Nil)
        /\ desk' = [desk EXCEPT !.top = w, !.shown = IF w = Nil THEN Nil ELSE desk.windows[w]]
        /\ socket' \in {socket \o off \o on(w), socket \o on(w) \o off}
  BY DEF SwitchWindow
<1>2. running # "no" /\ desk.tracked /\ UNCHANGED <<profile, focus>>
  BY DEF SwitchWindow, Spend, adapter
<1> DEFINE now == IF w = Nil THEN Nil ELSE desk.windows[w]
<1>3. desk'.windows = desk.windows /\ desk'.top = w /\ desk'.shown = now
  BY <1>1, TypesFacts DEF Desk
<1>4. Opened(desk.windows, desk.top, desk.shown) /\ IsWlr \in BOOLEAN /\ socket \in Seq(Events)
  BY DeskOpened
<1>5. /\ on(w) = IF w = Nil THEN <<>> ELSE Batch(IsWlr, StateEvent(w, "yes"))
      /\ off = IF desk.top = Nil THEN <<>> ELSE Batch(IsWlr, StateEvent(desk.top, "no"))
  BY WindowEvents
<1>6. PICK s, t : s = on(w) /\ t = off
  OBVIOUS
<1>7. /\ Opened(desk.windows, w, now) /\ s \in Seq(Events) /\ t \in Seq(Events)
      /\ Leads(IsWlr, Seen(desk.windows, desk.top, desk.shown), t \o s, Seen(desk.windows, w, now))
      /\ Leads(IsWlr, Seen(desk.windows, desk.top, desk.shown), s \o t, Seen(desk.windows, w, now))
  <2>1. /\ s = IF w = Nil THEN <<>> ELSE Batch(IsWlr, StateEvent(w, "yes"))
        /\ t = IF desk.top = Nil THEN <<>> ELSE Batch(IsWlr, StateEvent(desk.top, "no"))
    BY <1>5, <1>6
  <2> QED BY <1>1, <1>4, <2>1, SwitchLeads
<1>8. socket' = socket \o t \o s \/ socket' = socket \o s \o t
  BY <1>1, <1>6
<1> HIDE DEF on, off, now
<1>9. /\ t \o s \in Seq(Events) /\ socket \o t \o s = socket \o (t \o s)
      /\ s \o t \in Seq(Events) /\ socket \o s \o t = socket \o (s \o t)
  BY <1>4, <1>7, ConcatFacts
<1>10. CASE socket' = socket \o t \o s
  BY <1>2, <1>3, <1>7, <1>9, <1>10, WindowsSent
<1>11. CASE socket' = socket \o s \o t
  BY <1>2, <1>3, <1>7, <1>9, <1>11, WindowsSent
<1> QED BY <1>8, <1>10, <1>11

(* A window closes.                                                        *)
(* A window closes.                                                        *)
LEMMA CloseFollows == ASSUME Types, WindowQueue, CloseWindow PROVE WindowQueue'
<1>1. PICK w \in Windows :
        /\ desk.windows[w] # Nil
        /\ desk' = [desk EXCEPT !.windows[w] = Nil,
                                !.top = IF w = desk.top THEN Nil ELSE @,
                                !.shown = IF w = desk.top THEN Nil ELSE @]
        /\ socket' = Append(socket, [type |-> "closed", window |-> w])
  BY DEF CloseWindow
<1>2. running # "no" /\ desk.tracked /\ UNCHANGED <<profile, focus>>
  BY DEF CloseWindow, Spend, adapter
<1> DEFINE then == IF w = desk.top THEN Nil ELSE desk.top
           now  == IF w = desk.top THEN Nil ELSE desk.shown
           new  == <<[type |-> "closed", window |-> w]>>
<1>3. /\ desk'.windows = [desk.windows EXCEPT ![w] = Nil]
      /\ desk'.top = then /\ desk'.shown = now
  BY <1>1, TypesFacts DEF Desk
<1>4. Opened(desk.windows, desk.top, desk.shown) /\ IsWlr \in BOOLEAN /\ socket \in Seq(Events)
  BY DeskOpened
<1>5. /\ Opened([desk.windows EXCEPT ![w] = Nil], then, now)
      /\ Leads(IsWlr, Seen(desk.windows, desk.top, desk.shown), new,
               Seen([desk.windows EXCEPT ![w] = Nil], then, now))
  BY <1>1, <1>4, CloseLeads
<1>6. new \in Seq(Events) /\ socket' = socket \o new
  <2>1. [type |-> "closed", window |-> w] \in Events
    BY DEF Events
  <2>2. \A s \in Seq(Events), e \in Events : Append(s, e) = s \o <<e>> /\ <<e>> \in Seq(Events)
    OBVIOUS
  <2> QED BY <1>1, <1>4, <2>1, <2>2
<1> HIDE DEF then, now, new
<1> QED BY <1>2, <1>3, <1>5, <1>6, WindowsSent

-----------------------------------------------------------------------------
(* The other steps concern no window.                                      *)
LEMMA SameDesk ==
  ASSUME profile' = profile, running' # "no" => running # "no",
         desk'.windows = desk.windows, desk'.top = desk.top, desk'.shown = desk.shown,
         desk'.tracked = desk.tracked, UNCHANGED focus
  PROVE  SameWindows
BY DEF SameWindows

(* Events whose types are of no window.                                    *)
LEMMA AsidesSeq ==
  ASSUME NEW s \in Seq(Events),
         \A i \in DOMAIN s : s[i].type \notin OfWindow \cup {"finished"}
  PROVE  s \in Seq(Asides)
<1>1. \A i \in DOMAIN s : s[i] \in Asides
  BY DEF Asides
<1> QED BY <1>1

(* The keyboard's dispatch.                                                *)
LEMMA KeyboardWindows == ASSUME Types, WindowQueue, Keyboard PROVE WindowQueue'
<1>1. \/ Arrives("key") \/ Arrives("mods") \/ Arrives("repeat_info")
  BY PressDigest, ReleaseDigest, RepeatDigest, ModifiersDigest, RepeatInfoDigest DEF Keyboard
<1>2. Leaves(Tail(socket)) /\ UNCHANGED <<outside, focus>>
  <2>1. CASE dispatch_key_press
    BY <2>1, PressDigest DEF KeyDigest
  <2>2. CASE dispatch_key_release
    BY <2>2, ReleaseDigest DEF KeyDigest
  <2>3. CASE dispatch_key_repeat
    BY <2>3, RepeatDigest DEF KeyDigest
  <2>4. CASE handle_modifiers
    BY <2>4, ModifiersDigest DEF KeyDigest
  <2>5. CASE RepeatInfo
    BY <2>5, RepeatInfoDigest DEF KeyDigest
  <2> QED BY <2>1, <2>2, <2>3, <2>4, <2>5 DEF Keyboard
<1>3. /\ socket # <<>> /\ Tail(socket) \in Seq(Events)
      /\ Head(socket).type \in {"key", "mods", "repeat_info"}
  BY <1>1, ArrivesFacts
<1>4. SameWindows
  BY <1>2, SameDesk DEF outside
<1> QED BY <1>2, <1>3, <1>4, WindowsLeft DEF OfWindow

(* The input method's dispatch.                                            *)
LEMMA InputWindows == ASSUME Types, WindowQueue, Input PROVE WindowQueue'
<1>1. ASSUME NEW type, Arrives(type), type \notin OfWindow, SameWindows, Leaves(Tail(socket))
      PROVE  WindowQueue'
  BY <1>1, ArrivesFacts, WindowsLeft
<1>2. ASSUME NEW type, Arrives(type), socket' = Tail(socket) PROVE Leaves(Tail(socket))
  BY <1>2, ArrivesFacts, LeavesTail
<1>3. CASE FillFrame
  <2>1. FillDigest
    BY <1>3, FillFacts
  <2>2. /\ socket # <<>> /\ Leaves(Tail(socket)) /\ Head(socket).type \notin OfWindow
        /\ Tail(socket) \in Seq(Events)
    BY <2>1, TypesFacts, TailFacts DEF FillDigest, OfWindow
  <2>3. /\ desk'.windows = desk.windows /\ desk'.top = desk.top /\ desk'.shown = desk.shown
        /\ desk'.tracked = desk.tracked
    BY <2>1, TypesFacts DEF FillDigest, Desk
  <2>4. SameWindows
    BY <2>1, <2>3, SameDesk DEF FillDigest
  <2> QED BY <2>2, <2>4, WindowsLeft
<1>4. CASE DeactivateV2 \/ DeactivateV1
  <2>1. /\ Arrives("deactivate") /\ socket' = Tail(socket) /\ UNCHANGED <<outside, focus>>
    BY <1>4, DeactivateFacts
  <2>2. SameWindows
    BY <2>1, SameDesk DEF outside
  <2> QED BY <1>1, <1>2, <2>1, <2>2 DEF OfWindow
<1>5. ASSUME NEW rest, AppliesFrame(rest) PROVE Leaves(rest)
  BY <1>5 DEF AppliesFrame, DoneDigest
<1>6. CASE Done
  <2>1. Arrives("done") /\ AppliesFrame(Tail(socket)) /\ UNCHANGED <<outside, focus>>
    BY <1>6, AppliesFacts
  <2>2. SameWindows
    BY <2>1, SameDesk DEF outside
  <2> QED BY <1>1, <1>5, <2>1, <2>2 DEF OfWindow
<1>7. CASE CommitState
  <2>1. /\ Arrives("commit_state") /\ UNCHANGED <<outside, focus>>
        /\ AppliesFrame(Tail(socket)) \/ socket' = Tail(socket)
    BY <1>7, AppliesFacts
  <2>2. SameWindows
    BY <2>1, SameDesk DEF outside
  <2> QED BY <1>1, <1>2, <1>5, <2>1, <2>2 DEF OfWindow
<1>8. CASE ResetV1
  <2>1. Arrives("reset") /\ socket' = Tail(socket) /\ UNCHANGED <<outside, focus>>
    BY <1>8, ResetV1Facts
  <2>2. SameWindows
    BY <2>1, SameDesk DEF outside
  <2> QED BY <1>1, <1>2, <2>1, <2>2 DEF OfWindow
<1>9. CASE Unavailable
  <2>1. /\ Arrives("unavailable") /\ socket' = Tail(socket) /\ running # "no"
        /\ UNCHANGED <<profile, desk, focus>>
    BY <1>9 DEF Unavailable, Arrives, adapter
  <2>2. SameWindows
    BY <2>1, SameDesk
  <2> QED BY <1>1, <1>2, <2>1, <2>2 DEF OfWindow
<1>10. CASE EndOfDispatch
  <2>1. AppliesFrame(socket) /\ UNCHANGED <<outside, focus>>
    BY <1>10, AppliesFacts
  <2>2. SameWindows
    BY <2>1, SameDesk DEF outside
  <2> QED BY <1>5, <2>1, <2>2, TypesFacts, WindowsLeft
<1> QED BY <1>3, <1>4, <1>6, <1>7, <1>8, <1>9, <1>10 DEF Input

(* The user, the compositor's text inputs and keyboard, and time.          *)
LEMMA AddsWindows ==
  ASSUME Types, WindowQueue, SameWindows, NEW new \in Seq(Asides), socket' = socket \o new
  PROVE  WindowQueue'
BY TypesFacts, WindowsKept

(* Nothing is sent or dispatched, ...                                      *)
(* Nothing is sent or dispatched, ...                                      *)
LEMMA StillWindows ==
  ASSUME Types, WindowQueue, SameWindows, socket' = socket PROVE WindowQueue'
<1>1. socket \in Seq(Events)
  BY TypesFacts
<1>2. socket' = socket \o <<>> /\ <<>> \in Seq(Asides)
  BY <1>1
<1> QED BY <1>2, AddsWindows

(* ... or a key of the user is sent.                                       *)
(* ... or a key of the user is sent.                                       *)
LEMMA UserWindows ==
  ASSUME Types, WindowQueue, NEW key \in UserKeys, NEW value \in {0, 1}, UserKey(key, value)
  PROVE  WindowQueue'
<1>1. UserDigest(key, value)
  BY UserFacts
<1>2. SameWindows
  BY <1>1, SameDesk DEF UserDigest
<1>3. CASE KeysGrabbed
  <2>1. PICK new \in Seq(Events) :
          /\ socket' = socket \o new /\ Len(new) \in Nat \ {0}
          /\ new[1] = KeyOf(key, value)
          /\ \A i \in DOMAIN new : i # 1 => new[i] \in ModsEvents
    BY <1>1, <1>3 DEF UserDigest
  <2>2. \A i \in DOMAIN new : new[i].type \in {"key", "mods"}
    BY <2>1 DEF KeyOf, ModsEvents
  <2>3. new \in Seq(Asides)
    BY <2>1, <2>2, AsidesSeq DEF OfWindow
  <2> QED BY <1>2, <2>1, <2>3, AddsWindows
<1>4. CASE ~KeysGrabbed
  BY <1>1, <1>2, <1>4, StillWindows DEF UserDigest
<1> QED BY <1>3, <1>4

(* Text inputs come and go, ...                                            *)
LEMMA InputsWindows ==
  ASSUME Types, WindowQueue, EnableInput \/ DisableInput PROVE WindowQueue'
<1>1. CASE EnableInput
  <2>1. EnableDigest /\ desk' = [desk EXCEPT !.active = TRUE, !.epoch = @ + 1]
    BY <1>1, EnableFacts DEF EnableInput
  <2>2. PICK new \in Seq(Events), m \in {2, 3} :
          /\ socket' = socket \o new /\ Len(new) = m
          /\ new[1].type = "activate" /\ (m = 3 => new[2].type = "surrounding_text")
          /\ new[m].type = End
    BY <2>1 DEF EnableDigest
  <2>3. DOMAIN new = 1 .. m
    BY <2>2
  <2>4. \A i \in DOMAIN new : i = 1 \/ (i = 2 /\ m = 3) \/ i = m
    BY <2>3
  <2>5. \A i \in DOMAIN new : new[i].type \in {"activate", "surrounding_text", "done", "commit_state"}
    BY <2>2, <2>4 DEF End
  <2>6. new \in Seq(Asides)
    BY <2>5, AsidesSeq DEF OfWindow
  <2>7. /\ desk'.windows = desk.windows /\ desk'.top = desk.top /\ desk'.shown = desk.shown
        /\ desk'.tracked = desk.tracked
    BY <2>1, TypesFacts DEF Desk
  <2>8. SameWindows
    BY <2>1, <2>7, SameDesk DEF EnableDigest
  <2> QED BY <2>2, <2>6, <2>8, AddsWindows
<1>2. CASE DisableInput
  <2>1. DisableDigest /\ desk' = [desk EXCEPT !.active = FALSE, !.grabbed = FALSE]
    BY <1>2, DisableFacts DEF DisableInput
  <2>2. PICK new \in Seq(Events), m \in {1, 2} :
          /\ socket' = socket \o new /\ Len(new) = m
          /\ new[1].type = "deactivate" /\ m = (IF IsV2 THEN 2 ELSE 1)
          /\ IsV2 => new[2].type = "done"
    BY <2>1 DEF DisableDigest
  <2>3. \A i \in DOMAIN new : i = 1 \/ (i = 2 /\ IsV2)
    BY <2>2
  <2>4. \A i \in DOMAIN new : new[i].type \in {"deactivate", "done"}
    BY <2>2, <2>3
  <2>5. new \in Seq(Asides)
    BY <2>4, AsidesSeq DEF OfWindow
  <2>6. /\ desk'.windows = desk.windows /\ desk'.top = desk.top /\ desk'.shown = desk.shown
        /\ desk'.tracked = desk.tracked
    BY <2>1, TypesFacts DEF Desk
  <2>7. SameWindows
    BY <2>1, <2>6, SameDesk DEF DisableDigest
  <2> QED BY <2>2, <2>5, <2>7, AddsWindows
<1> QED BY <1>1, <1>2

(* ... and report, ...                                                     *)
LEMMA ReportWindows == ASSUME Types, WindowQueue, ReportInput PROVE WindowQueue'
<1>1. desk.epoch \in Nat
  BY TypesFacts DEF Desk
<1> DEFINE text == TextEvent(desk.epoch)
<1>2. /\ text \in Asides
      /\ \A type \in {"done", "commit_state", "cause", "content_type", "reset"} : Event(type) \in Asides
  BY <1>1 DEF TextEvent, Event, Asides, Events, OfWindow
<1>3. PICK cause \in Asides : cause = Event("cause")
  BY <1>2
<1>4. PICK done \in Asides : done = Event("done")
  BY <1>2
<1>5. PICK content \in Asides : content = Event("content_type")
  BY <1>2
<1>6. PICK end \in Asides : end = Event("commit_state")
  BY <1>2
<1>7. PICK reset_ \in Asides : reset_ = Event("reset")
  BY <1>2
<1>8. PICK t \in Asides : t = text
  BY <1>2
<1>9. \/ socket' = socket \o <<t, cause, done>> \/ socket' = socket \o <<content, done>>
      \/ socket' = socket \o <<t, end>> \/ socket' = socket \o <<t>>
      \/ socket' = socket \o <<content>> \/ socket' = socket \o <<reset_>>
  BY <1>3, <1>4, <1>5, <1>6, <1>7, <1>8 DEF ReportInput
<1>10. /\ <<t, cause, done>> \in Seq(Asides) /\ <<content, done>> \in Seq(Asides)
       /\ <<t, end>> \in Seq(Asides) /\ <<t>> \in Seq(Asides) /\ <<content>> \in Seq(Asides)
       /\ <<reset_>> \in Seq(Asides)
  BY <1>3, <1>4, <1>5, <1>6, <1>7, <1>8
<1>11. SameWindows
  <2>1. UNCHANGED <<profile, desk, running, focus>>
    BY DEF ReportInput, Spend, adapter
  <2> QED BY <2>1, SameDesk
<1> QED BY <1>9, <1>10, <1>11, AddsWindows

(* ... and the compositor repeats keys and changes its mind.               *)
LEMMA NoticesWindows ==
  ASSUME Types, WindowQueue, CompositorRepeat \/ ChangeRate \/ RefuseInput PROVE WindowQueue'
<1>1. \E event \in Asides : socket' = Append(socket, event)
  <2>1. CASE CompositorRepeat
    <3>1. PICK key \in user \ ModKeys :
            socket' = Append(socket, [type |-> "key", key |-> key, value |-> 2])
      BY <2>1 DEF CompositorRepeat
    <3>2. key \in UserKeys
      BY <3>1, TypesFacts
    <3>3. [type |-> "key", key |-> key, value |-> 2] \in Asides
      BY <3>2 DEF Asides, Events, OfWindow
    <3> QED BY <3>1, <3>3
  <2>2. CASE ChangeRate
    <3>1. [type |-> "repeat_info", positive |-> ~desk.rate] \in Asides
      BY DEF Asides, Events, OfWindow
    <3> QED BY <2>2, <3>1 DEF ChangeRate
  <2>3. CASE RefuseInput
    <3>1. Event("unavailable") \in Asides
      BY DEF Event, Asides, Events, OfWindow
    <3> QED BY <2>3, <3>1 DEF RefuseInput
  <2> QED BY <2>1, <2>2, <2>3
<1>2. PICK event \in Asides : socket' = Append(socket, event)
  BY <1>1
<1>3. <<event>> \in Seq(Asides) /\ socket' = socket \o <<event>>
  <2>1. event \in Asides /\ event \in Events
    BY <1>2 DEF Asides
  <2>2. \A s \in Seq(Events) : Append(s, event) = s \o <<event>>
    BY <2>1
  <2> QED BY <1>2, <2>1, <2>2, TypesFacts
<1>4. SameWindows
  <2>1. /\ UNCHANGED <<profile, running, focus>>
        /\ UNCHANGED desk \/ desk' = [desk EXCEPT !.rate = ~@]
    BY DEF CompositorRepeat, ChangeRate, RefuseInput, Spend, adapter
  <2>2. /\ desk'.windows = desk.windows /\ desk'.top = desk.top /\ desk'.shown = desk.shown
        /\ desk'.tracked = desk.tracked
    BY <2>1, TypesFacts DEF Desk
  <2> QED BY <2>1, <2>2, SameDesk
<1> QED BY <1>3, <1>4, AddsWindows

(* The window manager finishes: nothing is promised any more.              *)
LEMMA FinishWindows ==
  ASSUME Types, WindowQueue, ManagerFinishes \/ Teardown PROVE WindowQueue'
<1>1. TopOpen'
  <2>1. desk'.windows = desk.windows /\ desk'.top = desk.top /\ desk'.shown = desk.shown
    BY TypesFacts DEF ManagerFinishes, Teardown, Desk
  <2> QED BY <2>1 DEF WindowQueue, TopOpen
<1>2. ~desk'.tracked \/ running' = "no"
  BY TypesFacts DEF ManagerFinishes, Teardown, Desk
<1> QED BY <1>1, <1>2, WindowQueueNext

(* The loop, time and the switch.                                          *)
LEMMA LoopWindows ==
  ASSUME Types, WindowQueue,
         RepeatFires \/ FocusChanges \/ EchoTimeout \/ Toggle \/ UNCHANGED vars
  PROVE  WindowQueue'
<1>1. CASE RepeatFires
  <2>1. Leaves(socket) /\ running = "yes" /\ UNCHANGED <<profile, desk, running, focus>>
    BY <1>1, FiresFacts
  <2>2. SameWindows
    BY <2>1, SameDesk
  <2> QED BY <2>1, <2>2, TypesFacts, WindowsLeft
<1>2. CASE FocusChanges
  <2>1. /\ focus'.toplevels = focus.toplevels /\ focus'.active = focus.active
        /\ focus'.current = focus.current /\ UNCHANGED <<profile, desk, running, socket>>
    BY <1>2, TypesFacts DEF FocusChanges, outside, Tracker
  <2>2. SameWindows
    BY <2>1 DEF SameWindows
  <2> QED BY <2>1, <2>2, StillWindows
<1>3. CASE EchoTimeout \/ Toggle \/ UNCHANGED vars
  <2>1. UNCHANGED <<profile, desk, running, focus, socket>>
    BY <1>3 DEF EchoTimeout, Toggle, vars, Spend
  <2> QED BY <2>1, SameDesk, StillWindows
<1> QED BY <1>1, <1>2, <1>3

(* WindowQueue is inductive, given the types.                              *)
LEMMA WindowQueueStep == ASSUME Types, WindowQueue, [Next]_vars PROVE WindowQueue'
<1>1. CASE Press \/ Release
  <2>1. PICK key \in UserKeys, value \in {0, 1} : UserKey(key, value)
    BY <1>1, TypesFacts DEF Press, Release
  <2> QED BY <2>1, UserWindows
<1>2. CASE Compositor
  BY <1>2, NoticesWindows, InputsWindows, ReportWindows, OpenFollows, RenameFollows,
     SwitchFollows, CloseFollows, FinishWindows DEF Compositor
<1>3. CASE Keyboard \/ Input \/ WindowFields
  BY <1>3, KeyboardWindows, InputWindows, WindowsFollow
<1>4. CASE Loop \/ EchoTimeout \/ Toggle \/ UNCHANGED vars
  BY <1>4, LoopWindows, FinishWindows DEF Loop
<1> QED BY <1>1, <1>2, <1>3, <1>4 DEF Next

(* Nothing is open at first, and the two views agree.                      *)
LEMMA WindowQueueInit == ASSUME Init PROVE WindowQueue
<1>1. /\ socket = <<>> /\ desk.top = Nil /\ desk.shown = Nil
      /\ desk.windows = [w \in Windows |-> Nil]
      /\ focus.toplevels = [w \in Windows |-> Nil] /\ focus.active = Nil /\ focus.current = Nil
  BY DEF Init, NewTracker
<1>2. /\ Desktop.tops = focus.toplevels /\ Desktop.top = Nil /\ Desktop.shown = Nil
  BY <1>1 DEF Desktop, Seen, Table
<1>3. Lit(focus.toplevels) = {}
  BY <1>1 DEF Lit
<1>4. Linked(Desktop)
  BY <1>1, <1>2, <1>3 DEF Linked, Good, First
<1>5. Leads(IsWlr, Desktop, socket, Desktop)
  BY <1>1, LeadsNone
<1> QED BY <1>1, <1>4, <1>5 DEF WindowQueue, TopOpen

(* Together with the types.                                                *)
(* Together with the types.                                                *)
LEMMA WindowsInvariant == Spec => [](Types /\ WindowQueue)
<1>1. Init => WindowQueue
  BY WindowQueueInit
<1>2. Types /\ WindowQueue /\ [Next]_vars => WindowQueue'
  BY WindowQueueStep
<1> QED BY <1>1, <1>2, SessionsInvariant, PTL DEF Spec

(* When every event of a window has been dispatched, the tracker's active  *)
(* window and the snapshot are the compositor's, even if two windows were  *)
(* activated for a while (the window dispatchers of dispatch.rs,           *)
(* ToplevelEntry::commit).                                                 *)
THEOREM AdapterFocusFollows == Spec => []FocusFollows
<1>1. Types /\ WindowQueue => FocusFollows
  <2> SUFFICES ASSUME Types, WindowQueue, Idle, running = "yes", desk.tracked
               PROVE  focus.active = desk.top /\ focus.current = desk.shown
    BY DEF FocusFollows
  <2>1. PICK v : Linked(v) /\ Leads(IsWlr, v, <<>>, Desktop)
    BY DEF WindowQueue, Idle
  <2>2. v = Desktop
    BY <2>1 DEF Leads
  <2>3. SeenAs(Desktop, desk.windows, desk.top, desk.shown)
    BY DeskOpened, SeenFacts DEF Desktop
  <2>4. Lit(focus.toplevels) = {desk.top} \ {Nil} /\ Desktop.top = desk.top /\ Desktop.shown = desk.shown
    BY <2>1, <2>2, <2>3 DEF Linked, SeenAs
  <2>5. focus.active = desk.top
    BY <2>1, <2>4 DEF Linked, First
  <2> QED BY <2>1, <2>2, <2>4, <2>5 DEF Linked
<1> QED BY <1>1, WindowsInvariant, PTL

=============================================================================
