----------------------------- MODULE IbusSession -----------------------------
(***************************************************************************)
(* The IBus engine (crates/ibus-adapter/src/engine.rs with its sink and    *)
(* keyval tables) driving a Composer through the transport-neutral half of *)
(* Daemon (crates/daemon/src/handler.rs), and the client whose text field  *)
(* it edits.                                                               *)
(*                                                                         *)
(* The object server dispatches the Engine's method calls one by one       *)
(* (spawn = false) and a call emits its signals before it returns, so a    *)
(* handler is one step.  Calls wait in one queue, in the order the IBus    *)
(* daemon made them: it does not wait for a reply before it sends the next *)
(* key.  Signals and replies wait in another until the client takes them.  *)
(***************************************************************************)
EXTENDS TextField

CONSTANTS
  Typed,         \* the characters the user types
  StartTexts,    \* texts a field may hold when it is focused
  ClientKinds,   \* which kinds of client; see below
  UserActions,   \* which of the optional actions happen
  MaxKeys,       \* characters the user types
  MaxEvents      \* everything else the user, the client and the desktop do

(* "functional" executes deletes and reports every change.  "mute" says it *)
(* has surrounding text, drops deletes and reports nothing.  "docs" says   *)
(* it has none, drops deletes, and reports its text when it is asked to.   *)
(* "dead" drops deletes and reports an empty field.                        *)
AllClientKinds == {"functional", "mute", "docs", "dead"}

ASSUME IbusAssumption ==
  /\ Typed \subseteq Char
  /\ StartTexts \subseteq Seq(Char)
  /\ ClientKinds \subseteq AllClientKinds
  /\ MaxKeys \in Nat /\ MaxEvents \in Nat

VARIABLES
  current_active,            \* Router.current_active
  composer,                  \* Router.composer, or None
  has_surrounding,           \* EngineState.has_surrounding
  caps_cleared_surrounding,  \* EngineState.caps_cleared_surrounding
  enabled, suspended,        \* the shared flags
  last_enabled,              \* Router.last_enabled
  method_changed,            \* an unread method change in the config channel
  client, field,             \* the focused client and its text field
  calls,                     \* method calls the engine has not served
  signals,                   \* signals and replies the client has not taken
  dirty,                     \* the client owes a SetSurroundingText
  keys, events,              \* how much of each bound is used
  history                    \* what the user should see, and what was lost

caps    == <<has_surrounding, caps_cleared_surrounding>>
router  == <<current_active, composer, last_enabled, method_changed>>
flags   == <<enabled, suspended>>
desktop == <<client, field>>
bounds  == <<keys, events>>
vars    == <<current_active, composer, has_surrounding, caps_cleared_surrounding, enabled,
             suspended, last_enabled, method_changed, client, field, calls, signals, dirty,
             keys, events, history>>

KeyOps == {"key", "backspace", "nav", "esc", "enter", "modifier"}

Call == [op : {"key"}, ch : Char]
          \cup [op : KeyOps \ {"key"}]
          \cup [op : {"focus_in", "focus_out", "reset", "enable", "disable"}]
          \cup [op : {"capabilities"}, surrounding : BOOLEAN]
          \cup [op : {"surrounding"}, frame : Surrounding]

Signal == [op : {"key"}, ch : Char] \cup [op : {"backspace", "move", "require"}]
            \cup [op : {"delete"}, bytes : Nat, chars : Nat] \cup [op : {"text"}, text : Text]

(* text, engine: see IdealKey.  plain: only characters were typed, each    *)
(* composed in a settled state.  lost: deletes of at least one character   *)
(* sent to a client that drops them, since the composition last started    *)
(* afresh.  missed: since then a key has passed the disabled engine in the *)
(* middle of a word.  misread: a report that differs from the recorded one *)
(* was dropped as its duplicate, and none recorded since.                  *)
Histories == [text : Text, engine : EngineStates, plain : BOOLEAN, lost : Nat,
              missed : BOOLEAN, misread : BOOLEAN]

InFlight == signals # <<>> \/ dirty
Quiet    == calls = <<>> /\ ~InFlight

-----------------------------------------------------------------------------
(* The client.                                                             *)

Take(kind, f, s) ==
  IF s.op = "delete" /\ kind = "functional" THEN DeleteChars(f, s.chars) ELSE TakeKey(f, s)

Reports(kind, s) ==
  CASE kind \in {"functional", "dead"} -> TRUE
    [] kind = "docs"                   -> s.op = "require"
    [] kind = "mute"                   -> FALSE

ClientTakes ==
  /\ signals # <<>>
  /\ field' = Take(client, field, Head(signals))
  /\ signals' = Tail(signals)
  /\ dirty' = (dirty \/ Reports(client, Head(signals)))
  /\ UNCHANGED <<router, caps, flags, client, calls, bounds, history>>

ClientReports ==
  /\ dirty
  /\ dirty' = FALSE
  /\ calls' = Append(calls, [op |-> "surrounding",
                             frame |-> IF client = "dead" THEN NoSurrounding ELSE field])
  /\ UNCHANGED <<router, caps, flags, desktop, signals, bounds, history>>

-----------------------------------------------------------------------------
(* The user, through the IBus daemon.                                      *)

Event(name) == name \in UserActions /\ events < MaxEvents /\ events' = events + 1

(* Without "hasty" the user waits for each key to settle.                  *)
MayPress == Quiet \/ "hasty" \in UserActions

TypeKey(ch) ==
  /\ keys < MaxKeys /\ MayPress
  /\ keys' = keys + 1
  /\ calls' = Append(calls, [op |-> "key", ch |-> ch])
  /\ UNCHANGED <<router, caps, flags, desktop, signals, dirty, events, history>>

(* A key that is not a character, or a Reset of the client.                *)
PressOther(op) ==
  /\ Event(op) /\ MayPress
  /\ calls' = Append(calls, [op |-> op])
  /\ UNCHANGED <<router, caps, flags, desktop, signals, dirty, keys, history>>

(* The user clicks, later than 150 ms after the last key.                  *)
Click ==
  /\ Event("click") /\ Quiet
  /\ client = "functional" /\ (composer # None => ~composer.recent)
  /\ \E p \in 0 .. Len(field.text) :
       /\ p # field.cursor
       /\ field' = [field EXCEPT !.cursor = p, !.anchor = p]
  /\ dirty' = TRUE
  /\ history' = [history EXCEPT !.plain = FALSE]
  /\ UNCHANGED <<router, caps, flags, client, calls, signals, keys>>

(* What a client says of itself, which it may take back at any time.       *)
Declares(kind) == kind # "docs"

CapsFlap ==
  /\ Event("capabilities")
  /\ \E b \in BOOLEAN :
       /\ calls' = Append(calls, [op |-> "capabilities", surrounding |-> b])
       /\ history' = [history EXCEPT !.plain = @ /\ (b => client = "functional")]
  /\ UNCHANGED <<router, caps, flags, desktop, signals, dirty, keys>>

HistoryOf(kind, text) ==
  [text |-> text, lost |-> 0, missed |-> FALSE, misread |-> FALSE,
   plain |-> kind = "functional" \/ kind = "docs",
   engine |-> feed_context_gated(current_word(text))]

(* The focus moves to another field once the keys of the last are served;  *)
(* its reports may still wait.  The engine may be disabled and enabled on  *)
(* the way.                                                                *)
Refocus ==
  /\ Event("focus") /\ signals = <<>>
  /\ \A i \in DOMAIN calls : calls[i].op \notin KeyOps
  /\ \E kind \in ClientKinds, text \in StartTexts, disabled \in BOOLEAN :
       /\ client' = kind
       /\ field' = FieldWith(text)
       /\ calls' = calls
            \o <<[op |-> "focus_out"]>>
            \o (IF disabled THEN <<[op |-> "disable"], [op |-> "enable"]>> ELSE <<>>)
            \o <<[op |-> "focus_in"],
                 [op |-> "capabilities", surrounding |-> Declares(kind)]>>
       /\ history' = HistoryOf(kind, text)
  /\ dirty' = FALSE
  /\ UNCHANGED <<router, caps, flags, signals, keys>>

(* The user or the supervisor flips a flag, or changes the input method.   *)
Toggle ==
  /\ Event("toggle")
  /\ enabled' = ~enabled
  /\ UNCHANGED <<router, caps, suspended, desktop, calls, signals, dirty, keys, history>>

Suspend ==
  /\ Event("suspend")
  /\ suspended' = ~suspended
  /\ UNCHANGED <<router, caps, enabled, desktop, calls, signals, dirty, keys, history>>

ChangeMethod ==
  /\ Event("method")
  /\ method_changed' = TRUE
  /\ UNCHANGED <<current_active, composer, last_enabled, caps, flags, desktop, calls, signals,
                 dirty, keys, history>>

-----------------------------------------------------------------------------
(* The engine: key events.                                                 *)

(* What resets the composition before the key is looked at.  A disabled    *)
(* engine returns before it sees that it is suspended.                     *)
Faulty_GateResets == last_enabled /\ ~enabled

GateResets == (last_enabled /\ ~enabled) \/ (enabled /\ suspended)

(* What process_key does before it looks at the key.                       *)
BeforeKey ==
  LET c1 == IF method_changed /\ composer # None THEN full_reset(composer) ELSE composer
      c2 == IF c1 = None THEN None ELSE check_idle_reset(c1)
  IN  IF c2 # None /\ GateResets THEN full_reset(c2) ELSE c2

(* The sink buffers deletes, forwarded keys and commits that are not empty *)
(* apart; process_key_event drains buffer after buffer, deletes first.     *)
Buffers(op, s) == s.op = op /\ (op = "text" => s.text # <<>>)

Buffered(op, output) ==
  FoldLeft(LAMBDA out, s : IF Buffers(op, s) THEN Append(out, s) ELSE out, <<>>, output)

Faulty_Emission(output) ==
  Buffered("text", output) \o Buffered("delete", output) \o Buffered("backspace", output)

Emission(output) ==
  Buffered("delete", output) \o Buffered("backspace", output) \o Buffered("text", output)

(* apply_with_sink: a correction that follows an unechoed one goes through *)
(* forwarded BackSpaces instead.                                           *)
ApplyWithSink(c, backspaces, commit) ==
  LET corrects == backspaces > 0 /\ c.method = "SurroundingText"
      noted    == IF corrects THEN NoteCorrection(c) ELSE c
      routed   == IF corrects /\ AsksEchoDowngrade(c) THEN set_method(noted, "ForwardKey")
                  ELSE noted
      applied  == apply(routed, backspaces, commit)
  IN  [composer |-> applied.composer, output |-> Emission(applied.output)]

(* A reply of FALSE: the client handles the key itself.                    *)
RawReply(call) ==
  CASE call.op = "key"       -> <<[op |-> "key", ch |-> call.ch]>>
    [] call.op = "backspace" -> <<BackspaceKey>>
    [] call.op = "nav"       -> <<[op |-> "move"]>>
    [] call.op = "enter"     -> <<[op |-> "key", ch |-> CHOOSE ch \in Boundary : TRUE]>>
    [] call.op \in {"esc", "modifier"} -> <<>>

Raw(c, call) == [composer |-> c, output |-> RawReply(call)]

Decided(fed, call) ==
  IF fed.decision.kind = "Apply"
  THEN ApplyWithSink(fed.composer, fed.decision.backspaces, fed.decision.commit)
  ELSE Raw(fed.composer, call)

(* A shortcut, a navigation key or a key without a character ends the word.*)
WordEnders == {"nav", "enter", "modifier"}

EndWord(c) == defer_action(full_reset(c))

(* process_key and the emission of what it decides.  "nav" stands for the  *)
(* navigation keys and for shortcuts; "enter" and a "modifier" on its own  *)
(* are the keys without a character other than Escape.                     *)
Answer(c, call) ==
  CASE ~enabled \/ suspended \/ c = None -> Raw(c, call)
    [] enabled /\ ~suspended /\ c # None ->
         CASE call.op \in WordEnders -> Raw(EndWord(c), call)
           [] call.op = "esc"       -> Raw(defer_action(c), call)
           [] call.op = "backspace" -> Decided(feed_backspace(c), call)
           [] call.op = "key"       -> Decided(feed_key(mark_action(c), call.ch), call)

(* The composition starts afresh before or while the key is handled.       *)
Restarts(call) ==
  method_changed \/ GateResets \/ (enabled /\ call.op \in WordEnders)

(* Nothing but this key is under way, at the end of a word that the engine *)
(* can be seeded with.                                                     *)
Settled == ~InFlight /\ Len(calls) = 1

SettledKey(c, call) ==
  LET word == current_word(history.text)
  IN  /\ Settled /\ enabled /\ ~suspended /\ ~Restarts(call) /\ c # None
      /\ word = <<>> \/ SeedAccepted(word)

Remembered(c, call, output) ==
  LET idle   == composer # None /\ composer.idle /\ c # None /\ c.method = "ForwardKey"
      h      == IF idle THEN [history EXCEPT !.engine = Fresh] ELSE history
      drops  == /\ client # "functional"
                /\ \E i \in DOMAIN output : output[i].op = "delete" /\ output[i].chars > 0
      lost   == (IF Restarts(call) THEN 0 ELSE h.lost) + (IF drops THEN 1 ELSE 0)
      missed == ~Restarts(call) /\ (h.missed \/ (~enabled /\ c # None /\ c.engine # Fresh))
  IN  [(IF call.op = "key" THEN IdealKey(h, call.ch) ELSE h) EXCEPT
         !.plain = @ /\ call.op = "key" /\ SettledKey(c, call),
         !.lost = lost, !.missed = missed, !.misread = @ /\ ~Restarts(call)]

ProcessKeyEvent ==
  /\ calls # <<>> /\ Head(calls).op \in KeyOps
  /\ LET c   == BeforeKey
         out == Answer(c, Head(calls))
     IN  /\ composer' = out.composer
         /\ signals' = signals \o out.output
         /\ history' = Remembered(c, Head(calls), out.output)
  /\ calls' = Tail(calls)
  /\ last_enabled' = enabled
  /\ method_changed' = FALSE
  /\ UNCHANGED <<current_active, caps, flags, desktop, dirty, bounds>>

-----------------------------------------------------------------------------
(* The engine: focus, capabilities and surrounding text.                   *)

Serve(op) == calls # <<>> /\ Head(calls).op = op /\ calls' = Tail(calls)

method_for_capability(b) == IF b THEN "SurroundingText" ELSE "ForwardKey"

(* update_ibus_method.                                                     *)
UpdateMethod(c, m) == IF c = None \/ c.method = m THEN c ELSE set_method(c, m)

FocusIn ==
  /\ Serve("focus_in")
  /\ caps_cleared_surrounding' = FALSE
  /\ composer' = IF current_active THEN composer
                 ELSE NewComposer(method_for_capability(has_surrounding), FALSE)
  /\ current_active' = TRUE
  /\ signals' = Append(signals, [op |-> "require"])
  /\ UNCHANGED <<has_surrounding, last_enabled, method_changed, flags, desktop, dirty, bounds,
                 history>>

Enable ==
  /\ Serve("enable")
  /\ signals' = Append(signals, [op |-> "require"])
  /\ UNCHANGED <<router, caps, flags, desktop, dirty, bounds, history>>

(* FocusOut and Disable: deactivate_ibus.                                  *)
Faulty_Deactivate ==
  /\ Serve("focus_out") \/ Serve("disable")
  /\ composer' = None
  /\ UNCHANGED <<current_active, caps, last_enabled, method_changed, flags, desktop, signals,
                 dirty, bounds, history>>

Deactivate ==
  /\ Serve("focus_out") \/ Serve("disable")
  /\ current_active' = FALSE /\ composer' = None
  /\ history' = [history EXCEPT !.misread = FALSE]
  /\ UNCHANGED <<caps, last_enabled, method_changed, flags, desktop, signals, dirty, bounds>>

Reset ==
  /\ Serve("reset")
  /\ composer' = IF composer = None THEN None ELSE full_reset(composer)
  /\ history' = [history EXCEPT !.plain = FALSE, !.lost = 0, !.missed = FALSE,
                                  !.misread = FALSE]
  /\ UNCHANGED <<current_active, last_enabled, method_changed, caps, flags, desktop, signals,
                 dirty, bounds>>

SetCapabilities ==
  /\ Serve("capabilities")
  /\ has_surrounding' = Head(calls).surrounding
  /\ caps_cleared_surrounding' = ~Head(calls).surrounding
  /\ composer' = UpdateMethod(composer, method_for_capability(Head(calls).surrounding))
  /\ UNCHANGED <<current_active, last_enabled, method_changed, flags, desktop, signals, dirty,
                 bounds, history>>

Faulty_should_upgrade_on_surrounding == ~has_surrounding

should_upgrade_on_surrounding == ~has_surrounding /\ ~caps_cleared_surrounding

(* observe_surrounding up to its duplicate guard: the report's cursor,     *)
(* which counts characters, is taken for one that counts bytes.            *)
Watched(c, f) ==
  revalidate_live_confirmation(Watchdog(mark_surrounding_frame_seen(c), f, FALSE),
                               text_before_cursor(f.text, CharsIn(f.text, f.cursor)))

Dropped(c, f) == SkipsFrame(Watched(c, f), f, FALSE, FALSE)

(* What is left of it converts the cursor.  Confirmation is off on IBus,   *)
(* so a frame repairs nothing.                                             *)
ObserveSurrounding(c, f) ==
  IF Dropped(c, f) THEN Watched(c, f)
  ELSE apply_surrounding(Watched(c, f), f, FALSE).composer

Misread(c, f) ==
  IF Dropped(c, f) THEN f # c.prev
  ELSE history.misread /\ ObserveSurrounding(c, f).prev # f

SetSurroundingText ==
  LET upgrades == should_upgrade_on_surrounding
      c        == IF upgrades THEN UpdateMethod(composer, "SurroundingText") ELSE composer
      f        == Head(calls).frame
  IN  /\ Serve("surrounding")
      /\ has_surrounding' = (has_surrounding \/ upgrades)
      /\ composer' = IF c = None THEN None ELSE ObserveSurrounding(c, f)
      /\ history' = [history EXCEPT !.misread = c # None /\ Misread(c, f)]
      /\ UNCHANGED <<current_active, caps_cleared_surrounding, last_enabled, method_changed,
                     flags, desktop, signals, dirty, bounds>>

-----------------------------------------------------------------------------

(* 150 ms pass without an action.                                          *)
WindowCloses ==
  /\ composer # None /\ composer.recent
  /\ composer' = [composer EXCEPT !.recent = FALSE]
  /\ UNCHANGED <<current_active, last_enabled, method_changed, caps, flags, desktop, calls,
                 signals, dirty, bounds, history>>

(* Two seconds pass without a key.                                         *)
Idle ==
  /\ composer # None /\ ~composer.recent /\ ~composer.idle
  /\ calls = <<>>
  /\ composer' = [composer EXCEPT !.idle = TRUE]
  /\ UNCHANGED <<current_active, last_enabled, method_changed, caps, flags, desktop, calls,
                 signals, dirty, bounds, history>>

Init ==
  /\ current_active = FALSE /\ composer = None
  /\ has_surrounding = TRUE /\ caps_cleared_surrounding = FALSE
  /\ enabled = TRUE /\ suspended = FALSE /\ last_enabled = TRUE /\ method_changed = FALSE
  /\ client \in ClientKinds
  /\ \E text \in StartTexts :
       field = FieldWith(text) /\ history = HistoryOf(client, text)
  /\ calls = <<[op |-> "focus_in"], [op |-> "capabilities", surrounding |-> Declares(client)]>>
  /\ signals = <<>> /\ dirty = FALSE
  /\ keys = 0 /\ events = 0

Next ==
  \/ ClientTakes \/ ClientReports
  \/ \E ch \in Typed : TypeKey(ch)
  \/ \E op \in (KeyOps \ {"key"}) \cup {"reset"} : PressOther(op)
  \/ Click \/ CapsFlap \/ Refocus \/ Toggle \/ Suspend \/ ChangeMethod
  \/ ProcessKeyEvent \/ FocusIn \/ Enable \/ Deactivate \/ Reset
  \/ SetCapabilities \/ SetSurroundingText
  \/ WindowCloses \/ Idle

Spec == Init /\ [][Next]_vars

-----------------------------------------------------------------------------
(* Properties.                                                             *)

(* The types; the session is active exactly while it has a composer, which *)
(* activate_ibus relies on when it returns early.                          *)
TypeOK ==
  /\ composer \in Composers \cup {None}
  /\ current_active = (composer # None)
  /\ has_surrounding \in BOOLEAN /\ caps_cleared_surrounding \in BOOLEAN
  /\ enabled \in BOOLEAN /\ suspended \in BOOLEAN /\ last_enabled \in BOOLEAN
  /\ method_changed \in BOOLEAN
  /\ client \in ClientKinds /\ field \in Surrounding
  /\ calls \in Seq(Call) /\ signals \in Seq(Signal) /\ dirty \in BOOLEAN
  /\ keys \in Nat /\ events \in Nat
  /\ history \in Histories

(* A client that executes deletes, or that said it has no surrounding      *)
(* text, shows what the engine alone would have written, whatever it says  *)
(* of its capabilities between two keys.                                   *)
ClientShowsText == Quiet /\ history.plain => field.text = history.text

(* A client that drops deletes without a word loses at most one of them    *)
(* before the corrections go through forwarded BackSpaces                  *)
(* (note_surrounding_correction), also when it renews its capabilities.    *)
OneLostDelete == client = "mute" => history.lost <= 1

(* DeleteSurroundingText is used only while the client is taken to have    *)
(* surrounding text, and no frame overrides a client that said it has none.*)
DeletesOnlyIfCapable ==
  /\ composer # None /\ composer.method = "SurroundingText" => has_surrounding
  /\ caps_cleared_surrounding => ~has_surrounding

(* The edit of a key that meets a settled client changes nothing but the   *)
(* word before the cursor, after clicks, navigation, resets, focus changes *)
(* and suspended stretches too.  Not so after `missed' keys: a frame seeds *)
(* the disabled engine, and neither the keys that pass it nor the frame    *)
(* that reports one of them end its word.  Nor after a `misread' report,   *)
(* which leaves the engine with the word the cursor has left.              *)
EditStaysInWord ==
  [][(/\ calls # <<>> /\ Head(calls).op = "key" /\ calls' = Tail(calls)
      /\ Settled /\ client = "functional" /\ ~history.missed /\ ~history.misread)
     => SameOutsideWord(field, FoldLeft(LAMBDA f, s : Take(client, f, s), field, signals'))]_vars

=============================================================================
