--------------------------- MODULE WaylandSession ---------------------------
(***************************************************************************)
(* One Wayland input-method session: the daemon's Wayland glue             *)
(* (crates/daemon/src/transport/wayland.rs, with Router and sync_config of *)
(* handler.rs) driving a Composer, and the application on the other side   *)
(* of the compositor.                                                      *)
(*                                                                         *)
(* The daemon is single-threaded, so a handler is one step.  What runs     *)
(* concurrently is the application: requests of the daemon (forwarded      *)
(* keys, deletes, texts) wait in a queue until the application takes them, *)
(* and its surrounding-text reports wait in another until the daemon       *)
(* dispatches them, so a report can describe a field that the daemon and   *)
(* the user have already moved past.                                       *)
(***************************************************************************)
EXTENDS TextField

CONSTANTS
  Typed,          \* the characters the user types
  StartTexts,     \* texts the field may hold when it is first focused
  ClientKinds,    \* which kinds of application: "healthy", "dead", "silent"
  UserActions,    \* which of the optional user and client actions happen
  LevelShift,     \* TRUE: an IMv1 compositor and a shifted keyboard level
  MaxKeys,        \* keys the user presses, but for Backspace
  MaxDuplicates,  \* surrounding frames the compositor repeats
  MaxEvents       \* Backspaces, and user and client actions other than keys

ASSUME SessionAssumption ==
  /\ Typed \subseteq Char
  /\ StartTexts \subseteq Seq(Char)
  /\ ClientKinds \subseteq {"healthy", "dead", "silent"}
  /\ LevelShift \in BOOLEAN
  /\ MaxKeys \in Nat /\ MaxDuplicates \in Nat /\ MaxEvents \in Nat

VARIABLES
  current_active,    \* Router.current_active
  synthetic_active,  \* Router.synthetic_active
  composer,          \* Router.composer, or None
  enabled,           \* the shared on/off flag
  last_enabled,      \* Router.last_enabled
  method_changed,    \* an unread method change in the config channel
  client,            \* the kind of application that has the focus
  field,             \* its text field: text, cursor, anchor
  requests,          \* what the daemon sent and the application has not taken
  dirty,             \* the field changed since the last report
  frames,            \* done frames the daemon has not dispatched
  keys, duplicates, events,   \* how much of each bound is used
  history            \* what the user should see; see History below

router  == <<current_active, synthetic_active, composer, last_enabled>>
bounds  == <<keys, duplicates, events>>
vars    == <<current_active, synthetic_active, composer, enabled, last_enabled,
             method_changed, client, field, requests, dirty, frames,
             keys, duplicates, events, history>>

(* A done frame: the activate and deactivate flags and the surrounding     *)
(* text, if the batch had one.                                             *)
Frame == [activate : BOOLEAN, deactivate : BOOLEAN, surrounding : Surrounding \cup {None}]

Request == [op : {"key"}, ch : Char] \cup [op : {"backspace", "move"}]
             \cup [op : {"delete"}, bytes : Nat, chars : Nat] \cup [op : {"text"}, text : Text]

Quiet == requests = <<>> /\ frames = <<>> /\ ~dirty

-----------------------------------------------------------------------------
(* History: what the user should see (IdealKey), and `plain', which holds  *)
(* while the user only types, each key in a settled state or to a client   *)
(* that never reports.                                                     *)
Histories == [text : Text, engine : EngineStates, plain : BOOLEAN]

-----------------------------------------------------------------------------
(* The application.                                                        *)

Report(kind, f) == IF kind = "dead" THEN NoSurrounding ELSE f

(* Field after a request.  A dead client ignores delete_surrounding_text.  *)
Take(kind, f, r) ==
  IF r.op # "delete" THEN TakeKey(f, r)
  ELSE IF kind = "dead" THEN f
  ELSE DeleteChars(f, CharsOfBytes(f, r.bytes))

ClientTakes ==
  /\ requests # <<>>
  /\ field' = Take(client, field, Head(requests))
  /\ requests' = Tail(requests)
  /\ dirty' = TRUE
  /\ UNCHANGED <<router, enabled, method_changed, client, frames, bounds, history>>

(* A report describes the field as it is when it is sent: several requests *)
(* may be folded into one.                                                 *)
ClientReports ==
  /\ dirty
  /\ dirty' = FALSE
  /\ frames' = IF client = "silent" THEN frames
               ELSE Append(frames, [activate |-> FALSE, deactivate |-> FALSE,
                                    surrounding |-> Report(client, field)])
  /\ UNCHANGED <<router, enabled, method_changed, client, field, requests, bounds, history>>

Event == events < MaxEvents /\ events' = events + 1 /\ UNCHANGED <<keys, duplicates>>

(* The user clicks elsewhere in the field.                                 *)
Click ==
  /\ "click" \in UserActions /\ Event
  /\ \E p \in 0 .. Len(field.text) :
       /\ p # field.cursor
       /\ field' = [field EXCEPT !.cursor = p, !.anchor = p]
  /\ dirty' = TRUE
  /\ history' = [history EXCEPT !.plain = FALSE]
  /\ UNCHANGED <<router, enabled, method_changed, client, requests, frames>>

(* The application shows a completion after the cursor, selected.          *)
Complete ==
  /\ "complete" \in UserActions /\ Event
  /\ \E ch \in Typed :
       field' = [text |-> text_before_cursor(field.text, field.cursor) \o <<ch>>
                            \o TextAfter(field.text, field.cursor),
                 cursor |-> field.cursor, anchor |-> field.cursor + 1]
  /\ dirty' = TRUE
  /\ history' = [history EXCEPT !.plain = FALSE]
  /\ UNCHANGED <<router, enabled, method_changed, client, requests, frames>>

(* The application deletes before the cursor on its own: a cut, an undo.   *)
Erase ==
  /\ "erase" \in UserActions /\ Event
  /\ field.cursor > 0
  /\ field' = DeleteChars(field, 1)
  /\ dirty' = TRUE
  /\ history' = [history EXCEPT !.plain = FALSE]
  /\ UNCHANGED <<router, enabled, method_changed, client, requests, frames>>

-----------------------------------------------------------------------------
(* The daemon: done frames.                                                *)

(* sync_config on a composer: a method change rebuilds the engine.         *)
SyncConfig(c) == IF method_changed /\ c # None THEN full_reset(c) ELSE c

(* The late upgrade: any frame that is not skipped proves the tier.        *)
LateUpgrade(c, activate) ==
  IF ~activate /\ c.method = "ForwardKey" THEN set_method(c, "SurroundingText") ELSE c

(* on_done_frame for a live composer and a surrounding text: the composer  *)
(* it leaves and the repair it sends to the application.                   *)
OnSurrounding(c, f, activate, deactivate) ==
  LET watched  == revalidate_live_confirmation(Watchdog(c, f, activate),
                                               text_before_cursor(f.text, f.cursor))
      observed == apply_surrounding(LateUpgrade(watched, activate), f, activate)
      repair   == observed.repair
  IN  IF SkipsFrame(watched, InBytes(f), activate, deactivate)
      THEN [composer |-> watched, output |-> <<>>]
      ELSE IF repair.backspaces = 0 /\ repair.commit = <<>>
      THEN [composer |-> observed.composer, output |-> <<>>]
      ELSE apply_confirmed_repair_to_sink(observed.composer, repair.backspaces, repair.commit)

Faulty_StaysActive(was_active, activate, deactivate) == activate \/ was_active

StaysActive(was_active, activate, deactivate) == activate \/ (was_active /\ ~deactivate)

OnDoneFrame(frame) ==
  LET drops      == frame.activate /\ synthetic_active
      was_active == current_active /\ ~drops
      activate   == frame.activate /\ ~was_active
      deactivate == frame.deactivate /\ was_active
      f          == frame.surrounding
      c          == IF activate
                    THEN NewComposer(IF f # None THEN "SurroundingText" ELSE "ForwardKey", TRUE)
                    ELSE IF deactivate \/ drops THEN None ELSE SyncConfig(composer)
      handled    == IF c = None THEN [composer |-> None, output |-> <<>>]
                    ELSE IF f # None THEN OnSurrounding(c, f, activate, deactivate)
                    ELSE [composer |-> IF activate \/ deactivate THEN c
                                       ELSE clear_prev_surrounding(c),
                          output |-> <<>>]
  IN  /\ current_active' = StaysActive(was_active, activate, deactivate)
      /\ synthetic_active' = (synthetic_active /\ ~drops)
      /\ composer' = handled.composer
      /\ requests' = requests \o handled.output
      /\ method_changed' = FALSE
      /\ UNCHANGED last_enabled

(* The daemon dispatches the oldest frame; the compositor may send its     *)
(* surrounding text again.                                                 *)
Dispatch ==
  /\ frames # <<>>
  /\ OnDoneFrame(Head(frames))
  /\ \/ frames' = Tail(frames) /\ UNCHANGED bounds
     \/ /\ Head(frames).surrounding # None
        /\ duplicates < MaxDuplicates
        /\ duplicates' = duplicates + 1
        /\ frames' = [frames EXCEPT ![1].activate = FALSE, ![1].deactivate = FALSE]
        /\ UNCHANGED <<keys, events>>
  /\ UNCHANGED <<enabled, client, field, dirty, history>>

-----------------------------------------------------------------------------
(* The daemon: keys.  on_key_pressed for a press that is not a repeat.     *)

(* What every key does first: configuration, idle policy, and the reset on *)
(* the switch from enabled to disabled.                                    *)
BeforeKey ==
  LET c1 == SyncConfig(composer)
      c2 == IF c1 = None THEN None ELSE check_idle_reset(c1)
  IN  IF c2 # None /\ last_enabled /\ ~enabled THEN full_reset(c2) ELSE c2

PressKey ==
  /\ "hasty" \in UserActions \/ Quiet \/ client = "silent"
  /\ last_enabled' = enabled
  /\ method_changed' = FALSE
  /\ UNCHANGED <<current_active, synthetic_active, enabled, client, field, dirty, frames>>

CountKey == keys < MaxKeys /\ keys' = keys + 1 /\ UNCHANGED <<duplicates, events>>

(* dispatch_key_press on a decision: the key itself, or the edit that      *)
(* apply_pending makes in its place.                                       *)
Dispatched(c, decision, key) ==
  IF decision.kind = "Apply" THEN apply_to_sink(c, decision.backspaces, decision.commit)
                             ELSE [composer |-> c, output |-> <<key>>]

(* A printable key with an IM session.  On IMv1 a character that the       *)
(* modifier level changed is committed as text instead of forwarded.       *)
Compose(c, ch, shifted) ==
  LET fed == feed_key(mark_action(c), ch)
  IN  IF shifted /\ fed.decision.kind = "ForwardRaw"
      THEN Dispatched(unrecord_forwarded_char(fed.composer), Apply(0, <<ch>>), None)
      ELSE Dispatched(fed.composer, fed.decision, [op |-> "key", ch |-> ch])

(* The key is composed in a settled state (the application has taken and   *)
(* reported everything before it, or never reports), at the end of a word  *)
(* that the engine can be seeded with.                                     *)
SettledKey(c, shifted) ==
  LET word == current_word(history.text)
  IN  /\ enabled /\ c # None
      /\ Quiet \/ client = "silent"
      /\ word = <<>> \/ SeedAccepted(word)
      /\ shifted => ~ContextUncertain(c)

(* The ideal engine forgets its word when the idle policy of ForwardKey    *)
(* makes the daemon's forget it.                                           *)
IdealIdle(h, c) ==
  IF composer # None /\ composer.idle /\ c # None /\ c.method = "ForwardKey"
  THEN [h EXCEPT !.engine = Fresh] ELSE h

TypeKey(ch) ==
  LET c == BeforeKey
  IN  /\ PressKey /\ CountKey
      /\ \E shifted \in {FALSE, LevelShift} :
           LET out == IF ~enabled \/ c = None
                      THEN [composer |-> c, output |-> <<[op |-> "key", ch |-> ch]>>]
                      ELSE Compose(c, ch, shifted)
           IN  /\ composer' = out.composer
               /\ requests' = requests \o out.output
               /\ history' = [IdealKey(IdealIdle(history, c), ch) EXCEPT
                                !.plain = @ /\ SettledKey(c, shifted)]

PressBackspace ==
  LET c   == BeforeKey
      fed == feed_backspace(c)
      out == IF ~enabled \/ c = None THEN [composer |-> c, output |-> <<BackspaceKey>>]
             ELSE Dispatched(fed.composer, fed.decision, BackspaceKey)
  IN  /\ "backspace" \in UserActions /\ Event
      /\ PressKey
      /\ composer' = out.composer
      /\ requests' = requests \o out.output
      /\ history' = [history EXCEPT !.plain = FALSE]

(* A navigation key, or a shortcut with Ctrl, Alt or Super held.           *)
PressNav ==
  LET c == BeforeKey
  IN  /\ "nav" \in UserActions
      /\ PressKey /\ CountKey
      /\ composer' = IF ~enabled \/ c = None THEN c
                     ELSE defer_action(reset_composition_preserving_surrounding(c))
      /\ requests' = Append(requests, [op |-> "move"])
      /\ history' = [history EXCEPT !.plain = FALSE]

(* A key without a character (a function key): forwarded, after it has     *)
(* opened the recent-action window.                                        *)
PressOther ==
  LET c == BeforeKey
  IN  /\ "other" \in UserActions
      /\ PressKey /\ CountKey
      /\ composer' = IF ~enabled \/ c = None THEN c ELSE mark_action(c)
      /\ UNCHANGED history
      /\ UNCHANGED requests

-----------------------------------------------------------------------------
(* Everything else the user and the desktop do.                            *)

Toggle ==
  /\ "toggle" \in UserActions /\ Event
  /\ enabled' = ~enabled
  /\ history' = [history EXCEPT !.plain = FALSE]
  /\ UNCHANGED <<router, method_changed, client, field, requests, dirty, frames>>

ChangeMethod ==
  /\ "method" \in UserActions /\ Event
  /\ method_changed' = TRUE
  /\ history' = [history EXCEPT !.plain = FALSE]
  /\ UNCHANGED <<router, enabled, client, field, requests, dirty, frames>>

(* Focus leaves the field and comes back to another one: the compositor    *)
(* sends a deactivate and an activate, with or without surrounding text.   *)
Refocus ==
  /\ "focus" \in UserActions /\ Event
  /\ requests = <<>>
  /\ \E text \in StartTexts, kind \in ClientKinds, reports \in BOOLEAN :
       LET f == FieldWith(text)
       IN  /\ field' = f
           /\ client' = kind
           /\ frames' = frames \o
                <<[activate |-> FALSE, deactivate |-> TRUE, surrounding |-> None],
                  [activate |-> TRUE, deactivate |-> FALSE,
                   surrounding |-> IF reports /\ kind # "silent" THEN Report(kind, f) ELSE None]>>
  /\ dirty' = FALSE
  /\ history' = [history EXCEPT !.plain = FALSE]
  /\ UNCHANGED <<router, enabled, method_changed, requests>>

(* on_focus_changed: a toplevel without a text-input session gets a        *)
(* synthetic ForwardKey session; losing the match ends it.                 *)
ToplevelFocus ==
  /\ "toplevel" \in UserActions /\ Event
  /\ \E matched \in BOOLEAN, same_app \in BOOLEAN :
       \/ /\ matched /\ (~current_active \/ (synthetic_active /\ ~same_app))
          /\ current_active' = TRUE
          /\ synthetic_active' = TRUE
          /\ composer' = [NewComposer("ForwardKey", FALSE) EXCEPT
                            !.commit_string_functional = FALSE]
       \/ /\ ~matched /\ synthetic_active
          /\ current_active' = FALSE
          /\ synthetic_active' = FALSE
          /\ composer' = None
  /\ history' = [history EXCEPT !.plain = FALSE]
  /\ UNCHANGED <<enabled, last_enabled, method_changed, client, field, requests, dirty, frames>>

(* 150 ms pass without an action.                                          *)
WindowCloses ==
  /\ composer # None /\ composer.recent
  /\ composer' = [composer EXCEPT !.recent = FALSE]
  /\ UNCHANGED <<current_active, synthetic_active, enabled, last_enabled, method_changed,
                 client, field, requests, dirty, frames, bounds, history>>

(* Two seconds pass without a key.                                         *)
Idle ==
  /\ composer # None /\ ~composer.recent /\ ~composer.idle
  /\ composer' = [composer EXCEPT !.idle = TRUE]
  /\ UNCHANGED <<current_active, synthetic_active, enabled, last_enabled, method_changed,
                 client, field, requests, dirty, frames, bounds, history>>

-----------------------------------------------------------------------------

(* The field is focused with the cursor at the end of what it holds; the   *)
(* daemon has not seen the activation yet.                                 *)
Init ==
  /\ current_active = FALSE /\ synthetic_active = FALSE /\ composer = None
  /\ enabled = TRUE /\ last_enabled = TRUE /\ method_changed = FALSE
  /\ client \in ClientKinds
  /\ requests = <<>> /\ dirty = FALSE
  /\ \E text \in StartTexts, reports \in BOOLEAN :
       LET shows == reports /\ client # "silent"
       IN  /\ field = FieldWith(text)
           /\ frames = <<[activate |-> TRUE, deactivate |-> FALSE,
                          surrounding |-> IF shows THEN Report(client, field) ELSE None]>>
           /\ history = [text |-> text, plain |-> client # "dead" /\ (shows \/ text = <<>>),
                         engine |-> IF shows THEN feed_context_gated(current_word(text))
                                             ELSE Fresh]
  /\ keys = 0 /\ duplicates = 0 /\ events = 0

Next ==
  \/ ClientTakes \/ ClientReports \/ Click \/ Complete \/ Erase
  \/ Dispatch
  \/ \E ch \in Typed : TypeKey(ch)
  \/ PressBackspace \/ PressNav \/ PressOther
  \/ Toggle \/ ChangeMethod \/ Refocus \/ ToplevelFocus
  \/ WindowCloses \/ Idle

Spec == Init /\ [][Next]_vars

(* The application takes and reports what it is sent, and the daemon's     *)
(* event loop dispatches every frame.  The last conjunct is weak fairness  *)
(* of Dispatch, with its enabling condition written out.                   *)
FairSpec ==
  /\ Spec
  /\ WF_vars(ClientTakes) /\ WF_vars(ClientReports)
  /\ []<>(frames = <<>>) \/ []<><<Dispatch>>_vars

-----------------------------------------------------------------------------

TypeOK ==
  /\ current_active \in BOOLEAN /\ synthetic_active \in BOOLEAN
  /\ composer \in Composers \cup {None}
  /\ enabled \in BOOLEAN /\ last_enabled \in BOOLEAN /\ method_changed \in BOOLEAN
  /\ client \in ClientKinds
  /\ field \in Surrounding
  /\ requests \in Seq(Request)
  /\ dirty \in BOOLEAN
  /\ frames \in Seq(Frame)
  /\ keys \in Nat /\ duplicates \in Nat /\ events \in Nat
  /\ history \in Histories

-----------------------------------------------------------------------------
(* Properties.                                                             *)

(* At rest, and while the user has only typed, each key once the last has  *)
(* settled, the field shows what the engine alone would have written:      *)
(* forwarded keys, confirmed repairs, edits on either tier, idle demotion, *)
(* duplicate frames and late upgrades never show.                          *)
TypedTextAppears == Quiet /\ history.plain => field.text = history.text

(* A raw key awaits a frame only on the tier that frames confirm; on       *)
(* ForwardKey no frame will ever come to release it (set_method).          *)
PendingOnlyOnSurrounding ==
  composer # None /\ composer.confirmation.state = "PendingRaw" =>
    /\ composer.method = "SurroundingText"
    /\ composer.confirm_retroactive_edits

(* The character-count delete of the Firefox workaround is always diverted *)
(* to BackSpace keys before delete_surrounding_text could carry it.        *)
CharCountForwarded ==
  composer # None /\ composer.firefox.delete_unit = "Chars" =>
    composer.firefox.use_forward_delete

(* The router has a composer exactly while a session is active, and a      *)
(* synthetic session is an active one.                                     *)
SessionHasComposer ==
  /\ current_active <=> composer # None
  /\ synthetic_active => current_active

(* The step handled the surrounding text of the oldest frame.              *)
HandlesText ==
  /\ frames # <<>> /\ Head(frames).surrounding # None
  /\ Len(frames') < Len(frames) \/ duplicates' # duplicates

Emitted == TextAfter(requests', Len(requests))

(* A repair, made where the frame that asked for it says the cursor is,    *)
(* changes nothing but the word before that cursor.                        *)
RepairStaysInWord ==
  [][HandlesText /\ requests' # requests =>
       LET f == Head(frames).surrounding
       IN  SameOutsideWord(f, FoldLeft(LAMBDA g, r : Take("healthy", g, r), f, Emitted))]_vars

(* After every frame, LiveConfirmed still means that the application shows *)
(* the shadow before its cursor, also after frames that change nothing.    *)
EchoProof ==
  [][HandlesText /\ composer' # None /\ composer'.confirmation.state = "LiveConfirmed" =>
       LET f == Head(frames).surrounding
       IN  composer'.shadow = text_before_cursor(f.text, Lesser(f.cursor, f.anchor))]_vars

(* Within one session commit_string, once given up, is never used again.   *)
CommitRatchet ==
  [][composer # None /\ composer' # None /\ ~composer.commit_string_functional =>
       \/ ~composer'.commit_string_functional
       \/ frames # <<>> /\ Head(frames).activate]_vars

(* An application that reports releases every raw key: while the user only *)
(* types, navigates and presses function keys, none awaits its frame for   *)
(* ever.  (What erases the raw key before it is reported, a Backspace or   *)
(* the application, leaves it waiting until the next key or frame.)        *)
RawKeyResolves ==
  (composer # None /\ composer.confirmation.state = "PendingRaw" /\ events = 0)
    ~> (composer = None \/ composer.confirmation.state # "PendingRaw" \/ events > 0)

(* The frame that exhausts the strikes leaves the session on ForwardKey.   *)
DowngradeSticks ==
  [][(/\ HandlesText /\ ~Head(frames).activate
      /\ composer # None /\ composer' # None
      /\ composer.method = "SurroundingText"
      /\ AsksDowngrade(composer, Head(frames).surrounding))
     => composer'.method = "ForwardKey"]_vars

=============================================================================
