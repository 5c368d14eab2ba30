# A TLA+ model of daklak

daklak is a Vietnamese input method for Linux. The user types Latin keys; a word
engine turns `o` `f` into `ò`; and because the letters are already in the
application when the next key changes them, every correction is an edit of text
that some other program owns: *delete N units, commit string S*. The daemon
decides N from a **shadow** of what it believes the application shows. The system
is correct when that belief is right at the moment the edit is executed, and that
is what most of this project is about.

## 1. Inventory

| component | state | operations | talks to |
|---|---|---|---|
| engine (`crates/engine`, the vnkey library behind it) | the word being composed | feed a key, backspace, seed from the text before the cursor | called by the composer |
| composer (`daemon/composer.rs`, `quirks/`, `edit-strategy`) | tier, shadow, last reported frame, confirmation of the last key, echo expected by the Firefox workaround, dead-frame strikes, recency of the last action | `feed_key`, `feed_backspace`, `apply`, `apply_surrounding`, tier changes, resets | engine; the sink of a transport |
| Wayland session (`daemon/transport/wayland.rs`, `handler.rs`) | active and synthetic flags, the composer, the on/off edge | done frames, keys, focus, toplevel focus | compositor and application, by asynchronous queues in both directions |
| Wayland adapter (`wayland-adapter`, `daemon/main_loop.rs`, `key-emitter`) | pending frame, v1 context, modifiers and the echoes it awaits, the key it repeats, the keys it forwarded | dispatch of protocol events, repeat timer, edits as requests | compositor; the session's handler |
| window lists (`wayland-adapter/focus`) | windows with their id and state, the active one | events of two protocols | compositor; the session, by a channel |
| evdev session (`evdev-adapter`, `daemon/transport/evdev.rs`) | modifier masks, keys held, presses forwarded, Escape taps | one handler per input event | grabbed keyboards; a uinput device; never hears of the application |
| IBus session (`ibus-adapter`, `daemon/transport/ibus.rs`, `handler.rs`) | what the client said of its surrounding text, the composer, the on/off edge | D-Bus calls: keys, focus, capabilities, surrounding text, reset | IBus daemon and client, by calls and signals |
| supervisor (`daemon/transport/supervisor.rs`, `backend.rs`) | current backend, pending action, published backend, suspend flag | switch, quit, toggle; run a transport to its end | transports; command channel; blocking hook thread |
| evdev hooks (`daemon/evdev_hooks.rs`) | applied hooks, the rollback marker on disk | setup, rollback, cleanup, recovery at start | scripts that change the desktop's keymap |
| control (`ipc.rs`, `control.rs`, `main.rs`) | socket, connections, a command channel of 32 slots, watch channels | accept, read a line, send the command, write the reply | clients; supervisor |
| tray (`tray.rs`) | a mirror of on/off, backend and settings | clicks, registration, saving the configuration file | supervisor and sessions, by channels; the file |
| configuration (`config.rs`) | the file on disk | load at start | environment, tray |
| keymap, X11 focus, logging, tools | tables and I/O | | |

What is hard here:

* *Two asynchronous queues.* Requests to an application and its reports of
  surrounding text cross each other. A report may be older than the last edits,
  repeated, of a session that has ended, or never come.
* *No transaction.* Between a key and the report that proves it the user can
  click, the application can complete or erase text.
* *Key state in three places.* The user, the adapter and the application each
  have an idea of which keys and modifiers are down, on evdev and on Wayland.
* *Several tasks and a disk.* Hooks run script by script on a blocking thread
  while commands are served; connections, the tray and the supervisor share one
  bounded channel; the process may die between any two steps.

What makes each part correct: the application shows what the engine alone would
have written (`TypedTextAppears`, `TextArrives`, `ClientShowsText`); no edit
reaches outside the word (`RepairStaysInWord`, `EditStaysInWord`,
`SeparatorSurvives`); the requests of an edit do what it means (`EditKeysArrive`); a belief called confirmed is one (`EchoProof`,
`EmittedModsVisible`, `ModsSettle`); session, text and focus are the compositor's
(`SessionAgrees`, `TextOfSession`, `FocusFollows`); a client that cannot delete is found out
(`OneLostDelete`, `DeletesOnlyIfCapable`); nothing stays stuck (`RawKeyResolves`,
`NoStuckKey`, `NoKeyLeftDown`, `NoTrailingRepeat`, `DoneAcknowledged`,
`CommandsTaken`, `RequestsEnd`); a command takes effect once and is answered with
what it did (`ImplementsService`), the tray shows and does what is so
(`MirrorFollows`, `ClickDoesWhatItSaid`), and a choice outlives backends and
restarts (`ChoiceReachesDaemon`, `SettingsSurvive`); one path composes a key (`IbusComposesAlone`);
what was done to the desktop is undone (`HooksUndone`, `HooksAccounted`).

## 2. Modules

    Engine          EngineState over an abstract word engine (VnKey, VnBackspace)
    Composer        EXTENDS Engine: the Composer's methods as operators on a record
    TextField       EXTENDS Composer: a text field, and what it should show
    WaylandSession  EXTENDS TextField: sessions, the application and the queues
    IbusSession     EXTENDS TextField: the IBus engine, its client and the queues
    EvdevSession    EXTENDS Composer: the evdev adapter, the uinput device, the user
    KeyRelay        the Wayland adapter's keys: forwarding, repeat, modifier echoes, edits
    FocusTracker    the window lists of wlroots and KDE
    WaylandAdapter  EXTENDS KeyRelay, FocusTracker: the event loop and both protocols
    Supervisor      backends, hooks, marker, commands, restarts
    OnOffService    what the control socket promises, with no sockets or tasks
    ConfigFile      loading the configuration file and saving it from the tray
    Control         EXTENDS ConfigFile: IPC, channel, tray, Daemons; implements OnOffService

    ComposerTypes   what the Composer's methods return, with proofs
    WaylandSessionProofs, WaylandAdapterProofs, IbusProofs, EvdevProofs,
    SupervisorProofs, ControlProofs
                    theorems about the module of that name
    WaylandAdapterViewProofs
                    EXTENDS WaylandAdapterProofs: edits, modifiers and windows

    MiniTelex       a small engine for TLC
    MCWayland, MCIbus, MCEvdev, MCAdapter, MCSupervisor, MCControl
                    the instances that TLC runs

**Engine and Composer** have no behaviour of their own: every Rust method is an
operator from a composer record to a composer record, with the decision or the
requests it returns. The Rust names are kept. Text is a sequence of characters
with the cursor as an index; `ByteLen` gives the byte counts that
`delete_surrounding_text` wants (glyphs in `Wide` have two bytes), since a
confusion of bytes and characters is one of the hazards. For the same reason the
duplicate guard (`is_duplicate_frame`) gets a report in the unit of its transport
and compares it with the recorded one in bytes (`InBytes`): Wayland reports bytes,
IBus characters. Word engine and
alphabet are CONSTANTS; `recent` and `idle` stand for the two clocks (an action
within the last moments, two seconds without a key).

**WaylandSession.** `Dispatch` is `on_done_frame` as a whole, `TypeKey`,
`PressBackspace`, `PressNav` and `PressOther` are the paths of `on_key_pressed`,
`ToplevelFocus` is `on_focus_changed`. The application is external:
`ClientTakes` executes the oldest request, `ClientReports` reports the field, and
it comes in three kinds, *healthy*, *dead* (reports an empty field whatever
happens) and *silent* (never reports). `Click`, `Complete` and `Erase` change the
field behind the daemon's back. `history` records what the engine alone would
have written.

**IbusSession.** One action per D-Bus method of the Engine: `ProcessKeyEvent`
(with `process_key`, `apply_with_sink` and the draining of the sink), `FocusIn`,
`Enable`, `Deactivate` (FocusOut, Disable), `Reset`, `SetCapabilities`,
`SetSurroundingText`. Calls are dispatched one by one and a call emits its signals
before it returns, so each is one step; calls wait in `calls`, signals and the
replies that let the client handle a key itself in `signals`. The client is
external and of one of four kinds: *functional*; *mute*, which claims surrounding
text but drops deletes and says nothing; *docs*, which denies it, drops deletes
and reports all the same; *dead*, which reports an empty field. Any of them may
renew its capabilities at any time. `history` counts the deletes a client lost, and
notes a report that was taken for a repeat and was none (`misread`): `Watched` and
`Dropped` are `observe_surrounding` up to its duplicate guard, which reads the
character cursor of IBus as one in bytes.

**EvdevSession.** The handlers are the branches of `process_event` in the order
the code tries them; an event is processed to its end, so a handler is one step.
`Device` is the kernel's and the application's side: a press of a key that is down
does nothing, and a repeat counts only for a key that is down. `ideal` is the same
user typing straight into the engine. A session starts with one keyboard or
several, whose events the adapter merges; `unshown` records the strokes that the
uinput device cannot show.

**WaylandAdapter.** `socket` holds the events of the compositor, and each protocol
event is one action: `dispatch_key_press`, `dispatch_key_release`,
`handle_modifiers`, `Done` (v2), `CommitState` (v1), `WindowFields` and so on;
`RepeatFires` and `FocusChanges` are the lower arms of the biased select, so they
wait until the socket is empty (`Idle`); a shutdown (`Teardown`) does not. The
Composer is abstract here: an edit is any member of `Edits`, and what it is for a
given text is the subject of `WaylandSession`. *KeyRelay* turns an edit into
requests, as `AdapterSink` and `emit_char` do. The compositor and the application
are external: the application drops the press of a key that is down, an activation
of v1 ends with `commit_state`, v2 closes each batch with `done`, and a compositor
echoes each modifier mask of the virtual keyboard through the grab, or none. Four
fields of `app` only record: `faults` says what went wrong, `covered` which keys
the code does not know to be held, `stray` that an echo may come which nobody
awaits or one be awaited that never comes, `swallowed` that a change of the user's equalled the awaited mask.

**Control.** A request goes through *asking, connected, reading, sending, waiting*
to *answered* or *lost*, one action for each await of `handle_connection` and of
the client (`ipc_send`); `AcceptFails` and `DelayOver` are the back-off of
`serve`. `TakeCommand` is one turn of the supervisor's select with `handle_cmd`,
while `EnterBackend` and `LeaveBackend` are the times in which no command is
taken; which backend does what is left to `Supervisor`. The tray registers late
(`MakeTray`, `SpawnTray`), takes one watch channel at a time (`UpdateTray`), and
its clicks `fire` with try_send. A watch channel is its value and, for each
receiver, whether the value is unseen; the backend's has the tray as its only
receiver, and without one a send stores nothing (`publish_backend`). `Kill` ends the process anywhere, also in
the middle of a save. `wish` records what the user last asked the file to hold.
*ConfigFile* has a file as missing, empty, broken or a table of settings; `tight`
are the keys written without spaces, which the tray's search does not find, and
`wrong` the entries whose value is TOML but not of the setting's type. The save
checks for TOML (`IsToml`), the load for a configuration (`Loads`).

**Supervisor.** `pc` is the loop the supervisor task is in; `evdev` holds the
layered futures of the evdev transport (the adapter's loop, the setup task, the
cleanup); `desktop` and `marker` survive a restart; `published` is stored while the
tray task, the receiver of its channel, lives. Each script is a step.
`Exit` lets the setup or cleanup thread finish, as the runtime does on drop.
Faults are named in `FaultKinds`. Those in `Unrecovered` have no rollback in the
code; `tainted` records that one has happened, and the two hook properties are
asked for only before.

## 3. Runs

Every run finishes its state space. Bounds count steps of the environment: keys
pressed, repeated frames, other events, commands, faults, starts.

| run | cfg | checks | shows |
|---|---|---|---|
| typing | MCTyping | TypedTextAppears | four keys, each after the last has settled, frames repeated, pauses; or typed ahead into an application that never reports: the right text |
| disturbed | MCDisturbed | TypeOK, RepairStaysInWord, EchoProof, RawKeyResolves | further keys, navigation, backspaces, clicks, completions and cuts between a key and its frame; under fairness a raw key does not wait for ever |
| lifecycle | MCLifecycle | SessionHasComposer, PendingOnlyOnSurrounding, CharCountForwarded, CommitRatchet | focus, synthetic sessions, all kinds of application, frames of old sessions |
| ibus | MCIbus | TypeOK, ClientShowsText, OneLostDelete, DeletesOnlyIfCapable, EditStaysInWord | four kinds of client, keys of every kind, clicks, resets, renewed capabilities, focus, toggling, suspension, method changes |
| evdev_keys | MCEvdevKeys | TypeOK, EmittedModsVisible, TextArrives, NoStuckKey | eight keys on one keyboard, or two keyboards that share a letter and a Shift; held, overlapping and repeated; toggling, method changes, pauses, emergency escape, shutdown |
| supervisor | MCSupervisor | TypeOK, IbusComposesAlone, PublishedRuns, HooksUndone, HooksAccounted, CommandsTaken | all configurations and commands, failing backends and scripts, kills at any step, lost control tasks, two restarts; under fairness every command is taken |
| adapter | MCAdapter | TypeOK, NoKeyLeftDown, NoTrailingRepeat, ModsSettle, EditKeysArrive, SessionAgrees, TextOfSession, DoneAcknowledged, FocusFollows | four compositors (v2 with wlroots or KDE windows, with or without echoes; v1 with KDE windows or none); rolled-over keys and modifiers, repeat, sessions that open, report and close, windows that come, go and change names, toggling, teardown |
| control | MCControl | TypeOK, MirrorFollows, ChoiceReachesDaemon, SettingsSurvive, ClickDoesWhatItSaid, RequestsEnd, ImplementsService | three requests, one of another user; failing accepts; clicks against commands on a full channel; switches, quits, kills; files of every kind with a restart; the refinement of OnOffService |

Why the bounds are enough to mean something: a correction needs two keys, a
revert three, an overlap two keys in flight and one frame, a strike-out two
repeated frames; on IBus a lost delete and the correction that finds it out three
keys, a suspended stretch two events; a rollback needs two hooks, a layered switch
and back two commands, an incomplete cleanup and its recovery two faults and a second start.
In `adapter` the environment has a budget for each kind of step (keys, inputs,
windows, others), and five budgets share the work: two rolled-over keys with
their releases, an activation, a report, a deactivation and a second activation,
a switch between two windows with a change of name, a synthetic session under
keys, and a mixture. `Backlog` lets two events wait while a third comes. In
`control` a scenario fixes what programs may say, which tray entries are used and
the budgets: `Connections` has no tray and up to three faults (the server gives
up at the third failing accept), `Contention` has two clicks against commands on
a channel of one slot, which is full after one command as the code's is after
32, and `Persistence` has two clicks, an edit of the file and a second start.
The bounds of the runs that look for these reach them, and every action and branch
fires in a passing run. `MaxWord` is longer than any word the bounds let a user
type (on evdev it equals the number of presses). For every property PROJECT.json
names a mutant of the code (`Faulty_...`) that TLC catches under the same bounds.

The following runs are expected to fail: each states what a comment or document
of the repository says, and TLC finds a behaviour of the code against it.

| run | property | what happens |
|---|---|---|
| downgrade | DowngradeSticks | the frame that downgrades the tier also upgrades it again |
| evdev_right_shift | EmittedModsVisible | the dance releases the left Shift for the right one |
| evdev_shadow | SeparatorSurvives | the shadow is not updated on evdev, and a key eats the separator |
| failed_switch | KeptUntilReplaced | Wayland is torn down before evdev is known to start |

Three more disagreements are in the models, and a property of a passing run leaves
out what they spoil.

* *Units on IBus.* `is_duplicate_frame` "exactly matches the last frame", says its
  comment, but gets the cursor of IBus in characters (`handler.rs:353`) and
  compares it with one recorded in bytes. Behind a two-byte glyph a click on the
  character with the number of the recorded byte is dropped as a repeat, the engine
  keeps the word that the cursor has left, and the next edit deletes the separator.
  `EditStaysInWord` leaves out the keys after such a report (`history.misread`).
* *A tray that has ended* was the only receiver of the published backend, and
  `publish_backend` then stores nothing: the announcement before that, or `auto`,
  stays what `daklak backend` answers, and a switch to it is taken for done.
  `PublishedRuns` is asked for while the tray task lives, and `ImplementsService`
  says of the backend that an answer is the one announced last, which need not run.
* *A save is checked to be TOML*, not to be a `Config` as its comment has it
  (`tray.rs:502`): a file with a wrong entry outside the tray's settings, written
  while the daemon runs, is saved and stops the next start. `SettingsSurvive`
  allows exactly such a file not to load.

Further departures of the code from its comments, met while modelling, are in
the models but have no run; PROJECT.json notes them at their hazards. Repeats of
the frame from before the first key count as dead frames against a healthy
application. A Backspace does not release a raw key, whose repair is then still
emitted; such a raw key is also the exception that `RawKeyResolves` makes. A late
echo that is one character longer than the recorded text is trusted. After an
erasure the first key edits from context that only a frame reported. On evdev a
held Backspace swallows a correction's first delete, which is why `evdev_keys`
overlaps only letters and modifiers; and a forwarded key that an edit has released
stays in `forwarded_press`, so that its next repeats are dropped (left out of
`TextArrives` by `unshown`). On IBus a frame seeds the engine while daklak
is switched off, and the space that the user then types does not end that word:
switched on again, the next key may correct the word before the space.
`EditStaysInWord` leaves out the sessions in which this happened
(`history.missed`). Without the IPC server and the tray the
daemon exits. A set script that cannot be started skips the rollback, and the
marker is written only after the last set script, so that a kill before it
leaves hooks that nobody undoes; nothing promises the hooks undone when an unset
script fails. These faults are the set `Unrecovered`.

In the Wayland adapter only the key stamped last is known to be held, and for a
repair that a frame triggers none is: `EditKeysArrive` leaves out the keys
that are `covered`. Masks sent to guard a Backspace are not awaited as echoes; those of a glyph whose
modifiers are held already are awaited although they change nothing and may never
come; an awaited mask that takes longer than 50 ms is no longer known; and a change
of the user's that equals the awaited mask within that time is taken for it
(`stray`, `swallowed` in `ModsSettle`). A new name of the active window
is not published. In the tray, the check mark of evdev is flipped and saved
although the command may be dropped or refused; a key written `key=value` is not
found, so that the save adds it again and the file is then replaced; settings
from the environment are saved as if they had been chosen. `SettingsSurvive`
leaves these files and settings out. `TypedTextAppears` says nothing of keys typed
ahead of a client that reports, nor `EchoProof` of the frames queued behind the
one being handled.

`CHECK_DEADLOCK FALSE` everywhere: the bounds end every behaviour, and users and
applications may stop.

**Fairness.** `WaylandSession!FairSpec`: the application executes and reports
what it is sent, and the event loop dispatches the frames it has (the loop polls
the socket whenever it is readable). Users are not fair. `Supervisor!FairSpec`:
the supervisor task, the transport future and the blocking thread are scheduled,
and scripts end. Nothing in the code limits the time a script takes, so the last
is an assumption about the scripts; senders, faults and starts are not fair.
`Control!Spec`: every connection's task and its client, the accept delay, the
supervisor and the exit of the process are scheduled, since each waits on the
runtime alone. Not fair are the decisions to ask, to hang up and to click, accept
failures, the end of a transport, kills and starts.

**Refinement.** `OnOffService` has the on/off state, the backend announced last, and requests that take
effect at most once, between being asked and being answered; an answer tells the
state of that moment, of the backend the one announced last, and an error means that nothing happened or will. `Control`
implements it: a request is *taken* when its reply is in the oneshot channel, and
one that has lost its connection is *left* while its command is queued, since it
can still take effect. Running, starting and stopping are part of the service; a
step of the supervisor with a request's command maps to `TakeEffect`, and the
end of the server or the daemon, which cuts several connections at once, to `Lose`.

**No symmetry** is used: characters, hooks and keys differ in what they do.

## 4. Proofs

Each of the six state machines has a module of theorems (the Wayland adapter two), checked by TLAPS for every
value of the constants: any engine and alphabet, any number of keys, frames,
commands, faults and starts, queues of any length. PROJECT.json lists the theorems;
nearly all have the form `Spec => []Inv` for an invariant that a run checks. Where
the invariant is not inductive, the strengthening was first checked by TLC on the
same run.

**Assumptions.** They are typing of the constants, `None` and `Nil` being no
values of the data (`NoneAssumption`, `FreeAssumption`, `KeyboardAssumption`,
`RelayAssumption`, `FocusAssumption`), and these: letters, boundaries and wide
glyphs are disjoint as far as the code needs it and some boundary exists
(`CharAssumption`); the engine returns well-formed results (`EngineAssumption`),
with nothing said about *what* it composes; `Slots` and
`Layout` are inverse and type no modifier (`KeyboardAssumption`, as the keymap
builds them); the Backspace key types no character (`RelayAssumption`); `Nil` is
neither a row of a window list nor a flag in one (`FocusAssumption`). TLC evaluates all of them on every run.

| component | theorems | inductive invariant |
|---|---|---|
| WaylandSession | types, `PendingOnlyOnSurrounding`, `CharCountForwarded`, `CommitRatchet`, `SessionHasComposer` | `Sound`, kept by the relation `Keeps`; `FramesAlternate` |
| WaylandAdapter | types, `DoneAcknowledged`, `NoKeyLeftDown`, `NoTrailingRepeat`, `TextOfSession`, `SessionAgrees`, `EditKeysArrive`, `ModsSettle`, `FocusFollows` | `Types /\ KeyQueue /\ SessionQueue /\ EditQueue /\ ModsQueue /\ WindowQueue` |
| IbusSession | types, `DeletesOnlyIfCapable`, `OneLostDelete` | `TypeOK /\ Queued /\ LostAccounted` |
| EvdevSession | types, `EmittedModsVisible`, `NoStuckKey` | `TypeOK /\ Alive /\ Keys` |
| Supervisor | types, `PublishedRuns`, `IbusComposesAlone`, `HooksUndone`, `HooksAccounted` | `TypeOK /\ Phases /\ PublishedRuns /\ Accounted` |
| Control | types, `MirrorFollows`, `ChoiceReachesDaemon`, `SettingsSurvive`, `ClickDoesWhatItSaid`, `ImplementsService` | `Typed /\ Life /\ Mirror /\ Choice /\ Wishes /\ Queued /\ Unanswered /\ Asking` |

*Types.* A key handler passes the composer through up to six methods, some of which
fold over a text of any length. `ComposerTypes` has a lemma for each method of the
Composer. The folds cannot be handled by the library's induction theorems, whose
predicate is an operator, nor by a `RECURSIVE` operator; `SetRecursion` and
`IntervalInduction` prove what is needed by taking a least counterexample, over a
fold whose step is a function.

*WaylandSession.* `Keeps(c, d)` says that *d is sound and has not regained
commit_string*; there is one lemma per method, `Keeps` is transitive, and so the
handlers follow. `SessionHasComposer` needs the frames that wait: one that
deactivates must find a real session, never a synthetic one or none.
`FramesAlternate` says so, and uses that the compositor deactivates only what it
has activated.

*WaylandAdapter.* Nearly all of its properties are about the end of a queue, so
the invariant is about its places. `KeyQueue`: for each key that the timer holds there is a
release, a deactivation or the like still in the socket, unless the user holds it;
and each key that the application has down is held, or its release waits.
`SessionQueue`: activations and deactivations alternate, behind the frame being
read and the open session; a text lies behind the activation that it is of and
before the next; a frame has its end; the last focus change that waits is the
current one. `EditQueue`: the only key whose press the application would drop is
the one the user holds, and the application has the adapter's modifiers, with v1
unless the user's still wait. `ModsQueue`: where masks are echoed, the awaited ones
are found in their order among the modifier events that wait, and what is left of
these ends with the user's own; without echoes only the user's masks wait. The
attempt to prove it showed that `ModsSettle` as it was stated failed beyond the
bounds of its run, for a glyph whose modifiers are held already; `stray` now says
so. `WindowQueue` compares views, each a table of windows, the window activated last
and the id it had then: the events that wait lead, one by one, from the tracker's
view to the compositor's, and between the two halves of a switch two windows may
be activated, or none. Handlers are digested to lemmas that say what they send and which
events they take; most steps only shift the places, and the few that add or take a
turn or a key each have a lemma. `Echoes` and `TakeAll`, folds over the requests,
are typed in the same way.

*IbusSession.* `OneLostDelete` rests on the order of the calls that wait (`Queued`:
keys behind focus changes, a focus-in behind the end of the last session) and on
`LostAccounted`: once a delete was lost, the composer counts a correction without
an echo, unless the composition has started afresh.

*EvdevSession.* A correction only dances with three modifier keys and taps keys
that are no modifiers (`Emits`, one lemma for each part of an edit), so that what
it leaves down was down before; a key that is no modifier is down only if its
press was forwarded (`Forwarded`). `EvdevModifiersVisible` and `EvdevNoStuckKey`
have the hypothesis `NoRightShift`, that no keyboard has a right Shift: run
`evdev_keys` satisfies it, and run `evdev_right_shift` shows what happens
otherwise.

*Supervisor.* Neither hook property is inductive, since both speak of a hook and
not of who is to undo it. `Accounted` says it for each place of the supervisor and
each phase of the setup task: the applied list, the list to be undone, or the
marker; `Phases` says which places and phases go together.

`PublishedRuns` is inductive with `Phases`, its hypothesis that the tray holds its
sender included: a control task that has ended never comes back in a run.

*Control.* `Mirror` extends `MirrorFollows` to a tray that is not registered yet,
`Wishes` says that the tray of a running daemon knows all that the user wished,
and `Queued` ties each queued command to the click or the one request it came
from. The refinement of `OnOffService` follows from `Queued`, `Unanswered` and
`Asking`: each action maps to a step of the service or to a stutter
(`RefinesNext`).

**Only model-checked.**

* `TypedTextAppears`, `TextArrives`, `ClientShowsText`: they compare the
  application's text with what the engine computes for the keys typed, and
  hold because an engine's edits compose; for an arbitrary engine they are false,
  and for a given one they are inductions over what it computes.
* `RepairStaysInWord`, `EditStaysInWord`, `EchoProof`: they say how the text in the
  application, the queued edits and frames and the composer's shadow fit together;
  no inductive invariant has been worked out.
* `RawKeyResolves`, `CommandsTaken`, `RequestsEnd`: liveness under fairness.
* The four properties that fail are refuted by TLC.

## 5. Not modelled

Keys typed ahead of an IBus client, and the delay between its forwarded
BackSpaces and the commit; Caps Lock and keys held at the grab on evdev; what the vnkey library composes (an external CONSTANT; MiniTelex has
vowels, a consonant, a tone, its revert, and two-byte glyphs); binding of Wayland
globals, the uploaded keymap and failing flushes; the X11 window tracker; the
TOML library and the text of the file; icons and labels of the tray and the
return of a lost watcher; resolving hook scripts, the legacy marker format;
command-line parsing, logging, tools and packaging. `WaylandSession` and
`WaylandAdapter` are two views of one session, of its text and of its keys, and are
not composed: together their queues are beyond a complete search. PROJECT.json
gives the reason for each, and lists the hazards that no property covers yet.

## 6. Plan

1. *Proofs.* `EditStaysInWord` of `IbusSession` and `RepairStaysInWord`, from an
   invariant that bounds the shadow by the word in the field.
2. *IBus, typed ahead*: what holds when keys are pipelined to a client that has
   not reported the last ones, and the race of forwarded BackSpaces and a commit
   inside a GTK client.
3. *Wider evdev*: Caps Lock, doubled letters in the miniature engine.
4. *A second abstract specification*: a field edited by the engine alone,
   implemented by `WaylandSession` with a settled user.
