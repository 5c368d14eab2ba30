--------------------------- MODULE WaylandAdapter ---------------------------
(***************************************************************************)
(* The Wayland adapter: one event loop that dispatches the compositor's    *)
(* events (key grab, input-method frames of protocol v2 or v1, windows),   *)
(* fires the key-repeat timer and takes focus changes from their channel   *)
(* (wayland-adapter/src, daemon/src/main_loop.rs), with the part of the    *)
(* daemon's handler that opens and closes sessions and decides what        *)
(* becomes of a key (daemon/src/transport/wayland.rs).                     *)
(*                                                                         *)
(* `socket' holds the events the compositor has sent.  Requests take       *)
(* effect at once in `app', the focused application as it sees keys: a     *)
(* press of a key that is down is dropped.                                 *)
(***************************************************************************)
EXTENDS KeyRelay, FocusTracker

CONSTANTS
  Profiles,   \* [protocol, source, echo] of the compositors
  Budgets,    \* how many environment steps of each kind a behaviour has
  Backlog     \* how many events may wait when the environment takes one more step

BudgetKinds == {"keys", "inputs", "windows", "others"}

ASSUME AdapterAssumption ==
  /\ Profiles \subseteq [protocol : {"ImV1", "ImV2"}, source : {"wlr", "kde", "none"},
                         echo : {"each", "none"}]
  /\ Budgets \subseteq [BudgetKinds -> Nat] /\ Backlog \in Nat

VARIABLES
  profile,   \* what connect() found
  user,      \* the keys that are physically down
  desk,      \* the compositor's own view of text inputs and windows
  socket,    \* events sent to daklak
  relay,     \* AdapterState: keys
  frame,     \* AdapterState: the pending frame, the v1 context, the v2 acknowledgement
  router,    \* the handler: session, its application, whether commit_string works, on/off
  focus,     \* AdapterState: windows
  app,       \* the focused application, and what went wrong in it
  running,   \* "no" once the loop has ended, "exiting" when it will after this dispatch
  budget

vars == <<profile, user, desk, socket, relay, frame, router, focus, app, running, budget>>

IsV2 == profile.protocol = "ImV2"
UserMods == user \cap ModKeys

-----------------------------------------------------------------------------
(* The compositor and the application (external).                          *)

Desk ==
  [active : BOOLEAN, epoch : Nat, grabbed : BOOLEAN, rate : BOOLEAN,
   windows : [Windows -> Apps \cup {Nil}], top : Windows \cup {Nil},
   shown : Apps \cup {Nil},   \* the id that `top' had when it became active
   tracked : BOOLEAN]          \* the window manager has not finished

(* `covered' keys are down, but went down unstamped, before another key,   *)
(* or before a repair, which takes no key for held.  `stray' says that the *)
(* masks awaited may not be those that the compositor echoes; `swallowed'  *)
(* that the user's last change was taken for an echo in time.              *)
App == [down : SUBSET KeyCodes, covered : SUBSET KeyCodes, mods : Masks, owed : BOOLEAN,
        stray : BOOLEAN, swallowed : BOOLEAN, faults : SUBSET {"lost_glyph", "modified_backspace", "trailing_repeat"}]

(* The press of a key that is down is dropped.                             *)
Dropped(a, key) == key \in a.down \ a.covered

(* A key of an edit that does not do what the edit means by it.            *)
EditFaults(a, r) ==
  (IF r.glyph # None /\ (Dropped(a, r.key) \/ a.mods # relay.raw_mods \cup r.glyph.mods)
   THEN {"lost_glyph"} ELSE {})
    \cup (IF r.by = "edit" /\ r.key = Backspace /\ a.mods # {}
          THEN {"modified_backspace"} ELSE {})

(* The masks around a key of an edit come back unawaited, or are awaited   *)
(* and, as they change nothing, may never come.                            *)
Unawaited(r) ==
  \/ r.by = "edit" /\ r.key = Backspace /\ relay.raw_mods # {}
  \/ r.glyph # None /\ r.glyph.mods # {} /\ r.glyph.mods \subseteq relay.raw_mods

TakePress(a, r) ==
  [a EXCEPT !.down = @ \cup {r.key}, !.faults = @ \cup EditFaults(a, r),
            !.stray = @ \/ Unawaited(r),
            !.covered = CASE r.by = "shortcut" -> @ \cup {r.key}
                          [] r.by = "user" -> a.down \ {r.key}
                          [] r.by = "edit" -> @]

Take(a, r) ==
  CASE r.op = "key" /\ r.value = 1 -> TakePress(a, r)
    [] r.op = "key" /\ r.value = 0 ->
         [a EXCEPT !.down = @ \ {r.key}, !.covered = @ \ {r.key}]
    [] r.op = "keysym" /\ r.mapped ->
         [a EXCEPT !.faults = @ \cup (IF Dropped(a, r.glyph.key) THEN {"lost_glyph"} ELSE {})]
    [] r.op = "mods" -> [a EXCEPT !.mods = r.mask]
    [] r.op = "commit" -> [a EXCEPT !.owed = FALSE]
    [] OTHER -> a

TakeAll(a, requests) == FoldLeft(Take, a, requests)

(* A compositor may report each change of the virtual keyboard's modifiers *)
(* through the grab.                                                       *)
ModsEvent(mask, by) == [type |-> "mods", mask |-> mask, by |-> by]

EchoStep(acc, r) ==
  IF r.op = "mods" /\ r.mask # acc.mods
  THEN [mods |-> r.mask, events |-> Append(acc.events, ModsEvent(r.mask, "echo"))]
  ELSE acc

Echoes(a, requests) ==
  IF profile.echo = "none" THEN <<>>
  ELSE FoldLeft(EchoStep, [mods |-> a.mods, events |-> <<>>], requests).events

(* A v1 request of a context that is gone does nothing.                    *)
Reaches == IsV2 \/ (frame.ctx # 0 /\ frame.ctx = desk.epoch /\ desk.active)

(* The adapter sends the requests, with the events `rest' still to come.    *)
SendFrom(a, requests, rest) ==
  /\ app' = IF Reaches THEN TakeAll(a, requests) ELSE a
  /\ socket' = IF Reaches THEN rest \o Echoes(a, requests) ELSE rest

KeysGrabbed == IsV2 \/ desk.grabbed

Spend(kind) ==
  /\ running = "yes" /\ budget[kind] > 0 /\ Len(socket) <= Backlog
  /\ budget' = [budget EXCEPT ![kind] = @ - 1]
  /\ UNCHANGED running

adapter == <<relay, frame, router, focus>>

(* A key goes to the grab; without one the application gets it.            *)
KeyEvents(key, value, mods) ==
  <<[type |-> "key", key |-> key, value |-> value]>>
    \o IF key \in ModKeys THEN <<ModsEvent(mods, "user")>> ELSE <<>>

UserKey(key, value) ==
  /\ Spend("keys")
  /\ user' = IF value = 1 THEN user \cup {key} ELSE user \ {key}
  /\ LET mods == user' \cap ModKeys
     IN  IF KeysGrabbed
         THEN socket' = socket \o KeyEvents(key, value, mods) /\ UNCHANGED app
         ELSE /\ app' = TakeAll(app, <<UnstampedKey(key, value), Modifiers(mods)>>)
              /\ UNCHANGED socket
  /\ UNCHANGED <<profile, desk, adapter>>

Press == \E key \in UserKeys \ user : UserKey(key, 1)
Release == \E key \in user : UserKey(key, 0)

(* With rate 0 the compositor repeats keys itself.                         *)
CompositorRepeat ==
  /\ Spend("keys") /\ ~desk.rate /\ KeysGrabbed
  /\ \E key \in user \ ModKeys :
       socket' = Append(socket, [type |-> "key", key |-> key, value |-> 2])
  /\ UNCHANGED <<profile, user, desk, adapter, app>>

ChangeRate ==
  /\ Spend("others") /\ KeysGrabbed
  /\ desk' = [desk EXCEPT !.rate = ~@]
  /\ socket' = Append(socket, [type |-> "repeat_info", positive |-> ~desk.rate])
  /\ UNCHANGED <<profile, user, adapter, app>>

Event(type) == [type |-> type]
TextEvent(epoch) == [type |-> "surrounding_text", epoch |-> epoch]

(* A text input is enabled, with or without its text.                      *)
EnableInput ==
  /\ Spend("inputs") /\ ~desk.active
  /\ desk' = [desk EXCEPT !.active = TRUE, !.epoch = @ + 1]
  /\ LET activate == [type |-> "activate", epoch |-> desk.epoch + 1]
         end == Event(IF IsV2 THEN "done" ELSE "commit_state")
         text == TextEvent(desk.epoch + 1)
     IN  \/ socket' = socket \o <<activate, end>>
         \/ socket' = socket \o <<activate, text, end>>
  /\ UNCHANGED <<profile, user, adapter, app>>

(* The text input is disabled; a v1 application loses the keyboard focus.  *)
DisableInput ==
  /\ Spend("inputs") /\ desk.active
  /\ desk' = [desk EXCEPT !.active = FALSE, !.grabbed = FALSE]
  /\ socket' = socket \o (IF IsV2 THEN <<Event("deactivate"), Event("done")>>
                          ELSE <<Event("deactivate")>>)
  /\ app' = IF IsV2 THEN app ELSE [app EXCEPT !.down = {}, !.covered = {}, !.mods = UserMods]
  /\ UNCHANGED <<profile, user, adapter>>

(* Some v1 clients do not end a report with commit_state.                  *)
ReportInput ==
  /\ Spend("inputs") /\ desk.active
  /\ LET text == TextEvent(desk.epoch)
     IN  IF IsV2
         THEN socket' \in {socket \o <<text, Event("cause"), Event("done")>>,
                           socket \o <<Event("content_type"), Event("done")>>}
         ELSE socket' \in {socket \o <<text, Event("commit_state")>>, socket \o <<text>>,
                           socket \o <<Event("content_type")>>, socket \o <<Event("reset")>>}
  /\ UNCHANGED <<profile, user, desk, adapter, app>>

(* Another input method is registered.                                     *)
RefuseInput ==
  /\ Spend("others") /\ IsV2 /\ desk.epoch = 0
  /\ socket' = Append(socket, Event("unavailable"))
  /\ UNCHANGED <<profile, user, desk, adapter, app>>

(* Window events; a wlr window ends each change with done.                 *)
WindowEvent(type, w, value) ==
  <<[type |-> type, window |-> w, value |-> value]>>
    \o IF profile.source = "wlr" THEN <<[type |-> "toplevel_done", window |-> w]>> ELSE <<>>

OpenWindow ==
  /\ Spend("windows") /\ desk.tracked
  /\ \E w \in Windows, id \in Apps :
       /\ desk.windows[w] = Nil
       /\ desk' = [desk EXCEPT !.windows[w] = id]
       /\ socket' = socket \o <<[type |-> "toplevel", window |-> w]>> \o WindowEvent("app_id", w, id)
  /\ UNCHANGED <<profile, user, adapter, app>>

RenameWindow ==
  /\ Spend("windows") /\ desk.tracked
  /\ \E w \in Windows, id \in Apps :
       /\ desk.windows[w] \notin {Nil, id}
       /\ desk' = [desk EXCEPT !.windows[w] = id]
       /\ socket' = socket \o WindowEvent("app_id", w, id)
  /\ UNCHANGED <<profile, user, adapter, app>>

(* Another window, or none, becomes active; the two states may come in     *)
(* either order.                                                           *)
SwitchWindow ==
  /\ Spend("windows") /\ desk.tracked
  /\ \E w \in Windows \cup {Nil} :
       /\ w # desk.top /\ (w # Nil => desk.windows[w] # Nil)
       /\ desk' = [desk EXCEPT !.top = w, !.shown = IF w = Nil THEN Nil ELSE desk.windows[w]]
       /\ LET on  == IF w = Nil THEN <<>> ELSE WindowEvent("state", w, "yes")
              off == IF desk.top = Nil THEN <<>> ELSE WindowEvent("state", desk.top, "no")
          IN  socket' \in {socket \o off \o on, socket \o on \o off}
  /\ UNCHANGED <<profile, user, adapter, app>>

CloseWindow ==
  /\ Spend("windows") /\ desk.tracked
  /\ \E w \in Windows :
       /\ desk.windows[w] # Nil
       /\ desk' = [desk EXCEPT !.windows[w] = Nil,
                               !.top = IF w = desk.top THEN Nil ELSE @,
                               !.shown = IF w = desk.top THEN Nil ELSE @]
       /\ socket' = Append(socket, [type |-> "closed", window |-> w])
  /\ UNCHANGED <<profile, user, adapter, app>>

ManagerFinishes ==
  /\ Spend("others") /\ desk.tracked /\ profile.source = "wlr"
  /\ desk' = [desk EXCEPT !.tracked = FALSE]
  /\ socket' = Append(socket, Event("finished"))
  /\ UNCHANGED <<profile, user, adapter, app>>

-----------------------------------------------------------------------------
(* Dispatch of the keyboard grab.                                          *)

outside == <<profile, user, desk, running, budget>>

Arrives(type) == running # "no" /\ socket # <<>> /\ Head(socket).type = type

(* Daemon::on_key_pressed, up to the Composer's own decision.              *)
Decision(kind, edit) == [kind |-> kind, edit |-> edit]

LevelShifted(key) ==
  [delete |-> "keys", backspaces |-> 0, key_channel |-> FALSE,
   glyph |-> [key |-> key, mods |-> relay.raw_mods \cap LevelMods]]

SessionEdits == {e \in Edits : router.synthetic => e.delete = "keys"}

on_key_pressed(key) ==
  IF ~router.on THEN {Decision("raw", None)}
  ELSE IF relay.raw_mods \cap ShortcutMods # {} \/ key \in NavKeys THEN {Decision("consumed", None)}
  ELSE IF ~router.active \/ key \in ModKeys THEN {Decision("raw", None)}
  ELSE {Decision("apply", e) : e \in SessionEdits}
         \cup {IF key \in CharKeys /\ ~IsV2 /\ relay.raw_mods \cap LevelMods # {}
               THEN Decision("apply", LevelShifted(key)) ELSE Decision("raw", None)}

(* apply_pending: the edit, sent with the key state k.                     *)
ApplyPending(k, e, a, rest) ==
  LET requests == EditRequests(profile.protocol, k, router.functional, e, held_user_kc(k))
  IN  /\ SendFrom(a, requests, rest)
      /\ relay' = AfterEdit(profile.protocol, k, router.functional, e)
      /\ frame' = [frame EXCEPT !.acked = @ \/ Commit \in Range(requests)]

NoteRaw(key, d) == [router EXCEPT !.raw = @ \/ (d.kind = "raw" /\ router.active /\ key \in CharKeys)]

(* The event at the head of the socket is a press, with the key state k.   *)
PressKey(key, k) ==
  \E d \in on_key_pressed(key) :
    /\ \/ /\ d.kind = "consumed"
          /\ SendFrom(app, <<UnstampedKey(key, 1)>>, Tail(socket))
          /\ relay' = k
          /\ UNCHANGED frame
       \/ /\ d.kind = "raw"
          /\ SendFrom(app, <<Key(key, 1)>>, Tail(socket))
          /\ relay' = StampPress(k, key)
          /\ UNCHANGED frame
       \/ d.kind = "apply" /\ ApplyPending(arm(k, key), d.edit, app, Tail(socket))
    /\ router' = NoteRaw(key, d)

dispatch_key_press ==
  /\ Arrives("key") /\ Head(socket).value = 1
  /\ PressKey(Head(socket).key, cancel(relay))
  /\ UNCHANGED <<outside, focus>>

Faulty_dispatch_key_release ==
  /\ Arrives("key") /\ Head(socket).value = 0
  /\ LET key == Head(socket).key
     IN  /\ SendFrom(app, IF router.active THEN <<>> ELSE <<Key(key, 0)>>, Tail(socket))
         /\ relay' = StampRelease(release(relay, key), key)
  /\ UNCHANGED <<outside, frame, router, focus>>

dispatch_key_release ==
  /\ Arrives("key") /\ Head(socket).value = 0
  /\ LET key == Head(socket).key
     IN  /\ SendFrom(app, <<Key(key, 0)>>, Tail(socket))
         /\ relay' = StampRelease(release(relay, key), key)
  /\ UNCHANGED <<outside, frame, router, focus>>

(* dispatch_key_repeat_inner: a repeat of the compositor is passed on as   *)
(* one, a repeat of the timer as a press and a release.                    *)
RepeatKey(key, pulse, a, rest) ==
  \E d \in on_key_pressed(key) :
    /\ \/ /\ d.kind = "consumed"
          /\ SendFrom(a, <<UnstampedKey(key, 2)>>, rest)
          /\ UNCHANGED <<relay, frame>>
       \/ /\ d.kind = "raw"
          /\ SendFrom(a, IF pulse THEN <<Key(key, 1), Key(key, 0)>> ELSE <<Key(key, 2)>>, rest)
          /\ UNCHANGED <<relay, frame>>
       \/ d.kind = "apply" /\ ApplyPending(relay, d.edit, a, rest)
    /\ router' = NoteRaw(key, d)

dispatch_key_repeat ==
  /\ Arrives("key") /\ Head(socket).value = 2
  /\ RepeatKey(Head(socket).key, FALSE, app, Tail(socket))
  /\ UNCHANGED <<outside, focus>>

(* An expected mask is skipped; any other is the user's and is passed on.  *)
handle_modifiers ==
  /\ Arrives("mods")
  /\ LET mask == Head(socket).mask
         k    == ForceReset(relay)
         a    == IF Head(socket).by = "echo" THEN app
                 ELSE [app EXCEPT !.swallowed = ~relay.late /\ k.expected # <<>> /\ mask = Head(k.expected)]
     IN  IF IsEcho(k, mask)
         THEN /\ relay' = PopEcho(k)
              /\ socket' = Tail(socket)
              /\ app' = a
         ELSE /\ relay' = [k EXCEPT !.raw_mods = mask]
              /\ SendFrom(a, <<Modifiers(mask)>>, Tail(socket))
  /\ UNCHANGED <<outside, frame, router, focus>>

RepeatInfo ==
  /\ Arrives("repeat_info")
  /\ relay' = set_info(relay, Head(socket).positive)
  /\ socket' = Tail(socket)
  /\ UNCHANGED <<outside, frame, router, focus, app>>

-----------------------------------------------------------------------------
(* Frames.  pending_activate and the text carry the number of the text     *)
(* input that they are about, 0 for none.                                  *)

Frame ==
  [activate : Nat, deactivate : BOOLEAN, text : Nat,
   commit : BOOLEAN,    \* pending_commit
   ctx : Nat,           \* im_ctx_v1, by the number of its text input
   acked : BOOLEAN]     \* pending_im_commit_ack

Router ==
  [active : BOOLEAN, synthetic : BOOLEAN, app : Apps \cup {Nil}, functional : BOOLEAN,
   on : BOOLEAN,        \* enabled and not suspended
   raw : BOOLEAN,       \* the session has forwarded a character, which may need a repair
   session : Nat,       \* the text input that the session is for
   seen : Nat]          \* the text input whose text the Composer saw last

apply_event(f, event) ==
  CASE event.type = "activate"         -> [f EXCEPT !.activate = event.epoch, !.commit = FALSE]
    [] event.type = "deactivate"       -> [f EXCEPT !.deactivate = TRUE]
    [] event.type = "surrounding_text" -> [f EXCEPT !.text = event.epoch, !.commit = TRUE]
    [] event.type = "content_type"     -> [f EXCEPT !.commit = TRUE]
    [] event.type = "cause"            -> f

Faulty_reset(f) == [f EXCEPT !.activate = 0, !.deactivate = FALSE]

reset(f) == [f EXCEPT !.activate = 0, !.deactivate = FALSE, !.text = 0]

Closed(r) ==
  [r EXCEPT !.active = FALSE, !.app = Nil, !.functional = TRUE, !.raw = FALSE, !.session = 0,
            !.seen = 0]

Opens(f) == f.activate # 0 /\ (router.synthetic \/ ~router.active)

Faulty_OpenOrClose(f) ==
  IF f.activate # 0 /\ ~router.active
  THEN [Closed(router) EXCEPT !.active = TRUE, !.app = focus.current, !.session = f.activate]
  ELSE IF f.deactivate /\ router.active THEN Closed(router) ELSE router

(* Daemon::on_done_frame: the session.                                     *)
OpenOrClose(f) ==
  LET r == IF f.activate # 0 /\ router.synthetic
           THEN [Closed(router) EXCEPT !.synthetic = FALSE] ELSE router
  IN  IF Opens(f)
      THEN [Closed(r) EXCEPT !.active = TRUE, !.app = focus.current, !.session = f.activate]
      ELSE IF f.deactivate /\ r.active THEN Closed(r) ELSE r

(* ... and the text, which may show that the client is dead, or complete a *)
(* raw key whose repair is then emitted.                                   *)
NoteText(r, f, dead) ==
  IF r.active /\ f.text # 0
  THEN [r EXCEPT !.seen = f.text, !.functional = @ /\ ~dead] ELSE r

Repairs(r, f) == IF r.active /\ r.raw /\ f.text # 0 /\ ~Opens(f) THEN {None} \cup Edits ELSE {None}

(* apply_done_frame: the handler, then on v2 a bare commit unless one was  *)
(* sent.  The compositor waits for a commit after each done.               *)
Faulty_apply_done_frame(f, rest) ==
  LET r == OpenOrClose(f)
      heartbeat == IF IsV2 /\ ~f.acked THEN <<Commit>> ELSE <<>>
  IN  /\ SendFrom([app EXCEPT !.owed = IsV2], heartbeat, rest)
      /\ router' = NoteText(r, f, FALSE)
      /\ frame' = [reset(f) EXCEPT !.acked = FALSE]
      /\ UNCHANGED relay

apply_done_frame(f, rest) ==
  LET r == OpenOrClose(f)
  IN  \E dead \in BOOLEAN, repair \in Repairs(r, f) :
        LET after     == NoteText(r, f, dead /\ ~Opens(f))
            edit      == IF repair = None THEN <<>>
                         ELSE EditRequests(profile.protocol, relay, after.functional, repair, None)
            acked     == Commit \in Range(edit)
            heartbeat == IF IsV2 /\ ~acked THEN <<Commit>> ELSE <<>>
            before    == [app EXCEPT !.owed = IsV2, !.covered = IF repair = None THEN @ ELSE app.down]
        IN  /\ SendFrom(before, edit \o heartbeat, rest)
            /\ router' = after
            /\ relay' = IF repair = None THEN relay
                        ELSE AfterEdit(profile.protocol, relay, after.functional, repair)
            /\ frame' = [reset(f) EXCEPT !.acked = acked]

(* Events that only fill the frame.  A v1 activation also makes the        *)
(* context and its keyboard grab, which starts with the modifiers.         *)
FillFrame ==
  /\ \E type \in {"activate", "surrounding_text", "content_type", "cause"} : Arrives(type)
  /\ LET event == Head(socket)
         v1activate == event.type = "activate" /\ ~IsV2
         current == event.type = "activate" /\ desk.active /\ event.epoch = desk.epoch
     IN  /\ frame' = [apply_event(frame, event) EXCEPT
                        !.ctx = IF v1activate THEN event.epoch ELSE @]
         /\ desk' = [desk EXCEPT !.grabbed = @ \/ (v1activate /\ current)]
         /\ socket' = Tail(socket) \o IF v1activate /\ current THEN <<ModsEvent(UserMods, "user")>> ELSE <<>>
  /\ UNCHANGED <<profile, user, relay, router, focus, app, running, budget>>

(* v2 waits for done.                                                      *)
DeactivateV2 ==
  /\ Arrives("deactivate") /\ IsV2
  /\ frame' = apply_event(frame, Head(socket))
  /\ relay' = cancel(relay)
  /\ socket' = Tail(socket)
  /\ UNCHANGED <<outside, router, focus, app>>

Done ==
  /\ Arrives("done")
  /\ apply_done_frame(frame, Tail(socket))
  /\ UNCHANGED <<outside, focus>>

(* v1 does not: the context is dropped and the frame applied at once.      *)
DeactivateV1 ==
  /\ Arrives("deactivate") /\ ~IsV2
  /\ LET f == [apply_event(frame, Head(socket)) EXCEPT !.ctx = 0]
         r == OpenOrClose(f)
     IN  /\ frame' = [reset(f) EXCEPT !.acked = FALSE]
         /\ router' = NoteText(r, f, FALSE)
         /\ relay' = cancel(relay)
         /\ socket' = Tail(socket)
  /\ UNCHANGED <<outside, focus, app>>

(* CommitState applies a frame that has something.                         *)
CommitState ==
  /\ Arrives("commit_state")
  /\ IF frame.commit \/ frame.activate # 0
     THEN apply_done_frame([frame EXCEPT !.commit = FALSE], Tail(socket))
     ELSE socket' = Tail(socket) /\ UNCHANGED <<relay, frame, router, app>>
  /\ UNCHANGED <<outside, focus>>

ResetV1 ==
  /\ Arrives("reset")
  /\ frame' = reset(frame)
  /\ socket' = Tail(socket)
  /\ UNCHANGED <<outside, relay, router, focus, app>>

Unavailable ==
  /\ Arrives("unavailable")
  /\ running' = "exiting"
  /\ socket' = Tail(socket)
  /\ UNCHANGED <<profile, user, desk, budget, adapter, app>>

FlushDue == ~IsV2 /\ frame.commit

(* WaylandHandle::dispatch, at the end of what was read: a v1 frame that   *)
(* no commit_state has ended is applied.  A read may stop anywhere.        *)
EndOfDispatch ==
  /\ running # "no" /\ FlushDue
  /\ apply_done_frame([frame EXCEPT !.commit = FALSE], socket)
  /\ UNCHANGED <<outside, focus>>

-----------------------------------------------------------------------------
(* Dispatch of window events.                                              *)

WindowFields ==
  /\ \E type \in {"toplevel", "app_id", "state", "toplevel_done", "closed", "finished"} : Arrives(type)
  /\ LET event == Head(socket)
         wlr   == profile.source = "wlr"
         after == CASE event.type = "toplevel" -> NewToplevel(focus, event.window)
                    [] event.type = "app_id" ->
                         Set(focus, event.window, IF wlr THEN "pending_app_id" ELSE "app_id", event.value)
                    [] event.type = "state" ->
                         IF wlr THEN Set(focus, event.window, "pending_activated", event.value)
                         ELSE Set(focus, event.window, "activated", event.value = "yes")
                    [] event.type = "closed" -> Forget(focus, event.window)
                    [] event.type = "finished" -> Finished(focus)
                    [] event.type = "toplevel_done" -> focus
     IN  focus' \in IF event.type = "toplevel_done" THEN ToplevelDone(focus, event.window)
                    ELSE IF wlr \/ event.type = "toplevel" THEN {after}
                    ELSE Recompute(after)
  /\ socket' = Tail(socket)
  /\ UNCHANGED <<outside, relay, frame, router, app>>

-----------------------------------------------------------------------------
(* The main loop.  Its select is biased: what the socket holds comes       *)
(* before the timer, and both before the focus channel.                    *)

Idle == socket = <<>> /\ ~FlushDue

(* The timer of a key that an edit consumed.                               *)
RepeatFires ==
  /\ Spend("keys") /\ Idle /\ relay.held # None
  /\ RepeatKey(relay.held, TRUE,
               [app EXCEPT !.faults = IF relay.held \in user THEN @ ELSE @ \cup {"trailing_repeat"}],
               <<>>)
  /\ UNCHANGED <<profile, user, desk, focus>>

Faulty_on_focus_changed(id) ==
  IF id # Nil /\ IsV2 /\ ~router.active
  THEN [Closed(router) EXCEPT !.active = TRUE, !.synthetic = TRUE, !.app = id, !.functional = FALSE]
  ELSE IF router.synthetic /\ id = Nil
  THEN [Closed(router) EXCEPT !.synthetic = FALSE]
  ELSE router

(* Without a text input, a focused window gets a synthetic session when    *)
(* there is a virtual keyboard.                                            *)
on_focus_changed(id) ==
  LET matched == id # Nil /\ IsV2
      target_changed == router.synthetic /\ matched /\ router.app # id
  IN  IF matched /\ (~router.active \/ target_changed)
      THEN [Closed(router) EXCEPT !.active = TRUE, !.synthetic = TRUE, !.app = id,
                                  !.functional = FALSE]
      ELSE IF router.synthetic /\ ~matched
      THEN [Closed(router) EXCEPT !.synthetic = FALSE]
      ELSE router

FocusChanges ==
  /\ running = "yes" /\ Idle /\ focus.sent # <<>>
  /\ relay' = cancel(relay)
  /\ router' = on_focus_changed(Head(focus.sent))
  /\ focus' = [focus EXCEPT !.sent = Tail(@)]
  /\ UNCHANGED <<outside, socket, frame, app>>

(* The end of the loop: by the supervisor, or because the compositor has   *)
(* another input method.  The grab, the input method and the virtual       *)
(* keyboard, with the keys it holds, go.                                   *)
Teardown ==
  /\ \/ running = "exiting" /\ Idle
     \/ running = "yes" /\ budget["others"] > 0
  /\ running' = "no"
  /\ app' = [app EXCEPT !.down = {}, !.covered = {}]
  /\ socket' = <<>>
  /\ UNCHANGED <<profile, user, desk, adapter, budget>>

(* 50 ms pass after a synthetic mask.                                      *)
EchoTimeout ==
  /\ Spend("others") /\ relay.expected # <<>> /\ ~relay.late
  /\ relay' = [relay EXCEPT !.late = TRUE]
  /\ app' = [app EXCEPT !.stray = TRUE]
  /\ UNCHANGED <<profile, user, desk, socket, frame, router, focus>>

Toggle ==
  /\ Spend("others")
  /\ router' = [router EXCEPT !.on = ~@]
  /\ UNCHANGED <<profile, user, desk, socket, relay, frame, focus, app>>

-----------------------------------------------------------------------------

(* AdapterState::new and connect.                                          *)
Init ==
  /\ profile \in Profiles
  /\ user = {}
  /\ desk = [active |-> FALSE, epoch |-> 0, grabbed |-> FALSE, rate |-> TRUE,
             windows |-> [w \in Windows |-> Nil], top |-> Nil, shown |-> Nil,
             tracked |-> profile.source # "none"]
  /\ socket = <<>>
  /\ relay = NewRelay
  /\ frame = [activate |-> 0, deactivate |-> FALSE, text |-> 0, commit |-> FALSE, ctx |-> 0,
              acked |-> FALSE]
  /\ router = [active |-> FALSE, synthetic |-> FALSE, app |-> Nil, functional |-> TRUE,
               on |-> TRUE, raw |-> FALSE, session |-> 0, seen |-> 0]
  /\ focus = NewTracker
  /\ app = [down |-> {}, covered |-> {}, mods |-> {}, owed |-> FALSE,
            stray |-> FALSE, swallowed |-> FALSE, faults |-> {}]
  /\ running = "yes"
  /\ budget \in Budgets

Keyboard == dispatch_key_press \/ dispatch_key_release \/ dispatch_key_repeat
              \/ handle_modifiers \/ RepeatInfo
Input == FillFrame \/ DeactivateV2 \/ Done \/ DeactivateV1 \/ CommitState \/ ResetV1
           \/ Unavailable \/ EndOfDispatch
Loop == RepeatFires \/ FocusChanges \/ Teardown
Compositor == CompositorRepeat \/ ChangeRate \/ EnableInput \/ DisableInput \/ ReportInput
                \/ RefuseInput \/ OpenWindow \/ RenameWindow \/ SwitchWindow \/ CloseWindow
                \/ ManagerFinishes

Next ==
  \/ Press \/ Release \/ Compositor
  \/ Keyboard \/ Input \/ WindowFields \/ Loop
  \/ EchoTimeout \/ Toggle

Spec == Init /\ [][Next]_vars

-----------------------------------------------------------------------------

(* Every variable has its type, and the timer runs only at a positive rate. *)
TypeOK ==
  /\ profile \in Profiles /\ user \subseteq UserKeys /\ desk \in Desk
  /\ relay \in Relay /\ frame \in Frame /\ router \in Router /\ focus \in Tracker
  /\ (relay.rate \/ relay.held = None)
  /\ app \in App /\ running \in {"yes", "exiting", "no"}
  /\ budget \in [BudgetKinds -> Nat]

(* When the user holds no key and nothing is left to dispatch, the         *)
(* application has no key down: whichever of forwarding, shortcuts, edits, *)
(* preludes, repeats and dropped contexts a press went through, its        *)
(* release was passed on.                                                  *)
NoKeyLeftDown == Idle /\ user = {} => app.down = {}

(* A key that the timer repeats is one that the user still holds, across   *)
(* releases, other presses, deactivation, focus changes and a change of    *)
(* the repeat rate.                                                        *)
NoTrailingRepeat == "trailing_repeat" \notin app.faults

(* While no synthetic mask is awaited, the adapter's modifiers and the     *)
(* application's are the user's, however the echoes of the dance and the   *)
(* user's own changes interleave, unless a change of the user's was taken  *)
(* for the mask awaited (swallowed) or, where masks are echoed, one may    *)
(* come that nobody awaits or be awaited that never comes (stray).         *)
ModsSettle ==
  Idle /\ running = "yes" /\ KeysGrabbed /\ relay.expected = <<>>
  /\ ~app.swallowed /\ (profile.echo = "each" => ~app.stray)
    => relay.raw_mods = UserMods /\ app.mods = UserMods

(* The keys of an edit do what it means by them: its glyph is never        *)
(* dropped because the user still holds the one key that types it, nor     *)
(* read at a level the dance did not select, and no Backspace of it        *)
(* reaches the application together with a modifier, with which it would   *)
(* delete a word or worse (emit_char, AdapterSink::vk_key).                *)
EditKeysArrive == app.faults \cap {"lost_glyph", "modified_backspace"} = {}

(* Once everything is dispatched, a text input that is enabled has a real  *)
(* session, and without one only a synthetic session is open, which, when  *)
(* no focus change waits, is for the application that has the focus        *)
(* (on_done_frame, on_focus_changed).                                      *)
SessionAgrees ==
  Idle /\ running = "yes" =>
    IF desk.active THEN router.active /\ ~router.synthetic
    ELSE /\ router.active = router.synthetic
         /\ router.synthetic /\ focus.sent = <<>> => router.app = focus.current

(* The text that a session's Composer has seen is its own text input's,    *)
(* not that of a session before it.                                        *)
TextOfSession == router.active /\ router.seen # 0 => router.seen = router.session

(* Every done of the compositor has been answered with a commit, without   *)
(* which a text-input-v3 client stops reporting its text.                  *)
DoneAcknowledged == ~app.owed

(* The tracker's active window is the compositor's, and the snapshot holds *)
(* the id it had when it became active, in whatever order the two states   *)
(* of a switch come.                                                       *)
FocusFollows ==
  Idle /\ running = "yes" /\ desk.tracked => focus.active = desk.top /\ focus.current = desk.shown

=============================================================================
