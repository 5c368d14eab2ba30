---------------------------- MODULE FocusTracker ----------------------------
(***************************************************************************)
(* The focus trackers of the Wayland adapter: the wlr-foreign-toplevel and *)
(* the KDE Plasma window-management dispatchers (wayland-adapter/src/      *)
(* dispatch.rs, focus/wlr.rs, focus/kde.rs).  Both keep a table of         *)
(* windows, work out which is active, write a snapshot that an activation  *)
(* reads and push the change into a channel that the main loop reads.      *)
(*                                                                         *)
(* Titles and the XWayland flag only reach the log and are left out.       *)
(***************************************************************************)
EXTENDS Sequences

CONSTANTS
  Nil,         \* no window, no application
  Windows,
  Apps      \* application ids

(* An entry of `toplevels' or `plasma_toplevels'; Plasma has no pending    *)
(* half.  pending_activated is Nil, "yes" or "no".                        *)
Entry ==
  [app_id : Apps \cup {Nil}, activated : BOOLEAN,
   pending_app_id : Apps \cup {Nil}, pending_activated : {Nil, "yes", "no"}]

ASSUME FocusAssumption ==
  Nil \notin Windows /\ Nil \notin Apps /\ Nil \notin Entry /\ Nil \notin {"yes", "no"}

NewEntry ==
  [app_id |-> Nil, activated |-> FALSE, pending_app_id |-> Nil, pending_activated |-> Nil]

Tracker ==
  [toplevels : [Windows -> Entry \cup {Nil}],
   active : Windows \cup {Nil},         \* active_toplevel
   current : Apps \cup {Nil},           \* focus_current
   sent : Seq(Apps \cup {Nil})]         \* the channel of FocusEvents

NewTracker ==
  [toplevels |-> [w \in Windows |-> Nil], active |-> Nil, current |-> Nil, sent |-> <<>>]

Known(t, w) == t.toplevels[w] # Nil

(* Iteration of a HashMap: any of the activated windows may come first.    *)
FirstActivated(t) ==
  LET activated == {w \in Windows : Known(t, w) /\ t.toplevels[w].activated}
  IN  IF activated = {} THEN {Nil} ELSE activated

AppOf(t, w) == IF w = Nil THEN Nil ELSE t.toplevels[w].app_id

Publish(t, w) ==
  [t EXCEPT !.active = w, !.current = AppOf(t, w), !.sent = Append(@, AppOf(t, w))]

Set(t, w, field, value) ==
  IF Known(t, w) THEN [t EXCEPT !.toplevels[w][field] = value] ELSE t

-----------------------------------------------------------------------------
(* Both protocols.                                                         *)

NewToplevel(t, w) == [t EXCEPT !.toplevels[w] = NewEntry]

(* Closed and Unmapped.                                                    *)
Forget(t, w) ==
  LET rest == [t EXCEPT !.toplevels[w] = Nil]
  IN  IF t.active = w THEN Publish(rest, Nil) ELSE rest

-----------------------------------------------------------------------------
(* wlr: fields are pending until Done.                                     *)

CommitEntry(e) ==
  [app_id |-> IF e.pending_app_id = Nil THEN e.app_id ELSE e.pending_app_id,
   activated |-> IF e.pending_activated = Nil THEN e.activated ELSE e.pending_activated = "yes",
   pending_app_id |-> Nil, pending_activated |-> Nil]

(* ToplevelEntry::commit tells whether `activated' changed.                *)
EntryChanged(t, w) == Known(t, w) /\ CommitEntry(t.toplevels[w]).activated # t.toplevels[w].activated

Faulty_ToplevelDone(t, w) ==
  LET u == IF Known(t, w) THEN [t EXCEPT !.toplevels[w] = CommitEntry(@)] ELSE t
  IN  {IF EntryChanged(t, w) /\ u.toplevels[w].activated THEN Publish(u, a) ELSE u :
         a \in FirstActivated(u)}

ToplevelDone(t, w) ==
  LET u == IF Known(t, w) THEN [t EXCEPT !.toplevels[w] = CommitEntry(@)] ELSE t
  IN  {IF EntryChanged(t, w) \/ a # t.active THEN Publish(u, a) ELSE u : a \in FirstActivated(u)}

(* The manager has finished; the snapshot is left as it is.                *)
Finished(t) == [t EXCEPT !.toplevels = [w \in Windows |-> Nil], !.active = Nil]

-----------------------------------------------------------------------------
(* Plasma: every event of a window ends with a look at the active one.     *)

Recompute(t) == {IF a # t.active THEN Publish(t, a) ELSE t : a \in FirstActivated(t)}

=============================================================================
