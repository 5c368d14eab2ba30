-------------------------- MODULE SupervisorProofs --------------------------
(***************************************************************************)
(* Proofs of the safety invariants of the transport supervisor with the    *)
(* evdev hooks and their rollback marker, for every list of hooks, every   *)
(* set of configurations, and any number of commands, faults and starts of *)
(* the daemon.                                                             *)
(*                                                                         *)
(* The inductive invariant IInv is a conjunction. TypeOK says what every   *)
(* variable is. Phases ties three things that run concurrently: where the  *)
(* supervisor task is, how far the evdev transport and its setup task are, *)
(* and whether the IBus connection is there and suspended. PublishedRuns   *)
(* is inductive as it stands. Accounted says, for each place of the        *)
(* supervisor and each phase of the setup task, which of the three lists   *)
(* (applied, to be undone, in the marker) holds every hook in effect:      *)
(* neither HooksUndone nor HooksAccounted is inductive without it, because *)
(* both speak of a hook and not of who is to undo it.                      *)
(*                                                                         *)
(* Each action has a lemma that it keeps IInv. The steps of the setup task *)
(* and of the transport share OfTask, for the supervisor task does not     *)
(* move in them; the ways out of a backend share Returned.                 *)
(***************************************************************************)
EXTENDS Supervisor, TLAPS

(* Where the supervisor task, the evdev transport and its setup task are   *)
(* at the same time, and the IBus connection.                              *)
Phases ==
  /\ pc \in {"down", "recovering", "outer", "wayland", "ibus"} =>
       evdev.run = "off" /\ evdev.setup = "off"
  /\ pc \in {"slot", "evdev"} => evdev.run # "off" /\ evdev.setup # "off"
  /\ pc = "exiting" => evdev.run \in {"off", "cleaning", "done"}
  /\ evdev.run = "cleaning" => evdev.setup = "ok"
  /\ evdev.run = "done" => evdev.setup \in {"ok", "err"}
  /\ ibus.connected <=> pc \in {"ibus", "slot"}
  /\ ibus.suspended <=> pc = "slot"

InMarker == IF marker = None THEN {} ELSE Range(marker)

Untouched == desktop = {} /\ marker = None

(* What the hooks may have left, from where the setup task is.             *)
AfterSetup ==
  /\ evdev.setup = "off" => Untouched
  /\ evdev.setup \in {"set", "mark"} => desktop \subseteq Range(evdev.applied) /\ marker = None
  /\ evdev.setup = "rollback" => desktop \subseteq Range(evdev.undo) /\ marker = None
  /\ evdev.setup = "err" => Untouched
  /\ evdev.setup = "ok" =>
       /\ desktop \subseteq InMarker
       /\ evdev.run \in {"running", "stopping"} => desktop \subseteq Range(evdev.applied)
       /\ evdev.run = "cleaning" => desktop \subseteq Range(evdev.undo)
       /\ evdev.run = "done" => Untouched

Accounted ==
  ~tainted =>
    /\ evdev.clean
    /\ pc \in {"outer", "wayland", "ibus"} => Untouched
    /\ pc = "down" => desktop \subseteq InMarker
    /\ pc = "recovering" => desktop \subseteq InMarker /\ desktop \subseteq Range(evdev.undo)
    /\ pc \in {"slot", "evdev", "exiting"} => AfterSetup

IInv == TypeOK /\ Phases /\ PublishedRuns /\ Accounted

-----------------------------------------------------------------------------
(* Sequences of hooks.                                                     *)

(* A list of hooks turned round is one of the same hooks.                  *)
LEMMA ReverseHooks ==
  ASSUME NEW s \in Seq(Hook)
  PROVE  Reverse(s) \in Seq(Hook) /\ Range(Reverse(s)) = Range(s)
  <1>1. Len(s) \in Nat /\ DOMAIN s = 1..Len(s) /\ \A i \in 1..Len(s) : s[i] \in Hook
    OBVIOUS
  <1>2. \A i \in 1..Len(s) : (Len(s) - i) + 1 \in 1..Len(s)
    BY <1>1
  <1>3. Reverse(s) \in Seq(Hook) /\ DOMAIN Reverse(s) = 1..Len(s)
    BY <1>1, <1>2 DEF Reverse
  <1>4. \A i \in 1..Len(s) : Reverse(s)[i] = s[(Len(s) - i) + 1]
    BY DEF Reverse
  <1>5. \A i \in 1..Len(s) : s[i] = Reverse(s)[(Len(s) - i) + 1]
    BY <1>1, <1>2, <1>4
  <1> DEFINE R == Reverse(s)
  <1>6. \A i \in 1..Len(s) : \E j \in 1..Len(s) : R[i] = s[j]
    BY <1>2, <1>4
  <1>7. \A i \in 1..Len(s) : \E j \in 1..Len(s) : s[i] = R[j]
    BY <1>2, <1>5
  <1>8. R \in Seq(Hook) /\ DOMAIN R = 1..Len(s)
    BY <1>3
  <1> HIDE DEF R
  <1>9. Range(R) = Range(s)
    <2>1. Range(R) = {R[i] : i \in 1..Len(s)} /\ Range(s) = {s[i] : i \in 1..Len(s)}
      BY <1>1, <1>8 DEF Range
    <2>2. ASSUME NEW h \in Range(R) PROVE h \in Range(s)
      BY <1>6, <2>1
    <2>3. ASSUME NEW h \in Range(s) PROVE h \in Range(R)
      BY <1>7, <2>1
    <2> QED
      BY <2>2, <2>3
  <1> QED
    BY <1>8, <1>9 DEF R

(* What leaves a list of hooks with its head is the head alone.            *)
LEMMA TailHooks ==
  ASSUME NEW s \in Seq(Hook), s # <<>>
  PROVE  /\ Tail(s) \in Seq(Hook) /\ Head(s) \in Hook
         /\ Range(s) \subseteq Range(Tail(s)) \cup {Head(s)}
         /\ Range(Tail(s)) \subseteq Hook
  <1>1. /\ Tail(s) \in Seq(Hook) /\ DOMAIN s = 1..Len(s) /\ Len(s) \in Nat \ {0} /\ Head(s) = s[1]
        /\ DOMAIN Tail(s) = 1..(Len(s) - 1) /\ \A i \in DOMAIN Tail(s) : Tail(s)[i] = s[i + 1]
    OBVIOUS
  <1>2. ASSUME NEW i \in DOMAIN s PROVE s[i] \in Range(Tail(s)) \cup {Head(s)}
    <2>1. CASE i = 1
      BY <1>1, <2>1
    <2>2. CASE i # 1
      <3>1. i - 1 \in DOMAIN Tail(s) /\ Tail(s)[i - 1] = s[i]
        BY <1>1, <2>2
      <3> QED
        BY <3>1 DEF Range
    <2> QED
      BY <2>1, <2>2
  <1>3. \A i \in DOMAIN Tail(s) : Tail(s)[i] \in Hook
    BY <1>1
  <1> QED
    BY <1>1, <1>2, <1>3 DEF Range

(* A hook appended to a list is in it, with those before.                  *)
LEMMA AppendHooks ==
  ASSUME NEW s \in Seq(Hook), NEW h \in Hook
  PROVE  Append(s, h) \in Seq(Hook) /\ Range(s) \cup {h} \subseteq Range(Append(s, h))
  <1>1. /\ Append(s, h) \in Seq(Hook) /\ DOMAIN s = 1..Len(s) /\ Len(s) \in Nat
        /\ DOMAIN Append(s, h) = 1..(Len(s) + 1) /\ Append(s, h)[Len(s) + 1] = h
        /\ \A i \in DOMAIN s : Append(s, h)[i] = s[i]
    OBVIOUS
  <1>2. \A i \in DOMAIN s : i \in DOMAIN Append(s, h)
    BY <1>1
  <1> QED
    BY <1>1, <1>2 DEF Range

(* The empty list has no hooks.                                            *)
LEMMA NoHooks == <<>> \in Seq(Hook) /\ Range(<<>>) = {}
  BY DEF Range

(* An evdev transport that is off, or just started, is typed.              *)
LEMMA OffType == EvdevOff \in Evdev /\ StartedEvdev \in Evdev
  <1>1. EvdevOff \in Evdev
    BY NoHooks DEF EvdevOff, Evdev
  <1>2. Hooks \in Seq(Hook)
    BY SupervisorAssumption
  <1> QED
    BY <1>1, <1>2 DEF StartedEvdev, Evdev

-----------------------------------------------------------------------------
(* Types.                                                                  *)

(* A fault is counted; one of Unrecovered taints the run for good.         *)
LEMMA FaultFacts ==
  ASSUME TypeOK, NEW kind, Fault(kind)
  PROVE  /\ sent' \in Nat /\ faults' \in Nat /\ starts' \in Nat /\ tainted' \in BOOLEAN
         /\ tainted => tainted'
         /\ kind \in Unrecovered => tainted'
  <1>1. sent' \in Nat /\ faults' \in Nat /\ starts' \in Nat
    BY DEF TypeOK, Fault
  <1>2. tainted' = (tainted \/ kind \in Unrecovered)
    BY DEF Fault
  <1>3. tainted' \in BOOLEAN /\ (tainted => tainted') /\ (kind \in Unrecovered => tainted')
    BY <1>2, Zenon
  <1> QED
    BY <1>1, <1>3

(* UndoNext takes the head off the list: its hook leaves the desktop, or   *)
(* the failure taints (evdev_hooks.rs run_cleanup_hooks).                  *)
LEMMA UndoFacts ==
  ASSUME TypeOK, NEW e \in Evdev, e.undo # <<>>, UndoNext(e)
  PROVE  /\ evdev' = [e EXCEPT !.undo = Tail(e.undo), !.clean = evdev'.clean]
         /\ evdev' \in Evdev /\ desktop' \subseteq desktop
         /\ sent' \in Nat /\ faults' \in Nat /\ starts' \in Nat /\ tainted' \in BOOLEAN
         /\ tainted => tainted'
         /\ ~tainted' => evdev'.clean = e.clean /\ desktop' = desktop \ {Head(e.undo)}
  <1>1. Tail(e.undo) \in Seq(Hook)
    BY TailHooks DEF Evdev
  <1>2. CASE Unset(Head(e.undo)) /\ evdev' = [e EXCEPT !.undo = Tail(@)] /\ UNCHANGED bounds
    BY <1>1, <1>2 DEF Evdev, Unset, TypeOK, bounds
  <1>3. CASE Fault("unset_fails") /\ evdev' = [e EXCEPT !.undo = Tail(@), !.clean = FALSE] /\ UNCHANGED desktop
    <2>1. evdev' \in Evdev /\ evdev'.clean = FALSE /\ tainted'
      BY <1>1, <1>3, FaultFacts DEF Evdev, Unrecovered
    <2> QED
      BY <1>1, <1>3, <2>1, FaultFacts DEF Evdev
  <1> QED
    BY <1>2, <1>3 DEF UndoNext

(* Every step counts only upwards, and none lifts the taint.               *)
LEMMA TypedBounds ==
  ASSUME TypeOK, [Next]_vars
  PROVE  /\ sent' \in Nat /\ faults' \in Nat /\ starts' \in Nat /\ tainted' \in BOOLEAN
         /\ tainted => tainted'
  <1>1. \/ UNCHANGED bounds
        \/ \E kind : Fault(kind)
        \/ starts' = starts + 1 /\ UNCHANGED <<sent, faults, tainted>>
        \/ sent' = sent + 1 /\ UNCHANGED <<faults, starts, tainted>>
    BY DEF Next, Setup, Transport, Loops, Daemon, vars, bounds, SetHook, HooksSet, Rollback,
       WriteMarker, EvdevEnds, SetupFails, AwaitSetup, Cleanup, Cleaned, Start, Recover, Recovered,
       Connect, StartEvdev, Send, handle_cmd, Receive, LeaveWayland, NativeEnds, EnterSlot,
       LeaveIbus, StopEvdev, LeaveSlot, LeaveEvdev, ControlEnds, ChannelCloses, Gone, Kill, UndoNext
  <1> QED
    BY <1>1, FaultFacts DEF TypeOK, bounds

-----------------------------------------------------------------------------
(* The steps of the setup task and of the evdev transport.                 *)

(* What a step of the transport or of its setup task has to keep, for the  *)
(* supervisor task does not move in it.                                    *)
LEMMA OfTask ==
  ASSUME IInv, [Next]_vars, UNCHANGED task,
         evdev' \in Evdev, desktop' \subseteq Hook, marker' \in Seq(Hook) \cup {None},
         evdev'.run = evdev.run \/ (evdev.run # "off" /\ evdev'.run # "off"),
         evdev'.setup = evdev.setup \/ (evdev.setup # "off" /\ evdev'.setup # "off"),
         pc = "exiting" => evdev'.run \in {"off", "cleaning", "done"},
         evdev'.run = "cleaning" => evdev'.setup = "ok",
         evdev'.run = "done" => evdev'.setup \in {"ok", "err"},
         Accounted'
  PROVE  IInv'
  <1>1. TypeOK'
    BY TypedBounds DEF IInv, TypeOK, task
  <1>2. Phases'
    BY DEF IInv, Phases, task
  <1>3. PublishedRuns'
    BY DEF IInv, PublishedRuns, RunningBackend, Serving, task
  <1> QED
    BY <1>1, <1>2, <1>3 DEF IInv

(* A set script worked, was skipped, failed or could not be run            *)
(* (evdev_hooks.rs run_setup_hooks).                                       *)
LEMMA SetHookStep == ASSUME IInv, [Next]_vars, SetHook PROVE IInv'
  <1> DEFINE hook == Head(evdev.todo)
             rest == [evdev EXCEPT !.todo = Tail(@)]
  <1>1. /\ evdev \in Evdev /\ evdev.setup = "set" /\ evdev.todo # <<>> /\ evdev.todo \in Seq(Hook)
        /\ evdev.applied \in Seq(Hook) /\ desktop \subseteq Hook /\ marker \in Seq(Hook) \cup {None}
    BY DEF IInv, TypeOK, Evdev, SetHook
  <1>2. hook \in Hook /\ Tail(evdev.todo) \in Seq(Hook)
    BY <1>1, TailHooks
  <1>3. UNCHANGED task /\ UNCHANGED marker
    BY DEF SetHook
  <1>4. pc \in {"slot", "evdev", "exiting"} /\ evdev.run \notin {"cleaning", "done"}
    BY <1>1 DEF IInv, TypeOK, Phases
  <1>5. /\ rest \in Evdev /\ rest = [evdev EXCEPT !.todo = Tail(evdev.todo)]
        /\ pc = "exiting" => evdev.run \in {"off", "cleaning", "done"}
    BY <1>1, <1>2 DEF Evdev, IInv, Phases
  <1>6. CASE desktop' = desktop \cup {hook} /\ evdev' = [rest EXCEPT !.applied = Append(@, hook)] /\ UNCHANGED bounds
    <2>1. Append(evdev.applied, hook) \in Seq(Hook) /\ Range(evdev.applied) \cup {hook} \subseteq Range(Append(evdev.applied, hook))
      BY <1>1, <1>2, AppendHooks
    <2>2. /\ evdev' \in Evdev /\ evdev'.run = evdev.run /\ evdev'.setup = "set"
          /\ evdev'.applied = Append(evdev.applied, hook) /\ evdev'.clean = evdev.clean
      BY <1>1, <1>2, <1>6, <2>1 DEF Evdev
    <2>3. Accounted'
      <3> HIDE DEF hook
      <3> QED
        BY <1>1, <1>3, <1>4, <1>6, <2>1, <2>2 DEF IInv, Accounted, AfterSetup, Untouched, task, bounds
    <2> HIDE DEF hook
    <2> QED
      BY <1>1, <1>2, <1>3, <1>4, <1>5, <1>6, <2>2, <2>3, OfTask
  <1>7. CASE evdev' = rest /\ UNCHANGED <<desktop, bounds>>
    <2>1. /\ evdev' \in Evdev /\ evdev'.run = evdev.run /\ evdev'.setup = "set"
          /\ evdev'.applied = evdev.applied /\ evdev'.clean = evdev.clean
      BY <1>1, <1>2, <1>7 DEF Evdev
    <2>2. Accounted'
      BY <1>1, <1>3, <1>4, <1>7, <2>1 DEF IInv, Accounted, AfterSetup, Untouched, task, bounds
    <2> QED
      BY <1>1, <1>3, <1>4, <1>5, <1>7, <2>1, <2>2, OfTask
  <1>8. CASE Fault("set_fails") /\ evdev' = [evdev EXCEPT !.setup = "rollback", !.undo = Reverse(evdev.applied)]
             /\ UNCHANGED desktop
    <2>1. Reverse(evdev.applied) \in Seq(Hook) /\ Range(Reverse(evdev.applied)) = Range(evdev.applied)
      BY <1>1, ReverseHooks
    <2>2. /\ evdev' \in Evdev /\ evdev'.run = evdev.run /\ evdev'.setup = "rollback"
          /\ evdev'.undo = Reverse(evdev.applied) /\ evdev'.clean = evdev.clean
      BY <1>1, <1>8, <2>1 DEF Evdev
    <2>3. tainted => tainted'
      BY <1>8, FaultFacts DEF IInv
    <2>4. Accounted'
      BY <1>1, <1>3, <1>4, <1>8, <2>1, <2>2, <2>3 DEF IInv, Accounted, AfterSetup, Untouched, task
    <2> QED
      BY <1>1, <1>3, <1>4, <1>5, <1>8, <2>2, <2>4, OfTask
  <1>9. CASE Fault("set_cannot_run") /\ evdev' = [evdev EXCEPT !.setup = "err"] /\ UNCHANGED desktop
    <2>1. evdev' \in Evdev /\ evdev'.run = evdev.run /\ evdev'.setup = "err"
      BY <1>1, <1>9 DEF Evdev
    <2>2. tainted'
      BY <1>9, FaultFacts DEF IInv, Unrecovered
    <2>3. Accounted'
      BY <2>2 DEF Accounted
    <2> QED
      BY <1>1, <1>3, <1>4, <1>5, <1>9, <2>1, <2>3, OfTask
  <1> QED
    BY <1>6, <1>7, <1>8, <1>9 DEF SetHook

(* The last hook is set.                                                   *)
LEMMA HooksSetStep == ASSUME IInv, [Next]_vars, HooksSet PROVE IInv'
  <1>1. evdev \in Evdev /\ evdev.setup = "set" /\ UNCHANGED <<task, desktop, marker, bounds>>
    BY DEF IInv, TypeOK, HooksSet
  <1>2. /\ evdev' \in Evdev /\ evdev'.run = evdev.run /\ evdev'.setup = "mark"
        /\ evdev'.applied = evdev.applied /\ evdev'.clean = evdev.clean
    BY <1>1 DEF HooksSet, Evdev
  <1>3. pc \in {"slot", "evdev", "exiting"} /\ evdev.run \notin {"cleaning", "done"}
    BY <1>1 DEF IInv, TypeOK, Phases
  <1>4. Accounted'
    BY <1>1, <1>2, <1>3 DEF IInv, Accounted, AfterSetup, Untouched, task, bounds
  <1>5. pc = "exiting" => evdev.run \in {"off", "cleaning", "done"}
    BY DEF IInv, Phases
  <1> QED
    BY <1>1, <1>2, <1>3, <1>4, <1>5, OfTask DEF IInv, TypeOK

(* An unset script is run: a hook leaves the desktop and the list, or the  *)
(* failure taints.                                                         *)
LEMMA UndoStep ==
  ASSUME IInv, evdev.undo # <<>>, UndoNext(evdev)
  PROVE  /\ evdev' \in Evdev /\ evdev'.run = evdev.run /\ evdev'.setup = evdev.setup
         /\ evdev'.applied = evdev.applied /\ desktop' \subseteq Hook
         /\ tainted => tainted'
         /\ ~tainted' => evdev'.clean = evdev.clean /\ desktop' \subseteq desktop
         /\ ~tainted' /\ desktop \subseteq Range(evdev.undo) => desktop' \subseteq Range(evdev'.undo)
  <1>1. evdev \in Evdev /\ TypeOK /\ evdev.undo \in Seq(Hook)
    BY DEF IInv, TypeOK, Evdev
  <1>2. /\ evdev' = [evdev EXCEPT !.undo = Tail(evdev.undo), !.clean = evdev'.clean]
        /\ evdev' \in Evdev /\ desktop' \subseteq desktop /\ (tainted => tainted')
        /\ ~tainted' => evdev'.clean = evdev.clean /\ desktop' = desktop \ {Head(evdev.undo)}
    BY <1>1, UndoFacts
  <1>3. /\ evdev'.run = evdev.run /\ evdev'.setup = evdev.setup /\ evdev'.applied = evdev.applied
        /\ evdev'.undo = Tail(evdev.undo)
    BY <1>1, <1>2 DEF Evdev
  <1>4. Range(evdev.undo) \subseteq Range(Tail(evdev.undo)) \cup {Head(evdev.undo)}
    BY <1>1, TailHooks
  <1> QED
    BY <1>1, <1>2, <1>3, <1>4 DEF TypeOK

(* The hooks before a set script that failed are undone.                   *)
LEMMA RollbackStep == ASSUME IInv, [Next]_vars, Rollback PROVE IInv'
  <1>1. /\ evdev \in Evdev /\ evdev.setup = "rollback" /\ UNCHANGED <<task, marker>>
        /\ desktop \subseteq Hook /\ marker \in Seq(Hook) \cup {None}
    BY DEF IInv, TypeOK, Rollback
  <1>2. pc \in {"slot", "evdev", "exiting"} /\ evdev.run \notin {"cleaning", "done"}
    BY <1>1 DEF IInv, TypeOK, Phases
  <1>3. pc = "exiting" => evdev.run \in {"off", "cleaning", "done"}
    BY DEF IInv, Phases
  <1>4. CASE evdev.undo # <<>>
    <2>1. UndoNext(evdev)
      BY <1>4 DEF Rollback
    <2>2. Accounted'
      BY <1>1, <1>2, <1>4, <2>1, UndoStep DEF IInv, Accounted, AfterSetup, Untouched, task
    <2> QED
      BY <1>1, <1>2, <1>3, <1>4, <2>1, <2>2, UndoStep, OfTask
  <1>5. CASE evdev.undo = <<>>
    <2>1. evdev' = [evdev EXCEPT !.setup = "err"] /\ UNCHANGED <<desktop, bounds>>
      BY <1>5 DEF Rollback
    <2>2. evdev' \in Evdev /\ evdev'.run = evdev.run /\ evdev'.setup = "err" /\ evdev'.clean = evdev.clean
      BY <1>1, <2>1 DEF Evdev
    <2>3. Accounted'
      BY <1>1, <1>2, <1>5, <2>1, <2>2, NoHooks DEF IInv, Accounted, AfterSetup, Untouched, task, bounds
    <2> QED
      BY <1>1, <1>2, <1>3, <2>1, <2>2, <2>3, OfTask
  <1> QED
    BY <1>4, <1>5

(* The marker takes over from the list of applied hooks                    *)
(* (write_rollback_marker).                                                *)
LEMMA WriteMarkerStep == ASSUME IInv, [Next]_vars, WriteMarker PROVE IInv'
  <1>1. /\ evdev \in Evdev /\ evdev.setup = "mark" /\ UNCHANGED <<task, desktop>>
        /\ desktop \subseteq Hook /\ marker \in Seq(Hook) \cup {None} /\ evdev.applied \in Seq(Hook)
    BY DEF IInv, TypeOK, WriteMarker, Evdev
  <1>2. pc \in {"slot", "evdev", "exiting"} /\ evdev.run \notin {"cleaning", "done"}
    BY <1>1 DEF IInv, TypeOK, Phases
  <1>3. pc = "exiting" => evdev.run \in {"off", "cleaning", "done"}
    BY DEF IInv, Phases
  <1>4. CASE /\ marker' = IF evdev.applied = <<>> THEN marker ELSE evdev.applied
             /\ evdev' = [evdev EXCEPT !.setup = "ok"] /\ UNCHANGED bounds
    <2>1. /\ evdev' \in Evdev /\ evdev'.run = evdev.run /\ evdev'.setup = "ok"
          /\ evdev'.clean = evdev.clean /\ evdev'.applied = evdev.applied
      BY <1>1, <1>4 DEF Evdev
    <2>2. marker' \in Seq(Hook) \cup {None}
      BY <1>1, <1>4
    <2>3. ASSUME ~tainted PROVE desktop \subseteq Range(evdev.applied) /\ marker = None /\ evdev.clean
      BY <1>1, <1>2, <2>3 DEF IInv, Accounted, AfterSetup
    <2>4. ASSUME ~tainted PROVE desktop' \subseteq InMarker'
      <3>1. CASE evdev.applied = <<>>
        BY <1>1, <2>3, <2>4, <3>1, NoHooks
      <3>2. CASE evdev.applied # <<>>
        <4>1. marker' = evdev.applied /\ marker' # None
          BY <1>1, <1>4, <3>2, SupervisorAssumption
        <4> QED
          BY <1>1, <2>3, <2>4, <4>1 DEF InMarker
      <3> QED
        BY <3>1, <3>2
    <2>5. Accounted'
      BY <1>1, <1>2, <1>4, <2>1, <2>3, <2>4 DEF Accounted, AfterSetup, task, bounds
    <2> QED
      BY <1>1, <1>2, <1>3, <2>1, <2>2, <2>5, OfTask
  <1>5. CASE Fault("marker_fails") /\ evdev' = [evdev EXCEPT !.setup = "err"] /\ UNCHANGED marker
    <2>1. evdev' \in Evdev /\ evdev'.run = evdev.run /\ evdev'.setup = "err"
      BY <1>1, <1>5 DEF Evdev
    <2>2. tainted'
      BY <1>5, FaultFacts DEF IInv, Unrecovered
    <2>3. Accounted'
      BY <2>2 DEF Accounted
    <2> QED
      BY <1>1, <1>2, <1>3, <1>5, <2>1, <2>3, OfTask
  <1> QED
    BY <1>4, <1>5 DEF WriteMarker

(* The adapter's loop ends by itself.                                      *)
LEMMA EvdevEndsStep == ASSUME IInv, [Next]_vars, EvdevEnds PROVE IInv'
  <1>1. /\ evdev \in Evdev /\ evdev.run = "running" /\ UNCHANGED <<task, desktop, marker>>
        /\ desktop \subseteq Hook /\ marker \in Seq(Hook) \cup {None}
    BY DEF IInv, TypeOK, EvdevEnds
  <1>2. /\ evdev' \in Evdev /\ evdev'.run = "stopping" /\ evdev'.setup = evdev.setup
        /\ evdev'.applied = evdev.applied /\ evdev'.undo = evdev.undo /\ evdev'.clean = evdev.clean
    BY <1>1 DEF EvdevEnds, Evdev
  <1>3. pc \in {"slot", "evdev"} /\ (tainted => tainted')
    BY <1>1, TypedBounds DEF IInv, TypeOK, Phases
  <1>4. Accounted'
    BY <1>1, <1>2, <1>3 DEF IInv, Accounted, AfterSetup, Untouched, InMarker, task
  <1> QED
    BY <1>1, <1>2, <1>3, <1>4, OfTask

(* A failed setup ends the transport; its rollback has left nothing.       *)
LEMMA SetupFailsStep == ASSUME IInv, [Next]_vars, SetupFails PROVE IInv'
  <1>1. /\ evdev \in Evdev /\ evdev.run \in {"running", "stopping"} /\ evdev.setup = "err"
        /\ UNCHANGED <<task, desktop, marker, bounds>>
        /\ desktop \subseteq Hook /\ marker \in Seq(Hook) \cup {None}
    BY DEF IInv, TypeOK, SetupFails
  <1>2. /\ evdev' \in Evdev /\ evdev'.run = "done" /\ evdev'.setup = "err"
        /\ evdev'.clean = evdev.clean
    BY <1>1 DEF SetupFails, Evdev
  <1>3. pc \in {"slot", "evdev"}
    BY <1>1 DEF IInv, TypeOK, Phases
  <1>4. Accounted'
    BY <1>1, <1>2, <1>3 DEF IInv, Accounted, AfterSetup, Untouched, task, bounds
  <1> QED
    BY <1>1, <1>2, <1>3, <1>4, OfTask

(* The cleanup starts from all the hooks that were applied.                *)
LEMMA AwaitSetupStep == ASSUME IInv, [Next]_vars, AwaitSetup PROVE IInv'
  <1>1. /\ evdev \in Evdev /\ evdev.run = "stopping" /\ evdev.setup = "ok"
        /\ UNCHANGED <<task, desktop, marker, bounds>> /\ evdev.applied \in Seq(Hook)
        /\ desktop \subseteq Hook /\ marker \in Seq(Hook) \cup {None}
    BY DEF IInv, TypeOK, AwaitSetup, Evdev
  <1>2. Reverse(evdev.applied) \in Seq(Hook) /\ Range(Reverse(evdev.applied)) = Range(evdev.applied)
    BY <1>1, ReverseHooks
  <1>3. /\ evdev' \in Evdev /\ evdev'.run = "cleaning" /\ evdev'.setup = "ok"
        /\ evdev'.undo = Reverse(evdev.applied) /\ evdev'.clean = evdev.clean
    BY <1>1, <1>2 DEF AwaitSetup, Evdev
  <1>4. pc \in {"slot", "evdev"}
    BY <1>1 DEF IInv, TypeOK, Phases
  <1>5. Accounted'
    BY <1>1, <1>2, <1>3, <1>4 DEF IInv, Accounted, AfterSetup, InMarker, task, bounds
  <1> QED
    BY <1>1, <1>3, <1>4, <1>5, OfTask

(* The cleanup undoes a hook.                                              *)
LEMMA CleanupStep == ASSUME IInv, [Next]_vars, Cleanup PROVE IInv'
  <1>1. /\ evdev \in Evdev /\ evdev.run = "cleaning" /\ evdev.setup = "ok" /\ evdev.undo # <<>>
        /\ UndoNext(evdev) /\ UNCHANGED <<task, marker>>
        /\ desktop \subseteq Hook /\ marker \in Seq(Hook) \cup {None}
    BY DEF IInv, TypeOK, Cleanup, Phases
  <1>2. pc \in {"slot", "evdev", "exiting"}
    BY <1>1 DEF IInv, TypeOK, Phases
  <1>3. /\ evdev' \in Evdev /\ evdev'.run = "cleaning" /\ evdev'.setup = "ok" /\ desktop' \subseteq Hook
        /\ tainted => tainted'
        /\ ~tainted' => evdev'.clean = evdev.clean /\ desktop' \subseteq desktop
        /\ ~tainted' /\ desktop \subseteq Range(evdev.undo) => desktop' \subseteq Range(evdev'.undo)
    BY <1>1, UndoStep
  <1>4. Accounted'
    BY <1>1, <1>2, <1>3 DEF IInv, Accounted, AfterSetup, InMarker, task
  <1> QED
    BY <1>1, <1>2, <1>3, <1>4, OfTask

(* After a clean cleanup nothing is left and the marker goes.              *)
LEMMA CleanedStep == ASSUME IInv, [Next]_vars, Cleaned PROVE IInv'
  <1>1. /\ evdev \in Evdev /\ evdev.run = "cleaning" /\ evdev.setup = "ok" /\ evdev.undo = <<>>
        /\ UNCHANGED <<task, desktop, bounds>> /\ marker' = IF evdev.clean THEN None ELSE marker
        /\ desktop \subseteq Hook /\ marker \in Seq(Hook) \cup {None}
    BY DEF IInv, TypeOK, Cleaned, Phases
  <1>2. pc \in {"slot", "evdev", "exiting"}
    BY <1>1 DEF IInv, TypeOK, Phases
  <1>3. /\ evdev' \in Evdev /\ evdev'.run = "done" /\ evdev'.setup = "ok" /\ evdev'.clean = evdev.clean
    BY <1>1 DEF Cleaned, Evdev
  <1>4. Accounted'
    BY <1>1, <1>2, <1>3, NoHooks DEF IInv, Accounted, AfterSetup, Untouched, task, bounds
  <1> QED
    BY <1>1, <1>2, <1>3, <1>4, OfTask

(* A pending action stops the adapter's loop.                              *)
LEMMA StopEvdevStep == ASSUME IInv, [Next]_vars, StopEvdev PROVE IInv'
  <1>1. /\ evdev \in Evdev /\ evdev.run = "running" /\ UNCHANGED <<task, desktop, marker, bounds>>
        /\ desktop \subseteq Hook /\ marker \in Seq(Hook) \cup {None}
        /\ pc \in {"slot", "evdev"}
    BY DEF IInv, TypeOK, StopEvdev
  <1>2. /\ evdev' \in Evdev /\ evdev'.run = "stopping" /\ evdev'.setup = evdev.setup
        /\ evdev'.applied = evdev.applied /\ evdev'.undo = evdev.undo /\ evdev'.clean = evdev.clean
    BY <1>1 DEF StopEvdev, Evdev
  <1>3. Accounted'
    BY <1>1, <1>2 DEF IInv, Accounted, AfterSetup, Untouched, InMarker, task, bounds
  <1> QED
    BY <1>1, <1>2, <1>3, OfTask

-----------------------------------------------------------------------------
(* The steps of the supervisor task.                                       *)

(* TypeOK, with the bounds taken care of.                                  *)
LEMMA Settled ==
  ASSUME TypeOK, [Next]_vars, config' \in Configs,
         pc' \in {"down", "recovering", "outer", "wayland", "ibus", "slot", "evdev", "exiting"},
         current' \in Backend, pending_action' \in {None, "Quit", "Ibus", "Wayland", "Evdev"},
         published' \in Backend, enabled' \in BOOLEAN,
         ibus' \in [connected : BOOLEAN, suspended : BOOLEAN], evdev' \in Evdev,
         desktop' \subseteq Hook, marker' \in Seq(Hook) \cup {None},
         commands' \in Seq(Command), senders' \subseteq {"ipc", "tray"},
         cause' \in {None, "quit", "ended", "failed", "no_control", "killed"}
  PROVE  TypeOK'
  BY TypedBounds DEF TypeOK

(* What is published is a backend (supervisor.rs publish_backend).         *)
LEMMA PublishType ==
  ASSUME TypeOK, NEW backend \in Backend, publish_backend(backend)
  PROVE  published' \in Backend
  BY DEF TypeOK, publish_backend

(* No connection is a typed state of the connection.                       *)
LEMMA IbusType == IbusOff \in [connected : BOOLEAN, suspended : BOOLEAN]
  BY DEF IbusOff

(* The backend of a configuration is a backend (backend.rs).               *)
LEMMA ConfigType ==
  ASSUME TypeOK
  PROVE  native_from_config \in Backend /\ startup_from_config \in Backend
  BY DEF native_from_config, startup_from_config, Backend

(* Once run_single has returned the supervisor is in its outer loop or     *)
(* exits, with no IBus connection (supervisor.rs Supervisor::run).         *)
LEMMA AfterRunFacts ==
  ASSUME TypeOK, NEW result, AfterRun(result)
  PROVE  /\ pc' \in {"outer", "exiting"} /\ ibus' = IbusOff /\ current' \in Backend
         /\ pending_action' \in {None, "Quit", "Ibus", "Wayland", "Evdev"}
         /\ cause' \in {None, "quit", "ended", "failed", "no_control", "killed"}
  <1>1. CASE Exit("quit")
    BY <1>1 DEF Exit, TypeOK
  <1>2. CASE /\ current' = pending_action /\ pending_action' = None /\ pending_action \notin {None, "Quit"}
             /\ pc' = "outer" /\ ibus' = IbusOff /\ UNCHANGED cause
    BY <1>2 DEF TypeOK, Backend
  <1>3. CASE /\ current' = native_from_config /\ pc' = "outer" /\ ibus' = IbusOff
             /\ UNCHANGED <<pending_action, cause>>
    BY <1>3, ConfigType DEF TypeOK
  <1>4. CASE Exit(IF result = "ok" THEN "ended" ELSE "failed")
    BY <1>4 DEF Exit, TypeOK
  <1> QED
    BY <1>1, <1>2, <1>3, <1>4 DEF AfterRun

(* A transport has returned and left nothing behind.                       *)
LEMMA Returned ==
  ASSUME IInv, [Next]_vars, NEW result, AfterRun(result), UNCHANGED <<loop, published>>,
         evdev' \in Evdev, evdev'.run = "off", evdev'.setup = "off",
         ~tainted' => evdev'.clean /\ Untouched
  PROVE  IInv'
  <1>1. /\ pc' \in {"outer", "exiting"} /\ ibus' = IbusOff /\ current' \in Backend
        /\ pending_action' \in {None, "Quit", "Ibus", "Wayland", "Evdev"}
        /\ cause' \in {None, "quit", "ended", "failed", "no_control", "killed"}
    BY AfterRunFacts DEF IInv
  <1>2. TypeOK'
    BY <1>1, IbusType, Settled DEF IInv, TypeOK, loop
  <1>3. Phases'
    BY <1>1 DEF Phases, IbusOff
  <1>4. PublishedRuns'
    BY <1>1 DEF PublishedRuns, RunningBackend, Serving
  <1>5. Accounted'
    BY <1>1 DEF Accounted, AfterSetup, Untouched, loop
  <1> QED
    BY <1>2, <1>3, <1>4, <1>5 DEF IInv

(* A started daemon finds its marker, with all that is in effect in it.    *)
LEMMA StartStep == ASSUME IInv, [Next]_vars, Start PROVE IInv'
  <1>1. /\ pc = "down" /\ pc' = "recovering" /\ UNCHANGED <<ibus, desktop, marker, tainted>>
        /\ TypeOK /\ evdev.run = "off"
    BY DEF IInv, Phases, Start
  <1> DEFINE stale == IF marker = None THEN <<>> ELSE Reverse(marker)
  <1>2. stale \in Seq(Hook) /\ Range(stale) = InMarker
    <2>1. CASE marker = None
      BY <2>1, NoHooks DEF InMarker
    <2>2. CASE marker # None
      <3>1. marker \in Seq(Hook)
        BY <1>1, <2>2 DEF TypeOK
      <3> QED
        BY <2>2, <3>1, ReverseHooks DEF InMarker
    <2> QED
      BY <2>1, <2>2
  <1>3. /\ evdev' \in Evdev /\ evdev'.run = "off" /\ evdev'.setup = "off" /\ evdev'.clean
        /\ evdev'.undo = stale
    <2>1. evdev' = [EvdevOff EXCEPT !.undo = stale]
      BY DEF Start
    <2> HIDE DEF stale
    <2> QED
      BY <1>2, <2>1, NoHooks DEF EvdevOff, Evdev
  <1>4. TypeOK'
    <2>1. <<>> \in Seq(Command)
      OBVIOUS
    <2> QED
      BY <1>1, <1>3, <2>1, Settled DEF Start, TypeOK, Backend
  <1>5. Phases' /\ PublishedRuns'
    BY <1>1, <1>3 DEF IInv, Phases, PublishedRuns, RunningBackend, Serving
  <1>6. Accounted'
    <2> HIDE DEF stale
    <2> QED
      BY <1>1, <1>2, <1>3 DEF IInv, Accounted, InMarker
  <1> QED
    BY <1>4, <1>5, <1>6 DEF IInv

(* The recovery undoes a hook (recover_stale_rollback).                    *)
LEMMA RecoverStep == ASSUME IInv, [Next]_vars, Recover PROVE IInv'
  <1>1. /\ pc = "recovering" /\ evdev.undo # <<>> /\ UndoNext(evdev) /\ UNCHANGED <<task, marker>>
        /\ marker \in Seq(Hook) \cup {None} /\ evdev.run = "off" /\ evdev.setup = "off"
    BY DEF IInv, TypeOK, Phases, Recover
  <1>2. /\ evdev' \in Evdev /\ evdev'.run = "off" /\ evdev'.setup = "off" /\ desktop' \subseteq Hook
        /\ tainted => tainted'
        /\ ~tainted' => evdev'.clean = evdev.clean /\ desktop' \subseteq desktop
        /\ ~tainted' /\ desktop \subseteq Range(evdev.undo) => desktop' \subseteq Range(evdev'.undo)
    BY <1>1, UndoStep
  <1>3. Accounted'
    BY <1>1, <1>2 DEF IInv, Accounted, InMarker, task
  <1> QED
    BY <1>1, <1>2, <1>3, OfTask

(* A clean recovery leaves nothing behind.                                 *)
LEMMA RecoveredStep == ASSUME IInv, [Next]_vars, Recovered PROVE IInv'
  <1>1. /\ pc = "recovering" /\ evdev.undo = <<>> /\ evdev' = EvdevOff
        /\ marker' = IF evdev.clean THEN None ELSE marker
        /\ pc' \in {"exiting", "outer"}
        /\ UNCHANGED <<config, published, enabled, ibus, desktop, commands, senders, bounds>>
    BY DEF Recovered
  <1>2. /\ current' \in Backend /\ pending_action' \in {None, "Quit", "Ibus", "Wayland", "Evdev"}
        /\ cause' \in {None, "quit", "ended", "failed", "no_control", "killed"}
    BY ConfigType DEF IInv, TypeOK, Recovered
  <1>3. TypeOK'
    BY <1>1, <1>2, OffType, Settled DEF IInv, TypeOK
  <1>4. Phases'
    BY <1>1 DEF IInv, Phases, EvdevOff
  <1>5. PublishedRuns'
    BY <1>1 DEF PublishedRuns, RunningBackend, Serving
  <1>6. Accounted'
    BY <1>1, NoHooks DEF IInv, Accounted, AfterSetup, Untouched, EvdevOff, bounds
  <1> QED
    BY <1>3, <1>4, <1>5, <1>6 DEF IInv

(* A native backend is entered only from the outer loop, with no hook in   *)
(* effect.                                                                 *)
LEMMA ConnectStep == ASSUME IInv, [Next]_vars, Connect PROVE IInv'
  <1>1. /\ pc = "outer" /\ current \in {"Wayland", "Ibus"}
        /\ UNCHANGED <<config, enabled, evdev, desktop, marker, commands, senders>>
        /\ evdev \in Evdev /\ evdev.run = "off" /\ evdev.setup = "off"
    BY DEF IInv, TypeOK, Phases, Connect
  <1>2. CASE /\ pc' = IF current = "Ibus" THEN "ibus" ELSE "wayland"
             /\ ibus' = IF current = "Ibus" THEN [connected |-> TRUE, suspended |-> FALSE] ELSE IbusOff
             /\ publish_backend(current)
             /\ UNCHANGED <<current, pending_action, cause, bounds>>
    <2>1. TypeOK'
      <3>1. ibus' \in [connected : BOOLEAN, suspended : BOOLEAN]
        BY <1>2, IbusType
      <3>2. published' \in Backend
        BY <1>2, PublishType DEF IInv, TypeOK
      <3> QED
        BY <1>1, <1>2, <3>1, <3>2, Settled DEF IInv, TypeOK
    <2>2. Phases'
      BY <1>1, <1>2 DEF IInv, Phases, IbusOff
    <2>3. PublishedRuns'
      <3>1. \/ pc' = "ibus" /\ current = "Ibus"
            \/ pc' = "wayland" /\ current = "Wayland"
        BY <1>1, <1>2
      <3>2. "tray" \in senders' => published' = current
        BY <1>1, <1>2 DEF publish_backend
      <3> QED
        BY <3>1, <3>2 DEF PublishedRuns, RunningBackend
    <2>4. Accounted'
      BY <1>1, <1>2 DEF IInv, Accounted, Untouched, bounds
    <2> QED
      BY <2>1, <2>2, <2>3, <2>4 DEF IInv
  <1>3. CASE /\ Fault("connect_fails") /\ AfterRun("err") /\ UNCHANGED published
    <2>1. ~tainted' => evdev'.clean /\ Untouched
      BY <1>1, <1>3, FaultFacts DEF IInv, Accounted
    <2> QED
      BY <1>1, <1>3, <2>1, Returned DEF loop
  <1> QED
    BY <1>2, <1>3 DEF Connect

(* run_evdev_loop starts with no hook in effect.                           *)
LEMMA StartEvdevStep == ASSUME IInv, [Next]_vars, StartEvdev PROVE IInv'
  <1>1. /\ pc = "outer" /\ current = "Evdev"
        /\ UNCHANGED <<config, enabled, desktop, marker, commands, senders>>
        /\ evdev \in Evdev /\ evdev.run = "off" /\ evdev.setup = "off"
    BY DEF IInv, TypeOK, Phases, StartEvdev
  <1>2. CASE /\ pc' = "evdev" /\ evdev' = StartedEvdev /\ publish_backend("Evdev")
             /\ UNCHANGED <<current, pending_action, ibus, cause, bounds>>
    <2>1. TypeOK'
      <3>1. published' \in Backend
        BY <1>2, PublishType DEF IInv, Backend
      <3> QED
        BY <1>1, <1>2, <3>1, OffType, Settled DEF IInv, TypeOK
    <2>2. Phases' /\ PublishedRuns'
      BY <1>1, <1>2 DEF IInv, Phases, PublishedRuns, RunningBackend, Serving, publish_backend, StartedEvdev, EvdevOff
    <2>3. Accounted'
      BY <1>1, <1>2, NoHooks DEF IInv, Accounted, AfterSetup, Untouched, StartedEvdev, EvdevOff, bounds
    <2> QED
      BY <2>1, <2>2, <2>3 DEF IInv
  <1>3. CASE Fault("grab_fails") /\ AfterRun("err") /\ UNCHANGED <<evdev, published>>
    <2>1. ~tainted' => evdev'.clean /\ Untouched
      BY <1>1, <1>3, FaultFacts DEF IInv, Accounted
    <2> QED
      BY <1>1, <1>3, <2>1, Returned DEF loop
  <1> QED
    BY <1>2, <1>3 DEF StartEvdev

(* A step that only moves commands and what is to be done about them.      *)
LEMMA Inside ==
  ASSUME IInv, [Next]_vars,
         UNCHANGED <<config, pc, current, published, ibus, evdev, desktop, marker, cause>>,
         pending_action' \in {None, "Quit", "Ibus", "Wayland", "Evdev"}, enabled' \in BOOLEAN,
         commands' \in Seq(Command), senders' \subseteq senders
  PROVE  IInv'
  <1>1. TypeOK'
    BY Settled DEF IInv, TypeOK
  <1>2. Phases' /\ PublishedRuns'
    BY DEF IInv, Phases, PublishedRuns, RunningBackend, Serving
  <1>3. Accounted'
    BY TypedBounds DEF IInv, Accounted, AfterSetup, Untouched, InMarker
  <1> QED
    BY <1>1, <1>2, <1>3 DEF IInv

(* A command is sent.                                                      *)
LEMMA SendStep == ASSUME IInv, [Next]_vars, Send PROVE IInv'
  <1>1. commands' \in Seq(Command)
    BY SupervisorAssumption DEF IInv, TypeOK, Send
  <1> QED
    BY <1>1, Inside DEF IInv, TypeOK, Send

(* A command is served: only the flag and the pending action change        *)
(* (handle_cmd).                                                           *)
LEMMA ReceiveStep == ASSUME IInv, [Next]_vars, Receive PROVE IInv'
  <1>1. /\ TypeOK /\ commands \in Seq(Command) /\ commands # <<>> /\ commands' = Tail(commands)
        /\ handle_cmd(Head(commands))
        /\ UNCHANGED <<config, pc, current, published, ibus, evdev, desktop, marker, senders, cause>>
    BY DEF IInv, TypeOK, Receive
  <1>2. Tail(commands) \in Seq(Command)
    BY <1>1
  <1> DEFINE command == Head(commands)
  <1>3. enabled' \in BOOLEAN
    <2>1. \/ UNCHANGED enabled
          \/ /\ command \in {"toggle", "enable", "disable"}
             /\ enabled' = CASE command = "toggle" -> ~enabled
                             [] command = "enable" -> TRUE
                             [] command = "disable" -> FALSE
      BY <1>1 DEF handle_cmd
    <2>2. enabled \in BOOLEAN
      BY <1>1 DEF TypeOK
    <2> HIDE DEF command
    <2>3. CASE command = "toggle"
      BY <2>1, <2>2, <2>3, Zenon
    <2>4. CASE command = "enable"
      <3>1. command # "toggle" /\ command # "disable"
        BY <2>4
      <3> QED
        BY <2>1, <2>2, <2>4, <3>1, Zenon
    <2>5. CASE command = "disable"
      <3>1. command # "toggle" /\ command # "enable"
        BY <2>5
      <3> QED
        BY <2>1, <2>2, <2>5, <3>1, Zenon
    <2> QED
      BY <2>1, <2>2, <2>3, <2>4, <2>5
  <1>4. pending_action' \in {None, "Quit", "Ibus", "Wayland", "Evdev"}
    <2>1. \A target : ~StaysPut(target) /\ target \in Backend => target \in {"Ibus", "Wayland", "Evdev"}
      BY DEF StaysPut, Backend
    <2>2. resolve_target(command) \in Backend
      BY <1>1, ConfigType DEF resolve_target, Backend
    <2> HIDE DEF command
    <2>3. \/ UNCHANGED pending_action
          \/ pending_action' = "Quit"
          \/ pending_action' = IF StaysPut(resolve_target(command)) THEN pending_action
                               ELSE resolve_target(command)
      BY <1>1 DEF handle_cmd, command
    <2> QED
      BY <1>1, <2>1, <2>2, <2>3 DEF TypeOK
  <1> HIDE DEF command
  <1> QED
    BY <1>1, <1>2, <1>3, <1>4, Inside DEF TypeOK

(* The IPC server or the tray gives up.                                    *)
LEMMA ControlEndsStep == ASSUME IInv, [Next]_vars, ControlEnds PROVE IInv'
  BY Inside DEF IInv, TypeOK, ControlEnds

(* A native transport returns.                                             *)
LEMMA NativeReturns ==
  ASSUME IInv, [Next]_vars, NEW result, AfterRun(result), pc \in {"wayland", "ibus"},
         UNCHANGED <<loop, published, evdev>>
  PROVE  IInv'
  <1>1. evdev \in Evdev /\ evdev.run = "off" /\ evdev.setup = "off"
    BY DEF IInv, TypeOK, Phases
  <1>2. ~tainted' => evdev'.clean /\ Untouched
    BY TypedBounds DEF IInv, Accounted
  <1> QED
    BY <1>1, <1>2, Returned

(* run_wayland_loop returns for a pending action.                          *)
LEMMA LeaveWaylandStep == ASSUME IInv, [Next]_vars, LeaveWayland PROVE IInv'
  BY NativeReturns DEF LeaveWayland

(* A native transport ends by itself.                                      *)
LEMMA NativeEndsStep == ASSUME IInv, [Next]_vars, NativeEnds PROVE IInv'
  <1>1. PICK result : AfterRun(result)
    BY DEF NativeEnds
  <1> QED
    BY <1>1, NativeReturns DEF NativeEnds

(* run_ibus_loop returns for a pending action.                             *)
LEMMA LeaveIbusStep == ASSUME IInv, [Next]_vars, LeaveIbus PROVE IInv'
  BY NativeReturns DEF LeaveIbus

(* Evdev is layered over the IBus connection, which is suspended, or is    *)
(* refused, which leaves all as it was (run_evdev_in_ibus_slot).           *)
LEMMA EnterSlotStep == ASSUME IInv, [Next]_vars, EnterSlot PROVE IInv'
  <1>1. /\ pc = "ibus" /\ pending_action' = None /\ UNCHANGED <<loop, current, cause>>
        /\ evdev \in Evdev /\ evdev.run = "off" /\ evdev.setup = "off"
        /\ ibus \in [connected : BOOLEAN, suspended : BOOLEAN] /\ ibus.connected
    BY DEF IInv, TypeOK, Phases, EnterSlot
  <1>2. CASE /\ pc' = "slot" /\ evdev' = StartedEvdev /\ ibus' = [ibus EXCEPT !.suspended = TRUE]
             /\ publish_backend("Evdev") /\ UNCHANGED bounds
    <2>1. ibus' \in [connected : BOOLEAN, suspended : BOOLEAN] /\ ibus'.connected /\ ibus'.suspended
      BY <1>1, <1>2
    <2>2. TypeOK'
      <3>1. published' \in Backend
        BY <1>2, PublishType DEF IInv, Backend
      <3> QED
        BY <1>1, <1>2, <2>1, <3>1, OffType, Settled DEF IInv, TypeOK, loop
    <2>3. Phases' /\ PublishedRuns'
      BY <1>1, <1>2, <2>1 DEF Phases, PublishedRuns, RunningBackend, publish_backend, loop, StartedEvdev, EvdevOff
    <2>4. Accounted'
      BY <1>1, <1>2, NoHooks DEF IInv, Accounted, AfterSetup, Untouched, StartedEvdev, EvdevOff, bounds, loop
    <2> QED
      BY <2>2, <2>3, <2>4 DEF IInv
  <1>3. CASE Fault("grab_fails") /\ publish_backend("Ibus") /\ UNCHANGED <<pc, evdev, ibus>>
    <2>1. UNCHANGED published
      BY <1>1, <1>3 DEF IInv, PublishedRuns, RunningBackend, Serving, publish_backend
    <2> QED
      BY <1>1, <1>3, <2>1, Inside DEF IInv, TypeOK, loop
  <1> QED
    BY <1>2, <1>3 DEF EnterSlot

(* The evdev transport has ended, with its setup or its cleanup.           *)
LEMMA DoneUntouched ==
  ASSUME IInv, pc \in {"slot", "evdev"}, evdev.run = "done", ~tainted
  PROVE  Untouched
  BY DEF IInv, Phases, Accounted, AfterSetup

(* The slot is left after its cleanup: the connection resumes, or is       *)
(* dropped for another backend.                                            *)
LEMMA LeaveSlotStep == ASSUME IInv, [Next]_vars, LeaveSlot PROVE IInv'
  <1>1. /\ pc = "slot" /\ evdev.run = "done" /\ evdev' = EvdevOff /\ UNCHANGED <<loop, bounds>>
        /\ ibus \in [connected : BOOLEAN, suspended : BOOLEAN] /\ ibus.connected
    BY DEF IInv, TypeOK, Phases, LeaveSlot
  <1>2. ~tainted' => evdev'.clean /\ Untouched
    BY <1>1, DoneUntouched DEF EvdevOff, bounds
  <1>3. evdev' \in Evdev /\ evdev'.run = "off" /\ evdev'.setup = "off"
    BY <1>1, OffType DEF EvdevOff
  <1>4. CASE /\ pending_action' = None /\ pc' = "ibus" /\ ibus' = [ibus EXCEPT !.suspended = FALSE]
             /\ publish_backend("Ibus") /\ UNCHANGED <<current, cause>>
    <2>1. ibus' \in [connected : BOOLEAN, suspended : BOOLEAN] /\ ibus'.connected /\ ~ibus'.suspended
      BY <1>1, <1>4
    <2>2. TypeOK'
      <3>1. published' \in Backend
        BY <1>4, PublishType DEF IInv, Backend
      <3> QED
        BY <1>1, <1>3, <1>4, <2>1, <3>1, Settled DEF IInv, TypeOK, loop
    <2>3. Phases' /\ PublishedRuns'
      BY <1>1, <1>3, <1>4, <2>1 DEF Phases, PublishedRuns, RunningBackend, Serving, publish_backend, loop
    <2>4. Accounted'
      BY <1>1, <1>2, <1>4 DEF Accounted, Untouched, loop
    <2> QED
      BY <2>2, <2>3, <2>4 DEF IInv
  <1>5. CASE AfterRun("ok") /\ UNCHANGED published
    BY <1>1, <1>2, <1>3, <1>5, Returned
  <1> QED
    BY <1>4, <1>5 DEF LeaveSlot

(* run_evdev_loop returns after its cleanup.                               *)
LEMMA LeaveEvdevStep == ASSUME IInv, [Next]_vars, LeaveEvdev PROVE IInv'
  <1>1. /\ pc = "evdev" /\ evdev.run = "done" /\ evdev' = EvdevOff
        /\ UNCHANGED <<loop, published, bounds>>
    BY DEF LeaveEvdev
  <1>2. ~tainted' => evdev'.clean /\ Untouched
    BY <1>1, DoneUntouched DEF EvdevOff, bounds
  <1>3. evdev' \in Evdev /\ evdev'.run = "off" /\ evdev'.setup = "off"
    BY <1>1, OffType DEF EvdevOff
  <1>4. PICK result : AfterRun(result)
    BY DEF LeaveEvdev
  <1> QED
    BY <1>1, <1>2, <1>3, <1>4, Returned

(* The channel closes under a running backend: the setup or the cleanup of *)
(* an evdev transport goes on.                                             *)
LEMMA ChannelClosesStep == ASSUME IInv, [Next]_vars, ChannelCloses PROVE IInv'
  <1>1. /\ evdev' = IF evdev.run = "cleaning" THEN evdev ELSE [evdev EXCEPT !.run = "off"]
        /\ pc \in {"wayland", "ibus", "slot", "evdev"} /\ evdev \in Evdev
        /\ pc' = "exiting" /\ cause' = "no_control" /\ ibus' = IbusOff
        /\ pending_action' = None /\ UNCHANGED <<loop, published, current, bounds>>
    BY DEF IInv, TypeOK, ChannelCloses, Exit, Serving
  <1>2. /\ evdev' \in Evdev /\ evdev'.setup = evdev.setup /\ evdev'.applied = evdev.applied
        /\ evdev'.undo = evdev.undo /\ evdev'.clean = evdev.clean
        /\ evdev'.run = IF evdev.run = "cleaning" THEN "cleaning" ELSE "off"
    BY <1>1 DEF Evdev
  <1>3. TypeOK'
    BY <1>1, <1>2, IbusType, Settled DEF IInv, TypeOK, loop
  <1>4. Phases' /\ PublishedRuns'
    BY <1>1, <1>2 DEF IInv, Phases, PublishedRuns, RunningBackend, Serving, IbusOff
  <1>5. Accounted'
    BY <1>1, <1>2 DEF IInv, Phases, Accounted, AfterSetup, Untouched, InMarker, loop, bounds
  <1> QED
    BY <1>3, <1>4, <1>5 DEF IInv

(* The process has ended, by itself or not, with no setup task on its way. *)
LEMMA InMarkerAtEnd ==
  ASSUME IInv, evdev.setup \in {"off", "ok", "err"}, ~tainted
  PROVE  desktop \subseteq InMarker
  BY DEF IInv, TypeOK, Accounted, AfterSetup, Untouched

(* No process is left.                                                     *)
LEMMA DownStep ==
  ASSUME IInv, [Next]_vars, pc' = "down", evdev' = EvdevOff, ibus' = IbusOff,
         pending_action' \in {None, "Quit", "Ibus", "Wayland", "Evdev"},
         cause' \in {None, "quit", "ended", "failed", "no_control", "killed"},
         UNCHANGED <<config, current, published, enabled, desktop, marker, commands, senders>>,
         ~tainted' => evdev.setup \in {"off", "ok", "err"}
  PROVE  IInv'
  <1>1. TypeOK'
    BY OffType, IbusType, Settled DEF IInv, TypeOK
  <1>2. Phases' /\ PublishedRuns'
    BY DEF Phases, PublishedRuns, RunningBackend, Serving, EvdevOff, IbusOff
  <1>3. Accounted'
    BY TypedBounds, InMarkerAtEnd DEF IInv, Accounted, InMarker, EvdevOff
  <1> QED
    BY <1>1, <1>2, <1>3 DEF IInv

(* The process ends once its blocking thread is done.                      *)
LEMMA GoneStep == ASSUME IInv, [Next]_vars, Gone PROVE IInv'
  <1>1. ibus \in [connected : BOOLEAN, suspended : BOOLEAN] /\ ~ibus.connected /\ ~ibus.suspended
    BY DEF IInv, TypeOK, Phases, Gone
  <1>2. ibus' = IbusOff
    <2>1. ibus = [connected |-> FALSE, suspended |-> FALSE]
      BY <1>1
    <2> QED
      BY <2>1 DEF Gone, IbusOff
  <1> QED
    BY <1>2, DownStep DEF IInv, TypeOK, Gone

(* A kill while no hook is being set leaves every hook in the marker.      *)
LEMMA KillStep == ASSUME IInv, [Next]_vars, Kill PROVE IInv'
  <1>1. ~tainted' => evdev.setup \in {"off", "ok", "err"}
    <2>1. CASE evdev.setup \in {"set", "mark", "rollback"}
      <3>1. Fault("killed_in_setup")
        BY <2>1 DEF Kill
      <3> QED
        BY <3>1, FaultFacts DEF IInv, Unrecovered
    <2>2. CASE evdev.setup \notin {"set", "mark", "rollback"}
      BY <2>2 DEF IInv, TypeOK, Evdev
    <2> QED
      BY <2>1, <2>2
  <1> QED
    BY <1>1, DownStep DEF Kill

-----------------------------------------------------------------------------
(* The invariant of every run.                                             *)

(* No daemon has run yet.                                                  *)
LEMMA IInvInit == Init => IInv
  <1> SUFFICES ASSUME Init PROVE IInv
    OBVIOUS
  <1>1. TypeOK
    <2>1. <<>> \in Seq(Command)
      OBVIOUS
    <2> QED
      BY <2>1, OffType, IbusType DEF Init, TypeOK, Backend
  <1>2. Phases /\ PublishedRuns /\ Accounted
    BY DEF Init, Phases, PublishedRuns, RunningBackend, Serving, Accounted, InMarker, EvdevOff, IbusOff
  <1> QED
    BY <1>1, <1>2 DEF IInv

(* Every step keeps the invariant.                                         *)
LEMMA IInvStep == IInv /\ [Next]_vars => IInv'
  <1> SUFFICES ASSUME IInv, [Next]_vars PROVE IInv'
    OBVIOUS
  <1>1. CASE Setup
    BY <1>1, SetHookStep, HooksSetStep, RollbackStep, WriteMarkerStep DEF Setup
  <1>2. CASE Transport
    BY <1>2, SetupFailsStep, AwaitSetupStep, CleanupStep, CleanedStep DEF Transport
  <1>3. CASE Loops
    BY <1>3, LeaveWaylandStep, EnterSlotStep, LeaveIbusStep, StopEvdevStep, LeaveSlotStep,
       LeaveEvdevStep DEF Loops
  <1>4. CASE Daemon
    BY <1>4, RecoverStep, RecoveredStep, ConnectStep, StartEvdevStep, ReceiveStep,
       ChannelClosesStep, GoneStep DEF Daemon
  <1>5. CASE Start \/ Send \/ EvdevEnds \/ NativeEnds \/ ControlEnds \/ Kill
    BY <1>5, StartStep, SendStep, EvdevEndsStep, NativeEndsStep, ControlEndsStep, KillStep
  <1>6. CASE UNCHANGED vars
    BY <1>6, Inside DEF vars, IInv, TypeOK
  <1> QED
    BY <1>1, <1>2, <1>3, <1>4, <1>5, <1>6 DEF Next

(* The inductive invariant holds in every state of every behaviour: over   *)
(* any number of hooks, starts, faults and commands.                       *)
THEOREM IInvInvariant == Spec => []IInv
  BY IInvInit, IInvStep, PTL DEF Spec

-----------------------------------------------------------------------------
(* What follows for the properties of the model.                           *)

(* Every variable of the supervisor keeps its type.                        *)
THEOREM TypeInvariant == Spec => []TypeOK
  <1>1. IInv => TypeOK
    BY DEF IInv
  <1> QED
    BY <1>1, IInvInvariant, PTL

(* While commands are served and the tray task, which has the only         *)
(* receiver of backend_tx, lives, the backend shown is the one that runs,  *)
(* however the loops of supervisor.rs were entered and left, so that       *)
(* handle_cmd takes a switch for needless only when it is.  Once the tray  *)
(* task is gone the code publishes nothing any more.                       *)
THEOREM PublishedRunsTheorem == Spec => []PublishedRuns
  <1>1. IInv => PublishedRuns
    BY DEF IInv
  <1> QED
    BY <1>1, IInvInvariant, PTL

(* The IBus engine under an evdev grab is suspended for the whole of the   *)
(* grab and for no longer (run_evdev_in_ibus_slot), whichever way the slot *)
(* is left.                                                                *)
THEOREM IbusComposesAloneTheorem == Spec => []IbusComposesAlone
  <1>1. IInv => IbusComposesAlone
    BY DEF IInv, TypeOK, Phases, IbusComposesAlone
  <1> QED
    BY <1>1, IInvInvariant, PTL

(* While a native backend serves, no keymap hook of the evdev backend is   *)
(* in effect, through any number of switches, failed setups, kills and     *)
(* restarts, short of the faults in Unrecovered (evdev_hooks.rs,           *)
(* supervisor.rs).                                                         *)
THEOREM HooksUndoneTheorem == Spec => []HooksUndone
  <1>1. IInv => HooksUndone
    BY DEF IInv, Accounted, Untouched, HooksUndone
  <1> QED
    BY <1>1, IInvInvariant, PTL

(* A hook in effect is always in the list of a task that will undo it or   *)
(* in the marker that the next start reads, with the same exceptions       *)
(* (evdev_hooks.rs write_rollback_marker, recover_stale_rollback).         *)
THEOREM HooksAccountedTheorem == Spec => []HooksAccounted
  <1>1. IInv => HooksAccounted
    <2>1. ASSUME IInv, ~tainted
          PROVE  \/ desktop \subseteq InMarker
                 \/ desktop \subseteq Range(evdev.applied)
                 \/ desktop \subseteq Range(evdev.undo)
      <3>1. pc \in {"outer", "wayland", "ibus"} => Untouched
        BY <2>1 DEF IInv, Accounted
      <3>2. pc \in {"down", "recovering"} => desktop \subseteq InMarker
        BY <2>1 DEF IInv, Accounted
      <3>3. pc \in {"slot", "evdev", "exiting"} => AfterSetup
        BY <2>1 DEF IInv, Accounted
      <3>4. evdev.setup \in {"off", "set", "rollback", "mark", "ok", "err"}
        BY <2>1 DEF IInv, TypeOK, Evdev
      <3> QED
        BY <2>1, <3>1, <3>2, <3>3, <3>4 DEF IInv, TypeOK, AfterSetup, Untouched
    <2> QED
      BY <2>1 DEF InMarker, HooksAccounted
  <1> QED
    BY <1>1, IInvInvariant, PTL

=============================================================================
