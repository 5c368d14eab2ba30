----------------------------- MODULE Supervisor -----------------------------
(***************************************************************************)
(* The transport supervisor (crates/daemon/src/transport/supervisor.rs)    *)
(* with the evdev keymap hooks and their rollback marker (evdev_hooks.rs), *)
(* the choice of backend (backend.rs) and the command channel that the IPC *)
(* socket and the tray feed (control.rs, ipc.rs, tray.rs, main.rs).        *)
(*                                                                         *)
(* Three things run concurrently: the supervisor task, which serves        *)
(* commands while its transport runs; the blocking thread that runs the    *)
(* setup or cleanup hooks one script at a time; and the senders of         *)
(* commands.  The process may be killed between any two steps: what the    *)
(* hooks did to the desktop and the marker file outlive it.                *)
(*                                                                         *)
(* A Wayland or IBus transport is a connection that works until it ends;   *)
(* what happens on it is the subject of the session modules.               *)
(***************************************************************************)
EXTENDS Sequences, SequencesExt, Naturals, FiniteSets

CONSTANTS
  None,
  Configs,      \* the configurations the daemon may be started with
  Hooks,        \* evdev_grab_hooks, in order
  Requests,     \* the commands that users send
  Faults,       \* which of the faults below happen
  MaxCommands,  \* commands sent
  MaxFaults,    \* faults that happen
  MaxStarts     \* times the daemon is started

(* A set script fails, or cannot be run at all; an unset script fails; the *)
(* marker cannot be written; the keyboards cannot be grabbed, or a native  *)
(* connection made; a transport ends by itself; the process is killed,     *)
(* while hooks are being set or at any other time; a control task ends.    *)
FaultKinds == {"set_fails", "set_cannot_run", "unset_fails", "marker_fails", "grab_fails",
               "connect_fails", "transport_ends", "killed_in_setup", "killed", "control_ends"}

(* The faults after which the code leaves a hook in effect without a       *)
(* record of it, or with a record that only the next start reads.          *)
Unrecovered == {"set_cannot_run", "unset_fails", "marker_fails", "killed_in_setup"}

Backend == {"Auto", "Ibus", "Wayland", "Evdev"}
Command == {"toggle", "enable", "disable", "status", "native", "evdev", "switch", "quit"}
Hook == Range(Hooks)

ASSUME SupervisorAssumption ==
  /\ Configs \subseteq [ibus_requested : BOOLEAN, enable_wayland : BOOLEAN,
                        enable_evdev_grab : BOOLEAN]
  /\ Hooks \in Seq(Hook)
  /\ Requests \subseteq Command
  /\ None \notin Backend \cup {"Quit"} /\ None \notin Seq(Hook)
  /\ Faults \subseteq FaultKinds
  /\ MaxCommands \in Nat /\ MaxFaults \in Nat /\ MaxStarts \in Nat

VARIABLES
  config,          \* the configuration of this run
  pc,              \* where the supervisor task is
  current,         \* the backend that Supervisor::run runs
  pending_action,  \* None, "Quit", or the backend to switch to
  published,       \* the backend that backend_tx holds
  enabled,         \* the shared on/off flag
  ibus,            \* the IBus connection and the suspend flag of its daemon
  evdev,           \* the evdev transport, its setup task and its cleanup
  desktop,         \* the hooks that are in effect
  marker,          \* the hooks in the rollback marker file, or None
  commands,        \* the command channel
  senders,         \* the control tasks that hold a sender of it
  cause,           \* why the daemon last stopped
  sent, faults, starts,  \* how much of each bound is used
  tainted                \* one of Unrecovered has happened

bounds == <<sent, faults, starts, tainted>>
vars == <<config, pc, current, pending_action, published, enabled, ibus, evdev, desktop,
          marker, commands, senders, cause, sent, faults, starts, tainted>>

(* run: the adapter's event loop, then the wait for the setup task and the *)
(* cleanup.  setup: the setup task, with the hooks still to set, those     *)
(* applied, and those still to be undone by a rollback or the cleanup.     *)
Evdev ==
  [run : {"off", "running", "stopping", "cleaning", "done"},
   setup : {"off", "set", "rollback", "mark", "ok", "err"},
   todo : Seq(Hook), applied : Seq(Hook), undo : Seq(Hook),
   clean : BOOLEAN, result : {"ok", "err"}]

EvdevOff == [run |-> "off", setup |-> "off", todo |-> <<>>, applied |-> <<>>, undo |-> <<>>,
             clean |-> TRUE, result |-> "ok"]

IbusOff == [connected |-> FALSE, suspended |-> FALSE]

Running == pc \notin {"down", "exiting"}
Serving == pc \in {"wayland", "ibus", "slot", "evdev"}

-----------------------------------------------------------------------------
(* The backends of a configuration.                                        *)

native_from_config ==
  IF config.ibus_requested THEN "Ibus"
  ELSE IF config.enable_wayland THEN "Wayland" ELSE "Auto"

startup_from_config ==
  IF config.ibus_requested THEN "Ibus"
  ELSE IF config.enable_evdev_grab THEN "Evdev"
  ELSE IF config.enable_wayland THEN "Wayland" ELSE "Auto"

(* One of the faults that the run allows happens in this step.             *)
Fault(kind) ==
  /\ kind \in Faults /\ faults < MaxFaults
  /\ faults' = faults + 1
  /\ tainted' = (tainted \/ kind \in Unrecovered)
  /\ UNCHANGED <<sent, starts>>

-----------------------------------------------------------------------------
(* Scripts.                                                                *)

(* The desktop after an unset script that worked.                          *)
Unset(hook) == desktop' = desktop \ {hook}

(* Undo the next hook of `undo'; the flag `clean' remembers a failure.     *)
UndoNext(e) ==
  \/ /\ Unset(Head(e.undo))
     /\ evdev' = [e EXCEPT !.undo = Tail(@)]
     /\ UNCHANGED bounds
  \/ /\ Fault("unset_fails")
     /\ evdev' = [e EXCEPT !.undo = Tail(@), !.clean = FALSE]
     /\ UNCHANGED desktop

-----------------------------------------------------------------------------
(* The setup task: run_setup_hooks, then write_rollback_marker.            *)

task == <<config, pc, current, pending_action, published, enabled, ibus, commands, senders, cause>>

SetHook ==
  LET hook == Head(evdev.todo)
      rest == [evdev EXCEPT !.todo = Tail(@)]
  IN  /\ evdev.setup = "set" /\ evdev.todo # <<>>
      /\ \/ /\ desktop' = desktop \cup {hook}
            /\ evdev' = [rest EXCEPT !.applied = Append(@, hook)]
            /\ UNCHANGED bounds
         \/ /\ evdev' = rest   \* exit code 10, or no script installed
            /\ UNCHANGED <<desktop, bounds>>
         \/ /\ Fault("set_fails")
            /\ evdev' = [evdev EXCEPT !.setup = "rollback", !.undo = Reverse(evdev.applied)]
            /\ UNCHANGED desktop
         \/ /\ Fault("set_cannot_run")
            /\ evdev' = [evdev EXCEPT !.setup = "err"]
            /\ UNCHANGED desktop
      /\ UNCHANGED <<task, marker>>

HooksSet ==
  /\ evdev.setup = "set" /\ evdev.todo = <<>>
  /\ evdev' = [evdev EXCEPT !.setup = "mark"]
  /\ UNCHANGED <<task, desktop, marker, bounds>>

(* A failed set script: the hooks before it are undone, best effort.       *)
Rollback ==
  /\ evdev.setup = "rollback"
  /\ IF evdev.undo # <<>> THEN UndoNext(evdev)
     ELSE /\ evdev' = [evdev EXCEPT !.setup = "err"]
          /\ UNCHANGED <<desktop, bounds>>
  /\ UNCHANGED <<task, marker>>

(* write_rollback_marker writes no file when nothing was applied.          *)
WriteMarker ==
  /\ evdev.setup = "mark"
  /\ \/ /\ marker' = IF evdev.applied = <<>> THEN marker ELSE evdev.applied
        /\ evdev' = [evdev EXCEPT !.setup = "ok"]
        /\ UNCHANGED bounds
     \/ /\ evdev.applied # <<>> /\ Fault("marker_fails")
        /\ evdev' = [evdev EXCEPT !.setup = "err"]
        /\ UNCHANGED marker
  /\ UNCHANGED <<task, desktop>>

-----------------------------------------------------------------------------
(* The evdev transport: the adapter's loop, the setup task and the cleanup.*)

StartedEvdev == [EvdevOff EXCEPT !.run = "running", !.setup = "set", !.todo = Hooks]

(* The adapter's loop ends by itself: Escape three times, no keyboard      *)
(* left, Ctrl-C.                                                           *)
EvdevEnds ==
  /\ evdev.run = "running" /\ Fault("transport_ends")
  /\ evdev' = [evdev EXCEPT !.run = "stopping"]
  /\ UNCHANGED <<task, desktop, marker>>

Faulty_SetupFails ==
  /\ evdev.run = "running" /\ evdev.setup = "err"
  /\ evdev' = [evdev EXCEPT !.run = "done", !.result = "err"]
  /\ UNCHANGED <<task, desktop, marker, bounds>>

(* A failed setup ends the transport at once, without a cleanup.           *)
SetupFails ==
  /\ evdev.run \in {"running", "stopping"} /\ evdev.setup = "err"
  /\ evdev' = [evdev EXCEPT !.run = "done", !.result = "err"]
  /\ UNCHANGED <<task, desktop, marker, bounds>>

Faulty_AwaitSetup ==
  /\ evdev.run = "stopping" /\ evdev.setup = "ok"
  /\ evdev' = [evdev EXCEPT !.run = "cleaning", !.undo = Reverse(evdev.applied)]
  /\ marker' = None
  /\ UNCHANGED <<task, desktop, bounds>>

(* The loop has ended: the setup is awaited before its hooks are undone.   *)
AwaitSetup ==
  /\ evdev.run = "stopping" /\ evdev.setup = "ok"
  /\ evdev' = [evdev EXCEPT !.run = "cleaning", !.undo = Reverse(evdev.applied)]
  /\ UNCHANGED <<task, desktop, marker, bounds>>

Cleanup ==
  /\ evdev.run = "cleaning" /\ evdev.undo # <<>>
  /\ UndoNext(evdev)
  /\ UNCHANGED <<task, marker>>

(* The marker goes only after a cleanup without failures.                  *)
Cleaned ==
  /\ evdev.run = "cleaning" /\ evdev.undo = <<>>
  /\ marker' = IF evdev.clean THEN None ELSE marker
  /\ evdev' = [evdev EXCEPT !.run = "done", !.result = IF evdev.clean THEN "ok" ELSE "err"]
  /\ UNCHANGED <<task, desktop, bounds>>

-----------------------------------------------------------------------------
(* Supervisor::run.                                                        *)

(* A failed send stores nothing, and sends fail once the only receiver is  *)
(* gone, which the tray task has.                                          *)
publish_backend(backend) ==
  published' = IF "tray" \in senders THEN backend ELSE published

(* The daemon stops.  The runtime waits for a setup task that still runs.  *)
Exit(why) ==
  /\ pc' = "exiting"
  /\ cause' = why
  /\ ibus' = IbusOff
  /\ pending_action' = None
  /\ UNCHANGED current

(* What happens once run_single has returned.                              *)
AfterRun(result) ==
  IF pending_action = "Quit" THEN Exit("quit")
  ELSE IF pending_action # None
  THEN /\ current' = pending_action /\ pending_action' = None
       /\ pc' = "outer" /\ ibus' = IbusOff
       /\ UNCHANGED cause
  ELSE IF current = "Evdev" /\ result = "err" /\ native_from_config # "Auto"
  THEN /\ current' = native_from_config
       /\ pc' = "outer" /\ ibus' = IbusOff
       /\ UNCHANGED <<pending_action, cause>>
  ELSE Exit(IF result = "ok" THEN "ended" ELSE "failed")

(* The process is started and finds, or does not find, a stale marker.     *)
Start ==
  /\ pc = "down" /\ starts < MaxStarts
  /\ starts' = starts + 1
  /\ config' \in Configs
  /\ pc' = "recovering"
  /\ evdev' = [EvdevOff EXCEPT !.undo = IF marker = None THEN <<>> ELSE Reverse(marker)]
  /\ enabled' = TRUE /\ published' = "Auto" /\ cause' = None
  /\ commands' = <<>> /\ senders' = {"ipc", "tray"}
  /\ UNCHANGED <<current, pending_action, ibus, desktop, marker, sent, faults, tainted>>

Faulty_Recover ==
  /\ pc = "recovering" /\ evdev.undo # <<>>
  /\ evdev' = [evdev EXCEPT !.undo = <<>>, !.clean = FALSE]
  /\ UNCHANGED <<task, desktop, marker, bounds>>

(* recover_stale_rollback.                                                 *)
Recover ==
  /\ pc = "recovering" /\ evdev.undo # <<>>
  /\ UndoNext(evdev)
  /\ UNCHANGED <<task, marker>>

Recovered ==
  /\ pc = "recovering" /\ evdev.undo = <<>>
  /\ marker' = IF evdev.clean THEN None ELSE marker
  /\ evdev' = EvdevOff
  /\ current' = startup_from_config
  /\ IF startup_from_config = "Auto"
     THEN /\ pc' = "exiting" /\ cause' = "failed"
          /\ UNCHANGED pending_action
     ELSE /\ pc' = "outer"
          /\ pending_action' = IF config.enable_evdev_grab /\ startup_from_config # "Evdev"
                               THEN "Evdev" ELSE None
          /\ UNCHANGED cause
  /\ UNCHANGED <<config, published, enabled, ibus, desktop, commands, senders, bounds>>

(* run_single for a native backend: a connection, or an error.             *)
Connect ==
  /\ pc = "outer" /\ current \in {"Wayland", "Ibus"}
  /\ \/ /\ pc' = IF current = "Ibus" THEN "ibus" ELSE "wayland"
        /\ ibus' = IF current = "Ibus" THEN [connected |-> TRUE, suspended |-> FALSE] ELSE IbusOff
        /\ publish_backend(current)
        /\ UNCHANGED <<current, pending_action, cause, bounds>>
     \/ /\ Fault("connect_fails")
        /\ AfterRun("err")
        /\ UNCHANGED published
  /\ UNCHANGED <<config, enabled, evdev, desktop, marker, commands, senders>>

(* run_evdev_loop up to its loop.                                          *)
StartEvdev ==
  /\ pc = "outer" /\ current = "Evdev"
  /\ \/ /\ pc' = "evdev"
        /\ evdev' = StartedEvdev
        /\ publish_backend("Evdev")
        /\ UNCHANGED <<current, pending_action, ibus, cause, bounds>>
     \/ /\ Fault("grab_fails")
        /\ AfterRun("err")
        /\ UNCHANGED <<evdev, published>>
  /\ UNCHANGED <<config, enabled, desktop, marker, commands, senders>>

-----------------------------------------------------------------------------
(* Commands.                                                               *)

Send ==
  /\ sent < MaxCommands /\ Running /\ senders # {}
  /\ sent' = sent + 1
  /\ \E command \in Requests : commands' = Append(commands, command)
  /\ UNCHANGED <<config, pc, current, pending_action, published, enabled, ibus, evdev, desktop,
                 marker, senders, cause, faults, starts, tainted>>

resolve_target(command) ==
  IF command = "evdev" \/ (command = "switch" /\ published # "Evdev") THEN "Evdev"
  ELSE native_from_config

Faulty_StaysPut(target) == target = published

(* A switch is refused when there is no such backend, and needless when it *)
(* is already active.                                                      *)
StaysPut(target) == target \in {"Auto", published}

(* The preflight of the evdev backend, too, may refuse a switch.           *)
handle_cmd(command) ==
  LET target == resolve_target(command)
  IN  \/ /\ command \in {"toggle", "enable", "disable"}
         /\ enabled' = CASE command = "toggle" -> ~enabled
                         [] command = "enable" -> TRUE
                         [] command = "disable" -> FALSE
         /\ UNCHANGED <<pending_action, bounds>>
      \/ /\ command = "status"
         /\ UNCHANGED <<enabled, pending_action, bounds>>
      \/ /\ command = "quit"
         /\ pending_action' = "Quit"
         /\ UNCHANGED <<enabled, bounds>>
      \/ /\ command \in {"native", "evdev", "switch"}
         /\ \/ /\ pending_action' = IF StaysPut(target) THEN pending_action ELSE target
               /\ UNCHANGED bounds
            \/ /\ target = "Evdev" /\ ~StaysPut(target) /\ Fault("grab_fails")
               /\ UNCHANGED pending_action
         /\ UNCHANGED enabled

(* Every loop looks at the pending action before it takes a command.       *)
Receive ==
  /\ Serving /\ pending_action = None /\ commands # <<>>
  /\ handle_cmd(Head(commands))
  /\ commands' = Tail(commands)
  /\ UNCHANGED <<config, pc, current, published, ibus, evdev, desktop, marker, senders, cause>>

-----------------------------------------------------------------------------
(* The loops.                                                              *)

loop == <<config, enabled, desktop, marker, commands, senders>>

(* run_wayland_loop with a pending action: the transport is shut down and  *)
(* the outer loop decides.                                                 *)
LeaveWayland ==
  /\ pc = "wayland" /\ pending_action # None
  /\ AfterRun("ok")
  /\ UNCHANGED <<loop, published, evdev, bounds>>

(* The compositor takes the input method away, or the connection breaks,   *)
(* which run_ibus_loop only logs.                                          *)
NativeEnds ==
  /\ pc \in {"wayland", "ibus"} /\ pending_action = None /\ Fault("transport_ends")
  /\ \E result \in {"ok", "err"} : AfterRun(IF pc = "ibus" THEN "ok" ELSE result)
  /\ UNCHANGED <<loop, published, evdev>>

(* run_ibus_loop: evdev is layered over the live connection ...            *)
Faulty_EnterSlot ==
  /\ pc = "ibus" /\ pending_action = "Evdev"
  /\ pending_action' = None
  /\ pc' = "slot" /\ evdev' = StartedEvdev /\ publish_backend("Evdev")
  /\ UNCHANGED <<loop, current, ibus, cause, bounds>>

EnterSlot ==
  /\ pc = "ibus" /\ pending_action = "Evdev"
  /\ pending_action' = None
  /\ \/ /\ pc' = "slot"
        /\ evdev' = StartedEvdev
        /\ ibus' = [ibus EXCEPT !.suspended = TRUE]
        /\ publish_backend("Evdev")
        /\ UNCHANGED bounds
     \/ /\ Fault("grab_fails")
        /\ publish_backend("Ibus")
        /\ UNCHANGED <<pc, evdev, ibus>>
  /\ UNCHANGED <<loop, current, cause>>

(* ... and any other action drops the connection.                          *)
LeaveIbus ==
  /\ pc = "ibus" /\ pending_action \notin {None, "Evdev"}
  /\ AfterRun("ok")
  /\ UNCHANGED <<loop, published, evdev, bounds>>

(* A pending action shuts the evdev transport down; its end is awaited.    *)
StopEvdev ==
  /\ pc \in {"slot", "evdev"} /\ pending_action # None /\ evdev.run = "running"
  /\ evdev' = [evdev EXCEPT !.run = "stopping"]
  /\ UNCHANGED <<task, desktop, marker, bounds>>

(* run_evdev_in_ibus_slot has returned: the connection resumes, unless     *)
(* another backend or quit is wanted.                                      *)
Faulty_LeaveSlot ==
  /\ pc = "slot" /\ evdev.run = "done"
  /\ evdev' = EvdevOff
  /\ pending_action \in {None, "Ibus"}
  /\ pending_action' = None
  /\ pc' = "ibus"
  /\ ibus' = [ibus EXCEPT !.suspended = FALSE]
  /\ UNCHANGED <<loop, published, current, cause, bounds>>

LeaveSlot ==
  /\ pc = "slot" /\ evdev.run = "done"
  /\ evdev' = EvdevOff
  /\ IF pending_action \in {None, "Ibus"}
     THEN /\ pending_action' = None
          /\ pc' = "ibus"
          /\ ibus' = [ibus EXCEPT !.suspended = FALSE]
          /\ publish_backend("Ibus")
          /\ UNCHANGED <<current, cause>>
     ELSE /\ AfterRun("ok")
          /\ UNCHANGED published
  /\ UNCHANGED <<loop, bounds>>

(* run_evdev_loop returns the transport's result, or Ok for a switch.      *)
LeaveEvdev ==
  /\ pc = "evdev" /\ evdev.run = "done"
  /\ evdev' = EvdevOff
  /\ AfterRun(IF pending_action # None THEN "ok" ELSE evdev.result)
  /\ UNCHANGED <<loop, published, bounds>>

-----------------------------------------------------------------------------
(* Ends.                                                                   *)

(* The IPC server or the tray gives up.                                    *)
ControlEnds ==
  /\ Running /\ Fault("control_ends")
  /\ \E sender \in senders : senders' = senders \ {sender}
  /\ UNCHANGED <<config, pc, current, pending_action, published, enabled, ibus, evdev, desktop,
                 marker, commands, cause>>

(* The channel is closed and drained: the loop breaks, which drops the     *)
(* transport but neither the setup nor the cleanup that it has spawned.    *)
ChannelCloses ==
  /\ Serving /\ pending_action = None /\ senders = {} /\ commands = <<>>
  /\ Exit("no_control")
  /\ evdev' = IF evdev.run = "cleaning" THEN evdev ELSE [evdev EXCEPT !.run = "off"]
  /\ UNCHANGED <<loop, published, bounds>>

(* The process ends once the blocking thread is done.                      *)
Gone ==
  /\ pc = "exiting" /\ evdev.setup \in {"off", "ok", "err"} /\ evdev.run # "cleaning"
  /\ pc' = "down"
  /\ evdev' = EvdevOff
  /\ UNCHANGED <<config, current, pending_action, published, enabled, ibus, desktop, marker,
                 commands, senders, cause, bounds>>

(* SIGKILL, SIGTERM or power loss.                                         *)
Kill ==
  /\ pc # "down"
  /\ Fault(IF evdev.setup \in {"set", "mark", "rollback"} THEN "killed_in_setup" ELSE "killed")
  /\ pc' = "down" /\ cause' = "killed"
  /\ evdev' = EvdevOff /\ ibus' = IbusOff /\ pending_action' = None
  /\ UNCHANGED <<config, current, published, enabled, desktop, marker, commands, senders>>

-----------------------------------------------------------------------------

Init ==
  /\ config \in Configs
  /\ pc = "down" /\ current = "Auto" /\ pending_action = None
  /\ published = "Auto" /\ enabled = TRUE
  /\ ibus = IbusOff /\ evdev = EvdevOff
  /\ desktop = {} /\ marker = None
  /\ commands = <<>> /\ senders = {} /\ cause = None
  /\ sent = 0 /\ faults = 0 /\ starts = 0 /\ tainted = FALSE

Setup == SetHook \/ HooksSet \/ Rollback \/ WriteMarker
Transport == SetupFails \/ AwaitSetup \/ Cleanup \/ Cleaned
Loops == LeaveWayland \/ EnterSlot \/ LeaveIbus \/ StopEvdev \/ LeaveSlot \/ LeaveEvdev
Daemon == Recover \/ Recovered \/ Connect \/ StartEvdev \/ Receive \/ ChannelCloses \/ Gone

Next ==
  \/ Setup \/ Transport \/ Loops \/ Daemon
  \/ Start \/ Send \/ EvdevEnds \/ NativeEnds \/ ControlEnds \/ Kill

Spec == Init /\ [][Next]_vars

(* Scripts end, and the supervisor task and the transport are scheduled.   *)
FairSpec ==
  Spec /\ WF_vars(Setup) /\ WF_vars(Transport) /\ WF_vars(Loops) /\ WF_vars(Daemon)

-----------------------------------------------------------------------------

TypeOK ==
  /\ config \in Configs
  /\ pc \in {"down", "recovering", "outer", "wayland", "ibus", "slot", "evdev", "exiting"}
  /\ current \in Backend /\ pending_action \in {None, "Quit", "Ibus", "Wayland", "Evdev"}
  /\ published \in Backend /\ enabled \in BOOLEAN
  /\ ibus \in [connected : BOOLEAN, suspended : BOOLEAN]
  /\ evdev \in Evdev
  /\ desktop \subseteq Hook /\ marker \in Seq(Hook) \cup {None}
  /\ commands \in Seq(Command) /\ senders \subseteq {"ipc", "tray"}
  /\ cause \in {None, "quit", "ended", "failed", "no_control", "killed"}
  /\ sent \in Nat /\ faults \in Nat /\ starts \in Nat /\ tainted \in BOOLEAN

(* The live IBus engine composes exactly while no evdev grab is layered    *)
(* over it: one keystroke is never composed twice, and after the grab the  *)
(* engine does not stay silent.                                            *)
IbusComposesAlone ==
  /\ ibus.connected => (ibus.suspended <=> pc = "slot")
  /\ evdev.run = "running" => pc \in {"slot", "evdev"} /\ (ibus.connected => ibus.suspended)

RunningBackend ==
  CASE pc = "wayland" -> "Wayland" [] pc = "ibus" -> "Ibus" [] pc \in {"slot", "evdev"} -> "Evdev"

(* While commands are served and the tray task lives, the backend that is  *)
(* shown is the one that runs, so that a switch to the active backend is   *)
(* the only no-op: through every switch, layering, failure and fallback,   *)
(* none of which leaves an earlier announcement latched (supervisor.rs     *)
(* publish_backend and its callers).                                       *)
PublishedRuns == Serving /\ "tray" \in senders => published = RunningBackend

(* No keymap hook of the evdev backend is in effect while a native backend *)
(* serves, however the switch, the setup, the daemon or an earlier daemon  *)
(* ended, short of a fault in Unrecovered.                                 *)
HooksUndone == ~tainted /\ pc \in {"wayland", "ibus"} => desktop = {}

(* Every hook in effect is known to a task that will undo it, or is in the *)
(* marker from which the next start undoes it, short of such a fault.      *)
HooksAccounted ==
  ~tainted => desktop \subseteq Range(evdev.applied) \cup Range(evdev.undo)
                                \cup (IF marker = None THEN {} ELSE Range(marker))

(* Every command is taken, or the daemon stops: no switch, setup or        *)
(* cleanup leaves the supervisor waiting for ever.                         *)
CommandsTaken == commands # <<>> ~> (commands = <<>> \/ ~Running)

(* A running native backend is given up only for an evdev backend that     *)
(* starts: once run_wayland_loop has shut its connection down for evdev,   *)
(* run_evdev_loop does not fail before its grab.                           *)
KeptUntilReplaced ==
  [][pc = "outer" /\ current = "Evdev" /\ published = "Wayland" =>
       current' = "Evdev" /\ cause' # "failed"]_vars

=============================================================================
