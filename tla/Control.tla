------------------------------- MODULE Control -------------------------------
(***************************************************************************)
(* The control plane of the daemon: the Unix socket and its connections    *)
(* (daemon/src/ipc.rs), the bounded command channel and the watch channels *)
(* (control.rs), the tray with its mirror of the daemon's state and its    *)
(* saved settings (tray.rs), start-up and shutdown of these tasks          *)
(* (main.rs), and the supervisor as they see it (transport/supervisor.rs): *)
(* it takes commands while a backend runs, and makes a Daemon for each     *)
(* backend it enters.  The Supervisor module has what a switch is made of. *)
(*                                                                         *)
(* Every connection, the accept loop, the tray and the supervisor are      *)
(* tasks of their own; a step of one comes between any two of another.     *)
(***************************************************************************)
EXTENDS ConfigFile, Sequences, SequencesExt, Naturals

CONSTANTS
  None,
  Requests,   \* one connection each
  Foreign,    \* those of another user
  Capacity,   \* slots of the command channel: 32 in the code
  UserFiles,  \* what users put at the path of the configuration file
  Scenarios   \* the worlds of the behaviours

Commands == {"toggle", "enable", "disable", "status", "quit", "backend",
             "use native", "use evdev", "switch"}

(* A line that parse_ipc_command or read_ipc_line rejects; and a client    *)
(* that keeps its connection open without ever ending its line.            *)
BadLines == {"bad", "open"}

Lines == Commands \cup BadLines

BudgetKinds == {"asks", "clicks", "faults", "edits", "starts"}

(* The file at first, the settings that DAKLAK_* variables override,       *)
(* whether the daemon is started with --ibus and whether there is a        *)
(* session bus, the lines that requests say, the entries of the tray that  *)
(* are clicked, and how many environment steps of each kind happen.        *)
IsScenario(s) ==
  /\ IsFile(s.file) /\ SomeSettings(s.env)
  /\ s.ibus \in BOOLEAN /\ s.bus \in BOOLEAN
  /\ s.lines \subseteq Lines /\ s.menu \subseteq Keys \cup {"on/off", "quit"}
  /\ s.budget \in [BudgetKinds -> Nat]

ASSUME ControlAssumption ==
  /\ Foreign \subseteq Requests /\ "tray" \notin Requests
  /\ Capacity \in Nat \ {0}
  /\ \A f \in UserFiles : IsFile(f)
  /\ \A s \in Scenarios : IsScenario(s)

VARIABLES
  world,          \* what is around the daemon: see Scenarios
  file,           \* the configuration file
  config,         \* the settings this run was started with
  supervisor,     \* the supervisor task
  daemons,        \* the Daemon of each backend, or None
  config_change,  \* the latest ConfigChange that was sent, or None
  queue,          \* the command channel
  server,         \* the accept loop of the socket
  request,        \* for each connection where it is
  tray,           \* the tray task and its icon
  wish,           \* what the user has asked of the settings (history)
  budget

vars == <<world, file, config, supervisor, daemons, config_change, queue, server, request,
          tray, wish, budget>>

Spend(kind) == budget[kind] > 0 /\ budget' = [budget EXCEPT ![kind] = @ - 1]

OnOff(b) == IF b THEN "on" ELSE "off"

(* The part of the settings that a ConfigChange brings to a Daemon.        *)
RuntimeKeys == {"method", "modern_style"}
RuntimeSettings == [method : Methods, modern_style : BOOLEAN]
Runtime(settings) == Restrict(settings, RuntimeKeys)

Up == supervisor.at # "off"
Latest == IF config_change = None THEN Runtime(config) ELSE config_change

-----------------------------------------------------------------------------
(* Connections.                                                            *)

(* `asking': about to connect; `connected': in the listen backlog; then    *)
(* where handle_connection is.  `gone': the client has closed its end.     *)
Places == {"asking", "connected", "reading", "sending", "waiting", "answered", "lost"}
Replies == {"on", "off", "auto", "native", "evdev", "ok", "err"}
Request == [line : Lines, gone : BOOLEAN, at : Places, reply : Replies \cup {"", "dropped"}]

(* None is an Option's None: no request, no state shown, no change.        *)
ASSUME NoneAssumption ==
  None \notin Request /\ None \notin BOOLEAN /\ None \notin RuntimeSettings

At(r, states) == request[r] # None /\ request[r].at \in states

Accepted == {r \in Requests : At(r, {"reading", "sending", "waiting"})}
Pending == {r \in Requests : At(r, {"connected"})} \cup Accepted

(* The request's answer is written: nobody reads it if the client is gone. *)
Answered(q, reply) ==
  IF q.gone THEN [q EXCEPT !.at = "lost", !.reply = ""]
  ELSE [q EXCEPT !.at = "answered", !.reply = reply]

LoseAll(some) ==
  [r \in Requests |-> IF r \in some THEN [request[r] EXCEPT !.at = "lost", !.reply = ""]
                      ELSE request[r]]

elsewhere == <<world, file, config, daemons, config_change, tray, wish>>

(* A program wants to send a line.                                         *)
Ask(r) ==
  /\ request[r] = None /\ Spend("asks")
  /\ \E line \in world.lines :
       request' = [request EXCEPT ![r] = [line |-> line, gone |-> FALSE, at |-> "asking", reply |-> ""]]
  /\ UNCHANGED <<elsewhere, supervisor, queue, server>>

(* Without a listener the connect fails, which ipc_send reports.           *)
Connect(r) ==
  /\ At(r, {"asking"})
  /\ request' = [request EXCEPT ![r] =
                   IF server.at = "off" THEN [@ EXCEPT !.at = "answered", !.reply = "err"]
                   ELSE [@ EXCEPT !.at = "connected"]]
  /\ UNCHANGED <<elsewhere, supervisor, queue, server, budget>>

HangUp(r) ==
  /\ r \in Pending /\ ~request[r].gone /\ Spend("faults")
  /\ request' = [request EXCEPT ![r].gone = TRUE]
  /\ UNCHANGED <<elsewhere, supervisor, queue, server>>

(* read_ipc_line and parse_ipc_command.                                    *)
ReadLine(r) ==
  /\ At(r, {"reading"})
  /\ request[r].line = "open" => request[r].gone
  /\ request' = [request EXCEPT ![r] = IF @.line \in BadLines THEN Answered(@, "err")
                                       ELSE [@ EXCEPT !.at = "sending"]]
  /\ UNCHANGED <<elsewhere, supervisor, queue, server, budget>>

ChannelOpen == supervisor.at \in {"entering", "serving"}

(* cmd_tx.send: waits for a slot, and fails once the receiver is dropped.  *)
SendCommand(r) ==
  /\ At(r, {"sending"})
  /\ IF ChannelOpen
     THEN /\ Len(queue) < Capacity
          /\ queue' = Append(queue, [line |-> request[r].line, by |-> r, shown |-> None])
          /\ request' = [request EXCEPT ![r].at = "waiting"]
     ELSE /\ request' = [request EXCEPT ![r] = Answered(@, "err")]
          /\ UNCHANGED queue
  /\ UNCHANGED <<elsewhere, supervisor, server, budget>>

WriteReply(r) ==
  /\ At(r, {"waiting"}) /\ request[r].reply # ""
  /\ request' = [request EXCEPT ![r] = Answered(@, IF @.reply = "dropped" THEN "err" ELSE @.reply)]
  /\ UNCHANGED <<elsewhere, supervisor, queue, server, budget>>

-----------------------------------------------------------------------------
(* The accept loop.                                                        *)

ServerOff == [at |-> "off", failures |-> 0]

(* A connection of another user is closed without an answer.               *)
Accept(r) ==
  /\ server.at = "listening" /\ At(r, {"connected"})
  /\ IF r \in Foreign
     THEN request' = LoseAll({r}) /\ UNCHANGED server
     ELSE /\ request' = [request EXCEPT ![r].at = "reading"]
          /\ server' = [server EXCEPT !.failures = 0]
  /\ UNCHANGED <<elsewhere, supervisor, queue, budget>>

Faulty_AcceptFails ==
  /\ server.at = "listening" /\ Spend("faults")
  /\ IF server.failures = 2
     THEN server' = ServerOff /\ request' = LoseAll(Accepted)
     ELSE /\ server' = [server EXCEPT !.at = "delay", !.failures = @ + 1]
          /\ UNCHANGED request
  /\ UNCHANGED <<elsewhere, supervisor, queue>>

(* After the third failure in a row the loop ends, its connections are     *)
(* aborted and the socket is closed and removed.                           *)
AcceptFails ==
  /\ server.at = "listening" /\ Spend("faults")
  /\ IF server.failures = 2
     THEN server' = ServerOff /\ request' = LoseAll(Pending)
     ELSE /\ server' = [server EXCEPT !.at = "delay", !.failures = @ + 1]
          /\ UNCHANGED request
  /\ UNCHANGED <<elsewhere, supervisor, queue>>

DelayOver ==
  /\ server.at = "delay"
  /\ server' = [server EXCEPT !.at = "listening"]
  /\ UNCHANGED <<elsewhere, supervisor, queue, request, budget>>

-----------------------------------------------------------------------------
(* The supervisor.                                                         *)

(* at: `entering' a backend, or `serving' commands while it runs; `ended'  *)
(* when Supervisor::run has returned, before the tasks are aborted.        *)
Supervisor ==
  [at : {"off", "entering", "serving", "ended"}, on : BOOLEAN, current : {"native", "evdev"},
   published : {"auto", "native", "evdev"}, pending : {None, "native", "evdev", "quit"}]

Off == [at |-> "off", on |-> TRUE, current |-> "native", published |-> "auto", pending |-> None]

Faulty_NewDaemon == [using |-> Runtime(config), unseen |-> FALSE]

(* Daemon::new: the start-up settings, and a clone of a receiver that has  *)
(* never been read, to which any change ever sent is new.                  *)
NewDaemon == [using |-> Runtime(config), unseen |-> config_change # None]

(* The receiver goes, and with it the commands and their reply senders.    *)
CloseChannel ==
  /\ queue' = <<>>
  /\ request' = [r \in Requests |->
                   IF At(r, {"waiting"}) /\ request[r].reply = ""
                   THEN [request[r] EXCEPT !.reply = "dropped"] ELSE request[r]]

settings == <<world, file, config, config_change, wish>>
socket == <<queue, request>>

Ends ==
  /\ supervisor' = [supervisor EXCEPT !.at = "ended", !.pending = None]
  /\ daemons' = [b \in DOMAIN daemons |-> None]
  /\ CloseChannel

(* IBus stays connected, with its Daemon, below an evdev backend that is   *)
(* layered over it, and after it.                                          *)
GoTo(backend) ==
  /\ supervisor' = [supervisor EXCEPT !.at = "entering", !.current = backend, !.pending = None]
  /\ daemons' = [b \in DOMAIN daemons |->
                   IF world.ibus /\ b = "native" /\ backend # supervisor.current
                   THEN daemons[b] ELSE None]
  /\ UNCHANGED socket

(* A watch channel without a receiver stores nothing, and the only one of  *)
(* the backend is the tray's: once the tray has ended, what was published  *)
(* last stays.                                                             *)
publish_backend(b) ==
  LET observed == tray.at # "off"
  IN  /\ supervisor' = [supervisor EXCEPT !.at = "serving",
                           !.published = IF observed THEN b ELSE @]
      /\ tray' = [tray EXCEPT !.backend_unseen = @ \/ observed]

(* The backend is made and published.  A failure of it gives way to the    *)
(* evdev backend that is to be layered over IBus at start-up; without one, *)
(* evdev falls back to the native backend and the native one ends the      *)
(* daemon.                                                                 *)
EnterBackend ==
  /\ supervisor.at = "entering"
  /\ LET b == supervisor.current
     IN  \/ /\ publish_backend(b)
            /\ daemons' = [daemons EXCEPT ![b] = IF @ = None THEN NewDaemon ELSE @]
            /\ UNCHANGED <<socket, budget>>
         \/ /\ Spend("faults")
            /\ IF supervisor.pending # None THEN GoTo(supervisor.pending)
               ELSE IF b = "evdev" THEN GoTo("native") ELSE Ends
            /\ UNCHANGED tray
  /\ UNCHANGED <<settings, server>>

LeaveBackend ==
  /\ supervisor.at = "serving" /\ supervisor.pending # None
  /\ IF supervisor.pending = "quit" THEN Ends ELSE GoTo(supervisor.pending)
  /\ UNCHANGED <<settings, server, tray, budget>>

(* A native transport that ends takes the daemon with it, and so does a    *)
(* plain evdev one unless it failed; below a layered one IBus goes on.     *)
TransportEnds ==
  /\ supervisor.at = "serving" /\ supervisor.pending = None /\ Spend("faults")
  /\ \/ supervisor.current = "evdev" /\ GoTo("native")
     \/ (supervisor.current = "evdev" => daemons["native"] = None) /\ Ends
  /\ UNCHANGED <<settings, server, tray>>

(* Neither the socket nor the tray can send a command any more.            *)
ChannelCloses ==
  /\ supervisor.at = "serving" /\ supervisor.pending = None
  /\ queue = <<>> /\ server.at = "off" /\ tray.at = "off"
  /\ Ends
  /\ UNCHANGED <<settings, server, tray, budget>>

resolve_target(line) ==
  CASE line = "use native" -> "native"
    [] line = "use evdev" -> "evdev"
    [] line = "switch" -> IF supervisor.published = "evdev" THEN "native" ELSE "evdev"

SetsOnOff == {"toggle", "enable", "disable"}

Faulty_handle_cmd(line, reply) ==
  /\ line \in SetsOnOff \cup {"status"}
  /\ LET on == CASE line = "toggle" -> ~supervisor.on [] line = "enable" -> TRUE
                 [] line = "disable" -> FALSE [] OTHER -> supervisor.on
     IN  /\ supervisor' = [supervisor EXCEPT !.on = on]
         /\ reply = OnOff(supervisor.on)
  /\ tray' = [tray EXCEPT !.state_unseen = @ \/ line \in SetsOnOff]

(* What a command does, and the reply to it.  A switch to evdev may be     *)
(* refused by the preflight check.                                         *)
handle_cmd(line, reply) ==
  \/ /\ line \in SetsOnOff
     /\ LET on == CASE line = "toggle" -> ~supervisor.on
                    [] line = "enable" -> TRUE
                    [] line = "disable" -> FALSE
        IN  supervisor' = [supervisor EXCEPT !.on = on] /\ reply = OnOff(on)
     /\ tray' = [tray EXCEPT !.state_unseen = TRUE]
  \/ /\ line = "status" /\ reply = OnOff(supervisor.on)
     /\ UNCHANGED <<supervisor, tray>>
  \/ /\ line = "backend" /\ reply = supervisor.published
     /\ UNCHANGED <<supervisor, tray>>
  \/ /\ line = "quit" /\ reply = OnOff(supervisor.on)
     /\ supervisor' = [supervisor EXCEPT !.pending = "quit"]
     /\ UNCHANGED tray
  \/ /\ line \in {"use native", "use evdev", "switch"}
     /\ LET target == resolve_target(line)
        IN  \/ /\ reply = "ok"
               /\ supervisor' = [supervisor EXCEPT !.pending =
                                   IF target = supervisor.published THEN None ELSE target]
            \/ /\ reply = "err" /\ target = "evdev" /\ target # supervisor.published
               /\ UNCHANGED supervisor
     /\ UNCHANGED tray

(* A command is taken and served, and its reply sent to the connection;    *)
(* the tray has dropped its end.                                           *)
TakeCommand ==
  /\ supervisor.at = "serving" /\ supervisor.pending = None /\ queue # <<>>
  /\ LET command == Head(queue)
     IN  \E reply \in Replies :
           /\ handle_cmd(command.line, reply)
           /\ request' = [r \in Requests |->
                            IF r = command.by /\ At(r, {"waiting"})
                            THEN [request[r] EXCEPT !.reply = reply] ELSE request[r]]
  /\ queue' = Tail(queue)
  /\ UNCHANGED <<settings, daemons, server, budget>>

(* sync_config: a Daemon polls for a change at the top of its next key.    *)
SyncConfig(b) ==
  /\ supervisor.at = "serving" /\ daemons[b] # None /\ daemons[b].unseen
  /\ daemons' = [daemons EXCEPT ![b] = [using |-> config_change, unseen |-> FALSE]]
  /\ UNCHANGED <<settings, supervisor, socket, server, tray, budget>>

-----------------------------------------------------------------------------
(* The tray: its mirror of on/off and the backend, whether the watch       *)
(* channels hold something new for it, and the settings it shows.          *)

IsTray(t) ==
  /\ t.at \in {"off", "starting", "spawning", "watching", "appeared", "respawning", "up"}
  /\ t.on \in BOOLEAN /\ t.state_unseen \in BOOLEAN /\ t.backend_unseen \in BOOLEAN
  /\ t.backend \in {"auto", "native", "evdev"} /\ IsSettings(t.settings)

TrayOff ==
  [at |-> "off", on |-> TRUE, state_unseen |-> FALSE, backend |-> "auto",
   backend_unseen |-> FALSE, settings |-> Defaults]

abroad == <<world, config, supervisor, daemons, server, request>>

Faulty_MakeTray ==
  /\ tray.at \in {"starting", "appeared"}
  /\ tray' = [tray EXCEPT !.at = IF @ = "starting" THEN "spawning" ELSE "respawning",
                          !.on = TRUE, !.state_unseen = FALSE,
                          !.backend = supervisor.published, !.settings = config]
  /\ UNCHANGED <<abroad, file, config_change, queue, wish, budget>>

(* make_tray, for the first attempt and again once a watcher has appeared: *)
(* it marks the on/off state as seen, not the backend.                     *)
MakeTray ==
  /\ tray.at \in {"starting", "appeared"}
  /\ tray' = [tray EXCEPT !.at = IF @ = "starting" THEN "spawning" ELSE "respawning",
                          !.on = supervisor.on, !.state_unseen = FALSE,
                          !.backend = supervisor.published, !.settings = config]
  /\ UNCHANGED <<abroad, file, config_change, queue, wish, budget>>

(* The icon is registered, or the tray waits for the desktop's watcher     *)
(* service; without one within 30 s, without a session bus, or if it fails *)
(* again, it ends, and with it its receivers.                              *)
SpawnTray ==
  /\ \/ /\ tray.at \in {"spawning", "respawning"} /\ world.bus
        /\ tray' = [tray EXCEPT !.at = "up"]
        /\ UNCHANGED budget
     \/ /\ tray.at \in {"spawning", "respawning"}
        /\ IF world.bus THEN Spend("faults") ELSE UNCHANGED budget
        /\ tray' = [tray EXCEPT !.at = IF @ = "spawning" THEN "watching" ELSE "off"]
     \/ /\ tray.at = "watching"
        /\ \E next \in {"appeared", "off"} :
             (next = "appeared" => world.bus) /\ tray' = [tray EXCEPT !.at = next]
        /\ UNCHANGED budget
  /\ UNCHANGED <<abroad, file, config_change, queue, wish>>

(* The loop of run_tray; the on/off state goes first.                      *)
UpdateTray ==
  /\ tray.at = "up"
  /\ \/ /\ tray.state_unseen
        /\ tray' = [tray EXCEPT !.on = supervisor.on, !.state_unseen = FALSE]
     \/ /\ ~tray.state_unseen /\ tray.backend_unseen
        /\ tray' = [tray EXCEPT !.backend = supervisor.published, !.backend_unseen = FALSE]
  /\ UNCHANGED <<abroad, file, config_change, queue, wish, budget>>

Faulty_fire(line, shown) ==
  queue' = IF ChannelOpen THEN Append(queue, [line |-> line, by |-> "tray", shown |-> shown])
           ELSE queue

(* fire: a command that finds no slot, or no receiver, is dropped.         *)
fire(line, shown) ==
  queue' = IF ChannelOpen /\ Len(queue) < Capacity
           THEN Append(queue, [line |-> line, by |-> "tray", shown |-> shown])
           ELSE queue

Clicks(entry) == tray.at = "up" /\ entry \in world.menu /\ Spend("clicks")

Faulty_ClickOnOff ==
  /\ Clicks("on/off") /\ fire("toggle", ~tray.on)
  /\ UNCHANGED <<abroad, file, config_change, tray, wish>>

(* The On/Off entry, and a left click on the icon: what to do is decided   *)
(* by the mirror, not by the state the command will find.                  *)
ClickOnOff ==
  /\ Clicks("on/off") /\ fire(IF tray.on THEN "disable" ELSE "enable", ~tray.on)
  /\ UNCHANGED <<abroad, file, config_change, tray, wish>>

ClickQuit ==
  /\ Clicks("quit") /\ fire("quit", None)
  /\ UNCHANGED <<abroad, file, config_change, tray, wish>>

NoWish == [keys |-> [k \in Keys |-> None], other |-> None]

(* save_current_config writes all the settings that the tray shows.  It    *)
(* may fail to read or write the file.                                     *)
Save(key, new) ==
  \/ /\ file' = save_config(file, new)
     /\ wish' = [wish EXCEPT !.keys[key] = new[key]]
     /\ budget' = [budget EXCEPT !["clicks"] = @ - 1]
  \/ /\ budget["faults"] > 0
     /\ wish' = [wish EXCEPT !.keys[key] = None]
     /\ budget' = [budget EXCEPT !["clicks"] = @ - 1, !["faults"] = @ - 1]
     /\ UNCHANGED file

(* A choice in the menu: it is sent to the Daemons if they can apply it at *)
(* run time, saved, and for the evdev entry sent as a command too.         *)
ClickSetting(key) ==
  LET old == tray.settings[key]
      Choose(value) ==
        LET new == [tray.settings EXCEPT ![key] = value]
        IN  /\ tray' = [tray EXCEPT !.settings = new]
            /\ IF key \in RuntimeKeys
               THEN /\ config_change' = Runtime(new)
                    /\ daemons' = [b \in DOMAIN daemons |->
                         IF daemons[b] = None THEN None ELSE [daemons[b] EXCEPT !.unseen = TRUE]]
               ELSE UNCHANGED <<config_change, daemons>>
            /\ Save(key, new)
            /\ IF key = "enable_evdev_grab"
               THEN fire(IF value THEN "use evdev" ELSE "use native", None)
               ELSE UNCHANGED queue
  IN  /\ tray.at = "up" /\ key \in world.menu /\ budget["clicks"] > 0
      /\ CASE key = "method" -> \E m \in Methods : Choose(m)
           [] key \in {"modern_style", "enable_evdev_grab"} -> Choose(~old)
           [] key = "evdev_grab_hooks" ->
                \E hook \in Hooks : Choose(IF hook \in old THEN old \ {hook} ELSE old \cup {hook})
      /\ UNCHANGED <<world, config, supervisor, server, request>>

-----------------------------------------------------------------------------
(* The process, and the user's own edits of the file.                      *)

(* main and run_services: a file that does not parse stops the daemon; a   *)
(* socket that cannot be bound does not.  Over IBus, the evdev backend is  *)
(* the pending action from the start.                                      *)
Start ==
  /\ supervisor.at = "off" /\ budget["starts"] > 0 /\ Loads(file)
  /\ config' = load_from(file, world.env)
  /\ supervisor' = [Off EXCEPT !.at = "entering",
                      !.current = IF config'["enable_evdev_grab"] /\ ~world.ibus THEN "evdev" ELSE "native",
                      !.pending = IF config'["enable_evdev_grab"] /\ world.ibus THEN "evdev" ELSE None]
  /\ tray' = [TrayOff EXCEPT !.at = "starting", !.settings = config']
  /\ \/ /\ server' = [at |-> "listening", failures |-> 0]
        /\ budget' = [budget EXCEPT !["starts"] = @ - 1]
     \/ /\ budget["faults"] > 0
        /\ server' = ServerOff
        /\ budget' = [budget EXCEPT !["starts"] = @ - 1, !["faults"] = @ - 1]
  /\ UNCHANGED <<world, file, daemons, config_change, queue, request, wish>>

Down ==
  /\ supervisor' = [Off EXCEPT !.on = supervisor.on]
  /\ daemons' = [b \in DOMAIN daemons |-> None]
  /\ config_change' = None
  /\ queue' = <<>>
  /\ server' = ServerOff
  /\ request' = LoseAll(Pending)
  /\ tray' = TrayOff

(* The supervisor has ended: the other tasks are aborted wherever they     *)
(* are, the socket is removed and the process exits.                       *)
Exit ==
  /\ supervisor.at = "ended"
  /\ Down
  /\ UNCHANGED <<world, file, config, wish, budget>>

(* The process is killed, perhaps while the tray writes the file: the      *)
(* write truncates the file before it fills it.                            *)
Kill ==
  /\ Up /\ Spend("faults")
  /\ \/ UNCHANGED <<file, wish>>
     \/ /\ tray.at = "up" /\ budget["clicks"] > 0
        /\ \E kind \in {"empty", "broken"} : file' = NoToml(kind)
        /\ wish' = NoWish
  /\ Down
  /\ UNCHANGED <<world, config>>

(* What the user may expect of a file they wrote: while the daemon runs it *)
(* does not learn of it, so a save puts the tray's own settings in.  A     *)
(* file with a tight key, or no TOML, is replaced.                         *)
WishOf(f) ==
  IF ~Loads(f) THEN NoWish
  ELSE [keys |-> [k \in Keys |-> IF Up /\ load_file(f)[k] # tray.settings[k] THEN None
                             ELSE load_file(f)[k]],
        other |-> IF f.kind = "toml" /\ f.tight = {} THEN f.other ELSE None]

EditFile ==
  /\ Spend("edits")
  /\ \E f \in UserFiles : file' = f /\ wish' = WishOf(f)
  /\ UNCHANGED <<abroad, tray, config_change, queue>>

-----------------------------------------------------------------------------

Init ==
  /\ \E s \in Scenarios :
       world = s /\ file = s.file /\ budget = s.budget
  /\ config = Defaults
  /\ supervisor = Off
  /\ daemons = [b \in {"native", "evdev"} |-> None]
  /\ config_change = None
  /\ queue = <<>>
  /\ server = ServerOff
  /\ request = [r \in Requests |-> None]
  /\ tray = TrayOff
  /\ wish = WishOf(file)

Connection(r) ==
  \/ Connect(r) \/ Accept(r) \/ ReadLine(r) \/ SendCommand(r) \/ WriteReply(r)

Next ==
  \/ \E r \in Requests : Ask(r) \/ HangUp(r) \/ Connection(r)
  \/ AcceptFails \/ DelayOver
  \/ EnterBackend \/ LeaveBackend \/ TransportEnds \/ ChannelCloses \/ TakeCommand
  \/ \E b \in {"native", "evdev"} : SyncConfig(b)
  \/ MakeTray \/ SpawnTray \/ UpdateTray
  \/ ClickOnOff \/ ClickQuit
  \/ \E key \in Keys : ClickSetting(key)
  \/ Start \/ Exit \/ Kill \/ EditFile

(* The runtime polls every task that is ready, the accept delays elapse,   *)
(* and backends start and stop in finite time.                             *)
Fairness ==
  /\ \A r \in Requests : WF_vars(Connection(r))
  /\ WF_vars(DelayOver) /\ WF_vars(TakeCommand)
  /\ WF_vars(EnterBackend) /\ WF_vars(LeaveBackend) /\ WF_vars(Exit)

Spec == Init /\ [][Next]_vars /\ Fairness

-----------------------------------------------------------------------------
(* Every variable has its type, and the command channel never holds more   *)
(* than its slots, whoever sends and whoever drops (control.rs, fire).     *)
TypeOK ==
  /\ IsFile(file) /\ IsSettings(config)
  /\ supervisor \in Supervisor
  /\ \A b \in {"native", "evdev"} :
       daemons[b] # None => DOMAIN daemons[b].using = RuntimeKeys /\ daemons[b].unseen \in BOOLEAN
  /\ Len(queue) <= Capacity
  /\ server.at \in {"off", "listening", "delay"} /\ server.failures \in 0..2
  /\ \A r \in Requests : request[r] # None => request[r] \in Request
  /\ IsTray(tray)

(* Once the tray has taken what the watch channels hold for it, it shows   *)
(* the daemon's on/off state and its backend (tray.rs run_tray), also if   *)
(* it registered late, after commands had been served.                     *)
MirrorFollows ==
  tray.at = "up" =>
    /\ tray.state_unseen \/ tray.on = supervisor.on
    /\ tray.backend_unseen \/ tray.backend = supervisor.published

(* A click on On turns daklak on and a click on Off turns it off, whatever *)
(* other commands are served between the click and its command (tray.rs    *)
(* activate and menu, supervisor.rs handle_cmd).                           *)
ClickDoesWhatItSaid ==
  [][(TakeCommand /\ Head(queue).shown # None) => supervisor'.on = Head(queue).shown]_vars

(* A Daemon that has polled for changes uses the method and tone style the *)
(* user chose last, in this backend or in an earlier one (handler.rs       *)
(* sync_config, supervisor.rs, where each Daemon gets its own receiver).   *)
ChoiceReachesDaemon ==
  \A b \in {"native", "evdev"} :
    daemons[b] # None /\ ~daemons[b].unseen => daemons[b].using = Latest

(* The next start finds each setting as the user last asked for it, in the *)
(* file or in the tray, and the settings that the tray does not manage as  *)
(* the user wrote them; no save makes of a file that loads one that does   *)
(* not, and of the files that do not load it keeps only what is wrong in   *)
(* the settings that are not the tray's: then the file has what was asked, *)
(* but does not load (tray.rs save_config, config.rs load_from).           *)
(* Variables of the environment aside, which a save copies into the file.  *)
SettingsSurvive ==
  /\ ~Loads(file) => wish = NoWish \/ file.wrong = {"other"}
  /\ \A k \in Keys \ DOMAIN world.env :
       wish.keys[k] # None => load_file(file)[k] = wish.keys[k]
  /\ wish.other # None => file.other = wish.other

(* Every request whose line is complete is answered, refused or cut off by *)
(* the end of the server or the daemon: no connection waits for ever       *)
(* (ipc.rs serve and handle_connection, main.rs run_services).             *)
RequestsEnd ==
  \A r \in Requests :
    (request[r] # None /\ (request[r].line = "open" => r \in Foreign))
      ~> At(r, {"answered", "lost"})

(* The abstract request of a connection: its command, once queued, is      *)
(* under way even if the connection is cut.                                *)
Abstract(r) ==
  LET q == request[r]
      queued == \E i \in DOMAIN queue : queue[i].by = r
      at == CASE q.at = "answered" -> "answered"
              [] q.at = "lost" -> IF queued THEN "left" ELSE "lost"
              [] q.at = "waiting" /\ q.reply \notin {"", "dropped"} -> IF q.gone THEN "lost" ELSE "taken"
              [] OTHER -> IF q.gone THEN "left" ELSE "asked"
  IN  IF q = None THEN None
      ELSE [line |-> q.line, at |-> at, reply |-> IF at \in {"taken", "answered"} THEN q.reply ELSE ""]

AbstractRequest ==
  [line : Lines, at : {"asked", "left", "taken", "answered", "lost"}, reply : Replies \cup {"", "dropped"}]

ASSUME FreeAssumption == None \notin AbstractRequest

Service ==
  INSTANCE OnOffService WITH up <- Up, on <- supervisor.on, shown <- supervisor.published, Free <- None,
                             request <- [r \in Requests |-> Abstract(r)],
                             clicks <- Cardinality({i \in DOMAIN queue : queue[i].shown # None})

(* The connections, the channel and the supervisor together implement the  *)
(* service: at most one effect per request, at a moment between asking and *)
(* the answer, which tells the state of that moment, of the backend the    *)
(* one that was announced last; an error only without an effect (ipc.rs    *)
(* handle_connection, supervisor.rs handle_cmd and publish_backend).       *)
ImplementsService == Service!Spec

=============================================================================
