---------------------------- MODULE ControlProofs ----------------------------
(***************************************************************************)
(* Proofs of the invariants of the control plane, and of what a click on   *)
(* the tray's on/off entry does, for every number of connections, every    *)
(* capacity of the channel, every set of files, methods, hooks and         *)
(* scenarios.                                                              *)
(*                                                                         *)
(* The inductive invariant IInv is a conjunction. Typed says what every    *)
(* variable is. Life ties the tray, the Daemons and the channel to the     *)
(* life of the process. Mirror extends MirrorFollows to a tray that is not *)
(* registered yet, Choice says that a Daemon waits only for a change that  *)
(* was sent, and Wishes that the tray of a running daemon knows all the    *)
(* user wishes, without which a save could drop one. Queued says whose     *)
(* each queued command is and that no request has two; it is what ties a   *)
(* command to the click or the request it came from. Unanswered and Asking *)
(* say when a request has no reply, or no hang-up. Each part has a         *)
(* lemma that every step keeps it, by cases on the actions; the theorems   *)
(* follow. The refinement of OnOffService comes last.                      *)
(***************************************************************************)
EXTENDS Control, FiniteSetTheorems, TLAPS

Backends == {"native", "evdev"}

Command == [line : Lines, by : Requests \cup {"tray"}, shown : BOOLEAN \cup {None}]

ServerState == [at : {"off", "listening", "delay"}, failures : 0..2]

TrayShape(t) ==
  t \in [at : {"off", "starting", "spawning", "watching", "appeared", "respawning", "up"},
         on : BOOLEAN, state_unseen : BOOLEAN, backend : {"auto", "native", "evdev"},
         backend_unseen : BOOLEAN, settings : {t.settings}]

DaemonShape(d) == d \in [using : RuntimeSettings, unseen : BOOLEAN]

Typed ==
  /\ world \in Scenarios
  /\ IsFile(file)
  /\ IsSettings(config)
  /\ supervisor \in Supervisor
  /\ supervisor.at = "entering" => supervisor.pending \in {None, "evdev"}
  /\ DOMAIN daemons = Backends
  /\ \A b \in Backends : daemons[b] # None => DaemonShape(daemons[b])
  /\ config_change # None => config_change \in RuntimeSettings
  /\ queue \in Seq(Command) /\ Len(queue) <= Capacity
  /\ server \in ServerState
  /\ request \in [Requests -> Request \cup {None}]
  /\ TrayShape(tray) /\ IsSettings(tray.settings)
  /\ wish \in [keys : {wish.keys}, other : {wish.other}] /\ DOMAIN wish.keys = Keys

(* The settings that a Daemon can apply at run time.                       *)
LEMMA RuntimeType ==
  ASSUME NEW s, IsSettings(s) PROVE Runtime(s) \in RuntimeSettings
  BY DEF Runtime, Restrict, RuntimeKeys, RuntimeSettings, IsSettings, Keys, ValuesOf

(* The settings without a file are settings.                               *)
LEMMA DefaultsType == IsSettings(Defaults)
  BY ConfigAssumption DEF IsSettings, Defaults, Keys, ValuesOf

(* load_from yields settings from every file and every set of overriding   *)
(* variables (config.rs).                                                  *)
LEMMA LoadType ==
  ASSUME NEW f, NEW env, IsFile(f), SomeSettings(env)
  PROVE  IsSettings(load_from(f, env))
  BY DefaultsType DEF load_from, load_file, IsFile, SomeSettings, IsSettings, Over

(* save_config writes a file that is again one, from every file (tray.rs). *)
LEMMA SaveType ==
  ASSUME NEW f, NEW s, IsFile(f), IsSettings(s)
  PROVE  IsFile(save_config(f, s))
  BY DefaultsType DEF save_config, Edited, Generated, Toml, NoToml, copy_config_example, IsFile,
     IsToml, SomeSettings, IsSettings, Kinds, Others

(* The first state is typed.                                               *)
LEMMA TypedInit == Init => Typed
  <1> SUFFICES ASSUME Init PROVE Typed
    OBVIOUS
  <1>1. PICK s \in Scenarios : world = s /\ file = s.file /\ budget = s.budget
    BY DEF Init
  <1>2. IsFile(file)
    BY <1>1, ControlAssumption DEF IsScenario
  <1>3. supervisor \in Supervisor /\ supervisor.at = "off"
    BY DEF Init, Supervisor, Off
  <1>4. TrayShape(tray) /\ IsSettings(tray.settings)
    BY DefaultsType DEF Init, TrayShape, TrayOff
  <1>5. queue \in Seq(Command) /\ Len(queue) <= Capacity
    BY ControlAssumption DEF Init
  <1>6. wish \in [keys : {wish.keys}, other : {wish.other}] /\ DOMAIN wish.keys = Keys
    BY DEF Init, WishOf, NoWish
  <1>7. server \in ServerState /\ request \in [Requests -> Request \cup {None}]
    BY DEF Init, ServerState, ServerOff
  <1>8. DOMAIN daemons = Backends /\ \A b \in Backends : daemons[b] = None
    BY DEF Init, Backends
  <1> QED
    BY <1>1, <1>2, <1>3, <1>4, <1>5, <1>6, <1>7, <1>8, DefaultsType DEF Init, Typed

(* Connections.                                                            *)
LEMMA RequestType ==
  ASSUME NEW q \in Request, NEW place \in Places, NEW reply \in Replies \cup {"", "dropped"}
  PROVE  /\ [q EXCEPT !.at = place] \in Request
         /\ [q EXCEPT !.reply = reply] \in Request
         /\ [q EXCEPT !.at = place, !.reply = reply] \in Request
         /\ [q EXCEPT !.gone = TRUE] \in Request
  BY DEF Request

(* A request that is moved stays one, and is otherwise as it was.          *)
LEMMA Placed ==
  ASSUME NEW q \in Request, NEW place \in Places
  PROVE  LET p == [q EXCEPT !.at = place]
         IN  p \in Request /\ p # None /\ p.line = q.line /\ p.gone = q.gone /\ p.at = place /\ p.reply = q.reply
  <1>1. [q EXCEPT !.at = place] \in Request
    BY RequestType DEF Places, Replies
  <1>2. [q EXCEPT !.at = place] # None
    BY <1>1, NoneAssumption
  <1> QED
    BY <1>1, <1>2 DEF Request

(* The same of one that is given a reply.                                  *)
LEMMA Replied ==
  ASSUME NEW q \in Request, NEW reply \in Replies \cup {"", "dropped"}
  PROVE  LET p == [q EXCEPT !.reply = reply]
         IN  p \in Request /\ p # None /\ p.line = q.line /\ p.gone = q.gone /\ p.at = q.at /\ p.reply = reply
  <1>1. [q EXCEPT !.reply = reply] \in Request
    BY RequestType DEF Places, Replies
  <1>2. [q EXCEPT !.reply = reply] # None
    BY <1>1, NoneAssumption
  <1> QED
    BY <1>1, <1>2 DEF Request

(* The same of one whose connection is cut.                                *)
LEMMA CutOff ==
  ASSUME NEW q \in Request
  PROVE  LET p == [q EXCEPT !.at = "lost", !.reply = ""]
         IN  p \in Request /\ p # None /\ p.line = q.line /\ p.gone = q.gone /\ p.at = "lost" /\ p.reply = ""
  <1>1. [q EXCEPT !.at = "lost", !.reply = ""] \in Request
    BY RequestType DEF Places, Replies
  <1>2. [q EXCEPT !.at = "lost", !.reply = ""] # None
    BY <1>1, NoneAssumption
  <1> QED
    BY <1>1, <1>2 DEF Request

(* The same of one whose client hangs up.                                  *)
LEMMA HungUp ==
  ASSUME NEW q \in Request
  PROVE  LET p == [q EXCEPT !.gone = TRUE]
         IN  p \in Request /\ p # None /\ p.line = q.line /\ p.gone = TRUE /\ p.at = q.at /\ p.reply = q.reply
  <1>1. [q EXCEPT !.gone = TRUE] \in Request
    BY RequestType DEF Places, Replies
  <1>2. [q EXCEPT !.gone = TRUE] # None
    BY <1>1, NoneAssumption
  <1> QED
    BY <1>1, <1>2 DEF Request

(* An answered request is a request.                                       *)
LEMMA AnsweredType ==
  ASSUME NEW q \in Request, NEW reply \in Replies PROVE Answered(q, reply) \in Request
  BY RequestType DEF Answered, Places

(* What an answer makes of a request, read or unread.                      *)
LEMMA AnsweredFields ==
  ASSUME NEW q \in Request, NEW reply \in Replies
  PROVE  /\ Answered(q, reply) \in Request /\ Answered(q, reply).line = q.line
         /\ Answered(q, reply).gone = q.gone
         /\ IF q.gone THEN Answered(q, reply).at = "lost" /\ Answered(q, reply).reply = ""
            ELSE Answered(q, reply).at = "answered" /\ Answered(q, reply).reply = reply
  <1>1. CASE q.gone
    <2>1. Answered(q, reply) = [q EXCEPT !.at = "lost", !.reply = ""]
      BY <1>1 DEF Answered
    <2> QED
      BY <1>1, <2>1, CutOff, Zenon
  <1>2. CASE ~q.gone
    <2>1. Answered(q, reply) = [q EXCEPT !.at = "answered", !.reply = reply]
      BY <1>2 DEF Answered
    <2>2. [q EXCEPT !.at = "answered", !.reply = reply] \in Request
      BY RequestType DEF Places
    <2> QED
      BY <1>2, <2>1, <2>2 DEF Request
  <1> QED
    BY <1>1, <1>2

(* Connections that are cut leave requests.                                *)
LEMMA LoseAllType ==
  ASSUME Typed, NEW some \in SUBSET Requests, \A r \in some : request[r] # None
  PROVE  LoseAll(some) \in [Requests -> Request \cup {None}]
  BY RequestType DEF Typed, LoseAll, Places

(* The connections that a dying server cuts are there.                     *)
LEMMA PendingType == Pending \subseteq Requests /\ \A r \in Pending : request[r] # None
  BY DEF Pending, Accepted, At

(* A command that found a slot leaves the channel within its slots.        *)
LEMMA AppendType ==
  ASSUME Typed, NEW c \in Command, Len(queue) < Capacity
  PROVE  Append(queue, c) \in Seq(Command) /\ Len(Append(queue, c)) <= Capacity
  BY ControlAssumption DEF Typed

(* The steps of one connection (ipc.rs handle_connection) keep the types.  *)
LEMMA TypedConnection ==
  ASSUME Typed, NEW r \in Requests, Ask(r) \/ HangUp(r) \/ Connection(r)
  PROVE  Typed'
  <1> DEFINE q == request[r]
  <1>0. request \in [Requests -> Request \cup {None}] /\ (q # None => q \in Request)
    BY DEF Typed
  <1>1. request' \in [Requests -> Request \cup {None}]
    <2>1. CASE Ask(r)
      <3>1. PICK line \in world.lines :
              request' = [request EXCEPT ![r] = [line |-> line, gone |-> FALSE, at |-> "asking", reply |-> ""]]
        BY <2>1 DEF Ask
      <3>2. line \in Lines
        BY ControlAssumption DEF Typed, IsScenario
      <3> QED
        BY <1>0, <3>1, <3>2 DEF Request, Places
    <2>2. CASE HangUp(r)
      BY <1>0, <2>2, PendingType, RequestType DEF HangUp, Places, Replies
    <2>3. CASE Connect(r)
      BY <1>0, <2>3, RequestType DEF Connect, At, Places, Replies
    <2>4. CASE Accept(r)
      BY <1>0, <2>4, LoseAllType, RequestType DEF Accept, At, Places
    <2>5. CASE ReadLine(r)
      BY <1>0, <2>5, AnsweredType, RequestType DEF ReadLine, At, Places, Replies
    <2>6. CASE SendCommand(r)
      BY <1>0, <2>6, AnsweredType, RequestType DEF SendCommand, At, Places, Replies
    <2>7. CASE WriteReply(r)
      <3>1. q \in Request /\ q.reply # ""
        BY <1>0, <2>7 DEF WriteReply, At
      <3>2. (IF q.reply = "dropped" THEN "err" ELSE q.reply) \in Replies
        BY <3>1 DEF Request, Replies
      <3> QED
        BY <1>0, <2>7, <3>1, <3>2, AnsweredType DEF WriteReply
    <2> QED
      BY <2>1, <2>2, <2>3, <2>4, <2>5, <2>6, <2>7 DEF Connection
  <1>2. queue' \in Seq(Command) /\ Len(queue') <= Capacity
    <2>1. CASE SendCommand(r) /\ ChannelOpen
      <3>1. q \in Request /\ q.line \in Lines
        BY <1>0, <2>1 DEF SendCommand, At, Request
      <3>2. [line |-> q.line, by |-> r, shown |-> None] \in Command
        BY <3>1 DEF Command
      <3> QED
        BY <2>1, <3>2, AppendType DEF SendCommand
    <2> QED
      BY <2>1 DEF Typed, Connection, Ask, HangUp, Connect, Accept, ReadLine, SendCommand, WriteReply
  <1>3. server' \in ServerState
    <2>1. UNCHANGED server \/ server' = [server EXCEPT !.failures = 0]
      BY DEF Connection, Ask, HangUp, Connect, Accept, ReadLine, SendCommand, WriteReply
    <2> QED
      BY <2>1 DEF Typed, ServerState
  <1>4. UNCHANGED elsewhere /\ UNCHANGED supervisor
    BY DEF Connection, Ask, HangUp, Connect, Accept, ReadLine, SendCommand, WriteReply
  <1> QED
    BY <1>1, <1>2, <1>3, <1>4 DEF Typed, elsewhere

(* The accept loop (ipc.rs serve): its failures are counted up to three.   *)
LEMMA TypedAcceptLoop ==
  ASSUME Typed, AcceptFails \/ DelayOver PROVE Typed'
  <1>1. server' \in ServerState
    <2>1. CASE AcceptFails /\ server.failures = 2
      BY <2>1 DEF AcceptFails, ServerState, ServerOff
    <2>2. CASE AcceptFails /\ server.failures # 2
      <3>1. server' = [server EXCEPT !.at = "delay", !.failures = @ + 1]
        BY <2>2 DEF AcceptFails
      <3>2. server \in ServerState /\ server.failures + 1 \in 0..2
        BY <2>2 DEF Typed, ServerState
      <3> QED
        BY <3>1, <3>2 DEF ServerState
    <2>3. CASE DelayOver
      BY <2>3 DEF Typed, DelayOver, ServerState
    <2> QED
      BY <2>1, <2>2, <2>3
  <1>2. request' \in [Requests -> Request \cup {None}]
    BY LoseAllType, PendingType DEF Typed, AcceptFails, DelayOver
  <1> QED
    BY <1>1, <1>2 DEF Typed, AcceptFails, DelayOver, elsewhere

(* The supervisor.                                                         *)
LEMMA CloseChannelType ==
  ASSUME Typed, CloseChannel
  PROVE  /\ queue' \in Seq(Command) /\ Len(queue') <= Capacity
         /\ request' \in [Requests -> Request \cup {None}]
  <1>1. queue' = <<>>
    BY DEF CloseChannel
  <1>2. queue' \in Seq(Command) /\ Len(queue') <= Capacity
    BY <1>1, ControlAssumption
  <1>3. \A q \in Request : [q EXCEPT !.reply = "dropped"] \in Request
    BY RequestType DEF Places
  <1>4. request' \in [Requests -> Request \cup {None}]
    BY <1>3 DEF Typed, CloseChannel, At
  <1> QED
    BY <1>2, <1>4

(* The end of Supervisor::run keeps the types.                             *)
LEMMA EndsType ==
  ASSUME Typed, Ends, UNCHANGED <<settings, server>>, UNCHANGED tray
  PROVE  Typed'
  <1>1. supervisor' \in Supervisor /\ supervisor'.at = "ended"
    BY DEF Typed, Ends, Supervisor
  <1>2. DOMAIN daemons' = Backends /\ \A b \in Backends : daemons'[b] = None
    BY DEF Typed, Ends
  <1> QED
    BY <1>1, <1>2, CloseChannelType DEF Typed, Ends, settings

(* So does the way into another backend.                                   *)
LEMMA GoToType ==
  ASSUME Typed, NEW b \in Backends, GoTo(b), UNCHANGED <<settings, server>>, UNCHANGED tray
  PROVE  Typed'
  <1>1. supervisor' \in Supervisor /\ supervisor'.pending = None
    BY DEF Typed, GoTo, Supervisor, Backends
  <1>2. DOMAIN daemons' = Backends /\ \A x \in Backends : daemons'[x] # None => DaemonShape(daemons'[x])
    BY DEF Typed, GoTo
  <1> QED
    BY <1>1, <1>2 DEF Typed, GoTo, settings, socket

(* What is published is a backend, or what was published before.           *)
LEMMA PublishType ==
  ASSUME Typed, NEW b \in Backends, publish_backend(b)
  PROVE  /\ supervisor' \in Supervisor /\ supervisor'.at = "serving"
         /\ supervisor'.on = supervisor.on
         /\ supervisor'.published \in {supervisor.published, b}
         /\ TrayShape(tray') /\ IsSettings(tray'.settings)
         /\ tray'.at = tray.at /\ tray'.settings = tray.settings
  <1>1. supervisor' \in Supervisor /\ supervisor'.at = "serving" /\ supervisor'.on = supervisor.on
        /\ supervisor'.published \in {supervisor.published, b}
    BY DEF Typed, publish_backend, Supervisor, Backends
  <1>2. tray' = [tray EXCEPT !.backend_unseen = @ \/ tray.at # "off"]
    BY DEF publish_backend
  <1>3. (tray.backend_unseen \/ tray.at # "off") \in BOOLEAN
    OBVIOUS
  <1>4. TrayShape(tray') /\ tray'.settings = tray.settings /\ tray'.at = tray.at
    BY <1>2, <1>3 DEF Typed, TrayShape
  <1> QED
    BY <1>1, <1>4 DEF Typed

(* A backend that is entered, or fails to be.                              *)
LEMMA TypedEnter == ASSUME Typed, EnterBackend PROVE Typed'
  <1> DEFINE b == supervisor.current
  <1>0. b \in Backends /\ supervisor.pending \in {None, "evdev"}
    BY DEF Typed, Supervisor, Backends, EnterBackend
  <1>1. CASE /\ publish_backend(b)
             /\ daemons' = [daemons EXCEPT ![b] = IF @ = None THEN NewDaemon ELSE @]
             /\ UNCHANGED <<socket, budget>>
    <2>2. DaemonShape(NewDaemon)
      BY RuntimeType DEF Typed, DaemonShape, NewDaemon
    <2>3. DOMAIN daemons' = Backends /\ \A x \in Backends : daemons'[x] # None => DaemonShape(daemons'[x])
      BY <1>0, <1>1, <2>2 DEF Typed
    <2>4. UNCHANGED <<settings, server>>
      BY DEF EnterBackend
    <2> HIDE DEF b
    <2> QED
      BY <1>0, <1>1, <2>3, <2>4, PublishType DEF Typed, settings, socket
  <1>2. CASE /\ IF supervisor.pending # None THEN GoTo(supervisor.pending)
                ELSE IF b = "evdev" THEN GoTo("native") ELSE Ends
             /\ UNCHANGED tray
    BY <1>0, <1>2, EndsType, GoToType DEF EnterBackend, Backends
  <1> QED
    BY <1>1, <1>2 DEF EnterBackend

(* A backend that is left, or ends.                                        *)
LEMMA TypedLeave == ASSUME Typed, LeaveBackend \/ TransportEnds \/ ChannelCloses PROVE Typed'
  <1>1. CASE LeaveBackend
    <2>1. supervisor.pending = "quit" \/ supervisor.pending \in Backends
      BY <1>1 DEF Typed, LeaveBackend, Supervisor, Backends
    <2> QED
      BY <1>1, <2>1, EndsType, GoToType DEF LeaveBackend
  <1>2. CASE TransportEnds \/ ChannelCloses
    BY <1>2, EndsType, GoToType DEF TransportEnds, ChannelCloses, Backends
  <1> QED
    BY <1>1, <1>2

(* What a command does to the supervisor and the tray.                     *)
LEMMA HandleType ==
  ASSUME Typed, NEW line, NEW reply, handle_cmd(line, reply)
  PROVE  /\ supervisor' \in Supervisor /\ supervisor'.at = supervisor.at
         /\ TrayShape(tray') /\ IsSettings(tray'.settings)
  <1>1. TrayShape(tray') /\ IsSettings(tray'.settings)
    BY DEF Typed, handle_cmd, TrayShape
  <1>2. supervisor' \in Supervisor /\ supervisor'.at = supervisor.at
    BY DEF Typed, handle_cmd, Supervisor, resolve_target, SetsOnOff
  <1> QED
    BY <1>1, <1>2

(* A command taken from the channel and served.                            *)
LEMMA TypedTake == ASSUME Typed, TakeCommand PROVE Typed'
  <1> DEFINE command == Head(queue)
  <1>1. PICK reply \in Replies :
          /\ handle_cmd(command.line, reply)
          /\ request' = [r \in Requests |->
                           IF r = command.by /\ At(r, {"waiting"})
                           THEN [request[r] EXCEPT !.reply = reply] ELSE request[r]]
    BY DEF TakeCommand
  <1>2. request' \in [Requests -> Request \cup {None}]
    <2>1. \A q \in Request : [q EXCEPT !.reply = reply] \in Request
      BY RequestType DEF Places
    <2> QED
      BY <1>1, <2>1 DEF Typed, At
  <1>3. queue' \in Seq(Command) /\ Len(queue') <= Capacity
    BY ControlAssumption DEF Typed, TakeCommand
  <1> QED
    BY <1>1, <1>2, <1>3, HandleType DEF Typed, TakeCommand, settings

(* A Daemon polls only for changes that were sent, which Choice says.      *)
LEMMA TypedSync ==
  ASSUME Typed, NEW b \in Backends, SyncConfig(b), config_change # None
  PROVE  Typed'
  <1>1. DOMAIN daemons' = Backends /\ \A x \in Backends : daemons'[x] # None => DaemonShape(daemons'[x])
    BY DEF Typed, SyncConfig, DaemonShape
  <1> QED
    BY <1>1 DEF Typed, SyncConfig, settings, socket

(* The tray.                                                               *)
LEMMA TypedMirror == ASSUME Typed, MakeTray \/ SpawnTray \/ UpdateTray PROVE Typed'
  <1>1. TrayShape(tray') /\ IsSettings(tray'.settings)
    <2>0. supervisor.on \in BOOLEAN /\ supervisor.published \in {"auto", "native", "evdev"}
      BY DEF Typed, Supervisor
    <2>1. CASE MakeTray
      BY <2>0, <2>1 DEF Typed, MakeTray, TrayShape
    <2>2. CASE SpawnTray
      BY <2>2 DEF Typed, SpawnTray, TrayShape
    <2>3. CASE UpdateTray
      BY <2>0, <2>3 DEF Typed, UpdateTray, TrayShape
    <2> QED
      BY <2>1, <2>2, <2>3
  <1> QED
    BY <1>1 DEF Typed, MakeTray, SpawnTray, UpdateTray, abroad

(* The tray sends a command without waiting: it is queued if there is a    *)
(* slot.                                                                   *)
LEMMA FireType ==
  ASSUME Typed, NEW line \in Lines, NEW shown \in BOOLEAN \cup {None}, fire(line, shown)
  PROVE  queue' \in Seq(Command) /\ Len(queue') <= Capacity
  <1>1. [line |-> line, by |-> "tray", shown |-> shown] \in Command
    BY DEF Command
  <1> QED
    BY <1>1, AppendType DEF Typed, fire

(* The entries On/Off and Quit keep the types.                             *)
LEMMA TypedClick == ASSUME Typed, ClickOnOff \/ ClickQuit PROVE Typed'
  <1>1. queue' \in Seq(Command) /\ Len(queue') <= Capacity
    <2>1. {"enable", "disable", "quit"} \subseteq Lines /\ tray.on \in BOOLEAN
      BY DEF Typed, TrayShape, Lines, Commands
    <2> QED
      BY <2>1, FireType DEF ClickOnOff, ClickQuit
  <1> QED
    BY <1>1 DEF Typed, ClickOnOff, ClickQuit, abroad

(* A choice in the menu: the new settings, and what becomes of them.       *)
Chosen(key, value) == [tray.settings EXCEPT ![key] = value]

Chooses(key, value) ==
  LET new == Chosen(key, value)
  IN  /\ tray' = [tray EXCEPT !.settings = new]
      /\ IF key \in RuntimeKeys
         THEN /\ config_change' = Runtime(new)
              /\ daemons' = [b \in DOMAIN daemons |->
                   IF daemons[b] = None THEN None ELSE [daemons[b] EXCEPT !.unseen = TRUE]]
         ELSE UNCHANGED <<config_change, daemons>>
      /\ Save(key, new)
      /\ IF key = "enable_evdev_grab"
         THEN fire(IF value THEN "use evdev" ELSE "use native", None)
         ELSE UNCHANGED queue

(* Every choice of a setting is of a value that the setting can have       *)
(* (tray.rs menu).                                                         *)
LEMMA ClickChooses ==
  ASSUME Typed, NEW key \in Keys, ClickSetting(key)
  PROVE  /\ \E value \in ValuesOf(key) : Chooses(key, value)
         /\ tray.at = "up"
         /\ UNCHANGED <<world, config, supervisor, server, request>>
  <1>0. \A k \in Keys : tray.settings[k] \in ValuesOf(k)
    BY DEF Typed, IsSettings
  <1>1. CASE key = "method"
    BY <1>1 DEF ClickSetting, Chooses, Chosen, ValuesOf
  <1>2. CASE key = "modern_style"
    BY <1>0, <1>2 DEF ClickSetting, Chooses, Chosen, ValuesOf
  <1>3. CASE key = "enable_evdev_grab"
    BY <1>0, <1>3 DEF ClickSetting, Chooses, Chosen, ValuesOf
  <1>4. CASE key = "evdev_grab_hooks"
    <2>1. tray.settings[key] \in SUBSET Hooks
      BY <1>0, <1>4 DEF ValuesOf
    <2>2. PICK hook \in Hooks :
            Chooses(key, IF hook \in tray.settings[key] THEN tray.settings[key] \ {hook}
                         ELSE tray.settings[key] \cup {hook})
      BY <1>4 DEF ClickSetting, Chooses, Chosen
    <2> QED
      BY <1>4, <2>1, <2>2 DEF ClickSetting, ValuesOf
  <1> QED
    BY <1>1, <1>2, <1>3, <1>4 DEF Keys

(* The settings after a choice are settings.                               *)
LEMMA ChosenType ==
  ASSUME Typed, NEW key \in Keys, NEW value \in ValuesOf(key)
  PROVE  IsSettings(Chosen(key, value))
  BY DEF Typed, Chosen, IsSettings

(* A choice keeps the types, of what is sent and of what is saved too.     *)
LEMMA TypedSetting == ASSUME Typed, NEW key \in Keys, ClickSetting(key) PROVE Typed'
  <1>1. PICK value \in ValuesOf(key) : Chooses(key, value)
    BY ClickChooses
  <1> DEFINE new == Chosen(key, value)
  <1>2. IsSettings(new)
    BY ChosenType
  <1>3. TrayShape(tray') /\ IsSettings(tray'.settings)
    BY <1>1, <1>2 DEF Typed, Chooses, TrayShape
  <1>4. Runtime(new) \in RuntimeSettings
    BY <1>2, RuntimeType
  <1>5. config_change' # None => config_change' \in RuntimeSettings
    BY <1>1, <1>4 DEF Typed, Chooses
  <1>6. DOMAIN daemons' = Backends /\ \A b \in Backends : daemons'[b] # None => DaemonShape(daemons'[b])
    <2>1. \A d : DaemonShape(d) => DaemonShape([d EXCEPT !.unseen = TRUE])
      BY DEF DaemonShape
    <2>2. \/ UNCHANGED daemons
          \/ daemons' = [b \in DOMAIN daemons |->
               IF daemons[b] = None THEN None ELSE [daemons[b] EXCEPT !.unseen = TRUE]]
      BY <1>1 DEF Chooses
    <2> QED
      BY <2>1, <2>2 DEF Typed
  <1>7. IsFile(file')
    <2>1. UNCHANGED file \/ file' = save_config(file, new)
      BY <1>1 DEF Chooses, Save
    <2> QED
      BY <1>2, <2>1, SaveType DEF Typed
  <1>8. wish' \in [keys : {wish'.keys}, other : {wish'.other}] /\ DOMAIN wish'.keys = Keys
    BY <1>1 DEF Typed, Chooses, Save
  <1>9. queue' \in Seq(Command) /\ Len(queue') <= Capacity
    <2>1. {"use evdev", "use native"} \subseteq Lines
      BY DEF Lines, Commands
    <2> QED
      BY <1>1, <2>1, FireType DEF Typed, Chooses
  <1> QED
    BY <1>3, <1>5, <1>6, <1>7, <1>8, <1>9, ClickChooses DEF Typed

(* The process and the file.                                               *)
LEMMA TypedStart == ASSUME Typed, Start PROVE Typed'
  <1>1. IsSettings(config')
    BY LoadType, ControlAssumption DEF Typed, Start, IsScenario
  <1>2. supervisor' \in Supervisor /\ supervisor'.pending \in {None, "evdev"}
    BY DEF Start, Off, Supervisor
  <1>3. TrayShape(tray') /\ IsSettings(tray'.settings)
    BY <1>1 DEF Start, TrayOff, TrayShape
  <1>4. server' \in ServerState
    BY DEF Start, ServerState, ServerOff
  <1> QED
    BY <1>1, <1>2, <1>3, <1>4 DEF Typed, Start

(* The end of the process leaves typed remains.                            *)
LEMMA DownType ==
  ASSUME Typed, Down
  PROVE  /\ supervisor' \in Supervisor /\ supervisor'.at = "off"
         /\ DOMAIN daemons' = Backends /\ \A b \in Backends : daemons'[b] = None
         /\ config_change' = None
         /\ queue' \in Seq(Command) /\ Len(queue') <= Capacity
         /\ server' \in ServerState
         /\ request' \in [Requests -> Request \cup {None}]
         /\ TrayShape(tray') /\ IsSettings(tray'.settings)
  <1>1. supervisor' \in Supervisor /\ supervisor'.at = "off"
    BY DEF Typed, Down, Off, Supervisor
  <1>2. DOMAIN daemons' = Backends /\ \A b \in Backends : daemons'[b] = None
    BY DEF Typed, Down
  <1>3. queue' = <<>>
    BY DEF Down
  <1>4. queue' \in Seq(Command) /\ Len(queue') <= Capacity
    BY <1>3, ControlAssumption
  <1>5. server' \in ServerState
    BY DEF Down, ServerState, ServerOff
  <1>6. request' \in [Requests -> Request \cup {None}]
    BY LoseAllType, PendingType DEF Down
  <1>7. TrayShape(tray') /\ IsSettings(tray'.settings)
    BY DefaultsType DEF Down, TrayShape, TrayOff
  <1> QED
    BY <1>1, <1>2, <1>4, <1>5, <1>6, <1>7 DEF Down

(* It may leave a truncated file behind.                                   *)
LEMMA TypedDown == ASSUME Typed, Exit \/ Kill PROVE Typed'
  <1>1. Down /\ UNCHANGED <<world, config>>
    BY DEF Exit, Kill
  <1>2. \A kind \in Kinds : IsFile(NoToml(kind))
    BY DEF IsFile, NoToml, SomeSettings, Others
  <1>3. \/ UNCHANGED <<file, wish>>
        \/ (\E kind \in {"empty", "broken"} : file' = NoToml(kind)) /\ wish' = NoWish
    BY DEF Exit, Kill
  <1>4. NoWish \in [keys : {NoWish.keys}, other : {NoWish.other}] /\ DOMAIN NoWish.keys = Keys
    BY DEF NoWish
  <1>5. IsFile(file')
    BY <1>2, <1>3 DEF Typed, Kinds
  <1>6. wish' \in [keys : {wish'.keys}, other : {wish'.other}] /\ DOMAIN wish'.keys = Keys
    BY <1>3, <1>4 DEF Typed
  <1> QED
    BY <1>1, <1>5, <1>6, DownType DEF Typed

(* An edit of the file puts a file there.                                  *)
LEMMA TypedEdit == ASSUME Typed, EditFile PROVE Typed'
  <1>1. PICK f \in UserFiles : file' = f /\ wish' = WishOf(f)
    BY DEF EditFile
  <1>2. IsFile(file')
    BY <1>1, ControlAssumption
  <1>3. wish' \in [keys : {wish'.keys}, other : {wish'.other}] /\ DOMAIN wish'.keys = Keys
    BY <1>1 DEF WishOf, NoWish
  <1> QED
    BY <1>2, <1>3 DEF Typed, EditFile, abroad

-----------------------------------------------------------------------------
(* The inductive invariant.                                                *)

(* No process, no Daemons, no settings sent, nothing published, no tray;   *)
(* no receiver, no commands.                                               *)
Life ==
  /\ ~Up => /\ tray.at = "off" /\ config_change = None /\ supervisor.published = "auto"
            /\ \A b \in Backends : daemons[b] = None
  /\ ~ChannelOpen => queue = <<>>

(* The mirror from make_tray on, before the icon is registered too.        *)
Mirror ==
  tray.at \in {"spawning", "respawning", "up"} =>
    /\ tray.state_unseen \/ tray.on = supervisor.on
    /\ tray.backend_unseen \/ tray.backend = supervisor.published

(* A Daemon has something to poll for only if something was sent.          *)
Choice ==
  /\ ChoiceReachesDaemon
  /\ \A b \in Backends : daemons[b] # None /\ daemons[b].unseen => config_change # None

(* While the daemon runs, the tray knows every wish: a save, which writes  *)
(* all the settings of the tray, keeps them.                               *)
Wishes ==
  /\ SettingsSurvive
  /\ wish.other # None => file.kind = "toml" /\ file.tight = {}
  /\ Up /\ tray.at # "up" => tray.settings = config
  /\ Up => \A k \in Keys \ DOMAIN world.env :
             wish.keys[k] # None => wish.keys[k] = tray.settings[k]

(* A command of the tray that shows a state sets that state, and one that  *)
(* shows none sets none; a command of a connection is its request's, which *)
(* waits without a reply or is cut off, and no request has two.            *)
FromTray(c) ==
  IF c.shown = None THEN c.line \notin SetsOnOff
  ELSE c.line = IF c.shown THEN "enable" ELSE "disable"

Held(q) == q # None /\ q.at \in {"waiting", "lost"} /\ q.reply = ""

FromRequest(c) ==
  c.by \in Requests /\ c.shown = None /\ Held(request[c.by]) /\ request[c.by].line = c.line

Queued ==
  /\ \A i \in DOMAIN queue : (queue[i].by = "tray" /\ FromTray(queue[i])) \/ FromRequest(queue[i])
  /\ \A i, j \in DOMAIN queue : queue[i].by = queue[j].by /\ queue[i].by # "tray" => i = j

(* Only a request that waits, or is answered, has a reply.                 *)
Unanswered ==
  \A r \in Requests : request[r] # None /\ request[r].at \notin {"waiting", "answered"} =>
                         request[r].reply = ""

(* A program that has not connected has not hung up.                       *)
Asking == \A r \in Requests : At(r, {"asking"}) => ~request[r].gone

IInv == Typed /\ Life /\ Mirror /\ Choice /\ Wishes /\ Queued /\ Unanswered /\ Asking

-----------------------------------------------------------------------------
(* Each part of the invariant is kept by every step.                       *)

(* Typed is kept by every step, if Choice holds before it.                 *)
LEMMA TypedStep == ASSUME Typed, Choice, [Next]_vars PROVE Typed'
  <1>1. CASE \E r \in Requests : Ask(r) \/ HangUp(r) \/ Connection(r)
    BY <1>1, TypedConnection
  <1>2. CASE AcceptFails \/ DelayOver
    BY <1>2, TypedAcceptLoop
  <1>3. CASE EnterBackend \/ LeaveBackend \/ TransportEnds \/ ChannelCloses \/ TakeCommand
    BY <1>3, TypedEnter, TypedLeave, TypedTake
  <1>4. CASE \E b \in Backends : SyncConfig(b)
    BY <1>4, TypedSync DEF SyncConfig, Choice
  <1>5. CASE MakeTray \/ SpawnTray \/ UpdateTray
    BY <1>5, TypedMirror
  <1>6. CASE ClickOnOff \/ ClickQuit \/ \E key \in Keys : ClickSetting(key)
    BY <1>6, TypedClick, TypedSetting
  <1>7. CASE Start \/ Exit \/ Kill \/ EditFile
    BY <1>7, TypedStart, TypedDown, TypedEdit
  <1>8. CASE UNCHANGED vars
    BY <1>8 DEF Typed, vars
  <1> QED
    BY <1>1, <1>2, <1>3, <1>4, <1>5, <1>6, <1>7, <1>8 DEF Next, Backends

(* Life: what runs only with the process, and the channel with its         *)
(* receiver.                                                               *)
LEMMA LifeStep == ASSUME Typed, Life, [Next]_vars PROVE Life'
  <1>0. DOMAIN daemons = Backends
    BY DEF Typed
  <1>1. CASE \E r \in Requests : Ask(r) \/ HangUp(r) \/ Connection(r)
    BY <1>1 DEF Life, Up, ChannelOpen, Ask, HangUp, Connection, Connect, Accept, ReadLine,
       SendCommand, WriteReply, elsewhere
  <1>2. CASE AcceptFails \/ DelayOver
    BY <1>2 DEF Life, Up, ChannelOpen, AcceptFails, DelayOver, elsewhere
  <1>3. CASE EnterBackend \/ LeaveBackend \/ TransportEnds \/ ChannelCloses
    <2>1. supervisor'.at \in {"serving", "entering"} \/ (supervisor'.at = "ended" /\ queue' = <<>>)
      BY <1>3 DEF Typed, Supervisor, EnterBackend, publish_backend, LeaveBackend, TransportEnds, ChannelCloses, GoTo, Ends, CloseChannel
    <2> QED
      BY <2>1 DEF Life, Up, ChannelOpen
  <1>4. CASE TakeCommand
    <2>1. supervisor'.at = "serving"
      BY <1>4 DEF Typed, Supervisor, TakeCommand, handle_cmd
    <2> QED
      BY <2>1 DEF Life, Up, ChannelOpen
  <1>5. CASE \E b \in Backends : SyncConfig(b)
    BY <1>5 DEF Life, Up, ChannelOpen, SyncConfig, socket
  <1>6. CASE MakeTray \/ SpawnTray \/ UpdateTray
    BY <1>6 DEF Life, Up, ChannelOpen, MakeTray, SpawnTray, UpdateTray, abroad
  <1>7. CASE ClickOnOff \/ ClickQuit
    BY <1>7 DEF Life, Up, ChannelOpen, ClickOnOff, ClickQuit, fire, abroad
  <1>8. ASSUME NEW key \in Keys, ClickSetting(key) PROVE Life'
    <2>1. PICK value \in ValuesOf(key) : Chooses(key, value)
      BY <1>8, ClickChooses
    <2> QED
      BY <1>8, <2>1, ClickChooses DEF Life, Up, ChannelOpen, Chooses, fire
  <1>9. CASE Start
    BY <1>9 DEF Life, Up, ChannelOpen, Start, Off
  <1>10. CASE Exit \/ Kill
    BY <1>0, <1>10 DEF Life, Up, ChannelOpen, Exit, Kill, Down, Off, TrayOff
  <1>11. CASE EditFile \/ UNCHANGED vars
    BY <1>11 DEF Life, Up, ChannelOpen, EditFile, vars, abroad
  <1> QED
    BY <1>1, <1>2, <1>3, <1>4, <1>5, <1>6, <1>7, <1>8, <1>9, <1>10, <1>11 DEF Next, Backends

(* Mirror: each step that changes on/off or the backend marks it unseen    *)
(* for the tray, and each of the tray that marks it seen copies it.        *)
LEMMA MirrorStep == ASSUME Typed, Mirror, [Next]_vars PROVE Mirror'
  <1>1. CASE \E r \in Requests : Ask(r) \/ HangUp(r) \/ Connection(r)
    BY <1>1 DEF Mirror, Ask, HangUp, Connection, Connect, Accept, ReadLine,
       SendCommand, WriteReply, elsewhere
  <1>2. CASE AcceptFails \/ DelayOver
    BY <1>2 DEF Mirror, AcceptFails, DelayOver, elsewhere
  <1>3. CASE EnterBackend
    BY <1>3 DEF Typed, TrayShape, Supervisor, Mirror, EnterBackend, publish_backend, GoTo, Ends
  <1>4. CASE LeaveBackend \/ TransportEnds \/ ChannelCloses
    BY <1>4 DEF Typed, Supervisor, Mirror, LeaveBackend, TransportEnds, ChannelCloses, GoTo, Ends
  <1>5. CASE TakeCommand
    BY <1>5 DEF Typed, TrayShape, Supervisor, Mirror, TakeCommand, handle_cmd
  <1>6. CASE \E b \in Backends : SyncConfig(b)
    BY <1>6 DEF Mirror, SyncConfig
  <1>7. CASE MakeTray \/ SpawnTray \/ UpdateTray
    <2>1. CASE MakeTray
      BY <2>1 DEF Typed, TrayShape, Mirror, MakeTray, abroad
    <2>2. CASE SpawnTray
      <3>1. \/ tray.at \in {"spawning", "respawning"}
            \/ tray'.at \notin {"spawning", "respawning", "up"}
        BY <2>2 DEF Typed, TrayShape, SpawnTray
      <3>2. UNCHANGED supervisor /\ \E at : tray' = [tray EXCEPT !.at = at]
        BY <2>2 DEF SpawnTray, abroad
      <3> QED
        BY <3>1, <3>2 DEF Typed, TrayShape, Mirror
    <2>3. CASE UpdateTray
      BY <2>3 DEF Typed, TrayShape, Mirror, UpdateTray, abroad
    <2> QED
      BY <1>7, <2>1, <2>2, <2>3
  <1>8. CASE ClickOnOff \/ ClickQuit
    BY <1>8 DEF Mirror, ClickOnOff, ClickQuit, abroad
  <1>9. ASSUME NEW key \in Keys, ClickSetting(key) PROVE Mirror'
    BY <1>9, ClickChooses DEF Typed, TrayShape, Mirror, Chooses
  <1>10. CASE Start \/ Exit \/ Kill
    <2>1. Start => tray'.at \in {"off", "starting"}
      <3>1. Start => \E at \in {"off", "starting"} : tray' = [TrayOff EXCEPT !.at = at, !.settings = config']
        BY DEF Start
      <3> QED
        BY <3>1 DEF TrayOff
    <2>2. Exit \/ Kill => tray'.at = "off"
      BY DEF Exit, Kill, Down, TrayOff
    <2> QED
      BY <1>10, <2>1, <2>2 DEF Mirror
  <1>11. CASE EditFile \/ UNCHANGED vars
    BY <1>11 DEF Mirror, EditFile, vars, abroad
  <1> QED
    BY <1>1, <1>2, <1>3, <1>4, <1>5, <1>6, <1>7, <1>8, <1>9, <1>10, <1>11 DEF Next, Backends

(* Choice: a choice is marked unseen in each Daemon there is, and a new    *)
(* Daemon finds any earlier one unseen.                                    *)
LEMMA ChoiceStep == ASSUME Typed, Life, Choice, [Next]_vars PROVE Choice'
  <1> USE DEF Choice, ChoiceReachesDaemon, Latest, Backends
  <1>1. CASE \E r \in Requests : Ask(r) \/ HangUp(r) \/ Connection(r)
    BY <1>1 DEF Ask, HangUp, Connection, Connect, Accept, ReadLine, SendCommand, WriteReply, elsewhere
  <1>2. CASE AcceptFails \/ DelayOver
    BY <1>2 DEF AcceptFails, DelayOver, elsewhere
  <1>3. CASE EnterBackend
    <2>1. UNCHANGED <<config, config_change>>
      BY <1>3 DEF EnterBackend, settings
    <2>2. IF NewDaemon.unseen THEN config_change # None ELSE NewDaemon.using = Latest
      BY DEF NewDaemon
    <2>3. \A b \in Backends : daemons'[b] = daemons[b] \/ daemons'[b] = NewDaemon \/ daemons'[b] = None
      BY <1>3 DEF Typed, EnterBackend, GoTo, Ends
    <2>4. Latest' = Latest
      BY <2>1
    <2> HIDE DEF Latest, Backends
    <2>5. ASSUME NEW b \in Backends, daemons'[b] # None
          PROVE  IF daemons'[b].unseen THEN config_change' # None ELSE daemons'[b].using = Latest'
      BY <2>1, <2>2, <2>3, <2>4, <2>5 DEF Backends
    <2> QED
      BY <2>5 DEF Backends
  <1>4. CASE LeaveBackend \/ TransportEnds \/ ChannelCloses
    <2>1. UNCHANGED <<config, config_change>>
      BY <1>4 DEF LeaveBackend, TransportEnds, ChannelCloses, settings
    <2>2. \A b \in Backends : daemons'[b] \in {daemons[b], None}
      BY <1>4 DEF Typed, LeaveBackend, TransportEnds, ChannelCloses, GoTo, Ends
    <2> QED
      BY <2>1, <2>2
  <1>5. CASE TakeCommand
    BY <1>5 DEF TakeCommand, settings
  <1>6. CASE \E b \in Backends : SyncConfig(b)
    <2>1. PICK b \in Backends : SyncConfig(b)
      BY <1>6
    <2>2. daemons' = [daemons EXCEPT ![b] = [using |-> config_change, unseen |-> FALSE]]
      BY <2>1 DEF SyncConfig
    <2>3. config_change # None /\ UNCHANGED <<config, config_change>>
      BY <2>1 DEF SyncConfig, settings
    <2> QED
      BY <2>2, <2>3 DEF Typed
  <1>7. CASE MakeTray \/ SpawnTray \/ UpdateTray
    BY <1>7 DEF MakeTray, SpawnTray, UpdateTray, abroad
  <1>8. CASE ClickOnOff \/ ClickQuit
    BY <1>8 DEF ClickOnOff, ClickQuit, abroad
  <1>9. ASSUME NEW key \in Keys, ClickSetting(key) PROVE Choice'
    <2>1. PICK value \in ValuesOf(key) : Chooses(key, value)
      BY <1>9, ClickChooses
    <2>2. UNCHANGED config
      BY <1>9, ClickChooses
    <2>3. CASE key \in RuntimeKeys
      <3>1. config_change' # None
        BY <2>1, <2>3, ChosenType, RuntimeType, NoneAssumption DEF Chooses
      <3>2. \A d : DaemonShape(d) => [d EXCEPT !.unseen = TRUE].unseen
        BY DEF DaemonShape
      <3>3. daemons' = [b \in DOMAIN daemons |->
              IF daemons[b] = None THEN None ELSE [daemons[b] EXCEPT !.unseen = TRUE]]
        BY <2>1, <2>3 DEF Chooses
      <3>4. \A b \in Backends : daemons'[b] # None => daemons'[b].unseen
        BY <3>2, <3>3 DEF Typed
      <3> QED
        BY <3>1, <3>4
    <2>4. CASE key \notin RuntimeKeys
      BY <2>1, <2>2, <2>4 DEF Chooses
    <2> QED
      BY <2>3, <2>4
  <1>10. CASE Start
    BY <1>10 DEF Life, Up, Start
  <1>11. CASE Exit \/ Kill
    BY <1>11 DEF Typed, Exit, Kill, Down
  <1>12. CASE EditFile \/ UNCHANGED vars
    BY <1>12 DEF EditFile, vars, abroad
  <1> QED
    BY <1>1, <1>2, <1>3, <1>4, <1>5, <1>6, <1>7, <1>8, <1>9, <1>10, <1>11, <1>12 DEF Next

(* A save keeps what the tray does not manage, what is wrong there too,    *)
(* and the next load gives the settings that were saved.                   *)
LEMMA SaveKeeps ==
  ASSUME NEW f, NEW s, IsFile(f), IsSettings(s)
  PROVE  /\ save_config(f, s).kind = "toml" /\ save_config(f, s).tight = {}
         /\ \A k \in Keys : load_file(save_config(f, s))[k] = s[k]
         /\ save_config(f, s).wrong \subseteq {"other"}
         /\ f.kind = "toml" /\ f.tight = {} => save_config(f, s).other = f.other
  <1> DEFINE g == save_config(f, s)
  <1>1. g.kind = "toml" /\ g.tight = {} /\ g.keys = s
    BY DEF save_config, Edited, Generated, Toml, NoToml, IsToml, copy_config_example
  <1>2. \A k \in Keys : load_file(g)[k] = s[k]
    BY <1>1 DEF load_file, Over, IsSettings
  <1>3. f.kind = "toml" /\ f.tight = {} => g.other = f.other
    BY DEF save_config, Edited, Toml, IsToml
  <1>4. g.wrong \subseteq {"other"}
    BY DEF save_config, Edited, Generated, Toml, NoToml, IsToml, copy_config_example, IsFile
  <1> QED
    BY <1>1, <1>2, <1>3, <1>4

(* The wishes at first are what the file says.                             *)
LEMMA WishesInit == Init => Wishes
  BY DEF Init, Wishes, SettingsSurvive, WishOf, NoWish, Up, Off

(* A choice is saved with all that the tray shows, which is all the user   *)
(* wishes; a save that fails voids the wish.                               *)
LEMMA WishesSetting ==
  ASSUME Typed, Life, Wishes, NEW key \in Keys, ClickSetting(key)
  PROVE  Wishes'
  <1>1. PICK value \in ValuesOf(key) : Chooses(key, value)
    BY ClickChooses
  <1> DEFINE new == Chosen(key, value)
  <1>2. Up /\ tray.at = "up" /\ UNCHANGED <<world, supervisor>>
    BY ClickChooses DEF Life
  <1>3. tray'.at = "up" /\ tray'.settings = new
    BY <1>1, <1>2 DEF Typed, TrayShape, Chooses
  <1>4. \A k \in Keys \ {key} : new[k] = tray.settings[k]
    BY DEF Typed, IsSettings, Chosen
  <1>5. IsFile(file) /\ IsSettings(new)
    BY ChosenType DEF Typed
  <1>6. CASE file' = save_config(file, new) /\ wish' = [wish EXCEPT !.keys[key] = new[key]]
    <2>1. /\ file'.kind = "toml" /\ file'.tight = {} /\ file'.wrong \subseteq {"other"}
          /\ \A k \in Keys : load_file(file')[k] = new[k]
          /\ file.kind = "toml" /\ file.tight = {} => file'.other = file.other
      BY <1>5, <1>6, SaveKeeps
    <2>2. wish'.other = wish.other /\ wish'.keys[key] = new[key]
          /\ \A k \in Keys \ {key} : wish'.keys[k] = wish.keys[k]
      BY <1>6 DEF Typed
    <2>3. \A k \in Keys \ DOMAIN world.env : wish'.keys[k] # None => wish'.keys[k] = new[k]
      BY <1>2, <1>4, <2>2 DEF Wishes
    <2>4. SettingsSurvive'
      BY <1>2, <2>1, <2>2, <2>3 DEF Wishes, SettingsSurvive, Loads, IsToml
    <2> QED
      BY <1>2, <1>3, <2>1, <2>2, <2>3, <2>4 DEF Wishes
  <1>7. CASE file' = file /\ wish' = [wish EXCEPT !.keys[key] = None]
    <2>1. wish'.other = wish.other /\ wish'.keys[key] = None
          /\ \A k \in Keys \ {key} : wish'.keys[k] = wish.keys[k]
      BY <1>7 DEF Typed
    <2>2. \A k \in Keys \ DOMAIN world.env : wish'.keys[k] # None => wish'.keys[k] = new[k]
      BY <1>2, <1>4, <2>1 DEF Wishes
    <2>3. ~Loads(file) => wish' = NoWish \/ file.wrong = {"other"}
      BY <1>7 DEF Typed, Wishes, SettingsSurvive, NoWish
    <2>4. SettingsSurvive'
      BY <1>2, <1>7, <2>1, <2>3 DEF Wishes, SettingsSurvive
    <2> QED
      BY <1>2, <1>3, <1>7, <2>1, <2>2, <2>4 DEF Wishes
  <1> QED
    BY <1>1, <1>6, <1>7 DEF Chooses, Save

(* An edit while the daemon runs voids the wishes the tray does not share. *)
LEMMA WishesEdit ==
  ASSUME Typed, Wishes, EditFile
  PROVE  Wishes'
  <1>1. PICK f \in UserFiles : file' = f /\ wish' = WishOf(f)
    BY DEF EditFile
  <1>2. UNCHANGED <<world, config, supervisor, tray>>
    BY DEF EditFile, abroad
  <1>3. SettingsSurvive'
    BY <1>1, <1>2 DEF SettingsSurvive, WishOf, NoWish
  <1>4. wish'.other # None => file'.kind = "toml" /\ file'.tight = {}
    BY <1>1 DEF WishOf, NoWish
  <1>5. Up => \A k \in Keys : wish'.keys[k] # None => wish'.keys[k] = tray.settings[k]
    BY <1>1 DEF WishOf, NoWish
  <1> QED
    BY <1>2, <1>3, <1>4, <1>5 DEF Wishes, Up

(* Wishes is kept by every step.                                           *)
LEMMA WishesStep == ASSUME Typed, Life, Wishes, [Next]_vars PROVE Wishes'
  <1> DEFINE Same == UNCHANGED <<world, file, wish>>
  <1>0. ASSUME Same, UNCHANGED config, Up \/ ~Up', tray'.settings = tray.settings \/ ~Up',
               tray'.at = tray.at \/ tray.settings = config \/ ~Up'
        PROVE  Wishes'
    BY <1>0 DEF Wishes, SettingsSurvive
  <1>1. CASE \E r \in Requests : Ask(r) \/ HangUp(r) \/ Connection(r)
    <2>1. UNCHANGED <<elsewhere, supervisor>>
      BY <1>1 DEF Ask, HangUp, Connection, Connect, Accept, ReadLine, SendCommand, WriteReply
    <2> QED
      BY <1>0, <2>1 DEF elsewhere, Up
  <1>2. CASE AcceptFails \/ DelayOver
    BY <1>0, <1>2 DEF AcceptFails, DelayOver, elsewhere, Up
  <1>3. CASE EnterBackend \/ LeaveBackend \/ TransportEnds \/ ChannelCloses \/ TakeCommand
             \/ \E b \in Backends : SyncConfig(b)
    <2>1. UNCHANGED settings /\ Up
      BY <1>3 DEF EnterBackend, publish_backend, LeaveBackend, TransportEnds, ChannelCloses, TakeCommand, SyncConfig, Up, settings
    <2>2. tray'.settings = tray.settings /\ tray'.at = tray.at
      BY <1>3 DEF Typed, TrayShape, EnterBackend, publish_backend, LeaveBackend, TransportEnds, ChannelCloses, TakeCommand,
         handle_cmd, SyncConfig
    <2> QED
      BY <1>0, <2>1, <2>2 DEF settings
  <1>4. CASE MakeTray \/ SpawnTray \/ UpdateTray
    <2>1. UNCHANGED <<world, config, supervisor, file, wish>> /\ tray.at # "off"
      BY <1>4 DEF MakeTray, SpawnTray, UpdateTray, abroad
    <2>2. Up
      BY <2>1 DEF Life
    <2>3. CASE MakeTray
      <3>1. tray.settings = config /\ tray'.settings = config
        BY <2>2, <2>3 DEF Typed, TrayShape, Wishes, MakeTray
      <3> QED
        BY <1>0, <2>1, <2>2, <3>1
    <2>4. CASE SpawnTray
      <3>1. tray'.settings = tray.settings /\ tray.at # "up"
        BY <2>4 DEF Typed, TrayShape, SpawnTray
      <3> QED
        BY <1>0, <2>1, <2>2, <3>1 DEF Wishes
    <2>5. CASE UpdateTray
      <3>1. tray'.settings = tray.settings /\ tray'.at = tray.at
        BY <2>5 DEF Typed, TrayShape, UpdateTray
      <3> QED
        BY <1>0, <2>1, <2>2, <3>1
    <2> QED
      BY <1>4, <2>3, <2>4, <2>5
  <1>5. CASE ClickOnOff \/ ClickQuit
    BY <1>0, <1>5 DEF ClickOnOff, ClickQuit, abroad, Up
  <1>6. CASE \E key \in Keys : ClickSetting(key)
    BY <1>6, WishesSetting
  <1>7. CASE Start
    <2>1. /\ Same /\ Loads(file) /\ config' = load_from(file, world.env)
          /\ tray'.settings = config' /\ tray'.at # "up"
      BY <1>7 DEF Start, TrayOff
    <2>2. \A k \in Keys \ DOMAIN world.env : config'[k] = load_file(file)[k]
      BY <2>1 DEF load_from, Over
    <2> QED
      BY <2>1, <2>2 DEF Wishes, SettingsSurvive
  <1>8. CASE Exit \/ Kill
    <2>1. ~Up' /\ UNCHANGED <<world, config>>
      BY <1>8 DEF Exit, Kill, Down, Up, Off
    <2>2. CASE UNCHANGED <<file, wish>>
      BY <1>0, <2>1, <2>2
    <2>3. CASE wish' = NoWish
      BY <2>1, <2>3 DEF Wishes, SettingsSurvive, NoWish
    <2> QED
      BY <1>8, <2>2, <2>3 DEF Exit, Kill
  <1>9. CASE EditFile
    BY <1>9, WishesEdit
  <1>10. CASE UNCHANGED vars
    BY <1>0, <1>10 DEF vars, Up
  <1> QED
    BY <1>1, <1>2, <1>3, <1>4, <1>5, <1>6, <1>7, <1>8, <1>9, <1>10 DEF Next, Backends

(* The queue: it loses commands at its head and all at once, gains one at  *)
(* its end, and the requests of the others stay held.                      *)
Holding == \A r \in Requests : Held(request[r]) => Held(request'[r]) /\ request'[r].line = request[r].line

(* Queued is kept while the channel is not touched.                        *)
LEMMA QueuedFrame == ASSUME Queued, Holding, UNCHANGED queue PROVE Queued'
  BY DEF Queued, Holding, FromRequest, FromTray

(* Nothing is to be said of an empty channel.                              *)
LEMMA QueuedEmpty == ASSUME queue' = <<>> PROVE Queued'
  BY DEF Queued

(* A command is added: the tray's, or that of a request with none there.   *)
LEMMA QueuedAppend ==
  ASSUME Typed, Queued, Holding, NEW c \in Command, queue' = Append(queue, c),
         \/ c.by = "tray" /\ FromTray(c)
         \/ /\ c.by \in Requests /\ c.shown = None /\ ~Held(request[c.by])
            /\ Held(request'[c.by]) /\ request'[c.by].line = c.line
  PROVE  Queued'
  <1>1. /\ DOMAIN queue = 1..Len(queue) /\ DOMAIN queue' = 1..(Len(queue) + 1) /\ Len(queue) \in Nat
        /\ queue'[Len(queue) + 1] = c
        /\ \A i \in DOMAIN queue : queue'[i] = queue[i]
    BY DEF Typed
  <1>2. \A i \in DOMAIN queue : queue[i].by # "tray" => FromRequest(queue[i])
    BY DEF Queued
  <1>3. ASSUME NEW i \in DOMAIN queue'
        PROVE  \/ queue'[i].by = "tray" /\ FromTray(queue'[i])
               \/ FromRequest(queue[i])' 
    <2>1. CASE i = Len(queue) + 1
      BY <1>1, <2>1 DEF FromRequest
    <2>2. CASE i \in DOMAIN queue
      BY <1>1, <2>2 DEF Queued, Holding, FromRequest
    <2> QED
      BY <1>1, <2>1, <2>2
  <1>4. ASSUME NEW i \in DOMAIN queue', NEW j \in DOMAIN queue',
               queue'[i].by = queue'[j].by, queue'[i].by # "tray"
        PROVE  i = j
    <2>1. CASE i \in DOMAIN queue /\ j \in DOMAIN queue
      BY <1>1, <1>4, <2>1 DEF Queued
    <2>2. CASE i \in DOMAIN queue /\ j = Len(queue) + 1
      BY <1>1, <1>2, <1>4, <2>2 DEF FromRequest
    <2>3. CASE i = Len(queue) + 1 /\ j \in DOMAIN queue
      BY <1>1, <1>2, <1>4, <2>3 DEF FromRequest
    <2> QED
      BY <1>1, <2>1, <2>2, <2>3
  <1> QED
    BY <1>3, <1>4 DEF Queued, FromTray

(* The first command is taken: those behind it are of other requests.      *)
LEMMA QueuedTail ==
  ASSUME Typed, Queued, queue # <<>>, queue' = Tail(queue),
         \A r \in Requests : r # Head(queue).by => request'[r] = request[r]
  PROVE  Queued'
  <1>1. /\ DOMAIN queue = 1..Len(queue) /\ Len(queue) \in Nat \ {0}
        /\ DOMAIN queue' = 1..(Len(queue) - 1) /\ Head(queue) = queue[1]
        /\ \A i \in DOMAIN queue' : queue'[i] = queue[i + 1]
    BY DEF Typed
  <1>2. ASSUME NEW i \in DOMAIN queue'
        PROVE  i + 1 \in DOMAIN queue /\ i + 1 # 1 /\ 1 \in DOMAIN queue
    BY <1>1
  <1>3. ASSUME NEW i \in DOMAIN queue'
        PROVE  \/ queue'[i].by = "tray" /\ FromTray(queue'[i])
               \/ FromRequest(queue[i])'
    <2>1. CASE queue[i + 1].by = "tray"
      BY <1>1, <1>2, <2>1, ControlAssumption DEF Queued, FromRequest
    <2>2. CASE queue[i + 1].by # "tray"
      <3>1. FromRequest(queue[i + 1]) /\ queue[i + 1].by # Head(queue).by
        BY <1>1, <1>2, <2>2 DEF Queued
      <3> QED
        BY <1>1, <3>1 DEF FromRequest
    <2> QED
      BY <2>1, <2>2
  <1>4. ASSUME NEW i \in DOMAIN queue', NEW j \in DOMAIN queue',
               queue'[i].by = queue'[j].by, queue'[i].by # "tray"
        PROVE  i = j
    <2>1. i + 1 = j + 1
      BY <1>1, <1>2, <1>4 DEF Queued
    <2> QED
      BY <1>1, <2>1
  <1> QED
    BY <1>3, <1>4 DEF Queued, FromTray

(* Unanswered is kept by every step.                                       *)
LEMMA UnansweredStep == ASSUME Typed, Unanswered, [Next]_vars PROVE Unanswered'
  <1>0. request \in [Requests -> Request \cup {None}]
    BY DEF Typed
  <1>1. ASSUME NEW r \in Requests, Ask(r) \/ HangUp(r) \/ Connection(r) PROVE Unanswered'
    <2>1. \A x \in Requests \ {r} : request'[x] = request[x]
      BY <1>0, <1>1 DEF Ask, HangUp, Connection, Connect, Accept, ReadLine, SendCommand, WriteReply, LoseAll
    <2>2. CASE Ask(r)
      <3>1. PICK line \in world.lines :
              request' = [request EXCEPT ![r] = [line |-> line, gone |-> FALSE, at |-> "asking", reply |-> ""]]
        BY <2>2 DEF Ask
      <3>2. request'[r].reply = ""
        BY <1>0, <3>1
      <3> QED
        BY <2>1, <3>2 DEF Unanswered
    <2>3. CASE HangUp(r)
      <3>1. request[r] \in Request /\ request'[r] = [request[r] EXCEPT !.gone = TRUE]
        BY <1>0, <2>3, PendingType DEF HangUp
      <3> QED
        BY <1>0, <2>1, <3>1, NoneAssumption DEF Request, Unanswered
    <2>4. CASE Connect(r)
      BY <1>0, <2>1, <2>4 DEF Connect, At, Unanswered, Request
    <2>5. CASE Accept(r)
      <3>1. request[r] \in Request /\ request[r].at = "connected"
        BY <1>0, <2>5 DEF Accept, At
      <3>2. request[r].reply = ""
        BY <3>1, NoneAssumption DEF Unanswered
      <3>3. \/ request'[r] = [request[r] EXCEPT !.at = "lost", !.reply = ""]
            \/ request'[r] = [request[r] EXCEPT !.at = "reading"]
        BY <1>0, <2>5 DEF Accept, LoseAll
      <3>4. [request[r] EXCEPT !.at = "lost", !.reply = ""].reply = ""
        BY <3>1, CutOff, Zenon
      <3>5. [request[r] EXCEPT !.at = "reading"].reply = request[r].reply
        BY <3>1 DEF Request
      <3>6. request'[r].reply = ""
        BY <3>2, <3>3, <3>4, <3>5
      <3> QED
        BY <2>1, <3>6 DEF Unanswered
    <2>6. CASE ReadLine(r)
      BY <1>0, <2>1, <2>6 DEF ReadLine, Answered, At, Unanswered, Request
    <2>7. CASE SendCommand(r)
      BY <1>0, <2>1, <2>7 DEF SendCommand, Answered, At, Unanswered, Request
    <2>8. CASE WriteReply(r)
      BY <1>0, <2>1, <2>8 DEF WriteReply, Answered, At, Unanswered, Request
    <2> QED
      BY <1>1, <2>2, <2>3, <2>4, <2>5, <2>6, <2>7, <2>8 DEF Connection
  <1>2. ASSUME request' = LoseAll(Pending) PROVE Unanswered'
    BY <1>0, <1>2, PendingType DEF LoseAll, Unanswered, Request
  <1>3. ASSUME CloseChannel PROVE Unanswered'
    BY <1>0, <1>3 DEF CloseChannel, At, Unanswered, Request
  <1>4. CASE AcceptFails \/ DelayOver
    BY <1>2, <1>4 DEF AcceptFails, DelayOver, Unanswered
  <1>5. CASE EnterBackend \/ LeaveBackend \/ TransportEnds \/ ChannelCloses
    BY <1>3, <1>5 DEF EnterBackend, publish_backend, LeaveBackend, TransportEnds, ChannelCloses, GoTo, Ends, socket, Unanswered
  <1>6. CASE TakeCommand
    <2>1. \A r \in Requests : request'[r] = request[r] \/ At(r, {"waiting"})
      BY <1>6 DEF TakeCommand
    <2>2. \A r \in Requests : At(r, {"waiting"}) => request'[r].at = "waiting"
      BY <1>0, <1>6 DEF TakeCommand, At, Request
    <2> QED
      BY <2>1, <2>2 DEF Unanswered
  <1>7. CASE \/ \E b \in Backends : SyncConfig(b)
             \/ MakeTray \/ SpawnTray \/ UpdateTray \/ ClickOnOff \/ ClickQuit
             \/ \E key \in Keys : ClickSetting(key)
             \/ Start \/ EditFile \/ UNCHANGED vars
    <2>1. UNCHANGED request
      BY <1>7, ClickChooses DEF SyncConfig, MakeTray, SpawnTray, UpdateTray, ClickOnOff, ClickQuit,
         Start, EditFile, vars, abroad, socket
    <2> QED
      BY <2>1 DEF Unanswered
  <1>8. CASE Exit \/ Kill
    BY <1>2, <1>8 DEF Exit, Kill, Down
  <1> QED
    BY <1>1, <1>4, <1>5, <1>6, <1>7, <1>8 DEF Next, Backends

(* Asking is kept by every step.                                           *)
LEMMA AskingStep == ASSUME Typed, Asking, [Next]_vars PROVE Asking'
  <1>0. request \in [Requests -> Request \cup {None}] /\ \A r \in Requests : request[r] # None => request[r] \in Request
    BY DEF Typed
  <1>1. ASSUME NEW r \in Requests, Ask(r) \/ HangUp(r) \/ Connection(r) PROVE Asking'
    <2>1. \A x \in Requests \ {r} : request'[x] = request[x]
      BY <1>0, <1>1 DEF Ask, HangUp, Connection, Connect, Accept, ReadLine, SendCommand, WriteReply, LoseAll
    <2>2. CASE Ask(r)
      <3>1. PICK line \in world.lines :
              request' = [request EXCEPT ![r] = [line |-> line, gone |-> FALSE, at |-> "asking", reply |-> ""]]
        BY <2>2 DEF Ask
      <3>2. ~request'[r].gone
        BY <1>0, <3>1
      <3> QED
        BY <2>1, <3>2 DEF Asking, At
    <2>3. CASE HangUp(r) \/ Connection(r)
      <3>1. request[r] \in Request
        BY <1>0, <2>3, PendingType DEF HangUp, Connection, Connect, Accept, ReadLine, SendCommand, WriteReply, At
      <3>2. request'[r].at # "asking"
        <4>1. CASE HangUp(r)
          <5>1. request'[r] = [request[r] EXCEPT !.gone = TRUE] /\ request[r].at # "asking"
            BY <1>0, <4>1 DEF HangUp, Pending, Accepted, At
          <5> QED
            BY <3>1, <5>1 DEF Request
        <4>2. CASE Connection(r)
          <5>1. CASE Connect(r)
            BY <1>0, <3>1, <5>1 DEF Connect, Request
          <5>2. CASE Accept(r)
            <6>1. \/ request'[r] = [request[r] EXCEPT !.at = "lost", !.reply = ""]
                  \/ request'[r] = [request[r] EXCEPT !.at = "reading"]
              BY <1>0, <5>2 DEF Accept, LoseAll
            <6>2. [request[r] EXCEPT !.at = "lost", !.reply = ""].at = "lost"
              BY <3>1, CutOff, Zenon
            <6>3. [request[r] EXCEPT !.at = "reading"].at = "reading"
              BY <3>1 DEF Request
            <6> QED
              BY <6>1, <6>2, <6>3
          <5>3. CASE ReadLine(r)
            <6>1. request'[r] = Answered(request[r], "err") \/ request'[r] = [request[r] EXCEPT !.at = "sending"]
              BY <1>0, <5>3 DEF ReadLine
            <6>2. [request[r] EXCEPT !.at = "sending"].at = "sending"
              BY <3>1 DEF Request
            <6> QED
              BY <3>1, <6>1, <6>2, AnsweredFields DEF Replies
          <5>4. CASE SendCommand(r)
            <6>1. request'[r] = Answered(request[r], "err") \/ request'[r] = [request[r] EXCEPT !.at = "waiting"]
              BY <1>0, <5>4 DEF SendCommand
            <6>2. [request[r] EXCEPT !.at = "waiting"].at = "waiting"
              BY <3>1 DEF Request
            <6> QED
              BY <3>1, <6>1, <6>2, AnsweredFields DEF Replies
          <5>5. CASE WriteReply(r)
            BY <1>0, <3>1, <5>5 DEF WriteReply, Answered, Request
          <5> QED
            BY <4>2, <5>1, <5>2, <5>3, <5>4, <5>5 DEF Connection
        <4> QED
          BY <2>3, <4>1, <4>2
      <3> QED
        BY <2>1, <3>2 DEF Asking, At
    <2> QED
      BY <1>1, <2>2, <2>3
  <1>2. ASSUME request' = LoseAll(Pending) PROVE Asking'
    <2>1. ASSUME NEW r \in Pending PROVE request'[r].at = "lost"
      BY <1>0, <1>2, PendingType, CutOff DEF LoseAll
    <2>2. \A r \in Requests \ Pending : request'[r] = request[r]
      BY <1>2 DEF LoseAll
    <2> QED
      BY <2>1, <2>2 DEF Asking, At
  <1>3. ASSUME \A r \in Requests : request'[r] = request[r] \/
                                  (At(r, {"waiting"}) /\ \E reply : request'[r] = [request[r] EXCEPT !.reply = reply])
        PROVE  Asking'
    <2>1. ASSUME NEW r \in Requests, At(r, {"waiting"}), NEW reply, request'[r] = [request[r] EXCEPT !.reply = reply]
          PROVE  request'[r].at = "waiting"
      BY <1>0, <2>1 DEF At, Request
    <2> QED
      BY <1>3, <2>1 DEF Asking, At
  <1>4. CASE AcceptFails \/ DelayOver
    BY <1>2, <1>3, <1>4 DEF AcceptFails, DelayOver
  <1>5. CASE EnterBackend \/ LeaveBackend \/ TransportEnds \/ ChannelCloses
    BY <1>3, <1>5 DEF EnterBackend, publish_backend, LeaveBackend, TransportEnds, ChannelCloses, GoTo, Ends, CloseChannel, socket
  <1>6. CASE TakeCommand
    BY <1>3, <1>6 DEF TakeCommand
  <1>7. CASE \/ \E b \in Backends : SyncConfig(b)
             \/ MakeTray \/ SpawnTray \/ UpdateTray \/ ClickOnOff \/ ClickQuit
             \/ \E key \in Keys : ClickSetting(key)
             \/ Start \/ EditFile \/ UNCHANGED vars
    <2>1. UNCHANGED request
      BY <1>7, ClickChooses DEF SyncConfig, MakeTray, SpawnTray, UpdateTray, ClickOnOff, ClickQuit,
         Start, EditFile, vars, abroad, socket
    <2> QED
      BY <1>3, <2>1
  <1>8. CASE Exit \/ Kill
    BY <1>2, <1>8 DEF Exit, Kill, Down
  <1> QED
    BY <1>1, <1>4, <1>5, <1>6, <1>7, <1>8 DEF Next, Backends

(* Queued is kept by every step.                                           *)
LEMMA QueuedStep == ASSUME Typed, Life, Unanswered, Queued, [Next]_vars PROVE Queued'
  <1>0. request \in [Requests -> Request \cup {None}]
    BY DEF Typed
  <1>1. ASSUME NEW r \in Requests, Ask(r) \/ HangUp(r) \/ Connection(r) PROVE Queued'
    <2>1. \A x \in Requests \ {r} : request'[x] = request[x]
      BY <1>0, <1>1 DEF Ask, HangUp, Connection, Connect, Accept, ReadLine, SendCommand, WriteReply, LoseAll
    <2>2. ASSUME ~Held(request[r]), UNCHANGED queue PROVE Queued'
      BY <2>1, <2>2, QueuedFrame DEF Holding
    <2>3. CASE HangUp(r)
      <3>1. request[r] \in Request /\ request'[r] = [request[r] EXCEPT !.gone = TRUE]
        BY <1>0, <2>3, PendingType DEF HangUp
      <3>2. /\ request'[r] # None /\ request'[r].line = request[r].line
            /\ request'[r].at = request[r].at /\ request'[r].reply = request[r].reply
        BY <3>1, HungUp, Zenon
      <3>3. Holding
        BY <2>1, <3>2 DEF Holding, Held
      <3> QED
        BY <2>3, <3>3, QueuedFrame DEF HangUp
    <2>4. CASE SendCommand(r) /\ ChannelOpen
      <3>1. request[r] \in Request /\ request[r].at = "sending" /\ request[r].reply = ""
        BY <1>0, <2>4 DEF SendCommand, At, Unanswered
      <3>2. request'[r] = [request[r] EXCEPT !.at = "waiting"]
        BY <1>0, <2>4 DEF SendCommand
      <3>3. request'[r] \in Request
        BY <3>1, <3>2, RequestType DEF Places, Replies
      <3>4. /\ Held(request'[r]) /\ request'[r].line = request[r].line
            /\ ~Held(request[r]) /\ request[r].line \in Lines
        BY <3>1, <3>2, <3>3, NoneAssumption DEF Held, Request
      <3>5. Holding
        BY <2>1, <3>4 DEF Holding
      <3> DEFINE c == [line |-> request[r].line, by |-> r, shown |-> None]
      <3>6. c \in Command /\ c.by = r /\ c.shown = None /\ c.line = request[r].line
        BY <3>4 DEF Command
      <3>7. queue' = Append(queue, c)
        BY <2>4 DEF SendCommand
      <3> HIDE DEF c
      <3> QED
        BY <3>4, <3>5, <3>6, <3>7, QueuedAppend
    <2>5. CASE Ask(r) \/ Connect(r) \/ Accept(r) \/ ReadLine(r) \/ WriteReply(r)
               \/ (SendCommand(r) /\ ~ChannelOpen)
      <3>1. ~Held(request[r]) /\ UNCHANGED queue
        BY <2>5 DEF Ask, Connect, Accept, ReadLine, WriteReply, SendCommand, At, Held
      <3> QED
        BY <2>2, <3>1
    <2> QED
      BY <1>1, <2>3, <2>4, <2>5 DEF Connection
  <1>2. CASE AcceptFails \/ DelayOver
    <2>1. request' = request \/ request' = LoseAll(Pending)
      BY <1>2 DEF AcceptFails, DelayOver
    <2>2. \A q \in Request : /\ Held([q EXCEPT !.at = "lost", !.reply = ""])
                             /\ [q EXCEPT !.at = "lost", !.reply = ""].line = q.line
      BY CutOff DEF Held
    <2>3. Holding
      BY <1>0, <2>1, <2>2, PendingType DEF Holding, LoseAll
    <2> QED
      BY <1>2, <2>3, QueuedFrame DEF AcceptFails, DelayOver
  <1>3. CASE EnterBackend \/ LeaveBackend \/ TransportEnds \/ ChannelCloses
    <2>1. queue' = <<>> \/ UNCHANGED socket
      BY <1>3 DEF EnterBackend, publish_backend, LeaveBackend, TransportEnds, ChannelCloses, GoTo, Ends, CloseChannel, socket
    <2> QED
      BY <2>1, QueuedEmpty, QueuedFrame DEF Holding, socket
  <1>4. CASE TakeCommand
    BY <1>4, QueuedTail DEF TakeCommand
  <1>5. CASE \/ \E b \in Backends : SyncConfig(b)
             \/ MakeTray \/ SpawnTray \/ UpdateTray \/ Start \/ EditFile \/ UNCHANGED vars
    <2>1. UNCHANGED <<queue, request>>
      BY <1>5 DEF SyncConfig, MakeTray, SpawnTray, UpdateTray, Start, EditFile, vars, abroad, socket
    <2> QED
      BY <2>1, QueuedFrame DEF Holding
  <1>6. ASSUME NEW line \in Lines, NEW shown \in BOOLEAN \cup {None}, fire(line, shown),
               UNCHANGED request,
               IF shown = None THEN line \notin SetsOnOff ELSE line = IF shown THEN "enable" ELSE "disable"
        PROVE  Queued'
    <2> DEFINE c == [line |-> line, by |-> "tray", shown |-> shown]
    <2>1. c \in Command /\ c.by = "tray" /\ FromTray(c)
      BY <1>6 DEF Command, FromTray
    <2>2. UNCHANGED queue \/ queue' = Append(queue, c)
      BY <1>6 DEF fire
    <2>3. Holding
      BY <1>6 DEF Holding
    <2> HIDE DEF c
    <2> QED
      BY <2>1, <2>2, <2>3, QueuedFrame, QueuedAppend
  <1>7. CASE ClickOnOff \/ ClickQuit
    <2>1. {"enable", "disable", "quit"} \subseteq Lines /\ "quit" \notin SetsOnOff
      BY DEF Lines, Commands, SetsOnOff
    <2>2. CASE ClickQuit
      BY <1>6, <2>1, <2>2 DEF ClickQuit, abroad
    <2>3. CASE ClickOnOff
      <3>1. tray.on \in BOOLEAN
        BY DEF Typed, TrayShape
      <3>2. fire(IF tray.on THEN "disable" ELSE "enable", ~tray.on) /\ UNCHANGED request
        BY <2>3 DEF ClickOnOff, abroad
      <3>3. (~tray.on) \in BOOLEAN \ {None}
        BY <3>1, NoneAssumption
      <3>4. CASE tray.on
        BY <1>6, <2>1, <3>2, <3>3, <3>4
      <3>5. CASE ~tray.on
        BY <1>6, <2>1, <3>2, <3>3, <3>5
      <3> QED
        BY <3>4, <3>5
    <2> QED
      BY <1>7, <2>2, <2>3
  <1>8. ASSUME NEW key \in Keys, ClickSetting(key) PROVE Queued'
    <2>1. PICK value \in ValuesOf(key) : Chooses(key, value)
      BY <1>8, ClickChooses
    <2>2. UNCHANGED request
      BY <1>8, ClickChooses
    <2>3. \/ UNCHANGED queue
          \/ \E line \in {"use evdev", "use native"} : fire(line, None)
      BY <2>1 DEF Chooses
    <2>4. {"use evdev", "use native"} \subseteq Lines \ SetsOnOff
      BY DEF Lines, Commands, SetsOnOff
    <2>5. CASE UNCHANGED queue
      BY <2>2, <2>5, QueuedFrame DEF Holding
    <2> QED
      BY <1>6, <2>2, <2>3, <2>4, <2>5
  <1>9. CASE Exit \/ Kill
    BY <1>9, QueuedEmpty DEF Exit, Kill, Down
  <1> QED
    BY <1>1, <1>2, <1>3, <1>4, <1>5, <1>7, <1>8, <1>9 DEF Next, Backends

(* The inductive invariant holds at first.                                 *)
LEMMA IInvInit == Init => IInv
  <1> SUFFICES ASSUME Init PROVE IInv
    OBVIOUS
  <1>1. Life
    BY DEF Init, Life, Up, Off, TrayOff, Backends
  <1>2. Mirror
    BY DEF Init, Mirror, TrayOff
  <1>3. Choice
    BY DEF Init, Choice, ChoiceReachesDaemon, Backends
  <1>4. Queued /\ Unanswered /\ Asking
    BY DEF Init, Queued, Unanswered, Asking, At
  <1> QED
    BY <1>1, <1>2, <1>3, <1>4, TypedInit, WishesInit DEF IInv

(* Every step keeps the inductive invariant.                               *)
LEMMA IInvStep == IInv /\ [Next]_vars => IInv'
  BY TypedStep, LifeStep, MirrorStep, ChoiceStep, WishesStep, QueuedStep, UnansweredStep, AskingStep DEF IInv

(* The inductive invariant holds in every state of the control plane: of   *)
(* the socket, the command channel, the tray and the supervisor.           *)
THEOREM IInvInvariant == Spec => []IInv
  BY IInvInit, IInvStep, PTL DEF Spec

(* Every variable has its type, and the command channel never exceeds its  *)
(* slots, whoever sends, waits or drops (ipc.rs, tray.rs fire).            *)
THEOREM TypeInvariant == Spec => []TypeOK
  <1>1. IInv => TypeOK
    <2> SUFFICES ASSUME Typed PROVE TypeOK
      BY DEF IInv
    <2>1. \A b \in Backends : daemons[b] # None =>
             DOMAIN daemons[b].using = RuntimeKeys /\ daemons[b].unseen \in BOOLEAN
      BY DEF Typed, DaemonShape, RuntimeSettings, RuntimeKeys
    <2>2. server.at \in {"off", "listening", "delay"} /\ server.failures \in 0..2
      BY DEF Typed, ServerState
    <2>3. IsTray(tray)
      BY DEF Typed, TrayShape, IsTray
    <2> QED
      BY <2>1, <2>2, <2>3 DEF Typed, TypeOK, Backends
  <1> QED
    BY <1>1, IInvInvariant, PTL

(* The tray that has taken what its watch channels hold shows the daemon's *)
(* on/off state and backend, also if it registered late or a second time   *)
(* (tray.rs make_tray and run_tray, supervisor.rs handle_cmd).             *)
THEOREM MirrorFollowsTheorem == Spec => []MirrorFollows
  <1>1. IInv => MirrorFollows
    BY DEF IInv, Mirror, MirrorFollows
  <1> QED
    BY <1>1, IInvInvariant, PTL

(* A Daemon that has polled uses the method and tone style chosen last,    *)
(* whichever backend it serves and whenever it was made (handler.rs        *)
(* sync_config, supervisor.rs run).                                        *)
THEOREM ChoiceReachesDaemonTheorem == Spec => []ChoiceReachesDaemon
  <1>1. IInv => ChoiceReachesDaemon
    BY DEF IInv, Choice
  <1> QED
    BY <1>1, IInvInvariant, PTL

(* The next start finds the settings as last asked for, and a failing or   *)
(* torn save is known to void them. A file whose other settings are wrong  *)
(* keeps them wrong and does not load; no other save leaves such a file    *)
(* (tray.rs save_config, config.rs load_from).                             *)
THEOREM SettingsSurviveTheorem == Spec => []SettingsSurvive
  <1>1. IInv => SettingsSurvive
    BY DEF IInv, Wishes
  <1> QED
    BY <1>1, IInvInvariant, PTL

(* A click on On or Off does what the entry said, whatever is served       *)
(* between the click and its command (tray.rs activate and menu,           *)
(* supervisor.rs handle_cmd).                                              *)
THEOREM ClickDoesWhatItSaidTheorem == Spec => ClickDoesWhatItSaid
  <1>1. ASSUME IInv, TakeCommand, Head(queue).shown # None
        PROVE  supervisor'.on = Head(queue).shown
    <2> DEFINE c == Head(queue)
    <2>1. queue \in Seq(Command) /\ queue # <<>> /\ supervisor \in Supervisor
      BY <1>1 DEF IInv, Typed, TakeCommand
    <2>2. 1 \in DOMAIN queue /\ c = queue[1] /\ c \in Command
      BY <2>1
    <2>3. FromTray(c) /\ c.shown \in BOOLEAN
      BY <1>1, <2>2 DEF IInv, Queued, FromRequest, Command
    <2>4. c.line = IF c.shown THEN "enable" ELSE "disable"
      BY <1>1, <2>3 DEF FromTray
    <2>5. PICK reply \in Replies : handle_cmd(c.line, reply)
      BY <1>1 DEF TakeCommand
    <2> HIDE DEF c
    <2>6. CASE c.shown = TRUE
      <3>1. c.line = "enable"
        BY <2>4, <2>6
      <3>2. supervisor' = [supervisor EXCEPT !.on = TRUE]
        BY <2>5, <3>1 DEF handle_cmd, SetsOnOff
      <3> QED
        BY <2>1, <2>6, <3>2 DEF Supervisor, c
    <2>7. CASE c.shown = FALSE
      <3>1. c.line = "disable"
        BY <2>4, <2>7
      <3>2. supervisor' = [supervisor EXCEPT !.on = FALSE]
        BY <2>5, <3>1 DEF handle_cmd, SetsOnOff
      <3> QED
        BY <2>1, <2>7, <3>2 DEF Supervisor, c
    <2> QED
      BY <2>3, <2>6, <2>7 DEF c
  <1>2. IInv /\ [Next]_vars => [(TakeCommand /\ Head(queue).shown # None) => supervisor'.on = Head(queue).shown]_vars
    BY <1>1
  <1> QED
    BY <1>2, IInvInvariant, PTL DEF Spec, ClickDoesWhatItSaid


-----------------------------------------------------------------------------
(***************************************************************************)
(* The control plane implements the service of OnOffService: theorem       *)
(* ImplementsServiceTheorem, for every value of the constants.             *)
(*                                                                         *)
(* The refinement mapping is Abstract in Control: a request that has not   *)
(* been served is asked (or left, once its client is gone), one that has   *)
(* its reply is taken, and a lost one is left for as long as its command   *)
(* is queued. The proof first says what the abstract steps are in terms of *)
(* the abstract requests, then how the place of a request follows from     *)
(* where its connection is, and then goes through the actions. A request   *)
(* takes effect when its command is taken from the channel, neither when   *)
(* it is sent nor when its reply is written. The proof rests on IInv: no   *)
(* request has two commands queued, and a queued command is that of a      *)
(* request which waits without a reply or has been cut off.                *)
(***************************************************************************)

(* The clicks on the tray's on/off entry among the commands.               *)
ClickSet(s) == {i \in DOMAIN s : s[i].shown # None}

(* The clicks can be counted.                                              *)
LEMMA ClickSetFinite ==
  ASSUME NEW s \in Seq(Command)
  PROVE  IsFiniteSet(ClickSet(s)) /\ Cardinality(ClickSet(s)) \in Nat
  <1>1. ClickSet(s) \in SUBSET (1..Len(s)) /\ Len(s) \in Nat
    BY DEF ClickSet
  <1>2. IsFiniteSet(1..Len(s))
    BY <1>1, FS_Interval
  <1>3. IsFiniteSet(ClickSet(s))
    BY <1>1, <1>2, FS_Subset
  <1> QED
    BY <1>3, FS_CardinalityType

(* A command is added: one click more if it is one.                        *)
LEMMA ClicksAppend ==
  ASSUME NEW s \in Seq(Command), NEW c \in Command
  PROVE  Cardinality(ClickSet(Append(s, c))) =
           Cardinality(ClickSet(s)) + IF c.shown # None THEN 1 ELSE 0
  <1> DEFINE n == Len(s) + 1
  <1>1. /\ Append(s, c) \in Seq(Command) /\ DOMAIN Append(s, c) = 1..n /\ Append(s, c)[n] = c
        /\ DOMAIN s = 1..Len(s) /\ Len(s) \in Nat /\ \A i \in DOMAIN s : Append(s, c)[i] = s[i]
    OBVIOUS
  <1>2. n \notin ClickSet(s)
    BY <1>1 DEF ClickSet
  <1>3. CASE c.shown # None
    <2>1. ClickSet(Append(s, c)) = ClickSet(s) \cup {n}
      BY <1>1, <1>3 DEF ClickSet
    <2> QED
      BY <1>2, <1>3, <2>1, ClickSetFinite, FS_AddElement
  <1>4. CASE c.shown = None
    <2>1. ClickSet(Append(s, c)) = ClickSet(s)
      BY <1>1, <1>4 DEF ClickSet
    <2> QED
      BY <1>4, <2>1, ClickSetFinite
  <1> QED
    BY <1>3, <1>4

(* The first command is taken: one click less if it was one.               *)
LEMMA ClicksTail ==
  ASSUME NEW s \in Seq(Command), s # <<>>
  PROVE  Cardinality(ClickSet(s)) =
           Cardinality(ClickSet(Tail(s))) + IF Head(s).shown # None THEN 1 ELSE 0
  <1> DEFINE t == Tail(s)
             T == ClickSet(s) \ {1}
  <1>1. /\ t \in Seq(Command) /\ DOMAIN s = 1..Len(s) /\ Len(s) \in Nat \ {0} /\ Head(s) = s[1]
        /\ DOMAIN t = 1..(Len(s) - 1) /\ \A i \in DOMAIN t : t[i] = s[i + 1]
    OBVIOUS
  <1>2. Cardinality(T) = Cardinality(ClickSet(t))
    <2> DEFINE f == [i \in ClickSet(t) |-> i + 1]
    <2>1. f \in [ClickSet(t) -> T]
      BY <1>1 DEF ClickSet
    <2>2. \A i, j \in ClickSet(t) : f[i] = f[j] => i = j
      BY <1>1 DEF ClickSet
    <2>3. ASSUME NEW j \in T PROVE \E i \in ClickSet(t) : f[i] = j
      <3>1. j - 1 \in ClickSet(t) /\ (j - 1) + 1 = j
        BY <1>1 DEF ClickSet
      <3> QED
        BY <3>1
    <2>4. f \in Bijection(ClickSet(t), T)
      <3> HIDE DEF f, T
      <3> QED
        BY <2>1, <2>2, <2>3 DEF Bijection, Injection, Surjection, IsInjective
    <2>5. ExistsBijection(ClickSet(t), T)
      BY <2>4 DEF ExistsBijection
    <2> QED
      BY <1>1, <2>5, ClickSetFinite, FS_Bijection
  <1>3. 1 \in ClickSet(s) <=> Head(s).shown # None
    BY <1>1 DEF ClickSet
  <1>4. Cardinality(T) = IF 1 \in ClickSet(s) THEN Cardinality(ClickSet(s)) - 1 ELSE Cardinality(ClickSet(s))
    BY ClickSetFinite, FS_RemoveElement
  <1>5. Cardinality(ClickSet(s)) \in Nat
    BY ClickSetFinite
  <1> QED
    BY <1>2, <1>3, <1>4, <1>5

(* No commands, no clicks.                                                 *)
LEMMA ClicksEmpty == ClickSet(<<>>) = {} /\ Cardinality(ClickSet(<<>>)) = 0
  BY FS_EmptySet DEF ClickSet

-----------------------------------------------------------------------------
(* The abstract steps, request by request.                                 *)

Clicked == Cardinality(ClickSet(queue))

IsAt(a, states) == a # None /\ a.at \in states

(* A request is refused, or what was decided of it is answered.            *)
LEMMA AbstractStep ==
  ASSUME UNCHANGED Up, UNCHANGED supervisor.on, UNCHANGED supervisor.published, UNCHANGED Clicked,
         NEW r \in Requests, \A x \in Requests \ {r} : Abstract(x)' = Abstract(x),
         \/ /\ IsAt(Abstract(r), {"asked"})
            /\ Abstract(r)' = Service!Now(Abstract(r), "answered", "err")
         \/ /\ IsAt(Abstract(r), {"taken"})
            /\ Abstract(r)' = Service!Now(Abstract(r), "answered", Abstract(r).reply)
  PROVE  Service!Next
  BY DEF Service!Next, Service!Refuse, Service!Answer, Service!At, IsAt, Clicked, ClickSet

(* Some requests are lost or left, clicks may go, the daemon may end.      *)
LEMMA LoseStep ==
  ASSUME Up' => Up, UNCHANGED supervisor.on, Clicked' \in 0..Clicked,
         supervisor'.published = IF Up' THEN supervisor.published ELSE "auto",
         \A r \in Requests :
           \/ Abstract(r)' = Abstract(r)
           \/ /\ IsAt(Abstract(r), {"asked", "left", "taken"})
              /\ Abstract(r)' = Service!Now(Abstract(r), "lost", "")
           \/ /\ IsAt(Abstract(r), {"asked", "left"})
              /\ Abstract(r)' = Service!Now(Abstract(r), "left", "")
  PROVE  Service!Next
  <1> DEFINE some == {r \in Requests : Abstract(r)' # Abstract(r)}
             left == {r \in some : Abstract(r)' = Service!Now(Abstract(r), "left", "")
                                    /\ IsAt(Abstract(r), {"asked", "left"})}
  <1>1. \A r \in some : IsAt(Abstract(r), {"asked", "left", "taken"})
    BY DEF IsAt
  <1>2. left \in SUBSET {r \in some : IsAt(Abstract(r), {"asked", "left"})}
    OBVIOUS
  <1>3. \A r \in some : Abstract(r)' = Service!Now(Abstract(r), IF r \in left THEN "left" ELSE "lost", "")
    OBVIOUS
  <1>4. \A r \in Requests \ some : Abstract(r)' = Abstract(r)
    OBVIOUS
  <1> HIDE DEF left
  <1> HIDE DEF some
  <1>5. some \in SUBSET Requests
    BY DEF some
  <1>6. \A r \in some : Service!At(r, {"asked", "left", "taken"})
    BY <1>1, <1>5 DEF Service!At, IsAt
  <1>7. left \in SUBSET {r \in some : Service!At(r, {"asked", "left"})}
    BY <1>2, <1>5 DEF Service!At, IsAt
  <1> DEFINE R == [r \in Requests |-> Abstract(r)]
  <1>8. R' = [r \in Requests |->
               IF r \in some
               THEN Service!Now(R[r], IF r \in left THEN "left" ELSE "lost", "")
               ELSE R[r]]
    BY <1>3, <1>4, <1>5
  <1>9. Up' \in {Up, FALSE}
    BY DEF Up
  <1>10. Service!Lose(some)
    BY <1>6, <1>7, <1>8, <1>9 DEF Service!Lose, Clicked, ClickSet
  <1> QED
    BY <1>5, <1>10 DEF Service!Next

(* A request is asked.                                                     *)
LEMMA AskStep ==
  ASSUME UNCHANGED Up, UNCHANGED supervisor.on, UNCHANGED supervisor.published, UNCHANGED Clicked,
         NEW r \in Requests, \A x \in Requests \ {r} : Abstract(x)' = Abstract(x),
         Abstract(r) = None, NEW line \in Lines,
         Abstract(r)' = [line |-> line, at |-> "asked", reply |-> ""]
  PROVE  Service!Next
  BY DEF Service!Next, Service!Ask, Clicked, ClickSet

(* A request takes effect.                                                 *)
LEMMA EffectStep ==
  ASSUME Up, UNCHANGED Up, UNCHANGED Clicked, UNCHANGED supervisor.published,
         NEW r \in Requests, \A x \in Requests \ {r} : Abstract(x)' = Abstract(x),
         IsAt(Abstract(r), {"asked", "left"}),
         supervisor'.on = Service!After(Abstract(r).line, supervisor.on),
         NEW reply \in Service!Answers(Abstract(r).line, supervisor.on, supervisor.published),
         Abstract(r)' = IF Abstract(r).at = "left" THEN Service!Now(Abstract(r), "lost", "")
                        ELSE Service!Now(Abstract(r), "taken", reply)
  PROVE  Service!Next
  <1>1. Service!At(r, {"asked", "left"})
    BY DEF Service!At, IsAt
  <1> DEFINE R == [x \in Requests |-> Abstract(x)]
  <1>2. R' = [R EXCEPT ![r] = IF @.at = "left" THEN Service!Now(@, "lost", "")
                              ELSE Service!Now(@, "taken", reply)]
    OBVIOUS
  <1>3. R[r].line = Abstract(r).line
    OBVIOUS
  <1>4. Service!TakeEffect(r)
    BY <1>1, <1>2, <1>3 DEF Service!TakeEffect, Clicked, ClickSet
  <1> QED
    BY <1>4 DEF Service!Next

(* A click is made, or takes effect.                                       *)
LEMMA ClickStep ==
  ASSUME \A x \in Requests : Abstract(x)' = Abstract(x), Up, UNCHANGED Up,
         UNCHANGED supervisor.published,
         \/ UNCHANGED supervisor.on /\ Clicked' = Clicked + 1
         \/ supervisor'.on \in BOOLEAN /\ Clicked \in Nat /\ Clicked' \in Nat /\ Clicked = Clicked' + 1
  PROVE  Service!Next
  <1>1. CASE UNCHANGED supervisor.on /\ Clicked' = Clicked + 1
    BY <1>1 DEF Service!Next, Service!Click, Clicked, ClickSet
  <1>2. CASE supervisor'.on \in BOOLEAN /\ Clicked \in Nat /\ Clicked' \in Nat /\ Clicked = Clicked' + 1
    <2>0. \A m, n \in Nat : m = n + 1 => m > 0 /\ n = m - 1
      OBVIOUS
    <2>1. Clicked > 0 /\ Clicked' = Clicked - 1
      BY <1>2, <2>0
    <2> QED
      BY <1>2, <2>1 DEF Service!Next, Service!ClickTakesEffect, Clicked, ClickSet
  <1> QED
    BY <1>1, <1>2

(* The daemon starts.                                                      *)
LEMMA StartStep ==
  ASSUME ~Up, Up' = TRUE, supervisor'.on = TRUE, supervisor'.published = "auto", UNCHANGED Clicked,
         \A x \in Requests : Abstract(x)' = Abstract(x)
  PROVE  Service!Next
  BY DEF Service!Next, Service!Start, Clicked, ClickSet

(* A backend is announced.                                                 *)
LEMMA AnnounceStep ==
  ASSUME Up, UNCHANGED Up, UNCHANGED supervisor.on, UNCHANGED Clicked,
         supervisor'.published \in {"native", "evdev"},
         \A x \in Requests : Abstract(x)' = Abstract(x)
  PROVE  Service!Next
  BY DEF Service!Next, Service!Announce, Clicked, ClickSet

(* The service sees nothing.                                               *)
LEMMA SkipStep ==
  ASSUME UNCHANGED Up, UNCHANGED supervisor.on, UNCHANGED supervisor.published, UNCHANGED Clicked,
         \A x \in Requests : Abstract(x)' = Abstract(x)
  PROVE  UNCHANGED Service!vars
  BY DEF Service!vars, Clicked, ClickSet
-----------------------------------------------------------------------------
(* The abstract request of a connection, by what it depends on.            *)

Queues(s, r) == \E i \in DOMAIN s : s[i].by = r

PlaceOf(q, queued) ==
  CASE q.at = "answered" -> "answered"
    [] q.at = "lost" -> IF queued THEN "left" ELSE "lost"
    [] q.at = "waiting" /\ q.reply \notin {"", "dropped"} -> IF q.gone THEN "lost" ELSE "taken"
    [] OTHER -> IF q.gone THEN "left" ELSE "asked"

AbstractOf(q, queued) ==
  [line |-> q.line, at |-> PlaceOf(q, queued),
   reply |-> IF PlaceOf(q, queued) \in {"taken", "answered"} THEN q.reply ELSE ""]

(* The abstract request by the fields of the connection and its command.   *)
LEMMA AbstractIs ==
  ASSUME NEW r \in Requests
  PROVE  Abstract(r) = IF request[r] = None THEN None ELSE AbstractOf(request[r], Queues(queue, r))
  BY DEF Abstract, AbstractOf, PlaceOf, Queues

(* The same of the next state.                                             *)
LEMMA AbstractWillBe ==
  ASSUME NEW r \in Requests
  PROVE  Abstract(r)' = IF request'[r] = None THEN None ELSE AbstractOf(request'[r], Queues(queue', r))
  BY DEF Abstract, AbstractOf, PlaceOf, Queues

(* The four ways in which the place of a request is decided.               *)
LEMMA PlaceFacts ==
  ASSUME NEW q \in Request, NEW queued \in BOOLEAN
  PROVE  /\ q.at = "answered" => PlaceOf(q, queued) = "answered"
         /\ q.at = "lost" => PlaceOf(q, queued) = IF queued THEN "left" ELSE "lost"
         /\ q.at = "waiting" /\ q.reply \in Replies =>
              PlaceOf(q, queued) = IF q.gone THEN "lost" ELSE "taken"
         /\ q.at \notin {"answered", "lost"} /\ (q.at = "waiting" => q.reply \in {"", "dropped"}) =>
              PlaceOf(q, queued) = IF q.gone THEN "left" ELSE "asked"
  BY DEF PlaceOf, Request, Replies

(* An abstract request is one, and not Free.                               *)
LEMMA AbstractType ==
  ASSUME NEW q \in Request, NEW queued \in BOOLEAN
  PROVE  AbstractOf(q, queued) \in AbstractRequest /\ AbstractOf(q, queued) # None
  <1>1. PlaceOf(q, queued) \in {"asked", "left", "taken", "answered", "lost"}
    BY DEF PlaceOf
  <1>2. AbstractOf(q, queued) \in AbstractRequest
    BY <1>1 DEF AbstractOf, AbstractRequest, Request
  <1> QED
    BY <1>2, FreeAssumption

(* Only that of a lost connection depends on whether a command is queued.  *)
LEMMA QueuedMatters ==
  ASSUME NEW q, q.at # "lost", NEW b, NEW c
  PROVE  AbstractOf(q, b) = AbstractOf(q, c)
  BY DEF AbstractOf, PlaceOf

(* A queued command is that of a request that waits or is cut off.         *)
LEMMA QueuedHeld ==
  ASSUME Queued, NEW r \in Requests, Queues(queue, r)
  PROVE  Held(request[r])
  BY ControlAssumption DEF Queued, Queues, FromRequest

(* A connection that stays as it is, with its command, keeps its abstract  *)
(* request.                                                                *)
LEMMA Unaffected ==
  ASSUME NEW r \in Requests, request'[r] = request[r],
         Queues(queue', r) <=> Queues(queue, r)
  PROVE  Abstract(r)' = Abstract(r)
  <1>1. Queues(queue', r) = Queues(queue, r)
    BY DEF Queues
  <1> QED
    BY <1>1, AbstractIs, AbstractWillBe
(* How the request of a connection moves.                                  *)
Place(r) == PlaceOf(request[r], Queues(queue, r))

(* An abstract request changes by what becomes of its place and reply.     *)
LEMMA Turns ==
  ASSUME NEW r \in Requests, request[r] \in Request, request'[r] \in Request,
         request'[r].line = request[r].line
  PROVE  /\ Abstract(r) # None
         /\ Abstract(r).at = Place(r) /\ Abstract(r).line = request[r].line
         /\ Place(r) \in {"taken", "answered"} => Abstract(r).reply = request[r].reply
         /\ Abstract(r)' = Service!Now(Abstract(r), Place(r)',
                              IF Place(r)' \in {"taken", "answered"} THEN request'[r].reply ELSE "")
         /\ Place(r)' = Place(r) /\ (Place(r) \in {"taken", "answered"} => request'[r].reply = request[r].reply)
              => Abstract(r)' = Abstract(r)
  <1> DEFINE reply == IF Place(r) \in {"taken", "answered"} THEN request[r].reply ELSE ""
             newReply == IF Place(r)' \in {"taken", "answered"} THEN request'[r].reply ELSE ""
  <1>1. Queues(queue, r) \in BOOLEAN
    BY DEF Queues
  <1>2. request[r] # None /\ request'[r] # None
    BY NoneAssumption
  <1>3. Abstract(r) = [line |-> request[r].line, at |-> Place(r), reply |-> reply]
    BY <1>2, AbstractIs DEF AbstractOf, Place
  <1>4. Abstract(r)' = [line |-> request[r].line, at |-> Place(r)', reply |-> newReply]
    BY <1>2, AbstractWillBe DEF AbstractOf, Place
  <1> HIDE DEF reply, newReply
  <1>5. Abstract(r) # None
    BY <1>1, <1>2, AbstractIs, AbstractType
  <1>6. Abstract(r).at = Place(r) /\ Abstract(r).line = request[r].line /\ Abstract(r).reply = reply
    BY <1>3
  <1>7. Abstract(r)' = Service!Now(Abstract(r), Place(r)', newReply)
    BY <1>4, <1>6 DEF Service!Now
  <1>8. Place(r)' = Place(r) /\ newReply = reply => Abstract(r)' = Abstract(r)
    BY <1>3, <1>4
  <1>9. Place(r)' = Place(r) /\ (Place(r) \in {"taken", "answered"} => request'[r].reply = request[r].reply)
          => newReply = reply
    BY DEF reply, newReply
  <1>10. Place(r) \in {"taken", "answered"} => reply = request[r].reply
    BY DEF reply
  <1>11. newReply = IF Place(r)' \in {"taken", "answered"} THEN request'[r].reply ELSE ""
    BY DEF newReply
  <1> QED
    BY <1>5, <1>6, <1>7, <1>8, <1>9, <1>10, <1>11

Moves(r) == request[r] \in Request /\ request'[r] \in Request /\ request'[r].line = request[r].line

(* Connections are cut or hung up.                                         *)
LEMMA CutStep ==
  ASSUME Up' => Up, UNCHANGED supervisor.on, Clicked' \in 0..Clicked,
         supervisor'.published = IF Up' THEN supervisor.published ELSE "auto",
         \A r \in Requests :
           \/ Abstract(r)' = Abstract(r)
           \/ /\ Moves(r)
              /\ \/ Place(r) \in {"asked", "left", "taken"} /\ Place(r)' = "lost"
                 \/ Place(r) \in {"asked", "left"} /\ Place(r)' = "left"
  PROVE  Service!Next
  <1>1. ASSUME NEW r \in Requests, Moves(r), Place(r) \in {"asked", "left", "taken"}, Place(r)' = "lost"
        PROVE  IsAt(Abstract(r), {"asked", "left", "taken"}) /\ Abstract(r)' = Service!Now(Abstract(r), "lost", "")
    BY <1>1, Turns DEF Moves, IsAt
  <1>2. ASSUME NEW r \in Requests, Moves(r), Place(r) \in {"asked", "left"}, Place(r)' = "left"
        PROVE  IsAt(Abstract(r), {"asked", "left"}) /\ Abstract(r)' = Service!Now(Abstract(r), "left", "")
    BY <1>2, Turns DEF Moves, IsAt
  <1> QED
    BY <1>1, <1>2, LoseStep

(* A step of one connection that neither sends a command nor sets anything *)
(* else: what its request's place makes of it.                             *)
LEMMA OneStep ==
  ASSUME IInv, NEW r \in Requests, Moves(r), \A x \in Requests \ {r} : request'[x] = request[x],
         UNCHANGED <<queue, supervisor>>,
         \/ Place(r)' = Place(r) /\ (Place(r) \in {"taken", "answered"} => request'[r].reply = request[r].reply)
         \/ Place(r) \in {"asked", "left", "taken"} /\ Place(r)' = "lost"
         \/ Place(r) \in {"asked", "left"} /\ Place(r)' = "left"
         \/ Place(r) = "asked" /\ Place(r)' = "answered" /\ request'[r].reply = "err"
         \/ Place(r) = "taken" /\ Place(r)' = "answered" /\ request'[r].reply = request[r].reply
  PROVE  [Service!Next]_Service!vars
  <1>1. \A x \in Requests \ {r} : Abstract(x)' = Abstract(x)
    BY Unaffected
  <1>2. /\ UNCHANGED Up /\ UNCHANGED supervisor.on /\ UNCHANGED supervisor.published /\ UNCHANGED Clicked
        /\ supervisor'.published = IF Up' THEN supervisor.published ELSE "auto"
    BY DEF Up, Clicked, IInv, Life
  <1>3. CASE Place(r)' = Place(r) /\ (Place(r) \in {"taken", "answered"} => request'[r].reply = request[r].reply)
    BY <1>1, <1>2, <1>3, Turns, SkipStep DEF Moves
  <1>4. CASE \/ Place(r) \in {"asked", "left", "taken"} /\ Place(r)' = "lost"
             \/ Place(r) \in {"asked", "left"} /\ Place(r)' = "left"
    <2>1. Clicked \in Nat
      BY ClickSetFinite DEF IInv, Typed, Clicked
    <2>2. Clicked' \in 0..Clicked
      BY <1>2, <2>1
    <2> QED
      BY <1>1, <1>2, <1>4, <2>2, CutStep
  <1>5. CASE Place(r) = "asked" /\ Place(r)' = "answered" /\ request'[r].reply = "err"
    <2>1. IsAt(Abstract(r), {"asked"}) /\ Abstract(r)' = Service!Now(Abstract(r), "answered", "err")
      BY <1>5, Turns DEF IsAt, Moves
    <2> QED
      BY <1>1, <1>2, <2>1, AbstractStep
  <1>6. CASE Place(r) = "taken" /\ Place(r)' = "answered" /\ request'[r].reply = request[r].reply
    <2>1. IsAt(Abstract(r), {"taken"}) /\ Abstract(r)' = Service!Now(Abstract(r), "answered", Abstract(r).reply)
      BY <1>6, Turns DEF IsAt, Moves
    <2> QED
      BY <1>1, <1>2, <2>1, AbstractStep
  <1> QED
    BY <1>3, <1>4, <1>5, <1>6

-----------------------------------------------------------------------------
(* The steps of connections.                                               *)

(* Where a request is in terms of its own fields, unless it is lost.       *)
LEMMA PlaceIs ==
  ASSUME NEW r \in Requests, request[r] \in Request
  PROVE  /\ request[r].at = "answered" => Place(r) = "answered"
         /\ request[r].at = "lost" => Place(r) = IF Queues(queue, r) THEN "left" ELSE "lost"
         /\ request[r].at = "waiting" /\ request[r].reply \in Replies =>
              Place(r) = IF request[r].gone THEN "lost" ELSE "taken"
         /\ request[r].at \notin {"answered", "lost"}
            /\ (request[r].at = "waiting" => request[r].reply \in {"", "dropped"}) =>
              Place(r) = IF request[r].gone THEN "left" ELSE "asked"
  <1>1. Queues(queue, r) \in BOOLEAN
    BY DEF Queues
  <1> QED
    BY <1>1, PlaceFacts DEF Place

(* The same of the next state.                                             *)
LEMMA PlaceWillBe ==
  ASSUME NEW r \in Requests, request'[r] \in Request
  PROVE  /\ request'[r].at = "answered" => Place(r)' = "answered"
         /\ request'[r].at = "lost" => Place(r)' = IF Queues(queue', r) THEN "left" ELSE "lost"
         /\ request'[r].at = "waiting" /\ request'[r].reply \in Replies =>
              Place(r)' = IF request'[r].gone THEN "lost" ELSE "taken"
         /\ request'[r].at \notin {"answered", "lost"}
            /\ (request'[r].at = "waiting" => request'[r].reply \in {"", "dropped"}) =>
              Place(r)' = IF request'[r].gone THEN "left" ELSE "asked"
  <1>1. Queues(queue', r) \in BOOLEAN
    BY DEF Queues
  <1> QED
    BY <1>1, PlaceFacts DEF Place

(* A program asks.                                                         *)
LEMMA RefinesAsk ==
  ASSUME IInv, NEW r \in Requests, Ask(r)
  PROVE  Service!Next
  <1>1. request \in [Requests -> Request \cup {None}] /\ world \in Scenarios /\ request[r] = None
    BY DEF IInv, Typed, Ask
  <1>2. PICK line \in world.lines :
          request' = [request EXCEPT ![r] = [line |-> line, gone |-> FALSE, at |-> "asking", reply |-> ""]]
    BY DEF Ask
  <1>3. line \in Lines
    BY <1>1, ControlAssumption DEF IsScenario
  <1> DEFINE new == [line |-> line, gone |-> FALSE, at |-> "asking", reply |-> ""]
  <1>4. new \in Request
    BY <1>3 DEF Request, Places
  <1>5. request'[r] = new /\ \A x \in Requests \ {r} : request'[x] = request[x]
    BY <1>1, <1>2
  <1>6. Abstract(r)' = AbstractOf(new, Queues(queue', r))
    BY <1>4, <1>5, AbstractWillBe, NoneAssumption
  <1>7. AbstractOf(new, Queues(queue', r)) = [line |-> line, at |-> "asked", reply |-> ""]
    BY DEF AbstractOf, PlaceOf
  <1>8. UNCHANGED <<queue, supervisor>>
    BY DEF Ask
  <1>9. \A x \in Requests \ {r} : Abstract(x)' = Abstract(x)
    BY <1>5, <1>8, Unaffected
  <1>10. UNCHANGED Up /\ UNCHANGED supervisor.on /\ UNCHANGED supervisor.published /\ UNCHANGED Clicked
    BY <1>8 DEF Up, Clicked
  <1>11. Abstract(r) = None
    BY <1>1, AbstractIs
  <1> QED
    BY <1>3, <1>6, <1>7, <1>9, <1>10, <1>11, AskStep

(* What the invariant says of one request.                                 *)
LEMMA OfRequest ==
  ASSUME IInv, NEW r \in Requests, request[r] # None
  PROVE  /\ request \in [Requests -> Request \cup {None}] /\ request[r] \in Request
         /\ request[r].at \notin {"waiting", "answered"} => request[r].reply = ""
         /\ request[r].at = "asking" => ~request[r].gone
         /\ ~Held(request[r]) => ~Queues(queue, r)
         /\ request[r].gone \in BOOLEAN /\ request[r].reply \in Replies \cup {"", "dropped"}
  <1>1. request \in [Requests -> Request \cup {None}] /\ request[r] \in Request
    BY DEF IInv, Typed
  <1> QED
    BY <1>1, QueuedHeld DEF IInv, Unanswered, Asking, At, Request

(* The request is answered, or cut off where nobody reads it.              *)
LEMMA AnsweredStep ==
  ASSUME IInv, NEW r \in Requests, request[r] # None, ~Held(request[r]),
         NEW reply \in Replies, request' = [request EXCEPT ![r] = Answered(request[r], reply)],
         UNCHANGED <<queue, supervisor>>,
         \/ request[r].at \notin {"answered", "lost"} /\ reply = "err"
            /\ (request[r].at = "waiting" => request[r].reply = "dropped")
         \/ request[r].at = "waiting" /\ request[r].reply = reply
  PROVE  [Service!Next]_Service!vars
  <1>1. /\ request[r] \in Request /\ ~Queues(queue', r)
        /\ request'[r] = Answered(request[r], reply)
        /\ \A x \in Requests \ {r} : request'[x] = request[x]
    BY OfRequest
  <1> DEFINE a == Answered(request[r], reply)
  <1>a. /\ a \in Request /\ a.line = request[r].line
        /\ IF request[r].gone THEN a.at = "lost" ELSE a.at = "answered" /\ a.reply = reply
    BY <1>1, AnsweredFields
  <1>2. /\ Moves(r) /\ request'[r] \in Request
        /\ IF request[r].gone THEN request'[r].at = "lost"
           ELSE request'[r].at = "answered" /\ request'[r].reply = reply
    <2> HIDE DEF a
    <2>1. request'[r] = a
      BY <1>1 DEF a
    <2> QED
      BY <1>1, <1>a, <2>1 DEF Moves
  <1>3. Place(r)' = IF request[r].gone THEN "lost" ELSE "answered"
    BY <1>1, <1>2, PlaceWillBe
  <1>4. CASE request[r].at \notin {"answered", "lost"} /\ reply = "err"
             /\ (request[r].at = "waiting" => request[r].reply = "dropped")
    <2>1. Place(r) = IF request[r].gone THEN "left" ELSE "asked"
      BY <1>1, <1>4, PlaceIs
    <2> QED
      BY <1>1, <1>2, <1>3, <1>4, <2>1, OneStep
  <1>5. CASE request[r].at = "waiting" /\ request[r].reply = reply
    <2>1. Place(r) = IF request[r].gone THEN "lost" ELSE "taken"
      BY <1>1, <1>5, PlaceIs
    <2> QED
      BY <1>1, <1>2, <1>3, <1>5, <2>1, OneStep
  <1> QED
    BY <1>4, <1>5

(* The request goes on, which its place does not show.                     *)
LEMMA OnwardStep ==
  ASSUME IInv, NEW r \in Requests, request[r] # None, NEW place \in Places,
         request' = [request EXCEPT ![r].at = place], UNCHANGED <<queue, supervisor>>,
         request[r].at \in {"asking", "connected", "reading"}, place \in {"connected", "reading", "sending"}
  PROVE  [Service!Next]_Service!vars
  <1>1. /\ request[r] \in Request /\ request'[r] = [request[r] EXCEPT !.at = place]
        /\ \A x \in Requests \ {r} : request'[x] = request[x]
    BY OfRequest
  <1>2. [request[r] EXCEPT !.at = place] \in Request
    BY <1>1, RequestType DEF Replies
  <1>3. /\ request'[r] \in Request /\ request'[r].line = request[r].line
        /\ request'[r].gone = request[r].gone /\ request'[r].at = place
    BY <1>1, <1>2 DEF Request
  <1>4. Place(r) = (IF request[r].gone THEN "left" ELSE "asked") /\ Place(r)' = Place(r)
    BY <1>1, <1>3, PlaceIs, PlaceWillBe
  <1> QED
    BY <1>1, <1>3, <1>4, OneStep DEF Moves

(* A hang-up leaves a request that is under way, and loses one whose reply *)
(* is on its way.                                                          *)
LEMMA RefinesHangUp == ASSUME IInv, NEW r \in Requests, HangUp(r) PROVE [Service!Next]_Service!vars
  <1>0. request[r] # None /\ ~request[r].gone /\ request[r].at \in {"connected", "reading", "sending", "waiting"}
    BY DEF HangUp, Pending, Accepted, At
  <1>1. /\ request[r] \in Request /\ request'[r] = [request[r] EXCEPT !.gone = TRUE]
        /\ \A x \in Requests \ {r} : request'[x] = request[x]
        /\ request[r].reply \in Replies \cup {"", "dropped"}
    BY <1>0, OfRequest DEF HangUp
  <1>2. [request[r] EXCEPT !.gone = TRUE] \in Request
    BY <1>1, RequestType DEF Replies, Places
  <1>3. /\ request'[r] \in Request /\ request'[r].line = request[r].line /\ request'[r].gone = TRUE
        /\ request'[r].at = request[r].at /\ request'[r].reply = request[r].reply
    BY <1>1, <1>2 DEF Request
  <1>4. UNCHANGED <<queue, supervisor>>
    BY DEF HangUp
  <1>5. CASE request[r].at = "waiting" /\ request[r].reply \in Replies
    <2>1. Place(r) = "taken" /\ Place(r)' = "lost"
      BY <1>0, <1>1, <1>3, <1>5, PlaceIs, PlaceWillBe
    <2> QED
      BY <1>1, <1>3, <1>4, <2>1, OneStep DEF Moves
  <1>6. CASE ~(request[r].at = "waiting" /\ request[r].reply \in Replies)
    <2>1. Place(r) = "asked" /\ Place(r)' = "left"
      BY <1>0, <1>1, <1>3, <1>6, PlaceIs, PlaceWillBe
    <2> QED
      BY <1>1, <1>3, <1>4, <2>1, OneStep DEF Moves
  <1> QED
    BY <1>5, <1>6

(* A connect that finds no listener refuses (ipc.rs ipc_send).             *)
LEMMA RefinesConnect == ASSUME IInv, NEW r \in Requests, Connect(r) PROVE [Service!Next]_Service!vars
  <1>0. request[r] # None /\ request[r].at = "asking"
    BY DEF Connect, At
  <1>1. request[r] \in Request /\ ~request[r].gone /\ UNCHANGED <<queue, supervisor>>
    BY <1>0, OfRequest DEF Connect
  <1>2. CASE server.at = "off"
    <2>1. Answered(request[r], "err") = [request[r] EXCEPT !.at = "answered", !.reply = "err"]
      BY <1>1 DEF Answered
    <2>2. request' = [request EXCEPT ![r] = Answered(request[r], "err")]
      BY <1>2, <2>1 DEF Connect
    <2> QED
      BY <1>0, <1>1, <2>2, AnsweredStep DEF Held, Replies
  <1>3. CASE server.at # "off"
    <2>1. request' = [request EXCEPT ![r].at = "connected"]
      BY <1>3 DEF Connect
    <2> QED
      BY <1>0, <1>1, <2>1, OnwardStep DEF Places
  <1> QED
    BY <1>2, <1>3

(* A connection of another user is lost, before it could have any effect.  *)
LEMMA RefinesAccept == ASSUME IInv, NEW r \in Requests, Accept(r) PROVE [Service!Next]_Service!vars
  <1>0. request[r] # None /\ request[r].at = "connected"
    BY DEF Accept, At
  <1>1. request[r] \in Request /\ UNCHANGED <<queue, supervisor>> /\ ~Queues(queue', r)
    BY <1>0, OfRequest DEF Accept, Held
  <1>2. CASE r \in Foreign
    <2>1. /\ request'[r] = [request[r] EXCEPT !.at = "lost", !.reply = ""]
          /\ \A x \in Requests \ {r} : request'[x] = request[x]
      BY <1>2 DEF Accept, LoseAll
    <2>2. request'[r] \in Request /\ request'[r].line = request[r].line /\ request'[r].at = "lost"
      BY <1>1, <2>1, CutOff, Zenon
    <2>3. Place(r) \in {"asked", "left"} /\ Place(r)' = "lost"
      BY <1>0, <1>1, <2>2, PlaceIs, PlaceWillBe
    <2> QED
      BY <1>1, <2>1, <2>2, <2>3, OneStep DEF Moves
  <1>3. CASE r \notin Foreign
    <2>1. request' = [request EXCEPT ![r].at = "reading"]
      BY <1>3 DEF Accept
    <2> QED
      BY <1>0, <1>1, <2>1, OnwardStep DEF Places
  <1> QED
    BY <1>2, <1>3

(* A line that cannot be parsed is refused.                                *)
LEMMA RefinesRead == ASSUME IInv, NEW r \in Requests, ReadLine(r) PROVE [Service!Next]_Service!vars
  <1>0. request[r] # None /\ request[r].at = "reading" /\ UNCHANGED <<queue, supervisor>>
    BY DEF ReadLine, At
  <1>1. \/ request' = [request EXCEPT ![r] = Answered(request[r], "err")]
        \/ request' = [request EXCEPT ![r].at = "sending"]
    BY DEF ReadLine
  <1> QED
    BY <1>0, <1>1, AnsweredStep, OnwardStep DEF Held, Replies, Places

(* The reply is written, or an error for a command dropped with the        *)
(* channel.                                                                *)
LEMMA RefinesWrite == ASSUME IInv, NEW r \in Requests, WriteReply(r) PROVE [Service!Next]_Service!vars
  <1>0. request[r] # None /\ request[r].at = "waiting" /\ request[r].reply # "" /\ UNCHANGED <<queue, supervisor>>
    BY DEF WriteReply, At
  <1>1. request[r].reply \in Replies \cup {"dropped"}
    BY <1>0, OfRequest
  <1>2. request' = [request EXCEPT ![r] = Answered(request[r], IF request[r].reply = "dropped" THEN "err" ELSE request[r].reply)]
    BY DEF WriteReply
  <1>3. CASE request[r].reply = "dropped"
    BY <1>0, <1>2, <1>3, AnsweredStep DEF Held, Replies
  <1>4. CASE request[r].reply # "dropped"
    BY <1>0, <1>1, <1>2, <1>4, AnsweredStep DEF Held
  <1> QED
    BY <1>3, <1>4

(* A command that is queued is still asked; one that finds no receiver is  *)
(* refused.                                                                *)
LEMMA RefinesSend == ASSUME IInv, NEW r \in Requests, SendCommand(r) PROVE [Service!Next]_Service!vars
  <1>0. request[r] # None /\ request[r].at = "sending" /\ UNCHANGED supervisor
    BY DEF SendCommand, At
  <1>1. request[r] \in Request
    BY <1>0, OfRequest
  <1>2. CASE ~ChannelOpen
    <2>1. UNCHANGED queue /\ request' = [request EXCEPT ![r] = Answered(request[r], "err")]
      BY <1>2 DEF SendCommand
    <2> QED
      BY <1>0, <2>1, AnsweredStep DEF Held, Replies
  <1>3. CASE ChannelOpen
    <2> DEFINE c == [line |-> request[r].line, by |-> r, shown |-> None]
    <2>1. /\ queue' = Append(queue, c) /\ request'[r] = [request[r] EXCEPT !.at = "waiting"]
          /\ \A x \in Requests \ {r} : request'[x] = request[x]
      BY <1>0, <1>3, OfRequest DEF SendCommand
    <2>2. c \in Command /\ c.shown = None /\ c.by = r
      BY <1>1 DEF Command, Request
    <2> HIDE DEF c
    <2>3. queue \in Seq(Command)
      BY DEF IInv, Typed
    <2>4. UNCHANGED Clicked
      BY <2>1, <2>2, <2>3, ClicksAppend, ClickSetFinite DEF Clicked
    <2>5. \A x \in Requests : Queues(queue', x) <=> Queues(queue, x) \/ x = r
      <3>1. /\ DOMAIN queue = 1..Len(queue) /\ DOMAIN queue' = 1..(Len(queue) + 1) /\ Len(queue) \in Nat
            /\ queue'[Len(queue) + 1] = c /\ \A i \in DOMAIN queue : queue'[i] = queue[i]
        BY <2>1, <2>2, <2>3
      <3> QED
        BY <2>2, <3>1 DEF Queues
    <2>6. \A x \in Requests \ {r} : Abstract(x)' = Abstract(x)
      BY <2>1, <2>5, Unaffected
    <2>7. [request[r] EXCEPT !.at = "waiting"] \in Request
      BY <1>1, RequestType DEF Places, Replies
    <2>8. /\ request'[r] \in Request /\ request'[r].line = request[r].line
          /\ request'[r].gone = request[r].gone /\ request'[r].at = "waiting"
          /\ request'[r].reply = request[r].reply
      BY <1>1, <2>1, <2>7 DEF Request
    <2>9. request[r].reply = ""
      BY <1>0, OfRequest
    <2>10. Place(r) = (IF request[r].gone THEN "left" ELSE "asked") /\ Place(r)' = Place(r)
      BY <1>0, <1>1, <2>8, <2>9, PlaceIs, PlaceWillBe
    <2>11. Abstract(r)' = Abstract(r)
      BY <1>1, <2>8, <2>10, Turns
    <2> QED
      BY <1>0, <2>4, <2>6, <2>11, SkipStep DEF Up
  <1> QED
    BY <1>2, <1>3

-----------------------------------------------------------------------------
(* The end of the server, of the channel and of the process.               *)

(* A request whose connection stays as it is changes only if its command   *)
(* leaves the channel: it can no longer take effect.                       *)
LEMMA Untouched ==
  ASSUME IInv, NEW r \in Requests, request'[r] = request[r], Queues(queue', r) => Queues(queue, r)
  PROVE  \/ Abstract(r)' = Abstract(r)
         \/ Moves(r) /\ Place(r) = "left" /\ Place(r)' = "lost"
  <1>1. CASE request[r] = None
    BY <1>1, AbstractIs, AbstractWillBe
  <1>2. CASE request[r] # None /\ request[r].at = "lost"
    <2>1. Moves(r)
      BY <1>2, OfRequest DEF Moves
    <2>2. /\ Place(r) = IF Queues(queue, r) THEN "left" ELSE "lost"
          /\ Place(r)' = IF Queues(queue', r) THEN "left" ELSE "lost"
      BY <1>2, <2>1, PlaceIs, PlaceWillBe DEF Moves
    <2> QED
      BY <2>1, <2>2, Turns DEF Moves
  <1>3. CASE request[r] # None /\ request[r].at # "lost"
    <2>1. AbstractOf(request[r], Queues(queue, r)) = AbstractOf(request[r], Queues(queue', r))
      BY <1>3, QueuedMatters
    <2> QED
      BY <1>3, <2>1, AbstractIs, AbstractWillBe
  <1> QED
    BY <1>1, <1>2, <1>3

(* With the channel all its clicks go.                                     *)
LEMMA ClicksKeptOrGone ==
  ASSUME IInv, UNCHANGED queue \/ queue' = <<>>
  PROVE  Clicked' \in 0..Clicked
  <1>1. Clicked \in Nat
    BY ClickSetFinite DEF IInv, Typed, Clicked
  <1>2. UNCHANGED Clicked \/ Clicked' = 0
    BY ClicksEmpty DEF Clicked
  <1> QED
    BY <1>1, <1>2

(* All connections are cut: commands still queued may take effect.         *)
LEMMA CutAllStep ==
  ASSUME IInv, request' = LoseAll(Pending), UNCHANGED queue \/ queue' = <<>>,
         Up' => Up, UNCHANGED supervisor.on,
         supervisor'.published = IF Up' THEN supervisor.published ELSE "auto"
  PROVE  Service!Next
  <1>1. \A r \in Requests : Queues(queue', r) => Queues(queue, r)
    BY DEF Queues
  <1>2. ASSUME NEW r \in Requests, r \in Pending
        PROVE  \/ Abstract(r)' = Abstract(r)
               \/ /\ Moves(r)
                  /\ \/ Place(r) \in {"asked", "left", "taken"} /\ Place(r)' = "lost"
                     \/ Place(r) \in {"asked", "left"} /\ Place(r)' = "left"
    <2>1. request[r] # None /\ request[r].at \in {"connected", "reading", "sending", "waiting"}
      BY <1>2 DEF Pending, Accepted, At
    <2>2. request[r] \in Request /\ request[r].reply \in Replies \cup {"", "dropped"}
      BY <2>1, OfRequest
    <2>3. request'[r] = [request[r] EXCEPT !.at = "lost", !.reply = ""]
      BY <1>2 DEF LoseAll
    <2>4. request'[r] \in Request /\ request'[r].line = request[r].line /\ request'[r].at = "lost"
      BY <2>2, <2>3, CutOff, Zenon
    <2>5. Moves(r)
      BY <2>2, <2>4 DEF Moves
    <2>6. Place(r)' = IF Queues(queue', r) THEN "left" ELSE "lost"
      BY <2>4, PlaceWillBe
    <2>7. CASE request[r].at = "waiting" /\ request[r].reply \in Replies
      <3>1. Place(r) = IF request[r].gone THEN "lost" ELSE "taken"
        BY <2>2, <2>7, PlaceIs
      <3>2. "" \notin Replies
        BY DEF Replies
      <3>3. ~Queues(queue, r)
        BY <2>1, <2>7, <3>2, OfRequest DEF Held
      <3>4. Place(r)' = "lost"
        BY <1>1, <2>6, <3>3
      <3> QED
        BY <2>2, <2>4, <2>5, <3>1, <3>4, Turns
    <2>8. CASE ~(request[r].at = "waiting" /\ request[r].reply \in Replies)
      <3>1. Place(r) = IF request[r].gone THEN "left" ELSE "asked"
        BY <2>1, <2>2, <2>8, PlaceIs
      <3> QED
        BY <2>5, <2>6, <3>1
    <2> QED
      BY <2>7, <2>8
  <1>3. ASSUME NEW r \in Requests, r \notin Pending
        PROVE  \/ Abstract(r)' = Abstract(r)
               \/ Moves(r) /\ Place(r) = "left" /\ Place(r)' = "lost"
    <2>1. request'[r] = request[r]
      BY <1>3 DEF LoseAll
    <2> QED
      BY <1>1, <2>1, Untouched
  <1> QED
    BY <1>2, <1>3, ClicksKeptOrGone, CutStep

(* The accept loop fails for the third time.                               *)
LEMMA RefinesAcceptLoop == ASSUME IInv, AcceptFails \/ DelayOver PROVE [Service!Next]_Service!vars
  <1>1. UNCHANGED <<queue, supervisor>>
    BY DEF AcceptFails, DelayOver
  <1>2. CASE UNCHANGED request
    <2>1. \A r \in Requests : Abstract(r)' = Abstract(r)
      BY <1>1, <1>2, Unaffected
    <2> QED
      BY <1>1, <2>1, SkipStep DEF Up, Clicked
  <1>3. CASE request' = LoseAll(Pending)
    BY <1>1, <1>3, CutAllStep DEF Up, IInv, Life
  <1> QED
    BY <1>2, <1>3 DEF AcceptFails, DelayOver

(* The process ends: every connection is cut and the channel is gone.      *)
LEMMA RefinesDown == ASSUME IInv, Exit \/ Kill PROVE [Service!Next]_Service!vars
  <1>1. /\ request' = LoseAll(Pending) /\ queue' = <<>>
        /\ supervisor' = [Off EXCEPT !.on = supervisor.on]
    BY DEF Exit, Kill, Down
  <1>2. ~Up' /\ UNCHANGED supervisor.on /\ supervisor'.published = "auto"
    BY <1>1 DEF Up, Off
  <1> QED
    BY <1>1, <1>2, CutAllStep

(* The commands in the channel go, and with them the clicks.               *)
LEMMA RefinesEnds == ASSUME IInv, Up, Ends PROVE [Service!Next]_Service!vars
  <1>1. CloseChannel /\ supervisor' = [supervisor EXCEPT !.at = "ended", !.pending = None]
    BY DEF Ends
  <1>2. supervisor \in Supervisor
    BY DEF IInv, Typed
  <1>3. supervisor'.at = "ended" /\ UNCHANGED supervisor.on /\ UNCHANGED supervisor.published
    BY <1>1, <1>2 DEF Supervisor
  <1>4. queue' = <<>> /\ \A r \in Requests : ~Queues(queue', r)
    <2>1. queue' = <<>>
      BY <1>1 DEF CloseChannel
    <2>2. \A r \in Requests : ~Queues(<<>>, r)
      BY DEF Queues
    <2> QED
      BY <2>1, <2>2
  <1>5. ASSUME NEW r \in Requests
        PROVE  \/ Abstract(r)' = Abstract(r)
               \/ Moves(r) /\ Place(r) = "left" /\ Place(r)' = "lost"
    <2>1. CASE At(r, {"waiting"}) /\ request[r].reply = ""
      <3>1. request[r] \in Request /\ request[r].at = "waiting"
        BY <2>1, OfRequest DEF At
      <3>2. request'[r] = [request[r] EXCEPT !.reply = "dropped"]
        BY <1>1, <2>1 DEF CloseChannel
      <3>3. /\ request'[r] \in Request /\ request'[r].line = request[r].line
            /\ request'[r].gone = request[r].gone /\ request'[r].at = request[r].at
            /\ request'[r].reply = "dropped"
        <4>1. [request[r] EXCEPT !.reply = "dropped"] \in Request
          BY <3>1, RequestType DEF Places
        <4> QED
          BY <3>1, <3>2, <4>1 DEF Request
      <3>4. Place(r) = (IF request[r].gone THEN "left" ELSE "asked") /\ Place(r)' = Place(r)
        BY <2>1, <3>1, <3>3, PlaceIs, PlaceWillBe
      <3> QED
        BY <3>1, <3>3, <3>4, Turns
    <2>2. CASE ~(At(r, {"waiting"}) /\ request[r].reply = "")
      <3>1. request'[r] = request[r]
        BY <1>1, <2>2 DEF CloseChannel
      <3> QED
        BY <1>4, <3>1, Untouched
    <2> QED
      BY <2>1, <2>2
  <1>6. (Up' => Up) /\ Up'
    BY <1>3 DEF Up
  <1> QED
    BY <1>3, <1>4, <1>5, <1>6, ClicksKeptOrGone, CutStep

(* A step that changes neither the connections nor the channel, nor whether *)
(* the daemon runs and is on, nor what is published.                       *)
LEMMA Unseen ==
  ASSUME UNCHANGED <<queue, request>>, UNCHANGED Up, UNCHANGED supervisor.on,
         UNCHANGED supervisor.published
  PROVE  UNCHANGED Service!vars
  <1>1. \A r \in Requests : Abstract(r)' = Abstract(r)
    BY Unaffected
  <1> QED
    BY <1>1, SkipStep DEF Clicked

(* A backend is entered, left or ends.                                     *)
LEMMA RefinesSwitch ==
  ASSUME IInv, EnterBackend \/ LeaveBackend \/ TransportEnds \/ ChannelCloses
  PROVE  [Service!Next]_Service!vars
  <1>1. Up /\ supervisor \in Supervisor
    BY DEF IInv, Typed, Up, EnterBackend, LeaveBackend, TransportEnds, ChannelCloses
  <1>2. CASE Ends
    BY <1>1, <1>2, RefinesEnds
  <1>3. ASSUME NEW b, GoTo(b) PROVE [Service!Next]_Service!vars
    <2>1. /\ UNCHANGED <<queue, request>> /\ supervisor'.at = "entering"
          /\ UNCHANGED supervisor.on /\ UNCHANGED supervisor.published
      BY <1>1, <1>3 DEF GoTo, socket, Supervisor
    <2> QED
      BY <1>1, <2>1, Unseen DEF Up
  <1>4. CASE EnterBackend /\ publish_backend(supervisor.current) /\ UNCHANGED socket
    <2>1. supervisor.current \in Backends /\ Typed
      BY <1>1 DEF IInv, Supervisor, Backends
    <2>2. /\ UNCHANGED <<queue, request>> /\ Up' /\ UNCHANGED supervisor.on
          /\ supervisor'.published \in {supervisor.published, supervisor.current}
      BY <1>4, <2>1, PublishType DEF Up, socket
    <2>3. UNCHANGED Up /\ UNCHANGED Clicked /\ \A x \in Requests : Abstract(x)' = Abstract(x)
      BY <1>1, <2>2, Unaffected DEF Clicked, Up
    <2>4. CASE supervisor'.published = supervisor.published
      BY <2>2, <2>3, <2>4, SkipStep
    <2>5. CASE supervisor'.published = supervisor.current
      BY <1>1, <2>1, <2>2, <2>3, <2>5, AnnounceStep DEF Backends
    <2> QED
      BY <2>2, <2>4, <2>5
  <1>5. Ends \/ (\E b : GoTo(b)) \/ (EnterBackend /\ publish_backend(supervisor.current) /\ UNCHANGED socket)
    BY DEF EnterBackend, LeaveBackend, TransportEnds, ChannelCloses
  <1> QED
    BY <1>2, <1>3, <1>4, <1>5

(* The Daemons, the tray's own steps and the file are not of the service.  *)
LEMMA RefinesElsewhere ==
  ASSUME IInv,
         \/ \E b \in Backends : SyncConfig(b)
         \/ MakeTray \/ SpawnTray \/ UpdateTray \/ EditFile \/ UNCHANGED vars
  PROVE  UNCHANGED Service!vars
  <1>1. UNCHANGED <<queue, request, supervisor>>
    BY DEF SyncConfig, MakeTray, SpawnTray, UpdateTray, EditFile, vars, abroad, socket
  <1> QED
    BY <1>1, Unseen DEF Up

(* The daemon starts, switched on.                                         *)
LEMMA RefinesStart == ASSUME IInv, Start PROVE Service!Next
  <1>1. ~Up /\ UNCHANGED <<queue, request>>
    BY DEF Start, Up
  <1>2. supervisor'.at = "entering" /\ supervisor'.on = TRUE /\ supervisor'.published = "auto"
    BY DEF Start, Off
  <1>3. \A r \in Requests : Abstract(r)' = Abstract(r)
    BY <1>1, Unaffected
  <1>4. UNCHANGED Clicked /\ Up' = TRUE
    BY <1>1, <1>2 DEF Clicked, Up
  <1> QED
    BY <1>1, <1>2, <1>3, <1>4, StartStep

-----------------------------------------------------------------------------
(* A command takes effect; the clicks; the theorem.                        *)

(* handle_cmd does what the service promises of a command and answers one  *)
(* of the answers it allows (supervisor.rs).                               *)
LEMMA HandleAnswers ==
  ASSUME supervisor \in Supervisor, NEW line, NEW reply \in Replies, handle_cmd(line, reply)
  PROVE  /\ supervisor'.on = Service!After(line, supervisor.on)
         /\ reply \in Service!Answers(line, supervisor.on, supervisor.published)
         /\ supervisor'.at = supervisor.at /\ supervisor'.published = supervisor.published
         /\ supervisor'.on \in BOOLEAN /\ (line \notin SetsOnOff => supervisor'.on = supervisor.on)
  <1>1. CASE line = "toggle"
    BY <1>1 DEF handle_cmd, Service!After, Service!Answers, Service!OnOff, OnOff, SetsOnOff, Supervisor
  <1>2. CASE line = "enable"
    BY <1>2 DEF handle_cmd, Service!After, Service!Answers, Service!OnOff, OnOff, SetsOnOff, Supervisor
  <1>3. CASE line = "disable"
    BY <1>3 DEF handle_cmd, Service!After, Service!Answers, Service!OnOff, OnOff, SetsOnOff, Supervisor
  <1>4. CASE line \in {"status", "quit"}
    BY <1>4 DEF handle_cmd, Service!After, Service!Answers, Service!OnOff, OnOff, SetsOnOff, Supervisor
  <1>5. CASE line = "backend"
    BY <1>5 DEF handle_cmd, Service!After, Service!Answers, Service!OnOff, OnOff, SetsOnOff, Supervisor, Replies
  <1>6. CASE line \in {"use native", "use evdev", "switch"}
    BY <1>6 DEF handle_cmd, Service!After, Service!Answers, Service!OnOff, OnOff, SetsOnOff, Supervisor
  <1>7. line \in SetsOnOff \cup {"status", "quit", "backend", "use native", "use evdev", "switch"}
    BY DEF handle_cmd
  <1> QED
    BY <1>1, <1>2, <1>3, <1>4, <1>5, <1>6, <1>7 DEF SetsOnOff

(* With its first command the channel loses that of one sender only.       *)
LEMMA HeadLeaves ==
  ASSUME IInv, queue # <<>>, queue' = Tail(queue)
  PROVE  /\ Head(queue) \in Command
         /\ (Head(queue).by = "tray" /\ FromTray(Head(queue))) \/ FromRequest(Head(queue))
         /\ Queues(queue, Head(queue).by)
         /\ \A x \in Requests : Queues(queue', x) <=> Queues(queue, x) /\ x # Head(queue).by
  <1>1. /\ queue \in Seq(Command) /\ DOMAIN queue = 1..Len(queue) /\ Len(queue) \in Nat \ {0}
        /\ DOMAIN queue' = 1..(Len(queue) - 1) /\ Head(queue) = queue[1]
        /\ \A i \in DOMAIN queue' : queue'[i] = queue[i + 1]
    BY DEF IInv, Typed
  <1>2. \A i, j \in DOMAIN queue : queue[i].by = queue[j].by /\ queue[i].by # "tray" => i = j
    BY DEF IInv, Queued
  <1>3. 1 \in DOMAIN queue
    BY <1>1
  <1>4. ASSUME NEW x \in Requests
        PROVE  Queues(queue', x) <=> Queues(queue, x) /\ x # Head(queue).by
    <2>1. x # "tray"
      BY ControlAssumption
    <2>2. ASSUME Queues(queue', x) PROVE Queues(queue, x) /\ x # Head(queue).by
      <3>1. PICK i \in DOMAIN queue' : queue'[i].by = x
        BY <2>2 DEF Queues
      <3>2. i + 1 \in DOMAIN queue /\ i + 1 # 1 /\ queue[i + 1].by = x
        BY <1>1, <3>1
      <3> QED
        BY <1>1, <1>2, <1>3, <2>1, <3>2 DEF Queues
    <2>3. ASSUME Queues(queue, x), x # Head(queue).by PROVE Queues(queue', x)
      <3>1. PICK j \in DOMAIN queue : queue[j].by = x
        BY <2>3 DEF Queues
      <3>2. j - 1 \in DOMAIN queue' /\ queue'[j - 1].by = x
        BY <1>1, <2>3, <3>1
      <3> QED
        BY <3>2 DEF Queues
    <2> QED
      BY <2>2, <2>3
  <1>5. (Head(queue).by = "tray" /\ FromTray(Head(queue))) \/ FromRequest(Head(queue))
    BY <1>1, <1>3 DEF IInv, Queued
  <1> QED
    BY <1>1, <1>3, <1>4, <1>5 DEF Queues

(* The request whose command it was: if it still waits it has its reply,   *)
(* if its connection was cut the effect comes all the same.                *)
LEMMA ServedStep ==
  ASSUME IInv, Up, UNCHANGED Up, UNCHANGED Clicked, UNCHANGED supervisor.published,
         NEW r \in Requests, \A x \in Requests : x # r => Abstract(x)' = Abstract(x),
         Held(request[r]), Queues(queue, r), ~Queues(queue', r),
         supervisor'.on = Service!After(request[r].line, supervisor.on),
         NEW reply \in Replies, reply \in Service!Answers(request[r].line, supervisor.on, supervisor.published),
         request'[r] = IF At(r, {"waiting"}) THEN [request[r] EXCEPT !.reply = reply] ELSE request[r]
  PROVE  Service!Next
  <1>1. request[r] \in Request /\ request[r] # None /\ request[r].reply = ""
    BY OfRequest DEF Held
  <1>2. CASE request[r].at = "waiting"
    <2>1. request'[r] = [request[r] EXCEPT !.reply = reply]
      BY <1>1, <1>2 DEF At
    <2>2. [request[r] EXCEPT !.reply = reply] \in Request
      BY <1>1, RequestType DEF Places
    <2>3. /\ request'[r] \in Request /\ request'[r].line = request[r].line
          /\ request'[r].gone = request[r].gone /\ request'[r].at = "waiting"
          /\ request'[r].reply = reply
      BY <1>1, <1>2, <2>1, <2>2 DEF Request
    <2>4. Place(r) = IF request[r].gone THEN "left" ELSE "asked"
      BY <1>1, <1>2, PlaceIs
    <2>5. Place(r)' = IF request[r].gone THEN "lost" ELSE "taken"
      BY <2>3, PlaceWillBe
    <2>6. /\ Abstract(r) # None /\ Abstract(r).at = Place(r) /\ Abstract(r).line = request[r].line
          /\ Abstract(r)' = Service!Now(Abstract(r), Place(r)',
                               IF Place(r)' \in {"taken", "answered"} THEN request'[r].reply ELSE "")
      BY <1>1, <2>3, Turns
    <2>7. /\ IsAt(Abstract(r), {"asked", "left"})
          /\ Abstract(r)' = IF Abstract(r).at = "left" THEN Service!Now(Abstract(r), "lost", "")
                            ELSE Service!Now(Abstract(r), "taken", reply)
      BY <2>3, <2>4, <2>5, <2>6 DEF IsAt
    <2> QED
      BY <2>6, <2>7, EffectStep
  <1>3. CASE request[r].at = "lost"
    <2>1. request'[r] = request[r]
      BY <1>3 DEF At
    <2>2. Place(r) = "left" /\ Place(r)' = "lost"
      BY <1>1, <1>3, <2>1, PlaceIs, PlaceWillBe
    <2>3. /\ Abstract(r) # None /\ Abstract(r).at = Place(r) /\ Abstract(r).line = request[r].line
          /\ Abstract(r)' = Service!Now(Abstract(r), Place(r)',
                               IF Place(r)' \in {"taken", "answered"} THEN request'[r].reply ELSE "")
      BY <1>1, <2>1, Turns
    <2>4. /\ IsAt(Abstract(r), {"asked", "left"})
          /\ Abstract(r)' = IF Abstract(r).at = "left" THEN Service!Now(Abstract(r), "lost", "")
                            ELSE Service!Now(Abstract(r), "taken", reply)
      BY <2>2, <2>3 DEF IsAt
    <2> QED
      BY <2>3, <2>4, EffectStep
  <1> QED
    BY <1>1, <1>2, <1>3 DEF Held

(* A command is taken: of a request, which takes effect now, or of the     *)
(* tray.                                                                   *)
LEMMA RefinesTake == ASSUME IInv, TakeCommand PROVE [Service!Next]_Service!vars
  <1> DEFINE c == Head(queue)
  <1>1. PICK reply \in Replies :
          /\ handle_cmd(c.line, reply)
          /\ request' = [r \in Requests |-> IF r = c.by /\ At(r, {"waiting"})
                                            THEN [request[r] EXCEPT !.reply = reply] ELSE request[r]]
    BY DEF TakeCommand
  <1>2. queue # <<>> /\ queue' = Tail(queue) /\ supervisor.at = "serving"
    BY DEF TakeCommand
  <1>3. supervisor \in Supervisor /\ queue \in Seq(Command)
    BY DEF IInv, Typed
  <1>4. /\ supervisor'.on = Service!After(c.line, supervisor.on)
        /\ reply \in Service!Answers(c.line, supervisor.on, supervisor.published)
        /\ supervisor'.on \in BOOLEAN /\ (c.line \notin SetsOnOff => supervisor'.on = supervisor.on)
        /\ supervisor'.at = "serving" /\ UNCHANGED supervisor.published
    BY <1>1, <1>2, <1>3, HandleAnswers
  <1>5. Up /\ UNCHANGED Up
    BY <1>2, <1>4 DEF Up
  <1>6. /\ Clicked = Clicked' + IF c.shown # None THEN 1 ELSE 0
        /\ Clicked \in Nat /\ Clicked' \in Nat
    <2>1. Tail(queue) \in Seq(Command)
      BY <1>2, <1>3
    <2> QED
      BY <1>2, <1>3, <2>1, ClicksTail, ClickSetFinite DEF Clicked
  <1>b. c.shown = None => Clicked' = Clicked
    <2>1. \A m, n \in Nat : m = n + 0 => n = m
      OBVIOUS
    <2> QED
      BY <1>6, <2>1
  <1>7. /\ (c.by = "tray" /\ FromTray(c)) \/ FromRequest(c)
        /\ Queues(queue, c.by)
        /\ \A x \in Requests : Queues(queue', x) <=> Queues(queue, x) /\ x # c.by
    BY <1>2, HeadLeaves
  <1>8. \A x \in Requests : x # c.by => request'[x] = request[x]
    BY <1>1
  <1> HIDE DEF c
  <1>9. \A x \in Requests : x # c.by => Abstract(x)' = Abstract(x)
    BY <1>7, <1>8, Unaffected
  <1>10. CASE c.by = "tray" /\ FromTray(c)
    <2>1. \A x \in Requests : Abstract(x)' = Abstract(x)
      BY <1>9, <1>10, ControlAssumption
    <2>2. CASE c.shown # None
      BY <1>4, <1>5, <1>6, <2>1, <2>2, ClickStep
    <2>3. CASE c.shown = None
      <3>1. supervisor'.on = supervisor.on
        BY <1>4, <1>10, <2>3 DEF FromTray
      <3>2. UNCHANGED Clicked
        BY <1>b, <2>3
      <3> QED
        BY <1>4, <1>5, <2>1, <3>1, <3>2, SkipStep
    <2> QED
      BY <2>2, <2>3
  <1>11. CASE FromRequest(c)
    <2>1. PICK r \in Requests : r = c.by
      BY <1>11 DEF FromRequest
    <2>2. c.shown = None /\ Held(request[r]) /\ request[r].line = c.line
      BY <1>11, <2>1 DEF FromRequest
    <2>3. UNCHANGED Clicked
      BY <1>b, <2>2
    <2>4. request'[r] = IF At(r, {"waiting"}) THEN [request[r] EXCEPT !.reply = reply] ELSE request[r]
      BY <1>1, <2>1 DEF c
    <2> QED
      BY <1>4, <1>5, <1>7, <1>9, <2>1, <2>2, <2>3, <2>4, ServedStep
  <1> QED
    BY <1>7, <1>10, <1>11

(* The tray sends a command, if it finds a slot.                           *)
LEMMA RefinesFire ==
  ASSUME IInv, Up, UNCHANGED <<request, supervisor>>,
         NEW line \in Lines, NEW shown \in BOOLEAN \cup {None}, fire(line, shown)
  PROVE  [Service!Next]_Service!vars
  <1> DEFINE c == [line |-> line, by |-> "tray", shown |-> shown]
  <1>1. c \in Command /\ c.by = "tray" /\ c.shown = shown
    BY DEF Command
  <1>2. UNCHANGED queue \/ queue' = Append(queue, c)
    BY DEF fire
  <1>3. queue \in Seq(Command)
    BY DEF IInv, Typed
  <1>4. UNCHANGED Up /\ UNCHANGED supervisor.on /\ UNCHANGED supervisor.published
    BY DEF Up
  <1> HIDE DEF c
  <1>5. CASE UNCHANGED queue
    BY <1>4, <1>5, Unseen
  <1>6. CASE queue' = Append(queue, c)
    <2>1. \A x \in Requests : Queues(queue', x) <=> Queues(queue, x)
      <3>1. /\ DOMAIN queue = 1..Len(queue) /\ DOMAIN queue' = 1..(Len(queue) + 1) /\ Len(queue) \in Nat
            /\ queue'[Len(queue) + 1] = c /\ \A i \in DOMAIN queue : queue'[i] = queue[i]
        BY <1>1, <1>3, <1>6
      <3> QED
        BY <1>1, <3>1, ControlAssumption DEF Queues
    <2>2. \A x \in Requests : Abstract(x)' = Abstract(x)
      BY <2>1, Unaffected
    <2>3. Clicked' = Clicked + (IF shown # None THEN 1 ELSE 0) /\ Clicked \in Nat
      BY <1>1, <1>3, <1>6, ClicksAppend, ClickSetFinite DEF Clicked
    <2>4. CASE shown # None
      BY <1>4, <2>2, <2>3, <2>4, ClickStep
    <2>5. CASE shown = None
      BY <1>4, <2>2, <2>3, <2>5, SkipStep
    <2> QED
      BY <2>4, <2>5
  <1> QED
    BY <1>2, <1>5, <1>6

(* The entries On/Off and Quit.                                            *)
LEMMA RefinesClick == ASSUME IInv, ClickOnOff \/ ClickQuit PROVE [Service!Next]_Service!vars
  <1>1. tray.at = "up" /\ UNCHANGED <<request, supervisor>>
    BY DEF ClickOnOff, ClickQuit, Clicks, abroad
  <1>2. Up /\ tray.on \in BOOLEAN
    BY <1>1 DEF IInv, Typed, TrayShape, Life
  <1>3. {"enable", "disable", "quit"} \subseteq Lines
    BY DEF Lines, Commands
  <1> QED
    BY <1>1, <1>2, <1>3, RefinesFire DEF ClickOnOff, ClickQuit

(* The choices in the menu, of which one sends a command.                  *)
LEMMA RefinesSetting == ASSUME IInv, NEW key \in Keys, ClickSetting(key) PROVE [Service!Next]_Service!vars
  <1>1. Typed /\ Life
    BY DEF IInv
  <1>2. PICK value \in ValuesOf(key) : Chooses(key, value)
    BY <1>1, ClickChooses
  <1>3. tray.at = "up" /\ UNCHANGED <<request, supervisor>>
    BY <1>1, ClickChooses
  <1>4. Up
    BY <1>1, <1>3 DEF Life
  <1>5. \/ UNCHANGED queue
        \/ \E line \in {"use evdev", "use native"} : fire(line, None)
    BY <1>2 DEF Chooses
  <1>6. {"use evdev", "use native"} \subseteq Lines
    BY DEF Lines, Commands
  <1>7. CASE UNCHANGED queue
    BY <1>3, <1>7, Unseen DEF Up
  <1> QED
    BY <1>3, <1>4, <1>5, <1>6, <1>7, RefinesFire

(* The first state is the service's.                                       *)
LEMMA RefinesInit == Init => Service!Init
  <1> SUFFICES ASSUME Init PROVE Service!Init
    OBVIOUS
  <1>1. queue = <<>> /\ \A r \in Requests : request[r] = None
    BY DEF Init
  <1>2. \A r \in Requests : Abstract(r) = None
    BY <1>1, AbstractIs
  <1>3. Cardinality(ClickSet(queue)) = 0
    BY <1>1, ClicksEmpty
  <1>4. Up = FALSE /\ supervisor.on = TRUE /\ supervisor.published = "auto"
    BY DEF Init, Off, Up
  <1> QED
    BY <1>2, <1>3, <1>4 DEF Service!Init, ClickSet

(* Every step of the control plane is one of the service or none.          *)
LEMMA RefinesNext == ASSUME IInv, [Next]_vars PROVE [Service!Next]_Service!vars
  <1>1. ASSUME NEW r \in Requests, Ask(r) \/ HangUp(r) \/ Connection(r)
        PROVE  [Service!Next]_Service!vars
    BY <1>1, RefinesAsk, RefinesHangUp, RefinesConnect, RefinesAccept, RefinesRead, RefinesSend,
       RefinesWrite DEF Connection
  <1>2. CASE AcceptFails \/ DelayOver
    BY <1>2, RefinesAcceptLoop
  <1>3. CASE EnterBackend \/ LeaveBackend \/ TransportEnds \/ ChannelCloses
    BY <1>3, RefinesSwitch
  <1>4. CASE TakeCommand
    BY <1>4, RefinesTake
  <1>5. CASE \/ \E b \in Backends : SyncConfig(b)
             \/ MakeTray \/ SpawnTray \/ UpdateTray \/ EditFile \/ UNCHANGED vars
    BY <1>5, RefinesElsewhere
  <1>6. CASE ClickOnOff \/ ClickQuit
    BY <1>6, RefinesClick
  <1>7. ASSUME NEW key \in Keys, ClickSetting(key) PROVE [Service!Next]_Service!vars
    BY <1>7, RefinesSetting
  <1>8. CASE Start
    BY <1>8, RefinesStart
  <1>9. CASE Exit \/ Kill
    BY <1>9, RefinesDown
  <1> QED
    BY <1>1, <1>2, <1>3, <1>4, <1>5, <1>6, <1>7, <1>8, <1>9 DEF Next, Backends

(* The connections, the command channel and the supervisor implement the   *)
(* service: every behaviour of ipc.rs handle_connection and serve,         *)
(* supervisor.rs handle_cmd and the end of the tasks is one of the         *)
(* service, in which a request takes effect at most once, at one moment    *)
(* between being asked and being answered, and its answer tells the state  *)
(* of that moment, of the backend the one that was announced last: after   *)
(* the tray has ended that need not be the running one.                    *)
THEOREM ImplementsServiceTheorem == Spec => ImplementsService
  <1>1. IInv /\ [Next]_vars => [Service!Next]_Service!vars
    BY RefinesNext
  <1> QED
    BY <1>1, RefinesInit, IInvInvariant, PTL DEF Spec, ImplementsService, Service!Spec

=============================================================================
