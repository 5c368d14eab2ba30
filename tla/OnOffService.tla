---------------------------- MODULE OnOffService ----------------------------
(***************************************************************************)
(* What daklak's control socket promises to the programs that use it, with *)
(* no sockets, tasks or queues: a request takes effect at most once, at    *)
(* one moment between being asked and being answered, and its answer tells *)
(* the state at that moment: whether Vietnamese input is on, and the       *)
(* backend that was announced last.  An error means that it had no effect  *)
(* and will have none.  A request whose connection is lost may have taken  *)
(* effect, and may still take effect while its command is under way.       *)
(***************************************************************************)
EXTENDS Naturals

CONSTANTS
  Requests,  \* one request each, on a connection of its own
  Lines,     \* what they say
  Free       \* a request not yet made

VARIABLES
  up,        \* whether the daemon runs
  on,        \* whether Vietnamese input is on
  shown,     \* the backend that was announced last
  request,   \* for each request what it says, where it is and its answer
  clicks     \* clicks on the tray's on/off entry that are under way

OnOff(b) == IF b THEN "on" ELSE "off"

(* The state after a command, and what may be answered to it.              *)
After(line, b) ==
  CASE line = "toggle" -> ~b
    [] line = "enable" -> TRUE
    [] line = "disable" -> FALSE
    [] OTHER -> b

Answers(line, b, backend) ==
  CASE line \in {"toggle", "enable", "disable", "status", "quit"} -> {OnOff(After(line, b))}
    [] line = "backend" -> {backend}
    [] line \in {"use native", "use evdev", "switch"} -> {"ok", "err"}
    [] OTHER -> {}

vars == <<up, on, shown, request, clicks>>

Init ==
  /\ up = FALSE /\ on = TRUE /\ shown = "auto"
  /\ request = [r \in Requests |-> Free] /\ clicks = 0

At(r, states) == request[r] # Free /\ request[r].at \in states

Now(q, at, reply) == [line |-> q.line, at |-> at, reply |-> reply]

Ask(r) ==
  /\ request[r] = Free
  /\ \E line \in Lines :
       request' = [request EXCEPT ![r] = [line |-> line, at |-> "asked", reply |-> ""]]
  /\ UNCHANGED <<up, on, shown, clicks>>

TakeEffect(r) ==
  /\ up /\ At(r, {"asked", "left"})
  /\ on' = After(request[r].line, on)
  /\ \E reply \in Answers(request[r].line, on, shown) :
       request' = [request EXCEPT ![r] = IF @.at = "left" THEN Now(@, "lost", "")
                                         ELSE Now(@, "taken", reply)]
  /\ UNCHANGED <<up, shown, clicks>>

Refuse(r) ==
  /\ At(r, {"asked"})
  /\ request' = [request EXCEPT ![r] = Now(@, "answered", "err")]
  /\ UNCHANGED <<up, on, shown, clicks>>

Answer(r) ==
  /\ At(r, {"taken"})
  /\ request' = [request EXCEPT ![r] = Now(@, "answered", @.reply)]
  /\ UNCHANGED <<up, on, shown, clicks>>

(* Those who asked go away, or connections are cut, several at a time when *)
(* a server or the daemon stops; then clicks may be lost with them.        *)
Lose(some) ==
  /\ \A r \in some : At(r, {"asked", "left", "taken"})
  /\ \E left \in SUBSET {r \in some : At(r, {"asked", "left"})} :
       request' = [r \in Requests |->
                     IF r \in some
                     THEN Now(request[r], IF r \in left THEN "left" ELSE "lost", "")
                     ELSE request[r]]
  /\ clicks' \in 0..clicks
  /\ up' \in {up, FALSE}
  /\ shown' = IF up' THEN shown ELSE "auto"
  /\ UNCHANGED on

Click == up /\ clicks' = clicks + 1 /\ UNCHANGED <<up, on, shown, request>>

ClickTakesEffect ==
  /\ up /\ clicks > 0 /\ clicks' = clicks - 1
  /\ on' \in BOOLEAN
  /\ UNCHANGED <<up, shown, request>>

(* A backend is entered and announced.                                     *)
Announce == up /\ shown' \in {"native", "evdev"} /\ UNCHANGED <<up, on, request, clicks>>

(* The daemon starts, always with Vietnamese input on, no backend entered. *)
Start == ~up /\ up' = TRUE /\ on' = TRUE /\ shown' = "auto" /\ UNCHANGED <<request, clicks>>

Next ==
  \/ \E r \in Requests : Ask(r) \/ TakeEffect(r) \/ Refuse(r) \/ Answer(r)
  \/ \E some \in SUBSET Requests : Lose(some)
  \/ Click \/ ClickTakesEffect \/ Announce \/ Start

Spec == Init /\ [][Next]_vars

=============================================================================
