------------------------------ MODULE MCControl ------------------------------
(***************************************************************************)
(* Control with two requests of the user and one of somebody else, a       *)
(* command channel of one slot, two methods and one hook.                  *)
(***************************************************************************)
EXTENDS Control

MCFiles ==
  {NoToml("missing"), NoToml("broken"), Toml("method" :> "Vni", {}, "user", {}),
   Toml("method" :> "Vni", {"method"}, "user", {}), Toml("method" :> "Vni", {}, "user", {"other"}),
   Toml(<<>>, {}, "user", {"method"})}

Budget(asks, clicks, faults, edits, starts) ==
  [kind \in BudgetKinds |->
     CASE kind = "asks" -> asks [] kind = "clicks" -> clicks [] kind = "faults" -> faults
       [] kind = "edits" -> edits [] kind = "starts" -> starts]

Scenario(lines, menu, budget_) ==
  [file |-> NoToml("missing"), env |-> <<>>, ibus |-> FALSE, bus |-> menu # {},
   lines |-> lines, menu |-> menu, budget |-> budget_]

(* Connections and their faults.                                           *)
Connections ==
  {Scenario({"toggle", "status"}, {}, Budget(3, 0, 0, 0, 1)),
   Scenario({"quit", "toggle", "open", "bad"}, {}, Budget(2, 0, 1, 0, 1)),
   Scenario({"disable"}, {}, Budget(2, 0, 3, 0, 1)),
   Scenario({"backend", "switch", "use evdev"}, {}, Budget(2, 0, 1, 0, 1)),
   [Scenario({"backend", "switch"}, {}, Budget(1, 0, 1, 0, 1)) EXCEPT
      !.ibus = TRUE, !.env = "enable_evdev_grab" :> TRUE]}

(* Commands and clicks.                                                    *)
Contention ==
  {Scenario({"toggle"}, {"on/off"}, Budget(2, 2, 0, 0, 1)),
   Scenario({"toggle", "quit"}, {"on/off", "quit"}, Budget(1, 2, 1, 0, 1)),
   [Scenario({"switch"}, {"method", "enable_evdev_grab"}, Budget(1, 2, 1, 0, 1)) EXCEPT !.ibus = TRUE]}

(* Settings, edits of the file and a second start.                         *)
Persistence ==
  {[Scenario({}, Keys, Budget(0, 2, 0, 1, 2)) EXCEPT !.file = f, !.env = e] :
     f \in MCFiles, e \in {<<>>, "modern_style" :> FALSE}}
    \cup {Scenario({}, Keys, Budget(0, 2, 1, 0, 2))}

MCScenarios == Connections \cup Contention \cup Persistence

=============================================================================
