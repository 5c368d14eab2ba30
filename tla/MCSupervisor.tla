---------------------------- MODULE MCSupervisor ----------------------------
(***************************************************************************)
(* Supervisor with two hooks.                                              *)
(***************************************************************************)
EXTENDS Supervisor

MCHooks == <<"sway", "x11">>

Cfg(i, w, e) == [ibus_requested |-> i, enable_wayland |-> w, enable_evdev_grab |-> e]

MCAllConfigs == {Cfg(i, w, e) : i \in BOOLEAN, w \in BOOLEAN, e \in BOOLEAN}
MCWaylandOnly == {Cfg(FALSE, TRUE, FALSE)}

=============================================================================
