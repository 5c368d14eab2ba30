------------------------------ MODULE MCWayland ------------------------------
(***************************************************************************)
(* WaylandSession over the miniature Telex, lower case only.               *)
(***************************************************************************)
EXTENDS WaylandSession, MiniTelex

MCChar == {"o", "n", "f", "O", "_"}
MCEngineStates == TelexStates(MCChar \ Breaks)

MCStart == {<<>>, <<"o">>, <<"n", "o", "_">>, <<"O">>}
MCEmpty == {<<>>}
MCOneWord == {<<"o">>}
MCTwoWords == {<<"o", "_", "o">>}

=============================================================================
