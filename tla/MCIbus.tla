------------------------------- MODULE MCIbus -------------------------------
(***************************************************************************)
(* IbusSession over the miniature Telex, lower case only.                  *)
(***************************************************************************)
EXTENDS IbusSession, MiniTelex

MCChar == {"o", "n", "f", "O", "_"}
MCEngineStates == TelexStates(MCChar \ Breaks)

MCStart == {<<>>, <<"o", "_", "o">>}

=============================================================================
