SPECIFICATION FairSpec
CONSTANTS
  None = None
  Configs <- MCAllConfigs
  Hooks <- MCHooks
  Requests = {"native", "evdev", "switch", "quit", "toggle", "status"}
  Faults = {"set_fails", "set_cannot_run", "unset_fails", "marker_fails", "grab_fails", "connect_fails", "transport_ends", "killed_in_setup", "killed", "control_ends"}
  MaxCommands = 2
  MaxFaults = 2
  MaxStarts = 3
INVARIANTS TypeOK IbusComposesAlone PublishedRuns HooksUndone HooksAccounted
PROPERTY CommandsTaken
CHECK_DEADLOCK FALSE
