SPECIFICATION Spec
CONSTANTS
  None = None
  Methods = {"Telex", "Vni"}
  Hooks = {"sway"}
  Example = TRUE
  Requests = {r1, r2, r3}
  Foreign = {r3}
  Capacity = 1
  UserFiles <- MCFiles
  Scenarios <- MCScenarios
INVARIANTS TypeOK MirrorFollows ChoiceReachesDaemon SettingsSurvive
PROPERTIES ClickDoesWhatItSaid RequestsEnd ImplementsService
CHECK_DEADLOCK FALSE
