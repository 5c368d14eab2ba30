SPECIFICATION Spec
CONSTANTS
  None = None
  Nil = Nil
  CharKeys = {"a"}
  NavKeys = {"Left"}
  ModKeys = {"Shift", "Ctrl"}
  ShortcutMods = {"Ctrl"}
  Slots = {"F13"}
  Glyphs <- MCGlyphs
  Windows = {"w1", "w2"}
  Apps = {"foot", "gedit"}
  Profiles <- MCProfiles
  Budgets <- MCBudgets
  Backlog = 2
INVARIANTS TypeOK NoKeyLeftDown NoTrailingRepeat ModsSettle EditKeysArrive SessionAgrees TextOfSession DoneAcknowledged FocusFollows
CHECK_DEADLOCK FALSE
