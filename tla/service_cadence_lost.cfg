\* Two requests at a time.
SPECIFICATION Spec
CONSTANTS
  Records = {1, 2}
  Reminders = {1, 2, 3}
  Days = {1, 2}
  Clients = {c1, c2}
  Walkaround = FALSE
  Unborn = Unborn
  Gone = Gone
INVARIANT KeepsCadence
