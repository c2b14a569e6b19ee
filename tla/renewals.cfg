\* Two papers and two reminders, two requests at a time.
SPECIFICATION Spec
CONSTANTS
  Papers = {1, 2}
  Reminders = {1, 2}
  Starts = {}
  NoStart = 0
  Ends = {1, 4}
  Never = 9
  Dates = {1, 4}
  Window = 1
  Clients = {c1, c2}
  Unborn = Unborn
  Gone = Gone
  c1 = c1
  c2 = c2
INVARIANT TypeOK OneRenewal SettledUnlessOwed UndisturbedAccepted
PROPERTY HandsOn
CONSTRAINT EndsTried
SYMMETRY ClientSymmetry
VIEW View
