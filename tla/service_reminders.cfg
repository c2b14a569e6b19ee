\* One request at a time: three reminders, two records.
SPECIFICATION Spec
CONSTANTS
  Records = {1, 2}
  Reminders = {1, 2, 3}
  Days = {1, 2}
  Clients = {c1}
  Walkaround = TRUE
  Unborn = Unborn
  Gone = Gone
INVARIANT TypeOK StatusTellsDone
PROPERTY CadenceGoesOn SoleSuccessor StaysCompleted ClosedByLaterService
