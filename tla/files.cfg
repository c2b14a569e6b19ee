\* Three files, two requests at a time.
\* It stops when the vehicle and both accounts are gone.
SPECIFICATION Spec
CONSTANTS
  Files <- SomeFiles
  Owner = owner
  Guests = {guest}
  Clients = {c1, c2}
  owner = owner
  guest = guest
  c1 = c1
  c2 = c2
INVARIANT TypeOK RowsHaveFiles NoneForgotten
PROPERTY ReconcileSpares
SYMMETRY ClientSymmetry
CHECK_DEADLOCK FALSE
