\* One request at a time: what a vehicle's deletion forgets.
SPECIFICATION Spec
CONSTANTS
  Files <- FewFiles
  Owner = owner
  Guests = {guest}
  Clients = {c1}
  owner = owner
  guest = guest
  c1 = c1
PROPERTY FilesGoToo
CHECK_DEADLOCK FALSE
