\* One request at a time: three sessions, five tokens, three passwords.
SPECIFICATION Spec
CONSTANTS
  Slots = {s1}
  MaxSessions = 3
  MaxTokens = 5
  MaxPasswords = 3
  Faults = FALSE
INVARIANTS ResetEndsSessions VerifiedOnce
PROPERTIES OnlyItsSessionLeft ChangeProvesCurrent
\* Every session, token and password may have been used up.
CHECK_DEADLOCK FALSE
