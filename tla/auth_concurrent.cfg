\* Two requests in flight, failing or not at any database call.
SPECIFICATION Spec
CONSTANTS
  Slots = {s1, s2}
  MaxSessions = 2
  MaxTokens = 3
  MaxPasswords = 2
  Faults = TRUE
INVARIANT TypeOK
PROPERTIES ImplementsTokens
SYMMETRY Symmetry
\* Every session, token and password may have been used up.
CHECK_DEADLOCK FALSE
