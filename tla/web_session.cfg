\* One tab, opened and closed; two sign-ins, of one account or two; one request unanswered,
\* one access token that runs out.
\* It stops when the sign-ins are used up.
SPECIFICATION FairSpec
CONSTANTS
  Tabs = {t1}
  Accounts = {a1, a2}
  MaxSessions = 2
  MaxN = 2
  MaxLost = 1
  MaxDead = 1
  None = None
  Rejected = Rejected
  Unreachable = Unreachable
  t1 = t1
  a1 = a1
  a2 = a2
INVARIANT TypeOK ShowsItsOwnUser
PROPERTY ServerKeepsPromise OnlyTheServerEnds SignOutSticks LoadingEnds StaysFresh
CHECK_DEADLOCK FALSE
