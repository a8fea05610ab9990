\* The platform and a municipality, three usernames, the operator and two or more accounts,
\* two requests at a time, two changes, two tokens.
\* The bounds stop the system: no deadlock check.
CONSTANTS
  NONE = NONE
  h1 = h1
  h2 = h2
  platform = platform
  m1 = m1
  ann = ann
  bob = bob
  cleo = cleo
  Requests = {h1, h2}
  Municipalities = {m1}
  Platform = platform
  Usernames = {ann, bob, cleo}
  MaxAccounts = 3
  MaxEdits = 2
  MaxTokens = 2
  Exclusive = TRUE
SPECIFICATION Spec
INVARIANTS TypeOK UsernamesAreUnique
PROPERTIES LastAdminStays RevokedStaysRevoked OnlyByStaff
SYMMETRY Symmetry
CHECK_DEADLOCK FALSE
