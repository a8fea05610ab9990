\* Two administrators, two conversations, two turns at a time, answers of up to two
\* pieces, a history of two messages, one fault.
\* The bounds stop the system: no deadlock check.
CONSTANTS
  NONE = NONE
  h1 = h1
  h2 = h2
  ann = ann
  bob = bob
  Requests = {h1, h2}
  Admins = {ann, bob}
  HistoryLimit = 2
  MaxConversations = 2
  MaxMessages = 4
  MaxText = 2
  MaxFaults = 1
SPECIFICATION Spec
PROPERTIES SeenSurvives HistoryIsUsable
SYMMETRY Symmetry
CHECK_DEADLOCK FALSE
