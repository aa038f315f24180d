SPECIFICATION EventsSpec
CONSTANTS
  Nicks = {n1, n2}
  Accounts = {a1, a2}
  NoAccount = None
  QueueSize = 2
  OutboxSize = 2
  MaxLines = 5
INVARIANTS AccountsTracked
PROPERTIES PingsAnswered
