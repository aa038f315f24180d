SPECIFICATION FeedSpec
CONSTANTS
  Window = 2
  MaxSeen = 2
  PollLimit = 1
  ManualLimit = 2
  MaxEntries = 3
  MaxRestarts = 1
INVARIANTS AnnouncedOnce SavedWasHandled
PROPERTIES PollingGoesOn EntriesArrive
\* Polling really ends when saving raised and a send() never returns.
CHECK_DEADLOCK FALSE
