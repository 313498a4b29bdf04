SPECIFICATION FairSpec
CONSTANTS
  notification = notification
  monitor = monitor
  Event = {e1}
  Relay = {r1}
  Consumer = {notification, monitor}
  Bound <- MCBound
  Split = {monitor}
  Prefetch <- MCPrefetch
  MaxAttempts = 2
  MaxFaults = 2
INVARIANTS
  NothingLost
  ExactlyOnce
  AtLeastOnce
  DeadLetterEarned
PROPERTIES
  Settles
CHECK_DEADLOCK FALSE
