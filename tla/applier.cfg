\* Up to three checks under way; fewer and more retries than replies.
SPECIFICATION FairSpec
CONSTANTS
  ApplyRetries = 3
  ReconnectRetries = 4
  MaxChecks = 3
INVARIANTS TypeOK OneSocket AlwaysACommand SocketMonitored NeverIdleUnanswered
PROPERTIES ApplyAnswered HangUpNoticed
CHECK_DEADLOCK FALSE
