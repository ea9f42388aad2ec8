CONSTANTS
  Checks = 3
  MaxListeners = 3
  MaxTimers = 3
  MaxRequests = 3
  CookieNames <- SomeNames
  CookieValues = {"v", "w"}
  MaxDays = 2
  Navigators <- SomeNavigators
SPECIFICATION FairSpec
INVARIANT TypeOK
INVARIANT ChecksPainted
INVARIANT RequestsInOrder
INVARIANT CookieRead
INVARIANT VersionOfBrowser
PROPERTY PressedComesUp
CHECK_DEADLOCK FALSE
