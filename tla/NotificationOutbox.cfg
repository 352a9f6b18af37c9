CONSTANTS
  n1 = n1
  n2 = n2
  d1 = d1
  d2 = d2
  NoNotification = NoNotification
  NoDispatcher = NoDispatcher
  Notification <- MCNotifications
  Dispatcher <- MCDispatchers
  Modes = {"stream_key", "live_api"}
  MaxStarts = 1
SPECIFICATION FairSpec
INVARIANT PostedOnce
PROPERTY KeepsPromise
PROPERTY BotDispatchSettles
