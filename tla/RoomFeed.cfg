SPECIFICATION FeedSpec
CONSTANTS
  Rows = {1, 2}
  Homeless = {2}
  Relays = {r1, spare}
  Batch = 2
  Sends = {message}
  Other = other
  PageSize = 2
  MaxEvents = 3
  MaxRefreshes = 0
  spare = spare
  Workers = {w1, w2}
  NoWorker = NoWorker
INVARIANTS DeliveredOnce BrowserIsExact
PROPERTIES WaitingEventShown EveryDeliverySettles
CHECK_DEADLOCK FALSE
