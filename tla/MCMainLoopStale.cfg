SPECIFICATION Spec
CONSTANTS
  a = a
  Clients <- OneClient
  RefreshRate <- InMinutes
  SEND_INTERVAL = 2
  TIMER_1S = 2
  TIMER_1M = 4
  PollsMayFail = TRUE
  SendsMayFail = FALSE
  TransitMayLose = FALSE
  MaxCount = 1
  MaxDelivered = 2
  MaxMinutes = 3
INVARIANTS ReportedOnce
