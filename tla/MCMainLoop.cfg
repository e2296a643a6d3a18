SPECIFICATION FairSpec
CONSTANTS
  a = a
  Clients <- OneClient
  RefreshRate <- InSeconds
  SEND_INTERVAL = 2
  TIMER_1S = 2
  TIMER_1M = 4
  PollsMayFail = TRUE
  SendsMayFail = TRUE
  TransitMayLose = TRUE
  MaxCount = 2
  MaxDelivered = 2
  MaxMinutes = 3
INVARIANTS TypeOK NoLoss NoUnsetValueSent OnceIfRead PolledForReport
PROPERTIES ReportsRecur LanesServed EventuallySent Pacing LateByMissed ImplementsReporting
