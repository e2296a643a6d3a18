SPECIFICATION FairSpec
CONSTANTS
  TIMER_1S = 10
  TIMER_1M = 600
INVARIANTS TypeOK
PROPERTIES ImplementsMetronome EveryPeriodComes
