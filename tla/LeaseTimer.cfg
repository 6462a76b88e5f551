CONSTANTS
  TTL = 3
  TicksPerSecond = 5
  Delay = 1
  Slack = 1
SPECIFICATION TimerSpec
INVARIANTS KeptAlive LossIsNoticed
