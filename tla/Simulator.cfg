SPECIFICATION Spec
CONSTANTS
  TicksPerSecond = 2
  Adjust = TRUE
  KeyModulus = 65536
  Periodic <- MCPeriodic
  Agents <- MCAgents
  Blocks <- MCBlocks
  Interval <- MCInterval
  PacketDelays <- MCPacketDelays
  InfiniteTtl = FALSE
  TraceUntil = 4
  Factors <- MCFactors
  Scripts <- MCScripts
  MaxUid <- MCMaxUid
  MaxCommands = 2
  Waits <- MCWaits
  MinRounds = 1
  MaxTime = 8
CHECK_DEADLOCK FALSE
INVARIANTS
  TypeOK
  NoFault
  TimersMatchQueue
  CalendarSound
PROPERTIES
  CalendarImplements
  HeapImplements
  ListImplements
