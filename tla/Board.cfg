SPECIFICATION FairSpec
CONSTANTS
  Pids <- ThreePids
  MaxArrivals = 3
  MaxKills = 1
  MaxDirect = 1
INVARIANTS
  BoardExclusive
  TicketKept
PROPERTIES
  NoOvertaking
  NoWedge
