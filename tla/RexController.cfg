SPECIFICATION FairSpec
CONSTANTS
  Interval = 3
  Firmwares <- KnownFirmwares
INVARIANTS RouteIsWhole
PROPERTIES EachTickServedOnce TicksAreSpaced NoTickLost TicksNeedArm TicksKeepComing
