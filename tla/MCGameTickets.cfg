SPECIFICATION FairSpec
CONSTANTS
  TicketIds = {t1, t2, t3}
  MaxTickets = 2
  MinTtl = 1
  MaxTtl = 3
  RequestedTtls = {0, 2, 4}
  Missing = Missing
  Servers = {s1, s2, bad}
  BadNames = {bad}
  Purposes = {p1, p2}
  Absent = Absent
  Secrets <- SampleSecrets
  TtlSettings <- SampleSettings
  TtlRequests <- SampleRequests
  Offsets <- SampleOffsets
INVARIANTS
  TokensHold
PROPERTIES
  ImplementsSingleUse
  TicketsClose
