CONSTANTS
  TapeSize = 2
  Window = 1
  Batch = 2
  Clients = {c1}
  NoClient = NoClient
  MaxPushes = 4
  MaxResets = 1
SPECIFICATION TelemetrySpec
INVARIANTS
  SnapshotCoherent
  ScrapesAddUp
  SamplesAreLatest
PROPERTIES
  ServerEnds
