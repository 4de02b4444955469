SPECIFICATION ServicesSpec
CONSTANTS
  IngestTenants = {"a", "b"}
  Standing = {"t", "u"}
  Senders <- senders
  Exports <- ingestExports
  BufferModes = {TRUE, FALSE}
  MaxFailures = 2
  ShipDeployments = {{"drop"}, {"restore"}}
  MaxEvents = 4
  Nodes = {"n1", "n2"}
  Tags = {"t1"}
  AnnotationDeployments = {{"sync"}, {"legacy"}}
  MaxWrites = 3
  DirTenants = {"a", "b"}
  DefaultDir = "default"
  LegacyFiles = {"CURRENT", "LOG", "WAL"}
  Stagings = {".migrate-1", ".migrate-2"}
  DirDeployments = {{}}
  MaxNesting = 1
  ServerExports = {1, 2}
  MaxLoops = 2
  MaxCommits = 2
  Probes = {1, 2}
  MaxFlips = 3
  Streams = {"s1", "s2"}
  Filter <- filters
  Happenings <- happenings
  Capacity = 1
  MaxNotified = 4
INVARIANTS
  ExportsHonoured
  
  GapsAnnounced
  ReplayNeverDiverges
PROPERTIES
  
  
  EventsReachTheSink
  NodesConverge
  
  ShutdownCompletes
  EngineNeverHeld
CHECK_DEADLOCK FALSE
