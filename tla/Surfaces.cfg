SPECIFICATION SurfacesSpec
CONSTANTS
  Tenants = {"d", "a", "b"}
  Default = "d"
  Requests = {"q1", "q2"}
  RegistryLimits <- registryLimits
  MaxAttempts = 4
  Speakers <- mementoSpeakers
  Promises = {0, 1, 2}
  MaxPromise = 1
  MaxStops = 1
  MementoDeployments <- mementoDeployments
  SettingFamilies <- settingFamilies
  MaxNamed = 1
  AccessTenants = {"d", "a"}
  DefaultTenant = "d"
  ExportTenants <- exportTenants
  MaxGrants = 2
  IndexEvents <- indexEvents
  Untagged = {1}
  IndexReads <- indexReads
  MaxIndexSeq = 3
  Identities <- identities
  Relations <- relations
  BufferTTL = 1
  MaxPending = 1
  MaxCycle = 1
  Natives <- natives
  Handmade <- handmade
  Word = 64
  Second = 4
  MaxPlausible = 12
  Things = {"h", "k", "i", "j", "e"}
  TypeOf <- thingTypes
  Edges <- edges
  Perishable = {"k"}
  Asked = {3}
  Threshold = 9
  Items = {1, 2, 3, 4}
  Matching = {1, 3}
  Reads <- pagedReads
  DefaultPage = 2
  MaxPage = 3
  MaxChanges = 2
  Questions <- windowQuestions
  Values = {0, 1}
  Scopes = {"s"}
  LastUntagged = 1
  TimeWord = 16
  FirstTime = 2
  MaxTime = 5
  MaxHappenings = 2
  MaxPrunes = 1
  ValuePairs <- valuePairs
  EntityPairs <- entityPairs
  Envelopes <- envelopes
  Lookups <- lookups
  KeyRank <- keyRank
  KnownTypes = {"host"}
  Relational <- relational
  Agents <- agents
  EntityType = "container"
  Sayings <- sayings
  MaxPlausibleInterval = 1
  MaxNames = 2
  ProvenanceReads <- provenanceReads
  MaxClock = 3
  MaxHeard = 3
  Machines <- machines
  Services <- services
  Bindings <- bindings
  Connections <- connections
  MaxReported = 2
  Census <- census
  Links <- links
  Inquiries <- inquiries
  KeySample = 1
  TypeSeries = 2
  MaxMoves = 2
INVARIANTS
  MintsCapped
  OneStorePerTenant
  AcceptedIsHonoured
  AccessAsConfigured
  IndexSound
  SaidIsHeard
  TraversalsTrue
  PagesComplete
  
  
  
  SurveysTrue
PROPERTIES
  
  AliasesSound
  
CHECK_DEADLOCK FALSE
