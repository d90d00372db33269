SPECIFICATION PartsSpec
CONSTANTS
  None = None
  Clients = {user1, user2}
  Daemons = {old, d1, d2}
  Stale = old
  Budget = 3
  Credible = 2
  MaxFetches = 1
  MaxLines = 3
  MaxBlocks = 3
  MaxDeltas = 2
  model1 = model1
  model2 = model2
  signed = signed
  shared = shared
  own = own
  store = store
  temp = temp
  Pulls = {model1, model2, signed}
  Layers = {shared, own}
  Layouts = {store, temp}
  LayersOf <- MCLayersOf
  LayoutOf <- MCLayoutOf
  Size <- MCSize
  MaxParallel = 1
  MaxCrashes = 1
  Callers = {caller1, caller2}
  Refresher = refresher
  Retry = 1
  Cooldown = 2
  Ttl = 3
  MaxVersion = 1
  Nothing = Nothing
  Loads = {load1, load2}
  Binaries = {brew, managed}
  Container = Container
  Unresolved = Unresolved
  laptop = laptop
  mac = mac
  Nodes = {laptop, mac}
  Peers <- MCPeers
  Fleets <- MCFleets
  Weight = 2
INVARIANTS
  StartupTypeOK
  LosersAreServed
  MessagesWellFormed
  ResponsesWellFormed
  
  
  EndsAgree
  LayersArrive
  
  OneDownload
  CallsAdvance
  SpawnsWhatWasThere
  StaysWhereItMay
PROPERTIES
  FetchSpared
  ClientsReturn
  CatalogKept
  KeptWhileThere
  PlacedAsDocumented
CHECK_DEADLOCK FALSE
