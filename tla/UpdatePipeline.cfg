\* A user, a bridge, and operators who answer, at two bots.
SPECIFICATION Spec
CONSTANTS
  support = support
  desk = desk
  user1 = user1
  operators = operators
  slack = slack
  backend = backend
  Bots = {support, desk}
  Chats = {user1, operators}
  Bridges = {slack}
  BotOf <- ChatBots
  NoText = "none"
  Configs <- Configurations
  Clients = {backend}
  BotOfClient <- BackendOfSupport
  Limit = 1
  QueueSize = 2
  BridgeBase = 10
  MaxMessages = 2
  MaxBridged = 1
  MaxFaults = 1
INVARIANTS
  TypeOK
  NothingLostSilently
  OnceUnlessRetried
  RepliesReturn
PROPERTIES
  UpdatesReachBackends
CHECK_DEADLOCK FALSE
