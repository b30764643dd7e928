\* Two administrators and a publishing workload over a configuration that is
\* restored from one of two backups, or built from nothing, in four requests.
SPECIFICATION BackupSpec
CONSTANTS
  Bots = {1, 2}
  Tokens = {"a1", "a2", "b1"}
  IdentityOf <- TwoIdentities
  Chats = {"c1", "c2"}
  Dests = {1, 2}
  RouteKeys = {"k"}
  RouteFlags <- OnAndOff
  Workloads = {"w"}
  Services = {"s"}
  SourceOf <- OneSource
  Migrations = {"m"}
  Keys = {"i"}
  Payloads = {"p"}
  Editors = {e1, e2}
  Publishers = {u1}
  MaxRequests = 4
  Backups <- TwoBackups
SYMMETRY Symmetry
INVARIANTS
  TypeOK
  HistoryExplainsRoutes
  MigrationKeepsRoutes
  EachChatOnce
  RestoreRoundTrip
PROPERTIES
  EditsReplaceWhatTheySaw
CHECK_DEADLOCK FALSE
