SPECIFICATION ServicesSpec
CONSTANTS
  OAuthRequests = {q1, q2}
  MaxSessions = 3
  MaxExpiries = 1
  MaxOAuthCalls = 3
  MaxReplaced = 1
  DavRequests = {d1, d2}
  Ports = {1, 2}
  MaxListeners = 3
  MaxDavCalls = 2
  MaxDavFailures = 1
  UploadRequests = {u1, u2}
  MaxUploads = 2
  Chunks = 2
  MaxUploadCalls = 5
  MaxUploadCrashes = 1
  LoginRequests = {l1, l2}
  NoRequest = NoRequest
  Clients = {c1}
  Attempts = 1
  MaxTokens = 2
  MaxPasswords = 2
  MaxLoginCalls = 4
  MaxWindows = 1
  MaxLoginCrashes = 1
  EditRequests = {e1, e2}
  Tunnels = {t1, t2}
  Hosts = {h1}
  NoHost = NoHost
  NoTunnel = NoTunnel
  MaxRules = 2
  MaxEdits = 2
  MaxTunnelChanges = 1
  Threshold = 3
  MaxRestarts = 10
  MaxFailures = 4
  Watchdog = TRUE
  Runs = {r1, r2}
  Main = Main
  Pulses = 5
  MaxSignals = 2
INVARIANTS
  OneCurrentSession
  RefreshTokensUsedOnce
  StoredTokenIsLive
  RunningIsServed
  SettledServerIsConfigured
  ObjectIsWhole
  DirectoriesAreOwned
  SessionsMatchPassword
  GuessesAreBounded
  CatchAllStaysLast
  BothTriedBeforeGivingUp
  SignalIsOrderly
PROPERTIES
  LogoutIsFinal
  SoloEditIsExact
CHECK_DEADLOCK FALSE
