SPECIFICATION FairSpec
CONSTANTS
  Logins = {f1}
  Handlers = {h1, h2}
  TokenReqs = {t1, t2}
  Uris <- MCUris
  Allowed <- MCAllowed
  Loopback <- MCLoopback
  Requested <- MCRequested
  UserScopes = {"read"}
  Supported = {"read", "admin"}
  MaxCodes = 2
  MaxTokens = 3
  MaxForms = 2
  CodesCap = 1
  TokensCap = 2
  None = None
INVARIANTS TypeOK OneCodePerForm OneCredential
PROPERTIES Promise AbandonedIsForgotten
CHECK_DEADLOCK FALSE
