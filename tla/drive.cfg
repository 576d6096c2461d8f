SPECIFICATION Spec
CONSTANTS
  Handlers = {1, 2}
  Uploaders = {3}
  MaxConsents = 3
  MaxEvents = 3
INVARIANTS LinkTypeOK TokensOfOneAccount DisconnectionIsFinal SyncMatchesAccount
