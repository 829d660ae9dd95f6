SPECIFICATION Spec
CONSTANTS
  Hosts <- MCHosts
  NoHost <- MCNoHost
  DefaultHost <- MCDefaultHost
  Keys = {"k"}
  Models = {"m"}
  Verifies = {"v"}
  Levels = {"low"}
  Environments <- MCEnvironments
  Flags <- MCFlags
  Files <- MCFiles
INVARIANTS TypeOK SettingsInForce SavedIsRestored
