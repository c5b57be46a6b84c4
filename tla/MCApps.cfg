INIT AppsInit
NEXT AppsNext
CONSTANTS
  Name <- MC_Name
  Path <- MC_Path
  Content <- MC_Content
  InitTree <- MC_InitTree
  HOME <- MC_HOME
  APPS <- MC_APPS
  PACKAGE_DB_PATH <- MC_DB
  MANIFEST <- MC_MANIFEST
  ROOT_PACKAGE_MAX_INSTALLED = 2
  RTPGK_HEADER_SIZE = 1
  ENTRY_SIZE = 1
  USIZE = 8
  MAX_LINES = 3
  Text <- MC_Text
  PackageFiles <- MC_PackageFiles
  Splices <- MC_Splices
  UserContent <- MC_UserContent
  MaxTroubles = 2
  ROOT_PROCESS_MAX = 3
  PID_MAX = 4
  ExitCode = {0, 1}
INVARIANTS
  InstallAllOrNothing
  ListedIsComplete
  NothingLeaks
  KeepsLatest
  AcceptedInBounds
PROPERTIES
  RestartKeepsList
