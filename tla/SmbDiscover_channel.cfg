SPECIFICATION FairSpec
CONSTANTS
  LaunchFds <- MCLaunchFds
  CredLens <- MCCredLens
  PidLen = 5
  MaxSigpipe = 1
INVARIANTS
  TypeOK
  SocketCarriesOnlyMessages
  StdoutCarriesOnlyMessages
  ReportNamesWorker
  LogsNotDuplicated
  SocketHeldOnlyForRequest
PROPERTIES
  ImplementsChannel
  EveryConnectionIsClosed
