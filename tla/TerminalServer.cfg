SPECIFICATION LiveSpec
CONSTANTS
  RequiredOptions = {"RequestTTY"}
  MultiplexingOptions = {"ControlMaster", "ControlPath"}
  NoHost = NoHost
  Inputs <- MCInputs
  MaxCommands = 3
  CommandLines <- MCCommandLines
  AuthorizedHosts = {"h1"}
  MaxAttempts = 2
INVARIANTS TypeOK OneTerminal DeadlineOfTheLiving SshArgsAgree
PROPERTIES ImplementsSlot CommandAnswered ToldToExit VanishedBrowserReleased
CHECK_DEADLOCK FALSE
