CONSTANTS
  Recordings = {r1}
  Profiles = {european}
  ChineseProfiles = {}
  SourceLanguages <- MCCantonese
  Procs = {cli, web}
  WebProcs = {web}
  None = None
  MaxCommands = 2
  MaxCrashes = 1
SPECIFICATION WebSpec
PROPERTIES SuccessInvalidatesForm RetriesStageShown
