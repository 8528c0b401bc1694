CONSTANTS
  Recordings = {r1}
  Profiles = {cantonese}
  ChineseProfiles = {cantonese}
  SourceLanguages <- MCEnglish
  Procs = {web, cli}
  WebProcs = {web}
  None = None
  MaxCommands = 4
  MaxCrashes = 0
SPECIFICATION WebSpec
PROPERTY AttemptInvalidatesForm
