CONSTANTS
  Recordings = {r1}
  Profiles = {cantonese}
  ChineseProfiles = {cantonese}
  SourceLanguages <- MCEnglish
  Procs = {cli}
  None = None
  MaxCommands = 3
  MaxCrashes = 0
SPECIFICATION Spec
INVARIANT ReadyNamesModel
