CONSTANTS
  Recordings = {r1}
  Profiles = {cantonese, european}
  ChineseProfiles = {cantonese}
  SourceLanguages <- MCEnglish
  Procs = {cli}
  None = None
  MaxCommands = 3
  MaxCrashes = 0
SPECIFICATION Spec
INVARIANT MarkerNamesTranscription
