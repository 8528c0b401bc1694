CONSTANTS
  Recordings = {r1}
  Profiles = {cantonese}
  ChineseProfiles = {cantonese}
  SourceLanguages <- MCEnglish
  Procs = {cli, web}
  None = None
  MaxCommands = 2
  MaxCrashes = 1
SPECIFICATION FairSpec
PROPERTIES InFlightEnds DiscoveredIsRouted
