SPECIFICATION Spec
CONSTANTS
  MaxTopicSections = 200
  Segments = 2
  SourceLanguages <- MCSourceLanguages
  RoutingDecisions <- MCRoutingDecisions
  Payloads <- MCPayloads
  Requested <- MCRequested
  MaxTranscripts = 2
  MaxVersions = 2
  MaxAttempts = 2
  MaxCrashes = 1
  MaxChanges = 1
  MaxForms = 2
INVARIANTS
  TypeOK
  RowsExplained
  NewestSummaryIsActive
  OneSummaryPerForm
PROPERTIES
  RecordingFollowsDefault
  LayoutReplacesWhatWasSeen
  HistoryIsReadOnly
CHECK_DEADLOCK FALSE
