CONSTANTS
  Documents = {1, 2, 3, 4}
  Owner <- MCOwner
  Metadata = {1}
  Segments = {2}
  Section <- MCSection
  MaxCommits = 3
SPECIFICATION Spec
PROPERTIES ResultsAreOfOneState AnswerEvidenceStands
