SPECIFICATION Spec
CONSTANTS
  Jobs <- MCJobs
  Reports <- MCReports
  PipeUnits = 1
  MaxFrame = 3
  MaxFiles = 2
  LongNames = {"long"}
  OddNames = {"odd"}
  PaddedNames = {"padded "}
  SourceNames = {"main.typ"}
INVARIANTS
  TypeOK
  CompleteResult
  StderrKept
  BrokenDocumentNotBrokenWorker
  DiagnosticsKept
PROPERTIES
  JobEnds
