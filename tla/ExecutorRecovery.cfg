SPECIFICATION Spec
CONSTANTS
  Models = {"gpt", "nemotron", "qwen", "coder"}
  Ollamas = {"qwen", "coder"}
  LMStudios = {}
  Paid = {"gpt"}
  Tools = {"qwen"}
  NoModel = NoModel
  MaxLines = 2
  MaxMishaps = 1
  MaxRuns = 2
INVARIANT SuccessIsClean
INVARIANT NoRunLeftBehind
INVARIANT RunsWhatWasAsked
PROPERTY ErrorEndsRun
CHECK_DEADLOCK FALSE
