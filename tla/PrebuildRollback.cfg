SPECIFICATION Spec
CONSTANTS
  LateFailures = {"linux", "darwin"}
  Versions = {1, 2}
INVARIANT PriorSurvives
