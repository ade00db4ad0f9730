SPECIFICATION Spec
CONSTANTS
  LateFailures = {"linux"}
  Versions = {1, 2}
INVARIANTS
  TypeOK
  PriorSurvives
  FailureRestores
  SuccessInstalls
  PublishesWhatItBuilt
  TagsAndVersionsAgree
