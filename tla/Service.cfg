SPECIFICATION Spec
CONSTANTS
  Instances = {"a", "b"}
  Deployments <- MCDeployments
  MaxCrashes = 2
  Nobody = Nobody
  MaxBody = 32
  MaxImage = 20
  MaxTotal = 64
  MaxResponse = 32
  MaxText = 1
  MaxReferences = 5
  Requests <- MCRequests
  Answers <- MCAnswers
  Presented = {"none", "right"}
INVARIANTS
  BilledOnce
  UploadsArrive
  WholeBodyRead
  AnswerFaithful
  LetIn
PROPERTIES
  FileKept
  ReachableAgain
CHECK_DEADLOCK FALSE
