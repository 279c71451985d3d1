\* The prompt is answered before the request commits.
SPECIFICATION FairSpec
CONSTANTS
  Push = {p1}
  Configured = {TRUE}
  CallbackAmounts = {"same"}
  ResultForms = {"word"}
  PromptAfterCommit = FALSE
  AnswerMayBeLost = FALSE
  MayCrash = FALSE
  HandlerMayRaise = FALSE
  SecretMayChange = FALSE
PROPERTIES
  NeverLeftWondering
CHECK_DEADLOCK FALSE
