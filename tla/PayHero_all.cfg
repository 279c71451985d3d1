\* Two pushes, everything that can go wrong: callbacks before the commit, again,
\* with any amount and result form, lost answers, crashes, handlers that raise or
\* reject.
SPECIFICATION FairSpec
CONSTANTS
  Push = {p1, p2}
  Configured = {TRUE, FALSE}
  CallbackAmounts = {"same", "other", "none", "garbled"}
  ResultForms = {"word", "zero"}
  PromptAfterCommit = FALSE
  AnswerMayBeLost = TRUE
  MayCrash = TRUE
  HandlerMayRaise = TRUE
  SecretMayChange = TRUE
INVARIANTS
  BookedOnlyIfCharged
  RowsAgree
  ChargedIsNotFailed
PROPERTIES
  LifecycleSpec
  SettledUnlessMissed
CHECK_DEADLOCK FALSE
