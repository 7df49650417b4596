\* Three callers, of which two ask for different windows; every timer fires in time.
SPECIFICATION Spec
CONSTANTS
  Calls = {c1, c2, c3}
  Windows = {1, 3}
  PromptTimers = TRUE
  None = None
INVARIANT OneFactory
CHECK_DEADLOCK FALSE
