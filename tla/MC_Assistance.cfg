\* Two threads in a process that has just started, the extremes of a score.
SPECIFICATION Spec
CONSTANTS
  Threads = {s1, s2}
  Provider = "claude"
  Installed = TRUE
  Raw = {0, 100}
  Evidence = {4, 15}
  None = None
INVARIANTS NewcomersAreNotBranded
PROPERTIES EveryQuestionAnswered
