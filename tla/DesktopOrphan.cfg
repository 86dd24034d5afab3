\* One operation and two processes: the process of a connect exits, and is
\* launched again, before its port answers.
SPECIFICATION DesktopSpec
CONSTANTS
  Operations = {c1}
  Processes = {p1, p2}
  Ports = {a, b}
  MaxRestarts = 1
  None = None
PROPERTY FailedStartLeavesNone
CHECK_DEADLOCK FALSE
