SPECIFICATION Spec
CONSTANTS
  Tasks = {"metrics", "publisher"}
  Role = "Primary"
  Enabled = {"metrics", "chaosPrimary"}
PROPERTIES StopSignalsMetrics
CHECK_DEADLOCK FALSE
