\* A cleanup and the work of another instance.
SPECIFICATION Spec
CONSTANTS
  Jobs = {1, 2}
  Attempts = 2
  Budgets <- Bounds
  Cases = 2
  RunBudget = 1
  Platforms = {"DOCKER", "CLOUDFLARE"}
PROPERTIES
  SweepSparesRunning
CHECK_DEADLOCK FALSE
