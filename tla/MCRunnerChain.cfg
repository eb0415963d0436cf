\* A submission on its way through the runner.
SPECIFICATION FairSpec
CONSTANTS
  Jobs = {1, 2}
  Attempts = 2
  Budgets <- Bounds
  Cases = 2
  RunBudget = 1
  Platforms = {"DOCKER", "CLOUDFLARE"}
INVARIANTS
  ChainInv
  VerdictsAreBornOut

  
CHECK_DEADLOCK FALSE
