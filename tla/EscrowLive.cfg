CONSTANTS
  e1 = e1  w1 = w1  w2 = w2  xlm = xlm  usdc = usdc  vault = vault  s1 = s1  s2 = s2
  Enterprises = {e1}
  Workers = {w1}
  Tokens = {xlm}
  Vault = vault
  AmountLists <- MCAmounts
  InitialBalance = 3
  MaxMilestones = 2
  MaxI128 = 3
  MaxIds = 1
  MaxTime = 3
  Handlers = {s1, s2}
  Traffic = {"create", "approve", "claim", "refund", "freeze", "unfreeze", "return"}
SPECIFICATION LiveSpec
PROPERTIES ContractSettles ActiveRowsConverge ClaimsAreBooked
CHECK_DEADLOCK FALSE
