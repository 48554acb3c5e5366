CONSTANTS
  e1 = e1  w1 = w1  w2 = w2  xlm = xlm  usdc = usdc  vault = vault  s1 = s1  s2 = s2
  Enterprises = {w1}
  Workers = {w1, w2}
  Tokens = {xlm, usdc}
  Vault = vault
  AmountLists <- MCAmounts
  InitialBalance = 4
  MaxMilestones = 2
  MaxI128 = 3
  MaxIds = 2
  MaxTime = 2
  Handlers = {s1, s2}
  Traffic = {"create", "approve", "claim", "refund"}
SPECIFICATION AllSpec
SYMMETRY Symmetric
INVARIANTS TypeOK StatusMatchesTranches Accounting
INVARIANTS MirrorTypeOK PaidIsClaimedOnChain
PROPERTIES GatedMovement ImplementsTrancheLedger
CHECK_DEADLOCK FALSE
