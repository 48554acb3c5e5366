CONSTANTS
  a1 = a1  a2 = a2  a3 = a3
  Addresses = {a1, a2, a3}
  MinTtl = 3
  MaxTtl = 5
  MaxSeq = 9
  Requests = {r1, r2}
  AutoApprove = TRUE
  Ttl = 1
  Validity = 1
  Patience = 1
  Horizon = 3
  MaxInFlight = 1
  MaxReviews = 1
  o = o  x = x  y = y  r1 = r1  r2 = r2
  Users = {o, x, y}
  Founder = o
  Places = {r1, r2}
  MaxRows = 2
  MaxRequests = 4
  Browsers = {x, y}
  Slots = {r1, r2}
  MaxVisits = 4
  MaxUses = 1
  Letters = {x, y}
  MaxLength = 4
  MaxTolerance = 2
  Forms = {x, y}
  Wires = {r1, r2}
  Rates = {1, 2}
  MaxKeys = 2
SPECIFICATION AllSpec
SYMMETRY Symmetric
INVARIANTS AllTypeOK OfferStands StaleClearanceExpires UsedUpMeansJoined
INVARIANTS SignInLasts MatchIsExact PaidAsShown
PROPERTIES HandedOver BlockedMovesNothing OwnerKeepsCompany
CHECK_DEADLOCK FALSE
