CONSTANTS
  u1 = u1
  i1 = i1
  r1 = r1
  Uses = {u1}
  Inits = {i1}
  Regens = {r1}
  Others <- MCOthers
  MaxMint = 3
  MaxFails = 1
  AtOnce = 2
  Starts = {"fresh", "classical", "full"}
SPECIFICATION IdentitySpec
CHECK_DEADLOCK FALSE
INVARIANTS
  BundlesSigned
  RetiredIsGone
  
