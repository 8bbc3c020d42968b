SPECIFICATION Spec
CONSTANTS
  None = None
  Target <- MCTarget
  Response <- MCResponse
  Limits <- MCLimits
  Lower <- MCLower
  L1MaxBody = 4
  DefaultTtl = 1
  MaxInt = 4
  MaxTime = 1
INVARIANTS
  L1Sound
  IsLru
  HitIsLatest
  HeldIsCurrent
