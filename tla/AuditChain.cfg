SPECIFICATION FairSpec
CONSTANTS
  Worker = {w1, w2, w3}
  Nobody = Nobody
  Event = {e1, e2, e3, n1}
  Noise = {n1}
  Inexact = {e2}
  MaxAppends = 4
INVARIANTS
  ChainIntact
  VerifyIsExact
PROPERTIES
  AppendsOnly
  AppendEnds
CHECK_DEADLOCK FALSE
