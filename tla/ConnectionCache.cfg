SPECIFICATION FairSpec
CONSTANTS
  Workers = {w1, w2}
  Pools = {p1, p2, p3}
  Versions = {v1, v2}
  Missing = Missing
  Nobody = Nobody
  None = None
INVARIANTS TypeOK NeverPoisoned
PROPERTIES ClosedOnlyByRotation RotationCloses Heals
