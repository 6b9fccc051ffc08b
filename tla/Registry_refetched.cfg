SPECIFICATION Spec
CONSTANTS
  p = p
  q = q
  r = r
  l1 = l1
  l2 = l2
  f = f
  g = g
  NoTag = "none"
  Artifacts = {p, q, r}
  Tag <- Named
  Layers <- Payloads
  Evidence <- AllEvidence
  Writers = {f, g}
  Role <- FetcherAndPublisher
  Task <- OnePin
  Accepts <- AllSigners
  Overlap = FALSE
  MaxAborts = 1
INVARIANTS
  RefusalIsConflict
