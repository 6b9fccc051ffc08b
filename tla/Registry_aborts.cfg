SPECIFICATION Spec
CONSTANTS
  p = p
  q = q
  r = r
  l1 = l1
  l2 = l2
  f = f
  g = g
  NoTag = "none"
  Artifacts = {p, q, r}
  Tag <- Named
  Layers <- Payloads
  Evidence <- AllEvidence
  Writers = {f, g}
  Role <- FetcherAndPublisher
  Task <- PinsAndBuild
  Accepts <- NotThePin
  Overlap = FALSE
  MaxAborts = 3
INVARIANTS
  TypeOK
  IndexBacked
  KeptVerifies
PROPERTIES
  ImplementsCatalogue
