SPECIFICATION FairSpec
CONSTANTS
  plain = plain
  resumable = resumable
  h1 = h1
  h2 = h2
  s1 = s1
  s2 = s2
  Hosts = {h1, h2}
  Jobs = {plain, resumable}
  Addresses = {pin}
  AddressOf <- OnePin
  pin = pin
  Backoff <- OneRetry
  Subscribers = {s1, s2}
  Deployments <- TwoHostsOrReaders
  Batch = 2
  MaxPods = 2
  MaxFaults = 2
INVARIANTS
  TypeOK
  ResultIsBacked
PROPERTIES
  ImplementsStream
  AllHandled
  SubmitEnds
CHECK_DEADLOCK FALSE
