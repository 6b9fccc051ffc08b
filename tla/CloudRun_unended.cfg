SPECIFICATION Spec
CONSTANTS
  plain = plain
  resumable = resumable
  h1 = h1
  h2 = h2
  s1 = s1
  s2 = s2
  Hosts = {h1, h2}
  Jobs = {plain, resumable}
  Addresses = {pin}
  AddressOf <- OnePin
  pin = pin
  Backoff <- OneRetry
  Subscribers = {s1, s2}
  Deployments <- OneHost
  Batch = 2
  MaxPods = 2
  MaxFaults = 0
INVARIANT StartedIsClosed
CHECK_DEADLOCK FALSE
