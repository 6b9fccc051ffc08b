SPECIFICATION FairSpec
CONSTANTS
  lab1 = lab1
  lab2 = lab2
  steady = steady
  fickle = fickle
  low = low
  high = high
  h1 = h1
  h2 = h2
  h3 = h3
  Crash = Crash
  Absent = Absent
  Replay = Replay
  Handlers = {h1, h2, h3}
  Requests <- OneLab
  Local = {steady}
  Admissible = {steady, fickle}
  Runs <- Outcomes
  Admins = {lab2}
  Quota = 0
  Limit = 1
INVARIANTS
  TypeOK
  NeverLost
  LineageStored
  OwnResult
  Attended
PROPERTIES
  Settles
CHECK_DEADLOCK FALSE
