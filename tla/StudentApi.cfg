\* Three requests, two of them over the burst of their address.
CONSTANTS
  Request = {1, 2, 3}
  Reader = {1, 2, 3}
  Ip = {ip1, ip2}
  ip1 = ip1
  ip2 = ip2
  name1 = name1
  name2 = name2
  Blank = Blank
  Text = Text
  NoLimiter = 0
  Burst = 2
  MaxTicks = 1
  MaxId = 4
  MaxFaults = 1
  Form <- MCForm
SPECIFICATION Spec
INVARIANTS AdmittedWithinRate RefusedChangedNothing AddedOnce UploadReplyTrue
PROPERTIES MissingClassHeals
CHECK_DEADLOCK FALSE
