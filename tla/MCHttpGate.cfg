\* The gate closes while a body is read: is the job accepted all the same?
SPECIFICATION LaneSpec
CONSTANTS
  one = one
  two = two
  squat = squat
  bad = bad
  line = line
  node = node
  r1 = r1
  r2 = r2
  j1 = j1
  j2 = j2
  b1 = b1
  NoOne = NoOne
  Call <- MCCall
  Proc = {node}
  Requester = {r1, r2}
  Job = {j1, j2}
  Body = {b1}
  procOf <- MCProcOf
  requesterOf <- MCRequesterOf
  jobOf <- MCJobOf
  bodyOf <- MCBodyOf
  nonceOf <- MCNonceOf
  SelfTest = {}
  Http = {one, two, squat, bad}
  Malformed = {bad, line}
  MaxConcurrent = 1
  JobsPerHour = 1
  MaxCrashes = 0
  MaxMoves = 1
PROPERTY GateHeld
CHECK_DEADLOCK FALSE
