\* One process and one crash: is a job_id ever executed twice?
SPECIFICATION Spec
CONSTANTS
  mail = mail
  http = http
  squat = squat
  other = other
  node = node
  r1 = r1
  r2 = r2
  j1 = j1
  j2 = j2
  b1 = b1
  b2 = b2
  NoOne = NoOne
  Call <- MCCall
  Proc <- MCProc
  Requester = {r1, r2}
  Job = {j1, j2}
  Body = {b1, b2}
  procOf <- MCProcOf
  requesterOf <- MCRequesterOf
  jobOf <- MCJobOf
  bodyOf <- MCBodyOf
  SelfTest = {}
  Malformed = {}
  Http = {http, squat}
  MaxConcurrent = 1
  JobsPerHour = 1
  MaxCrashes = 1
INVARIANT NeverExecutedTwice
CHECK_DEADLOCK FALSE
