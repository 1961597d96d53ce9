\* The self-test and the service race for one job, and the figures are read meanwhile.
SPECIFICATION FiguresSpec
CONSTANTS
  test = test
  mail = mail
  squat = squat
  line = line
  cli = cli
  node = node
  own = own
  r2 = r2
  j1 = j1
  b1 = b1
  NoOne = NoOne
  Call <- MCCall
  Proc = {cli, node}
  Requester = {own, r2}
  Job = {j1}
  Body = {b1}
  procOf <- MCProcOf
  requesterOf <- MCRequesterOf
  jobOf <- MCJobOf
  bodyOf <- MCBodyOf
  SelfTest = {test}
  Malformed = {line}
  Http = {squat}
  MaxConcurrent = 1
  JobsPerHour = 2
  Reader = node
  MaxCrashes = 1
INVARIANTS OnlyItsRequester OwnTestsStayInternal TestsNeverCounted
CHECK_DEADLOCK FALSE
