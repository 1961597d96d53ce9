\* Retries under the same and a fresh nonce, a guessed job_id, malformed jobs, a crash.
SPECIFICATION LaneSpec
CONSTANTS
  one = one
  fresh = fresh
  mail = mail
  squat = squat
  line = line
  node = node
  r1 = r1
  r2 = r2
  j1 = j1
  j2 = j2
  b1 = b1
  NoOne = NoOne
  Call <- MCCall
  Proc = {node}
  Requester = {r1, r2}
  Job = {j1, j2}
  Body = {b1}
  procOf <- MCProcOf
  requesterOf <- MCRequesterOf
  jobOf <- MCJobOf
  bodyOf <- MCBodyOf
  nonceOf <- MCNonceOf
  SelfTest = {}
  Http = {one, fresh, squat}
  Malformed = {squat, line}
  MaxConcurrent = 1
  JobsPerHour = 1
  MaxCrashes = 1
  MaxMoves = 1
INVARIANTS WithinRateLimit AcceptedInOrder GivenIsTheirs OwnJobNeverLimited
PROPERTY RunnerSpec
CHECK_DEADLOCK FALSE
