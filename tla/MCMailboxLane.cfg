\* The mailbox loop around the runner: replies, cursor, and progress through faults.
SPECIFICATION MailboxFairSpec
CONSTANTS
  mail = mail
  other = other
  anon = anon
  bad = bad
  worse = worse
  http = http
  node = node
  r1 = r1
  r2 = r2
  j1 = j1
  b1 = b1
  NoOne = NoOne
  Call <- MCCall
  Proc = {node}
  Requester = {r1, r2}
  Job = {j1}
  Body = {b1}
  procOf <- MCProcOf
  requesterOf <- MCRequesterOf
  jobOf <- MCJobOf
  bodyOf <- MCBodyOf
  line <- MCLine
  Unsigned = {anon}
  Hostile = {worse}
  SelfTest = {}
  Malformed = {bad}
  Http = {http}
  MaxConcurrent = 1
  JobsPerHour = 2
  MaxCrashes = 1
  MaxFaults = 1
INVARIANTS FinishedIffReceipt ReceiptMatchesResult
           RepliesOnRecord RepliedOnce PassedIsSettled
PROPERTIES ContractSpec QueueDrains RowGetsReceipt
CHECK_DEADLOCK FALSE
