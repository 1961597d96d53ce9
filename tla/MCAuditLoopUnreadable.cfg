\* One loop, and room reads that may fail: is a receipt posted twice?
SPECIFICATION Spec
CONSTANTS
  j1 = j1
  j2 = j2
  j3 = j3
  Job = {j1, j2}
  Caller = {}
  jobOf <- MCJobOf
  Mail = {j1, j2}
  Loop = Loop
  MaxAttempts = 2
  Limit = 2
  Oversized = {}
  Corrupt = {}
  Foreign = {}
  Faults = {"unreadable"}
  MaxCrashes = 0
INVARIANT CopiedOnce
