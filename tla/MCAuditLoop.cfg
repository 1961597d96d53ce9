\* One loop, a row a cycle, readable rooms, two crashes: each copy once, and each settled.
SPECIFICATION FairSpec
CONSTANTS
  j1 = j1
  j2 = j2
  j3 = j3
  Job = {j1, j2, j3}
  Caller = {}
  jobOf <- MCJobOf
  Mail = {j1, j2, j3}
  Loop = Loop
  MaxAttempts = 2
  Limit = 1
  Oversized = {j2}
  Corrupt = {j3}
  Foreign = {}
  Faults = {}
  MaxCrashes = 2
INVARIANT CopiedOnce
PROPERTY EveryCopySettles
