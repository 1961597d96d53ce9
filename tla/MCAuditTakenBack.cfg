\* Loop and an HTTP caller: is a published receipt taken back?
SPECIFICATION Spec
CONSTANTS
  j1 = j1
  j2 = j2
  c1 = c1
  Job = {j1, j2}
  Caller = {c1}
  jobOf <- MCJobOf
  Mail = {j1}
  Loop = Loop
  MaxAttempts = 2
  Limit = 2
  Oversized = {}
  Corrupt = {}
  Foreign = {}
  Faults = {}
  MaxCrashes = 0
PROPERTY PublishedStays
