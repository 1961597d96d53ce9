\* Loop and HTTP callers, unreadable rooms, late POSTs, a crash.
SPECIFICATION Spec
CONSTANTS
  j1 = j1
  j2 = j2
  c1 = c1
  Job = {j1, j2}
  Caller = {c1}
  jobOf <- MCJobOf
  Mail = {j1}
  Loop = Loop
  MaxAttempts = 2
  Limit = 2
  Oversized = {}
  Corrupt = {}
  Foreign = {j1}
  Faults = {"unreadable", "late"}
  MaxCrashes = 1
INVARIANTS TypeOK PublishedIsInRoom OwedCopyIsAhead SeqIsEvidence
