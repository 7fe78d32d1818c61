\* An import, its apply, the same import again and its apply; nothing fails.
SPECIFICATION ImportSpec
CONSTANTS
  Titles = {t1}
  GoalTitles = {}
  ApplyCalls = {a1}
  MaxImports = 2
  MaxSaves = 0
  MaxGoalWrites = 0
  MaxImportFaults = 0
  MaxCopies = 2
INVARIANT ImportedOnce
CHECK_DEADLOCK FALSE
