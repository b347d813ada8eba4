SPECIFICATION Spec
CONSTANTS
  p1 = p1
  p2 = p2
  Page = {p1, p2}
  Total = 5
  MaxGroups = 2
  MaxWork = 4
  MaxExecuted = 2
  None = None
  ActionsOf <- MCActionsOf
CHECK_DEADLOCK FALSE
INVARIANTS QuietIsBalanced SharesAreKept CalmRunsOnce OverdueIsTrue
PROPERTIES EditKeepsWhole OutcomeStands ChainsEnd EditsSettle
