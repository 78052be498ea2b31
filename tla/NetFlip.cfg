SPECIFICATION Spec
CONSTANTS
  Policy <- MCPolicy
  Amounts = {1, 2, 3}
  Prices = {1}
  Steps <- MCSteps
  Margin = TRUE
INVARIANT ExitsReduce
