SPECIFICATION Spec
CONSTANTS
  MaxHeight = 2
  Height0 = 0
  Messages <- MCMessages
  Root = root
  Roots = {root}
  Specs = {"match"}
  MaxErrors = 0
  MaxReverts = 1
  MaxRestarts = 0
INVARIANTS
  ReceiptMeansSettled
CHECK_DEADLOCK FALSE
