SPECIFICATION Spec
CONSTANTS
  g = g  a1 = a1  b1 = b1  b2 = b2
  t1 = t1  t2 = t2  t3 = t3  t4 = t4  t5 = t5
  account = account  other = other  class1 = class1  class2 = class2
  Nothing = Nothing
  Genesis = g
  Block <- MCBlock
  Parent <- MCParent
  Number <- MCNumber
  Hash <- MCHash
  Body <- MCBody
  ClassHashes <- MCClassHashes
  Classes <- MCClasses
  Nonces <- MCNonces
  Address = {account, other}
  ClassHash = {class1, class2}
  Schemas <- MCSchemas
  Filters <- MCFilters
  Accounts <- MCAccounts
  MaxPages = 2
  Width = 8
  Ops <- MCOps
ACTION_CONSTRAINT OneCall
CONSTRAINT Relevant
INVARIANTS
  AnswersOfBlock
  
  DeclareFresh
  EventsAttributed
  
CHECK_DEADLOCK FALSE
