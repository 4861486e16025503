SPECIFICATION FairSpec
CONSTANTS
  Rule = {r1}
  Default = {r1}
  Target = {t1}
  Definition <- MCDefinition
  Evaluator = {"heartbeat", "offline"}
  MaxRows = 1
  MaxCount = 2
  MaxVersion = 2
  MaxLives = 1
  MaxRestarts = 1
  None = None
INVARIANTS
  TypeOK
  RowsBounded
  NoOrphans
  DeliveredOnce
PROPERTIES
  Settles
  EventsEarned
  DeletedStaysDeleted
CHECK_DEADLOCK FALSE
