SPECIFICATION FairSpec
CONSTANTS
  Command <- MCCommand
  Word <- MCWord
  StaticAlias <- MCStaticAlias
  Line <- MCLine
INVARIANTS
  TypeOK
  UniqueIds
  QuitReachable
PROPERTIES
  AliasKeepsMeaning
  
CHECK_DEADLOCK FALSE
