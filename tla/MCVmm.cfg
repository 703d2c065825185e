SPECIFICATION Spec
CONSTANTS
  Index = {0, 1}
  Virts <- MCVirts
  Targets = {50}
  MapFlags <- MCMapFlags
  Frames = {1, 2, 3}
  Root = 100
  BootTables <- MCBootTables
  Dirty <- MCDirty
INVARIANTS PageTablesPrivate TranslationsCurrent
PROPERTIES OnlyItsPageChanges
CONSTRAINT BeforeFailure
