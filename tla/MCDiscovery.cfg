SPECIFICATION Spec
CONSTANTS
  a = a
  b = b
  c = c
  NoPlace = NoPlace
  MaxChanges = 1
  OllamaDefault = c
  LMStudio = c
  Places <- MCPlaces
  Layouts <- MCLayouts
  Invocations <- MCInvocations
INVARIANTS
  ShownIsWalked
  NoRootTwice
  EveryRootIsWalked
  BrokenIsNotReplaced
CHECK_DEADLOCK FALSE
