SPECIFICATION FairSpec
CONSTANTS
  a = a  b = b  c = c  main = main
  Modules = {a, b, c}
  Script = main
  Programs <- MCPrograms
CHECK_DEADLOCK FALSE
INVARIANTS IInv OutcomeExact LoadedOnce
PROPERTY Terminates
