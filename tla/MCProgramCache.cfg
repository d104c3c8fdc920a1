SPECIFICATION Spec
CONSTANTS
  x = x  Star = Star  None = None  Lib = Lib
  f = f  g = g  r1 = r1  r2 = r2
  Names = {x}
  Requests = {r1, r2}
  Files = {f, g}
  Scripts <- MCScripts
  Libraries <- MCLibraries
INVARIANTS IInv
PROPERTIES ImplementsEvaluation
