SPECIFICATION Spec
CONSTANTS
  a = a  big = big  None = None  Absent = Absent
  Outer = Outer  Inner = Inner
  o1 = o1  o2 = o2  o3 = o3
  Objs = {o1, o2, o3}
  Requested = {o1}
  NKeys = 2
  Atoms = {a, big}
  typeOf <- MCTypeOf
  Schemas = {Outer, Inner}
  descriptor <- MCDescriptor
  Bodies <- MCBodies
  BadBody <- MCBadBody
  maxMergeDepth = 1
SYMMETRY Made
CHECK_DEADLOCK FALSE
INVARIANTS IInv EmittedExact
PROPERTIES FrozenForever
