CONSTANTS
  A = A
  B = B
  dX = dX
  dY = dY
  dV = dV
  useA = useA
  useB = useB
  Global = Global
  NoSymbol = NoSymbol
  NoName = NoName
  Variable = Variable
  Type = {Variable}
  Scope = {A, B}
  Symbol = {dX, dY, dV, useA, useB}
  Name <- NameValue
  Text <- TextValue
  Documents <- AllDocuments
  Bodies <- AllBodies
SPECIFICATION Spec
CHECK_DEADLOCK FALSE
INVARIANT NotVisibleOutside
