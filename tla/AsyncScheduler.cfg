SPECIFICATION FairSpec
CONSTANTS
  r1 = r1
  c1 = c1
  d1 = d1
  o1 = o1
  a1 = a1
  x1 = x1
  g1 = g1
  y1 = y1
  r2 = r2
  i1 = i1
  i2 = i2
  l2 = l2
  a2 = a2
  u1 = u1
  u2 = u2
  r3 = r3
  c3 = c3
  d3 = d3
  o3 = o3
  a3 = a3
  x3 = x3
  g3 = g3
  y3 = y3
  r4 = r4
  i4 = i4
  d4 = d4
  l4 = l4
  g4 = g4
  y4 = y4
  None = None
  Blocks = {r1, c1, d1, r2, i1, i2, r3, c3, d3}
  Roots = {r1, r2, r3}
  Fields = {o1, a1, x1, g1, y1, l2, a2, u1, u2, o3, a3, x3, g3, y3}
  Ops <- MCOps
  Children <- MCChildren
  Lists = {l2}
  NonNull = {x1, y1, u1, x3, y3}
  ItemNonNull = {l2}
  Promises = {o1, a1, x1, g1, y1, l2, i1, i2, u1, u2, a3, x3, y3}
  PromiseOf <- MCPromiseOf
  FieldAnswers = {"value", "null", "error"}
  ItemAnswers = {"value", "null", "error"}
  Eager = {o1, a1, x1, g1, y1, l2, i1, i2, u1, u2, y3}
  Reentrant = {r3}
INVARIANTS
  TypeOK
  ResponseIsReference
  ErrorsMatchReference
  ExecutingFrameIsLeftAlone
  CallbackPointsAtEntry
  NoFrameForgotten
PROPERTIES
  ValuesAreFinal
  Completes
