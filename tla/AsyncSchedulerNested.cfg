SPECIFICATION Spec
CONSTANTS
  r1 = r1
  c1 = c1
  d1 = d1
  o1 = o1
  a1 = a1
  x1 = x1
  g1 = g1
  y1 = y1
  r2 = r2
  i1 = i1
  i2 = i2
  l2 = l2
  a2 = a2
  u1 = u1
  u2 = u2
  r3 = r3
  c3 = c3
  d3 = d3
  o3 = o3
  a3 = a3
  x3 = x3
  g3 = g3
  y3 = y3
  r4 = r4
  i4 = i4
  d4 = d4
  l4 = l4
  g4 = g4
  y4 = y4
  None = None
  Blocks = {r4, i4, d4}
  Roots = {r4}
  Fields = {l4, g4, y4}
  Ops <- NestedOps
  Children <- NestedChildren
  Lists = {l4}
  NonNull = {}
  ItemNonNull = {}
  Promises = {g4, y4}
  PromiseOf <- MCPromiseOf
  FieldAnswers = {"value"}
  ItemAnswers = {"value"}
  Eager = {g4, y4}
  Reentrant = {}
INVARIANTS
  NoFrameForgotten
