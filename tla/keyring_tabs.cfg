SPECIFICATION Spec
CONSTANTS
  Programs = {"p1", "p2"}
  Ids = {"a", "b"}
INVARIANT ToldIsKept
