SPECIFICATION Spec
CONSTANTS
  o1 = o1  o2 = o2  o3 = o3
  Owner = {o1, o2, o3}
  LIFO = FALSE
  MaxHandle = 6
SYMMETRY Symmetry
PROPERTY LiveHandlerKept
