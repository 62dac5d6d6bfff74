SPECIFICATION Spec
CONSTANTS
  Sessions = {s1, s2}
  Shapes <- BoundedShapes
  MaxWrites = 2
  Nobody = Nobody
SYMMETRY Symmetry
INVARIANTS
  ContentIsWhole
  SchemaRefusesNothing
  LoadsAreSound
