CONSTANTS
  a = a
  b = b
  x = x
  y = y
  Keys = {x, y}
  Sources = {a, b}
  Root = root
  Extractions <- MCExtractions
  Similar <- MCSimilar
  MaxLinks = 1
  Importers = {i1, i2}
  Deleters = {d1}
  BuildIds = {0, 1}
  LinkingIds = {2}
  IdSpace = 3
  MaxSecond = 3
SPECIFICATION MCSpec
PROPERTIES
  AppendOrderDecides
SYMMETRY Symmetric
CHECK_DEADLOCK FALSE
