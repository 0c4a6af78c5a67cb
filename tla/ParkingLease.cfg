\* A booking is cancelled twice; owners leave spaces alone.
CONSTANTS
  NoRow = NoRow
  Spaces = {s1}
  Bookings = {b1, b2, b3}
  Workers = {w1}
  OwnerMay = {}
SPECIFICATION Spec
SYMMETRY Symmetry
PROPERTY SpacesAreLet
