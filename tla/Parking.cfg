\* Two spaces, three bookings, three requests at a time; owners only put spaces back on offer.
CONSTANTS
  NoRow = NoRow
  Spaces = {s1, s2}
  Bookings = {b1, b2, b3}
  Workers = {w1, w2, w3}
  OwnerMay = {TRUE}
SPECIFICATION Spec
SYMMETRY Symmetry
INVARIANTS
  NoSpaceLost
PROPERTY BookedWhileAvailable
