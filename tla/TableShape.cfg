CONSTANTS
    Radii = {65}
    Shapes <- SquareAndCircle
    PartSize = 8
SPECIFICATION TableSpec
INVARIANTS
    TableHasShape
