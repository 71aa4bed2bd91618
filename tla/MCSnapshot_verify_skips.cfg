CONSTANTS
    x = x
    y = y
    w1 = w1
    w2 = w2
    None = None
    NPaths = 2
    Content = {x, y}
    SizeOf <- OneSize
    Worker = {w1, w2}
    Modes = {"verify"}
    MaxWrites = 1
    MaxRuns = 2
SPECIFICATION Spec
INVARIANT Present
SYMMETRY Pool
