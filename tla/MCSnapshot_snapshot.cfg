CONSTANTS
    x = x
    y = y
    w1 = w1
    w2 = w2
    None = None
    NPaths = 2
    Content = {x, y}
    SizeOf <- OneSize
    Worker = {w1, w2}
    Modes = {"apply", "dry", "deep"}
    MaxWrites = 2
    MaxRuns = 2
SPECIFICATION Spec
INVARIANTS TypeOK OneMoment CacheTrue DeepVerified
SYMMETRY Pool
