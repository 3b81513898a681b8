SPECIFICATION Spec
CONSTANTS
    MaxRequeues = 2
    None = None
INVARIANT ToldEndIsTrue
