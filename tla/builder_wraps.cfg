\* A usize of 64 values that wraps; blocks up to a quarter of that.
CONSTANTS
    MaxOff = 255
    UsizeSpan = 64
    MinBlock = 1
    MinTimeout = 1
    Sizes = {0, 3, 16, 20}
    Timeouts = {0, 5}
    Parts = {0, 1, 3}
    Default <- MCDefault
    Checked = FALSE
SPECIFICATION Spec
INVARIANT ForwardWindow
