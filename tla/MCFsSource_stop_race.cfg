\* Stop() racing the goroutine of Start().
CONSTANTS
    a = a
    b = b
    x = x
    YamlPaths = {a}
    GzPaths = {b}
    OtherPaths = {x}
    PathOrder <- MCPathOrder
    Contents = {"c1", "c2"}
    MaxWrites = 2
    MaxStarts = 2
SPECIFICATION Spec
INVARIANT StopClears
