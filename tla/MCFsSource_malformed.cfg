\* Unparseable and corrupt .gz content next to valid files, removals and
\* restarts: what does a reload leave for a malformed file?
CONSTANTS
    a = a
    b = b
    x = x
    YamlPaths = {a}
    GzPaths = {b}
    OtherPaths = {x}
    PathOrder <- MCPathOrder
    Contents = {"c1", "c2", "bad", "corrupt"}
    MaxWrites = 2
    MaxStarts = 2
SPECIFICATION Spec
PROPERTY ReloadSkipsMalformed
