\* Directory reloads against concurrent writes, removals, unparseable files
\* and restarts; triggered reloads converge.
CONSTANTS
    a = a
    b = b
    x = x
    YamlPaths = {a}
    GzPaths = {b}
    OtherPaths = {x}
    PathOrder <- MCPathOrder
    Contents = {"c1", "c2", "bad"}
    MaxWrites = 2
    MaxStarts = 2
SPECIFICATION Spec
INVARIANT TypeOK
INVARIANT ReloadMirrorsDisk
PROPERTY TriggerConverges
