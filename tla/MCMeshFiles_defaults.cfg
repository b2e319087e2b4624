\* ApplyMeshConfigDefaults on every document without an explicit zero in a
\* scalar proxy field, interleaved with reads and host resolution of the
\* mesh networks file. A call is always possible, so there is no deadlock.
CONSTANTS
    Unset = Unset
    Nil = Nil
    Invalid = Invalid
    Missing = Missing
    Fail = Fail
    Yamls <- NonZeroYamls
    Defaults <- StandardDefaults
SPECIFICATION FilesSpec
INVARIANT MergesDefaults
