\* ApplyMeshConfig on every document, explicit zeros included, with the
\* defaults ApplyMeshConfigDefaults passes.
CONSTANTS
    Unset = Unset
    Nil = Nil
    Invalid = Invalid
    Yamls <- AllYamls
    Defaults <- StandardDefaults
SPECIFICATION Spec
INVARIANT MergesDefaults
