SPECIFICATION Spec
CONSTANTS
    Managers = {v1}
    Models = {k1}
    Images = {i1, i2}
    Files = {f1}
    Shared = refl
    None = None
CHECK_DEADLOCK FALSE
INVARIANTS
    TypeOK
    NoForgottenModel
    AskedOnce
    LastReplyCompletes
PROPERTY
    IblAppears
