SPECIFICATION Spec
CONSTANTS
    Managers = {v1, v2}
    Models = {k1}
    Images = {i1}
    Files = {f1}
    Shared = refl
    None = None
CHECK_DEADLOCK FALSE
INVARIANT
    PromptOnLiveManager
