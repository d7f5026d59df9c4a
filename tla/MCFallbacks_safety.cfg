SPECIFICATION FairSpec
CONSTANTS
    p = p
    q = q
    keyed = keyed
    keyless = keyless
    Names = {p, q}
    Initial <- OnePlugin
    Admins = {a1, a2}
    MaxChanges = 2
    NoPlugin = NoPlugin
    Providers = {keyed, keyless}
    Keyless = {keyless}
    ImageEdit = FALSE
    Routes <- TwoFallbacks
    NoProvider = NoProvider
INVARIANTS AccountedFor PostsMirror SoleUser FreshAttempt
CHECK_DEADLOCK FALSE
PROPERTIES Answered ChangesEnd
