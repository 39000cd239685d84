CONSTANTS
    Businesses <- MC_Default
    Slots = {1, 2}
    FreeSets <- MC_FreeSets
    SmsInputs <- MC_SmsInputs
    VoiceInputs <- MC_VoiceInputs
    Raising = {}
    MayAbort = FALSE
SPECIFICATION Spec
CHECK_DEADLOCK FALSE
INVARIANTS
    ResultsBookAnnounced
