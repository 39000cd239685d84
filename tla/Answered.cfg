CONSTANTS
    Businesses <- MC_Mixed
    Slots = {1, 2}
    FreeSets <- MC_FreeSets
    SmsInputs <- MC_FewSms
    VoiceInputs <- MC_FewVoice
    Raising = {}
    MayAbort = FALSE
SPECIFICATION FairSpec
CHECK_DEADLOCK FALSE
PROPERTIES
    Answered
