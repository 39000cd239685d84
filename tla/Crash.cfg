CONSTANTS
    Businesses <- MC_One
    Slots = {1, 2}
    FreeSets <- MC_FreeSets
    SmsInputs <- MC_FewSms
    VoiceInputs <- MC_FewVoice
    Raising = {}
    MayAbort = TRUE
SPECIFICATION Spec
CHECK_DEADLOCK FALSE
INVARIANTS
    FinishedIsBooked
    ChosenIsBooked
    SelectionsMade
PROPERTIES
    KeepsLedger
