CONSTANTS
    Businesses <- MC_Businesses
    Slots = {1, 2}
    FreeSets <- MC_FreeSets
    SmsInputs <- MC_SmsInputs
    VoiceInputs <- MC_VoiceInputs
    Raising = {}
    MayAbort = FALSE
SPECIFICATION Spec
CHECK_DEADLOCK FALSE
INVARIANTS
    TypeOK
    FinishedIsBooked
    AtMostOneBooking
    BookedIsFinished
    FinishGuardHolds
    SelectionsMade
    AlwaysSpeaks
    SummaryBooksAnnounced
    RecursionBounded
PROPERTIES
    ChoicesKept
