CONSTANTS
    Feeds <- MCConfusedFeeds
    HistoryLimit = 3
    OfferLimit = 3
    AddressLimit = 3
    Tostring <- MCTostring
    MaxLog = 2
    MaxRestarts = 1
SPECIFICATION ReplaySpec
INVARIANTS
    ExactAgreement
CHECK_DEADLOCK FALSE
