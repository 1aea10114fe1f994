SPECIFICATION LiveSpec
CONSTANTS
    Threads = {g1}
    MaxTxs = 2
    MaxFps = 2
    MaxQuotes = 2
    Calls = {"Process", "ProcessTicket"}
    Faults = {"net", "locked", "funds", "refuse", "lookup", "crash"}
    Serialized = TRUE
INVARIANTS
    VspFeeIsKnown
    ConfirmedFeeIsVsps
PROPERTIES
    ConfirmedIsFinal
    SpentTicketQuiet
CHECK_DEADLOCK FALSE
