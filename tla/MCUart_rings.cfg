SPECIFICATION ConsoleFairSpec
CONSTANTS
    Writers = {w1}
    Readers = {r1}
    TX_SIZE = 3
    RX_SIZE = 3
    Strings <- Texts
    Inputs = {"x", "y"}
    CR = "CR"
    NL = "NL"
    None = None
    MaxOffered = 5
INVARIANTS QueuedBytesAreDriven
PROPERTIES TxIsChannel RxIsChannel WritersReturn ReadersReturn
