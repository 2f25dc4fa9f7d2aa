SPECIFICATION ConsoleSpec
CONSTANTS
    Writers = {}
    Readers = {r1, r2}
    TX_SIZE = 2
    RX_SIZE = 3
    Strings <- Words
    Inputs = {"x", "y"}
    CR = "CR"
    NL = "NL"
    None = None
    MaxOffered = 1
PROPERTY RxIsChannel
