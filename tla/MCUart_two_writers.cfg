SPECIFICATION ConsoleSpec
CONSTANTS
    Writers = {w1, w2}
    Readers = {}
    TX_SIZE = 3
    RX_SIZE = 2
    Strings <- Words
    Inputs = {}
    CR = "CR"
    NL = "NL"
    None = None
    MaxOffered = 8
PROPERTY TxIsChannel
