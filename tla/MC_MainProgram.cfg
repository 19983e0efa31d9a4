\* One Ctrl+C at any point of the program, every log level, affinity and
\* --symbols string of up to four characters.
CONSTANTS
    Signals = {"SIGINT"}
    Alphabet <- MC_Alphabet
    MaxSymbolsLen = 4

SPECIFICATION Spec

\* The program returns, or hangs in the handler, and then stops.
CHECK_DEADLOCK FALSE

INVARIANT TypeOK
INVARIANT SymbolsAreFields
