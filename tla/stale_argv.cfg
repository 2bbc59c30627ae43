CONSTANTS
    Letters <- MCLetters
    Lines <- MCLines
    BufSize = 6
    MaxWords = 4
    MaxLine = 4
    Symbols <- MCSymbols
SPECIFICATION Spec

PROPERTIES
    ArgvIsTyped
