CONSTANTS
    MaxInt = 47
    MaxWide = 247
    Subjects = {"number", "code", "byte", "utf8", "name"}
    Alphabet <- MCAlphabet
    MaxLength <- MCMaxLength
SPECIFICATION Spec
INVARIANTS
    NumbersAreExact
    CodingsAreExact
    SizesAgree
    Utf8InWholeCharacters
    NamesInOrder
CHECK_DEADLOCK FALSE
