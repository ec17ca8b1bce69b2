\* 16 is what one turn of the decoder takes; reads are shorter and longer.
SPECIFICATION Spec
CONSTANTS
    Files <- MCFiles
    Chars <- MCChars
    MAX_FILES = 4
    Asked <- MCAsked
    Lengths = {3, 16, 64}
INVARIANTS
    IsAligned
    OpenFindsFirst
    ReadsAreContent
