\* The sizes are the code's.  A line that leaves an array ends the behaviour.
SPECIFICATION Spec
CONSTANTS
    NUM_OF_PORTS = 8
    PORT_NAME_LEN = 20
    MAX_TIMED_POWER_EVENTS = 10
    MAX_SENDBUFF_LEN = 2048
    Words <- MCWords
    Numeral <- MCNumeral
    Chars <- MCChars
    PortPinNumber <- MCPortPinNumber
    Lines <- MCLines
    Stored <- MCStored
INVARIANTS
    TypeOK
    GetValueIsField
    
    EachRequestAnswered
    FieldsInTheirPlace
PROPERTY QueriesChangeNothing
CHECK_DEADLOCK FALSE
