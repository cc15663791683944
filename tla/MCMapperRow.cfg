SPECIFICATION Spec
CONSTANTS
    I64Max = 65535
    U64Max = 131071
    F64Max = 262142
    NonFiniteWords <- MCNonFinite
    U8Max = 255
    U32Max = 4095
    I32Max = 2047
    I8Max = 127
    SecondsMax = 7
    MillisMax = 63
    MicrosMax = 511
    SeverityMax = 24
    MinRootReferences = 1000
    VarBase = 4
    InitialRowCapacity = 4
    MaxDepth = 6
    Terms <- MCTerms
    decimalScale <- MCScale
    lowerOf <- MCCase
    upperOf <- MCCase
    SizeOf <- MCSizeOf
    ClassesOf <- MCClassesOf
    indexOf <- MCIndexOf
    RawConfig <- MCRawConfig
    Documents <- MCDocuments
    Envelopes <- MCEnvelopes
INVARIANTS
    TypeOK
    RowReadsBack
    RowAlwaysWritten
    NdjsonAgrees
