SPECIFICATION Spec
CONSTANTS
    I64Max = 4095
    U64Max = 8191
    F64Max = 16382
    NonFiniteWords <- MCNonFinite
    U8Max = 15
    U32Max = 63
    I32Max = 31
    I8Max = 7
    SecondsMax = 7
    MillisMax = 63
    MicrosMax = 511
    SeverityMax = 3
    MinRootReferences = 8
    VarBase = 4
    InitialRowCapacity = 8
    MaxDepth = 6
    Terms <- MCTerms
    decimalScale <- MCScale
    lowerOf <- MCLower
    upperOf <- MCUpper
    SizeOf <- MCSizeOf
    ClassesOf <- MCClassesOf
    indexOf <- MCIndexOf
    RawConfig <- MCRawConfig
    Documents <- MCDocuments
    Envelopes <- MCEnvelopes
INVARIANTS
    CacheTransparent
    WildcardFastPathAgrees
    FlatKeysAgree
    MappedValuesEncode
    ParallelArraysAligned
    ElevatePrecedence
    ElevationsAgree
