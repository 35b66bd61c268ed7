SPECIFICATION Spec
CONSTANTS
    WordBits = 16
    Pushes = {1, 2}
    FirstPush = 1
    Objects = {1, 2}
    Buffers = {1, 2}
    Now = 9
    bytesName <- MCBytesName
    Hash <- MCHash
    Inputs <- MCInputs
    Codecs <- MCCodecs
    Messages <- MCMessages
INVARIANTS StoredIsSent RoundTrip PrefixesAreExact UnknownFieldsSurvive
