SPECIFICATION ShaSpec
CONSTANTS
    Variants <- MCVariants
    ArrayLengths = {1, 63}
    DigestSizes = {31, 32, 64}
    MaxBytes = 520
INVARIANTS
    DigestIsOfMessage
    IndexInBlock
