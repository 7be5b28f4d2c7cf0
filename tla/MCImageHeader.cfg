SPECIFICATION Spec
CONSTANTS
    IMAGE_HEADER_SIZE = 14
    IMAGE_HEADER_OFFSET = 2
    Images <- MCImages
    Types <- MCTypes
    Bases <- MCBases
    MaxCalls = 1
INVARIANTS
    TypeOK
    FieldWithinHeader
    FindsEncodedFields
PROPERTIES
    SearchEnds
CHECK_DEADLOCK FALSE
