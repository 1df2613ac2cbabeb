SPECIFICATION DecoderSpec
CONSTANTS
    Names = {uri, port}
    Strings <- MCStrings
    Json <- MCJson
    Missing = Missing
    MaxWrites = 3
PROPERTIES OriginalIsRestored
