CONSTANTS
    Configs <- MCConfigs
    Uris <- MCUris
SPECIFICATION SetupSpec
INVARIANTS HandleComplete KnownMisuse KnownLeaks AuthOfInit
