\* Deadlock is not checked: a start may be the last one, a picture is stored once.
SPECIFICATION EntranceSpec
CONSTANTS
    Configs <- MCConfigs
    HooksTried <- MCHooks
    MailsTried <- MCMails
    MaxStarts = 2
    MaxDrawn = 4
    Callers = {"a", "b", "c", "d"}
    Manner <- MCManner
    HANDSHAKES = 2
    MaxBroken = 2
    Tokens <- MCTokens
    Senders <- MCSenders
    Events <- MCEvents
    LinkHosts = {"films"}
    MaxPieces = 4
    AccountTables <- MCAccountTables
    Readers = {"members"}
    Writer = "dee"
    MaxChars = 3
    MaxNodes = 2
INVARIANTS
    StartKeepsItsWord
    KeysStay
    TokenOpensItsDoor
    PicturesLoseOnlyMetadata
    NamesAreToldAsShown
PROPERTIES
    CallersAreServed
CHECK_DEADLOCK FALSE
