\* The instance of MCDiagnostics, in which the store may be opened without the user's key.
CONSTANTS
    Alnum <- MCAlnum
    Names <- MCNames
    Words <- MCWords
    Packets <- MCPackets
    Texts <- MCTexts
    BufferSizes = {1, 2, 3, 4, 7, 8, 10, 30}
    MaxTokens = 3
    Handlers = {h1, h2}
    Formatters = {f1, f2}
    Resolvers = {r1}
    Types = {t1}
    Modules = {m1}
    Threads = {p1, p2}
    MaxOwned <- MCMaxOwned
    None = None
    Values <- MCValues
    AccessModes <- MCAccessModes
    Contexts = {x1, x2}
    Clients = {c1, c2}
    Nothing = Nothing
SPECIFICATION Spec
INVARIANT EffectiveFallsBack
CHECK_DEADLOCK FALSE
