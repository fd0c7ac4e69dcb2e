\* Two handlers, two formatters, one resolver, a session with two owners and
\* two client threads; templates of up to three tokens; one setting.
CONSTANTS
    Alnum <- MCAlnum
    Names <- MCNames
    Words <- MCWords
    Packets <- MCPackets
    Texts <- MCTexts
    BufferSizes = {1, 2, 3, 4, 7, 8, 10, 30}
    MaxTokens = 3
    Handlers = {h1, h2}
    Formatters = {f1, f2}
    Resolvers = {r1}
    Types = {t1}
    Modules = {m1}
    Threads = {p1, p2}
    MaxOwned <- MCMaxOwned
    None = None
    Values <- MCValues
    AccessModes <- MCAccessModes
    Contexts = {x1, x2}
    Clients = {c1, c2}
    Nothing = Nothing
SPECIFICATION Spec
SYMMETRY Interchangeable
INVARIANTS
    ReferencesExact
    FormatCorrect
    CallbackWhileRegistered
    ReadsEffective
\* The client may stop calling.
CHECK_DEADLOCK FALSE
