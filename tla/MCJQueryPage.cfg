CONSTANTS
    doc = doc
    box = box
    btn = btn
    buttons = buttons
    Elems <- MCElems
    NoElem = none
    Home <- MCHome
    Selectors = {buttons}
    NoSelector = nosel
    Matching <- MCMatching
    Fns = {f}
    AnyFn = any
    MaxCalls = 3
    d = d
    e1 = e1
    e2 = e2
    e3 = e3
    e4 = e4
    txt = txt
    NoNode = nonode
    Document = d
    Nodes <- MCNodes
    Tag <- MCTag
    Id <- MCId
    FirstTree <- MCFirstTree
    FindSelectors <- MCSelectors
    BrowserKnows <- MCBrowserKnows
    Contexts = {d, e3}
    Given <- MCGiven
    MaxQueries = 2
    MaxMoves = 1
    t1 = t1
    t2 = t2
    v1 = v1
    v2 = v2
    Owners = {p, q, txt}
    Accepting = {p, q}
    Copies = {q}
    DataNames = {n, m}
    Dashed = {n}
    DataValues = {v1, v2}
    Converted <- MCConverted
    Undefined = undefined
    MaxDataCalls = 5
    Body = body
    Boxes = {box1}
    PageScripts = {s1, s2, s3}
    MaxManips = 3
SPECIFICATION PageSpec
CHECK_DEADLOCK FALSE
INVARIANTS
    ListensForItsHandlers
    FocusinServed
    OneRunsOnce
    SelectionIsRight
    ReadsWhatWasGiven
    ScriptsRunOnce
