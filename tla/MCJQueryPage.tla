--------------------------- MODULE MCJQueryPage ---------------------------
(* A small page for jQuery: a button in a box in the document, with         *)
(* handlers; and a tree of four elements and a text that selectors are      *)
(* matched against, with selectors for each combinator and each kind of     *)
(* nested matcher; data for an element, its copy and a text; and scripts    *)
(* that are put into a body and a box.  These parts share no state, so a    *)
(* behaviour has steps of one of them.                                      *)
EXTENDS JQueryEvents, JQuerySelectors, JQueryData, JQueryManipulation

CONSTANTS doc, box, btn, buttons, d, e1, e2, e3, e4, txt, t1, t2, v1, v2

MCElems == {doc, box, btn}
MCHome == doc :> NoElem @@ box :> doc @@ btn :> box
MCMatching == buttons :> {box, btn}

MCNodes == {e1, e2, e3, e4, txt}
MCTag == [n \in {e1, e2, e3, e4} |-> IF n \in {e1, e3} THEN "a" ELSE "b"]
MCId == [n \in {e1} |-> "x"]
MCFirstTree == [n \in MCNodes \cup {d} |->
    CASE n = d -> <<e1>> [] n = e1 -> <<e2, txt, e3>> [] n = e3 -> <<e4>> [] OTHER -> <<>>]
MCGiven == <<e4, e3, e2, e1>>

LOCAL Type(type) == [type |-> type]
LOCAL T(tag) == [type |-> "TAG", tag |-> tag]
LOCAL X == [type |-> "ID", id |-> "x"]
LOCAL Nested(type, selector) == [type |-> type, selector |-> selector]
LOCAL Nth(kind, a, b, ofType) ==
    [type |-> "CHILD", kind |-> kind, first |-> a, last |-> b, ofType |-> ofType]

LOCAL ChildB == <<<<Type(">"), T("b")>>>>

MCSelectors == {
    <<<<T("a"), Type(" "), T("a"), Type(" "), T("b")>>>>,
    <<<<T("a"), Type(">"), T("b"), Type("~"), T("*")>>>>,
    <<<<X, Type(">"), T("*")>>, <<T("b"), Type("+"), T("a"), Type(" "), T("b")>>>>,
    ChildB,
    <<<<Type("~"), T("*"), Nested("has", ChildB)>>>>,
    <<<<X, Type(" "), Nested("has", <<<<T("*"), Nested("not", <<<<T("a"), Type(" "), T("a")>>>>)>>>>)>>>>,
    <<<<T("a"), Nested("not", <<<<T("a"), Type(" "), T("a")>>>>), Type(" "), T("b")>>>>,
    <<<<Nested("has", ChildB), Type(" "), T("b")>>>>,
    <<<<Nested("not", ChildB)>>>>,
    <<<<T("a"), Type(" "), Nth("nth", 2, 1, FALSE)>>, <<Nth("nth-last", 0, 2, FALSE)>>>> }

\* Browsers know neither :has nor a :not of more than one element's own marks.
MCBrowserKnows == {selector \in MCSelectors :
    \A g \in DOMAIN selector, i \in 1 .. 5 :
        i \in DOMAIN selector[g] => selector[g][i].type \notin {"has", "not"}}

MCConverted == t1 :> v1 @@ t2 :> v2

PageInit == Init /\ FindInit /\ DataInit /\ ManipInit
PageNext ==
    \/ /\ queries + moves + dataCalls + manips = 0
       /\ Next /\ UNCHANGED <<findVars, dataVars, manipVars>>
    \/ /\ calls + dataCalls + manips = 0 /\ Idle
       /\ FindNext /\ UNCHANGED <<vars, dataVars, manipVars>>
    \/ /\ calls + queries + moves + manips = 0 /\ Idle
       /\ DataNext /\ UNCHANGED <<vars, findVars, manipVars>>
    \/ /\ calls + queries + moves + dataCalls = 0 /\ Idle
       /\ ManipNext /\ UNCHANGED <<vars, findVars, dataVars>>
PageSpec == PageInit /\ [][PageNext]_<<vars, findVars, dataVars, manipVars>>
=============================================================================
