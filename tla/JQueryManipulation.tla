------------------------- MODULE JQueryManipulation -------------------------
(***************************************************************************)
(* How jQuery puts nodes into the page and takes them out, and evaluates   *)
(* the scripts among them "on first document insertion"                    *)
(* (web/lib/js/jquery-2.1.3.js:4950-5467).                                 *)
(*                                                                         *)
(* domManip moves its arguments to a fragment, places the fragment at the  *)
(* last target and copies of it at the others, and then evaluates the      *)
(* scripts one after the other.  A script is code of the page: it may      *)
(* insert, move and remove nodes while the loop that runs it has others to *)
(* run.  Whether a script has had its turn is remembered by the mark       *)
(* globalEval, which a script gets when it is moved or detached from the   *)
(* page, and not when it runs.                                             *)
(*                                                                         *)
(* Scripts have no type attribute; one of another type is like a box.      *)
(* What html describes is a node that was not there before.  Tables, and   *)
(* arguments that are functions, are left out.  Nodes that were placed     *)
(* nowhere have no parent, where in fact a fragment keeps them.            *)
(***************************************************************************)
EXTENDS Naturals, SequencesExt

CONSTANTS
    Body,       \* the body of the page
    Boxes,      \* other elements that are not scripts
    PageScripts,
    MaxManips   \* bounds the calls of the page

VARIABLES
    dom,     \* the nodes, as below
    loops,   \* the stack of what is running
    failed,  \* an exception has ended a call
    manips   \* calls so far

manipVars == <<dom, loops, failed, manips>>

Placeable == Boxes \cup PageScripts
DomNodes == Placeable \cup {Body}

\* kids: childNodes.  globalEval: the scripts so marked.  masked: scripts whose type
\* was not restored.  made: nodes there are.  As history, copied: nodes made by
\* cloning; runs: how often a script was run since it was last taken out with its
\* data; disturbed: scripts moved or removed while a loop was still to run them.
DomType ==
    [kids : [DomNodes -> Seq(Placeable)], globalEval : SUBSET PageScripts,
     masked : SUBSET PageScripts, made : SUBSET DomNodes, copied : SUBSET DomNodes,
     runs : [PageScripts -> Nat], disturbed : SUBSET PageScripts]

ScriptsFrame(scripts) == [type |-> "scripts", scripts |-> scripts]
CodeFrame == [type |-> "code"]
\* A call of domManip, and one of appendTo or its like, that are about to begin.
ManipFrame(how, nodes, targets) ==
    [type |-> "manip", how |-> how, nodes |-> nodes, targets |-> targets]
ToFrame(how, nodes, targets) ==
    [type |-> "to", how |-> how, nodes |-> nodes, targets |-> targets]
\* What replaceWith still has to remove, after the scripts.
RemovalFrame(targets) == [type |-> "removal", targets |-> targets]

Hows == {"append", "prepend", "before", "after", "replaceWith"}

ManipInit ==
    /\ dom = [kids |-> [n \in DomNodes |-> <<>>], globalEval |-> {}, masked |-> {},
              made |-> {Body}, copied |-> {}, runs |-> [s \in PageScripts |-> 0],
              disturbed |-> {}]
    /\ loops = <<>>
    /\ failed = FALSE
    /\ manips = 0

-----------------------------------------------------------------------------
(* The tree.                                                               *)

RECURSIVE InOrder(_, _)
InOrder(kids, n) == <<n>> \o FlattenSeq([i \in DOMAIN kids[n] |-> InOrder(kids, kids[n][i])])

GetAll(kids, nodes) == FlattenSeq([i \in DOMAIN nodes |-> InOrder(kids, nodes[i])])

ScriptsOf(kids, nodes) == SelectSeq(GetAll(kids, nodes), LAMBDA n : n \in PageScripts)

InBody(kids, n) == n \in ToSet(InOrder(kids, Body))

Uprooted(kids, n) == [m \in DomNodes |-> SelectSeq(kids[m], LAMBDA k : k # n)]

\* The scripts that a loop is still to run.
Waiting == UNION {ToSet(loops[i].scripts) : i \in {j \in DOMAIN loops : loops[j].type = "scripts"}}

\* cleanData: nobody knows any more that they have run.
Cleaned(d, nodes) ==
    LET scripts == ToSet(nodes) \cap PageScripts
    IN  [d EXCEPT !.globalEval = @ \ scripts,
                  !.runs = [s \in PageScripts |-> IF s \in scripts THEN 0 ELSE @[s]],
                  !.disturbed = @ \cup (scripts \cap Waiting)]

\* The node and what is in it leave their place with their data; in the page, its
\* scripts count as evaluated from now on.
TakenUp(d, n) ==
    LET scripts == ToSet(ScriptsOf(d.kids, <<n>>))
    IN  [d EXCEPT !.kids = Uprooted(@, n),
                  !.globalEval = IF InBody(d.kids, n) THEN @ \cup scripts ELSE @,
                  !.disturbed = @ \cup (scripts \cap Waiting)]

\* buildFragment, of nodes that are not targets themselves.
BuildFragment(d, nodes) == FoldLeft(TakenUp, d, nodes)

\* Names for the copies of some nodes; none if the bound on nodes is reached.
CopyNames(d, nodes) ==
    LET all   == ToSet(GetAll(d.kids, nodes))
        spare == Placeable \ d.made
    IN  {f \in [all -> spare] : /\ \A m, n \in all : m # n => f[m] # f[n]
                                /\ \A n \in all : n \in Boxes <=> f[n] \in Boxes}

\* jQuery.clone of each of the nodes: the scripts of a node in the page count as
\* evaluated, those of another one are marked as they are.
Cloned(d, nodes, f) ==
    LET Of(s)     == CHOOSE n \in DOMAIN f : f[n] = s
        Copied(s) == [i \in DOMAIN s |-> f[s[i]]]
        present   == {s \in DOMAIN f : \E i \in DOMAIN nodes :
                        InBody(d.kids, nodes[i]) /\ s \in ToSet(InOrder(d.kids, nodes[i]))}
        copies    == {f[n] : n \in DOMAIN f}
    IN  [d EXCEPT
           !.kids = [n \in DomNodes |-> IF n \in copies THEN Copied(@[Of(n)]) ELSE @[n]],
           !.globalEval = @ \cup {f[s] : s \in PageScripts \cap (present \cup (@ \cap DOMAIN f))},
           !.masked = @ \cup {f[s] : s \in @ \cap DOMAIN f},
           !.made = @ \cup copies,
           !.copied = @ \cup copies]

\* $(nodes).clone( true ), each by itself, so that a node inside another one is
\* copied twice; as a set, which is empty if the bound on nodes is reached.
RECURSIVE ClonedEach(_, _)
ClonedEach(d, nodes) ==
    IF nodes = <<>> THEN {[dom |-> d, copies |-> <<>>]}
    ELSE LET n == Head(nodes)
             names == CopyNames(d, <<n>>)
         IN  UNION {{[rest EXCEPT !.copies = <<f[n]>> \o @] :
                        rest \in ClonedEach(Cloned(d, <<n>>, f), Tail(nodes))} :
                    f \in IF names = {} THEN {} ELSE {CHOOSE f \in names : TRUE}}

\* remove() forgets, detach() remembers.
TakenOut(d, n) == [Cleaned(d, InOrder(d.kids, n)) EXCEPT !.kids = Uprooted(@, n)]

-----------------------------------------------------------------------------
(* The callbacks of domManip.                                              *)

\* Puts nodes in the place of the i-th to j-1-th child of n.
Spliced(d, n, i, j, nodes) ==
    [d EXCEPT !.kids[n] = SubSeq(@, 1, i - 1) \o nodes \o SubSeq(@, j, Len(@))]

HasParent(d, n) == \E p \in DomNodes : n \in ToSet(d.kids[p])

\* Without a parent there is no place before or after.
Beside(d, target, nodes, skip, drop) ==
    IF HasParent(d, target)
    THEN LET p == CHOOSE p \in DomNodes : target \in ToSet(d.kids[p])
             i == CHOOSE i \in DOMAIN d.kids[p] : d.kids[p][i] = target
         IN  Spliced(d, p, i + skip, i + skip + drop, nodes)
    ELSE d

PlacedAt(d, target, nodes, how) ==
    CASE how = "append"      -> Spliced(d, target, Len(d.kids[target]) + 1,
                                        Len(d.kids[target]) + 1, nodes)
      [] how = "prepend"     -> Spliced(d, target, 1, 1, nodes)
      [] how = "before"      -> Beside(d, target, nodes, 0, 0)
      [] how = "after"       -> Beside(d, target, nodes, 1, 0)
      [] how = "replaceWith" -> Beside(Cleaned(d, InOrder(d.kids, target)), target, nodes, 0, 1)

\* A copy of the nodes for each target but the last; the set of outcomes is empty
\* if the bound on nodes is reached.
RECURSIVE CopiesPlaced(_, _, _, _)
CopiesPlaced(d, targets, nodes, how) ==
    IF Len(targets) = 1 THEN {d}
    ELSE LET names == CopyNames(d, nodes)
         IN  IF names = {} THEN {}
             ELSE LET f      == CHOOSE f \in names : TRUE
                      copies == [i \in DOMAIN nodes |-> f[nodes[i]]]
                  IN  CopiesPlaced(PlacedAt(Cloned(d, nodes, f), Head(targets), copies, how),
                                   Tail(targets), nodes, how)

\* The type of scripts is masked while they are placed, and restored after that.
Disabled(d, nodes) == [d EXCEPT !.masked = @ \cup (nodes \cap PageScripts)]

\* An exception ends the calls under way, up to a script that catches.
Unwinds ==
    /\ \/ loops' = <<>>
       \/ \E i \in DOMAIN loops \ {1} :
             loops[i].type = "code" /\ loops' = SubSeq(loops, i, Len(loops))
    /\ failed' = TRUE

\* replaceWith removes its targets if the last one had no parent (:5348).
AfterScripts(d, manip) ==
    IF manip.how = "replaceWith" /\ ~HasParent(d, Last(manip.targets))
    THEN <<RemovalFrame(manip.targets)>> ELSE <<>>

\* domManip up to the evaluation of scripts.  A target inside the nodes that are
\* placed is an error of the DOM, and leaves the scripts disabled; replaceWith has
\* cleaned the target by then.
DomManip ==
    /\ loops # <<>> /\ loops[1].type = "manip"
    /\ LET manip    == loops[1]
           last     == Last(manip.targets)
           nodes    == SelectSeq(manip.nodes, LAMBDA n : n \notin ToSet(manip.targets))
       IN  IF nodes = <<>> THEN UNCHANGED <<dom, failed>> /\ loops' = Tail(loops)
           ELSE \E fragment \in {BuildFragment(dom, nodes)} :
                \E scripts \in {ScriptsOf(fragment.kids, nodes)},
                   placed \in CopiesPlaced(fragment, manip.targets, nodes, manip.how) :
                  IF last \in ToSet(GetAll(placed.kids, nodes))
                  THEN /\ dom' = Disabled(IF manip.how = "replaceWith"
                                          THEN Cleaned(placed, InOrder(placed.kids, last))
                                          ELSE placed,
                                          ToSet(scripts) \cup (placed.made \ fragment.made))
                       /\ Unwinds
                  ELSE /\ dom' = PlacedAt(placed, last, nodes, manip.how)
                       /\ loops' = <<ScriptsFrame(scripts)>> \o AfterScripts(placed, manip)
                                    \o Tail(loops)
                       /\ UNCHANGED failed
    /\ UNCHANGED manips

\* this.remove(), whatever the scripts have done with the targets.
ReplaceEnds ==
    /\ loops # <<>> /\ loops[1].type = "removal"
    /\ dom' = FoldLeft(TakenOut, dom, loops[1].targets)
    /\ loops' = Tail(loops)
    /\ UNCHANGED <<failed, manips>>

-----------------------------------------------------------------------------
(* Evaluation.                                                             *)

\* Deviation: also before the script is in the page.
DueAnywhere(d, s) == s \notin d.globalEval /\ s \notin d.masked

\* A script that has not been evaluated and is in the page.
Due(d, s) == s \notin d.globalEval /\ s \notin d.masked /\ InBody(d.kids, s)

Looping == loops # <<>> /\ loops[1].type = "scripts"

\* globalEval of the next script that is due.
Evaluates ==
    /\ Looping
    /\ LET scripts == loops[1].scripts
       IN  \E i \in DOMAIN scripts :
             /\ Due(dom, scripts[i])
             /\ \A j \in 1 .. i - 1 : ~Due(dom, scripts[j])
             /\ dom' = [dom EXCEPT !.runs[scripts[i]] = @ + 1]
             /\ loops' = <<CodeFrame, ScriptsFrame(SubSeq(scripts, i + 1, Len(scripts)))>>
                         \o Tail(loops)
    /\ UNCHANGED <<failed, manips>>

EvaluationEnds ==
    /\ Looping
    /\ \A s \in ToSet(loops[1].scripts) : ~Due(dom, s)
    /\ loops' = Tail(loops)
    /\ UNCHANGED <<dom, failed, manips>>

InCode == loops # <<>> /\ loops[1].type = "code"

ScriptEnds == InCode /\ loops' = Tail(loops) /\ UNCHANGED <<dom, failed, manips>>

\* From the page or from a URL alike, for the calls that the script was evaluated from.
ScriptThrows == InCode /\ Unwinds /\ UNCHANGED <<dom, manips>>

-----------------------------------------------------------------------------
(* What the page calls.                                                    *)

\* $(targets).append(args), prepend, before, after and replaceWith.
Inserts(targets, args, how) ==
    /\ dom' = [dom EXCEPT !.made = @ \cup ToSet(args) \cup ToSet(targets)]
    /\ loops' = <<ManipFrame(how, args, targets)>> \o loops
    /\ UNCHANGED failed

\* $(nodes).appendTo(targets) and its like: one call for each target.
InsertsTo(nodes, targets, how) ==
    /\ dom' = [dom EXCEPT !.made = @ \cup ToSet(nodes) \cup ToSet(targets)]
    /\ loops' = <<ToFrame(how, nodes, targets)>> \o loops
    /\ UNCHANGED failed

\* All but the last get copies.
NextTarget ==
    /\ loops # <<>> /\ loops[1].type = "to"
    /\ LET to == loops[1]
       IN  \/ /\ Len(to.targets) = 1
              /\ loops' = <<ManipFrame(to.how, to.nodes, to.targets)>> \o Tail(loops)
              /\ UNCHANGED dom
           \/ /\ Len(to.targets) > 1
              /\ \E each \in ClonedEach(dom, to.nodes) :
                    /\ dom' = each.dom
                    /\ loops' = <<ManipFrame(to.how, each.copies, <<Head(to.targets)>>),
                                  ToFrame(to.how, to.nodes, Tail(to.targets))>> \o Tail(loops)
    /\ UNCHANGED <<failed, manips>>

RemovesNode(n) == dom' = TakenOut(dom, n) /\ UNCHANGED <<loops, failed>>

Detaches(n) == dom' = TakenUp(dom, n) /\ UNCHANGED <<loops, failed>>

Emptied(d, n) == [Cleaned(d, GetAll(d.kids, d.kids[n])) EXCEPT !.kids[n] = <<>>]

\* empty(), and html() of a text without scripts.
Empties(n) == dom' = Emptied(dom, n) /\ UNCHANGED <<loops, failed>>

\* html() of a text with a script.
SetsHtml(targets, script) ==
    /\ dom' = [FoldLeft(Emptied, dom, targets) EXCEPT !.made = @ \cup ToSet(targets) \cup {script}]
    /\ loops' = <<ManipFrame("append", <<script>>, targets)>> \o loops
    /\ UNCHANGED failed

Clones(n) ==
    /\ \E each \in ClonedEach(dom, <<n>>) : dom' = each.dom
    /\ UNCHANGED <<loops, failed>>

\* Of the nodes that are not there yet, one of each kind can be made next.
NextMade ==
    {CHOOSE n \in kind \ dom.made : TRUE : kind \in {k \in {Boxes, PageScripts} : ~(k \subseteq dom.made)}}

Usable == (dom.made \cup NextMade) \ {Body}

Lists(nodes) == {<<n>> : n \in nodes} \cup {<<m, n>> : m, n \in nodes}

Distinct(list) == \A i, j \in DOMAIN list : list[i] = list[j] => i = j

\* A script, or other code of the page, calls.  With one target appendTo is append.
PageManips ==
    /\ loops = <<>> \/ InCode
    /\ manips < MaxManips /\ manips' = manips + 1
    /\ \/ \E targets \in Lists((Usable \ PageScripts) \cup {Body}), how \in Hows :
             /\ Distinct(targets)
             /\ how = "append" \/ how = "prepend" \/ Body \notin ToSet(targets)
             /\ \E args \in Lists(Usable) :
                   /\ Distinct(args)
                   /\ Inserts(targets, args, how) \/ (Len(targets) > 1 /\ InsertsTo(args, targets, how))
       \/ \E targets \in Lists((Usable \ PageScripts) \cup {Body}), s \in NextMade \cap PageScripts :
             Distinct(targets) /\ SetsHtml(targets, s)
       \/ \E n \in dom.made \ {Body} : RemovesNode(n) \/ Detaches(n) \/ Clones(n)
       \/ \E n \in dom.made \ PageScripts : Empties(n)

ManipNext ==
    \/ PageManips
    \/ NextTarget \/ DomManip \/ ReplaceEnds
    \/ Evaluates \/ EvaluationEnds \/ ScriptEnds \/ ScriptThrows

ManipSpec == ManipInit /\ [][ManipNext]_manipVars

-----------------------------------------------------------------------------
(* Properties.                                                             *)

\* "Evaluate executable scripts on first document insertion" (:5418): a script of
\* the page runs once, however it is moved, detached, put into boxes that come
\* into the page later, or inserted by other scripts; copies aside, none is left
\* out when JavaScript is idle.  Both fail only for a script that another one
\* moves or removes while a loop is still to run it: moved it never runs, removed
\* and inserted again it runs twice (:5419-5433).
ScriptsRunOnce ==
    \A s \in PageScripts \ dom.disturbed :
        /\ dom.runs[s] <= 1
        /\ loops = <<>> /\ ~failed /\ InBody(dom.kids, s) /\ s \notin dom.copied => dom.runs[s] = 1
=============================================================================
