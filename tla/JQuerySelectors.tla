-------------------------- MODULE JQuerySelectors --------------------------
(***************************************************************************)
(* The selector engine of jQuery (Sizzle, jquery-2.1.3.js:535-2600): how a *)
(* selector that the browser's querySelectorAll does not answer, or a list *)
(* of given elements, is matched.  A selector is compiled once and matched *)
(* from the right to the left, with answers cached on the nodes.           *)
(*                                                                         *)
(* A cached answer counts for one run of the outermost matcher (dirruns)   *)
(* and one combinator of one compiled selector (doneName).  :not and :has  *)
(* run matchers inside a matcher.  The page changes between the queries; a *)
(* query may end in an exception, and then leaves dirruns and              *)
(* outermostContext as they are.                                           *)
(*                                                                         *)
(* A selector is a sequence of groups, a group a sequence of tokens.  Tags *)
(* and ids stand for every filter that looks at one element alone; the     *)
(* text of selectors, XML and the positional pseudos (:first, :eq) are     *)
(* left out.  Math.random() gives a fraction that was not drawn before.    *)
(***************************************************************************)
EXTENDS Integers, Sequences, SequencesExt, TLC

CONSTANTS
    Document,         \* the document
    Nodes,        \* elements and text nodes
    NoNode,
    Tag,          \* the tag of each element; text nodes have none
    Id,           \* the id of some elements
    FirstTree,    \* the children of the document and of each node, at first
    FindSelectors,\* what the page asks for
    BrowserKnows, \* those, nested ones too, that querySelectorAll answers
    Contexts,     \* the nodes it asks below
    Given,        \* the elements it asks about, in its order
    MaxQueries,   \* bounds the queries
    MaxMoves      \* bounds the changes of the tree

VARIABLES
    tree,         \* childNodes
    marks,        \* node[expando], by node and key: what a combinator left under its
                  \* direction, :nth-child on a parent, :nth-last-child on an element
    dirruns,      \* the number of the run: how often 1 was added, and the last fraction
    outermost,    \* outermostContext; NoNode if undefined, Document if false
    drawn,        \* fractions drawn
    answer,       \* the last query and what it returned, until the tree changes
    queries, moves

treeVars == <<tree, moves>>
cacheVars == <<marks, dirruns, outermost, drawn>>
findVars == <<treeVars, cacheVars, answer, queries>>

-----------------------------------------------------------------------------
(* The tree.                                                               *)

Elements == DOMAIN Tag

Parents(n) == {p \in DOMAIN tree : Contains(tree[p], n)}
Parent(n) == IF Parents(n) = {} THEN NoNode ELSE CHOOSE p \in Parents(n) : TRUE
PlaceIn(n, seq) == CHOOSE i \in DOMAIN seq : seq[i] = n
PreviousSibling(n) ==
    IF Parent(n) = NoNode \/ Head(tree[Parent(n)]) = n THEN NoNode
    ELSE tree[Parent(n)][PlaceIn(n, tree[Parent(n)]) - 1]

RECURSIVE Ancestors(_)
Ancestors(n) == IF Parent(n) = NoNode THEN {} ELSE {Parent(n)} \cup Ancestors(Parent(n))

\* Elements among the children of e's parent that CHILD counts.
Counted(e, token) ==
    SelectSeq(tree[Parent(e)], LAMBDA n : n \in Elements /\ (token.ofType => Tag[n] = Tag[e]))

\* getElementsByTagName("*"): the elements below n in document order.
RECURSIVE ElementsBelow(_)
ElementsBelow(n) ==
    FlattenSeq([i \in 1 .. Len(tree[n]) |->
        IF tree[n][i] \in Elements THEN <<tree[n][i]>> \o ElementsBelow(tree[n][i]) ELSE <<>>])

-----------------------------------------------------------------------------
(* Tokens and what they are compiled to.                                   *)

Combinators == {" ", ">", "~", "+"}
Relative(token) == token.type \in Combinators
Dir(combinator) == IF combinator \in {" ", ">"} THEN "parentNode" ELSE "previousSibling"
First(combinator) == combinator \in {">", "+"}

\* matcherFromTokens: the matcher that looks for the context, then one for each
\* token; a combinator wraps the ones before it.  Names are doneNames.
FromTokens(tokens, name) ==
    LET leading == Relative(tokens[1])
        base == [type |-> "context", leading |-> leading, matchers |-> <<>>, name |-> <<name, 0>>,
                 combinator |-> IF leading THEN tokens[1].type ELSE " "]
        upTo[i \in 0 .. Len(tokens)] ==
            IF i = 0 \/ (leading /\ i = 1) THEN <<base>>
            ELSE IF Relative(tokens[i])
            THEN <<[type |-> "dir", matchers |-> upTo[i - 1], combinator |-> tokens[i].type,
                    name |-> <<name, i>>]>>
            ELSE Append(upTo[i - 1], tokens[i])
    IN  upTo[Len(tokens)]

\* compile; its cache is exact, so a selector has the same names each time.
Compiled(selector) ==
    [g \in 1 .. Len(selector) |-> FromTokens(selector[g], <<selector, g>>)]

-----------------------------------------------------------------------------
(* What a selector means; the browser is trusted to know.                  *)

RECURSIVE Fits(_, _, _, _), Means(_, _, _)

Related(n, combinator) ==
    CASE combinator = ">" -> {Parent(n)} \ {NoNode}
      [] combinator = " " -> Ancestors(n)
      [] combinator \in {"+", "~"} ->
            IF Parent(n) = NoNode THEN {}
            ELSE LET all == SelectSeq(tree[Parent(n)], LAMBDA m : m \in Elements)
                     before == SubSeq(all, 1, PlaceIn(n, all) - 1)
                 IN  IF combinator = "~" THEN ToSet(before)
                     ELSE IF before = <<>> THEN {} ELSE {Last(before)}

\* n is at the end of the first i tokens.  Above them is the context; NoNode is
\* none, as inside :not.
Fits(n, tokens, i, context) ==
    IF i = 0 THEN context \in {NoNode, Document} \/ context \in Ancestors(n)
    ELSE LET token == tokens[i] IN
         IF Relative(token)
         THEN \E m \in Related(n, token.type) :
                 IF i = 1 THEN m = context
                 ELSE m \in Elements /\ Fits(m, tokens, i - 1, context)
         ELSE /\ Fits(n, tokens, i - 1, context)
              /\ CASE token.type = "TAG" -> token.tag \in {"*", Tag[n]}
                   [] token.type = "ID" -> n \in DOMAIN Id /\ Id[n] = token.id
                   [] token.type = "not" -> ~Means(n, token.selector, NoNode)
                   [] token.type = "has" ->
                        \E m \in Elements : Means(m, token.selector, n)
                   [] token.type = "CHILD" ->
                        /\ Parent(n) # NoNode
                        /\ LET all == Counted(n, token)
                               back == Reverse(all)
                           IN  CASE token.kind = "only" -> all = <<n>>
                                 [] token.kind = "first" -> Head(all) = n
                                 [] token.kind = "last" -> Head(back) = n
                                 [] OTHER ->
                                      \E k \in 0 .. Len(all) :
                                         LET at == token.first * k + token.last
                                         IN  /\ at \in DOMAIN all
                                             /\ IF token.kind = "nth" THEN all[at] = n
                                                ELSE back[at] = n

Means(n, selector, context) ==
    \E g \in DOMAIN selector : Fits(n, selector[g], Len(selector[g]), context)

Root(n) == IF Ancestors(n) = {} THEN n ELSE CHOOSE m \in Ancestors(n) : Ancestors(m) = {}

NoSeed == <<NoNode>>

Answer(selector, context, seed) ==
    SelectSeq(IF seed = NoSeed THEN ElementsBelow(Root(context)) ELSE seed,
              LAMBDA n : Means(n, selector, context))

-----------------------------------------------------------------------------
(* The state s of a query: caches, run, context, fractions drawn, walks    *)
(* begun; `hit` is what the last matcher said, `threw` an exception.       *)

Said(s, hit) == [s EXCEPT !.hit = hit]

NoRun == <<0, 0>>
NoMark == [run |-> NoRun, done |-> <<>>, walk |-> 0]

Mark(s, n, key) == IF <<n, key>> \in DOMAIN s.marks THEN s.marks[<<n, key>>] ELSE NoMark
Marked(s, n, key, mark) == [s EXCEPT !.marks = (<<n, key>> :> mark) @@ @]

\* newCache[2] = hit: the nodes passed on one walk share their entry.
Told(s, walk, hit) ==
    [s EXCEPT !.hit = hit,
              !.marks = [k \in DOMAIN @ |->
                  IF @[k].walk = walk THEN [@[k] EXCEPT !.hit = hit] ELSE @[k]]]

\* Deviation: takes an answer from an earlier run.
KnownOfName(entry, s, name) == entry.done = name

\* oldCache[0] === dirruns && oldCache[1] === doneName
Known(entry, s, name) == entry.run = s.run /\ entry.done = name

\* The next element that way; looking for the context, the document counts too.
RECURSIVE Closest(_, _, _)
Closest(n, dir, base) ==
    LET m == IF dir = "parentNode" THEN Parent(n) ELSE PreviousSibling(n)
    IN  IF m = NoNode \/ m \in Elements \/ (base /\ dir = "parentNode") THEN m
        ELSE Closest(m, dir, base)

\* :nth-child: goes on from the last place found among these children.
SeekForward(e, s) ==
    LET all   == tree[Parent(e)]
        at    == PlaceIn(e, all)
        last  == Mark(s, Parent(e), "nth")
        from  == IF last.run = s.run /\ last.index > 1 /\ last.index < at
                 THEN last ELSE [index |-> 0, place |-> 0]
        place == from.place + Len(SelectSeq(SubSeq(all, from.index + 1, at),
                                            LAMBDA n : n \in Elements))
    IN  Marked(s, Parent(e), "nth", [run |-> s.run, index |-> at, place |-> place, walk |-> 0])

\* :nth-last-child: counts from the last child, and notes what it passes.
SeekBackward(e, s) ==
    LET all == Reverse(Counted(e, [ofType |-> FALSE]))
        passed == SubSeq(all, 1, PlaceIn(e, all))
        mark == [k \in ToSet(passed) \X {"nth-last"} |->
                    [run |-> s.run, place |-> PlaceIn(k[1], all), walk |-> 0]]
    IN  IF Mark(s, e, "nth-last").run = s.run THEN s ELSE [s EXCEPT !.marks = mark @@ @]

\* diff === first || (diff % first === 0 && diff / first >= 0)
Cycles(diff, first) ==
    diff = first \/ \E k \in 0 .. Len(Given) : first # 0 /\ diff = k * first

\* Expr.filter.CHILD
Child(token, e, s) ==
    LET counted == Counted(e, token)
        at == PlaceIn(e, counted)
        At(place) == Cycles(place - token.last, token.first)
    IN  CASE Parent(e) = NoNode -> Said(s, FALSE)
          [] token.kind = "only" -> Said(s, Len(counted) = 1)
          [] token.kind = "first" -> Said(s, at = 1)
          [] token.kind = "last" -> Said(s, at = Len(counted))
          [] token.kind = "nth" /\ token.ofType -> Said(s, At(at))
          [] token.kind = "nth-last" /\ token.ofType -> Said(s, At(Len(counted) + 1 - at))
          [] token.kind = "nth" /\ ~token.ofType ->
                LET t == SeekForward(e, s) IN Said(t, At(Mark(t, Parent(e), "nth").place))
          [] token.kind = "nth-last" /\ ~token.ofType ->
                LET t == SeekBackward(e, s) IN Said(t, At(Mark(t, e, "nth-last").place))

RECURSIVE Matches(_, _, _, _), Climb(_, _, _, _, _), Find(_, _, _, _)

\* elementMatcher: every matcher, the last one first.
AllMatch(matchers, e, context, s) ==
    FoldLeft(LAMBDA t, m : IF t.hit /\ ~t.threw THEN Matches(m, e, context, t) ELSE t,
             Said(s, TRUE), Reverse(matchers))

\* addCombinator, all ancestors or preceding siblings: w is the walk's entry.  The
\* matchers have said t of n.
ClimbOn(m, n, context, w, t) ==
    CASE t.threw -> t
      [] ~t.threw /\ t.hit -> Told(t, w.walk, TRUE)
      [] ~t.threw /\ ~t.hit -> Climb(m, n, context, w, Told(t, w.walk, FALSE))

Climb(m, e, context, w, s) ==
    LET dir == Dir(m.combinator)
        n   == Closest(e, dir, m.type = "context")
    IN  CASE n = NoNode -> Said(s, FALSE)
          [] n # NoNode /\ Known(Mark(s, n, dir), s, m.name) ->
                Told(s, w.walk, Mark(s, n, dir).hit)
          [] OTHER -> ClimbOn(m, n, context, w,
                              AllMatch(m.matchers, n, context, Marked(s, n, dir, w)))

\* addCombinator
Combine(m, e, context, s) ==
    LET n == Closest(e, Dir(m.combinator), m.type = "context")
    IN  IF First(m.combinator)
        THEN IF n = NoNode THEN Said(s, FALSE) ELSE AllMatch(m.matchers, n, context, s)
        ELSE Climb(m, e, context,
                   [run |-> s.run, done |-> m.name, hit |-> FALSE, walk |-> s.walks + 1],
                   [s EXCEPT !.walks = @ + 1])

\* The run that a matcher begins: dirruns += 1, or a fraction inside another run.
Begun(s) ==
    IF s.outermost = NoNode THEN [s EXCEPT !.run[1] = @ + 1]
    ELSE [s EXCEPT !.run[2] = s.drawn + 1, !.drawn = @ + 1]

\* The first compiled group that matches e, if one does.
AnyMatch(groups, e, context, s) ==
    FoldLeft(LAMBDA t, g : IF t.hit \/ t.threw THEN t ELSE AllMatch(g, e, context, t),
             Said(s, FALSE), groups)

\* The matchers have said t of e, where `found` had been found before; the outermost
\* one sets dirruns after each element.
Noted(t, e, found, isOutermost, run) ==
    IF t.threw THEN t
    ELSE [t EXCEPT !.run = IF isOutermost THEN run ELSE @,
                   !.found = IF t.hit THEN Append(found, e) ELSE found]

\* The elements that pass.
Passing(groups, elems, context, isOutermost, s) ==
    FoldLeft(LAMBDA t, e :
                IF t.threw THEN t
                ELSE Noted(AnyMatch(groups, e, context, t), e, t.found, isOutermost, s.run),
             s, elems)

\* What the outermost matcher puts back at the end, unless it is left by an exception.
PutBackAfter(end, run, before) ==
    IF end.threw THEN end ELSE [end EXCEPT !.run = run, !.outermost = before]

\* matcherFromGroupMatchers: `top` is the superMatcher's argument outermost.
SuperMatcher(groups, elems, context, top, s) ==
    LET start == [Begun(s) EXCEPT !.found = <<>>,
                                  !.outermost = IF top = NoNode THEN @ ELSE context]
        end   == Passing(groups, elems, context, top # NoNode, start)
    IN  IF top = NoNode THEN end ELSE PutBackAfter(end, start.run, s.outermost)

Nothing(t) == Said(t, t.found = <<>>)
Something(t) == Said(t, t.found # <<>>)

\* One compiled token against one element.
Matches(m, e, context, s) ==
    CASE m.type = "TAG" -> Said(s, m.tag \in {"*", Tag[e]})
      [] m.type = "ID" -> Said(s, e \in DOMAIN Id /\ Id[e] = m.id)
      [] m.type = "is" -> Said(s, e = m.node)
      [] m.type = "CHILD" -> Child(m, e, s)
      [] m.type = "dir" -> Combine(m, e, context, s)
      [] m.type = "context" ->
            IF ~m.leading /\ (context = Document \/ context # s.outermost) THEN Said(s, TRUE)
            ELSE IF context = NoNode THEN [s EXCEPT !.threw = TRUE]
            ELSE Combine([m EXCEPT !.matchers = <<[type |-> "is", node |-> context]>>],
                         e, context, s)
      [] m.type = "not" -> Nothing(SuperMatcher(Compiled(m.selector), <<e>>, NoNode, NoNode, s))
      [] m.type = "has" -> Something(Find(m.selector, e, NoSeed, s))

-----------------------------------------------------------------------------
(* From a selector to the elements it is matched against.                  *)

\* Where candidates are looked for: combinators between siblings leave the context.
Scope(selector, context) ==
    LET siblings == \E g, i \in 1 .. 9 : /\ g <= Len(selector) /\ i <= Len(selector[g])
                                         /\ selector[g][i].type \in {"+", "~"}
    IN  IF siblings /\ Parent(context) # NoNode THEN Parent(context) ELSE context

Candidates(selector, context) == ElementsBelow(Scope(selector, context))

\* Tokens the DOM can look up; ids only below the document.
Finds(token, context) == token.type = "TAG" \/ (token.type = "ID" /\ context = Document)

\* The rightmost token that can be looked up, right of every combinator; 0 if
\* there is none, or if the selector leads with a combinator (needsContext).
SeedToken(tokens, context) ==
    LET free == {i \in DOMAIN tokens : \A j \in i .. Len(tokens) : ~Relative(tokens[j])}
        found == {i \in free : Finds(tokens[i], context)}
    IN  IF found = {} \/ tokens[1].type \in {">", "+", "~"} THEN 0
        ELSE CHOOSE i \in found : \A j \in found : j <= i

LookedUp(token, context) ==
    SelectSeq(ElementsBelow(context),
              LAMBDA n : IF token.type = "TAG" THEN token.tag \in {"*", Tag[n]}
                         ELSE n \in DOMAIN Id /\ Id[n] = token.id)

\* A selector of one group: look up the last tag or id, and match what is left.
SelectOne(tokens, context, s) ==
    LET i    == SeedToken(tokens, context)
        seed == IF i = 0 THEN Candidates(<<tokens>>, context) ELSE LookedUp(tokens[i], context)
        rest == IF i = 0 THEN tokens ELSE RemoveAt(tokens, i)
    IN  IF i # 0 /\ (seed = <<>> \/ rest = <<>>) THEN [s EXCEPT !.found = seed]
        ELSE SuperMatcher(Compiled(<<rest>>), seed, context, Scope(<<rest>>, context), s)

\* select: a leading id below the document becomes the context.
Select(selector, context, seed, s) ==
    LET tokens == selector[1]
        root   == LookedUp(tokens[1], Document)
    IN  CASE seed # NoSeed ->
                SuperMatcher(Compiled(selector), seed, context, Scope(selector, context), s)
          [] seed = NoSeed /\ Len(selector) > 1 ->
                SuperMatcher(Compiled(selector), Candidates(selector, context), context,
                             Scope(selector, context), s)
          [] seed = NoSeed /\ Len(selector) = 1 ->
                IF Len(tokens) > 2 /\ tokens[1].type = "ID" /\ context = Document
                                   /\ Relative(tokens[2])
                THEN IF root = <<>> THEN [s EXCEPT !.found = <<>>]
                     ELSE SelectOne(Tail(tokens), root[1], s)
                ELSE SelectOne(tokens, context, s)

\* Sizzle: querySelectorAll first, unless elements are given.
Find(selector, context, seed, s) ==
    IF seed = NoSeed /\ selector \in BrowserKnows
    THEN [s EXCEPT !.found = Answer(selector, context, seed)]
    ELSE Select(selector, context, seed, s)

-----------------------------------------------------------------------------

NoAnswer == [selector |-> <<>>]

FindInit ==
    /\ tree = FirstTree
    /\ marks = <<>>
    /\ dirruns = NoRun
    /\ outermost = NoNode
    /\ drawn = 0
    /\ answer = NoAnswer
    /\ queries = 0 /\ moves = 0

\* jQuery.find(selector, context), or jQuery.find.matches with the given elements.
Ask(selector, context, seed) ==
    /\ queries < MaxQueries
    /\ queries' = queries + 1
    /\ \E t \in {Find(selector, context, seed,
                      [marks |-> marks, run |-> dirruns, outermost |-> outermost, drawn |-> drawn,
                       walks |-> 0, hit |-> FALSE, threw |-> FALSE, found |-> <<>>])} :
          /\ marks' = [k \in DOMAIN t.marks |-> [t.marks[k] EXCEPT !.walk = 0]]
          /\ dirruns' = t.run /\ outermost' = t.outermost /\ drawn' = t.drawn
          /\ answer' = [selector |-> selector, context |-> context, seed |-> seed,
                        threw |-> t.threw, found |-> t.found]
    /\ UNCHANGED treeVars

Without(n) == [p \in DOMAIN tree |-> SelectSeq(tree[p], LAMBDA m : m # n)]

\* The page moves an element to the end of another one, or takes it out.
Move(n, p) ==
    /\ moves < MaxMoves
    /\ n \notin Ancestors(p) \cup {p}
    /\ tree' = [Without(n) EXCEPT ![p] = Append(@, n)]
    /\ moves' = moves + 1
    /\ answer' = NoAnswer
    /\ UNCHANGED <<cacheVars, queries>>

TakeOut(n) ==
    /\ moves < MaxMoves
    /\ Parent(n) # NoNode
    /\ tree' = Without(n)
    /\ moves' = moves + 1
    /\ answer' = NoAnswer
    /\ UNCHANGED <<cacheVars, queries>>

FindNext ==
    \/ \E selector \in FindSelectors, q \in (Contexts \X {NoSeed}) \cup {<<Document, Given>>} :
          Ask(selector, q[1], q[2])
    \/ \E n \in Elements, p \in Elements \cup {Document} : Move(n, p)
    \/ \E n \in Elements : TakeOut(n)

FindSpec == FindInit /\ [][FindNext]_findVars

-----------------------------------------------------------------------------

\* Every query is answered with the elements the selector means, each once and in
\* the order of the document or of what was given, whatever was asked before,
\* where the page has changed since, and where a query ended in an exception
\* (:2093-2140, :2440-2530, :1664-1750).
SelectionIsRight ==
    (answer # NoAnswer /\ ~answer.threw) =>
        answer.found = Answer(answer.selector, answer.context, answer.seed)

=============================================================================
