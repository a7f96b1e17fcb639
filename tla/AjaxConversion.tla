--------------------------- MODULE AjaxConversion ---------------------------
(***************************************************************************)
(* What $.ajax makes of an answer (ajaxHandleResponses, ajaxConvert and    *)
(* the middle of done, web/lib/js/jquery-2.1.3.js:7657-7805, 8205-8250).   *)
(*                                                                         *)
(* A request asks for a list of data types, "*" for whatever the server    *)
(* says.  The text that the transport brings is converted from each data   *)
(* type to the next, directly, or by way of one other data type.  The data *)
(* itself is modelled by its form: a string, a document, an object.        *)
(*                                                                         *)
(* Options: types, dataType split at its spaces; throws, errors of the     *)
(* converters, or of a dataFilter, are passed on.  Answers: code; content, *)
(* the data type of the content type; text, whether there is one; badFor,  *)
(* the data types the text cannot be parsed as.                            *)
(***************************************************************************)
EXTENDS Naturals, SequencesExt

CONSTANTS
    Converters,  \* from, to, same; same if there is nothing to do
    Form,        \* the form of data of each data type
    NoType,
    AskedFor,    \* options
    Answers

Star == "*"

\* s.converters[ from + " " + to ]
Between(from, to) == SelectSeq(Converters, LAMBDA c : c.from = from /\ c.to = to)

\* converters[ from + " " + to ] || converters[ "* " + to ]
Direct(from, to) ==
    IF Between(from, to) # <<>> THEN Between(from, to) ELSE Between(Star, to)

-----------------------------------------------------------------------------
(* ajaxHandleResponses                                                     *)

\* The data types without "*" in front; the content type is only asked for then.
Expected(types, content) ==
    LET named == {i \in DOMAIN types : types[i] # Star}
        first == CHOOSE i \in named : \A j \in named : i <= j
        rest  == IF named = {} THEN <<>> ELSE SubSeq(types, first, Len(types))
    IN  IF types[1] = Star /\ content # NoType THEN <<content>> \o rest ELSE rest

\* The response that is taken: the expected one, one that can be converted, any.
Taken(types, responses) ==
    LET convertible == SelectSeq(responses,
                          LAMBDA t : types = <<>> \/ Between(t, types[1]) # <<>>)
    IN  CASE types # <<>> /\ types[1] \in ToSet(responses) -> types[1]
          [] convertible # <<>> -> convertible[1]
          [] OTHER -> responses[1]

\* s.dataTypes afterwards, the response's first.
HandleResponses(types, content, responses) ==
    LET expected == Expected(types, content)
        taken == Taken(expected, responses)
    IN  IF expected # <<>> /\ expected[1] = taken THEN expected ELSE <<taken>> \o expected

-----------------------------------------------------------------------------
(* ajaxConvert                                                             *)

\* The last converters of two, where the data can be brought to the first one's.
Pairs(prev, current) ==
    SelectSeq(Converters, LAMBDA c : c.to = current /\ Direct(prev, c.from) # <<>>)

\* Deviation: the second converter of a pair is forgotten.
WayOfOne(prev, current) ==
    LET direct == Direct(prev, current)
        pairs  == Pairs(prev, current)
    IN  CASE direct # <<>> -> <<direct[1]>>
          [] direct = <<>> /\ pairs = <<>> -> <<>>
          [] OTHER -> <<Direct(prev, pairs[1].from)[1]>>

\* The converters by which data of data type prev becomes current, in their order;
\* none if there is no way.
Way(prev, current) ==
    LET direct == Direct(prev, current)
        pairs  == Pairs(prev, current)
        second == pairs[1]
        first  == Direct(prev, second.from)[1]
    IN  CASE direct # <<>> -> <<direct[1]>>
          [] direct = <<>> /\ pairs = <<>> -> <<>>
          [] OTHER -> IF first.same THEN <<second>>
                      ELSE IF second.same THEN <<first>> ELSE <<first, second>>

\* The form of undefined, and of the null that parseXML makes of it (:7524-7526).
Nothing == "nothing"

\* The form of what a converter is given must be the one it takes; "wrong" otherwise.
\* "* text" is String: it makes a string of whatever it is given.
Applied(c, form) ==
    CASE c.from = Star -> Form[c.to]
      [] form = Nothing -> Nothing
      [] OTHER -> IF Form[c.from] = form THEN Form[c.to] ELSE "wrong"

\* parseXML, alone, does not fail where there is nothing to parse.
Fails(c, form, badFor) == c.to \in badFor /\ ~(c.to = "xml" /\ form = Nothing)

\* The loop: from the first of the data types to the last.
Convert(types, form, badFor, throws) ==
    LET Call(reached, c) ==
            IF c.same \/ reached.state # "success" THEN reached
            ELSE IF Fails(c, reached.form, badFor)
            THEN [reached EXCEPT !.state = IF throws THEN "throws" ELSE "parsererror"]
            ELSE [reached EXCEPT !.form = Applied(c, @)]
        Reach(reached, current) ==
            LET way == Way(reached.type, current)
            IN  IF current = Star \/ reached.state # "success" THEN reached
                ELSE IF reached.type \in {Star, current} THEN [reached EXCEPT !.type = current]
                ELSE IF way = <<>> THEN [reached EXCEPT !.state = "parsererror"]
                ELSE [FoldLeft(Call, reached, way) EXCEPT !.type = current]
    IN  FoldLeft(Reach, [type |-> types[1], form |-> form, state |-> "success"], Tail(types))

\* Without a text the response is undefined, or String makes "undefined" of it, which
\* is no json and no xml; a converter of the page is taken to fail on it.
Parses(c) == ~c.same /\ c.from # Star

Converted(options, answer) ==
    IF answer.text
    THEN Convert(HandleResponses(options.types, answer.content, <<"text">>), Form["text"],
                 answer.badFor, options.throws)
    ELSE Convert(options.types, Nothing, {c.to : c \in {d \in ToSet(Converters) : Parses(d)}},
                 options.throws)

\* done: the statusText that the callbacks get, or "throws" if they get nothing.
Reply(options, answer) ==
    LET converted == Converted(options, answer)
    IN  IF converted.state = "throws" THEN "throws"
        ELSE IF answer.code = "ok" THEN converted.state ELSE answer.code

Replies == {Reply(options, answer) : options \in AskedFor, answer \in Answers}

Succeeds(reply) == reply \in {"success", "nocontent", "notmodified"}

-----------------------------------------------------------------------------
(* What is asked of the conversion.                                        *)

\* The data type that the page asks for: the last that it names, or the server's.
Wanted(options, answer) ==
    LET named == SelectSeq(options.types, LAMBDA t : t # Star)
    IN  IF named # <<>> THEN Last(named)
        ELSE IF answer.content # NoType THEN answer.content ELSE "text"

\* There is a converter, or one can be called after another.
Reachable(from, to) ==
    \/ from = to
    \/ Direct(from, to) # <<>>
    \/ \E i \in DOMAIN Converters :
          Converters[i].to = to /\ Direct(from, Converters[i].from) # <<>>

\* The data types that a conversion may have to make.
Made(from, to) ==
    IF from = to THEN {}
    ELSE {to} \cup {t \in DOMAIN Form : Direct(from, t) # <<>> /\ Between(t, to) # <<>>}

\* Data of the form that is wanted, converters that are given what they take, and
\* no error but where the text does not parse as something that has to be made of
\* it, or where there is no way.
IsRight(options, answer) ==
    LET result == Converted(options, answer)
        steps == <<"text">> \o Expected(options.types, answer.content)
    IN  /\ result.state = "success" => result.form = Form[Wanted(options, answer)]
        /\ result.form # "wrong"
        /\ result.state = "parsererror" =>
              \E i \in 1 .. Len(steps) - 1 :
                 \/ answer.badFor \cap Made(steps[i], steps[i + 1]) # {}
                 \/ ~Reachable(steps[i], steps[i + 1])

Mistaken == {asked \in AskedFor \X {a \in Answers : a.text} : ~IsRight(asked[1], asked[2])}
=============================================================================
