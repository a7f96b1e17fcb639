---------------------------- MODULE MCJQueryAjax ----------------------------
(* Two requests and one deferred for when or then, over four objects; the   *)
(* converters of jQuery and two of a page, from json and from xml.          *)
EXTENDS JQueryAjax

LOCAL C(from, to, same) == [from |-> from, to |-> to, same |-> same]

MCConverters ==
    <<C("*", "text", FALSE), C("text", "html", TRUE), C("text", "json", FALSE),
      C("text", "xml", FALSE), C("json", "device", FALSE), C("xml", "json", FALSE)>>

MCForm == [t \in {"text", "html", "json", "xml", "device"} |->
              IF t \in {"text", "html"} THEN "string" ELSE t]

Types == {<<"*">>, <<"json">>, <<"html", "json">>, <<"text", "device">>, <<"*", "device">>,
          <<"xml", "device">>, <<"device", "xml">>, <<"json", "*", "text">>}

MCAskedFor == [types : Types, throws : BOOLEAN]
MCAnswers ==
    [code : {"ok", "error", "nocontent", "notmodified"}, text : BOOLEAN,
     content : {"html", "json", "xml", NoType}, badFor : SUBSET {"json", "xml"}]
=============================================================================
