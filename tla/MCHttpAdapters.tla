-------------------------- MODULE MCHttpAdapters ---------------------------
(***************************************************************************)
(* Model-checking instance of HttpAdapters; see MCAdapters.cfg.  The       *)
(* messages are three families: spellings of paths under bases and         *)
(* namespaces, what a body and a query may be, and what may be replied.    *)
(***************************************************************************)
EXTENDS HttpAdapters

Everywhere == {"fetch", "server", "express", "angular"}
RawE == <<Letter("e", "raw")>>
UpperE == <<Letter("e", "upper")>>
LowerE == <<Letter("e", "lower")>>
A == <<Letter("a", "raw")>>
Api == <<Letter("p", "raw")>>

\* "e" spelled in three ways, an encoded slash, an empty segment, a malformed
\* one, and an encoded percent sign.
Segments ==
    {A, Api, RawE, UpperE, LowerE, <<Letter("a", "raw"), Letter("/", "lower")>>,
     <<>>, <<Letter("e", "upper"), LonePercent>>, <<Letter("%", "upper")>>}
Paths == {<<s>> : s \in Segments} \cup {<<s, t>> : s \in Segments, t \in Segments}
         \cup {<<Api, s, t>> : s \in Segments \ {A}, t \in Segments \ {Api}}

Keys6 == <<<<Param>>, <<Param, Param>>, <<RawE, A>>, <<A, <<>>>>, <<LowerE>>, Root>>

Site(base, origin, namespace, keys, extra, result) ==
    [base |-> [origin |-> origin, path |-> base], namespace |-> namespace,
     keys |-> keys, extra |-> extra, result |-> result]

PathSites(bases) ==
    {Site(b[1], b[2], namespace, Keys6, {}, {}) :
        b \in bases, namespace \in {<<>>, <<Api>>, <<UpperE>>, <<Api, <<>>>>}}

Message(method, origin, path, responseType) ==
    [method |-> method, origin |-> origin, path |-> path, query |-> <<>>,
     params |-> <<>>, headers |-> <<>>, ctype |-> "", payload |-> "none",
     responseType |-> responseType]

Spelled(name, caps, value) == [name |-> name, caps |-> caps, value |-> value]

PathTalk(transports, bases, origins) ==
    [transports |-> transports, sites |-> PathSites(bases), replies |-> {},
     messages |-> {Message("GET", origin, path, "text") : origin \in origins, path \in Paths}]

\* Only fetch and Angular have a base, and requests for other origins.
PathTalks ==
    {PathTalk({"server", "express"}, {<<<<>>, "any">>}, {"here"}),
     PathTalk({"fetch", "angular"},
              {<<<<>>, "any">>, <<<<Api>>, "any">>, <<<<Api, <<>>>>, "here">>, <<<<RawE>>, "any">>},
              {"relative", "here", "there"})}

BodyTalk ==
    [transports |-> Everywhere, replies |-> {},
     sites |-> {Site(<<>>, "any", <<>>, <<Root>>, {}, {})},
     messages |-> {[Message("POST", "here", Root, "json") EXCEPT
                       !.query = q[1], !.params = q[2], !.headers = h,
                       !.ctype = ctype, !.payload = payload] :
         q \in {<<<<>>, <<>>>>, <<<< <<"k", "1">>, <<"k", "2">> >>, <<>>>>,
                <<<< <<"k", "1">> >>, << <<"k", "3">>, <<"l", "1">> >>>>},
         h \in {<<>>, <<Spelled("x", TRUE, "1"), Spelled("x", FALSE, "2"),
                        Spelled("y", TRUE, "3")>>},
         ctype \in {"", "json", "text", "form", "multipart"},
         payload \in {"none", "empty", "json", "malformed", "pairs", "words",
                      "octets", "parts"}}]

ReplyTalk ==
    [transports |-> Everywhere,
     sites |-> {Site(<<>>, "any", <<>>, <<Root>>, s[1], s[2]) :
                   s \in {<<{}, {}>>, <<{Header("x", FALSE, "cors")}, {}>>}
                         \cup {<<{}, {result}>> :
                                  result \in {"json", "string", "throws", "unserializable"}}},
     messages |-> {Message(method, "here", Root, type) :
                      method \in {"GET", "HEAD"}, type \in {"json", "text", "blob"}},
     replies |-> {Reply(code, content, own) :
         code \in {199, 200, 204, 205, 304, 404, 500, 600},
         content \in {"undefined", "null", "string", "json", "bytes", "unserializable"},
         own \in {{},
             {Header("content-length", TRUE, "1"), Header("connection", FALSE, "close")},
             {Header("content-type", TRUE, "html"), Header("x", TRUE, "1")},
             {Header("x", TRUE, "1"), Header("x", FALSE, "2")},
             {Header("x", TRUE, "invalid")},
             {Header("transfer-encoding", FALSE, "chunked")}}}]

MCTalks == PathTalks \cup {BodyTalk, ReplyTalk}
=============================================================================
