---------------------------- MODULE MCCliServer ----------------------------
(***************************************************************************)
(* Model-checking instance of CliProcess; see MCCli.cfg.  One command has  *)
(* a session in which the spec is saved; the others vary a flag or two of  *)
(* it, and the entries of a seed manifest.                                 *)
(***************************************************************************)
EXTENDS CliProcess

Text(kind, text) == [kind |-> kind, number |-> 0, text |-> text]
Of(n) == [kind |-> "number", number |-> n, text |-> ToString(n)]
Texts == {Absent, Text("empty", ""), Text("blank", " "), Text("word", "w"),
          Text("spaced", "w w"), Text("fraction", "1.5"),
          Of(-1), Of(0), Of(70000)}

Plain == [unknown |-> FALSE, help |-> FALSE, admin |-> FALSE, watch |-> FALSE,
          positionals |-> <<"spec">>, spec |-> {}, port |-> Absent,
          hostname |-> Absent, token |-> Absent, limit |-> Absent,
          fakerSeed |-> Absent, hosts |-> {}, seed |-> {}]
Watching == [Plain EXCEPT !.watch = TRUE, !.admin = TRUE]
Flags ==
    {[Plain EXCEPT !.port = t] : t \in Texts}
    \cup {[Plain EXCEPT !.hostname = t] : t \in Texts}
    \cup {[Plain EXCEPT !.fakerSeed = t] : t \in Texts}
    \cup {[Plain EXCEPT !.admin = a, !.token = t] : a \in BOOLEAN, t \in Texts}
    \cup {[Plain EXCEPT !.admin = a, !.limit = t] : a \in BOOLEAN, t \in Texts}
    \cup {[Plain EXCEPT !.positionals = p, !.spec = s, !.help = h] :
             p \in {<<>>, <<"spec">>, <<"spec", "other">>}, s \in {{}, {""}, {"spec"}},
             h \in BOOLEAN}
    \cup {[Plain EXCEPT !.hosts = {l}] : l \in {<<"">>, <<"a", "", "b">>}}
    \cup {[Plain EXCEPT !.unknown = TRUE], [Watching EXCEPT !.token = Text("word", "w")]}

\* The manifests are in /seed, which is a link to /data.  Below it are a file,
\* one whose name begins with two dots, and links out of it and to it.
MCLinks == <<"seed">> :> <<"data">> @@ <<"data", "out">> :> <<"etc">>
           @@ <<"data", "self">> :> <<"data">>
MCContents == <<"data", "rows">> :> [size |-> 1, json |-> "array", length |-> 2]
              @@ <<"data", "..rows">> :> [size |-> 1, json |-> "array", length |-> 1]
              @@ <<"data", "big">> :> [size |-> 9, json |-> "array", length |-> 1]
              @@ <<"data", "object">> :> [size |-> 1, json |-> "object", length |-> 0]
              @@ <<"data", "broken">> :> [size |-> 1, json |-> "invalid", length |-> 0]
              @@ <<"etc", "rows">> :> [size |-> 1, json |-> "array", length |-> 2]
MCFiles == DOMAIN MCContents \cup {<<"data">>, <<"etc">>}

Source(form, n, path, absolute) ==
    [form |-> form, length |-> n, path |-> path, absolute |-> absolute, count |-> Absent]
MCSources ==
    {Source("array", n, <<>>, FALSE) : n \in {0, 2, 4}}
    \cup {Source("file", 0, p, FALSE) :
             p \in {<<"rows">>, <<"..rows">>, <<"big">>, <<"object">>, <<"broken">>, <<"none">>,
                    <<"..", "seed", "rows">>, <<"..", "etc", "rows">>, <<"out", "rows">>,
                    <<"self", ".", "rows">>, <<"self">>, <<".">>, <<"..">>}}
    \cup {Source("file", 0, p, TRUE) : p \in {<<"seed", "rows">>, <<"etc", "rows">>}}
    \cup {[Source("count", 0, <<>>, FALSE) EXCEPT !.count = t] :
             t \in {Of(-1), Of(0), Of(2), Of(3), Text("fraction", "1.5")}}
    \cup {Source("other", 0, <<>>, FALSE)}

Manifest(entries) ==
    [dir |-> <<"seed">>, size |-> 1, json |-> "object", entries |-> entries]
MCManifests ==
    {Manifest("users" :> s) : s \in MCSources}
    \cup {Manifest("users" :> s @@ "pets" :> t) :
             s, t \in {Source("array", 2, <<>>, FALSE),
                       Source("file", 0, <<"rows">>, FALSE),
                       [Source("count", 0, <<>>, FALSE) EXCEPT !.count = Of(1)]}}
    \cup {[Manifest(<<>>) EXCEPT !.json = j, !.size = n] :
             j \in {"object", "array", "invalid"}, n \in {1, 9}}

MCCommands == {Plain, Watching} \cup Flags
              \cup {[Plain EXCEPT !.seed = {m}] : m \in MCManifests}
WatchingOnly == {Watching}
MCSaves == [c \in MCCommands |-> IF c = Watching THEN MaxWrites ELSE 0]
MCUuids == <<"u1", "u2">>
MCResources == "users" :> 2
=============================================================================
