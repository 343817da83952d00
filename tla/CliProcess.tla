----------------------------- MODULE CliProcess ----------------------------
(***************************************************************************)
(* The process of the command `schmock' (packages/cli/src/cli.ts 165-263   *)
(* and 869-1266, packages/cli/src/bin.ts): the command line, the seed      *)
(* manifest and what packages/openapi/src/seed.ts makes of it, the start   *)
(* of the server of CliServer, and the signals that stop it.               *)
(*                                                                         *)
(* The value of a flag is what the conversions tell apart: whether it is   *)
(* there, blank, a number or a word.  An optional value is the set of it,  *)
(* and a parser answers with the set of its results, which is empty when   *)
(* it throws.  A path is the sequence of its names from the root.          *)
(***************************************************************************)
EXTENDS CliServer, Integers, FiniteSets, SequencesExt

CONSTANTS
    Commands,      \* the command lines
    Saves,         \* how often the spec is saved in the session of each
    Uuids,         \* what randomUUID() answers, in order
    Links,         \* the symbolic links of the disk, to real paths
    Files,         \* the real paths there are
    Contents,      \* what the seed files hold, by real path
    Resources,     \* the nodes of an item of each resource that has a schema
    MaxManifest, MaxFile,       \* MAX_SEED_MANIFEST_BYTES, MAX_SEED_FILE_BYTES
    MaxItems, MaxItemsTotal,    \* MAX_SEED_ITEMS_PER_RESOURCE and _TOTAL
    MaxNodes                    \* MAX_SEED_GENERATED_NODES

VARIABLES
    command,
    stage,        \* "called", "creating", "serving" or "ended"
    options,      \* the options run() works with, in a set
    minted,       \* the tokens minted so far
    built,        \* what the first mock was made from, in a set
    enforced,     \* the token the socket checks, in a set
    banner,       \* the token that was printed, in a set
    exitCode,
    repeated,     \* a repeated signal was reported
    killed        \* the signal had its default disposition

processVars == <<command, stage, options, minted, built, enforced, banner,
                 exitCode, repeated, killed>>

-----------------------------------------------------------------------------
(* The command line. *)

Absent == [kind |-> "absent", number |-> 0, text |-> ""]
IsBlank(t) == t.kind \in {"empty", "blank"}

\* Number(): a blank is 0; a word and a fraction are no integers.
Number(t) == IF IsBlank(t) THEN {0} ELSE IF t.kind = "number" THEN {t.number} ELSE {}

\* An empty --port counts as none.
ValidatePort(t) ==
    IF t.kind \in {"absent", "empty"} THEN {{}}
    ELSE {{n} : n \in Number(t) \cap (0 .. 65535)}

\* Mutant: any integer is a limit.
LimitOfAny(t) == IF t = Absent THEN {{}} ELSE {{n} : n \in Number(t)}
ValidateHistoryLimit(t) ==
    IF t = Absent THEN {{}}
    ELSE {{n} : n \in {i \in Number(t) : ~IsBlank(t) /\ i >= 0}}

ValidateFakerSeed(t) ==
    IF t = Absent THEN {{}} ELSE {{n} : n \in {i \in Number(t) : ~IsBlank(t)}}

ValidateHostname(t) ==
    IF t = Absent THEN {{}} ELSE IF IsBlank(t) THEN {} ELSE {{t.text}}

ValidateAdminToken(t) ==
    IF t = Absent THEN {{}}
    ELSE IF IsBlank(t) \/ t.kind = "spaced" THEN {} ELSE {{t.text}}

\* A list that names no host is a list all the same.
ParseAllowedHosts(list) ==
    {{hosts[i] : i \in DOMAIN hosts} \ {""} : hosts \in list}

\* --spec, or else the first positional.
SpecOf(c) ==
    (IF c.spec # {} THEN c.spec
     ELSE {c.positionals[i] : i \in {1} \cap DOMAIN c.positionals}) \ {""}

ParseCliArgs(c) ==
    {[spec |-> SpecOf(c), port |-> port, hostname |-> hostname,
      token |-> token, limit |-> limit, fakerSeed |-> fakerSeed,
      hosts |-> ParseAllowedHosts(c.hosts), seed |-> c.seed,
      admin |-> c.admin, watch |-> c.watch, help |-> c.help] :
         port \in ValidatePort(c.port),
         hostname \in ValidateHostname(c.hostname),
         token \in ValidateAdminToken(c.token),
         limit \in ValidateHistoryLimit(c.limit),
         fakerSeed \in {s \in ValidateFakerSeed(c.fakerSeed) :
                           ~c.unknown /\ Len(c.positionals) <= 1}}

-----------------------------------------------------------------------------
(* The seed manifest. *)

\* resolve(): a path without "." and "..".
NormalPath(path) ==
    FoldLeft(LAMBDA at, name : CASE name = "."  -> at
                                 [] name = ".." -> IF at = <<>> THEN at ELSE Front(at)
                                 [] OTHER       -> Append(at, name),
             <<>>, path)

\* Where a path leads when every link in it is followed.
Follow(path) ==
    FoldLeft(LAMBDA at, name : LET next == Append(at, name) IN
                               IF next \in DOMAIN Links THEN Links[next] ELSE next,
             <<>>, path)

\* What is there has real paths, no name of which is a link.
ASSUME FilesAssumption == \A p \in Files : p \in Seq(STRING) /\ Follow(p) = p
\* A line names one manifest at most, its directory by a resolved path, and a
\* file entry is a path.
ASSUME CommandsAssumption ==
    \A c \in Commands : \A m \in c.seed :
        /\ c.seed = {m} /\ NormalPath(m.dir) = m.dir
        /\ \A k \in DOMAIN m.entries :
              m.entries[k].form = "file" => "path" \in DOMAIN m.entries[k]

\* Mutant: what is there is compared as it is spelled.
SpelledPath(path) == {p \in {NormalPath(path)} : Follow(p) \in Files}
\* realpathSync(): it throws when there is nothing.
RealPath(path) == {Follow(NormalPath(path))} \cap Files

Relative(base, real) ==
    LET common == Len(LongestCommonPrefix({base, real})) IN
    [i \in 1 .. Len(base) - common |-> ".."] \o SubSeq(real, common + 1, Len(real))

\* A name that only begins with two dots does not leave the directory.
Escapes(rel) == rel = <<>> \/ Head(rel) = ".."

ResolveSeedEntryPath(entry, base) ==
    {real \in RealPath(IF entry.absolute THEN entry.path ELSE base \o entry.path) :
        ~Escapes(Relative(base, real))}

\* What an entry of the manifest becomes.
SeedSource(entry, base) ==
    CASE entry.form \in {"array", "count"} -> {entry}
      [] entry.form = "file"  ->
            {[entry EXCEPT !.path = real] : real \in ResolveSeedEntryPath(entry, base)}
      [] OTHER -> {}

\* The sources of the manifest, if it is one and each entry of it can be used.
LoadSeedFile(m) ==
    UNION {{sources \in [DOMAIN m.entries -> UNION {SeedSource(m.entries[k], base) :
                                                       k \in DOMAIN m.entries}] :
               /\ m.size <= MaxManifest /\ m.json = "object"
               /\ \A k \in DOMAIN m.entries : sources[k] \in SeedSource(m.entries[k], base)} :
           base \in RealPath(m.dir)}

\* generateSeedItems(): all the nodes of the items are within one budget.
Generated(name, n) == n * Resources[name] <= MaxNodes

\* The items of a source.
ItemsOf(name, source) ==
    CASE source.form = "array" -> {source.length}
      [] source.form = "file"  ->
            {Contents[p].length : p \in {q \in {Follow(source.path)} \cap DOMAIN Contents :
                Contents[q].size <= MaxFile /\ Contents[q].json = "array"}}
      [] source.form = "count" ->
            {n \in Number(source.count) :
                n >= 0 /\ name \in DOMAIN Resources /\ Generated(name, n)}

Total(items) == FoldFunction(LAMBDA n, sum : n + sum, 0, items)

\* Mutant: the total is not kept.
AdmittedEach(items) == \A name \in DOMAIN items : items[name] <= MaxItems
\* The budgets of admit().
AdmittedItems(items) ==
    /\ \A name \in DOMAIN items : items[name] <= MaxItems
    /\ Total(items) <= MaxItemsTotal

LoadSeed(sources) ==
    {items \in [DOMAIN sources -> UNION {ItemsOf(k, sources[k]) : k \in DOMAIN sources}] :
        /\ \A k \in DOMAIN sources : items[k] \in ItemsOf(k, sources[k])
        /\ AdmittedItems(items)}

\* The seed of a mock: none, or where each entry comes from and its items.
Seeds(o) ==
    IF o.seed = {} THEN {[sources |-> <<>>, items |-> <<>>]}
    ELSE UNION {{[sources |-> s, items |-> i] : i \in LoadSeed(s)} :
                   s \in UNION {LoadSeedFile(m) : m \in o.seed}}

-----------------------------------------------------------------------------
(* The start. *)

ProcessInit ==
    /\ Init
    /\ command \in Commands
    /\ stage = "called" /\ options = {} /\ minted = 0
    /\ built = {} /\ enforced = {} /\ banner = {}
    /\ exitCode = 0 /\ repeated = FALSE /\ killed = FALSE

\* Mutant: the token is left to createCliServer().
LeaveAdminToken(o) == options' = {o} /\ UNCHANGED minted
\* resolveAdminToken(): none without --admin, the one given, or a new one.
ResolveAdminToken(o) ==
    /\ minted' = IF o.admin /\ o.token = {} THEN minted + 1 ELSE minted
    /\ \E token \in {IF ~o.admin THEN {} ELSE IF o.token # {} THEN o.token
                     ELSE {Uuids[minted + 1]}} :
          options' = {[o EXCEPT !.token = token]}

\* run() up to createCliServer(); what it throws is caught by bin.ts.
Run ==
    /\ stage = "called"
    /\ \/ /\ ParseCliArgs(command) = {}
          /\ stage' = "ended" /\ exitCode' = 1
          /\ UNCHANGED <<options, minted>>
       \/ \E o \in ParseCliArgs(command) :
             /\ ResolveAdminToken(o)
             /\ stage' = IF o.help \/ o.spec = {} THEN "ended" ELSE "creating"
             /\ exitCode' = IF ~o.help /\ o.spec = {} THEN 1 ELSE 0
    /\ UNCHANGED <<vars, command, built, enforced, banner, repeated, killed>>

\* An option, or what stands for it.
OrElse(option, default) == IF option = {} THEN default ELSE CHOOSE v \in option : TRUE

HistoryLimit(o) == IF o.admin THEN OrElse(o.limit, 500) ELSE 0

\* createCliServer(): the token is settled again, and the first mock is made of
\* the options.
CreateServer ==
    /\ stage = "creating"
    /\ CreateMock
    /\ \E o \in options :
          /\ phase' = "binding" => Parses(file) /\ Seeds(o) # {}
          /\ phase' = "rejected" => ~Parses(file) \/ Seeds(o) = {}
          /\ built' = IF phase' = "rejected" THEN {}
                      ELSE {[history |-> HistoryLimit(o), seed |-> s,
                             hostname |-> OrElse(o.hostname, "127.0.0.1")] : s \in Seeds(o)}
          /\ enforced' = IF o.admin /\ o.token = {} THEN {Uuids[minted + 1]} ELSE o.token
    /\ stage' = IF phase' = "rejected" THEN "ended" ELSE stage
    /\ exitCode' = IF phase' = "rejected" THEN 1 ELSE exitCode
    /\ UNCHANGED <<command, options, minted, banner, repeated, killed>>

\* The server is bound, never to a blank host, with a watcher if one was asked for, and run() prints
\* what it is and attaches the handlers.
Listen ==
    /\ Bind
    /\ \E o \in options :
          /\ phase' = "up" => watching' = o.watch
          /\ phase' = "failing" => o.watch
          /\ o.hostname \cap {"", " "} # {} => phase' = "rejected"
          /\ banner' = IF phase' = "up" /\ o.admin THEN o.token ELSE {}
    /\ stage' = CASE phase' = "up" -> "serving"
                  [] phase' = "rejected" -> "ended"
                  [] OTHER -> stage
    /\ exitCode' = IF phase' = "rejected" THEN 1 ELSE exitCode
    /\ UNCHANGED <<command, options, minted, built, enforced, repeated, killed>>

-----------------------------------------------------------------------------
(* Signals. *)

\* Mutant: the handlers are those of the first signal only.
AttachedOnce == stage = "serving" /\ ~closing
\* The handlers stay attached until close() settles.
Attached == stage = "serving" /\ ~resolved

\* SIGINT or SIGTERM: the first one shuts down, later ones are absorbed, and
\* one that nobody handles ends the process.
Signal ==
    /\ stage # "ended"
    /\ \/ ~Attached /\ killed' = TRUE /\ UNCHANGED <<vars, repeated>>
       \/ Attached /\ Close /\ UNCHANGED <<repeated, killed>>
       \/ /\ Attached /\ closing /\ ~repeated
          /\ repeated' = TRUE
          /\ UNCHANGED <<vars, killed>>
    /\ UNCHANGED <<command, stage, options, minted, built, enforced, banner, exitCode>>

\* close() settles: run() returns, or the start that was given up fails.
Closed ==
    /\ ResolveClose
    /\ stage' = "ended"
    /\ exitCode' = IF phase = "failing" THEN 1 ELSE 0
    /\ UNCHANGED <<command, options, minted, built, enforced, banner, repeated, killed>>

-----------------------------------------------------------------------------

\* The server goes on by itself: the watcher, the requests and the drain.
Serve ==
    /\ stage # "called"
    /\ \/ Write /\ file' <= Saves[command]
       \/ ReloadStep \/ ForceClose \/ BoundedDelay \/ Settle
       \/ \E r \in Requests : Arrive(r) \/ Disconnect(r) \/ End(r)
    /\ UNCHANGED processVars

ProcessNext ==
    /\ ~killed
    /\ Run \/ CreateServer \/ Listen \/ Serve \/ Signal \/ Closed

processAll == <<vars, processVars>>
ProcessSpec == ProcessInit /\ [][ProcessNext]_processAll

OfServer(A) == ~killed /\ A /\ UNCHANGED processVars

\* While there is a process, timers fire, the watcher delivers events, a chained
\* reload gets its turn and the socket calls back.  Nothing is assumed of
\* requests, of signals, nor of a reload that is parsing.
FairProcessSpec ==
    /\ ProcessSpec
    /\ WF_processAll(OfServer(ForceClose)) /\ WF_processAll(OfServer(BoundedDelay))
    /\ WF_processAll(OfServer(Settle)) /\ WF_processAll(~killed /\ Closed)
    /\ WF_processAll(OfServer(Notify)) /\ WF_processAll(OfServer(DebounceFires))
    /\ WF_processAll(OfServer(StartReload))

-----------------------------------------------------------------------------
(* Properties. *)

\* "dropping the last listener any earlier would restore the signal's default
\* disposition and let a second Ctrl-C hard-kill the process mid-drain"
\* (cli.ts 1220-1226): however signals follow each other, a server that was
\* announced is never cut short, and each shutdown comes to its end although
\* requests and a parsing reload hang.
ShutdownIsWhole ==
    /\ [][killed' => banner = {} /\ phase # "up"]_processAll
    /\ closing ~> resolved \/ killed

\* A server runs with what its command says, whatever else the line holds: the
\* socket checks the token that was printed, nothing is kept for an admin
\* surface that is off and never without bound, and each seed entry has its
\* items, within the budgets, and none from a file outside of the manifest's
\* real directory.  A command that is refused says so.
CommandIsHonoured ==
    /\ stage = "serving" => \A o \in options :
          /\ enforced = banner
          /\ command.admin <=> enforced # {}
          /\ command.token # Absent /\ command.admin => enforced = {command.token.text}
          /\ \A b \in built :
                /\ b.history >= 0 /\ (~command.admin => b.history = 0)
                /\ IsBlank(command.hostname) \/ command.hostname = Absent => b.hostname = "127.0.0.1"
    /\ \A b \in built : \A m \in command.seed :
          /\ Total(b.seed.items) <= MaxItemsTotal
          /\ DOMAIN b.seed.items = DOMAIN m.entries
          /\ \A k \in DOMAIN b.seed.sources :
                b.seed.sources[k].form = "file" =>
                    IsStrictPrefix(Follow(m.dir), Follow(b.seed.sources[k].path))
    /\ stage = "ended" /\ exitCode = 0 => resolved \/ command.help
=============================================================================
