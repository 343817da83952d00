---------------------------- MODULE SpecReading ----------------------------
(***************************************************************************)
(* What parseSpec() of packages/openapi/src/parser.ts makes of a document  *)
(* that was loaded: the operations with their parameters, request body,    *)
(* responses, security and callbacks, and the warnings about what it left  *)
(* out.                                                                    *)
(*                                                                         *)
(* Objects of the document are sequences of their entries, in the order of *)
(* the object: keys that are numbers first.  What is there but no object   *)
(* has ok = FALSE; what may be missing is in a set.  A schema is a value,  *)
(* one for each place that has one.                                        *)
(***************************************************************************)
EXTENDS ResponseShapes

CONSTANTS
    Specs,          \* the documents
    JsonSubtypes,   \* the subtypes with "json" in them
    JsonSuffixed,   \* those that end in "+json"
    SchemaOverrides \* documents, and options.schemas: a sequence of keys, each
                    \* with its schema

VARIABLES
    spec,           \* version, consumes, produces, schemes, security, items
    parsed,         \* what it is read as, in a set
    overriding,     \* options.schemas
    patched         \* the operations with them, in a set

readVars == <<spec, parsed, overriding, patched>>

IsSwagger2 == spec.version = 2

\* A Map: a key that is set again keeps its place.
Put(map, entry) ==
    LET i == SelectInSeq(map, LAMBDA e : e.key = entry.key)
    IN  IF i = 0 THEN Append(map, entry) ELSE [map EXCEPT ![i] = entry]
MapOf(entries) == FoldLeft(Put, <<>>, entries)
Pair(key, value) == [key |-> key, value |-> value]

OkOnes(list) == SelectSeq(list, LAMBDA e : e.ok)

-----------------------------------------------------------------------------
(* Parameters: [ok, in, name, required, schema]. *)

Locations == {"path", "query", "header"} \cup IF IsSwagger2 THEN {"body"} ELSE {}
IsParameter(p) == p.ok /\ p.in \in Locations /\ p.name # ""
ExtractParameters(params) == SelectSeq(params, IsParameter)

ByIdentity(params) == [i \in DOMAIN params |-> Pair(<<params[i].in, params[i].name>>, params[i])]

\* Mutant: the path level wins.
MergePathLast(pathLevel, operationLevel) ==
    MapOf(ByIdentity(ExtractParameters(operationLevel) \o ExtractParameters(pathLevel)))
\* mergeParameters()
Merge(pathLevel, operationLevel) ==
    MapOf(ByIdentity(ExtractParameters(pathLevel) \o ExtractParameters(operationLevel)))

BodyParams(merged) == SelectSeq(merged, LAMBDA e : e.value.in = "body")
NotBodyParams(merged) == SelectSeq(merged, LAMBDA e : e.value.in # "body")

-----------------------------------------------------------------------------
(* Content: a sequence of [media, ok, schema, examples]. *)

\* normalizeMediaType()
Essence(media) == [media EXCEPT !.params = {}]

\* findJsonContent(), in a set: application/json, else any JSON, else the first.
FindJsonContent(content) ==
    LET At(Is(_)) == {i \in DOMAIN content : content[i].ok /\ Is(content[i].media)}
        json == At(LAMBDA m : m = Json)
        like == At(LAMBDA m : m.subtype \in JsonSubtypes)
        any  == At(LAMBDA m : TRUE)
        found == IF json # {} THEN json ELSE IF like # {} THEN like ELSE any
    IN  {content[Min(found)] : i \in found}

SchemaIn(entry) == IF entry.ok THEN entry.schema ELSE {}

\* Mutant: by the type as it is written.
ContentAsWritten(content) ==
    MapOf([i \in DOMAIN content |-> Pair(content[i].media, SchemaIn(content[i]))])
\* extractOpenApi3RequestContent()
Content3(content) ==
    MapOf([i \in DOMAIN content |-> Pair(Essence(content[i].media), SchemaIn(content[i]))])

\* buildSwagger2RequestContent()
Content2(consumes, schema) ==
    MapOf([i \in DOMAIN consumes |-> Pair(Essence(consumes[i]), schema)])

OrElse(own, other) == IF own # <<>> THEN own ELSE other

RequestOf(o, merged) ==
    IF IsSwagger2
    THEN LET bodies == BodyParams(merged)
             schema == IF bodies = <<>> THEN {} ELSE bodies[1].value.schema
         IN  [schema |-> schema,
              required |-> bodies # <<>> /\ bodies[1].value.required,
              content |-> Content2(OrElse(o.consumes, spec.consumes), schema)]
    ELSE [schema |-> UNION {e.schema : e \in UNION {FindJsonContent(b.content) : b \in o.body}},
          required |-> \E b \in o.body : b.required,
          content |-> Content3(FlattenSeq(SetToSeq({b.content : b \in o.body})))]

-----------------------------------------------------------------------------
(* Responses: [key, ok, schema, content, examples], the key as it is written *)
(* ([code, text], the code 0 for "default", 1000 * N for NXX and negative    *)
(* for one that parseResponseStatusKey() does not know).                     *)

Recognized(responses) == SelectSeq(responses, LAMBDA r : r.ok /\ r.key.code >= 0)

ResponseOf(r, produces) ==
    IF IsSwagger2
    THEN [schema |-> r.schema, examples |-> r.examples,
          types |-> [i \in DOMAIN produces |-> Essence(produces[i])], content |-> <<>>]
    ELSE LET json == UNION {FindJsonContent(c) : c \in r.content}
             all == FlattenSeq(SetToSeq(r.content))
             given == OkOnes(all)
         IN  [schema |-> UNION {e.schema : e \in json},
              examples |-> UNION {e.examples : e \in json},
              types |-> [i \in DOMAIN all |-> all[i].media],
              content |-> MapOf([i \in DOMAIN given |-> Pair(given[i].media, given[i].schema)])]

\* Mutant: a key is the text it is written as.
ResponsesAsWritten(o) ==
    LET known == Recognized(o.responses)
    IN  [i \in DOMAIN known |->
            Pair(known[i].key.code, ResponseOf(known[i], OrElse(o.produces, spec.produces)))]
\* extractResponses()
ResponsesOf(o) ==
    LET known == Recognized(o.responses)
    IN  MapOf([i \in DOMAIN known |->
            Pair(known[i].key.code, ResponseOf(known[i], OrElse(o.produces, spec.produces)))])

-----------------------------------------------------------------------------
(* Security and callbacks. *)

\* extractSecurityRequirements(), in a set: alternatives of scheme names.
Requirements(security) ==
    LET kept == OkOnes(security.entries) IN
    IF ~security.given \/ (kept = <<>> /\ security.entries # <<>>) THEN {}
    ELSE {[i \in DOMAIN kept |-> kept[i].names]}

SchemeTypes == {"apiKey", "http", "oauth2", "openIdConnect"}

\* toSecurityScheme(), in a set; basic is http to Swagger 2.
SchemeOf(def) ==
    IF ~def.ok THEN {}
    ELSE IF IsSwagger2 /\ def.type = "basic" THEN {[type |-> "http", in |-> {}]}
    ELSE IF def.type \notin SchemeTypes THEN {}
    ELSE {[type |-> def.type,
           in |-> IF def.type = "apiKey" THEN def.in \cap {"header", "query", "cookie"} ELSE {}]}

Schemes ==
    LET known == SelectSeq(spec.schemes, LAMBDA d : SchemeOf(d) # {})
    IN  [i \in DOMAIN known |->
            Pair(known[i].name, CHOOSE scheme \in SchemeOf(known[i]) : TRUE)]

Methods == {"get", "post", "put", "delete", "patch", "head", "options"}
NotOperations == {"parameters", "summary", "description", "servers", "$ref", "trace", "x-"}

\* extractCallbacks(): expressions with operations by method.
CallbacksOf(o) ==
    LET Calls(expression) ==
            LET calls == SelectSeq(expression.keys, LAMBDA k : k.ok /\ k.method \in Methods)
            IN  [i \in DOMAIN calls |->
                    [url |-> expression.url, method |-> calls[i].method,
                     schema |-> UNION {e.schema : e \in UNION {FindJsonContent(b.content) :
                                                                  b \in calls[i].body}}]]
        expressions == OkOnes(FlattenSeq([i \in DOMAIN o.callbacks |-> o.callbacks[i].expressions]))
    IN  IF IsSwagger2 THEN <<>>
        ELSE FlattenSeq([i \in DOMAIN expressions |-> Calls(expressions[i])])

-----------------------------------------------------------------------------
(* The paths: [template, ok, params, keys], a key being [method, ok,         *)
(* operation].                                                               *)

IsOperation(k) == k.method \in Methods /\ k.ok

OperationOf(item, k) ==
    LET o == k.operation
        merged == Merge(item.params, o.params)
    IN  [path |-> item.template, method |-> k.method,
         params |-> NotBodyParams(merged), request |-> RequestOf(o, merged),
         responses |-> ResponsesOf(o), security |-> Requirements(o.security),
         callbacks |-> CallbacksOf(o)]

OperationsOf ==
    LET OfItem(item) ==
            LET found == SelectSeq(item.keys, IsOperation)
            IN  [i \in DOMAIN found |-> OperationOf(item, found[i])]
        items == OkOnes(spec.items)
    IN  FlattenSeq([i \in DOMAIN items |-> OfItem(items[i])])

Warning(what, at) == [what |-> what, at |-> at]

\* Parameters that are objects are skipped for their location, else their name.
ParamWarnings(params, at) ==
    {Warning(IF p.in \notin Locations THEN "location" ELSE "nameless", at) :
        p \in {q \in ToSet(params) : q.ok /\ ~IsParameter(q)}}

KeyWarnings(item, k) ==
    LET at == <<item.template, k.method>>
        o == k.operation IN
    IF k.method \notin Methods
    THEN IF k.method \in NotOperations THEN {} ELSE {Warning("not a method", at)}
    ELSE IF ~k.ok THEN {Warning("operation", at)}
    ELSE ParamWarnings(o.params, at)
         \cup {Warning("response", <<item.template, k.method, r.key>>) :
                  r \in ToSet(o.responses) \ ToSet(Recognized(o.responses))}

Warnings ==
    UNION {IF item.ok THEN ParamWarnings(item.params, <<item.template>>)
                           \cup UNION {KeyWarnings(item, k) : k \in ToSet(item.keys)}
                      ELSE {Warning("path", <<item.template>>)} : item \in ToSet(spec.items)}

DocumentFrom(loaded, keys) == spec = loaded /\ parsed = {} /\ overriding = keys /\ patched = {}
DocumentInit ==
    \/ \E loaded \in Specs : DocumentFrom(loaded, <<>>)
    \/ \E given \in SchemaOverrides : DocumentFrom(given.spec, given.keys)

ParseSpec ==
    /\ parsed = {}
    /\ parsed' = {[operations |-> OperationsOf, schemes |-> Schemes,
                   security |-> Requirements(spec.security), warnings |-> Warnings]}
    /\ UNCHANGED <<spec, overriding, patched>>

-----------------------------------------------------------------------------
(* options.schemas.  A key that is written as one has a method, the path as  *)
(* convertPathTemplate() makes it, and a status or none, in a set.           *)

IsAbout(k, o) == k.ok /\ k.method = o.method /\ k.path = o.path
IsInvalidKey(k, operations) == ~\E o \in ToSet(operations) : IsAbout(k, o)

IsSuccess(code) == code \in 200 .. 299 \cup {2000}

IsJsonMediaType(m) ==
    m.subtype \in JsonSuffixed \/ [m EXCEPT !.params = {}] \in {Json, Media("*", "*", {})}

\* Mutant: whatever the type is.
ReplaceEveryContent(r, schema) ==
    [r EXCEPT !.schema = {schema},
              !.content = [i \in DOMAIN r.content |-> Pair(r.content[i].key, {schema})]]

ReplaceResponseSchema(r, schema) ==
    LET json == {i \in DOMAIN r.content : IsJsonMediaType(r.content[i].key)}
        replaced == IF json = {} /\ Len(r.content) = 1 THEN {1} ELSE json
    IN  [r EXCEPT !.schema = {schema},
                  !.content = [i \in DOMAIN r.content |->
                                  IF i \in replaced THEN Pair(r.content[i].key, {schema})
                                                    ELSE r.content[i]]]

\* Mutant: the response that governs the status.
EntryGoverning(responses, k) ==
    IF k.status = {} THEN SelectInSeq(responses, LAMBDA e : IsSuccess(e.key))
    ELSE FindResponseEntry(responses, CHOOSE status \in k.status : TRUE)

\* The response that a key is about, 0 if the document does not have it.
PatchedEntry(responses, k) ==
    SelectInSeq(responses, LAMBDA e : IF k.status = {} THEN IsSuccess(e.key) ELSE e.key \in k.status)

Patched(responses, k) ==
    LET i == PatchedEntry(responses, k)
        code == CHOOSE c \in (IF k.status = {} THEN {200} ELSE k.status) : TRUE
        made == [schema |-> {k.schema}, examples |-> {}, types |-> <<>>, content |-> <<>>]
    IN  IF i = 0 THEN Append(responses, Pair(code, made))
        ELSE [responses EXCEPT ![i].value = ReplaceResponseSchema(responses[i].value, k.schema)]

\* openapi() throws for a key before it applies any.
ApplySchemaOverrides ==
    /\ patched = {}
    /\ \E result \in parsed :
          LET Apply(operations, k) ==
                  [i \in DOMAIN operations |->
                      IF IsAbout(k, operations[i])
                      THEN [operations[i] EXCEPT !.responses = Patched(operations[i].responses, k)]
                      ELSE operations[i]]
              refused == \E k \in ToSet(overriding) : IsInvalidKey(k, result.operations)
          IN  patched' = {[refused |-> refused,
                           operations |-> IF refused THEN <<>>
                                          ELSE FoldLeft(Apply, result.operations, overriding)]}
    /\ UNCHANGED <<spec, parsed, overriding>>

ReadNext == ParseSpec \/ ApplySchemaOverrides
DocumentSpec == DocumentInit /\ [][ReadNext]_readVars
-----------------------------------------------------------------------------
(* Properties. *)

Latest(list, Is(_)) ==
    LET at == {i \in DOMAIN list : Is(list[i])}
    IN  {list[Max(at)] : i \in at}

\* A parameter of the operation replaces one of its path.  The body is one of
\* them to Swagger 2, whatever it is called.
ParametersAreRead(item, k, result) ==
    LET Said(params, in, name) ==
            Latest(params, LAMBDA p : p.ok /\ p.in = in /\ p.name = name)
        given == {p \in ToSet(item.params \o k.operation.params) : IsParameter(p) /\ p.in # "body"}
        IsRead(p, e) ==
            LET own == Said(k.operation.params, p.in, p.name)
            IN  e.value \in IF own # {} THEN own ELSE Said(item.params, p.in, p.name)
    IN  /\ Len(result.params) = Cardinality({<<p.in, p.name>> : p \in given})
        /\ \A p \in given : \E e \in ToSet(result.params) :
              e.key = <<p.in, p.name>> /\ IsRead(p, e)

\* A body that is sent as one of the types of the document is judged by the
\* schema that the document has for it.
BodyIsRead(k, result) ==
    LET content == FlattenSeq(SetToSeq({b.content : b \in k.operation.body})) IN
    IF IsSwagger2
    THEN \A media \in ToSet(OrElse(k.operation.consumes, spec.consumes)) :
            \E e \in ToSet(result.request.content) :
               e = Pair(Essence(media), result.request.schema)
    ELSE \A c \in ToSet(content) :
            {e \in ToSet(result.request.content) : e.key = Essence(c.media)}
            = {Pair(Essence(c.media), SchemaIn(e)) :
                  e \in Latest(content, LAMBDA d : Essence(d.media) = Essence(c.media))}

\* A status finds the response that the document has for it: its own, that of
\* its range, the default.
ResponsesAreRead(k, result) ==
    LET raw == k.operation.responses
        produces == OrElse(k.operation.produces, spec.produces)
        Of(code) == Latest(raw, LAMBDA r : r.ok /\ r.key.code = code)
        Governing(status) ==
            IF Of(status) # {} THEN Of(status)
            ELSE IF Of(1000 * (status \div 100)) # {} THEN Of(1000 * (status \div 100))
            ELSE Of(0)
        Found(status) == {result.responses[i].value :
                             i \in {FindResponseEntry(result.responses, status)} \ {0}}
        codes == {r.key.code : r \in ToSet(raw)} \ {-1}
    IN  /\ \A status \in {200, 299, 404} : Found(status) = {ResponseOf(r, produces) : r \in Governing(status)}
        /\ {e.key : e \in ToSet(result.responses)} \subseteq codes

\* What the document says is what the plugin works with: "operation wins", "a
\* media type declared without a schema maps to undefined: accepted, but not
\* validated", and of two keys that mean the same the later one counts.  What is
\* not read is warned about ("one line each", parser.ts 36-42): each path,
\* operation and response that is left out, and each parameter that is an object.
DocumentIsRead ==
    \A result \in parsed :
        LET ReadOf(item, k) ==
                {o \in ToSet(result.operations) : o.path = item.template /\ o.method = k.method}
            Warned(at) == \E w \in result.warnings : w.at = at
            KeyIsRead(item, k) ==
                \A o \in ReadOf(item, k) :
                    /\ ParametersAreRead(item, k, o)
                    /\ BodyIsRead(k, o) /\ ResponsesAreRead(k, o)
                    /\ \A r \in ToSet(k.operation.responses) :
                          \/ \E e \in ToSet(o.responses) : e.key = r.key.code
                          \/ Warned(<<item.template, k.method, r.key>>)
                    /\ \A p \in ToSet(k.operation.params) :
                          p.ok /\ ~IsParameter(p) => Warned(<<item.template, k.method>>)
        IN  \A item \in ToSet(spec.items) :
               IF ~item.ok THEN Warned(<<item.template>>)
               ELSE \A k \in ToSet(item.keys) :
                       IF ReadOf(item, k) = {}
                       THEN Warned(<<item.template, k.method>>) \/ k.method \in NotOperations
                       ELSE Cardinality(ReadOf(item, k)) = 1 /\ KeyIsRead(item, k)

\* A key of options.schemas means the response of its status, or without one
\* "the first 2xx response. If no 2xx response exists, a 200 entry is created"
\* (docs/openapi.md 644-676), of the document, whatever other keys there are.
\* The latest key that means a response gives its schema, to every JSON type of
\* it; "only the JSON branch is rewritten", but of one type that is no other;
\* the responses that no key means are those of the document, and "a bad one
\* throws".  Left out: an operation without a 2xx response with keys for one
\* and a key without a status.
OverridesAreApplied ==
    \A result \in parsed, outcome \in patched :
        LET Success(o) == SelectInSeq(o.responses, LAMBDA e : IsSuccess(e.key))
            Meant(k, o) == IF k.status # {} THEN k.status
                           ELSE {IF Success(o) = 0 THEN 200 ELSE o.responses[Success(o)].key}
            KeysOf(o) == SelectSeq(overriding, LAMBDA k : IsAbout(k, o))
            IsUnclear(o) ==
                /\ Success(o) = 0
                /\ \E k, l \in ToSet(KeysOf(o)) : k.status = {} /\ \E n \in l.status : IsSuccess(n)
            Served(r) == [media \in {c.key : c \in ToSet(r.content)} |->
                             UNION {c.value : c \in {d \in ToSet(r.content) : d.key = media}}]
            IsPatched(was, is, schema) ==
                /\ is.schema = {schema} /\ is.types = was.types /\ DOMAIN Served(is) = DOMAIN Served(was)
                /\ \A media \in DOMAIN Served(was) :
                      Served(is)[media] =
                          IF media = Media("*", "*", {}) \/ media.subtype \in {"json"} \cup JsonSuffixed \/ Cardinality(DOMAIN Served(was)) = 1
                          THEN {schema} ELSE Served(was)[media]
            Applied(was, is) ==
                /\ {e.key : e \in ToSet(is.responses)} =
                   {e.key : e \in ToSet(was.responses)} \cup UNION {Meant(k, was) : k \in ToSet(KeysOf(was))}
                /\ \A e \in ToSet(is.responses) :
                      LET key == Latest(KeysOf(was), LAMBDA k : Meant(k, was) = {e.key})
                          old == {d.value : d \in {d \in ToSet(was.responses) : d.key = e.key}}
                      IN  IF key = {} THEN old = {e.value}
                          ELSE \A k \in key : IF old = {} THEN e.value.schema = {k.schema}
                                              ELSE \A r \in old : IsPatched(r, e.value, k.schema)
        IN  /\ outcome.refused = \E k \in ToSet(overriding) : \A o \in ToSet(result.operations) : ~IsAbout(k, o)
            /\ ~outcome.refused =>
                  \A i \in DOMAIN result.operations :
                      \/ IsUnclear(result.operations[i])
                      \/ Applied(result.operations[i], outcome.operations[i])
=============================================================================
