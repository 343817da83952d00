------------------------------ MODULE SpecPath ------------------------------
(***************************************************************************)
(* The OpenAPI plugin from the file to the response.  install() loads the  *)
(* document with all that it refers to (SpecRefs), parseSpec() normalises  *)
(* its schemas (SchemaReading) and reads its operations (SpecReading); the *)
(* routes are registered and requests are served (OpenApiPath); a static   *)
(* route has its response generated, once the schema is accepted           *)
(* (SchemaChecks), from what the faker plugin hands to json-schema-faker   *)
(* (FakerSchemas) and makes of the outcome (FakerValues).                  *)
(*                                                                         *)
(* A scenario is about one of these parts, and ends with it; the scenario  *)
(* of the whole path goes through all of them.                             *)
(***************************************************************************)
EXTENDS OpenApiPath, SpecRefs, SchemaReading, SpecReading, SchemaChecks, FakerSchemas,
        FakerValues

CONSTANTS
    \* what each part has where it does not matter
    PlainPolicy, PlainNodes, PlainSpec, PlainNamed, PlainOwn, LongOwn, PlainFields, PlainOptions, PlainOp, PlainRequest

VARIABLES
    phase,     \* the part whose turn it is, or "ended"
    whole      \* whether the scenario is of the whole path

loading == <<refVars, schemaReading, readVars>>
making == <<checkVars, fakerVars, valueVars>>

QuietRefs == RefsFrom(PlainPolicy, {})
QuietReading == ReadingFrom(PlainNodes, "response")
QuietDocument == DocumentFrom(PlainSpec, <<>>)
QuietRequests ==
    /\ op = PlainOp /\ req = PlainRequest /\ pipe = <<"openapi">> /\ judges = TRUE
    /\ Untouched /\ LoadFrom(Probe) /\ SchemaFrom(PlainGraph, {})
QuietChecks == CheckFrom(PlainNamed, PlainOwn)
QuietFields == FakerFrom(PlainFields)
QuietValues == ValueFrom(PlainOptions, <<>>)

ChecksInit ==
    \/ \E g \in NamedGraphs : CheckFrom(g, PlainOwn)
    \/ \E s \in Keywords : CheckFrom(PlainNamed, s)

SpecPathInit ==
    \/ /\ phase = "requests" /\ whole = FALSE /\ PathInit
       /\ QuietRefs /\ QuietReading /\ QuietDocument /\ QuietChecks /\ QuietFields /\ QuietValues
    \/ /\ phase = "refs" /\ whole = FALSE /\ RefsInit
       /\ QuietReading /\ QuietDocument /\ QuietRequests /\ QuietChecks /\ QuietFields /\ QuietValues
    \/ /\ phase = "schemas" /\ whole = FALSE /\ QuietRequests /\ ReadingInit
       /\ QuietRefs /\ QuietDocument /\ QuietChecks /\ QuietFields /\ QuietValues
    \/ /\ phase = "document" /\ whole = FALSE /\ QuietRequests /\ DocumentInit
       /\ QuietRefs /\ QuietReading /\ QuietChecks /\ QuietFields /\ QuietValues
    \/ /\ phase = "fields" /\ whole = FALSE /\ QuietRequests /\ FakerInit
       /\ QuietRefs /\ QuietReading /\ QuietDocument /\ QuietChecks /\ QuietValues
    \/ /\ phase = "values" /\ whole = FALSE /\ QuietRequests /\ ValueInit
       /\ QuietRefs /\ QuietReading /\ QuietDocument /\ QuietChecks /\ QuietFields
    \/ /\ phase = "checks" /\ whole = FALSE /\ QuietRequests /\ ChecksInit
       /\ QuietRefs /\ QuietReading /\ QuietDocument /\ QuietFields /\ QuietValues
    \/ /\ phase = "refs" /\ whole = TRUE /\ QuietRequests
       /\ \E s \in {PlainOwn, LongOwn} : CheckFrom(PlainNamed, s)
       /\ QuietRefs /\ QuietReading /\ QuietDocument /\ QuietFields /\ QuietValues

After(next) == phase' = IF whole THEN next ELSE "ended"

\* loadDocument(): a document that is not loaded is not parsed.
LoadDocument ==
    /\ phase = "refs" /\ RefsNext
    /\ IF load' = "loaded" THEN After("schemas") ELSE UNCHANGED phase
    /\ UNCHANGED <<schemaReading, readVars, all, making, whole>>

NormalizeDocument ==
    /\ phase = "schemas" /\ ReadSchema /\ After("document")
    /\ UNCHANGED <<refVars, readVars, all, making, whole>>

ReadDocument ==
    /\ phase = "document" /\ ReadNext
    /\ IF patched' = {} THEN UNCHANGED phase ELSE After("requests")
    /\ UNCHANGED <<refVars, schemaReading, all, making, whole>>

\* The names of a schema come before its walk, and what it says of itself is
\* judged on it.
IsValidating == whole /\ AtStaticGenerator /\ ~IsChecked
IsRefused == whole /\ AtStaticGenerator /\ IsChecked /\ fate # "good"
IsGenerating == whole /\ AtStaticGenerator /\ fate = "good" /\ verdict = "accepted"
HasOutcome(outcome) == \E a \in answer : a.outcome = outcome

\* Routes and requests; a generator waits for the faker plugin.
ServeRequests ==
    /\ phase = "requests" /\ ~IsValidating /\ ~IsRefused
    /\ IsGenerating => HasOutcome("value")
    /\ PathNext
    /\ IsGenerating => pc' # "done"
    /\ UNCHANGED <<loading, making, whole>>
    /\ phase' = IF IsGenerating' /\ answer = {} THEN "fields" ELSE phase

ValidateSchema ==
    /\ phase = "checks" \/ (phase = "requests" /\ IsValidating)
    /\ CheckNext
    /\ phase' = IF phase = "checks" /\ IsChecked' THEN "ended" ELSE phase
    /\ UNCHANGED <<loading, all, fakerVars, valueVars, whole>>

\* A schema that is refused, or a generation that fails, makes the generator
\* throw.
GenerationThrows ==
    /\ phase = "requests"
    /\ IsRefused \/ (IsGenerating /\ HasOutcome("error"))
    /\ Throws
    /\ UNCHANGED <<phase, whole, loading, making, surface, schemaVars>>

EnhanceSchema ==
    /\ phase = "fields" /\ FakerNext
    /\ IF handed' # {} THEN After("values") ELSE UNCHANGED phase
    /\ UNCHANGED <<loading, all, checkVars, valueVars, whole>>

\* The generator has no response yet.
MakeValue ==
    /\ phase = "values" /\ ValueNext
    /\ whole => \A a \in answer' : a.outcome # "passed"
    /\ IF step' = "done" THEN After("requests") ELSE UNCHANGED phase
    /\ UNCHANGED <<loading, all, checkVars, fakerVars, whole>>

SpecPathNext ==
    \/ LoadDocument \/ NormalizeDocument \/ ReadDocument
    \/ ServeRequests \/ ValidateSchema \/ GenerationThrows \/ EnhanceSchema \/ MakeValue

SpecPathSpec ==
    SpecPathInit /\ [][SpecPathNext]_<<loading, all, making, phase, whole>>
-----------------------------------------------------------------------------
(* Properties. *)

\* The plugin works with what the document says: of other documents it reads
\* what its policy permits and nothing else; each schema is normalised in
\* full for its direction, with the discriminator values of its mapping,
\* however its documents share it; and each operation has the parameters, the
\* body and the responses that the document gives it, or is warned about, with
\* the schemas that the user gave for them instead.
SpecIsRead == OnlyPermittedIsRead /\ SchemaIsRead /\ DocumentIsRead /\ OverridesAreApplied

\* A schema is refused for what it is, and only for that: the limits are
\* compared with the tree that it unfolds to, its references are those it
\* means, and one that passes makes nothing larger than the limits.
SchemaIsJudged == VerdictIsExact /\ NamesAreResolved /\ SizesAreBounded
=============================================================================
