---------------------------- MODULE OpenApiPath ----------------------------
(***************************************************************************)
(* The OpenAPI plugin from the document to the response.  install()        *)
(* registers the routes of the document (ApiSurface); a request finds one  *)
(* of them, and what it was detected to be decides which generator and     *)
(* which checks the request meets (RequestPath); the generator of a static *)
(* route has the schema validated before it generates from it              *)
(* (SchemaGraph; packages/faker/src/index.ts).                             *)
(***************************************************************************)
EXTENDS RequestPath, ApiSurface, SchemaGraph

CONSTANTS
    Unrouted,     \* the kind of an operation that is still to be found
    Probe,        \* the document where documents do not matter
    PlainGraph    \* the schema where schemas do not matter

ASSUME PlainGraphAssumption == PlainGraph \in Graphs /\ PlainGraph[1].edges = <<>>
ASSUME ProbeAssumption == IsSurface(Probe)

all == <<vars, surface, schemaVars>>

\* What does not matter to the requests of a scenario is settled.
PathInit ==
    /\ Init
    /\ \/ op.kind = Unrouted /\ LoadInit /\ SchemaFrom(PlainGraph, {})
       \/ op.kind = Unrouted /\ LoadFrom(Probe) /\ SchemaInit
       \/ /\ op.kind # Unrouted
          /\ document = <<>> /\ stage = "found" /\ routes = {}
          /\ asked = {} /\ found = {}
          /\ graph = PlainGraph /\ count = {}
          /\ stack = <<>> /\ active = {} /\ completed = {1} /\ visited = 1
          /\ circular = FALSE /\ postOrder = <<1>>
          /\ current = [schema |-> 1, typed |-> TRUE] /\ left = 0
          /\ verdict = "accepted"

\* A route is found, or core answers 404.
Route ==
    /\ Match
    /\ \/ /\ \E f \in found' : op' = [op EXCEPT !.kind = f.kind]
          /\ UNCHANGED <<pc, delivered>>
       \/ /\ found' = {} /\ UNCHANGED op
          /\ pc' = "done" /\ delivered' = {Normalized(Parse(Tuple(404, Error)), req.head)}
    /\ UNCHANGED <<req, pipe, judges, at, response, refused, rejection, writes, record>>

\* The turn of createStaticGenerator(), which calls generateFromSchema().
AtStaticGenerator ==
    stage = "found" /\ pc = "guard" /\ at > Len(pipe) /\ op.kind = "static"

Validate == AtStaticGenerator /\ SchemaNext

\* A schema that is refused makes the generator throw.
Answer500 == AtStaticGenerator /\ verdict \notin {"walking", "accepted"} /\ Throws

Step ==
    /\ stage = "found"
    /\ AtStaticGenerator => verdict = "accepted"
    /\ Next

PathNext ==
    \/ (Install \/ Ask) /\ UNCHANGED <<vars, schemaVars>>
    \/ Route /\ UNCHANGED schemaVars
    \/ Validate /\ UNCHANGED <<vars, surface>>
    \/ (Answer500 \/ Step) /\ UNCHANGED <<surface, schemaVars>>

PathSpec == PathInit /\ [][PathNext]_all
=============================================================================
