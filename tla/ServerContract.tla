--------------------------- MODULE ServerContract ---------------------------
(***************************************************************************)
(* What listen() and close() of a mock promise their caller (docs/api.md   *)
(* 195-199, the interface in packages/core/src/builder.ts 756-797 and      *)
(* 970-978), with no word of node:http: a start is reserved at once, at    *)
(* most one server is starting or up, close() cancels the one and takes    *)
(* down the other, and each promise settles once.                          *)
(***************************************************************************)
EXTENDS Naturals

CONSTANT Starts      \* the calls of listen() that do not throw

None == "none"

Promises == {"unused", "pending", "resolved", "rejected"}

VARIABLES
    starting,        \* the start that is reserved, or None
    up,              \* the start whose server is up, or None
    promise          \* what each call of listen() returned

vars == <<starting, up, promise>>

Init ==
    /\ starting = None /\ up = None
    /\ promise = [o \in Starts |-> "unused"]

Free == starting = None /\ up = None

\* A start is reserved; a second one would throw SERVER_ALREADY_RUNNING.
Reserve(o) ==
    /\ Free
    /\ promise[o] = "unused"
    /\ starting' = o
    /\ promise' = [promise EXCEPT ![o] = "pending"]
    /\ UNCHANGED up

Succeed(o) ==
    /\ starting = o
    /\ starting' = None
    /\ up' = o
    /\ promise' = [promise EXCEPT ![o] = "resolved"]

\* The start failed, or close() cancelled it.
Fail(o) ==
    /\ starting = o
    /\ starting' = None
    /\ promise' = [promise EXCEPT ![o] = "rejected"]
    /\ UNCHANGED up

TakeDown ==
    /\ up # None
    /\ up' = None
    /\ UNCHANGED <<starting, promise>>

Next ==
    \/ \E o \in Starts : Reserve(o) \/ Succeed(o) \/ Fail(o)
    \/ TakeDown

\* A reserved start succeeds or fails.
Spec ==
    /\ Init /\ [][Next]_vars
    /\ \A o \in Starts : WF_vars(Succeed(o) \/ Fail(o))

\* The safety part alone.
SafeSpec == Init /\ [][Next]_vars

=============================================================================
