------------------------ MODULE FetchInterceptorProofs ------------------------
(***************************************************************************)
(* What the global fetch interceptor promises, for all leases, mocks,      *)
(* wrappers and requests, whether user code takes the leases or the React  *)
(* and Vue adapters do.                                                    *)
(*                                                                         *)
(* A function that fetch was once keeps what it calls: sessions keep their *)
(* baseline and wrappers what they replaced.  So what a request has before *)
(* it only loses leases by restore(), and what every new request passes    *)
(* through is changed by the top of the pile alone.                        *)
(***************************************************************************)
EXTENDS LeaseAdapters, SequenceTheorems, WellFoundedInduction, TLAPS

Phases == {"idle", "call", "filtered", "admitted", "handling", "passed", "answered"} \cup Final

Records ==
    [phase : Phases, at : Fetches, todo : Seq(Leases), consultedOwners : SUBSET Mocks,
     lease : SUBSET Leases, read : Options, supported : BOOLEAN, held : BOOLEAN,
     aborted : BOOLEAN]

TypeInv ==
    /\ fetch \in Fetches
    /\ sessions \in Seq([baseline : Fetches, interceptors : Seq(Leases)])
    /\ activeSession \in 0 .. Len(sessions)
    /\ heldBy \in [Leases -> 0 .. Len(sessions)]
    /\ options \in [Leases -> Options]
    /\ restored \subseteq Leases
    /\ inner \in [Wrappers -> SUBSET Fetches]
    /\ \A w \in Wrappers : inner[w] = {} \/ \E f \in Fetches : inner[w] = {f}
    /\ req \in [Requests -> Records]
    /\ consults \in [Requests -> Seq([lease : Leases, read : Options])]
    /\ filtered \in [Requests -> SUBSET Leases]
    /\ atCall \in [Requests -> [held : SUBSET Leases, restored : SUBSET Leases]]

InList(l, list) == \E i \in DOMAIN list : list[i] = l
Precedes(a, b, list) == \E i, j \in DOMAIN list : i < j /\ list[i] = a /\ list[j] = b

\* A session lists the leases it holds, each of them once.
ListInv ==
    /\ \A s \in 1 .. Len(sessions) :
          /\ IsInjective(sessions[s].interceptors)
          /\ \A l \in Leases : InList(l, sessions[s].interceptors) <=>
                                  heldBy[l] = s /\ l \notin restored
    /\ \A l \in restored : heldBy[l] # 0

OnWay(f, l) == \A way \in Ways(f) : Dispatch(heldBy[l]) \in way

\* New requests pass through the dispatchers of all leases that are held.
WayInv == \A l \in Held : OnWay(fetch, l)

\* Of a request: what it keeps, the leases that admitted and that filtered it,
\* and the leases that there were when it was made.
Consulted(c, owner) == \E i \in DOMAIN c : OwnerOf[c[i].lease] = owner
Met(c, f, l) == l \in f \/ Consulted(c, OwnerOf[l])
Due(a) == Held \cap a.held
Turn == {"filtered", "admitted", "handling", "passed", "answered"}

\* What a request did not meet yet is before it: in what is left of the session
\* whose turn it is, or further down.
MeetInv(q, c, f, a) ==
    /\ q.phase \in Turn => \E s \in 1 .. Len(sessions) : q.at = Dispatch(s)
    /\ \A l \in Due(a) :
          /\ q.phase = "call" => Met(c, f, l) \/ OnWay(q.at, l)
          /\ q.phase \in Turn => \/ Met(c, f, l) \/ InList(l, q.todo)
                                 \/ OnWay(sessions[q.at.session].baseline, l)
          /\ q.phase = "real" => Met(c, f, l)

\* The mocks that had their turn did; a strict lease is asked last.
ConsultInv(q, c) ==
    /\ q.phase = "idle" => c = <<>> /\ q.todo = <<>>
    /\ q.phase \in Turn => \A owner \in q.consultedOwners : Consulted(c, owner)
    /\ q.phase \in Turn \ {"filtered"} => \A l \in q.lease : Consulted(c, OwnerOf[l])
    /\ \A i \in DOMAIN c : c[i].read = "strict" =>
          \/ q.phase \in {"answered", "mocked", "failed"}
          \/ q.phase \in {"admitted", "handling"} /\ q.read = "strict"

\* A lease that was restored before the request was made is nowhere before it.
SilentInv(q, c, a) ==
    /\ a.restored \subseteq restored
    /\ \A l \in a.held : heldBy[l] # 0
    /\ \A i \in DOMAIN c : c[i].lease \notin a.restored
    /\ \A i \in DOMAIN q.todo : q.todo[i] \notin a.restored

Good(q, c, f, a) == MeetInv(q, c, f, a) /\ ConsultInv(q, c) /\ SilentInv(q, c, a)

RequestInv == \A r \in Requests : Good(req[r], consults[r], filtered[r], atCall[r])

IInv == TypeInv /\ ListInv /\ WayInv /\ RequestInv

-----------------------------------------------------------------------------
(* Functions that fetch can be, and what they call. *)

\* The three kinds of functions are told apart, and so are sessions and wrappers.
LEMMA Kinds ==
    /\ Native.kind = "native"
    /\ \A s : Dispatch(s).kind = "dispatch" /\ Dispatch(s).session = s
    /\ \A w : Wrapper(w).kind = "wrapper" /\ Wrapper(w).wrapper = w
BY DEF Native, Dispatch, Wrapper

LEMMA Differ ==
    /\ \A s, t : Dispatch(s) = Dispatch(t) => s = t
    /\ \A v, w : Wrapper(v) = Wrapper(w) => v = w
    /\ \A s, w : Dispatch(s) # Wrapper(w) /\ Dispatch(s) # Native /\ Wrapper(w) # Native
BY Kinds

LEMMA Calls ==
    /\ Below(Native) = {}
    /\ \A s : Below(Dispatch(s)) = {sessions[s].baseline}
    /\ \A w : Below(Wrapper(w)) = inner[w]
BY Kinds DEF Below

LEMMA FetchesHave ==
    /\ Native \in Fetches
    /\ \A s \in 1 .. Len(sessions) : Dispatch(s) \in Fetches
    /\ \A w \in Wrappers : Wrapper(w) \in Fetches
BY DEF Fetches

\* Whatever fetch can be calls what fetch can be.
LEMMA BelowInFetches == ASSUME TypeInv, NEW f \in Fetches PROVE Below(f) \subseteq Fetches
<1>1. CASE f = Native
  BY <1>1, Calls
<1>2. CASE \E s \in 1 .. Len(sessions) : f = Dispatch(s)
  <2>1. PICK s \in 1 .. Len(sessions) : f = Dispatch(s)
    BY <1>2
  <2>2. sessions[s] \in [baseline : Fetches, interceptors : Seq(Leases)]
    BY ElementOfSeq DEF TypeInv
  <2>. QED
    BY <2>1, <2>2, Calls
<1>3. CASE \E w \in Wrappers : f = Wrapper(w)
  BY <1>3, Calls DEF TypeInv
<1>. QED
  BY <1>1, <1>2, <1>3 DEF Fetches

\* A way that goes on below f is one from f, with f itself.
LEMMA WayBelow ==
    ASSUME TypeInv, NEW f \in Fetches, NEW g, Below(f) = {g}, NEW way \in Ways(g)
    PROVE  way \cup {f} \in Ways(f)
BY DEF Ways

\* What is before a function is the function itself or what is before the one it
\* calls.
LEMMA OnWayBelow ==
    ASSUME TypeInv, NEW f \in Fetches, NEW g, Below(f) = {g}, NEW l,
           OnWay(f, l), Dispatch(heldBy[l]) # f
    PROVE  OnWay(g, l)
BY WayBelow DEF OnWay

\* Nothing is before the real fetch.
LEMMA NativeIsLast == ASSUME NEW l PROVE ~OnWay(Native, l)
<1>1. {Native} \in Ways(Native)
  BY Calls, FetchesHave DEF Ways
<1>. QED
  BY <1>1, Differ DEF OnWay

Session == [baseline : Fetches, interceptors : Seq(Leases)]

LEMMA SessionType ==
    ASSUME TypeInv, NEW s \in 1 .. Len(sessions)
    PROVE  /\ sessions[s] \in Session
           /\ sessions[s].baseline \in Fetches /\ sessions[s].interceptors \in Seq(Leases)
<1>1. sessions[s] \in Session
  BY ElementOfSeq DEF TypeInv, Session
<1>. QED
  BY <1>1 DEF Session

\* A session with another list of leases.
LEMMA ListChanges ==
    ASSUME TypeInv, NEW s \in 1 .. Len(sessions), NEW list \in Seq(Leases),
           sessions' = [sessions EXCEPT ![s].interceptors = list]
    PROVE  /\ sessions' \in Seq(Session) /\ Len(sessions') = Len(sessions)
           /\ \A t \in 1 .. Len(sessions) :
                 /\ sessions'[t].baseline = sessions[t].baseline
                 /\ sessions'[t].interceptors = IF t = s THEN list
                                                ELSE sessions[t].interceptors
<1>. DEFINE new == [sessions[s] EXCEPT !.interceptors = list]
<1>1. sessions[s] \in Session /\ sessions \in Seq(Session)
  BY SessionType DEF TypeInv, Session
<1>2. new \in Session /\ new.baseline = sessions[s].baseline /\ new.interceptors = list
  BY <1>1 DEF Session
<1>3. sessions' = [sessions EXCEPT ![s] = new]
  BY <1>1
<1>. QED
  BY <1>1, <1>2, <1>3, ExceptSeq

-----------------------------------------------------------------------------
(* What leases and wrappers do to what is there. *)

\* Functions keep what they call, leases their session, and restored leases stay
\* restored.
Grows ==
    /\ Len(sessions) <= Len(sessions') /\ Len(sessions') \in Nat
    /\ \A s \in 1 .. Len(sessions) : sessions'[s].baseline = sessions[s].baseline
    /\ \A w \in Wrappers : inner[w] \subseteq inner'[w]
    /\ \A l \in Leases : heldBy[l] # 0 => heldBy'[l] = heldBy[l]
    /\ restored \subseteq restored'

LEMMA FetchesGrow == ASSUME TypeInv, Grows PROVE Fetches \subseteq Fetches'
BY DEF Fetches, Grows, TypeInv

LEMMA BelowGrows ==
    ASSUME TypeInv, Grows, NEW f \in Fetches PROVE Below(f) \subseteq Below(f)'
<1>. Below(f)' = IF f.kind = "dispatch" THEN {sessions'[f.session].baseline}
                 ELSE IF f.kind = "wrapper" THEN inner'[f.wrapper] ELSE {}
  BY DEF Below
<1>1. CASE f = Native
  BY <1>1, Calls
<1>2. CASE \E s \in 1 .. Len(sessions) : f = Dispatch(s)
  BY <1>2, Calls, Kinds DEF Grows
<1>3. CASE \E w \in Wrappers : f = Wrapper(w)
  BY <1>3, Calls, Kinds DEF Grows
<1>. QED
  BY <1>1, <1>2, <1>3 DEF Fetches

\* What was before a function still is.
LEMMA OnWayStays ==
    ASSUME TypeInv, Grows, NEW f \in Fetches, NEW l \in Leases, heldBy[l] # 0, OnWay(f, l)
    PROVE  OnWay(f, l)'
<1>. SUFFICES ASSUME NEW way \in Ways(f)' PROVE Dispatch(heldBy[l]) \in way
  BY DEF OnWay, Grows
<1>1. way \cap Fetches \in Ways(f)
  <2>1. f \in way /\ \A g \in way : Below(g)' \subseteq way
    BY DEF Ways
  <2>2. \A g \in way \cap Fetches : Below(g) \subseteq way \cap Fetches
    BY <2>1, BelowGrows, BelowInFetches
  <2>. QED
    BY <2>1, <2>2 DEF Ways
<1>. QED
  BY <1>1 DEF OnWay

Logs == [held : SUBSET Leases, restored : SUBSET Leases]

\* What a request has before it is what it had, without what was restored.
LEMMA GoodStays ==
    ASSUME TypeInv, Grows, NEW q \in Records, NEW c, NEW f, NEW a \in Logs, Good(q, c, f, a)
    PROVE  Good(q, c, f, a)'
<1>1. /\ Due(a)' \subseteq Due(a)
      /\ \A l \in Due(a) : l \in Leases /\ heldBy[l] # 0 /\ heldBy'[l] = heldBy[l]
  BY DEF Good, SilentInv, Due, Held, Grows, TypeInv, Logs
<1>2. MeetInv(q, c, f, a)'
  <2>1. q.at \in Fetches
    BY DEF Records
  <2>2. q.phase \in Turn =>
           \E s \in 1 .. Len(sessions) :
              /\ q.at = Dispatch(s) /\ q.at.session = s
              /\ sessions'[s].baseline = sessions[s].baseline
              /\ sessions[s].baseline \in Fetches
    <3>. SUFFICES ASSUME q.phase \in Turn
                  PROVE  \E s \in 1 .. Len(sessions) :
                            /\ q.at = Dispatch(s) /\ q.at.session = s
                            /\ sessions'[s].baseline = sessions[s].baseline
                            /\ sessions[s].baseline \in Fetches
      OBVIOUS
    <3>1. PICK s \in 1 .. Len(sessions) : q.at = Dispatch(s)
      BY DEF Good, MeetInv
    <3>2. q.at.session = s
      BY <3>1, Kinds
    <3>. QED
      BY <3>1, <3>2, SessionType DEF Grows
  <2>3. \A l \in Due(a), g \in Fetches : OnWay(g, l) => OnWay(g, l)'
    BY <1>1, OnWayStays
  <2>4. \A l \in Due(a) : OnWay(q.at, l) => OnWay(q.at, l)'
    BY <2>1, <2>3
  <2>5. \A l \in Due(a) : q.phase \in Turn /\ OnWay(sessions[q.at.session].baseline, l)
                             => OnWay(sessions[q.at.session].baseline, l)'
    BY <2>2, <2>3 DEF OnWay
  <2>6. q.phase \in Turn => \E s \in 1 .. Len(sessions') : q.at = Dispatch(s)
    BY <2>2 DEF Grows, TypeInv
  <2>. QED
    BY <1>1, <2>4, <2>5, <2>6 DEF Good, MeetInv
<1>3. SilentInv(q, c, a)'
  BY DEF Good, SilentInv, Grows, TypeInv, Logs
<1>. QED
  BY <1>2, <1>3 DEF Good

LEMMA RequestsStay ==
    ASSUME TypeInv, RequestInv, Grows, UNCHANGED <<req, log>> PROVE RequestInv'
<1>. SUFFICES ASSUME NEW r \in Requests PROVE Good(req[r], consults[r], filtered[r], atCall[r])'
  BY DEF RequestInv
<1>1. PICK q \in Records, a \in Logs : q = req[r] /\ a = atCall[r]
  BY DEF TypeInv, Logs
<1>2. PICK c : c = consults[r]
  OBVIOUS
<1>3. PICK f : f = filtered[r]
  OBVIOUS
<1>4. Good(q, c, f, a)'
  BY <1>1, <1>2, <1>3, GoodStays DEF RequestInv
<1>. QED
  BY <1>1, <1>2, <1>3, <1>4 DEF log, Good

-----------------------------------------------------------------------------
(* Leases. *)

LEMMA AppendKeepsOrder ==
    ASSUME NEW S, NEW list \in Seq(S), NEW x \in S, ~InList(x, list), IsInjective(list)
    PROVE  /\ Append(list, x) \in Seq(S) /\ IsInjective(Append(list, x))
           /\ \A k : InList(k, Append(list, x)) <=> (k = x \/ InList(k, list))
           /\ \A a, b : Precedes(a, b, Append(list, x)) <=>
                           Precedes(a, b, list) \/ (InList(a, list) /\ b = x)
<1>. DEFINE n == Len(list)
            more == Append(list, x)
<1>1. /\ n \in Nat /\ DOMAIN list = 1 .. n
      /\ more \in Seq(S) /\ DOMAIN more = 1 .. n + 1
      /\ \A i \in 1 .. n : more[i] = list[i]
      /\ more[n + 1] = x
  BY AppendProperties, LenProperties
<1>. HIDE DEF n, more
<1>2. IsInjective(more)
  BY <1>1 DEF IsInjective, InList
<1>3. \A k : InList(k, more) <=> (k = x \/ InList(k, list))
  BY <1>1 DEF InList
<1>4. ASSUME NEW a, NEW b, Precedes(a, b, more)
      PROVE  Precedes(a, b, list) \/ (InList(a, list) /\ b = x)
  <2>1. PICK i \in 1 .. n + 1, j \in 1 .. n + 1 : i < j /\ more[i] = a /\ more[j] = b
    BY <1>1, <1>4 DEF Precedes
  <2>2. i \in 1 .. n /\ list[i] = a
    BY <1>1, <2>1
  <2>3. CASE j = n + 1
    BY <1>1, <2>1, <2>2, <2>3 DEF InList
  <2>4. CASE j # n + 1
    BY <1>1, <2>1, <2>2, <2>4 DEF Precedes
  <2>. QED
    BY <2>3, <2>4
<1>5. ASSUME NEW a, NEW b, Precedes(a, b, list) PROVE Precedes(a, b, more)
  <2>1. PICK i \in 1 .. n, j \in 1 .. n : i < j /\ list[i] = a /\ list[j] = b
    BY <1>1, <1>5 DEF Precedes
  <2>. QED
    BY <1>1, <2>1 DEF Precedes
<1>6. ASSUME NEW a, InList(a, list) PROVE Precedes(a, x, more)
  <2>1. PICK i \in 1 .. n : list[i] = a
    BY <1>1, <1>6 DEF InList
  <2>. QED
    BY <1>1, <2>1 DEF Precedes
<1>. QED
  BY <1>1, <1>2, <1>3, <1>4, <1>5, <1>6 DEF more

\* intercept() in the session whose dispatcher is the current fetch.
LEMMA JoinKeeps ==
    ASSUME IInv, NEW l \in Leases, NEW o \in Options, Intercept(l, o), Joins
    PROVE  IInv'
<1>. DEFINE s == activeSession
            list == sessions[s].interceptors
<1>1. /\ s \in 1 .. Len(sessions) /\ fetch = Dispatch(s) /\ heldBy[l] = 0
      /\ heldBy' = [heldBy EXCEPT ![l] = s]
      /\ sessions' = [sessions EXCEPT ![s].interceptors = Append(list, l)]
      /\ options' = [options EXCEPT ![l] = o]
      /\ UNCHANGED <<fetch, activeSession, restored, thirdParty, req, log>>
  BY DEF Intercept, Joins, IInv, TypeInv
<1>2. /\ list \in Seq(Leases) /\ IsInjective(list)
      /\ l \notin restored /\ ~InList(l, list)
  <2>1. list \in Seq(Leases)
    BY <1>1, SessionType DEF IInv
  <2>2. IsInjective(list) /\ l \notin restored /\ (InList(l, list) => heldBy[l] = s)
    BY <1>1 DEF IInv, ListInv
  <2>. QED
    BY <1>1, <2>1, <2>2
<1>3. /\ sessions' \in Seq(Session) /\ Len(sessions') = Len(sessions)
      /\ \A t \in 1 .. Len(sessions) :
            /\ sessions'[t].baseline = sessions[t].baseline
            /\ sessions'[t].interceptors = IF t = s THEN Append(list, l)
                                           ELSE sessions[t].interceptors
  <2>1. Append(list, l) \in Seq(Leases)
    BY <1>2, AppendKeepsOrder
  <2>. QED
    BY <1>1, <2>1, ListChanges DEF IInv
<1>4. Grows /\ Fetches' = Fetches
  BY <1>1, <1>3 DEF Grows, Fetches, IInv, TypeInv, thirdParty
<1>5. TypeInv'
  <2>1. sessions' \in Seq([baseline : Fetches', interceptors : Seq(Leases)])
    BY <1>3, <1>4 DEF Session
  <2>. QED
    BY <1>1, <1>3, <1>4, <2>1 DEF IInv, TypeInv, Records, thirdParty, log
<1>6. ListInv'
  BY <1>1, <1>2, <1>3, AppendKeepsOrder DEF IInv, ListInv, TypeInv
<1>7. WayInv'
  <2>. SUFFICES ASSUME NEW k \in Held' PROVE OnWay(fetch, k)'
    BY DEF WayInv
  <2>1. CASE k = l
    BY <1>1, <2>1 DEF OnWay, Ways, IInv, TypeInv
  <2>2. CASE k # l
    BY <1>1, <1>4, <2>2, OnWayStays DEF IInv, WayInv, TypeInv, Held
  <2>. QED
    BY <2>1, <2>2
<1>8. RequestInv'
  BY <1>1, <1>4, RequestsStay DEF IInv
<1>. QED
  BY <1>5, <1>6, <1>7, <1>8 DEF IInv


\* intercept() in a new session on top of what fetch is.
LEMMA OpenKeeps ==
    ASSUME IInv, NEW l \in Leases, NEW o \in Options, Intercept(l, o), ~Joins
    PROVE  IInv'
<1>0. PICK s \in Nat : s = Len(sessions) + 1
  BY DEF IInv, TypeInv
<1>. DEFINE new == [baseline |-> fetch, interceptors |-> <<l>>]
<1>1. /\ heldBy[l] = 0 /\ heldBy' = [heldBy EXCEPT ![l] = s]
      /\ sessions' = Append(sessions, new)
      /\ activeSession' = s /\ fetch' = Dispatch(s)
      /\ options' = [options EXCEPT ![l] = o]
      /\ UNCHANGED <<restored, thirdParty, req, log>>
  BY <1>0 DEF Intercept
<1>2. /\ sessions \in Seq(Session) /\ Len(sessions) \in Nat /\ s \in Nat
      /\ new \in Session /\ l \notin restored
  BY <1>0, <1>1 DEF IInv, TypeInv, ListInv, Session
<1>3. /\ sessions' \in Seq(Session) /\ Len(sessions') = s
      /\ \A t \in 1 .. Len(sessions) : sessions'[t] = sessions[t]
      /\ sessions'[s] = new
  BY <1>0, <1>1, <1>2, AppendProperties
<1>4. Grows
  BY <1>0, <1>1, <1>2, <1>3 DEF Grows, IInv, TypeInv, thirdParty
<1>5. Fetches' = Fetches \cup {Dispatch(s)}
  BY <1>0, <1>2, <1>3 DEF Fetches
<1>6. TypeInv'
  <2>1. Session \subseteq [baseline : Fetches', interceptors : Seq(Leases)]
    BY <1>5 DEF Session
  <2>2. sessions' \in Seq([baseline : Fetches', interceptors : Seq(Leases)])
    BY <1>3, <2>1, SeqMonotonic
  <2>3. req' \in [Requests -> Records']
    BY <1>1, <1>5 DEF IInv, TypeInv, Records
  <2>4. /\ fetch' \in Fetches' /\ activeSession' \in 0 .. Len(sessions')
        /\ heldBy' \in [Leases -> 0 .. Len(sessions')]
        /\ options' \in [Leases -> Options]
    BY <1>0, <1>1, <1>2, <1>3, <1>5 DEF IInv, TypeInv
  <2>5. /\ inner' \in [Wrappers -> SUBSET Fetches']
        /\ \A w \in Wrappers : inner'[w] = {} \/ \E f \in Fetches' : inner'[w] = {f}
    BY <1>1, <1>5 DEF IInv, TypeInv, thirdParty
  <2>. QED
    BY <1>1, <2>2, <2>3, <2>4, <2>5 DEF IInv, TypeInv, log
<1>7. ListInv'
  <2>1. IsInjective(<<l>>) /\ \A k : InList(k, <<l>>) <=> k = l
    BY DEF IsInjective, InList
  <2>2. ASSUME NEW t \in 1 .. Len(sessions')
        PROVE  /\ IsInjective(sessions'[t].interceptors)
               /\ \A k \in Leases : InList(k, sessions'[t].interceptors) <=>
                                       heldBy'[k] = t /\ k \notin restored'
    <3>1. CASE t = s
      <4>1. sessions'[t].interceptors = <<l>>
        BY <1>3, <3>1
      <4>2. \A k \in Leases : heldBy'[k] = t <=> k = l
        BY <1>0, <1>1, <3>1 DEF IInv, TypeInv
      <4>. QED
        BY <1>1, <1>2, <2>1, <4>1, <4>2
    <3>2. CASE t # s
      BY <1>0, <1>1, <1>2, <1>3, <3>2 DEF IInv, TypeInv, ListInv
    <3>. QED
      BY <3>1, <3>2
  <2>. QED
    BY <1>1, <1>2, <2>2 DEF IInv, TypeInv, ListInv
<1>8. WayInv'
  <2>. SUFFICES ASSUME NEW k \in Held', NEW way \in Ways(fetch)'
                PROVE  Dispatch(heldBy'[k]) \in way
    BY DEF WayInv, OnWay
  <2>1. Dispatch(s) \in way /\ Below(Dispatch(s))' \subseteq way
    BY <1>1 DEF Ways
  <2>2. CASE k = l
    BY <1>1, <2>1, <2>2 DEF IInv, TypeInv
  <2>3. CASE k # l
    <3>1. fetch \in way
      BY <1>3, <2>1, Kinds DEF Below
    <3>2. k \in Held /\ heldBy'[k] = heldBy[k] /\ heldBy[k] # 0
      BY <1>1, <2>3 DEF IInv, TypeInv, Held
    <3>3. way \in {w \in SUBSET Fetches' : fetch \in w /\ \A g \in w : Below(g)' \subseteq w}
      BY <3>1 DEF Ways
    <3>4. way \cap Fetches \in Ways(fetch)
      BY <1>4, <3>3, BelowGrows, BelowInFetches DEF Ways, IInv, TypeInv
    <3>. QED
      BY <3>2, <3>4 DEF IInv, WayInv, OnWay
  <2>. QED
    BY <2>2, <2>3
<1>9. RequestInv'
  BY <1>1, <1>4, RequestsStay DEF IInv
<1>. QED
  BY <1>6, <1>7, <1>8, <1>9 DEF IInv

\* What is spliced out is gone, and the rest stays in order.
LEMMA SpliceOut ==
    ASSUME NEW S, NEW list \in Seq(S), IsInjective(list), NEW i \in DOMAIN list
    PROVE  /\ RemoveAt(list, i) \in Seq(S) /\ IsInjective(RemoveAt(list, i))
           /\ \A k : InList(k, RemoveAt(list, i)) <=> InList(k, list) /\ k # list[i]
           /\ \A a, b : Precedes(a, b, RemoveAt(list, i)) <=>
                           Precedes(a, b, list) /\ a # list[i] /\ b # list[i]
<1>. DEFINE rest == RemoveAt(list, i)
            n == Len(list)
            front == SubSeq(list, 1, i - 1)
            back == SubSeq(list, i + 1, n)
<1>1. /\ n \in Nat /\ DOMAIN list = 1 .. n /\ i \in 1 .. n
      /\ \A j \in 1 .. n : list[j] \in S
  BY LenProperties, ElementOfSeq
<1>2. /\ front \in Seq(S) /\ Len(front) = i - 1
      /\ \A j \in 1 .. i - 1 : front[j] = list[j]
  <2>1. /\ 1 \in Int /\ i - 1 \in Int /\ (\A j \in 1 .. i - 1 : list[j] \in S)
        /\ (i - 1) - 1 + 1 = i - 1 /\ \A j \in 1 .. i - 1 : 1 + j - 1 = j
    BY <1>1
  <2>2. front \in Seq(S)
    BY <2>1, SubSeqProperties, Zenon
  <2>3. Len(front) = i - 1
    BY <1>1, <2>1, SubSeqProperties
  <2>4. \A j \in 1 .. i - 1 : front[j] = list[j]
    BY <2>1, SubSeqProperties
  <2>. QED
    BY <2>2, <2>3, <2>4
<1>3. /\ back \in Seq(S) /\ Len(back) = n - i
      /\ \A j \in 1 .. n - i : back[j] = list[i + j]
  <2>1. /\ i + 1 \in Int /\ n \in Int /\ \A j \in i + 1 .. n : list[j] \in S
        /\ n - (i + 1) + 1 = n - i /\ \A j \in 1 .. n - i : (i + 1) + j - 1 = i + j
    BY <1>1
  <2>2. back \in Seq(S)
    BY <2>1, SubSeqProperties, Zenon
  <2>3. Len(back) = n - i
    BY <1>1, <2>1, SubSeqProperties
  <2>4. \A j \in 1 .. n - i : back[j] = list[i + j]
    BY <2>1, SubSeqProperties
  <2>. QED
    BY <2>2, <2>3, <2>4
<1>4. /\ rest \in Seq(S) /\ Len(rest) = n - 1 /\ DOMAIN rest = 1 .. n - 1
      /\ \A j \in 1 .. n - 1 : rest[j] = IF j < i THEN list[j] ELSE list[j + 1]
  <2>1. rest = front \o back
    BY DEF RemoveAt
  <2>. HIDE DEF rest, front, back, n
  <2>2. /\ rest \in Seq(S) /\ Len(rest) = Len(front) + Len(back)
        /\ \A j \in 1 .. Len(front) + Len(back) :
              rest[j] = IF j <= Len(front) THEN front[j] ELSE back[j - Len(front)]
    BY <1>2, <1>3, <2>1, ConcatProperties
  <2>3. Len(rest) = n - 1 /\ DOMAIN rest = 1 .. n - 1
    BY <1>1, <1>2, <1>3, <2>2, LenProperties
  <2>4. ASSUME NEW j \in 1 .. n - 1, j < i PROVE rest[j] = list[j]
    BY <1>1, <1>2, <1>3, <2>2, <2>4
  <2>5. ASSUME NEW j \in 1 .. n - 1, ~(j < i) PROVE rest[j] = list[j + 1]
    <3>1. /\ j - (i - 1) \in 1 .. n - i /\ j \in 1 .. Len(front) + Len(back)
          /\ ~(j <= Len(front)) /\ j - Len(front) = j - (i - 1)
      BY <1>1, <1>2, <1>3, <2>5
    <3>2. rest[j] = back[j - (i - 1)]
      BY <2>2, <3>1
    <3>3. back[j - (i - 1)] = list[i + (j - (i - 1))]
      BY <1>3, <3>1
    <3>4. i + (j - (i - 1)) = j + 1
      BY <1>1, <2>5
    <3>. QED
      BY <3>2, <3>3, <3>4
  <2>. QED
    BY <2>2, <2>3, <2>4, <2>5
<1>5. IsInjective(rest)
  BY <1>1, <1>4, SMTT(30) DEF IsInjective
<1>6. ASSUME NEW k PROVE InList(k, rest) <=> InList(k, list) /\ k # list[i]
  <2>1. ASSUME InList(k, rest) PROVE InList(k, list) /\ k # list[i]
    <3>1. PICK j \in 1 .. n - 1 : rest[j] = k
      BY <1>4, <2>1 DEF InList
    <3>2. PICK m \in 1 .. n : m # i /\ list[m] = k
      <4>1. CASE j < i
        BY <1>1, <1>4, <3>1, <4>1
      <4>2. CASE ~(j < i)
        <5>1. j + 1 \in 1 .. n /\ j + 1 # i /\ list[j + 1] = k
          BY <1>1, <1>4, <3>1, <4>2
        <5>. QED
          BY <5>1
      <4>. QED
        BY <4>1, <4>2
    <3>. QED
      BY <1>1, <3>2 DEF InList, IsInjective
  <2>2. ASSUME NEW j \in DOMAIN list, list[j] = k, k # list[i] PROVE InList(k, rest)
    <3>1. CASE j < i
      BY <1>1, <1>4, <2>2, <3>1 DEF InList
    <3>2. CASE j > i
      <4>1. j - 1 \in 1 .. n - 1 /\ ~(j - 1 < i) /\ (j - 1) + 1 = j
        BY <1>1, <2>2, <3>2
      <4>2. rest[j - 1] = list[(j - 1) + 1]
        BY <1>4, <4>1
      <4>. QED
        BY <1>4, <2>2, <4>1, <4>2 DEF InList
    <3>. QED
      BY <1>1, <2>2, <3>1, <3>2
  <2>. QED
    BY <2>1, <2>2 DEF InList
<1>7. ASSUME NEW a, NEW b, Precedes(a, b, rest)
      PROVE  Precedes(a, b, list) /\ a # list[i] /\ b # list[i]
  <2>1. PICK j \in 1 .. n - 1, k \in 1 .. n - 1 : j < k /\ rest[j] = a /\ rest[k] = b
    BY <1>4, <1>7 DEF Precedes
  <2>2. PICK x \in 1 .. n : list[x] = a /\ x # i /\ x = IF j < i THEN j ELSE j + 1
    BY <1>1, <1>4, <2>1
  <2>3. PICK y \in 1 .. n : list[y] = b /\ y # i /\ y = IF k < i THEN k ELSE k + 1
    BY <1>1, <1>4, <2>1
  <2>4. x < y
    BY <1>1, <2>1, <2>2, <2>3
  <2>. QED
    BY <1>1, <2>2, <2>3, <2>4 DEF Precedes, IsInjective
<1>8. ASSUME NEW a, NEW b, Precedes(a, b, list), a # list[i], b # list[i]
      PROVE  Precedes(a, b, rest)
  <2>1. PICK j \in 1 .. n, k \in 1 .. n : j < k /\ list[j] = a /\ list[k] = b
    BY <1>1, <1>8 DEF Precedes
  <2>2. j # i /\ k # i
    BY <1>8, <2>1
  <2>3. PICK x \in 1 .. n - 1 : x = (IF j < i THEN j ELSE j - 1) /\ rest[x] = a
    BY <1>1, <1>4, <2>1, <2>2
  <2>4. PICK y \in 1 .. n - 1 : y = (IF k < i THEN k ELSE k - 1) /\ rest[y] = b
    BY <1>1, <1>4, <2>1, <2>2
  <2>5. x < y
    BY <1>1, <2>1, <2>2, <2>3, <2>4
  <2>. QED
    BY <1>4, <2>3, <2>4, <2>5 DEF Precedes
<1>. QED
  BY <1>4, <1>5, <1>6, <1>7, <1>8

\* restore(): the lease leaves its session, and the last one takes the session
\* off the top.
LEMMA RestoreKeeps == ASSUME IInv, NEW l \in Leases, Restore(l) PROVE IInv'
<1>1. PICK s \in 1 .. Len(sessions) : s = heldBy[l]
  BY DEF Restore, IInv, TypeInv
<1>. DEFINE list == sessions[s].interceptors
<1>2. /\ list \in Seq(Leases) /\ IsInjective(list) /\ InList(l, list)
  BY <1>1, SessionType DEF IInv, ListInv, Restore
<1>3. PICK i \in DOMAIN list : list[i] = l /\ Without(s, l) = RemoveAt(list, i)
  BY <1>2 DEF Without, InList
<1>4. /\ l \notin restored /\ restored' = restored \cup {l}
      /\ sessions' = [sessions EXCEPT ![s].interceptors = RemoveAt(list, i)]
      /\ \/ sessions'[s].interceptors # <<>> /\ UNCHANGED <<activeSession, fetch>>
         \/ /\ sessions'[s].interceptors = <<>>
            /\ activeSession' \in {0, activeSession}
            /\ fetch' = FetchAfter(s)
      /\ UNCHANGED <<heldBy, options, thirdParty, req, log>>
  BY <1>1, <1>3 DEF Restore
<1>5. /\ sessions' \in Seq(Session) /\ Len(sessions') = Len(sessions)
      /\ \A t \in 1 .. Len(sessions) :
            /\ sessions'[t].baseline = sessions[t].baseline
            /\ sessions'[t].interceptors = IF t = s THEN RemoveAt(list, i)
                                           ELSE sessions[t].interceptors
  <2>1. RemoveAt(list, i) \in Seq(Leases)
    BY <1>2, SpliceOut
  <2>. QED
    BY <1>4, <2>1, ListChanges DEF IInv
<1>6. Grows /\ Fetches' = Fetches
  BY <1>4, <1>5 DEF Grows, Fetches, IInv, TypeInv, thirdParty
<1>7. fetch' \in Fetches
  BY <1>4, SessionType DEF FetchAfter, IInv, TypeInv
<1>8. TypeInv'
  <2>1. sessions' \in Seq([baseline : Fetches', interceptors : Seq(Leases)])
    BY <1>5, <1>6 DEF Session
  <2>2. /\ fetch' \in Fetches' /\ activeSession' \in 0 .. Len(sessions')
        /\ heldBy' \in [Leases -> 0 .. Len(sessions')] /\ restored' \subseteq Leases
    BY <1>4, <1>5, <1>6, <1>7 DEF IInv, TypeInv
  <2>3. req' \in [Requests -> Records']
    BY <1>4, <1>6 DEF IInv, TypeInv, Records
  <2>. QED
    BY <1>4, <1>6, <2>1, <2>2, <2>3 DEF IInv, TypeInv, thirdParty, log
<1>9. ListInv'
  BY <1>1, <1>2, <1>3, <1>4, <1>5, SpliceOut, SMTT(30) DEF IInv, ListInv, TypeInv
<1>10. WayInv'
  <2>. SUFFICES ASSUME NEW k \in Held' PROVE OnWay(fetch, k)'
    BY DEF WayInv
  <2>1. k \in Leases /\ k \in Held /\ heldBy[k] # 0 /\ OnWay(fetch, k)
    BY <1>4 DEF Held, IInv, WayInv, TypeInv
  <2>2. CASE fetch' = fetch
    BY <1>6, <2>1, <2>2, OnWayStays DEF IInv, TypeInv, OnWay, Ways
  <2>3. CASE fetch' # fetch
    <3>1. PICK f \in Fetches : f = sessions[s].baseline
      BY <1>1, SessionType DEF IInv
    <3>2. fetch = Dispatch(s) /\ fetch' = f /\ sessions'[s].interceptors = <<>>
      BY <1>4, <2>3, <3>1 DEF FetchAfter
    <3>3. heldBy[k] # s
      <4>1. ~InList(k, sessions'[s].interceptors)
        BY <3>2 DEF InList
      <4>. QED
        BY <1>4, <1>5, <1>9, <4>1 DEF ListInv, Held
    <3>4. Dispatch(heldBy[k]) # fetch /\ Below(fetch) = {f}
      BY <3>1, <3>2, <3>3, Differ, Calls
    <3>5. OnWay(f, k)
      BY <2>1, <3>4, OnWayBelow DEF IInv, TypeInv
    <3>6. OnWay(f, k)'
      BY <1>6, <2>1, <3>5, OnWayStays DEF IInv
    <3>. QED
      BY <3>2, <3>6 DEF OnWay, Ways
  <2>. QED
    BY <2>2, <2>3
<1>11. RequestInv'
  BY <1>4, <1>6, RequestsStay DEF IInv
<1>. QED
  BY <1>8, <1>9, <1>10, <1>11 DEF IInv

LEMMA UpdateKeeps ==
    ASSUME IInv, NEW l \in Leases, NEW o \in Options, Update(l, o) PROVE IInv'
<1>1. /\ options' = [options EXCEPT ![l] = o]
      /\ UNCHANGED <<fetch, sessions, activeSession, heldBy, restored, thirdParty, req, log>>
  BY DEF Update
<1>2. Grows /\ Fetches' = Fetches
  BY <1>1 DEF Grows, Fetches, IInv, TypeInv, thirdParty
<1>3. TypeInv' /\ ListInv'
  BY <1>1, <1>2 DEF IInv, TypeInv, ListInv, Records, thirdParty, log
<1>4. WayInv'
  BY <1>1, <1>2 DEF IInv, WayInv, OnWay, Ways, Held, Below, thirdParty
<1>5. RequestInv'
  BY <1>1, <1>2, RequestsStay DEF IInv
<1>. QED
  BY <1>3, <1>4, <1>5 DEF IInv

-----------------------------------------------------------------------------
(* Third-party code. *)

LEMMA WrapKeeps == ASSUME IInv, NEW w \in Wrappers, Wrap(w) PROVE IInv'
<1>1. PICK f \in Fetches : f = fetch
  BY DEF IInv, TypeInv
<1>2. /\ inner[w] = {} /\ inner' = [inner EXCEPT ![w] = {f}] /\ fetch' = Wrapper(w)
      /\ UNCHANGED <<sessions, activeSession, heldBy, options, restored, removed, req, log>>
  BY <1>1 DEF Wrap, leases
<1>3. Grows /\ Fetches' = Fetches
  BY <1>2 DEF Grows, Fetches, IInv, TypeInv
<1>4. TypeInv' /\ ListInv'
  <2>1. /\ fetch' \in Fetches' /\ inner' \in [Wrappers -> SUBSET Fetches']
        /\ \A v \in Wrappers : inner'[v] = {} \/ \E g \in Fetches' : inner'[v] = {g}
    BY <1>1, <1>2, <1>3, FetchesHave DEF IInv, TypeInv
  <2>2. req' \in [Requests -> Records']
    BY <1>2, <1>3 DEF IInv, TypeInv, Records
  <2>3. sessions' \in Seq([baseline : Fetches', interceptors : Seq(Leases)])
    BY <1>2, <1>3 DEF IInv, TypeInv
  <2>. QED
    BY <1>2, <2>1, <2>2, <2>3 DEF IInv, TypeInv, ListInv, log
<1>5. WayInv'
  <2>. SUFFICES ASSUME NEW k \in Held', NEW way \in Ways(fetch)'
                PROVE  Dispatch(heldBy'[k]) \in way
    BY DEF WayInv, OnWay
  <2>1. k \in Held /\ k \in Leases /\ heldBy[k] # 0 /\ heldBy'[k] = heldBy[k] /\ OnWay(f, k)
    BY <1>1, <1>2 DEF Held, IInv, WayInv
  <2>2. OnWay(f, k)'
    BY <1>3, <2>1, OnWayStays DEF IInv
  <2>3. /\ way \in SUBSET Fetches' /\ \A g \in way : Below(g)' \subseteq way
        /\ Wrapper(w) \in way
    BY <1>2 DEF Ways
  <2>4. f \in way
    <3>1. Below(Wrapper(w))' = inner'[w] /\ inner'[w] = {f}
      BY <1>2, Kinds DEF Below, IInv, TypeInv
    <3>. QED
      BY <2>3, <3>1
  <2>5. way \in Ways(f)'
    BY <2>3, <2>4 DEF Ways
  <2>. QED
    BY <2>2, <2>5 DEF OnWay
<1>6. RequestInv'
  BY <1>2, <1>3, RequestsStay DEF IInv
<1>. QED
  BY <1>4, <1>5, <1>6 DEF IInv

LEMMA UnwrapKeeps == ASSUME IInv, NEW w \in Wrappers, Unwrap(w) PROVE IInv'
<1>1. PICK f \in Fetches : inner[w] = {f} /\ fetch' = f
  BY DEF Unwrap, IInv, TypeInv
<1>2. /\ fetch = Wrapper(w)
      /\ UNCHANGED <<inner, sessions, activeSession, heldBy, options, restored, req, log>>
  BY DEF Unwrap, leases
<1>3. Grows /\ Fetches' = Fetches
  BY <1>2 DEF Grows, Fetches, IInv, TypeInv
<1>4. TypeInv' /\ ListInv'
  BY <1>1, <1>2, <1>3 DEF IInv, TypeInv, ListInv, Records, log
<1>5. WayInv'
  <2>. SUFFICES ASSUME NEW k \in Held' PROVE OnWay(fetch, k)'
    BY DEF WayInv
  <2>1. k \in Leases /\ heldBy[k] # 0 /\ OnWay(fetch, k)
    BY <1>2 DEF Held, IInv, WayInv
  <2>2. Below(fetch) = {f} /\ Dispatch(heldBy[k]) # fetch /\ fetch \in Fetches
    BY <1>1, <1>2, Calls, Differ DEF IInv, TypeInv
  <2>3. OnWay(f, k)
    BY <2>1, <2>2, OnWayBelow DEF IInv
  <2>4. OnWay(f, k)'
    BY <1>3, <2>1, <2>3, OnWayStays DEF IInv
  <2>. QED
    BY <1>1, <2>4 DEF OnWay, Ways
<1>6. RequestInv'
  BY <1>2, <1>3, RequestsStay DEF IInv
<1>. QED
  BY <1>4, <1>5, <1>6 DEF IInv

-----------------------------------------------------------------------------
(* Requests. *)

Entry == [lease : Leases, read : Options]

\* A request looks at the leases and changes nothing but what it keeps.
LEMMA OneRequest ==
    ASSUME IInv, UNCHANGED <<fetch, leases, thirdParty>>, NEW r \in Requests,
           NEW q \in Records, Become(r, q),
           NEW c \in Seq(Entry), consults' = [consults EXCEPT ![r] = c],
           NEW f \in SUBSET Leases, filtered' = [filtered EXCEPT ![r] = f],
           NEW a \in Logs, atCall' = [atCall EXCEPT ![r] = a],
           Good(q, c, f, a)
    PROVE  IInv'
<1>1. Fetches' = Fetches
  BY DEF Fetches, leases
<1>2. TypeInv' /\ ListInv'
  BY <1>1 DEF IInv, TypeInv, ListInv, Records, Become, leases, thirdParty, Entry, Logs
<1>3. \A g : Ways(g)' = Ways(g)
  BY <1>1 DEF Ways, Below, leases, thirdParty
<1>4. WayInv'
  BY <1>3 DEF IInv, WayInv, OnWay, Held, leases
<1>5. ASSUME NEW p \in Records, NEW d, NEW e, NEW b, Good(p, d, e, b)
      PROVE  Good(p, d, e, b)'
  BY <1>3, <1>5 DEF Good, MeetInv, SilentInv, OnWay, Due, Held, leases
<1>6. RequestInv'
  <2>. SUFFICES ASSUME NEW o \in Requests
                PROVE  Good(req[o], consults[o], filtered[o], atCall[o])'
    BY DEF RequestInv
  <2>1. CASE o = r
    <3>1. req'[o] = q /\ consults'[o] = c /\ filtered'[o] = f /\ atCall'[o] = a
      BY <2>1 DEF Become, IInv, TypeInv
    <3>. QED
      BY <1>5, <3>1 DEF Good
  <2>2. CASE o # r
    <3>1. PICK p \in Records : p = req[o] /\ p = req'[o]
      BY <2>2 DEF Become, IInv, TypeInv
    <3>2. /\ consults'[o] = consults[o] /\ filtered'[o] = filtered[o]
          /\ atCall'[o] = atCall[o]
      BY <2>2 DEF IInv, TypeInv
    <3>3. PICK d : d = consults[o]
      OBVIOUS
    <3>4. PICK e : e = filtered[o]
      OBVIOUS
    <3>5. PICK b : b = atCall[o]
      OBVIOUS
    <3>6. Good(p, d, e, b)'
      BY <1>5, <3>1, <3>3, <3>4, <3>5 DEF IInv, RequestInv
    <3>. QED
      BY <3>1, <3>2, <3>3, <3>4, <3>5, <3>6 DEF Good
  <2>. QED
    BY <2>1, <2>2
<1>. QED
  BY <1>2, <1>4, <1>6 DEF IInv

LEMMA RequestType ==
    ASSUME IInv, NEW r \in Requests
    PROVE  /\ req[r] \in Records /\ consults[r] \in Seq(Entry)
           /\ filtered[r] \in SUBSET Leases /\ atCall[r] \in Logs
           /\ Good(req[r], consults[r], filtered[r], atCall[r])
BY DEF IInv, TypeInv, RequestInv, Entry, Logs

LEMMA QuietStep ==
    ASSUME IInv, UNCHANGED <<fetch, leases, thirdParty, log>>, NEW r \in Requests,
           NEW q \in Records, Become(r, q),
           Good(q, consults[r], filtered[r], atCall[r])
    PROVE  IInv'
<1>1. /\ consults' = [consults EXCEPT ![r] = consults[r]]
      /\ filtered' = [filtered EXCEPT ![r] = filtered[r]]
      /\ atCall' = [atCall EXCEPT ![r] = atCall[r]]
  BY DEF log, IInv, TypeInv
<1>. QED
  BY <1>1, OneRequest, RequestType DEF log

\* The same request in another phase.
Moved(q, p, phase) ==
    /\ q \in Records /\ q.phase = phase
    /\ q.at = p.at /\ q.todo = p.todo /\ q.consultedOwners = p.consultedOwners
    /\ q.lease = p.lease /\ q.read = p.read

LEMMA Moves ==
    ASSUME NEW p \in Records, NEW phase \in Phases
    PROVE  /\ Moved([p EXCEPT !.phase = phase], p, phase)
           /\ Moved([p EXCEPT !.phase = phase, !.held = FALSE], p, phase)
           /\ Moved([p EXCEPT !.held = FALSE], p, p.phase)
           /\ Moved([p EXCEPT !.aborted = TRUE], p, p.phase)
BY DEF Moved, Records

LEMMA MoveKeeps ==
    ASSUME IInv, UNCHANGED <<fetch, leases, thirdParty, log>>, NEW r \in Requests,
           NEW phase \in Phases, NEW q, Become(r, q), Moved(q, req[r], phase),
           \/ phase = req[r].phase
           \/ phase = "failed"
           \/ req[r].phase = "admitted" /\ phase = "handling"
           \/ req[r].phase \in {"admitted", "handling"} /\ phase = "answered"
           \/ req[r].phase = "handling" /\ phase = "passed" /\ req[r].read = "passthrough"
           \/ req[r].phase = "answered" /\ phase = "mocked"
           \/ req[r].phase = "call" /\ phase = "real" /\ req[r].at = Native
    PROVE  IInv'
<1>1. Good(q, consults[r], filtered[r], atCall[r])
  <2>1. SilentInv(q, consults[r], atCall[r])
    BY RequestType DEF Good, SilentInv, Moved
  <2>2. ConsultInv(q, consults[r])
    BY RequestType DEF Good, ConsultInv, Moved, Turn
  <2>3. MeetInv(q, consults[r], filtered[r], atCall[r])
    BY RequestType, NativeIsLast DEF Good, MeetInv, Moved, Turn
  <2>. QED
    BY <2>1, <2>2, <2>3 DEF Good
<1>. QED
  BY <1>1, QuietStep DEF Moved

LEMMA HandlingKeeps ==
    ASSUME IInv, NEW r \in Requests,
           \/ CallNative(r) \/ BeforeRequest(r) \/ HandleSettles(r) \/ Throws(r)
           \/ Abort(r) \/ AbortRejects(r) \/ Unwinds(r)
    PROVE  IInv'
<1>. USE RequestType, Moves
<1>1. CASE CallNative(r)
  BY <1>1, MoveKeeps DEF CallNative, Phases, Final
<1>2. CASE BeforeRequest(r)
  BY <1>2, MoveKeeps DEF BeforeRequest, Phases, Final
<1>3. CASE HandleSettles(r)
  BY <1>3, MoveKeeps DEF HandleSettles, Leave, PassesOn, Phases, Final
<1>4. CASE Throws(r)
  BY <1>4, MoveKeeps DEF Throws, Leave, Phases, Final
<1>5. CASE Abort(r)
  BY <1>5, MoveKeeps DEF Abort, Records
<1>6. CASE AbortRejects(r)
  BY <1>6, MoveKeeps DEF AbortRejects, Phases, Final
<1>7. CASE Unwinds(r)
  BY <1>7, MoveKeeps DEF Unwinds, Records
<1>. QED
  BY <1>1, <1>2, <1>3, <1>4, <1>5, <1>6, <1>7

\* The same request before function f.
Sent(q, p, phase, f) ==
    /\ q \in Records /\ q.phase = phase /\ q.at = f
    /\ q.todo = p.todo /\ q.consultedOwners = p.consultedOwners

LEMMA Sends ==
    ASSUME NEW p \in Records, NEW f \in Fetches, NEW b \in BOOLEAN
    PROVE  /\ Sent([p EXCEPT !.at = f], p, p.phase, f)
           /\ Sent([p EXCEPT !.phase = "call", !.at = f], p, "call", f)
           /\ Sent([p EXCEPT !.phase = "call", !.at = f, !.supported = b], p, "call", f)
BY DEF Sent, Records, Phases

\* A wrapper calls what it replaced.
LEMMA CallWrapperKeeps == ASSUME IInv, NEW r \in Requests, CallWrapper(r) PROVE IInv'
<1>1. PICK w \in Wrappers : req[r].at = Wrapper(w)
  BY RequestType, Kinds DEF CallWrapper, Records, Fetches
<1>2. req[r].at.wrapper = w
  BY <1>1, Kinds
<1>3. PICK f \in Fetches : inner[w] = {f} /\ Become(r, [req[r] EXCEPT !.at = f])
  BY <1>2 DEF CallWrapper, IInv, TypeInv
<1>4. PICK q : q = [req[r] EXCEPT !.at = f]
  OBVIOUS
<1>5. Sent(q, req[r], "call", f)
  BY <1>4, RequestType, Sends DEF CallWrapper
<1>6. \A l \in Due(atCall[r]) : OnWay(req[r].at, l) => OnWay(f, l)
  <2>1. Below(req[r].at) = {f} /\ req[r].at \in Fetches
    BY <1>1, <1>3, Calls, FetchesHave
  <2>2. \A l : Dispatch(heldBy[l]) # req[r].at
    BY <1>1, Differ
  <2>. QED
    BY <2>1, <2>2, OnWayBelow DEF IInv
<1>7. Good(q, consults[r], filtered[r], atCall[r])
  BY <1>5, <1>6, RequestType DEF Good, MeetInv, ConsultInv, SilentInv, CallWrapper, Turn, Sent
<1>. QED
  BY <1>3, <1>4, <1>5, <1>7, QuietStep DEF CallWrapper, Sent

\* Somebody calls fetch.
LEMMA CallKeeps == ASSUME IInv, NEW r \in Requests, Call(r) PROVE IInv'
<1>1. PICK b \in BOOLEAN :
         Become(r, [req[r] EXCEPT !.phase = "call", !.at = fetch, !.supported = b])
  BY DEF Call
<1>2. PICK q : q = [req[r] EXCEPT !.phase = "call", !.at = fetch, !.supported = b]
  OBVIOUS
<1>3. Sent(q, req[r], "call", fetch)
  BY <1>2, RequestType, Sends DEF IInv, TypeInv
<1>4. PICK a \in Logs : a = [held |-> Held, restored |-> restored]
  BY DEF Logs, Held, IInv, TypeInv
<1>5. /\ req[r].phase = "idle" /\ consults[r] = <<>> /\ q.todo = <<>>
      /\ a.held = Held /\ a.restored = restored
  BY <1>3, <1>4, RequestType DEF Call, Good, ConsultInv, Sent
<1>6. Good(q, consults[r], filtered[r], a)
  <2>1. MeetInv(q, consults[r], filtered[r], a)
    BY <1>3, <1>5 DEF MeetInv, Due, IInv, WayInv, Turn, Sent
  <2>2. ConsultInv(q, consults[r]) /\ SilentInv(q, consults[r], a)
    BY <1>3, <1>5 DEF ConsultInv, SilentInv, Held, Turn, Sent
  <2>. QED
    BY <2>1, <2>2 DEF Good
<1>7. /\ consults' = [consults EXCEPT ![r] = consults[r]]
      /\ filtered' = [filtered EXCEPT ![r] = filtered[r]]
      /\ atCall' = [atCall EXCEPT ![r] = a]
  BY <1>4 DEF Call, IInv, TypeInv
<1>. QED
  BY <1>1, <1>2, <1>3, <1>6, <1>7, OneRequest, RequestType DEF Call, Sent

-----------------------------------------------------------------------------
(* The dispatch loop. *)

\* The newest of the positions that are left is one of them.
LEMMA NewestIsOpen ==
    ASSUME NEW n \in Nat, NEW open \in SUBSET (1 .. n), open # {}
    PROVE  NewestOf(open) \in open /\ \A j \in open : NewestOf(open) >= j
<1>. DEFINE fromEnd == {m \in Nat : n - m \in open}
<1>1. fromEnd \subseteq Nat /\ fromEnd # {}
  <2>1. PICK j \in open : TRUE
    OBVIOUS
  <2>2. n - j \in Nat /\ n - (n - j) = j
    OBVIOUS
  <2>. QED
    BY <2>2
<1>2. PICK m \in fromEnd : \A k \in fromEnd : ~(k < m)
  <2>1. PICK m \in fromEnd : \A k \in fromEnd : <<k, m>> \notin OpToRel(<, Nat)
    <3>. HIDE DEF fromEnd
    <3>. QED
      BY <1>1, NatLessThanWellFounded, WFMin
  <2>. QED
    BY <1>1, <2>1 DEF OpToRel
<1>3. PICK i \in open : i = n - m
  BY <1>2
<1>4. ASSUME NEW j \in open PROVE n - j \in fromEnd
  <2>1. n - j \in Nat /\ n - (n - j) = j
    OBVIOUS
  <2>. QED
    BY <2>1
<1>5. ASSUME NEW j \in open PROVE i >= j
  <2>1. ~(n - j < m) /\ m \in Nat /\ j \in Nat
    BY <1>2, <1>4
  <2>. QED
    BY <1>3, <2>1
<1>. QED
  BY <1>5 DEF NewestOf

\* The request whose interceptor is called: the lease and its options.
Asked(q, p, phase, list, l, read) ==
    /\ q \in Records /\ q.phase = phase /\ q.at = p.at /\ q.todo = list
    /\ q.consultedOwners = p.consultedOwners /\ q.lease = {l} /\ q.read = read

LEMMA Asks ==
    ASSUME NEW p \in Records, NEW list \in Seq(Leases), NEW l \in Leases, NEW read \in Options,
           NEW q, q = [[p EXCEPT !.todo = list] EXCEPT !.lease = {l}, !.read = read]
    PROVE  /\ Asked([q EXCEPT !.phase = "filtered"], p, "filtered", list, l, read)
           /\ Asked([q EXCEPT !.phase = "failed"], p, "failed", list, l, read)
           /\ Asked([q EXCEPT !.phase = "admitted", !.held = TRUE], p, "admitted", list, l, read)
BY DEF Asked, Records, Phases, Final

LEMMA OlderOnes ==
    ASSUME NEW list \in Seq(Leases), NEW i \in DOMAIN list
    PROVE  /\ SubSeq(list, 1, i - 1) \in Seq(Leases)
           /\ DOMAIN SubSeq(list, 1, i - 1) = 1 .. i - 1
           /\ \A j \in 1 .. i - 1 : j \in DOMAIN list /\ SubSeq(list, 1, i - 1)[j] = list[j]
<1>1. /\ 1 \in Int /\ i - 1 \in Int /\ (\A j \in 1 .. i - 1 : j \in DOMAIN list /\ list[j] \in Leases)
      /\ (i - 1) - 1 + 1 = i - 1 /\ \A j \in 1 .. i - 1 : 1 + j - 1 = j
  BY LenProperties, ElementOfSeq
<1>2. SubSeq(list, 1, i - 1) \in Seq(Leases)
  BY <1>1, SubSeqProperties, Zenon
<1>3. Len(SubSeq(list, 1, i - 1)) = i - 1
  BY <1>1, LenProperties, SubSeqProperties
<1>4. \A j \in 1 .. i - 1 : SubSeq(list, 1, i - 1)[j] = list[j]
  BY <1>1, SubSeqProperties
<1>. QED
  BY <1>1, <1>2, <1>3, <1>4, LenProperties

\* The next turn: what the request did not meet yet stays before it.
LEMMA TurnKeeps ==
    ASSUME IInv, UNCHANGED <<fetch, leases, thirdParty, atCall>>, NEW r \in Requests,
           NEW q \in Records, NEW s \in 1 .. Len(sessions), q.at = Dispatch(s),
           \A l \in Due(atCall[r]) :
               \/ Met(consults[r], filtered[r], l) \/ InList(l, q.todo)
               \/ OnWay(sessions[s].baseline, l),
           \A owner \in q.consultedOwners : Consulted(consults[r], owner),
           \A i \in DOMAIN consults[r] : consults[r][i].read # "strict",
           SilentInv(q, consults[r], atCall[r]), NextTurn(r, q)
    PROVE  IInv'
<1>. DEFINE n == Len(q.todo)
            open == {i \in 1 .. n : OwnerOf[q.todo[i]] \notin q.consultedOwners}
<1>1. /\ n \in Nat /\ DOMAIN q.todo = 1 .. n /\ q.todo \in Seq(Leases)
      /\ \A i \in 1 .. n : q.todo[i] \in Leases
  BY LenProperties, ElementOfSeq DEF Records
<1>2. q.at.session = s
  BY Kinds
<1>3. PICK b \in Fetches : b = sessions[s].baseline
  BY SessionType DEF IInv
<1>4. ASSUME NEW l \in Leases, NEW i \in 1 .. n, q.todo[i] = l, i \notin open
      PROVE  Met(consults[r], filtered[r], l)
  BY <1>4 DEF Met
<1>5. PICK a \in Logs : a = atCall[r] /\ atCall' = [atCall EXCEPT ![r] = a]
  BY RequestType DEF IInv, TypeInv
<1>6. CASE open = {}
  <2>1. PICK p : p = [q EXCEPT !.phase = "call", !.at = b]
    OBVIOUS
  <2>2. /\ Become(r, p) /\ Sent(p, q, "call", b) /\ UNCHANGED log
    BY <1>2, <1>3, <1>6, <2>1, Sends DEF NextTurn, log
  <2>3. MeetInv(p, consults[r], filtered[r], atCall[r])
    <3>1. ASSUME NEW l \in Due(atCall[r]), InList(l, q.todo)
          PROVE  Met(consults[r], filtered[r], l)
      BY <1>1, <1>4, <1>6, <3>1 DEF InList, Due, Held
    <3>. QED
      BY <1>3, <2>2, <3>1 DEF MeetInv, Sent, Turn
  <2>4. ConsultInv(p, consults[r]) /\ SilentInv(p, consults[r], atCall[r])
    BY <2>2 DEF ConsultInv, SilentInv, Sent, Turn
  <2>. QED
    BY <2>2, <2>3, <2>4, QuietStep DEF Good, Sent
<1>7. CASE open # {}
  <2>1. PICK i \in 1 .. n : /\ i = NewestOf(open) /\ i \in open
                            /\ \A j \in 1 .. n : j > i => j \notin open
    <3>. HIDE DEF open
    <3>1. open \subseteq 1 .. n
      BY DEF open
    <3>2. NewestOf(open) \in open /\ \A j \in open : NewestOf(open) >= j
      BY <1>1, <1>7, <3>1, NewestIsOpen
    <3>. QED
      BY <1>1, <3>1, <3>2
  <2>2. PICK l \in Leases : l = q.todo[i]
    BY <1>1
  <2>3. PICK list \in Seq(Leases) :
           /\ list = SubSeq(q.todo, 1, i - 1) /\ DOMAIN list = 1 .. i - 1
           /\ \A j \in 1 .. i - 1 : j \in 1 .. n /\ list[j] = q.todo[j]
    <3>1. PICK todo \in Seq(Leases) : todo = q.todo
      BY <1>1
    <3>2. i \in DOMAIN todo
      BY <1>1, <2>1, <3>1
    <3>3. /\ SubSeq(todo, 1, i - 1) \in Seq(Leases)
          /\ DOMAIN SubSeq(todo, 1, i - 1) = 1 .. i - 1
          /\ \A j \in 1 .. i - 1 : j \in DOMAIN todo /\ SubSeq(todo, 1, i - 1)[j] = todo[j]
      BY <3>2, OlderOnes
    <3>. QED
      BY <1>1, <3>1, <3>3
  <2>4. PICK read \in Options : read = options[l]
    BY DEF IInv, TypeInv
  <2>5. PICK turn : turn = [[q EXCEPT !.todo = list] EXCEPT !.lease = {l}, !.read = read]
    OBVIOUS
  <2>6. CallInterceptor(r, [q EXCEPT !.todo = list], l)
    BY <1>7, <2>1, <2>2, <2>3 DEF NextTurn
  <2>. DEFINE Left(c, f, k) == Met(c, f, k) \/ InList(k, list) \/ OnWay(b, k)
  <2>7. \A k \in Due(atCall[r]) : k = l \/ Left(consults[r], filtered[r], k)
    <3>1. ASSUME NEW k \in Due(atCall[r]), NEW j \in 1 .. n, q.todo[j] = k, j # i
          PROVE  InList(k, list) \/ Met(consults[r], filtered[r], k)
      <4>1. CASE j < i
        <5>1. j \in 1 .. i - 1
          BY <1>1, <4>1
        <5>. QED
          BY <2>3, <3>1, <5>1 DEF InList
      <4>2. CASE j > i
        BY <1>4, <2>1, <3>1, <4>2 DEF Due, Held
      <4>. QED
        BY <1>1, <2>1, <3>1, <4>1, <4>2
    <3>. QED
      BY <1>1, <1>3, <2>2, <3>1 DEF InList
  <2>8. \A j \in DOMAIN list : list[j] \notin a.restored
    BY <1>1, <1>5, <2>3 DEF SilentInv
  <2>9. l \notin a.restored
    BY <1>1, <1>5, <2>2 DEF SilentInv
  <2>10. CASE read = "exclude"
    <3>1. PICK p : p = [turn EXCEPT !.phase = "filtered"]
      OBVIOUS
    <3>2. Asked(p, q, "filtered", list, l, read)
      BY <2>4, <2>5, <3>1, Asks
    <3>3. /\ Become(r, p) /\ UNCHANGED consults
          /\ filtered' = [filtered EXCEPT ![r] = filtered[r] \cup {l}]
      BY <2>4, <2>5, <2>6, <2>10, <3>1 DEF CallInterceptor
    <3>4. PICK f \in SUBSET Leases : f = filtered[r] \cup {l}
      BY RequestType
    <3>5. MeetInv(p, consults[r], f, a)
      BY <1>2, <1>3, <1>5, <2>7, <3>2, <3>4 DEF MeetInv, Asked, Turn, Met
    <3>6. ConsultInv(p, consults[r]) /\ SilentInv(p, consults[r], a)
      BY <1>5, <2>8, <3>2 DEF ConsultInv, SilentInv, Asked, Turn
    <3>7. consults' = [consults EXCEPT ![r] = consults[r]]
      BY <3>3 DEF IInv, TypeInv
    <3>. QED
      BY <1>5, <3>2, <3>3, <3>4, <3>5, <3>6, <3>7, OneRequest, RequestType DEF Good, Asked
  <2>11. CASE read # "exclude" /\ ~q.supported
    <3>1. PICK p : p = [turn EXCEPT !.phase = "failed"]
      OBVIOUS
    <3>2. Asked(p, q, "failed", list, l, read)
      BY <2>4, <2>5, <3>1, Asks
    <3>3. Become(r, p) /\ UNCHANGED log
      BY <2>4, <2>5, <2>6, <2>11, <3>1 DEF CallInterceptor, log
    <3>4. MeetInv(p, consults[r], filtered[r], a)
      BY <3>2 DEF MeetInv, Asked, Turn
    <3>5. ConsultInv(p, consults[r]) /\ SilentInv(p, consults[r], a)
      BY <1>5, <2>8, <3>2 DEF ConsultInv, SilentInv, Asked, Turn
    <3>. QED
      BY <1>5, <3>2, <3>3, <3>4, <3>5, QuietStep DEF Good, Asked
  <2>12. CASE read # "exclude" /\ q.supported
    <3>1. PICK p : p = [turn EXCEPT !.phase = "admitted", !.held = TRUE]
      OBVIOUS
    <3>2. Asked(p, q, "admitted", list, l, read)
      BY <2>4, <2>5, <3>1, Asks
    <3>3. PICK e \in Entry : e = [lease |-> l, read |-> read] /\ e.lease = l /\ e.read = read
      <4>1. [lease |-> l, read |-> read] \in Entry
        BY DEF Entry
      <4>. QED
        BY <4>1
    <3>4. /\ Become(r, p) /\ UNCHANGED filtered
          /\ consults' = [consults EXCEPT ![r] = Append(consults[r], e)]
      BY <2>4, <2>5, <2>6, <2>12, <3>1, <3>3 DEF CallInterceptor
    <3>5. PICK old \in Seq(Entry) : old = consults[r]
      BY RequestType
    <3>6. PICK c \in Seq(Entry) :
             /\ c = Append(old, e) /\ DOMAIN c = 1 .. Len(old) + 1 /\ DOMAIN old = 1 .. Len(old)
             /\ \A j \in 1 .. Len(old) : c[j] = old[j]
             /\ c[Len(old) + 1] = e
      <4>1. /\ Append(old, e) \in Seq(Entry) /\ Len(Append(old, e)) = Len(old) + 1
            /\ \A j \in 1 .. Len(old) : Append(old, e)[j] = old[j]
            /\ Append(old, e)[Len(old) + 1] = e
        BY AppendProperties
      <4>2. DOMAIN Append(old, e) = 1 .. Len(old) + 1 /\ DOMAIN old = 1 .. Len(old)
        BY <4>1, LenProperties
      <4>. QED
        BY <4>1, <4>2
    <3>7. /\ \A j \in DOMAIN c : c[j] = e \/ \E k \in DOMAIN old : c[j] = old[k]
          /\ \A owner : Consulted(old, owner) => Consulted(c, owner)
          /\ Consulted(c, OwnerOf[l])
      <4>1. Len(old) \in Nat
        BY LenProperties
      <4>. QED
        BY <3>3, <3>6, <4>1 DEF Consulted
    <3>8. MeetInv(p, c, filtered[r], a)
      BY <1>2, <1>3, <1>5, <2>7, <3>2, <3>5, <3>7 DEF MeetInv, Asked, Turn, Met
    <3>9. ConsultInv(p, c)
      BY <3>2, <3>3, <3>5, <3>7 DEF ConsultInv, Asked, Turn
    <3>10. SilentInv(p, c, a)
      BY <1>5, <2>8, <2>9, <3>2, <3>3, <3>5, <3>7 DEF SilentInv, Asked
    <3>11. filtered' = [filtered EXCEPT ![r] = filtered[r]]
      BY <3>4 DEF IInv, TypeInv
    <3>. QED
      BY <1>5, <3>2, <3>4, <3>5, <3>6, <3>8, <3>9, <3>10, <3>11, OneRequest, RequestType
         DEF Good, Asked
  <2>. QED
    BY <2>10, <2>11, <2>12
<1>. QED
  BY <1>6, <1>7

\* The request whose loop starts, and the one whose interceptor returned.
Looping(q, p, list, owners) ==
    q \in Records /\ q.at = p.at /\ q.todo = list /\ q.consultedOwners = owners

LEMMA Turns ==
    ASSUME NEW p \in Records, NEW list \in Seq(Leases), NEW owners \in SUBSET Mocks
    PROVE  Looping([p EXCEPT !.todo = list, !.consultedOwners = owners], p, list, owners)
BY DEF Looping, Records

LEMMA Returns ==
    ASSUME NEW p \in Records, NEW owners \in SUBSET Mocks
    PROVE  Looping([p EXCEPT !.consultedOwners = owners], p, p.todo, owners)
BY DEF Looping, Records

\* A dispatcher asks the leases its session has now; without any, it calls what
\* it replaced.
LEMMA DispatchFetchKeeps == ASSUME IInv, NEW r \in Requests, DispatchFetch(r) PROVE IInv'
<1>1. PICK s \in 1 .. Len(sessions) : req[r].at = Dispatch(s)
  BY RequestType, Kinds DEF DispatchFetch, Records, Fetches
<1>2. req[r].at.session = s /\ req[r].phase = "call"
  BY <1>1, Kinds DEF DispatchFetch
<1>3. PICK list \in Seq(Leases), b \in Fetches :
         list = sessions[s].interceptors /\ b = sessions[s].baseline
  BY SessionType DEF IInv
<1>4. UNCHANGED <<fetch, leases, thirdParty, atCall>>
  BY DEF DispatchFetch
<1>5. ASSUME NEW l \in Due(atCall[r])
      PROVE  Met(consults[r], filtered[r], l) \/ InList(l, list) \/ OnWay(b, l)
  <2>1. Met(consults[r], filtered[r], l) \/ OnWay(Dispatch(s), l)
    BY <1>1, <1>2, RequestType DEF Good, MeetInv
  <2>2. CASE heldBy[l] = s
    BY <1>3, <2>2 DEF IInv, ListInv, Due, Held
  <2>3. CASE heldBy[l] # s
    <3>1. Below(Dispatch(s)) = {b} /\ Dispatch(s) \in Fetches /\ Dispatch(heldBy[l]) # Dispatch(s)
      BY <1>3, <2>3, Calls, FetchesHave, Differ
    <3>. QED
      BY <2>1, <3>1, OnWayBelow DEF IInv
  <2>. QED
    BY <2>2, <2>3
<1>6. CASE list = <<>>
  <2>1. PICK q : q = [req[r] EXCEPT !.at = b]
    OBVIOUS
  <2>2. Become(r, q) /\ UNCHANGED log /\ Sent(q, req[r], "call", b)
    BY <1>2, <1>3, <1>6, <2>1, RequestType, Sends DEF DispatchFetch, Snapshot, log
  <2>3. ~\E l : InList(l, list)
    BY <1>6 DEF InList
  <2>4. MeetInv(q, consults[r], filtered[r], atCall[r])
    BY <1>5, <2>2, <2>3 DEF MeetInv, Sent, Turn
  <2>5. ConsultInv(q, consults[r]) /\ SilentInv(q, consults[r], atCall[r])
    BY <1>2, <2>2, RequestType DEF Good, ConsultInv, SilentInv, Sent, Turn
  <2>. QED
    BY <1>4, <2>2, <2>4, <2>5, QuietStep DEF Good, Sent
<1>7. CASE list # <<>> /\ req[r].aborted
  <2>1. Become(r, [req[r] EXCEPT !.phase = "failed"]) /\ UNCHANGED log
    BY <1>2, <1>3, <1>7 DEF DispatchFetch, Snapshot, log
  <2>. QED
    BY <1>4, <2>1, RequestType, Moves, MoveKeeps DEF Phases, Final
<1>8. CASE list # <<>> /\ ~req[r].aborted
  <2>1. PICK q : q = [req[r] EXCEPT !.todo = list, !.consultedOwners = {}]
    OBVIOUS
  <2>2. /\ q \in Records /\ q.at = Dispatch(s) /\ q.todo = list /\ q.consultedOwners = {}
        /\ NextTurn(r, q)
    <3>1. q \in Records /\ q.at = req[r].at /\ q.todo = list /\ q.consultedOwners = {}
      <4>1. PICK owners \in SUBSET Mocks : owners = {}
        OBVIOUS
      <4>2. PICK p \in Records : p = req[r]
        BY RequestType
      <4>3. q = [p EXCEPT !.todo = list, !.consultedOwners = owners]
        BY <2>1, <4>1, <4>2
      <4>4. Looping(q, p, list, owners)
        BY <4>3, Turns
      <4>. QED
        BY <4>1, <4>2, <4>4 DEF Looping
    <3>2. NextTurn(r, q)
      BY <1>2, <1>3, <1>8, <2>1 DEF DispatchFetch, Snapshot
    <3>. QED
      BY <1>1, <3>1, <3>2
  <2>3. \A i \in DOMAIN list : list[i] \notin atCall[r].restored
    <3>1. ASSUME NEW i \in DOMAIN list PROVE list[i] \in Leases /\ InList(list[i], list)
      BY <3>1, LenProperties, ElementOfSeq DEF InList
    <3>. QED
      BY <1>3, <3>1, RequestType DEF IInv, ListInv, Good, SilentInv
  <2>4. SilentInv(q, consults[r], atCall[r])
    BY <2>2, <2>3, RequestType DEF Good, SilentInv
  <2>5. \A i \in DOMAIN consults[r] : consults[r][i].read # "strict"
    BY <1>2, RequestType DEF Good, ConsultInv
  <2>. QED
    BY <1>3, <1>4, <1>5, <2>2, <2>4, <2>5, TurnKeeps
<1>. QED
  BY <1>6, <1>7, <1>8

\* The loop goes on with what the interceptor returned.
LEMMA ResumeKeeps == ASSUME IInv, NEW r \in Requests, Resume(r) PROVE IInv'
<1>1. UNCHANGED <<fetch, leases, thirdParty, atCall>>
  BY DEF Resume
<1>2. CASE req[r].phase = "answered"
  <2>1. Become(r, [req[r] EXCEPT !.phase = "mocked"]) /\ UNCHANGED log
    BY <1>2 DEF Resume, log
  <2>. QED
    BY <1>1, <1>2, <2>1, RequestType, Moves, MoveKeeps DEF Phases, Final
<1>3. CASE req[r].phase \in {"filtered", "passed"}
  <2>1. PICK owners : owners = ConsultedAfter(req[r])
    OBVIOUS
  <2>2. /\ owners \in SUBSET Mocks
        /\ \A owner \in owners : Consulted(consults[r], owner)
    <3>1. req[r].consultedOwners \in SUBSET Mocks /\ req[r].lease \in SUBSET Leases
      BY RequestType DEF Records
    <3>2. \A l \in Leases : OwnerOf[l] \in Mocks
      BY OwnerAssumption
    <3>3. /\ \A owner \in req[r].consultedOwners : Consulted(consults[r], owner)
          /\ req[r].phase = "passed" => \A l \in req[r].lease : Consulted(consults[r], OwnerOf[l])
      BY <1>3, RequestType DEF Good, ConsultInv, Turn
    <3>. QED
      BY <2>1, <3>1, <3>2, <3>3 DEF ConsultedAfter
  <2>3. PICK q : q = [req[r] EXCEPT !.consultedOwners = owners]
    OBVIOUS
  <2>4. /\ q \in Records /\ q.at = req[r].at /\ q.todo = req[r].todo /\ q.consultedOwners = owners
        /\ NextTurn(r, q)
    <3>1. Looping(q, req[r], req[r].todo, owners)
      BY <2>2, <2>3, RequestType, Returns
    <3>2. NextTurn(r, q)
      BY <1>3, <2>1, <2>3 DEF Resume
    <3>. QED
      BY <3>1, <3>2 DEF Looping
  <2>5. PICK s \in 1 .. Len(sessions) : q.at = Dispatch(s)
    BY <1>3, <2>4, RequestType DEF Good, MeetInv, Turn
  <2>6. \A l \in Due(atCall[r]) :
           \/ Met(consults[r], filtered[r], l) \/ InList(l, q.todo)
           \/ OnWay(sessions[s].baseline, l)
    <3>1. req[r].at.session = s
      BY <2>4, <2>5, Kinds
    <3>. QED
      BY <1>3, <2>4, <3>1, RequestType DEF Good, MeetInv, Turn
  <2>7. SilentInv(q, consults[r], atCall[r])
    BY <2>4, RequestType DEF Good, SilentInv
  <2>8. \A i \in DOMAIN consults[r] : consults[r][i].read # "strict"
    BY <1>3, RequestType DEF Good, ConsultInv
  <2>. QED
    BY <1>1, <2>2, <2>4, <2>5, <2>6, <2>7, <2>8, TurnKeeps
<1>. QED
  BY <1>2, <1>3 DEF Resume

-----------------------------------------------------------------------------
(* The invariant of the specification, and what follows from it. *)

LEMMA RequestKeeps ==
    ASSUME IInv, NEW r \in Requests,
           Call(r) \/ Abort(r) \/ RequestStep(r) \/ UserCodeStep(r)
    PROVE  IInv'
BY HandlingKeeps, CallKeeps, CallWrapperKeeps, DispatchFetchKeeps, ResumeKeeps
   DEF RequestStep, UserCodeStep

LEMMA InterceptKeeps ==
    ASSUME IInv, NEW l \in Leases, NEW o \in Options, Intercept(l, o) PROVE IInv'
BY JoinKeeps, OpenKeeps

LEMMA StutterKeeps == ASSUME IInv, UNCHANGED vars PROVE IInv'
<1>1. Grows /\ Fetches' = Fetches
  BY DEF Grows, Fetches, IInv, TypeInv, vars, leases, thirdParty
<1>2. TypeInv' /\ ListInv'
  BY <1>1 DEF IInv, TypeInv, ListInv, Records, vars, leases, thirdParty, log
<1>3. WayInv'
  BY <1>1 DEF IInv, WayInv, OnWay, Ways, Held, Below, vars, leases, thirdParty
<1>4. RequestInv'
  BY <1>1, RequestsStay DEF IInv, vars
<1>. QED
  BY <1>2, <1>3, <1>4 DEF IInv

LEMMA NextKeeps == ASSUME IInv, [Next]_vars PROVE IInv'
<1>1. ASSUME NEW l \in Leases, NEW o \in Given[l], Intercept(l, o) \/ Update(l, o) PROVE IInv'
  BY <1>1, GivenAssumption, InterceptKeeps, UpdateKeeps
<1>. QED
  BY <1>1, RestoreKeeps, WrapKeeps, UnwrapKeeps, RequestKeeps, StutterKeeps DEF Next

LEMMA InitHolds == Init => IInv
<1>. SUFFICES ASSUME Init PROVE IInv
  OBVIOUS
<1>1. sessions = <<>> /\ Len(sessions) = 0 /\ Held = {}
  BY DEF Init, Held
<1>2. TypeInv
  BY <1>1, FetchesHave DEF Init, TypeInv, Records, Phases, Options
<1>3. ListInv /\ WayInv
  BY <1>1 DEF Init, ListInv, WayInv
<1>4. RequestInv
  BY <1>1 DEF Init, RequestInv, Good, MeetInv, ConsultInv, SilentInv, Due, Turn
<1>. QED
  BY <1>2, <1>3, <1>4 DEF IInv

LEMMA NoneForgotten == ASSUME IInv PROVE NoLeaseForgotten
<1>1. \A way \in Ways(fetch) : \A l \in Held : Dispatch(heldBy[l]) \in way
  BY DEF IInv, WayInv, OnWay
<1>2. \A r \in Requests : DOMAIN consults[r] = 1 .. Len(consults[r])
  BY RequestType, LenProperties
<1>3. ASSUME NEW r \in Requests, req[r].phase = "real"
      PROVE  /\ \A l \in Held \cap atCall[r].held :
                   \/ l \in filtered[r]
                   \/ \E i \in 1 .. Len(consults[r]) :
                         OwnerOf[consults[r][i].lease] = OwnerOf[l]
             /\ \A i \in 1 .. Len(consults[r]) : consults[r][i].read # "strict"
  BY <1>2, <1>3, RequestType DEF Good, MeetInv, ConsultInv, Met, Consulted, Due
<1>4. ASSUME NEW r \in Requests, NEW i \in 1 .. Len(consults[r])
      PROVE  consults[r][i].lease \notin atCall[r].restored
  BY <1>2, RequestType DEF Good, SilentInv
<1>. QED
  BY <1>1, <1>3, <1>4 DEF NoLeaseForgotten

\* The invariant holds, whatever takes and releases the leases.
THEOREM Invariance == Spec => []IInv
<1>. QED
  BY InitHolds, NextKeeps, PTL DEF Spec

\* intercept(), restore() and dispatchFetch() of packages/core/src/interceptor.ts:
\* a new request passes through the dispatchers of all leases that are held; one
\* that ends at the real fetch met each of them and none that was strict; and a
\* restored lease is silent.
THEOREM NothingForgotten == Spec => []NoLeaseForgotten
<1>. QED
  BY Invariance, NoneForgotten, PTL

-----------------------------------------------------------------------------
(* The adapters. *)

Todo == [at : Providers, do : {"lease", "update", "release"}]

\* What the adapters know: components give options there are, and a handle is
\* on a lease.
AdaptersInv ==
    /\ props \in [Providers -> SUBSET Rendered]
    /\ optionsRef \in [Providers -> Options]
    /\ handle \in [Providers \cup Apps -> SUBSET Leases]
    /\ effects \in Seq(Todo)

LEMMA EffectLists ==
    ASSUME NEW p \in Providers
    PROVE  /\ SetUp(p) \in Seq(Todo) /\ CleanUp(p) \in Seq(Todo) /\ <<>> \in Seq(Todo)
           /\ SetUp(p) \o CleanUp(p) \o SetUp(p) \in Seq(Todo)
           /\ SetUp(p) \o (CleanUp(p) \o SetUp(p)) \in Seq(Todo)
           /\ SetUp(p) \o <<>> \in Seq(Todo)
           /\ \A old, new : Changed(p, old, new) \in Seq(Todo)
<1>1. \A name \in {"lease", "update", "release"} : Effect(p, name) \in Todo
  BY DEF Effect, Todo
<1>2. /\ SetUp(p) \in Seq(Todo) /\ CleanUp(p) \in Seq(Todo) /\ <<>> \in Seq(Todo)
      /\ <<Effect(p, "lease")>> \in Seq(Todo) /\ <<Effect(p, "update")>> \in Seq(Todo)
  BY <1>1 DEF SetUp, CleanUp
<1>3. \A e, f \in Seq(Todo) : e \o f \in Seq(Todo)
  BY ConcatProperties
<1>. QED
  BY <1>2, <1>3 DEF Changed

LEMMA LeaseEffectKeeps ==
    ASSUME IInv, AdaptersInv, NEW p \in Providers,
           Lease(p) \/ UpdateLease(p) \/ (Release(p) /\ UNCHANGED optionsRef)
    PROVE  /\ IInv' /\ optionsRef' \in [Providers -> Options]
           /\ handle' \in [Providers \cup Apps -> SUBSET Leases]
<1>0. \A given \in props[p] : given.options \in Options
  BY OfferedAssumption DEF AdaptersInv, Rendered
<1>1. CASE Lease(p)
  <2>1. PICK l \in Leases : /\ Intercept(l, optionsRef[p]) /\ UNCHANGED optionsRef
                            /\ handle' = [handle EXCEPT ![p] = {l}]
    BY <1>1 DEF Lease, Free
  <2>. QED
    BY <2>1, InterceptKeeps DEF AdaptersInv
<1>2. CASE UpdateLease(p)
  <2>1. PICK o \in Options : /\ optionsRef' = [optionsRef EXCEPT ![p] = o]
                             /\ (\E l \in handle[p] : Update(l, o)) \/ UNCHANGED vars
                             /\ UNCHANGED handle
    BY <1>0, <1>2 DEF UpdateLease
  <2>2. \A l \in handle[p] : l \in Leases
    BY DEF AdaptersInv
  <2>. QED
    BY <2>1, <2>2, UpdateKeeps, StutterKeeps DEF AdaptersInv
<1>3. CASE Release(p) /\ UNCHANGED optionsRef
  <2>1. PICK l \in Leases : Restore(l)
    BY <1>3 DEF Release, AdaptersInv
  <2>. QED
    BY <1>3, <2>1, RestoreKeeps DEF Release, AdaptersInv
<1>. QED
  BY <1>1, <1>2, <1>3

\* The React provider, the Vue plugin and user code take and release leases as
\* any caller may, one effect after another.
LEMMA AdaptersKeep ==
    ASSUME IInv, AdaptersInv, [AdaptersNext]_<<vars, adapters>>
    PROVE  IInv' /\ AdaptersInv'
<1>1. ASSUME NEW p \in Providers, Mount(p) PROVE IInv' /\ AdaptersInv'
  <2>1. PICK new \in Rendered, strict \in BOOLEAN :
           /\ props' = [props EXCEPT ![p] = {new}]
           /\ optionsRef' = [optionsRef EXCEPT ![p] = new.options]
           /\ effects' = SetUp(p) \o IF strict THEN CleanUp(p) \o SetUp(p) ELSE <<>>
    BY <1>1 DEF Mount
  <2>2. new.options \in Options
    BY OfferedAssumption DEF Rendered
  <2>3. effects' \in Seq(Todo)
    BY <2>1, EffectLists
  <2>4. UNCHANGED <<vars, handle>>
    BY <1>1 DEF Mount
  <2>. QED
    BY <2>1, <2>2, <2>3, <2>4, StutterKeeps DEF AdaptersInv
<1>2. ASSUME NEW p \in Providers, Rerender(p) PROVE IInv' /\ AdaptersInv'
  <2>1. PICK old \in props[p], new \in Rendered :
           /\ props' = [props EXCEPT ![p] = {new}]
           /\ effects' = IF p \in shown THEN Changed(p, old, new) ELSE <<>>
    BY <1>2 DEF Rerender
  <2>2. UNCHANGED <<vars, optionsRef, handle>>
    BY <1>2 DEF Rerender
  <2>. QED
    BY <2>1, <2>2, EffectLists, StutterKeeps DEF AdaptersInv
<1>3. ASSUME NEW p \in Providers, Unmount(p) \/ Reveal(p) PROVE IInv' /\ AdaptersInv'
  <2>1. /\ props' = [props EXCEPT ![p] = {}] \/ UNCHANGED props
        /\ effects' \in {SetUp(p), CleanUp(p), <<>>}
        /\ UNCHANGED <<vars, optionsRef, handle>>
    BY <1>3 DEF Unmount, Reveal
  <2>. QED
    BY <2>1, EffectLists, StutterKeeps DEF AdaptersInv
<1>4. ASSUME RunEffect PROVE IInv' /\ AdaptersInv'
  <2>1. effects # <<>> /\ effects' = Tail(effects) /\ UNCHANGED props
    BY <1>4 DEF RunEffect, Idle
  <2>2. effects' \in Seq(Todo) /\ Head(effects) \in Todo
    BY <2>1, HeadTailProperties DEF AdaptersInv
  <2>3. PICK p \in Providers :
           Lease(p) \/ UpdateLease(p) \/ (Release(p) /\ UNCHANGED optionsRef)
    BY <1>4, <2>2 DEF RunEffect, Todo
  <2>. QED
    BY <2>1, <2>2, <2>3, LeaseEffectKeeps DEF AdaptersInv
<1>5. ASSUME NEW a \in Apps, Install(a) PROVE IInv' /\ AdaptersInv'
  <2>1. PICK l \in Leases, o \in Offered :
           Intercept(l, o) /\ handle' = [handle EXCEPT ![a] = {l}]
    BY <1>5 DEF Install
  <2>2. UNCHANGED <<props, optionsRef, effects>>
    BY <1>5 DEF Install
  <2>. QED
    BY <2>1, <2>2, OfferedAssumption, InterceptKeeps DEF AdaptersInv
<1>6. ASSUME NEW a \in Apps, MountApp(a) PROVE IInv' /\ AdaptersInv'
  BY <1>6, StutterKeeps DEF MountApp, AdaptersInv
<1>7. ASSUME NEW a \in Apps, RestoreApp(a) PROVE IInv' /\ AdaptersInv'
  <2>1. PICK l \in Leases : Restore(l)
    BY <1>7 DEF RestoreApp, Release, AdaptersInv
  <2>. QED
    BY <1>7, <2>1, RestoreKeeps DEF RestoreApp, Release, AdaptersInv
<1>8. ASSUME UserLeases PROVE IInv' /\ AdaptersInv'
  <2>1. PICK l \in Leases : Restore(l) \/ \E o \in Given[l] : Intercept(l, o) \/ Update(l, o)
    BY <1>8 DEF UserLeases
  <2>2. UNCHANGED <<props, optionsRef, handle, effects>>
    BY <1>8 DEF UserLeases
  <2>. QED
    BY <2>1, <2>2, GivenAssumption, InterceptKeeps, RestoreKeeps, UpdateKeeps DEF AdaptersInv
<1>9. ASSUME Elsewhere PROVE IInv' /\ AdaptersInv'
  <2>1. AdaptersInv'
    BY <1>9 DEF Elsewhere, adapters, AdaptersInv
  <2>. QED
    BY <1>9, <2>1, WrapKeeps, UnwrapKeeps, RequestKeeps DEF Elsewhere
<1>10. ASSUME UNCHANGED <<vars, adapters>> PROVE IInv' /\ AdaptersInv'
  BY <1>10, StutterKeeps DEF adapters, AdaptersInv
<1>. QED
  BY <1>1, <1>2, <1>3, <1>4, <1>5, <1>6, <1>7, <1>8, <1>9, <1>10 DEF AdaptersNext

LEMMA AdaptersStart == AdaptersInit => IInv /\ AdaptersInv
BY InitHolds DEF AdaptersInit, AdaptersInv, Options

THEOREM AdaptersInvariance == AdaptersSpec => [](IInv /\ AdaptersInv)
<1>. QED
  BY AdaptersStart, AdaptersKeep, PTL DEF AdaptersSpec

\* The same of the leases that the React provider (packages/react/src/index.ts),
\* the Vue plugin (packages/vue/src/index.ts) and user code take together.
THEOREM NothingForgottenByAdapters == AdaptersSpec => []NoLeaseForgotten
<1>. QED
  BY AdaptersInvariance, NoneForgotten, PTL

-----------------------------------------------------------------------------
(* What intercepts follows its owners. *)

Parties == Providers \cup Apps

Running(a) == apps[a] \in {"installed", "mounted"}
\* A commit is at work on provider p; it will release its lease.
Busy(p) == \E i \in DOMAIN effects : effects[i].at = p
Leaving(a) == \E i \in DOMAIN effects : effects[i].at = a /\ effects[i].do = "release"

\* Every lease that is held is that of one provider, one app or user code.
OwnerInv ==
    /\ users \subseteq Leases /\ \A l \in users : heldBy[l] # 0
    /\ \A a \in Parties : \A l \in handle[a] : l \in Held /\ l \notin users
    /\ \A a, b \in Parties : handle[a] \cap handle[b] # {} => a = b
    /\ \A l \in Held : l \in users \/ \E a \in Parties : l \in handle[a]

\* The provider has the lease that it was rendered for.
Follows(p) ==
    \E given \in props[p], l \in Leases :
        /\ handle[p] = {l} /\ OwnerOf[l] = given.mock
        /\ options[l] = given.options /\ optionsRef[p] = given.options

ProviderInv(p) ==
    /\ props[p] = {} \/ \E given \in Rendered : props[p] = {given}
    /\ p \in shown => props[p] # {}
    /\ ~Busy(p) => IF p \in shown THEN Follows(p) ELSE handle[p] = {}
ProvidersInv == \A p \in Providers : ProviderInv(p)
AppsInv ==
    /\ apps \in [Apps -> {"new", "installed", "mounted", "over"}]
    /\ \A a \in Apps : IF Running(a) THEN \E l \in Leases : handle[a] = {l}
                                      ELSE handle[a] = {}

Successions == {<<"lease", "update">>, <<"update", "release">>, <<"release", "lease">>}

\* A commit is about one provider.  A lease is updated once it was taken, then
\* released, if at all, and then taken again; the last effect leaves a provider
\* that is shown with its lease, and with its options.
PlanInv ==
    /\ \A i \in DOMAIN effects :
          /\ effects[i].at = effects[1].at
          /\ i + 1 \in DOMAIN effects =>
                <<effects[i].do, effects[i + 1].do>> \in Successions
    /\ effects # <<>> =>
          LET p == effects[1].at IN
          /\ IF effects[1].do = "lease" THEN handle[p] = {} ELSE \E l \in Leases : handle[p] = {l}
          /\ effects[1].do = "update" =>
                \E given \in props[p] : \A l \in handle[p] : OwnerOf[l] = given.mock
          /\ effects[Len(effects)].do = "release" <=> p \notin shown
          /\ effects[Len(effects)].do = "lease" =>
                \A given \in props[p] : optionsRef[p] = given.options

\* Those who arrived are there, and a provider that is about to take a lease is
\* the last of them.
ArrivalInv ==
    /\ arrivals \in Seq(Parties \cup Leases) /\ IsInjective(arrivals)
    /\ \A p \in Providers : InList(p, arrivals) <=> p \in shown
    /\ \A a \in Apps : InList(a, arrivals) <=> Running(a)
    /\ \A l \in Leases : InList(l, arrivals) <=> l \in users /\ l \notin restored
    /\ \A i \in DOMAIN effects : effects[i].do = "lease" =>
          \A a : InList(a, arrivals) /\ a # effects[i].at => Precedes(a, effects[i].at, arrivals)

OrderInv ==
    \A s \in 1 .. Len(sessions) : \A k, l \in Leases :
        Precedes(k, l, sessions[s].interceptors) =>
            \A a \in OwnersOf(k), b \in OwnersOf(l) :
                Leaving(a) \/ Leaving(b) \/ Precedes(a, b, arrivals)

\* Without other code there is one session, on top of the original.
NativeInv ==
    (\A w \in Wrappers : inner[w] = {}) =>
        \/ Held = {} /\ fetch = Native
        \/ /\ Held # {}
           /\ \E s \in 1 .. Len(sessions) :
                 /\ fetch = Dispatch(s) /\ activeSession = s
                 /\ sessions[s].baseline = Native
                 /\ \A l \in Held : heldBy[l] = s

FollowInv ==
    OwnerInv /\ ProvidersInv /\ AppsInv /\ PlanInv /\ ArrivalInv /\ OrderInv /\ NativeInv

-----------------------------------------------------------------------------
(* What a step of the interceptor means to owners. *)

LEMMA Departs ==
    ASSUME ArrivalInv, NEW o
    PROVE  /\ Others(o) \in Seq(Parties \cup Leases) /\ IsInjective(Others(o))
           /\ \A a : InList(a, Others(o)) <=> InList(a, arrivals) /\ a # o
           /\ \A a, b : Precedes(a, b, Others(o)) <=>
                           Precedes(a, b, arrivals) /\ a # o /\ b # o
<1>1. arrivals \in Seq(Parties \cup Leases) /\ IsInjective(arrivals)
  BY DEF ArrivalInv
<1>2. CASE o \in ToSet(arrivals)
  <2>1. PICK i \in DOMAIN arrivals : arrivals[i] = o /\ Others(o) = RemoveAt(arrivals, i)
    BY <1>2 DEF Others, ToSet
  <2>. QED
    BY <1>1, <2>1, SpliceOut
<1>3. CASE o \notin ToSet(arrivals)
  <2>1. Others(o) = arrivals /\ ~InList(o, arrivals)
    BY <1>3 DEF Others, ToSet, InList
  <2>2. \A a, b : Precedes(a, b, arrivals) => InList(a, arrivals) /\ InList(b, arrivals)
    BY DEF Precedes, InList
  <2>. QED
    BY <1>1, <2>1, <2>2
<1>. QED
  BY <1>2, <1>3

LEMMA Arrives ==
    ASSUME ArrivalInv, NEW o \in Parties \cup Leases, Arrive(o)
    PROVE  /\ arrivals' \in Seq(Parties \cup Leases) /\ IsInjective(arrivals')
           /\ \A a : InList(a, arrivals') <=> (a = o \/ InList(a, arrivals))
           /\ \A a, b : Precedes(a, b, arrivals') <=>
                           \/ Precedes(a, b, arrivals) /\ a # o /\ b # o
                           \/ InList(a, arrivals) /\ a # o /\ b = o
<1>. DEFINE rest == Others(o)
<1>1. /\ rest \in Seq(Parties \cup Leases) /\ IsInjective(rest)
      /\ \A a : InList(a, rest) <=> InList(a, arrivals) /\ a # o
      /\ \A a, b : Precedes(a, b, rest) <=> Precedes(a, b, arrivals) /\ a # o /\ b # o
  BY Departs
<1>2. arrivals' = Append(rest, o)
  BY DEF Arrive
<1>. HIDE DEF rest
<1>3. ~InList(o, rest)
  BY <1>1
<1>4. /\ arrivals' \in Seq(Parties \cup Leases) /\ IsInjective(arrivals')
      /\ \A a : InList(a, arrivals') <=> (a = o \/ InList(a, rest))
      /\ \A a, b : Precedes(a, b, arrivals') <=> (Precedes(a, b, rest) \/ (InList(a, rest) /\ b = o))
  BY <1>1, <1>2, <1>3, AppendKeepsOrder
<1>. QED
  BY <1>1, <1>4

\* A lease is taken: it comes after those that are held.
LEMMA Intercepts ==
    ASSUME IInv, NEW l \in Leases, NEW o \in Options, Intercept(l, o)
    PROVE  /\ heldBy[l] = 0 /\ l \notin restored
           /\ heldBy'[l] # 0 /\ \A k \in Leases : k # l => heldBy'[k] = heldBy[k]
           /\ Held' = Held \cup {l}
           /\ options' = [options EXCEPT ![l] = o] /\ options \in [Leases -> Options]
           /\ UNCHANGED <<restored, inner>>
           /\ \A s \in 1 .. Len(sessions') : \A j, k \in Leases :
                 Precedes(j, k, sessions'[s].interceptors) =>
                    \/ s \in 1 .. Len(sessions) /\ Precedes(j, k, sessions[s].interceptors)
                    \/ j \in Held /\ k = l
<1>. DEFINE New(s, j, k) ==
                Precedes(j, k, sessions'[s].interceptors) =>
                    \/ s \in 1 .. Len(sessions) /\ Precedes(j, k, sessions[s].interceptors)
                    \/ j \in Held /\ k = l
<1>1. /\ heldBy[l] = 0 /\ l \notin restored
      /\ options' = [options EXCEPT ![l] = o] /\ options \in [Leases -> Options]
      /\ UNCHANGED <<restored, inner>>
  BY DEF Intercept, IInv, TypeInv, ListInv, thirdParty
<1>2. PICK s \in 1 .. Len(sessions) + 1 : heldBy' = [heldBy EXCEPT ![l] = s]
  BY DEF Intercept, Joins, IInv, TypeInv
<1>3. heldBy'[l] # 0 /\ \A k \in Leases : k # l => heldBy'[k] = heldBy[k]
  BY <1>2 DEF IInv, TypeInv
<1>4. Held' = Held \cup {l}
  BY <1>1, <1>3 DEF Held
<1>5. \A t \in 1 .. Len(sessions) : \A j \in Leases :
         InList(j, sessions[t].interceptors) => j \in Held /\ j # l
  BY <1>1 DEF IInv, ListInv, Held
<1>6. CASE Joins
  <2>. DEFINE list == sessions[activeSession].interceptors
  <2>1. /\ activeSession \in 1 .. Len(sessions)
        /\ sessions' = [sessions EXCEPT ![activeSession].interceptors = Append(list, l)]
    BY <1>6 DEF Intercept, Joins, IInv, TypeInv
  <2>2. list \in Seq(Leases) /\ IsInjective(list) /\ ~InList(l, list)
    BY <1>5, <2>1, SessionType DEF IInv, ListInv
  <2>3. Append(list, l) \in Seq(Leases)
    BY <2>2, AppendKeepsOrder
  <2>4. /\ Len(sessions') = Len(sessions)
        /\ \A t \in 1 .. Len(sessions) :
              sessions'[t].interceptors = IF t = activeSession THEN Append(list, l)
                                          ELSE sessions[t].interceptors
    BY <2>1, <2>3, ListChanges DEF IInv
  <2>5. \A j, k : Precedes(j, k, Append(list, l)) <=> (Precedes(j, k, list) \/ (InList(j, list) /\ k = l))
    BY <2>2, AppendKeepsOrder
  <2>6. ASSUME NEW t \in 1 .. Len(sessions'), NEW j \in Leases, NEW k \in Leases PROVE New(t, j, k)
    BY <1>5, <2>1, <2>4, <2>5
  <2>. QED
    BY <1>1, <1>3, <1>4, <2>6
<1>7. CASE ~Joins
  <2>. DEFINE new == [baseline |-> fetch, interceptors |-> <<l>>]
  <2>1. sessions' = Append(sessions, new)
    BY <1>7 DEF Intercept
  <2>2. sessions \in Seq(Session) /\ new \in Session
    BY DEF IInv, TypeInv, Session
  <2>3. /\ Len(sessions) \in Nat /\ Len(sessions') = Len(sessions) + 1
        /\ \A t \in 1 .. Len(sessions) : sessions'[t] = sessions[t]
        /\ sessions'[Len(sessions) + 1].interceptors = <<l>>
    BY <2>1, <2>2, AppendProperties
  <2>4. \A j, k : ~Precedes(j, k, <<l>>)
    BY DEF Precedes
  <2>5. ASSUME NEW t \in 1 .. Len(sessions'), NEW j \in Leases, NEW k \in Leases PROVE New(t, j, k)
    <3>1. CASE t \in 1 .. Len(sessions)
      BY <2>3, <3>1
    <3>2. CASE t = Len(sessions) + 1
      BY <2>3, <2>4, <3>2
    <3>. QED
      BY <2>3, <3>1, <3>2
  <2>. QED
    BY <1>1, <1>3, <1>4, <2>5
<1>. QED
  BY <1>6, <1>7

\* A lease is released: the others stay in their order.
LEMMA Restores ==
    ASSUME IInv, NEW l \in Leases, Restore(l)
    PROVE  /\ l \in Held /\ Held' = Held \ {l} /\ restored' = restored \cup {l}
           /\ UNCHANGED <<heldBy, options, inner>>
           /\ Len(sessions') = Len(sessions)
           /\ \A s \in 1 .. Len(sessions) :
                 /\ sessions'[s].baseline = sessions[s].baseline
                 /\ \A j, k \in Leases :
                       Precedes(j, k, sessions'[s].interceptors) =>
                          j # l /\ k # l /\ Precedes(j, k, sessions[s].interceptors)
<1>1. /\ l \in Held /\ Held' = Held \ {l} /\ restored' = restored \cup {l}
      /\ UNCHANGED <<heldBy, options, inner>>
  BY DEF Restore, Held, thirdParty
<1>2. PICK s \in 1 .. Len(sessions) : s = heldBy[l]
  BY DEF Restore, IInv, TypeInv
<1>. DEFINE list == sessions[s].interceptors
<1>3. /\ list \in Seq(Leases) /\ IsInjective(list) /\ InList(l, list)
  BY <1>2, SessionType DEF IInv, ListInv, Restore
<1>4. PICK i \in DOMAIN list : list[i] = l /\ Without(s, l) = RemoveAt(list, i)
  BY <1>3 DEF Without, InList
<1>5. sessions' = [sessions EXCEPT ![s].interceptors = RemoveAt(list, i)]
  BY <1>2, <1>4 DEF Restore
<1>6. /\ RemoveAt(list, i) \in Seq(Leases)
      /\ \A j, k : Precedes(j, k, RemoveAt(list, i)) => Precedes(j, k, list) /\ j # l /\ k # l
  BY <1>3, <1>4, SpliceOut
<1>7. /\ Len(sessions') = Len(sessions)
      /\ \A t \in 1 .. Len(sessions) :
            /\ sessions'[t].baseline = sessions[t].baseline
            /\ sessions'[t].interceptors = IF t = s THEN RemoveAt(list, i)
                                           ELSE sessions[t].interceptors
  BY <1>5, <1>6, ListChanges DEF IInv
<1>8. ASSUME NEW t \in 1 .. Len(sessions), t # s, NEW j \in Leases, NEW k \in Leases,
             Precedes(j, k, sessions[t].interceptors)
      PROVE  j # l /\ k # l
  <2>1. InList(j, sessions[t].interceptors) /\ InList(k, sessions[t].interceptors)
    BY <1>8 DEF Precedes, InList
  <2>. QED
    BY <1>2, <1>8, <2>1 DEF IInv, ListInv
<1>. QED
  BY <1>1, <1>6, <1>7, <1>8

LEMMA Updates ==
    ASSUME IInv, NEW l \in Leases, NEW o \in Options, Update(l, o)
    PROVE  /\ l \in Held /\ Held' = Held
           /\ options' = [options EXCEPT ![l] = o] /\ options \in [Leases -> Options]
           /\ UNCHANGED <<sessions, heldBy, restored, inner, fetch, activeSession>>
BY DEF Update, Held, IInv, TypeInv, thirdParty

-----------------------------------------------------------------------------
(* The original function. *)

LEMMA NativeIntercepts ==
    ASSUME IInv, NativeInv, NEW l \in Leases, NEW o \in Options, Intercept(l, o)
    PROVE  NativeInv'
<1>. SUFFICES ASSUME \A w \in Wrappers : inner'[w] = {}
              PROVE  \E s \in 1 .. Len(sessions') :
                        /\ fetch' = Dispatch(s) /\ activeSession' = s
                        /\ sessions'[s].baseline = Native
                        /\ \A k \in Held' : heldBy'[k] = s
  BY Intercepts DEF NativeInv
<1>1. /\ \A w \in Wrappers : inner[w] = {}
      /\ Held' = Held \cup {l}
      /\ \A k \in Leases : k # l => heldBy'[k] = heldBy[k]
      /\ heldBy[l] = 0 /\ l \notin Held /\ Held \subseteq Leases
  BY Intercepts DEF Held
<1>2. CASE Held = {} /\ fetch = Native
  <2>. DEFINE new == [baseline |-> fetch, interceptors |-> <<l>>]
              s == Len(sessions) + 1
  <2>1. ~Joins
    BY <1>2, Differ DEF Joins
  <2>2. /\ sessions' = Append(sessions, new) /\ activeSession' = s /\ fetch' = Dispatch(s)
        /\ heldBy' = [heldBy EXCEPT ![l] = s]
    BY <2>1 DEF Intercept
  <2>3. sessions \in Seq(Session) /\ new \in Session /\ heldBy \in [Leases -> 0 .. Len(sessions)]
    BY DEF IInv, TypeInv, Session
  <2>4. /\ s \in 1 .. Len(sessions') /\ sessions'[s] = new
    BY <2>2, <2>3, AppendProperties
  <2>5. \A k \in Held' : heldBy'[k] = s
    BY <1>1, <1>2, <2>2, <2>3
  <2>. QED
    BY <1>2, <2>2, <2>4, <2>5
<1>3. CASE Held # {}
  <2>1. PICK s \in 1 .. Len(sessions) :
           /\ fetch = Dispatch(s) /\ activeSession = s
           /\ sessions[s].baseline = Native
           /\ \A k \in Held : heldBy[k] = s
    BY <1>1, <1>3 DEF NativeInv
  <2>2. Joins
    BY <2>1 DEF Joins
  <2>. DEFINE list == sessions[s].interceptors
  <2>3. /\ sessions' = [sessions EXCEPT ![s].interceptors = Append(list, l)]
        /\ heldBy' = [heldBy EXCEPT ![l] = s] /\ heldBy \in [Leases -> 0 .. Len(sessions)]
        /\ UNCHANGED <<fetch, activeSession>>
    BY <2>1, <2>2 DEF Intercept, IInv, TypeInv
  <2>4. list \in Seq(Leases) /\ IsInjective(list) /\ ~InList(l, list)
    BY <1>1, <2>1, SessionType DEF IInv, ListInv
  <2>5. Append(list, l) \in Seq(Leases)
    BY <2>4, AppendKeepsOrder
  <2>6. Len(sessions') = Len(sessions) /\ sessions'[s].baseline = Native
    BY <2>1, <2>3, <2>5, ListChanges DEF IInv
  <2>7. \A k \in Held' : heldBy'[k] = s
    BY <1>1, <2>1, <2>3
  <2>. QED
    BY <2>1, <2>3, <2>6, <2>7
<1>. QED
  BY <1>1, <1>2, <1>3 DEF NativeInv

LEMMA NativeRestores ==
    ASSUME IInv, NativeInv, NEW l \in Leases, Restore(l)
    PROVE  NativeInv'
<1>. SUFFICES ASSUME \A w \in Wrappers : inner'[w] = {} PROVE NativeInv'
  BY DEF NativeInv
<1>1. /\ l \in Held /\ Held' = Held \ {l} /\ UNCHANGED <<heldBy, inner>>
      /\ Len(sessions') = Len(sessions) /\ Held' \subseteq Leases
      /\ \A s \in 1 .. Len(sessions) : sessions'[s].baseline = sessions[s].baseline
  BY Restores DEF Held
<1>2. PICK s \in 1 .. Len(sessions) :
         /\ fetch = Dispatch(s) /\ activeSession = s
         /\ sessions[s].baseline = Native
         /\ \A k \in Held : heldBy[k] = s
  BY <1>1 DEF NativeInv
<1>3. \A k \in Leases : InList(k, sessions'[s].interceptors) <=> k \in Held'
  <2>1. \A k \in Leases : InList(k, sessions'[s].interceptors) <=>
                             heldBy'[k] = s /\ k \notin restored'
    BY <1>1, RestoreKeeps DEF IInv, ListInv
  <2>2. \A k \in Leases : k \in Held' <=> heldBy'[k] # 0 /\ k \notin restored'
    BY DEF Held
  <2>. QED
    BY <1>1, <1>2, <2>1, <2>2
<1>4. heldBy[l] = s
  BY <1>1, <1>2
<1>5. CASE sessions'[s].interceptors # <<>>
  <2>1. UNCHANGED <<activeSession, fetch>>
    BY <1>4, <1>5 DEF Restore
  <2>2. sessions'[s].interceptors \in Seq(Leases)
    <3>. DEFINE R == [baseline : Fetches', interceptors : Seq(Leases)]
    <3>1. sessions' \in Seq(R) /\ s \in 1 .. Len(sessions')
      BY <1>1, <1>2, RestoreKeeps DEF IInv, TypeInv
    <3>. HIDE DEF R
    <3>2. sessions'[s] \in R
      BY <3>1, ElementOfSeq
    <3>. QED
      BY <3>2 DEF R
  <2>3. \E k \in Leases : InList(k, sessions'[s].interceptors)
    BY <1>5, <2>2, EmptySeq, LenProperties DEF InList
  <2>. QED
    BY <1>1, <1>2, <1>3, <2>1, <2>3 DEF NativeInv
<1>6. CASE sessions'[s].interceptors = <<>>
  <2>1. fetch' = Native
    BY <1>2, <1>4, <1>6 DEF Restore, FetchAfter
  <2>2. \A k : ~InList(k, <<>>)
    BY DEF InList
  <2>. QED
    BY <1>1, <1>3, <1>6, <2>1, <2>2 DEF NativeInv
<1>. QED
  BY <1>5, <1>6

-----------------------------------------------------------------------------
(* Commits. *)

\* What is left of a commit after its first effect.
Left == IF effects' = <<>> THEN Len(effects) = 1
        ELSE /\ effects'[1].at = effects[1].at
             /\ <<effects[1].do, effects'[1].do>> \in Successions
             /\ effects'[Len(effects')] = effects[Len(effects)]

LEMMA Tails ==
    ASSUME AdaptersInv, PlanInv, effects # <<>>, effects' = Tail(effects)
    PROVE  /\ effects[1] = Head(effects) /\ effects[1] \in Todo /\ Left
           /\ \A i \in DOMAIN effects' :
                 /\ effects'[i] = effects[i + 1] /\ i + 1 \in DOMAIN effects
                 /\ effects'[i].at = effects'[1].at
                 /\ i + 1 \in DOMAIN effects' =>
                       <<effects'[i].do, effects'[i + 1].do>> \in Successions
           /\ \A a : Busy(a) \/ Busy(a)' \/ Leaving(a) => a = effects[1].at
           /\ \A a : Leaving(a)' => Leaving(a)
           /\ effects[1].do # "release" => \A a : Leaving(a) => Leaving(a)'
<1>. DEFINE n == Len(effects)
<1>1. /\ n \in Nat /\ n # 0 /\ DOMAIN effects = 1 .. n /\ 1 \in DOMAIN effects
      /\ effects[1] = Head(effects) /\ effects[1] \in Todo
      /\ effects' \in Seq(Todo) /\ Len(effects') = n - 1 /\ DOMAIN effects' = 1 .. n - 1
      /\ \A i \in 1 .. n - 1 : effects'[i] = effects[i + 1]
  BY HeadTailProperties, EmptySeq, LenProperties, ElementOfSeq DEF AdaptersInv
<1>2. \A i \in 1 .. n :
         /\ effects[i].at = effects[1].at
         /\ i + 1 \in 1 .. n =>
               <<effects[i].do, effects[i + 1].do>> \in Successions
  BY <1>1 DEF PlanInv
<1>. HIDE DEF n
<1>3. Left
  <2>1. CASE n = 1
    <3>1. effects' = <<>>
      BY <1>1, <2>1, EmptySeq
    <3>. QED
      BY <2>1, <3>1 DEF Left, n
  <2>2. CASE n # 1
    <3>1. /\ 1 \in 1 .. n - 1 /\ n - 1 \in 1 .. n - 1 /\ (n - 1) + 1 = n /\ 1 + 1 \in 1 .. n
          /\ effects' # <<>>
      BY <1>1, <2>2, EmptySeq
    <3>2. effects'[1] = effects[1 + 1] /\ effects'[n - 1] = effects[n]
      BY <1>1, <3>1
    <3>3. /\ effects[1 + 1].at = effects[1].at
          /\ <<effects[1].do, effects[1 + 1].do>> \in Successions
      BY <1>1, <1>2, <3>1
    <3>. QED
      BY <1>1, <3>1, <3>2, <3>3 DEF Left, n
  <2>. QED
    BY <2>1, <2>2
<1>4. ASSUME NEW i \in DOMAIN effects'
      PROVE  /\ effects'[i] = effects[i + 1] /\ i + 1 \in DOMAIN effects
             /\ effects'[i].at = effects'[1].at
             /\ i + 1 \in DOMAIN effects' =>
                   <<effects'[i].do, effects'[i + 1].do>> \in Successions
  <2>1. /\ i \in 1 .. n - 1 /\ 1 \in 1 .. n - 1 /\ i + 1 \in 1 .. n /\ 1 + 1 \in 1 .. n
        /\ i + 1 \in 1 .. n - 1 => i + 1 + 1 \in 1 .. n
    BY <1>1
  <2>2. /\ effects'[i] = effects[i + 1] /\ effects'[1] = effects[1 + 1]
        /\ i + 1 \in 1 .. n - 1 => effects'[i + 1] = effects[i + 1 + 1]
    BY <1>1, <2>1
  <2>3. effects'[i].at = effects'[1].at
    BY <1>2, <2>1, <2>2
  <2>4. i + 1 \in 1 .. n - 1 =>
           <<effects[i + 1].do, effects[i + 1 + 1].do>> \in Successions
    BY <1>2, <2>1
  <2>. QED
    BY <1>1, <2>1, <2>2, <2>3, <2>4
<1>5. \A a : Busy(a) \/ Busy(a)' \/ Leaving(a) => a = effects[1].at
  <2>1. \A i \in DOMAIN effects' : effects'[i].at = effects[1].at
    BY <1>1, <1>2, <1>4
  <2>. QED
    BY <1>1, <1>2, <2>1 DEF Busy, Leaving
<1>6. \A a : Leaving(a)' => Leaving(a)
  BY <1>4 DEF Leaving
<1>7. ASSUME effects[1].do # "release", NEW a, Leaving(a) PROVE Leaving(a)'
  <2>1. PICK i \in 1 .. n : effects[i].at = a /\ effects[i].do = "release"
    BY <1>1, <1>7 DEF Leaving
  <2>2. PICK j \in 1 .. n - 1 : i = j + 1
    <3>1. i # 1
      BY <1>7, <2>1
    <3>2. i - 1 \in 1 .. n - 1 /\ i = (i - 1) + 1
      BY <1>1, <2>1, <3>1
    <3>. QED
      BY <3>2
  <2>. QED
    BY <1>1, <2>1, <2>2 DEF Leaving
<1>. QED
  BY <1>1, <1>3, <1>4, <1>5, <1>6, <1>7

\* The effects that a commit has for a provider.
Plan(p, list) ==
    \A i \in DOMAIN list :
        /\ list[i].at = p
        /\ i + 1 \in DOMAIN list =>
              <<list[i].do, list[i + 1].do>> \in Successions

LEMMA PlanOfOne ==
    ASSUME NEW p \in Providers, NEW name \in {"lease", "update", "release"},
           NEW list, list = <<Effect(p, name)>>
    PROVE  /\ Plan(p, list) /\ list # <<>> /\ list \in Seq(Todo)
           /\ list[1] = Effect(p, name) /\ Len(list) = 1 /\ DOMAIN list = 1 .. 1
<1>1. /\ Len(list) = 1 /\ DOMAIN list = 1 .. 1 /\ list[1] = Effect(p, name) /\ list # <<>>
  OBVIOUS
<1>2. list \in Seq(Todo)
  BY DEF Todo, Effect
<1>. QED
  BY <1>1, <1>2 DEF Plan, Effect

LEMMA PlanAppends ==
    ASSUME NEW p, NEW a \in Seq(Todo), NEW b \in Seq(Todo), a # <<>>, b # <<>>,
           Plan(p, a), Plan(p, b), <<a[Len(a)].do, b[1].do>> \in Successions
    PROVE  /\ a \o b \in Seq(Todo) /\ a \o b # <<>> /\ Plan(p, a \o b)
           /\ (a \o b)[1] = a[1] /\ (a \o b)[Len(a \o b)] = b[Len(b)]
<1>. DEFINE c == a \o b
            m == Len(a)
            n == Len(b)
<1>1. /\ m \in Nat /\ m # 0 /\ DOMAIN a = 1 .. m
      /\ n \in Nat /\ n # 0 /\ DOMAIN b = 1 .. n
  BY LenProperties, EmptySeq
<1>2. /\ c \in Seq(Todo) /\ Len(c) = m + n /\ DOMAIN c = 1 .. m + n
      /\ \A i \in 1 .. m + n : c[i] = IF i <= m THEN a[i] ELSE b[i - m]
  BY ConcatProperties, LenProperties
<1>3. \A i \in 1 .. m : a[i].at = p /\ (i + 1 \in 1 .. m => <<a[i].do, a[i + 1].do>> \in Successions)
  BY <1>1 DEF Plan
<1>4. \A i \in 1 .. n : b[i].at = p /\ (i + 1 \in 1 .. n => <<b[i].do, b[i + 1].do>> \in Successions)
  BY <1>1 DEF Plan
<1>5. <<a[m].do, b[1].do>> \in Successions
  OBVIOUS
<1>. HIDE DEF c, m, n
<1>6. c[1] = a[1] /\ c[m + n] = b[n] /\ c # <<>>
  <2>1. 1 \in 1 .. m + n /\ m + n \in 1 .. m + n /\ 1 <= m /\ ~(m + n <= m) /\ (m + n) - m = n
    BY <1>1
  <2>2. Len(c) # 0
    BY <1>1, <1>2
  <2>. QED
    BY <1>2, <2>1, <2>2, EmptySeq
<1>7. ASSUME NEW i \in 1 .. m + n
      PROVE  c[i].at = p /\ (i + 1 \in 1 .. m + n => <<c[i].do, c[i + 1].do>> \in Successions)
  <2>1. CASE i < m
    <3>1. i \in 1 .. m /\ i + 1 \in 1 .. m /\ i + 1 \in 1 .. m + n
      BY <1>1, <2>1
    <3>2. c[i] = a[i] /\ c[i + 1] = a[i + 1]
      BY <1>1, <1>2, <3>1
    <3>. QED
      BY <1>3, <3>1, <3>2
  <2>2. CASE i = m
    <3>1. m \in 1 .. m /\ m + 1 \in 1 .. m + n /\ ~(m + 1 <= m) /\ (m + 1) - m = 1
      BY <1>1
    <3>2. c[m] = a[m] /\ c[m + 1] = b[1]
      BY <1>1, <1>2, <2>2, <3>1
    <3>. QED
      BY <1>3, <1>5, <2>2, <3>1, <3>2
  <2>3. CASE i > m
    <3>1. /\ i - m \in 1 .. n /\ (i + 1) - m = (i - m) + 1
          /\ i + 1 \in 1 .. m + n => (i - m) + 1 \in 1 .. n
      BY <1>1, <2>3
    <3>2. c[i] = b[i - m] /\ (i + 1 \in 1 .. m + n => c[i + 1] = b[(i - m) + 1])
      BY <1>1, <1>2, <2>3, <3>1
    <3>. QED
      BY <1>4, <3>1, <3>2
  <2>. QED
    BY <1>1, <2>1, <2>2, <2>3
<1>8. Plan(p, c)
  BY <1>2, <1>7 DEF Plan
<1>. QED
  BY <1>2, <1>6, <1>8 DEF c, n

LEMMA PlanOfSetUp ==
    ASSUME NEW p \in Providers
    PROVE  /\ Plan(p, SetUp(p)) /\ SetUp(p) # <<>> /\ SetUp(p) \in Seq(Todo)
           /\ SetUp(p)[1].do = "lease" /\ SetUp(p)[Len(SetUp(p))].do = "update"
<1>. DEFINE l == <<Effect(p, "lease")>>
            u == <<Effect(p, "update")>>
<1>1. SetUp(p) = l \o u
  BY DEF SetUp
<1>2. /\ Plan(p, l) /\ l # <<>> /\ l \in Seq(Todo) /\ l[1] = Effect(p, "lease") /\ Len(l) = 1
      /\ Plan(p, u) /\ u # <<>> /\ u \in Seq(Todo) /\ u[1] = Effect(p, "update") /\ Len(u) = 1
  BY PlanOfOne
<1>. HIDE DEF l, u
<1>3. <<l[Len(l)].do, u[1].do>> \in Successions
  BY <1>2 DEF Effect, Successions
<1>4. /\ Plan(p, SetUp(p)) /\ SetUp(p) # <<>> /\ SetUp(p) \in Seq(Todo)
      /\ SetUp(p)[1] = l[1] /\ SetUp(p)[Len(SetUp(p))] = u[1]
  BY <1>1, <1>2, <1>3, PlanAppends
<1>. QED
  BY <1>2, <1>4 DEF Effect

LEMMA PlanOfCleanUp ==
    ASSUME NEW p \in Providers
    PROVE  /\ Plan(p, CleanUp(p)) /\ CleanUp(p) # <<>> /\ CleanUp(p) \in Seq(Todo)
           /\ CleanUp(p)[1].do = "release" /\ Len(CleanUp(p)) = 1
BY PlanOfOne DEF CleanUp, Effect

LEMMA PlanOfStrictMode ==
    ASSUME NEW p \in Providers, NEW a, NEW b, a = SetUp(p), b = CleanUp(p)
    PROVE  /\ Plan(p, a \o (b \o a)) /\ a \o (b \o a) # <<>>
           /\ (a \o (b \o a))[1].do = "lease"
           /\ (a \o (b \o a))[Len(a \o (b \o a))].do = "update"
<1>1. /\ Plan(p, a) /\ a # <<>> /\ a \in Seq(Todo)
      /\ a[1].do = "lease" /\ a[Len(a)].do = "update"
  BY PlanOfSetUp
<1>2. /\ Plan(p, b) /\ b # <<>> /\ b \in Seq(Todo)
      /\ b[1].do = "release" /\ b[Len(b)] = b[1]
  BY PlanOfCleanUp
<1>. DEFINE c == b \o a
<1>3. <<b[Len(b)].do, a[1].do>> \in Successions
  BY <1>1, <1>2 DEF Successions
<1>4. /\ Plan(p, c) /\ c # <<>> /\ c \in Seq(Todo)
      /\ c[1] = b[1] /\ c[Len(c)] = a[Len(a)]
  BY <1>1, <1>2, <1>3, PlanAppends
<1>. HIDE DEF c
<1>5. <<a[Len(a)].do, c[1].do>> \in Successions
  BY <1>1, <1>2, <1>4 DEF Successions
<1>6. Plan(p, a \o c) /\ a \o c # <<>> /\ (a \o c)[1] = a[1] /\ (a \o c)[Len(a \o c)] = c[Len(c)]
  BY <1>1, <1>4, <1>5, PlanAppends
<1>. QED
  BY <1>1, <1>4, <1>6 DEF c

LEMMA PlanOfMount ==
    ASSUME NEW p \in Providers, NEW strict \in BOOLEAN, NEW list,
           list = SetUp(p) \o IF strict THEN CleanUp(p) \o SetUp(p) ELSE <<>>
    PROVE  /\ Plan(p, list) /\ list # <<>> /\ list[1].do = "lease"
           /\ list[Len(list)].do = "update"
<1>1. CASE ~strict
  <2>1. list = SetUp(p)
    BY <1>1, PlanOfSetUp, ConcatEmptySeq
  <2>. QED
    BY <2>1, PlanOfSetUp
<1>2. CASE strict
  <2>1. list = SetUp(p) \o (CleanUp(p) \o SetUp(p))
    BY <1>2
  <2>. QED
    BY <2>1, PlanOfStrictMode
<1>. QED
  BY <1>1, <1>2

LEMMA PlanOfChanged ==
    ASSUME NEW p \in Providers, NEW old, NEW new, NEW list, list = Changed(p, old, new)
    PROVE  /\ list # <<>> =>
                 /\ Plan(p, list) /\ list[Len(list)].do # "release"
                 /\ list[1].do = IF old.mock # new.mock THEN "release" ELSE "update"
                 /\ list[Len(list)].do = "lease" => old.options = new.options
           /\ list = <<>> => old.mock = new.mock /\ old.options = new.options
           /\ old.mock = new.mock => \A i \in DOMAIN list : list[i].do # "lease"
<1>. DEFINE r == CleanUp(p)
            l == <<Effect(p, "lease")>>
            u == <<Effect(p, "update")>>
            rl == r \o l
<1>1. /\ Plan(p, r) /\ r # <<>> /\ r \in Seq(Todo) /\ r[1].do = "release" /\ r[Len(r)] = r[1]
      /\ Plan(p, l) /\ l # <<>> /\ l \in Seq(Todo) /\ l[1].do = "lease" /\ l[Len(l)] = l[1]
      /\ Plan(p, u) /\ u # <<>> /\ u \in Seq(Todo) /\ u[1].do = "update" /\ u[Len(u)] = u[1]
      /\ DOMAIN u = 1 .. 1
  <2>1. /\ Plan(p, r) /\ r # <<>> /\ r \in Seq(Todo) /\ r[1].do = "release" /\ Len(r) = 1
    BY PlanOfCleanUp
  <2>2. /\ Plan(p, l) /\ l # <<>> /\ l \in Seq(Todo) /\ l[1] = Effect(p, "lease") /\ Len(l) = 1
    BY PlanOfOne
  <2>3. /\ Plan(p, u) /\ u # <<>> /\ u \in Seq(Todo) /\ u[1] = Effect(p, "update") /\ Len(u) = 1
        /\ DOMAIN u = 1 .. 1
    BY PlanOfOne
  <2>. HIDE DEF r, l, u
  <2>. QED
    BY <2>1, <2>2, <2>3 DEF Effect
<1>2. list = (IF old.mock # new.mock THEN rl ELSE <<>>)
             \o (IF old.options # new.options THEN u ELSE <<>>)
  BY DEF Changed
<1>. HIDE DEF r, l, u
<1>3. <<r[Len(r)].do, l[1].do>> \in Successions
  BY <1>1 DEF Successions
<1>4. Plan(p, rl) /\ rl # <<>> /\ rl \in Seq(Todo) /\ rl[1] = r[1] /\ rl[Len(rl)] = l[1]
  BY <1>1, <1>3, PlanAppends
<1>. HIDE DEF rl
<1>5. CASE old.mock = new.mock /\ old.options = new.options
  <2>1. list = <<>>
    BY <1>2, <1>5, EmptySeq, ConcatEmptySeq
  <2>. QED
    BY <1>5, <2>1
<1>6. CASE old.mock = new.mock /\ old.options # new.options
  <2>1. list = u
    BY <1>1, <1>2, <1>6, ConcatEmptySeq
  <2>. QED
    BY <1>1, <1>6, <2>1
<1>7. CASE old.mock # new.mock /\ old.options = new.options
  <2>1. list = rl
    BY <1>2, <1>4, <1>7, ConcatEmptySeq
  <2>. QED
    BY <1>1, <1>4, <1>7, <2>1
<1>8. CASE old.mock # new.mock /\ old.options # new.options
  <2>1. list = rl \o u
    BY <1>2, <1>8
  <2>2. <<rl[Len(rl)].do, u[1].do>> \in Successions
    BY <1>1, <1>4 DEF Successions
  <2>. QED
    BY <1>1, <1>4, <1>8, <2>1, <2>2, PlanAppends
<1>. QED
  BY <1>5, <1>6, <1>7, <1>8

-----------------------------------------------------------------------------
(* Owners come and go. *)

LEMMA NoCommit == ASSUME Idle PROVE \A a : ~Busy(a) /\ ~Leaving(a)
BY DEF Idle, Busy, Leaving

\* Who owns a lease that is held was there before it, if no commit is at work on it.
LEMMA OwnersArrived ==
    ASSUME OwnerInv, ProvidersInv, AppsInv, ArrivalInv,
           NEW l \in Held, NEW a \in OwnersOf(l), ~Busy(a)
    PROVE  InList(a, arrivals) /\ a \in Parties \cup Leases
<1>1. l \in Leases /\ l \notin restored
  BY DEF Held
<1>2. CASE a \in Providers /\ l \in handle[a]
  BY <1>2 DEF ProvidersInv, ProviderInv, ArrivalInv, Parties
<1>3. CASE a \in Apps /\ l \in handle[a]
  BY <1>3 DEF AppsInv, ArrivalInv, Parties
<1>4. CASE a = l /\ l \in users
  BY <1>1, <1>4 DEF ArrivalInv
<1>. QED
  BY <1>2, <1>3, <1>4 DEF OwnersOf

\* A party without a handle takes a lease.
LEMMA Takes ==
    ASSUME IInv, AdaptersInv, OwnerInv, NEW a \in Parties, handle[a] = {},
           NEW l \in Leases, NEW o \in Options, Intercept(l, o),
           handle' = [handle EXCEPT ![a] = {l}], UNCHANGED users
    PROVE  /\ OwnerInv' /\ l \notin users /\ OwnersOf(l)' = {a}
           /\ \A b \in Parties : l \notin handle[b]
           /\ \A k \in Held : OwnersOf(k)' = OwnersOf(k) /\ a \notin OwnersOf(k)
<1>1. /\ heldBy[l] = 0 /\ l \notin Held /\ Held' = Held \cup {l} /\ Held \subseteq Leases
      /\ heldBy'[l] # 0 /\ \A k \in Leases : k # l => heldBy'[k] = heldBy[k]
  BY Intercepts DEF Held
<1>2. \A b \in Parties : handle'[b] = IF b = a THEN {l} ELSE handle[b]
  BY DEF AdaptersInv, Parties
<1>3. l \notin users /\ \A b \in Parties : l \notin handle[b]
  BY <1>1 DEF OwnerInv
<1>4. OwnerInv'
  <2>1. users' \subseteq Leases /\ \A k \in users' : heldBy'[k] # 0
    BY <1>1 DEF OwnerInv
  <2>2. \A b \in Parties : \A k \in handle'[b] : k \in Held' /\ k \notin users'
    BY <1>1, <1>2, <1>3 DEF OwnerInv
  <2>3. \A b, c \in Parties : handle'[b] \cap handle'[c] # {} => b = c
    BY <1>2, <1>3 DEF OwnerInv
  <2>4. \A k \in Held' : k \in users' \/ \E b \in Parties : k \in handle'[b]
    BY <1>1, <1>2 DEF OwnerInv
  <2>. QED
    BY <2>1, <2>2, <2>3, <2>4 DEF OwnerInv, Parties
<1>5. OwnersOf(l)' = {a}
  BY <1>2, <1>3 DEF OwnersOf, Parties
<1>6. ASSUME NEW k \in Held PROVE OwnersOf(k)' = OwnersOf(k) /\ a \notin OwnersOf(k)
  <2>1. k # l /\ k \in Leases
    BY <1>1
  <2>2. a # k
    BY <2>1, PartiesAssumption DEF Parties
  <2>. QED
    BY <1>2, <2>1, <2>2 DEF OwnersOf, Parties
<1>. QED
  BY <1>3, <1>4, <1>5, <1>6

\* A party gives its lease back.
LEMMA Gives ==
    ASSUME IInv, AdaptersInv, OwnerInv, NEW a \in Parties, NEW l \in Leases,
           handle[a] = {l}, Restore(l),
           handle' = [handle EXCEPT ![a] = {}], UNCHANGED users
    PROVE  /\ OwnerInv' /\ l \notin users
           /\ \A b \in Parties : b # a => l \notin handle[b]
           /\ \A k \in Leases : k # l => OwnersOf(k)' = OwnersOf(k) /\ a \notin OwnersOf(k)
<1>1. l \in Held /\ Held' = Held \ {l} /\ UNCHANGED heldBy
  BY Restores
<1>2. \A b \in Parties : handle'[b] = IF b = a THEN {} ELSE handle[b]
  BY DEF AdaptersInv, Parties
<1>3. l \notin users /\ \A b \in Parties : b # a => l \notin handle[b]
  BY DEF OwnerInv
<1>4. OwnerInv'
  <2>1. users' \subseteq Leases /\ \A k \in users' : heldBy'[k] # 0
    BY <1>1 DEF OwnerInv
  <2>2. \A b \in Parties : \A k \in handle'[b] : k \in Held' /\ k \notin users'
    BY <1>1, <1>2, <1>3 DEF OwnerInv
  <2>3. \A b, c \in Parties : handle'[b] \cap handle'[c] # {} => b = c
    BY <1>2 DEF OwnerInv
  <2>4. \A k \in Held' : k \in users' \/ \E b \in Parties : k \in handle'[b]
    BY <1>1, <1>2 DEF OwnerInv
  <2>. QED
    BY <2>1, <2>2, <2>3, <2>4 DEF OwnerInv, Parties
<1>5. ASSUME NEW k \in Leases, k # l PROVE OwnersOf(k)' = OwnersOf(k) /\ a \notin OwnersOf(k)
  <2>1. a # k
    BY PartiesAssumption DEF Parties
  <2>. QED
    BY <1>2, <1>5, <2>1 DEF OwnersOf, Parties
<1>. QED
  BY <1>3, <1>4, <1>5

-----------------------------------------------------------------------------
(* The order of the owners. *)

\* A new lease comes last, and so does its owner.
LEMMA OrderTakes ==
    ASSUME IInv, OwnerInv, ProvidersInv, AppsInv, ArrivalInv, OrderInv, NEW a,
           NEW l \in Leases, NEW o \in Options, Intercept(l, o), OwnersOf(l)' = {a},
           \A k \in Held : OwnersOf(k)' = OwnersOf(k) /\ a \notin OwnersOf(k),
           \A b : b # a => ~Busy(b) /\ ~Leaving(b),
           \A b : InList(b, arrivals) /\ b # a => Precedes(b, a, arrivals'),
           \A b, c : b # a /\ c # a /\ Precedes(b, c, arrivals) => Precedes(b, c, arrivals')
    PROVE  OrderInv'
<1>. SUFFICES ASSUME NEW s \in 1 .. Len(sessions'), NEW j \in Leases, NEW k \in Leases,
                     Precedes(j, k, sessions'[s].interceptors),
                     NEW b \in OwnersOf(j)', NEW c \in OwnersOf(k)'
              PROVE  Precedes(b, c, arrivals')
  BY DEF OrderInv
<1>1. \/ s \in 1 .. Len(sessions) /\ Precedes(j, k, sessions[s].interceptors)
      \/ j \in Held /\ k = l
  BY Intercepts
<1>2. CASE s \in 1 .. Len(sessions) /\ Precedes(j, k, sessions[s].interceptors)
  <2>1. j \in Held /\ k \in Held
    BY <1>2 DEF Precedes, InList, IInv, ListInv, Held
  <2>2. b \in OwnersOf(j) /\ c \in OwnersOf(k) /\ b # a /\ c # a
    BY <2>1
  <2>3. Precedes(b, c, arrivals)
    BY <1>2, <2>2 DEF OrderInv
  <2>. QED
    BY <2>2, <2>3
<1>3. CASE j \in Held /\ k = l
  <2>1. b \in OwnersOf(j) /\ b # a /\ c = a
    BY <1>3
  <2>2. InList(b, arrivals)
    BY <1>3, <2>1, OwnersArrived
  <2>. QED
    BY <2>1, <2>2
<1>. QED
  BY <1>1, <1>2, <1>3

\* A lease goes with its owner.
LEMMA OrderGives ==
    ASSUME IInv, OrderInv, NEW a, NEW l \in Leases, Restore(l),
           \A k \in Leases : k # l => OwnersOf(k)' = OwnersOf(k) /\ a \notin OwnersOf(k),
           \A b : b # a => ~Leaving(b),
           \A b, c : b # a /\ c # a /\ Precedes(b, c, arrivals) => Precedes(b, c, arrivals')
    PROVE  OrderInv'
<1>. SUFFICES ASSUME NEW s \in 1 .. Len(sessions'), NEW j \in Leases, NEW k \in Leases,
                     Precedes(j, k, sessions'[s].interceptors),
                     NEW b \in OwnersOf(j)', NEW c \in OwnersOf(k)'
              PROVE  Precedes(b, c, arrivals')
  BY DEF OrderInv
<1>1. s \in 1 .. Len(sessions) /\ j # l /\ k # l /\ Precedes(j, k, sessions[s].interceptors)
  BY Restores
<1>2. b \in OwnersOf(j) /\ c \in OwnersOf(k) /\ b # a /\ c # a
  BY <1>1
<1>3. Precedes(b, c, arrivals)
  BY <1>1, <1>2 DEF OrderInv
<1>. QED
  BY <1>2, <1>3

\* A provider moves, or goes, that has no lease or will give it back.
LEMMA OrderMoves ==
    ASSUME OrderInv, AdaptersInv, NEW p \in Providers, Idle, UNCHANGED <<sessions, handle, users>>,
           handle[p] = {} \/ Leaving(p)' \/ UNCHANGED arrivals,
           \A b, c : b # p /\ c # p /\ Precedes(b, c, arrivals) => Precedes(b, c, arrivals')
    PROVE  OrderInv'
<1>. SUFFICES ASSUME NEW s \in 1 .. Len(sessions), NEW j \in Leases, NEW k \in Leases,
                     Precedes(j, k, sessions[s].interceptors),
                     NEW b \in OwnersOf(j), NEW c \in OwnersOf(k)
              PROVE  Leaving(b)' \/ Leaving(c)' \/ Precedes(b, c, arrivals')
  BY DEF OrderInv, OwnersOf
<1>1. Precedes(b, c, arrivals)
  BY NoCommit DEF OrderInv
<1>2. CASE handle[p] = {}
  <2>1. b # p /\ c # p
    BY <1>2, PartiesAssumption DEF OwnersOf
  <2>. QED
    BY <1>1, <2>1
<1>3. CASE Leaving(p)'
  BY <1>1, <1>3
<1>4. CASE UNCHANGED arrivals
  BY <1>1, <1>4
<1>. QED
  BY <1>2, <1>3, <1>4

-----------------------------------------------------------------------------
(* Commits of React. *)

\* Rendering does not touch the leases.
LEMMA StillOwned ==
    ASSUME OwnerInv, AppsInv, NativeInv, UNCHANGED <<handle, users>>,
           UNCHANGED <<fetch, sessions, activeSession, heldBy, restored, inner>>
    PROVE  /\ OwnerInv' /\ NativeInv'
           /\ UNCHANGED apps => AppsInv'
<1>1. Held' = Held
  BY DEF Held
<1>2. OwnerInv'
  BY <1>1 DEF OwnerInv
<1>3. UNCHANGED apps => AppsInv'
  BY DEF AppsInv, Running
<1>4. NativeInv'
  BY <1>1 DEF NativeInv
<1>. QED
  BY <1>2, <1>3, <1>4

\* A provider that nothing happens to.
LEMMA ProviderStays ==
    ASSUME NEW q \in Providers, ProviderInv(q), ~Busy(q), ~Busy(q)',
           handle'[q] = handle[q], props'[q] = props[q], optionsRef'[q] = optionsRef[q],
           q \in shown' <=> q \in shown, \A l \in handle[q] : options'[l] = options[l]
    PROVE  ProviderInv(q)'
<1>1. Follows(q) => Follows(q)'
  BY DEF Follows
<1>. QED
  BY <1>1 DEF ProviderInv

LEMMA ProviderArrives ==
    ASSUME ArrivalInv, NEW p \in Providers, Arrive(p), shown' = shown \cup {p},
           UNCHANGED <<apps, users, restored>>, \A i \in DOMAIN effects' : effects'[i].at = p
    PROVE  /\ ArrivalInv'
           /\ \A b, c : b # p /\ c # p /\ Precedes(b, c, arrivals) => Precedes(b, c, arrivals')
<1>1. /\ arrivals' \in Seq(Parties \cup Leases) /\ IsInjective(arrivals')
      /\ \A a : InList(a, arrivals') <=> (a = p \/ InList(a, arrivals))
      /\ \A a, b : Precedes(a, b, arrivals') <=>
                      \/ Precedes(a, b, arrivals) /\ a # p /\ b # p
                      \/ InList(a, arrivals) /\ a # p /\ b = p
  BY Arrives DEF Parties
<1>2. p \notin Apps /\ p \notin Leases
  BY PartiesAssumption
<1>3. /\ \A q \in Providers : InList(q, arrivals') <=> q \in shown'
      /\ \A a \in Apps : InList(a, arrivals') <=> Running(a)'
      /\ \A l \in Leases : InList(l, arrivals') <=> l \in users' /\ l \notin restored'
  BY <1>1, <1>2 DEF ArrivalInv, Running
<1>4. \A i \in DOMAIN effects' : effects'[i].do = "lease" =>
         \A a : InList(a, arrivals') /\ a # effects'[i].at => Precedes(a, effects'[i].at, arrivals')
  BY <1>1
<1>5. ArrivalInv'
  BY <1>1, <1>3, <1>4 DEF ArrivalInv, Parties
<1>. QED
  BY <1>1, <1>5

LEMMA ProviderDeparts ==
    ASSUME ArrivalInv, NEW p \in Providers, Depart(p), shown' = shown \ {p},
           UNCHANGED <<apps, users, restored>>, \A i \in DOMAIN effects' : effects'[i].do # "lease"
    PROVE  /\ ArrivalInv'
           /\ \A b, c : b # p /\ c # p /\ Precedes(b, c, arrivals) => Precedes(b, c, arrivals')
<1>1. /\ arrivals' \in Seq(Parties \cup Leases) /\ IsInjective(arrivals')
      /\ \A a : InList(a, arrivals') <=> InList(a, arrivals) /\ a # p
      /\ \A a, b : Precedes(a, b, arrivals') <=> Precedes(a, b, arrivals) /\ a # p /\ b # p
  BY Departs DEF Depart
<1>2. p \notin Apps /\ p \notin Leases
  BY PartiesAssumption
<1>3. /\ \A q \in Providers : InList(q, arrivals') <=> q \in shown'
      /\ \A a \in Apps : InList(a, arrivals') <=> Running(a)'
      /\ \A l \in Leases : InList(l, arrivals') <=> l \in users' /\ l \notin restored'
  BY <1>1, <1>2 DEF ArrivalInv, Running
<1>4. ArrivalInv'
  BY <1>1, <1>3 DEF ArrivalInv, Parties
<1>. QED
  BY <1>1, <1>4

\* A commit with effects is at work on its provider.
LEMMA Commits ==
    ASSUME AdaptersInv', NEW p \in Providers, effects' # <<>>, Plan(p, effects')
    PROVE  /\ 1 \in DOMAIN effects' /\ effects'[1].at = p
           /\ \A i \in DOMAIN effects' : effects'[i].at = p
           /\ Busy(p)' /\ \A q : q # p => ~Busy(q)'
<1>1. 1 \in DOMAIN effects'
  BY EmptySeq, LenProperties DEF AdaptersInv
<1>2. \A i \in DOMAIN effects' : effects'[i].at = p
  BY DEF Plan
<1>. QED
  BY <1>1, <1>2 DEF Busy

LEMMA MountFollows ==
    ASSUME IInv, AdaptersInv, AdaptersInv', FollowInv, NEW p \in Providers, Mount(p)
    PROVE  FollowInv'
<1>1. PICK new \in Rendered, strict \in BOOLEAN :
         /\ props' = [props EXCEPT ![p] = {new}]
         /\ optionsRef' = [optionsRef EXCEPT ![p] = new.options]
         /\ effects' = SetUp(p) \o IF strict THEN CleanUp(p) \o SetUp(p) ELSE <<>>
  BY DEF Mount
<1>2. /\ Idle /\ props[p] = {} /\ shown' = shown \cup {p} /\ Arrive(p)
      /\ UNCHANGED <<vars, handle, apps, users>>
  BY DEF Mount, Ready
<1>3. handle[p] = {} /\ \A q \in Providers : ProviderInv(q) /\ ~Busy(q)
  BY <1>2, NoCommit DEF FollowInv, ProvidersInv, ProviderInv
<1>4. /\ Plan(p, effects') /\ effects' # <<>> /\ effects'[1].do = "lease"
      /\ effects'[Len(effects')].do = "update"
  BY <1>1, PlanOfMount
<1>5. /\ 1 \in DOMAIN effects' /\ effects'[1].at = p
      /\ \A i \in DOMAIN effects' : effects'[i].at = p
      /\ Busy(p)' /\ \A q : q # p => ~Busy(q)'
  BY <1>4, Commits
<1>6. OwnerInv' /\ AppsInv' /\ NativeInv'
  BY <1>2, StillOwned DEF FollowInv, vars, leases, thirdParty
<1>7. ProvidersInv'
  <2>1. ProviderInv(p)'
    BY <1>1, <1>5 DEF ProviderInv, AdaptersInv
  <2>2. ASSUME NEW q \in Providers, q # p PROVE ProviderInv(q)'
    <3>1. /\ props'[q] = props[q] /\ optionsRef'[q] = optionsRef[q] /\ UNCHANGED options
          /\ q \in shown' <=> q \in shown
      BY <1>1, <1>2, <2>2 DEF AdaptersInv, vars, leases
    <3>. QED
      BY <1>2, <1>3, <1>5, <2>2, <3>1, ProviderStays
  <2>. QED
    BY <2>1, <2>2 DEF ProvidersInv
<1>8. PlanInv'
  BY <1>2, <1>3, <1>4, <1>5 DEF PlanInv, Plan
<1>9. /\ ArrivalInv'
      /\ \A b, c : b # p /\ c # p /\ Precedes(b, c, arrivals) => Precedes(b, c, arrivals')
  BY <1>2, <1>5, ProviderArrives DEF FollowInv, vars, leases
<1>10. OrderInv'
  BY <1>2, <1>3, <1>9, OrderMoves DEF FollowInv, vars, leases
<1>. QED
  BY <1>6, <1>7, <1>8, <1>9, <1>10 DEF FollowInv

LEMMA RevealFollows ==
    ASSUME IInv, AdaptersInv, AdaptersInv', FollowInv, NEW p \in Providers, Reveal(p)
    PROVE  FollowInv'
<1>1. /\ Idle /\ props[p] # {} /\ p \notin shown /\ shown' = shown \cup {p} /\ Arrive(p)
      /\ effects' = SetUp(p)
      /\ UNCHANGED <<vars, props, optionsRef, handle, apps, users>>
  BY DEF Reveal, Ready
<1>2. handle[p] = {} /\ \A q \in Providers : ProviderInv(q) /\ ~Busy(q)
  BY <1>1, NoCommit DEF FollowInv, ProvidersInv, ProviderInv
<1>3. /\ Plan(p, effects') /\ effects' # <<>> /\ effects'[1].do = "lease"
      /\ effects'[Len(effects')].do = "update"
  BY <1>1, PlanOfSetUp
<1>4. /\ 1 \in DOMAIN effects' /\ effects'[1].at = p
      /\ \A i \in DOMAIN effects' : effects'[i].at = p
      /\ Busy(p)' /\ \A q : q # p => ~Busy(q)'
  BY <1>3, Commits
<1>5. OwnerInv' /\ AppsInv' /\ NativeInv'
  BY <1>1, StillOwned DEF FollowInv, vars, leases, thirdParty
<1>6. ProvidersInv'
  <2>1. ProviderInv(p)'
    BY <1>1, <1>2, <1>4 DEF ProviderInv
  <2>2. ASSUME NEW q \in Providers, q # p PROVE ProviderInv(q)'
    <3>1. UNCHANGED options /\ (q \in shown' <=> q \in shown)
      BY <1>1, <2>2 DEF vars, leases
    <3>. QED
      BY <1>1, <1>2, <1>4, <2>2, <3>1, ProviderStays
  <2>. QED
    BY <2>1, <2>2 DEF ProvidersInv
<1>7. PlanInv'
  BY <1>1, <1>2, <1>3, <1>4 DEF PlanInv, Plan
<1>8. /\ ArrivalInv'
      /\ \A b, c : b # p /\ c # p /\ Precedes(b, c, arrivals) => Precedes(b, c, arrivals')
  BY <1>1, <1>4, ProviderArrives DEF FollowInv, vars, leases
<1>9. OrderInv'
  BY <1>1, <1>2, <1>8, OrderMoves DEF FollowInv, vars, leases
<1>. QED
  BY <1>5, <1>6, <1>7, <1>8, <1>9 DEF FollowInv

LEMMA UnmountFollows ==
    ASSUME IInv, AdaptersInv, AdaptersInv', FollowInv, NEW p \in Providers, Unmount(p)
    PROVE  FollowInv'
<1>1. /\ Idle /\ shown' = shown \ {p} /\ Depart(p)
      /\ \/ props' = [props EXCEPT ![p] = {}]
         \/ UNCHANGED props
      /\ effects' = IF p \in shown THEN CleanUp(p) ELSE <<>>
      /\ UNCHANGED <<vars, optionsRef, handle, apps, users>>
  BY DEF Unmount, Ready
<1>2. \A q \in Providers : ProviderInv(q) /\ ~Busy(q)
  BY <1>1, NoCommit DEF FollowInv, ProvidersInv
<1>3. OwnerInv' /\ AppsInv' /\ NativeInv'
  BY <1>1, StillOwned DEF FollowInv, vars, leases, thirdParty
<1>4. ASSUME NEW q \in Providers, q # p, ~Busy(q)' PROVE ProviderInv(q)'
  <2>1. props'[q] = props[q] /\ UNCHANGED options /\ (q \in shown' <=> q \in shown)
    BY <1>1, <1>4 DEF AdaptersInv, vars, leases
  <2>. QED
    BY <1>1, <1>2, <1>4, <2>1, ProviderStays
<1>5. /\ props'[p] = {} \/ \E given \in Rendered : props'[p] = {given}
      /\ p \notin shown'
  BY <1>1, <1>2 DEF ProviderInv, AdaptersInv
<1>6. CASE p \in shown
  <2>1. \E l \in Leases : handle[p] = {l}
    BY <1>2, <1>6 DEF ProviderInv, Follows
  <2>2. /\ Plan(p, effects') /\ effects' # <<>> /\ effects'[1].do = "release"
        /\ Len(effects') = 1
    BY <1>1, <1>6, PlanOfCleanUp
  <2>3. /\ 1 \in DOMAIN effects' /\ effects'[1].at = p
        /\ \A i \in DOMAIN effects' : effects'[i].at = p
        /\ Busy(p)' /\ \A q : q # p => ~Busy(q)'
    BY <2>2, Commits
  <2>4. \A i \in DOMAIN effects' : effects'[i].do # "lease"
    BY <2>2, LenProperties DEF AdaptersInv
  <2>5. ProvidersInv'
    BY <1>4, <1>5, <2>3 DEF ProvidersInv, ProviderInv
  <2>6. PlanInv'
    BY <1>1, <1>5, <2>1, <2>2, <2>3 DEF PlanInv, Plan
  <2>7. /\ ArrivalInv'
        /\ \A b, c : b # p /\ c # p /\ Precedes(b, c, arrivals) => Precedes(b, c, arrivals')
    BY <1>1, <2>4, ProviderDeparts DEF FollowInv, vars, leases
  <2>8. Leaving(p)'
    BY <2>2, <2>3 DEF Leaving
  <2>9. OrderInv'
    BY <1>1, <2>7, <2>8, OrderMoves DEF FollowInv, vars, leases
  <2>. QED
    BY <1>3, <2>5, <2>6, <2>7, <2>9 DEF FollowInv
<1>7. CASE p \notin shown
  <2>1. handle[p] = {} /\ effects' = <<>>
    BY <1>1, <1>2, <1>7 DEF ProviderInv
  <2>2. \A q : ~Busy(q)'
    BY <2>1 DEF Busy
  <2>3. ProviderInv(p)'
    BY <1>1, <1>5, <2>1 DEF ProviderInv
  <2>4. ProvidersInv'
    BY <1>4, <2>2, <2>3 DEF ProvidersInv
  <2>5. PlanInv'
    BY <2>1 DEF PlanInv
  <2>6. /\ ArrivalInv'
        /\ \A b, c : b # p /\ c # p /\ Precedes(b, c, arrivals) => Precedes(b, c, arrivals')
    BY <1>1, <2>1, ProviderDeparts DEF FollowInv, vars, leases
  <2>7. OrderInv'
    BY <1>1, <2>1, <2>6, OrderMoves DEF FollowInv, vars, leases
  <2>. QED
    BY <1>3, <2>4, <2>5, <2>6, <2>7 DEF FollowInv
<1>. QED
  BY <1>6, <1>7

LEMMA RerenderFollows ==
    ASSUME IInv, AdaptersInv, AdaptersInv', FollowInv, NEW p \in Providers, Rerender(p)
    PROVE  FollowInv'
<1>1. PICK old \in props[p], new \in Rendered :
         /\ old # new
         /\ props' = [props EXCEPT ![p] = {new}]
         /\ effects' = IF p \in shown THEN Changed(p, old, new) ELSE <<>>
         /\ IF p \in shown /\ old.mock # new.mock THEN Arrive(p) ELSE UNCHANGED arrivals
  BY DEF Rerender
<1>2. Idle /\ UNCHANGED <<vars, shown, optionsRef, handle, apps, users>>
  BY DEF Rerender, Ready
<1>3. /\ \A q \in Providers : ProviderInv(q) /\ ~Busy(q)
      /\ props[p] = {old} /\ old \in Rendered
      /\ props' \in [Providers -> SUBSET Rendered] /\ props'[p] = {new}
  BY <1>1, <1>2, NoCommit DEF FollowInv, ProvidersInv, ProviderInv, AdaptersInv
<1>4. OwnerInv' /\ AppsInv' /\ NativeInv'
  BY <1>2, StillOwned DEF FollowInv, vars, leases, thirdParty
<1>5. ASSUME NEW q \in Providers, q # p, ~Busy(q)' PROVE ProviderInv(q)'
  <2>1. props'[q] = props[q] /\ UNCHANGED options
    BY <1>1, <1>2, <1>5 DEF AdaptersInv, vars, leases
  <2>. QED
    BY <1>2, <1>3, <1>5, <2>1, ProviderStays
<1>6. CASE p \notin shown
  <2>1. handle[p] = {} /\ effects' = <<>> /\ UNCHANGED arrivals
    BY <1>1, <1>3, <1>6 DEF ProviderInv
  <2>2. \A q : ~Busy(q)'
    BY <2>1 DEF Busy
  <2>3. ProviderInv(p)'
    BY <1>2, <1>3, <1>6, <2>1 DEF ProviderInv
  <2>4. ProvidersInv'
    BY <1>5, <2>2, <2>3 DEF ProvidersInv
  <2>5. PlanInv'
    BY <2>1 DEF PlanInv
  <2>6. ArrivalInv'
    BY <1>2, <2>1 DEF FollowInv, ArrivalInv, Running, vars, leases
  <2>7. OrderInv'
    BY <1>2, <2>1, OrderMoves DEF FollowInv, vars, leases
  <2>. QED
    BY <1>4, <2>4, <2>5, <2>6, <2>7 DEF FollowInv
<1>7. CASE p \in shown
  <2>1. PICK l \in Leases : /\ handle[p] = {l} /\ OwnerOf[l] = old.mock
                            /\ optionsRef[p] = old.options
    BY <1>3, <1>7 DEF ProviderInv, Follows
  <2>2. effects' = Changed(p, old, new)
    BY <1>1, <1>7
  <2>3. effects' # <<>>
    <3>1. old.mock # new.mock \/ old.options # new.options
      BY <1>1, <1>3 DEF Rendered
    <3>. QED
      BY <2>2, <3>1, PlanOfChanged
  <2>4. /\ Plan(p, effects') /\ effects'[Len(effects')].do # "release"
        /\ effects'[1].do = IF old.mock # new.mock THEN "release" ELSE "update"
        /\ effects'[Len(effects')].do = "lease" => old.options = new.options
        /\ old.mock = new.mock => \A i \in DOMAIN effects' : effects'[i].do # "lease"
    BY <2>2, <2>3, PlanOfChanged
  <2>5. /\ 1 \in DOMAIN effects' /\ effects'[1].at = p
        /\ \A i \in DOMAIN effects' : effects'[i].at = p
        /\ Busy(p)' /\ \A q : q # p => ~Busy(q)'
    BY <2>3, <2>4, Commits
  <2>6. ProvidersInv'
    BY <1>3, <1>5, <2>5 DEF ProvidersInv, ProviderInv
  <2>7. PlanInv'
    <3>1. IF effects'[1].do = "lease" THEN handle'[p] = {} ELSE \E k \in Leases : handle'[p] = {k}
      BY <1>2, <2>1, <2>4
    <3>2. effects'[1].do = "update" =>
             \E given \in props'[p] : \A k \in handle'[p] : OwnerOf[k] = given.mock
      BY <1>2, <1>3, <2>1, <2>4
    <3>3. effects'[Len(effects')].do = "lease" =>
             \A given \in props'[p] : optionsRef'[p] = given.options
      BY <1>2, <1>3, <2>1, <2>4
    <3>. QED
      BY <1>2, <1>7, <2>4, <2>5, <3>1, <3>2, <3>3 DEF PlanInv, Plan
  <2>8. /\ ArrivalInv'
        /\ \A b, c : b # p /\ c # p /\ Precedes(b, c, arrivals) => Precedes(b, c, arrivals')
    <3>1. CASE old.mock # new.mock
      <4>1. Arrive(p) /\ shown' = shown \cup {p}
        BY <1>1, <1>2, <1>7, <3>1
      <4>. QED
        BY <1>2, <2>5, <4>1, ProviderArrives DEF FollowInv, vars, leases
    <3>2. CASE old.mock = new.mock
      <4>1. UNCHANGED arrivals /\ \A i \in DOMAIN effects' : effects'[i].do # "lease"
        BY <1>1, <2>4, <3>2
      <4>. QED
        BY <1>2, <4>1 DEF FollowInv, ArrivalInv, Running, vars, leases
    <3>. QED
      BY <3>1, <3>2
  <2>9. Leaving(p)' \/ UNCHANGED arrivals
    BY <1>1, <2>4, <2>5 DEF Leaving
  <2>10. OrderInv'
    BY <1>2, <2>8, <2>9, OrderMoves DEF FollowInv, vars, leases
  <2>. QED
    BY <1>4, <2>6, <2>7, <2>8, <2>10 DEF FollowInv
<1>. QED
  BY <1>6, <1>7

-----------------------------------------------------------------------------
(* The effects of a commit. *)

LEMMA PlanGoesOn ==
    ASSUME AdaptersInv, PlanInv, ArrivalInv, effects # <<>>, effects' = Tail(effects),
           UNCHANGED <<props, shown, apps, users, arrivals>>,
           \A l \in users : l \in restored' <=> l \in restored, NEW p, p = effects[1].at,
           effects[1].do = "lease" =>
               /\ \E l \in Leases : handle'[p] = {l}
               /\ \E given \in props[p] : \A l \in handle'[p] : OwnerOf[l] = given.mock,
           effects[1].do = "update" => \E l \in Leases : handle'[p] = {l},
           effects[1].do = "release" => handle'[p] = {},
           \A given \in props[p] : optionsRef[p] = given.options => optionsRef'[p] = given.options
    PROVE  PlanInv' /\ ArrivalInv'
<1>1. /\ effects[1] \in Todo /\ Left
      /\ \A i \in DOMAIN effects' :
            /\ effects'[i] = effects[i + 1] /\ i + 1 \in DOMAIN effects
            /\ effects'[i].at = effects'[1].at
            /\ i + 1 \in DOMAIN effects' => <<effects'[i].do, effects'[i + 1].do>> \in Successions
  BY Tails
<1>2. PlanInv'
  <2>1. CASE effects' = <<>>
    BY <2>1 DEF PlanInv
  <2>2. CASE effects' # <<>>
    <3>1. /\ effects'[1].at = p /\ <<effects[1].do, effects'[1].do>> \in Successions
          /\ effects'[Len(effects')] = effects[Len(effects)]
      BY <1>1, <2>2 DEF Left
    <3>2. \/ effects[1].do = "lease" /\ effects'[1].do = "update"
          \/ effects[1].do = "update" /\ effects'[1].do = "release"
          \/ effects[1].do = "release" /\ effects'[1].do = "lease"
      BY <3>1 DEF Successions
    <3>3. /\ effects'[Len(effects')].do = "release" <=> p \notin shown'
          /\ effects'[Len(effects')].do = "lease" =>
                \A given \in props'[p] : optionsRef'[p] = given.options
      BY <3>1 DEF PlanInv
    <3>4. /\ IF effects'[1].do = "lease" THEN handle'[p] = {} ELSE \E l \in Leases : handle'[p] = {l}
          /\ effects'[1].do = "update" =>
                \E given \in props'[p] : \A l \in handle'[p] : OwnerOf[l] = given.mock
      BY <3>2
    <3>. QED
      BY <1>1, <3>1, <3>3, <3>4 DEF PlanInv
  <2>. QED
    BY <2>1, <2>2
<1>3. ArrivalInv'
  <2>1. \A i \in DOMAIN effects' : effects'[i].do = "lease" =>
           \A a : InList(a, arrivals) /\ a # effects'[i].at => Precedes(a, effects'[i].at, arrivals)
    BY <1>1 DEF ArrivalInv
  <2>2. \A l \in Leases : InList(l, arrivals) <=> l \in users' /\ l \notin restored'
    BY DEF ArrivalInv
  <2>. QED
    BY <2>1, <2>2 DEF ArrivalInv, Running
<1>. QED
  BY <1>2, <1>3

\* Those a commit is not about.
LEMMA OthersStay ==
    ASSUME AdaptersInv, PlanInv, ProvidersInv, AppsInv, effects # <<>>, effects' = Tail(effects),
           UNCHANGED <<props, shown, apps>>, NEW p \in Providers, p = effects[1].at,
           \A a \in Parties : a # p => handle'[a] = handle[a],
           \A q \in Providers : q # p => optionsRef'[q] = optionsRef[q],
           \A a \in Parties : a # p => \A l \in handle[a] : options'[l] = options[l]
    PROVE  /\ AppsInv'
           /\ \A q \in Providers : q # p => ProviderInv(q)'
           /\ ~Busy(p)' => (p \in shown <=> effects[Len(effects)].do # "release") /\ Len(effects) = 1
           /\ \A a : a # p => ~Busy(a) /\ ~Leaving(a)
<1>1. /\ Left /\ \A a : Busy(a) \/ Busy(a)' \/ Leaving(a) => a = p
  BY Tails
<1>2. AppsInv'
  BY PartiesAssumption DEF AppsInv, Running, Parties
<1>3. ASSUME NEW q \in Providers, q # p PROVE ProviderInv(q)'
  BY <1>1, <1>3, ProviderStays DEF ProvidersInv, Parties
<1>4. ~Busy(p)' => (p \in shown <=> effects[Len(effects)].do # "release") /\ Len(effects) = 1
  <2>1. CASE effects' = <<>>
    BY <1>1, <2>1 DEF Left, PlanInv
  <2>2. CASE effects' # <<>>
    <3>1. effects' \in Seq(Todo) /\ effects'[1].at = p
      BY <1>1, <2>2, HeadTailProperties DEF AdaptersInv, Left
    <3>2. 1 \in DOMAIN effects'
      BY <2>2, <3>1, LenProperties, EmptySeq
    <3>. QED
      BY <3>1, <3>2 DEF Busy
  <2>. QED
    BY <2>1, <2>2
<1>. QED
  BY <1>1, <1>2, <1>3, <1>4

LEMMA LeaseFollows ==
    ASSUME IInv, AdaptersInv, FollowInv, effects # <<>>, effects' = Tail(effects),
           NEW p \in Providers, p = effects[1].at, effects[1].do = "lease", Lease(p),
           UNCHANGED <<props, shown, apps, users, arrivals>>
    PROVE  FollowInv'
<1>1. PICK given \in props[p], l \in Leases :
         /\ OwnerOf[l] = given.mock /\ Intercept(l, optionsRef[p])
         /\ handle' = [handle EXCEPT ![p] = {l}] /\ UNCHANGED optionsRef
  BY DEF Lease, Free
<1>2. /\ p \in Parties /\ optionsRef[p] \in Options /\ handle[p] = {}
      /\ 1 \in DOMAIN effects /\ ProviderInv(p)
      /\ handle'[p] = {l} /\ \A a \in Parties : a # p => handle'[a] = handle[a]
  BY <1>1, EmptySeq, LenProperties DEF Parties, AdaptersInv, FollowInv, PlanInv, ProvidersInv
<1>3. /\ OwnerInv' /\ l \notin users /\ OwnersOf(l)' = {p}
      /\ \A b \in Parties : l \notin handle[b]
      /\ \A k \in Held : OwnersOf(k)' = OwnersOf(k) /\ p \notin OwnersOf(k)
  BY <1>1, <1>2, Takes DEF FollowInv
<1>4. NativeInv'
  BY <1>1, <1>2, NativeIntercepts DEF FollowInv
<1>5. /\ options' = [options EXCEPT ![l] = optionsRef[p]] /\ options \in [Leases -> Options]
      /\ UNCHANGED restored
  BY <1>1, <1>2, Intercepts
<1>6. /\ AppsInv' /\ \A q \in Providers : q # p => ProviderInv(q)'
      /\ ~Busy(p)' => (p \in shown <=> effects[Len(effects)].do # "release") /\ Len(effects) = 1
      /\ \A a : a # p => ~Busy(a) /\ ~Leaving(a)
  BY <1>1, <1>2, <1>3, <1>5, OthersStay DEF FollowInv, AdaptersInv
<1>7. ProviderInv(p)'
  <2>1. CASE Busy(p)'
    BY <1>2, <2>1 DEF ProviderInv
  <2>2. CASE ~Busy(p)'
    <3>1. p \in shown /\ optionsRef[p] = given.options
      BY <1>1, <1>6, <2>2 DEF FollowInv, PlanInv
    <3>2. options'[l] = given.options
      BY <1>5, <3>1
    <3>3. Follows(p)'
      BY <1>1, <1>2, <3>1, <3>2 DEF Follows
    <3>. QED
      BY <1>2, <3>1, <3>3 DEF ProviderInv
  <2>. QED
    BY <2>1, <2>2
<1>8. PlanInv' /\ ArrivalInv'
  BY <1>1, <1>2, <1>5, PlanGoesOn DEF FollowInv
<1>9. OrderInv'
  <2>1. \A b : InList(b, arrivals) /\ b # p => Precedes(b, p, arrivals')
    BY <1>2 DEF FollowInv, ArrivalInv
  <2>. QED
    BY <1>1, <1>2, <1>3, <1>6, <2>1, OrderTakes DEF FollowInv
<1>. QED
  BY <1>3, <1>4, <1>6, <1>7, <1>8, <1>9 DEF FollowInv, ProvidersInv

LEMMA UpdateFollows ==
    ASSUME IInv, AdaptersInv, FollowInv, effects # <<>>, effects' = Tail(effects),
           NEW p \in Providers, p = effects[1].at, effects[1].do = "update", UpdateLease(p),
           UNCHANGED <<props, shown, apps, users, arrivals>>
    PROVE  FollowInv'
<1>1. PICK given \in props[p] :
         /\ optionsRef' = [optionsRef EXCEPT ![p] = given.options]
         /\ \/ \E l \in handle[p] : Update(l, given.options)
            \/ /\ \A l \in handle[p] : options[l] = given.options
               /\ UNCHANGED vars
         /\ UNCHANGED handle
  BY DEF UpdateLease
<1>2. PICK l \in Leases : handle[p] = {l}
  BY DEF FollowInv, PlanInv
<1>3. /\ p \in Parties /\ given.options \in Options /\ ProviderInv(p) /\ props[p] = {given}
      /\ optionsRef'[p] = given.options
      /\ \A q \in Providers : q # p => optionsRef'[q] = optionsRef[q]
  BY <1>1, OfferedAssumption DEF Parties, AdaptersInv, Rendered, FollowInv, ProvidersInv, ProviderInv
<1>4. /\ options'[l] = given.options
      /\ \A k \in Leases : k # l => options'[k] = options[k]
      /\ UNCHANGED <<fetch, sessions, activeSession, heldBy, restored, inner>>
  <2>1. CASE Update(l, given.options)
    BY <1>3, <2>1, Updates
  <2>2. CASE options[l] = given.options /\ UNCHANGED vars
    BY <2>2 DEF vars, leases, thirdParty
  <2>. QED
    BY <1>1, <1>2, <2>1, <2>2
<1>5. OwnerInv' /\ NativeInv'
  BY <1>1, <1>4, StillOwned DEF FollowInv
<1>6. \A a \in Parties : a # p => \A k \in handle[a] : options'[k] = options[k]
  BY <1>2, <1>3, <1>4 DEF FollowInv, OwnerInv, Held
<1>7. /\ AppsInv' /\ \A q \in Providers : q # p => ProviderInv(q)'
      /\ ~Busy(p)' => (p \in shown <=> effects[Len(effects)].do # "release") /\ Len(effects) = 1
  BY <1>1, <1>3, <1>6, OthersStay DEF FollowInv
<1>8. ProviderInv(p)'
  <2>1. CASE Busy(p)'
    BY <1>3, <2>1 DEF ProviderInv
  <2>2. CASE ~Busy(p)'
    <3>1. p \in shown /\ OwnerOf[l] = given.mock
      BY <1>2, <1>3, <1>7, <2>2 DEF FollowInv, PlanInv
    <3>2. Follows(p)'
      BY <1>1, <1>2, <1>3, <1>4, <3>1 DEF Follows
    <3>. QED
      BY <1>3, <3>1, <3>2 DEF ProviderInv
  <2>. QED
    BY <2>1, <2>2
<1>9. PlanInv' /\ ArrivalInv'
  BY <1>1, <1>2, <1>3, <1>4, PlanGoesOn DEF FollowInv
<1>10. OrderInv'
  <2>1. \A a : Leaving(a) => Leaving(a)'
    BY Tails DEF FollowInv
  <2>. QED
    BY <1>1, <1>4, <2>1 DEF FollowInv, OrderInv, OwnersOf
<1>. QED
  BY <1>5, <1>7, <1>8, <1>9, <1>10 DEF FollowInv, ProvidersInv

LEMMA ReleaseGives ==
    ASSUME IInv, AdaptersInv, OwnerInv, NEW p \in Providers, NEW l \in Leases,
           handle[p] = {l}, Release(p), UNCHANGED users
    PROVE  /\ Restore(l) /\ handle' = [handle EXCEPT ![p] = {}]
           /\ OwnerInv' /\ l \notin users
           /\ \A k \in Leases : k # l => OwnersOf(k)' = OwnersOf(k) /\ p \notin OwnersOf(k)
<1>1. Restore(l) /\ handle' = [handle EXCEPT ![p] = {}] /\ p \in Parties
  BY DEF Release, Parties
<1>. QED
  BY <1>1, Gives

LEMMA ReleaseFollows ==
    ASSUME IInv, AdaptersInv, FollowInv, effects # <<>>, effects' = Tail(effects),
           NEW p \in Providers, p = effects[1].at, effects[1].do = "release", Release(p),
           UNCHANGED <<props, shown, optionsRef, apps, users, arrivals>>
    PROVE  FollowInv'
<1>1. PICK l \in Leases : handle[p] = {l}
  BY DEF FollowInv, PlanInv
<1>2. /\ Restore(l) /\ handle' = [handle EXCEPT ![p] = {}]
      /\ OwnerInv' /\ l \notin users
      /\ \A k \in Leases : k # l => OwnersOf(k)' = OwnersOf(k) /\ p \notin OwnersOf(k)
  <2>1. OwnerInv /\ UNCHANGED users
    BY DEF FollowInv
  <2>. QED
    BY <1>1, <2>1, ReleaseGives
<1>3. /\ p \in Parties /\ ProviderInv(p)
      /\ handle'[p] = {} /\ \A a \in Parties : a # p => handle'[a] = handle[a]
  BY <1>2 DEF Parties, AdaptersInv, FollowInv, ProvidersInv
<1>4. NativeInv'
  BY <1>2, NativeRestores DEF FollowInv
<1>5. restored' = restored \cup {l} /\ UNCHANGED options
  BY <1>2, Restores
<1>6. /\ AppsInv' /\ \A q \in Providers : q # p => ProviderInv(q)'
      /\ ~Busy(p)' => (p \in shown <=> effects[Len(effects)].do # "release") /\ Len(effects) = 1
      /\ \A a : a # p => ~Busy(a) /\ ~Leaving(a)
  BY <1>3, <1>5, OthersStay DEF FollowInv
<1>7. ProviderInv(p)'
  BY <1>3, <1>6 DEF ProviderInv
<1>8. PlanInv' /\ ArrivalInv'
  BY <1>2, <1>3, <1>5, PlanGoesOn DEF FollowInv
<1>9. OrderInv'
  BY <1>2, <1>6, OrderGives DEF FollowInv
<1>. QED
  BY <1>2, <1>4, <1>6, <1>7, <1>8, <1>9 DEF FollowInv, ProvidersInv

LEMMA EffectFollows == ASSUME IInv, AdaptersInv, FollowInv, RunEffect PROVE FollowInv'
<1>1. /\ effects # <<>> /\ effects' = Tail(effects)
      /\ UNCHANGED <<props, shown, apps, users, arrivals>>
  BY DEF RunEffect, Idle
<1>2. effects[1] = Head(effects) /\ effects[1] \in Todo
  BY <1>1, Tails DEF FollowInv
<1>3. PICK p \in Providers : p = effects[1].at
  BY <1>2 DEF Todo
<1>4. \/ effects[1].do = "lease" /\ Lease(p)
      \/ effects[1].do = "update" /\ UpdateLease(p)
      \/ effects[1].do = "release" /\ Release(p) /\ UNCHANGED optionsRef
  BY <1>2, <1>3 DEF RunEffect
<1>. QED
  BY <1>1, <1>3, <1>4, LeaseFollows, UpdateFollows, ReleaseFollows

-----------------------------------------------------------------------------
(* Apps of Vue, and user code. *)

\* Between two commits all that is asked of an arrival is who is there.
LEMMA ArrivalsKnown ==
    ASSUME Idle, UNCHANGED effects,
           arrivals' \in Seq(Parties \cup Leases), IsInjective(arrivals'),
           \A p \in Providers : InList(p, arrivals') <=> p \in shown',
           \A a \in Apps : InList(a, arrivals') <=> Running(a)',
           \A l \in Leases : InList(l, arrivals') <=> l \in users' /\ l \notin restored'
    PROVE  PlanInv' /\ ArrivalInv'
<1>1. effects' = <<>>
  BY DEF Idle
<1>. QED
  BY <1>1 DEF PlanInv, ArrivalInv, Parties

\* Providers and apps whose leases are left alone, between two commits.
LEMMA PartiesStay ==
    ASSUME FollowInv, Idle, UNCHANGED <<props, shown, optionsRef, effects>>, NEW a,
           \A b \in Parties : b # a => handle'[b] = handle[b],
           \A b \in Parties : b # a => \A l \in handle[b] : options'[l] = options[l]
    PROVE  \A q \in Providers : q # a => ProviderInv(q)'
<1>1. \A b : ~Busy(b) /\ ~Busy(b)'
  BY DEF Idle, Busy
<1>. QED
  BY <1>1, ProviderStays DEF FollowInv, ProvidersInv, Parties

LEMMA InstallFollows ==
    ASSUME IInv, AdaptersInv, FollowInv, NEW a \in Apps, Install(a) PROVE FollowInv'
<1>1. PICK l \in Leases, o \in Options :
         Intercept(l, o) /\ handle' = [handle EXCEPT ![a] = {l}]
  BY OfferedAssumption DEF Install
<1>2. /\ Idle /\ apps[a] = "new" /\ apps' = [apps EXCEPT ![a] = "installed"] /\ Arrive(a)
      /\ UNCHANGED <<props, shown, optionsRef, effects, users>>
  BY DEF Install, Ready
<1>3. /\ a \in Parties /\ a \notin Providers /\ a \notin Leases /\ handle[a] = {}
      /\ handle'[a] = {l} /\ \A b \in Parties : b # a => handle'[b] = handle[b]
  BY <1>1, <1>2, PartiesAssumption DEF Parties, AdaptersInv, FollowInv, AppsInv, Running
<1>4. /\ OwnerInv' /\ l \notin users /\ OwnersOf(l)' = {a}
      /\ \A b \in Parties : l \notin handle[b]
      /\ \A k \in Held : OwnersOf(k)' = OwnersOf(k) /\ a \notin OwnersOf(k)
  BY <1>1, <1>2, <1>3, Takes DEF FollowInv
<1>5. NativeInv'
  BY <1>1, NativeIntercepts DEF FollowInv
<1>6. /\ options' = [options EXCEPT ![l] = o] /\ options \in [Leases -> Options]
      /\ UNCHANGED restored
  BY <1>1, Intercepts
<1>7. \A b \in Parties : \A k \in handle[b] : options'[k] = options[k]
  BY <1>4, <1>6
<1>8. ProvidersInv'
  BY <1>2, <1>3, <1>7, PartiesStay DEF ProvidersInv
<1>9. \A b \in Apps : Running(b)' <=> Running(b) \/ b = a
  BY <1>2 DEF FollowInv, AppsInv, Running
<1>10. AppsInv'
  BY <1>2, <1>3, <1>9 DEF FollowInv, AppsInv, Parties
<1>11. /\ arrivals' \in Seq(Parties \cup Leases) /\ IsInjective(arrivals')
       /\ \A b : InList(b, arrivals') <=> (b = a \/ InList(b, arrivals))
       /\ \A b, c : Precedes(b, c, arrivals') <=>
                       \/ Precedes(b, c, arrivals) /\ b # a /\ c # a
                       \/ InList(b, arrivals) /\ b # a /\ c = a
  BY <1>2, <1>3, Arrives DEF FollowInv
<1>12. PlanInv' /\ ArrivalInv'
  <2>1. /\ \A p \in Providers : InList(p, arrivals') <=> p \in shown'
        /\ \A b \in Apps : InList(b, arrivals') <=> Running(b)'
        /\ \A k \in Leases : InList(k, arrivals') <=> k \in users' /\ k \notin restored'
    BY <1>2, <1>3, <1>6, <1>9, <1>11 DEF FollowInv, ArrivalInv
  <2>. QED
    BY <1>2, <1>11, <2>1, ArrivalsKnown
<1>13. OrderInv'
  <2>1. \A b : ~Busy(b) /\ ~Leaving(b)
    BY <1>2, NoCommit
  <2>. QED
    BY <1>1, <1>4, <1>11, <2>1, OrderTakes DEF FollowInv
<1>. QED
  BY <1>4, <1>5, <1>8, <1>10, <1>12, <1>13 DEF FollowInv

LEMMA RestoreAppFollows ==
    ASSUME IInv, AdaptersInv, FollowInv, NEW a \in Apps, RestoreApp(a) PROVE FollowInv'
<1>1. /\ Idle /\ Running(a) /\ apps' = [apps EXCEPT ![a] = "over"] /\ Depart(a)
      /\ UNCHANGED <<props, shown, optionsRef, effects, users>>
  BY DEF RestoreApp, Ready, Running
<1>2. PICK l \in Leases : handle[a] = {l} /\ Restore(l) /\ handle' = [handle EXCEPT ![a] = {}]
  BY <1>1 DEF RestoreApp, Release, FollowInv, AppsInv
<1>3. /\ a \in Parties /\ a \notin Providers /\ a \notin Leases
      /\ handle'[a] = {} /\ \A b \in Parties : b # a => handle'[b] = handle[b]
  BY <1>2, PartiesAssumption DEF Parties, AdaptersInv
<1>4. /\ OwnerInv' /\ l \notin users
      /\ \A k \in Leases : k # l => OwnersOf(k)' = OwnersOf(k) /\ a \notin OwnersOf(k)
  BY <1>1, <1>2, <1>3, Gives DEF FollowInv
<1>5. NativeInv'
  BY <1>2, NativeRestores DEF FollowInv
<1>6. restored' = restored \cup {l} /\ UNCHANGED options
  BY <1>2, Restores
<1>7. ProvidersInv'
  BY <1>1, <1>3, <1>6, PartiesStay DEF ProvidersInv
<1>8. \A b \in Apps : Running(b)' <=> Running(b) /\ b # a
  BY <1>1 DEF FollowInv, AppsInv, Running
<1>9. AppsInv'
  BY <1>1, <1>3, <1>8 DEF FollowInv, AppsInv, Parties
<1>10. /\ arrivals' \in Seq(Parties \cup Leases) /\ IsInjective(arrivals')
       /\ \A b : InList(b, arrivals') <=> InList(b, arrivals) /\ b # a
       /\ \A b, c : Precedes(b, c, arrivals') <=> Precedes(b, c, arrivals) /\ b # a /\ c # a
  BY <1>1, Departs DEF FollowInv, Depart
<1>11. PlanInv' /\ ArrivalInv'
  <2>1. /\ \A p \in Providers : InList(p, arrivals') <=> p \in shown'
        /\ \A b \in Apps : InList(b, arrivals') <=> Running(b)'
        /\ \A k \in Leases : InList(k, arrivals') <=> k \in users' /\ k \notin restored'
    BY <1>1, <1>3, <1>4, <1>6, <1>8, <1>10 DEF FollowInv, ArrivalInv
  <2>. QED
    BY <1>1, <1>10, <2>1, ArrivalsKnown
<1>12. OrderInv'
  <2>1. \A b : ~Leaving(b)
    BY <1>1, NoCommit
  <2>. QED
    BY <1>2, <1>4, <1>10, <2>1, OrderGives DEF FollowInv
<1>. QED
  BY <1>4, <1>5, <1>7, <1>9, <1>11, <1>12 DEF FollowInv

LEMMA UserInterceptFollows ==
    ASSUME IInv, AdaptersInv, FollowInv, NEW l \in Leases, NEW o \in Options,
           Idle, Intercept(l, o), users' = users \cup {l}, Arrive(l),
           UNCHANGED <<props, shown, optionsRef, handle, effects, apps>>
    PROVE  FollowInv'
<1>1. /\ heldBy[l] = 0 /\ l \notin restored /\ l \notin Held
      /\ heldBy'[l] # 0 /\ \A k \in Leases : k # l => heldBy'[k] = heldBy[k]
      /\ Held' = Held \cup {l} /\ Held \subseteq Leases
      /\ options' = [options EXCEPT ![l] = o] /\ options \in [Leases -> Options]
      /\ UNCHANGED restored
  BY Intercepts DEF Held
<1>2. l \notin Parties /\ l \notin users /\ \A b \in Parties : l \notin handle[b]
  BY <1>1, PartiesAssumption DEF FollowInv, OwnerInv, Parties
<1>3. OwnerInv'
  BY <1>1, <1>2 DEF FollowInv, OwnerInv, Parties
<1>4. /\ OwnersOf(l)' = {l}
      /\ \A k \in Held : OwnersOf(k)' = OwnersOf(k) /\ l \notin OwnersOf(k)
  BY <1>1, <1>2 DEF OwnersOf, Parties
<1>5. NativeInv'
  BY NativeIntercepts DEF FollowInv
<1>6. \A b \in Parties : \A k \in handle[b] : options'[k] = options[k]
  BY <1>1, <1>2
<1>7. ProvidersInv'
  BY <1>2, <1>6, PartiesStay DEF ProvidersInv, Parties
<1>8. AppsInv' /\ \A b \in Apps : Running(b)' <=> Running(b)
  BY DEF FollowInv, AppsInv, Running
<1>9. /\ arrivals' \in Seq(Parties \cup Leases) /\ IsInjective(arrivals')
      /\ \A b : InList(b, arrivals') <=> (b = l \/ InList(b, arrivals))
      /\ \A b, c : Precedes(b, c, arrivals') <=>
                      \/ Precedes(b, c, arrivals) /\ b # l /\ c # l
                      \/ InList(b, arrivals) /\ b # l /\ c = l
  BY Arrives DEF FollowInv
<1>10. PlanInv' /\ ArrivalInv'
  <2>1. /\ \A p \in Providers : InList(p, arrivals') <=> p \in shown'
        /\ \A b \in Apps : InList(b, arrivals') <=> Running(b)'
        /\ \A k \in Leases : InList(k, arrivals') <=> k \in users' /\ k \notin restored'
    BY <1>1, <1>2, <1>8, <1>9 DEF FollowInv, ArrivalInv, Parties
  <2>. QED
    BY <1>9, <2>1, ArrivalsKnown
<1>11. OrderInv'
  <2>1. \A b : ~Busy(b) /\ ~Leaving(b)
    BY NoCommit
  <2>. QED
    BY <1>4, <1>9, <2>1, OrderTakes DEF FollowInv
<1>. QED
  BY <1>3, <1>5, <1>7, <1>8, <1>10, <1>11 DEF FollowInv

LEMMA UserRestoreFollows ==
    ASSUME IInv, AdaptersInv, FollowInv, NEW l \in users,
           Idle, Restore(l), Depart(l),
           UNCHANGED <<props, shown, optionsRef, handle, effects, apps, users>>
    PROVE  FollowInv'
<1>1. l \in Leases /\ l \notin Parties /\ \A b \in Parties : l \notin handle[b]
  BY PartiesAssumption DEF FollowInv, OwnerInv, Parties
<1>2. /\ Held' = Held \ {l} /\ restored' = restored \cup {l} /\ UNCHANGED <<heldBy, options>>
  BY <1>1, Restores
<1>3. OwnerInv'
  BY <1>1, <1>2 DEF FollowInv, OwnerInv, Parties
<1>4. \A k \in Leases : k # l => OwnersOf(k)' = OwnersOf(k) /\ l \notin OwnersOf(k)
  BY <1>1 DEF OwnersOf, Parties
<1>5. NativeInv'
  BY <1>1, NativeRestores DEF FollowInv
<1>6. ProvidersInv'
  BY <1>1, <1>2, PartiesStay DEF ProvidersInv, Parties
<1>7. AppsInv' /\ \A b \in Apps : Running(b)' <=> Running(b)
  BY DEF FollowInv, AppsInv, Running
<1>8. /\ arrivals' \in Seq(Parties \cup Leases) /\ IsInjective(arrivals')
      /\ \A b : InList(b, arrivals') <=> InList(b, arrivals) /\ b # l
      /\ \A b, c : Precedes(b, c, arrivals') <=> Precedes(b, c, arrivals) /\ b # l /\ c # l
  BY Departs DEF FollowInv, Depart
<1>9. PlanInv' /\ ArrivalInv'
  <2>1. /\ \A p \in Providers : InList(p, arrivals') <=> p \in shown'
        /\ \A b \in Apps : InList(b, arrivals') <=> Running(b)'
        /\ \A k \in Leases : InList(k, arrivals') <=> k \in users' /\ k \notin restored'
    BY <1>1, <1>2, <1>7, <1>8 DEF FollowInv, ArrivalInv, Parties
  <2>. QED
    BY <1>8, <2>1, ArrivalsKnown
<1>10. OrderInv'
  <2>1. \A b : ~Leaving(b)
    BY NoCommit
  <2>. QED
    BY <1>1, <1>4, <1>8, <2>1, OrderGives DEF FollowInv
<1>. QED
  BY <1>3, <1>5, <1>6, <1>7, <1>9, <1>10 DEF FollowInv

\* What is left alone stays as it was.
LEMMA NothingMoves ==
    ASSUME FollowInv, Idle,
           UNCHANGED <<sessions, heldBy, restored, props, shown, optionsRef, handle, effects,
                       apps, users, arrivals>>,
           \A a \in Parties : \A l \in handle[a] : options'[l] = options[l], NativeInv'
    PROVE  FollowInv'
<1>1. OwnerInv'
  BY DEF FollowInv, OwnerInv, Held
<1>2. ProvidersInv' /\ AppsInv'
  <2>1. \A b : ~Busy(b) /\ ~Busy(b)'
    BY DEF Idle, Busy
  <2>2. ProvidersInv'
    BY <2>1, ProviderStays DEF FollowInv, ProvidersInv, Parties
  <2>. QED
    BY <2>2 DEF FollowInv, AppsInv, Running
<1>3. PlanInv' /\ ArrivalInv'
  BY DEF FollowInv, PlanInv, ArrivalInv, Running
<1>4. OrderInv'
  BY DEF FollowInv, OrderInv, OwnersOf, Leaving
<1>. QED
  BY <1>1, <1>2, <1>3, <1>4 DEF FollowInv

LEMMA UserFollows ==
    ASSUME IInv, AdaptersInv, FollowInv, UserLeases PROVE FollowInv'
<1>1. Idle /\ UNCHANGED <<props, shown, optionsRef, handle, effects, apps>>
  BY DEF UserLeases, Ready
<1>2. PICK l \in Leases :
         \/ /\ \E o \in Given[l] : Intercept(l, o)
            /\ users' = users \cup {l} /\ Arrive(l)
         \/ /\ l \in users /\ Restore(l)
            /\ Depart(l) /\ UNCHANGED users
         \/ /\ l \in users /\ \E o \in Given[l] : Update(l, o)
            /\ UNCHANGED <<users, arrivals>>
  BY DEF UserLeases
<1>3. \A o \in Given[l] : o \in Options
  BY GivenAssumption
<1>4. CASE (\E o \in Given[l] : Intercept(l, o)) /\ users' = users \cup {l} /\ Arrive(l)
  BY <1>1, <1>3, <1>4, UserInterceptFollows
<1>5. CASE l \in users /\ Restore(l) /\ Depart(l) /\ UNCHANGED users
  BY <1>1, <1>5, UserRestoreFollows
<1>6. CASE l \in users /\ (\E o \in Given[l] : Update(l, o)) /\ UNCHANGED <<users, arrivals>>
  <2>1. PICK o \in Options : Update(l, o)
    BY <1>3, <1>6
  <2>2. /\ options' = [options EXCEPT ![l] = o] /\ options \in [Leases -> Options]
        /\ UNCHANGED <<fetch, sessions, activeSession, heldBy, restored, inner>>
    BY <2>1, Updates
  <2>3. \A a \in Parties : \A k \in handle[a] : options'[k] = options[k]
    BY <1>6, <2>2 DEF FollowInv, OwnerInv
  <2>4. NativeInv'
    BY <1>1, <1>6, <2>2, StillOwned DEF FollowInv
  <2>. QED
    BY <1>1, <1>6, <2>2, <2>3, <2>4, NothingMoves
<1>. QED
  BY <1>2, <1>4, <1>5, <1>6

-----------------------------------------------------------------------------
(* The other steps. *)

LEMMA RequestsAreQuiet ==
    ASSUME NEW r \in Requests, Call(r) \/ Abort(r) \/ RequestStep(r) \/ UserCodeStep(r)
    PROVE  UNCHANGED <<fetch, leases, thirdParty>>
<1>1. CASE Call(r) \/ Abort(r)
  BY <1>1 DEF Call, Abort
<1>2. CASE RequestStep(r)
  BY <1>2 DEF RequestStep, CallWrapper, CallNative, DispatchFetch, Resume, AbortRejects, Unwinds
<1>3. CASE UserCodeStep(r)
  BY <1>3 DEF UserCodeStep, BeforeRequest, HandleSettles, Throws
<1>. QED
  BY <1>1, <1>2, <1>3

LEMMA ElsewhereFollows == ASSUME IInv, FollowInv, Elsewhere PROVE FollowInv'
<1>1. Idle /\ UNCHANGED <<props, shown, optionsRef, handle, effects, apps, users, arrivals>>
  BY DEF Elsewhere, adapters
<1>2. CASE \E w \in Wrappers : Wrap(w) \/ Unwrap(w)
  <2>1. PICK w \in Wrappers : Wrap(w) \/ Unwrap(w)
    BY <1>2
  <2>2. UNCHANGED leases /\ inner'[w] # {}
    BY <2>1 DEF Wrap, Unwrap, IInv, TypeInv
  <2>3. NativeInv'
    BY <2>2 DEF NativeInv
  <2>. QED
    BY <1>1, <2>2, <2>3, NothingMoves DEF leases
<1>3. CASE \E r \in Requests : Call(r) \/ Abort(r) \/ RequestStep(r) \/ UserCodeStep(r)
  <2>1. UNCHANGED <<fetch, sessions, activeSession, heldBy, options, restored, inner>>
    BY <1>3, RequestsAreQuiet DEF leases, thirdParty
  <2>2. NativeInv'
    BY <1>1, <2>1, StillOwned DEF FollowInv
  <2>. QED
    BY <1>1, <2>1, <2>2, NothingMoves
<1>. QED
  BY <1>2, <1>3 DEF Elsewhere

LEMMA MountAppFollows ==
    ASSUME AdaptersInv, FollowInv, NEW a \in Apps, MountApp(a) PROVE FollowInv'
<1>1. /\ Idle /\ apps[a] = "installed" /\ apps' = [apps EXCEPT ![a] = "mounted"]
      /\ UNCHANGED <<vars, props, shown, optionsRef, handle, effects, users, arrivals>>
  BY DEF MountApp, Ready
<1>2. \A b \in Apps : Running(b)' <=> Running(b)
  BY <1>1 DEF FollowInv, AppsInv, Running
<1>3. UNCHANGED <<fetch, sessions, activeSession, heldBy, options, restored, inner>>
  BY <1>1 DEF vars, leases, thirdParty
<1>4. OwnerInv' /\ NativeInv'
  BY <1>1, <1>3, StillOwned DEF FollowInv
<1>5. AppsInv'
  BY <1>1, <1>2 DEF FollowInv, AppsInv
<1>6. ProvidersInv'
  <2>1. \A b : ~Busy(b) /\ ~Busy(b)'
    BY <1>1 DEF Idle, Busy
  <2>. QED
    BY <1>1, <1>3, <2>1, ProviderStays DEF FollowInv, ProvidersInv
<1>7. PlanInv' /\ ArrivalInv'
  BY <1>1, <1>2, <1>3 DEF FollowInv, PlanInv, ArrivalInv
<1>8. OrderInv'
  BY <1>1, <1>3 DEF FollowInv, OrderInv, OwnersOf, Leaving
<1>. QED
  BY <1>4, <1>5, <1>6, <1>7, <1>8 DEF FollowInv

LEMMA StutterFollows == ASSUME FollowInv, UNCHANGED <<vars, adapters>> PROVE FollowInv'
<1>1. UNCHANGED <<fetch, sessions, activeSession, heldBy, options, restored, inner, props, shown,
                  optionsRef, handle, effects, apps, users, arrivals>>
  BY DEF vars, leases, thirdParty, adapters
<1>2. OwnerInv' /\ AppsInv' /\ NativeInv'
  BY <1>1, StillOwned DEF FollowInv
<1>3. ProvidersInv'
  BY <1>1 DEF FollowInv, ProvidersInv, ProviderInv, Follows, Busy
<1>4. PlanInv' /\ ArrivalInv'
  BY <1>1 DEF FollowInv, PlanInv, ArrivalInv, Running
<1>5. OrderInv'
  BY <1>1 DEF FollowInv, OrderInv, OwnersOf, Leaving
<1>. QED
  BY <1>2, <1>3, <1>4, <1>5 DEF FollowInv

LEMMA AllFollow ==
    ASSUME IInv, AdaptersInv, AdaptersInv', FollowInv, [AdaptersNext]_<<vars, adapters>>
    PROVE  FollowInv'
BY MountFollows, RerenderFollows, UnmountFollows, RevealFollows, EffectFollows, InstallFollows,
   MountAppFollows, RestoreAppFollows, UserFollows, ElsewhereFollows, StutterFollows
   DEF AdaptersNext

LEMMA FollowStarts == AdaptersInit => FollowInv
<1>. SUFFICES ASSUME AdaptersInit PROVE FollowInv
  OBVIOUS
<1>1. /\ Held = {} /\ fetch = Native /\ sessions = <<>> /\ users = {} /\ restored = {}
      /\ effects = <<>> /\ arrivals = <<>> /\ shown = {}
      /\ \A p \in Providers : props[p] = {}
      /\ \A a \in Parties : handle[a] = {}
      /\ apps \in [Apps -> {"new", "installed", "mounted", "over"}]
      /\ \A a \in Apps : ~Running(a)
  BY DEF AdaptersInit, Init, Held, Parties, Running
<1>2. OwnerInv /\ AppsInv
  BY <1>1 DEF OwnerInv, AppsInv, Parties
<1>3. ProvidersInv
  BY <1>1 DEF ProvidersInv, ProviderInv, Parties
<1>4. PlanInv /\ ArrivalInv
  <2>1. <<>> \in Seq(Parties \cup Leases) /\ IsInjective(<<>>) /\ \A a : ~InList(a, <<>>)
    BY DEF IsInjective, InList
  <2>. QED
    BY <1>1, <2>1 DEF PlanInv, ArrivalInv
<1>5. OrderInv /\ NativeInv
  BY <1>1 DEF OrderInv, NativeInv
<1>. QED
  BY <1>2, <1>3, <1>4, <1>5 DEF FollowInv

LEMMA OwnersFollowed == ASSUME IInv, AdaptersInv, FollowInv PROVE LeasesFollowOwners
<1>. SUFFICES ASSUME Idle PROVE LeasesFollowOwners
  BY DEF LeasesFollowOwners
<1>1. \A a : ~Busy(a) /\ ~Leaving(a)
  BY NoCommit
<1>2. ASSUME NEW p \in Providers
      PROVE  IF p \in shown
             THEN \E given \in props[p], l \in Leases :
                     /\ handle[p] = {l} /\ OwnerOf[l] = given.mock /\ options[l] = given.options
             ELSE handle[p] = {}
  BY <1>1 DEF FollowInv, ProvidersInv, ProviderInv, Follows
<1>3. \A a : InList(a, arrivals) <=> a \in ToSet(arrivals)
  BY DEF InList, ToSet
<1>4. ASSUME NEW l \in Held PROVE OwnersOf(l) \cap ToSet(arrivals) # {}
  <2>1. PICK a \in OwnersOf(l) : TRUE
    BY DEF FollowInv, OwnerInv, OwnersOf, Parties
  <2>2. InList(a, arrivals)
    BY <1>1, OwnersArrived DEF FollowInv
  <2>. QED
    BY <1>3, <2>1, <2>2
<1>5. ASSUME NEW l \in Leases, NEW a \in OwnersOf(l), InList(a, arrivals) PROVE l \in Held
  <2>1. CASE a \in Parties /\ l \in handle[a]
    BY <2>1 DEF FollowInv, OwnerInv
  <2>2. CASE a = l /\ l \in users
    BY <1>5, <2>2 DEF FollowInv, OwnerInv, ArrivalInv, Held
  <2>. QED
    BY <2>1, <2>2 DEF OwnersOf, Parties
<1>6. \A l \in Leases : l \in Held <=> OwnersOf(l) \cap ToSet(arrivals) # {}
  BY <1>3, <1>4, <1>5
<1>7. ASSUME NEW a, InList(a, arrivals) PROVE Held # {}
  <2>1. a \in Parties \cup Leases
    BY <1>7, LenProperties, ElementOfSeq DEF InList, FollowInv, ArrivalInv
  <2>2. CASE a \in Providers
    BY <1>2, <1>7, <2>2 DEF FollowInv, ArrivalInv, OwnerInv, Parties
  <2>3. CASE a \in Apps
    BY <1>7, <2>3 DEF FollowInv, ArrivalInv, AppsInv, OwnerInv, Parties
  <2>4. CASE a \in Leases
    BY <1>7, <2>4 DEF FollowInv, ArrivalInv, OwnerInv, Held
  <2>. QED
    BY <2>1, <2>2, <2>3, <2>4 DEF Parties
<1>8. ASSUME \A w \in Wrappers : inner[w] = {} PROVE arrivals = <<>> <=> fetch = Native
  <2>1. Held = {} <=> fetch = Native
    BY <1>8, Differ DEF FollowInv, NativeInv
  <2>2. arrivals = <<>> => Held = {}
    <3>1. \A a : ~InList(a, <<>>)
      BY DEF InList
    <3>. QED
      BY <1>3, <1>4, <3>1
  <2>3. arrivals # <<>> => Held # {}
    <3>1. arrivals # <<>> => 1 \in DOMAIN arrivals
      BY EmptySeq, LenProperties DEF FollowInv, ArrivalInv
    <3>. QED
      BY <1>7, <3>1 DEF InList
  <2>. QED
    BY <2>1, <2>2, <2>3
<1>9. ASSUME NEW s \in DOMAIN sessions,
             NEW i \in DOMAIN sessions[s].interceptors, NEW j \in DOMAIN sessions[s].interceptors,
             i < j,
             NEW a \in OwnersOf(sessions[s].interceptors[i]),
             NEW b \in OwnersOf(sessions[s].interceptors[j])
      PROVE  Before(a, b)
  <2>. DEFINE list == sessions[s].interceptors
  <2>1. s \in 1 .. Len(sessions)
    BY LenProperties DEF IInv, TypeInv
  <2>2. list \in Seq(Leases)
    BY <2>1, SessionType DEF IInv
  <2>3. list[i] \in Leases /\ list[j] \in Leases
    BY <2>2, LenProperties, ElementOfSeq
  <2>4. Precedes(list[i], list[j], list)
    BY <1>9 DEF Precedes
  <2>5. Precedes(a, b, arrivals)
    BY <1>1, <2>1, <2>3, <2>4 DEF FollowInv, OrderInv
  <2>. QED
    BY <2>5 DEF Precedes, Before
<1>. QED
  BY <1>2, <1>6, <1>8, <1>9 DEF LeasesFollowOwners

\* However providers are rendered, hidden, revealed and unmounted, apps come and
\* go and user code takes, updates and releases leases of its own: between two
\* commits what intercepts fetch is what its owners ask for, in the order they
\* came, and without other code fetch is the original once nobody is left
\* (packages/react/src/index.ts, packages/vue/src/index.ts,
\* packages/core/src/interceptor.ts).
THEOREM OwnersAreFollowed == AdaptersSpec => []LeasesFollowOwners
<1>1. AdaptersInit => IInv /\ AdaptersInv /\ FollowInv
  BY AdaptersStart, FollowStarts
<1>2. IInv /\ AdaptersInv /\ FollowInv /\ [AdaptersNext]_<<vars, adapters>>
         => (IInv /\ AdaptersInv /\ FollowInv)'
  BY AdaptersKeep, AllFollow
<1>3. IInv /\ AdaptersInv /\ FollowInv => LeasesFollowOwners
  BY OwnersFollowed
<1>. QED
  BY <1>1, <1>2, <1>3, PTL DEF AdaptersSpec

=============================================================================
