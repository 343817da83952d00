------------------------------ MODULE SpecRefs ------------------------------
(***************************************************************************)
(* Which documents are read for an OpenAPI document with $refs that leave  *)
(* it: loadDocument() of packages/openapi/src/parser.ts and the policy of  *)
(* packages/openapi/src/ref-policy.ts.  The ref parser reads what is       *)
(* referred to, at once as soon as it knows of it, and the references of   *)
(* what it has read; the first failure is that of the load, while other    *)
(* reads go on.                                                            *)
(*                                                                         *)
(* A URL is [scheme, host, path]; the scheme "bad" is that of an http URL  *)
(* which does not parse, "data" that of a data: URL, which holds its       *)
(* document, "file" that of a path or a file: URL.  A host is a name (its  *)
(* labels, "dotted" when the root dot follows), an IPv4 or IPv6 address,   *)
(* or an IPv6 address that maps an IPv4 one.                               *)
(***************************************************************************)
EXTENDS Naturals, Sequences, FiniteSets, SequencesExt

CONSTANTS
    RefPolicies,   \* the policies: external, allowHttp, allowedHosts, redirects, maxBytes
    RefUrls,       \* what may be referred to
    RootRefs,      \* the sets of URLs that the root may refer to
    PrivateHosts,  \* the hosts that are loopback, link-local or private
    Sizes          \* the sizes of documents, announced and real

VARIABLES
    policy,
    refs,          \* the references that are known of, none within a document
    load,          \* "scan", "resolve", "loaded", "refused", "failed"
    reads,         \* of each URL: where its read is
    requests,      \* the requests that were sent: [url, hops]
    report         \* what the error of the load says, in a set

refVars == <<policy, refs, load, reads, requests, report>>

NotRead == [state |-> "none"]
Reading(url, hops) == [state |-> "reading", at |-> url, hops |-> hops]
WasRead(size) == [state |-> "read", size |-> size]
Failed == [state |-> "failed"]

-----------------------------------------------------------------------------
(* The policy. *)

\* Octets of an IPv4 address that a document must not reach.
IsUnsafeV4(octets) ==
    \/ \E i \in 1 .. 4 : octets[i] > 255
    \/ octets[1] \in {0, 10, 127}
    \/ octets[1] = 192 /\ octets[2] = 168
    \/ octets[1] = 172 /\ octets[2] \in 16 .. 31
    \/ octets[1] = 169 /\ octets[2] = 254

\* fe80::/10, fc00::/7, ::1 and ::
IsUnsafeV6(groups) ==
    \/ groups[1] \in 65152 .. 65215 \cup 64512 .. 65023
    \/ groups \in {<<0, 0>>, <<0, 1>>}

\* Mutant: an address that maps another is one of its own.
IsUnsafeUnmapped(host) ==
    CASE host.kind = "name"   -> host.labels = <<>> \/ Last(host.labels) = "localhost"
      [] host.kind = "v4"     -> IsUnsafeV4(host.octets)
      [] host.kind = "v6"     -> IsUnsafeV6(host.groups)
      [] host.kind = "mapped" -> FALSE
\* isUnsafeHost()
IsUnsafe(host) ==
    CASE host.kind = "name"   -> host.labels = <<>> \/ Last(host.labels) = "localhost"
      [] host.kind = "v4"     -> IsUnsafeV4(host.octets)
      [] host.kind = "v6"     -> IsUnsafeV6(host.groups)
      [] host.kind = "mapped" -> IsUnsafeV4(host.octets)

\* An entry of the allow-list in the case of URL.hostname.
LowerCase(host) == [host EXCEPT !.upper = FALSE]
AllowedHosts == {LowerCase(host) : host \in policy.allowedHosts}

IsHttp(url) == url.scheme \in {"http", "bad"}

\* checkRef() of a reference that leaves the document.
IsAllowed(url) ==
    /\ policy.external
    /\ IsHttp(url) => /\ policy.allowHttp
                      /\ url.scheme # "bad"
                      /\ AllowedHosts = {} \/ url.host \in AllowedHosts
                      /\ ~IsUnsafe(url.host)

-----------------------------------------------------------------------------

RefsFrom(asked, root) ==
    /\ policy = asked /\ refs = root
    /\ load = "scan" /\ reads = [u \in RefUrls |-> NotRead]
    /\ requests = {} /\ report = {}

RefsInit == \E asked \in RefPolicies, root \in RootRefs : RefsFrom(asked, root)

\* Every reference of the root is ruled on before any is followed.
Scan ==
    LET blocked == {u \in refs : ~IsAllowed(u)} IN
    /\ load = "scan"
    /\ load' = IF blocked = {} THEN "resolve" ELSE "refused"
    /\ report' = blocked
    /\ UNCHANGED <<policy, refs, reads, requests>>

\* The load fails with the first read that does, and names it.
Fail(url) ==
    /\ reads' = [reads EXCEPT ![url] = Failed]
    /\ IF load = "resolve" THEN load' = "failed" /\ report' = {url}
                           ELSE UNCHANGED <<load, report>>
    /\ UNCHANGED <<policy, refs>>

\* A document that is read makes its references known.
Take(url, size, found) ==
    /\ reads' = [reads EXCEPT ![url] = WasRead(size)]
    /\ refs' = IF load = "resolve" THEN refs \cup found ELSE refs
    /\ UNCHANGED <<policy, load, report>>

\* fetch(): nothing is sent for a data: URL.
Send(url, from, hops) ==
    /\ reads' = [reads EXCEPT ![from] = Reading(url, hops)]
    /\ requests' = requests \cup {r \in {[url |-> url, hops |-> hops]} : IsHttp(url)}

\* Mutant: the http resolver reads whatever is an http URL.
CanReadHttp(url) == IsHttp(url)
\* canRead() of the http resolver.
CanRead(url) == IsHttp(url) /\ IsAllowed(url)

\* The ref parser begins to read a URL that no read was begun for; a file is
\* read by a resolver of its own, a data: URL by none.
Begin(url) ==
    /\ load = "resolve" /\ url \in refs /\ reads[url] = NotRead
    /\ \/ CanRead(url) /\ Send(url, url, 0) /\ UNCHANGED <<policy, refs, load, report>>
       \/ IsHttp(url) /\ ~CanRead(url) /\ Fail(url) /\ UNCHANGED requests
       \/ /\ ~IsHttp(url) /\ UNCHANGED requests
          /\ \/ Fail(url)
             \/ url.scheme = "file" /\ \E found \in SUBSET RefUrls : Take(url, 0, found)

\* Mutant: only the first URL is checked.
FollowsAny(read, next) == read.hops < policy.redirects
\* A redirect is followed within the limit, to where a reference may lead: to
\* all that is no http URL, as far as the policy goes.
Follows(read, next) == read.hops < policy.redirects /\ IsAllowed(next)

\* Mutant: a size that is not announced is within the limit.
FitsAnnounced(announced, size) == announced <= policy.maxBytes
\* What is announced is judged before the text is read, the text after.
FitsLimit(announced, size) == announced <= policy.maxBytes /\ size <= policy.maxBytes

\* readHttpRef() meets a redirect, with a location or without one that parses;
\* fetch() resolves a data: URL, which redirects no further, and no file.
Redirected(url) ==
    /\ reads[url].state = "reading" /\ IsHttp(reads[url].at)
    /\ \E next \in RefUrls :
          \/ /\ Follows(reads[url], next) /\ next.scheme # "file"
             /\ Send(next, url, reads[url].hops + 1)
             /\ UNCHANGED <<policy, refs, load, report>>
          \/ /\ ~Follows(reads[url], next) \/ next.scheme = "file"
             /\ Fail(url) /\ UNCHANGED requests

\* ... a document; that of a data: URL announces no size.
Answered(url) ==
    /\ reads[url].state = "reading"
    /\ \E announced \in IF IsHttp(reads[url].at) THEN Sizes ELSE {0},
          size \in Sizes, found \in SUBSET RefUrls :
          \/ FitsLimit(announced, size) /\ Take(url, size, found)
          \/ ~FitsLimit(announced, size) /\ Fail(url)
    /\ UNCHANGED requests

\* ... an error status, an error of the network, or the deadline of the chain.
Unanswered(url) ==
    /\ reads[url].state = "reading"
    /\ Fail(url) /\ UNCHANGED requests

\* All that is known of is read, and the document has no reference left.
Loaded ==
    /\ load = "resolve"
    /\ \A u \in refs : reads[u].state = "read"
    /\ load' = "loaded"
    /\ UNCHANGED <<policy, refs, reads, requests, report>>

RefsNext ==
    \/ Scan \/ Loaded
    \/ \E u \in RefUrls : Begin(u) \/ Redirected(u) \/ Answered(u) \/ Unanswered(u)

RefsSpec == RefsInit /\ [][RefsNext]_refVars

-----------------------------------------------------------------------------

\* What a policy permits (ref-policy.ts 10-19): the host of an http reference
\* is one that is named, and is never private.
Permits(url) ==
    /\ policy.external /\ policy.allowHttp
    /\ url.scheme = "http" /\ url.host \notin PrivateHosts
    /\ policy.allowedHosts # {} =>
          \E host \in policy.allowedHosts : host.name = url.host.name

\* No request leaves for a URL that the policy does not permit, be it the
\* root's, that of a document which was read or where a redirect leads, and
\* whatever else is being read: "every hop's destination is re-checked", "a
\* blocked ref is reported as a policy decision and no file is opened and no
\* request is sent".  A chain has no more hops than the policy has redirects,
\* however many those are: the limit is a count (`hops >= policy.redirects`
\* fails with "exceeded the redirect limit of"; CODEBASE-ANALYSIS.md 166: "a
\* bounded hop count"), although the comments on the option call it a boolean
\* whose positive values follow up to the platform's default (ref-policy.ts
\* 25-27, packages/core/schmock.d.ts 870-876): they are wrong about the code.
\* And a document that was loaded is complete, of documents within the limit.
OnlyPermittedIsRead ==
    /\ \A r \in requests : Permits(r.url) /\ r.hops <= policy.redirects
    /\ load = "refused" => requests = {} /\ \A u \in RefUrls : reads[u] = NotRead
    /\ load = "loaded" =>
          \A u \in refs : reads[u].state = "read" /\ reads[u].size <= policy.maxBytes
    /\ load = "failed" => \A u \in report : reads[u] = Failed
=============================================================================
