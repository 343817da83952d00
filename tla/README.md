# Schmock: specifications and proofs

TLA+ models of Schmock (`packages/*`), a programmable mock API that is called in
process, served over HTTP, put in front of `fetch`, or generated from an OpenAPI
document. The models are written from the code. `PROJECT.json` names, under
`map`, the lines each definition stands for; paths below are relative to
`src/packages/`.

Schmock runs on one JavaScript thread, so its races are not data races. They are
between *stretches*: code runs to its next `await`, or to a call of user code (a
hook, a listener, a generator), and anything may happen there. Every module
takes such a stretch as one action.

## 1. Inventory

### What the parts are

| Part | Source | State | Operations |
|---|---|---|---|
| Mock lifecycle | `core/src/builder.ts` | routes and their static index, plugins, listeners, history, state object, request and history generations, admissions, plugins of retired generations | define a route, `pipe`, `on`/`off`, `handle`, `createRequestAdmission`, `reset`, `resetHistory`, `resetState` |
| Plugin pipeline | `core/src/plugin-pipeline.ts` | per request: context, response, error, which hooks ran | `beforeRequest`, generator, `process`, `onError` |
| Mock HTTP server | `core/src/builder.ts` 756-978 | the server, the pending start, the close barrier | `listen`, `close` |
| Fetch interceptor | `core/src/interceptor.ts`, `abort.ts` | `globalThis.fetch`, the active session, its leases, their options | `intercept`, `restore`, `update`, a `fetch` call |
| CLI server | `cli/src/cli.ts`, `bin.ts` | the command line, the seed manifest; `holder.mock`, the watcher, the debounce timer, the reload queue, the socket; the process | parse the line, read seeds, start, serve, reload, `close`, admin endpoints, signals |
| OpenAPI CRUD store | `openapi/src/generators.ts`, `crud-registration.ts`, `plugin.ts`, `state-keys.ts` | in the mock's state object: collection, counter and seeded flag of each scope; the ordinal of made-up headers; per request: staged writes | list, create, read, update, delete, seed, settle |
| OpenAPI request pipeline | `openapi/src/request-pipeline.ts`, `content-negotiation.ts`, `prefer.ts`, `response-status.ts`, `callbacks.ts` | none | security, negotiation, validation, `Prefer`, callbacks |
| Route table | `core/src/route-matcher.ts`, `parser.ts`, `builder.ts` 326-372 | the routes, those without parameters apart | parse a key, refuse a duplicate, match, extract |
| Response shaping | `core/src/response-parser.ts`, `response-normalizer.ts`, `helpers.ts` | none | parse, normalise, paginate |
| HTTP exchange | `core/src/http-helpers.ts` | per request: chunks, timers | collect a body, write, reject with a lingering close |
| Server-side and Angular adapters | `express/`, `angular/src/index.ts` | one admission per request | middleware, interceptor |
| React and Vue adapters | `react/`, `vue/src/index.ts` | a lease, the options it was last given, the state of the app | mount, render again, hide, unmount; install, mount, restore |
| Query, validation plugins | `query/`, `validation/src/index.ts` | of validation: the schemas compiled at construction, the rejections that wait for `process()` | hooks of the pipeline |
| OpenAPI document | `openapi/src/parser.ts`, `crud-detector.ts`, `crud-registration.ts`, `normalizer.ts`, `ref-policy.ts`, `seed.ts` | none after start | load, resolve references, normalise schemas, read operations, `options.schemas`, detect resources, register routes, load seeds |
| Faker plugin | `faker/src` | of one validation: the stack of frames, what is open and done, the order, the estimates; the options of the plugin | validate a schema, rewrite it for json-schema-faker, generate, apply overrides, measure |

### How they interact

`handle()` *admits* a request: it takes a snapshot of routes, plugins and the
state object and adds one to its generation's `activeAdmissions`. A transport
(interceptor, CLI, Express) may admit earlier, by `createRequestAdmission()`, and
share the admission with `handle()`; both release it. The admitted request runs
the pipeline over its snapshot, and is recorded if its generation is still the
current one. In a browser the React provider and the Vue plugin take and
release leases of the interceptor as components come and go. `reset()` starts a generation, closes the server, and uninstalls the
plugins at once or at the last release of the old generation. The interceptor and
the CLI call `handle()`; the CLI replaces its mock with another and resets the
old one. The OpenAPI plugin registers routes from `install()`, keeps collections
in the state object of the admission, and commits in `process()`. The generator
of a static route hands its schema to the faker package, which validates it
before it generates.

### What is hard, and what must hold

| Part | Hard behaviour | Properties |
|---|---|---|
| Mock lifecycle | requests in flight across resets, two releases of one admission, hooks and listeners that call back, aborts | no plugin runs after its `uninstall()`; each is uninstalled once, and at all; admissions are counted exactly; the history holds no request of before a reset; events in order |
| Plugin pipeline | every hook may answer, throw, recover, or never settle | guards run before the generator; an error is offered once and downstream; what recovered is final; nothing follows an abort |
| Mock server | `close()` in the middle of a start, restart on one port | no server is forgotten; promises settle; the port is free |
| Interceptor | leases of several mocks, restored in any order, other code wrapping `fetch` | newest first; a restored lease is silent; a mock is asked once |
| React and Vue adapters | cleanups and effects of a commit in an order, components rendered again or hidden, apps that fail to mount | what intercepts is what the components that are there ask for, with their options and in the order they came; `fetch` is the original when nobody intercepts |
| CLI server | reload against reload, request and shutdown; signals during a start or a shutdown; flags and seed entries of every kind | specs in order; the last one is served; a request keeps its mock; the server that starts is the one the line describes; a shutdown is neither cut short nor endless |
| CRUD store | staged writes of concurrent requests, rejections, resets | identifiers unique; rejected means no trace; acknowledged means stored; nothing deleted returns; made-up headers do not depend on who finishes first |
| Transports | spellings of paths, bases and namespaces, header names, bodies, statuses without a body, hooks that replace a response | the mock reads the request that was sent, the client sees the response that was replied, whatever the transport |
| HTTP exchange, Express, Angular | limits, early leave, deferred end, hooks that write the response themselves | answered once; nothing said to a caller who left; the formatter sees failures only; a rejection ends neither early nor late |
| Documents | references that lead out, redirect and are read at once; schemas shared by directions and documents; entries of every wrong kind | nothing is read that the policy forbids; a schema is normalised in full; an operation is read as the document says or warned about |
| Document and route table | resources guessed from the text of paths, an order of registration that is not the document's, a search in two passes | every declared operation is reached; a generator reads the identifiers its path has |
| Faker plugin | schemas that share sub-schemas, in any position, or lead back to themselves | the order of the estimates is topological; a schema is refused exactly for the limit it exceeds; what is handed to json-schema-faker keeps the contract; an answer is configured, bounded and shares nothing with its makers |
| Validation plugin | rejections that other hooks change, keep or replace; schemas that name one another | a rejection passes unvalidated only once and unchanged; a schema knows its own names and those nobody else has |
| Request path (openapi, query, validation) | four readings of one response value, in any order of the pipe | what was committed, judged, negotiated or paged is what is delivered |

The list of hazards, each at its line and with the properties that watch it, is
in `PROJECT.json` under `hazards`.

## 2. Plan

| # | Module | Model | Proofs |
|---|---|---|---|
| 1 | `MockLifecycle` | done | done: type, admissions, plugins, retirement, `EventProtocol`, `HistoryBarrier` |
| 2 | `PluginPipeline`, with `ValidationPlugin` | done | done: `HooksInOrder` |
| 3 | `ServerLifecycle`, abstract `ServerContract` | done | done: invariants and refinement |
| 4 | `FetchInterceptor`, its owners in `LeaseAdapters` | done | done: `NoLeaseForgotten`, alone and with the owners; `LeasesFollowOwners` |
| 5 | `CliServer`, and its process `CliProcess` | done | done: `NeverOlder`, `InFlightKeepsItsMock`, alone and in the process; `CommandIsHonoured` |
| 6 | `CrudCommit`, with `CrudHeaders` | done | done: `UniqueIds`, `RejectedLeavesNoTrace`, `WritesStay`, `HeadersReplay` |
| 7 | `Exchange`, `ServerTransport`, `ExpressAdapter`, `AngularAdapter`; `Ingress`, `Egress` and `Wire` (what is carried); composed in `HttpAdapters` | done | done: `OneAnswer`, `FormatterGetsFailures`, `LingerIsExact`, `AdminStaysPrivate`, `NothingAfterAbort`, `MessageSurvives` |
| 8 | `MediaTypes`, `ResponseShapes`, composed in `RequestPath` | done | done: `OneResponse`, `AcceptableOrRefused`, `PagesCoverTheList` |
| 9 | `ApiSurface` (documents and routes), `SchemaGraph` (schemas), composed with `RequestPath` in `OpenApiPath` | done | done: `OrderIsTopological`, alone and in the composition; `DeclaredIsServed` |
| 10 | `SpecRefs`, `SchemaReading`, `SpecReading` (documents), `SchemaChecks`, `FakerSchemas`, `FakerValues` (generation), composed with `OpenApiPath` in `SpecPath` | done | done: `ContractIsHanded`; the rest is checked only: recursion over data |

## 3. The modules

### MockLifecycle

Object identities that the code compares with `===` are counters: `gen` for
`this.requestGeneration`, `hgen` for `this.historyGeneration`, `state` for
`globalConfig.state`. An admission is a record of what `RequestAdmission` keeps.
While the mock calls user code, `stack` holds the suspended callers (a `pipe()`
around `install()`, a `reset()` or a release around `uninstall()`, a request
around a listener), and only what that code calls (`CallbackOps`), or its return,
can happen. `adapter[r]` says a transport admitted `r` and will release it too.

| Code | Definitions |
|---|---|
| `defineRoute`, `pipe` and its rollback, `on`, `off` | `DefineRoute`, `PipePlain`, `PipeInstall` and the return of `install()` |
| `reset`, `resetHistory`, `resetState`, `#retireRequestGeneration` | `Reset`, `ResetHistory`, `ResetState` |
| `handle`, `createRequestAdmission`, `#releaseRequestAdmission` | `Handle`, `Admit`, `Release`, `AdapterRelease`, `AdapterAbandon` |
| `#handleAdmittedRequest`, `#finalizeMatchedRequest`, `emit` | the steps of `RequestStep`, `ListenerReturn` |

`AdapterAbandon` is the interceptor releasing in its `finally` while `handle()`
is still unwinding.

### PluginPipeline

One request over plugins `1 .. N`. `Init` chooses which plugins have which hooks,
whether the route is static, and whether the caller gave a signal. Contexts,
errors and responses are the number of the call that made them, so "the latest"
is a comparison. `log` is the history the properties read. `calling` is an
`await` of user code. An aborted request leaves its last call behind
(`LateSettle`), as `awaitWithAbort` does.

### ServerLifecycle and ServerContract

A start is a call of `listen()`: its pending operation, promise and `node:http`
server share a name. `node:http` is external: a bind succeeds or fails,
'listening' comes later, `Server.close()` calls back at once if the server is not
bound and after its last connection otherwise. `lateBind`, which
`Init` chooses, allows a server that was closed before it was bound to bind all
the same, as older Node releases do.
`ServerContract` knows only the reserved start, the server that is up and the
promises; `ServerLifecycle` implements it with `starting <- pending`,
`up <- server`.

The barrier a start reads at `listen()` matters with late binds only; without
them, everything that holds the port has been in it since.

### FetchInterceptor

`fetch` is what `globalThis.fetch` is: the native one, a session's dispatcher, or
another party's wrapper. A session has its baseline and its stack of leases. A
request is a record that walks: a wrapper, a dispatcher with a snapshot, each
lease's hooks and mock, the baseline. What the options of a lease mean to a
request is one of `exclude` (the `baseUrl` filters it out), `passthrough` and
`strict`. A wrapper puts back what it
found, and only while it is in place: one that overwrites whatever it meets is
not modelled.

If a wrapper that a session was built on is removed after the session's last
lease, `fetch` is left as a dispatcher without leases, which passes everything to
its baseline: not the original function, but the original behaviour.
What `LeasesFollowOwners` says of the original function it therefore says of the
histories without wrappers.

### LeaseAdapters

Composes `FetchInterceptor` with those who take leases: user code, React providers
and Vue apps. `FetchInterceptor!Intercept`, `Restore` and `Update` are its only
means; which lease is taken and when is decided here.

| Code | Definitions |
|---|---|
| the two layout effects of `SchmockProvider` (`react/src/index.ts` 57-79) | `SetUp`, `CleanUp`, `Changed`; `Lease`, `Release`, `UpdateLease` |
| `schmockPlugin`, the wrapped `mount()` and `onUnmount` (`vue/src/index.ts`) | `Install`, `MountApp`, `RestoreApp` |

React runs the cleanups and effects of a commit in one stretch: `effects` is what
is left of it, and nothing else happens before it is empty (`Idle`). A provider is
mounted (under StrictMode its effects run, are cleaned up and run again), rendered
again (the effects whose dependencies changed), hidden and revealed (`shown`), and
unmounted. React is external; that it calls effects so is taken from its contract. `optionsRef` is the ref that
the first effect reads, which lags behind `props` while hidden. An app that could
not mount is `RestoreApp` on an app that is installed. `arrivals` is history: who
intercepts, oldest first.

### CliServer

The content of the spec is the number of its writes; `Valid` are those that
parse. Mocks are numbered as they are published, so the last one serves. A
reload is the closure chained in `reloadQueue`. Inside a mock, `MockLifecycle`
applies: here a retired mock is uninstalled when no request holds it. The
requests here are seen from the mock; what the listener does with one, the admin
endpoints included, is in `ServerTransport`.

### CliProcess

The process around the server: `CliServer`'s actions happen while it lives.

| Code | Definitions |
|---|---|
| `parseCliArgs` and its validators (`cli/src/cli.ts` 882-1021) | `ParseCliArgs`, `Validate...`, `ParseAllowedHosts` |
| `loadSeedFile`, `resolveSeedEntryPath` (`cli.ts` 165-272), `loadSeed` (`openapi/src/seed.ts`) | `LoadSeedFile`, `ResolveSeedEntryPath`, `LoadSeed`, `Seeds` |
| `run`, `resolveAdminToken`, the signals and the exit code (`cli.ts` 738-852, 1176-1265) | `Run`, `ResolveAdminToken`, `CreateServer`, `Listen`, `Signal`, `Closed` |

`command` is the line; `ProcessInit` chooses it. A parser answers with the set of
its results, empty when it throws. `killed` is an end of the process that no
handler had a say in.

### CrudCommit

One collection scope: rows, counter and seeded flag in each state object that
`resetState()` created. A row is its identifier, who created it (`born`) and
whose bodies it has fields from (`by`), which is what tells a lost, leaked or
resurrected write from a right one. A create is two stretches (`Generate`, then
`Mint` after the body was generated); the other generators are one. A write is
`pending` until `Settle`, which is where a `Prefer` header, negotiation and
validation have decided whether the response is an error. `Abort` lets the
generator or `process()` of an abandoned request go on: it may still mint, and
its commit may still happen, which the code allows.

The collection is a set: its order is visible to a list only. Scopes do not
share keys, so one is enough.

### CrudHeaders

The headers that generators make up (`openapi/src/generators.ts`). Under a seed
an ordinal is reserved when a generator starts, its body comes later, and static
routes draw from the same sequence. `CrudHeaders` adds that to `CrudCommit` and
implements it. `Replayed(i)` is the reference: the headers of a mock that serves
its requests one by one.

### Exchange, ServerTransport, ExpressAdapter, AngularAdapter, HttpAdapters

One request, from the client to the mock and back. `Exchange` is what the
adapters share: the abort signal, the admission, who wrote the head of the
response, how often the formatter was called. `Init` of `HttpAdapters` chooses
the adapter and its options.

| Code | Module |
|---|---|
| the listeners of `mock.listen()` (`core/src/builder.ts`) and of the CLI server; `collectBody`, `writeSchmockResponse` and `rejectRequest` (`core/src/http-helpers.ts`) | `ServerTransport` |
| the middleware, `beforeRequest`, `beforeResponse`, `errorFormatter`, `next` (`express/src/index.ts`) | `ExpressAdapter` |
| the Observable of `intercept()` and its unsubscription (`angular/src/index.ts`) | `AngularAdapter` |

A chunk is one unit of `maxBodySize`. Time advances by `Tick`, never past a timer
that is due. A hook of Express that the adapter no longer waits for runs on
(`hook`), and may still write.

### Ingress, Egress, Wire

What the exchange carries: a message is read, its route found, a reply sent.
Which steps an exchange takes does not depend on that, so `HttpAdapters` chooses
in `Init` to follow the one or the other.

| Code | Definitions |
|---|---|
| `canonicalizePath`, `normalizePath`, `decodePathSegment` (`core/src/constants.ts`), `parseRouteKey`, `findRoute`, the namespace (`builder.ts` 1093-1145) | `Canonical`, `WithoutSlash`, `Decoded`, `RouteKeyPath`, `FindIn`, `Namespaced`, `LookUp` |
| `normalizeFetchRequest`, `parseBaseUrl`, `extractBody` (`interceptor.ts`); `parseNodeQuery`, `collectBody` (`http-helpers.ts`); the default transforms of Express; `extractPathname`, `extractQueryParams`, `headersToObject` of Angular | `FetchReads`, `NodeReads`, `ExpressReads`, `AngularReads` |
| `normalizeResponse`, `serializeResponseBody` (`response-normalizer.ts`) | `IsRejected`, `Normal`, `FramingOf`, `Serialized` |
| `prepareWriteableResponse`, `toFetchResponse`, `formatInterceptedError`, `sendFormattedError`, `applyResponseType`, `emitError` | `NodeSends`, `WebSends`, `SendsFormatted`, `SendsCaught`, `AngularSends`, `AngularErrs` |

A character is plain, which a URL carries as it is, or unsafe, which it carries
encoded. A letter is a character and how it is spelled (raw, percent-encoded in
upper or lower case); a path is segments of letters; a body is a kind. The transports
differ where nothing promises that they agree, and `MessageSurvives` leaves it
open: of a repeated query key `fetch` and Node read the last value, Express and
Angular the first; JSON that does not parse is text to `fetch` and a 400 to Node;
a form is an object to `fetch` and text to Node; an absent body is `null` to
Angular; Angular strips its base and compares it as it is spelled. `%25` in a
request does not find a route whose key has a lone `%`.

### MediaTypes, ResponseShapes, RequestPath

One request for an operation of an OpenAPI document, through any order of the
plugins `openapi`, `query`, `validation` and one of the user. `MediaTypes` is
content negotiation on parsed header fields. `ResponseShapes` says what a
response value (plain data, tuple, envelope) means to core, and, separately, to
each plugin, because each has its own code for it; it also looks up declared
responses by status, with the `Content-Type` that the headers of an entry may fix
(`header`). A generator answers with that type (`BuildResponse`), and a static one
makes its body for it (`MadeBody`); negotiation after the generator looks at it alone,
the one before at the declared content. `RequestPath` filters, sorts and cuts a list as the query
plugin does, and is the order in which they act: security, negotiation before the generator,
request content type and body, the generator, `Prefer`, negotiation after it,
judgement, callbacks, the commit, and what core delivers.

`CrudCommit` leaves open which requests commit and treats concurrent writes;
`RequestPath` decides it for one request and has no store.

### ApiSurface, SchemaGraph, OpenApiPath

| Code | Definitions |
|---|---|
| `convertPathTemplate` (`openapi/src/parser.ts`) | `ConvertPathTemplate` |
| `detectCrudResources`, `buildResource` (`openapi/src/crud-detector.ts`) | `Group`, `Role`, `IsResource`, `Leftovers` |
| `install` (`openapi/src/plugin.ts`), `crud-registration.ts` | `Registrations`, `Precedes`, `Install` |
| `parseRouteKey`, `defineRoute`, `findRoute`, `extractParams` (`core/src`) | `Compile`, `Table`, `FindRoute`, `ParamValue`, `Match` |
| `inspectSchemaGraph` (`faker/src/validation.ts`) | `Enter`, `Push`, `Skip`, `Leave` |
| `estimateSchema`, `analyzeGraphPaths`, the recorded limits | `EstimateSchema`, `Longest`, `Exceeded`, `Judge` |

`ApiSurface` takes a document to the route a request reaches. A segment of a path
is a sequence of tokens, because the code treats paths as text, and what goes wrong
goes wrong inside a segment: a name in braces, a name core accepts, a literal rest. `Declared` is what the
document itself says of a segment, `Compile` what core makes of it after the
conversion to `:name`. The registrations are a set, and `Precedes` is the order in
which `install()` comes to them; of two with one key the first stays.
`SchemaGraph` is `validateSchema()`: the keywords of a schema are the roles of its
edges, and what a reference means is an edge too. The loop over the stack is an
action per turn, so that the states between its pushes are visible.
`OpenApiPath` runs the three in the order of the code: registration, route,
guards, generator, validation of the schema, response; a schema that is refused
makes the generator throw. Each request of the run varies one of them, because
they meet in the kind of the route and in that failure only.

### SpecRefs, SchemaReading, SpecReading, SchemaChecks, FakerSchemas, FakerValues, SpecPath

| Code | Module |
|---|---|
| `loadDocument` (`openapi/src/parser.ts`), `ref-policy.ts`: which references are followed, redirects, private hosts, sizes, credentials | `SpecRefs` |
| `normalizer.ts` and the discriminators of `parser.ts` | `SchemaReading` |
| `parseSpec` (`parser.ts`): parameters, bodies, responses, security, callbacks, warnings; `options.schemas` (`plugin.ts`) | `SpecReading` |
| what `validateSchema` (`faker/src/validation.ts`) says of single schemas, and which schema a reference means | `SchemaChecks` |
| `schema-enhancement.ts`, `field-name-matcher.ts`, `jsf-config.ts`: the schema that json-schema-faker is handed | `FakerSchemas` |
| `faker/src/index.ts`, `overrides.ts`, `output-limits.ts`: from its outcome to the answer | `FakerValues` |

A schema is a graph of nodes, because the code meets a schema that several places
share as one object. Reads of `SpecRefs` and the stacks of the faker modules are
actions, a turn each; a read goes on at a `data:` URL a server redirects to as `fetch`
does, without a request, and fails at a file. What a function computes without a
callback is an operator. Ajv, json-schema-faker and the ref parser are external: their outcomes are
choices. Of the table of field mappings the model has the kinds of its rows (what
type a row is for, what format it gives, what score it asks for); which keywords a
row has is a constant. `SpecPath` has the parts in the order of a start and of a request;
`phase` says whose turn it is. A scenario is about one part, the others being
plain, and one scenario goes through all of them.

### ValidationPlugin

Two things that the request path does not show. Its construction: a slot is a
schema with the names it declares and refers to, which is compiled in a registry
(`CompileSchema`) with the names of the others that the code finds nobody else has
(`Registrations`). And its rejections: `snapshots` is
`requestRejections`, `heap` the objects that hooks may change, replace or keep
for a later request until `process()` sees one of them. A behaviour follows one
construction, the responses of one plugin, or the hooks of `PluginPipeline`.

## 4. Runs

`CHECK_DEADLOCK FALSE` is everywhere: requests, starts, writes and resets are
bounded, so each model comes to a state in which nothing is left to do, as does
a program nobody calls.

| Run | Instance | Shows |
|---|---|---|
| `MCMock` | 2 plugins (one with `install()`), 2 requests, 1 reset; `install()` and `uninstall()` hooks call `reset`, `handle`, `pipe` | admissions are counted, plugins are not removed under a request nor stranded, events in order (0.9 million states) |
| `MCMockLiveness` | fair; 1 plugin, 1 request, 1 listener, resets of everything | what `reset()` retires is uninstalled, once; the history starts anew at a reset |
| `MCMockStale` | 2 listeners, one of which resets | **violation**, see section 7 |
| `MCPipeline` | fair; 3 plugins, every choice of hooks and outcomes; validation plugins of three schemas, and rejections among hooks that change them | guards, recovery, what is reported; an abort settles; rejections pass once; schemas keep apart |
| `MCServer` | fair; 3 starts, with and without late binds | no orphan, the port is free; refinement of `ServerContract` with its liveness; abandoned servers go down |
| `MCInterceptor` | 3 leases of 2 mocks, 1 wrapper, 1 request with any method and options; user code with a request, a request with an app, two providers, or a provider, an app and user code | no lease is forgotten or skipped, silence after `restore()`, leases follow their owners (2.5 million states) |
| `MCInterceptorOwner` | 2 leases of one mock, 1 wrapper | **violation**, see section 7 |
| `MCCli` | fair; about 120 command lines; a session with 3 writes, one of which does not parse, 2 requests and signals | the command is honoured; reloads and requests; a shutdown is whole; what is written is served |
| `MCCliLateSwap` | 1 write | **violation**, see section 7 |
| `MCCrud` | 3 requests on a seeded collection, 1 reset of the state; 2 of them and a static route with headers, under a seed and without | identifiers, commits, rejections, headers (0.9 million states) |
| `MCAdapters` | fair; limit of 2 chunks, idle 2 and grace 5 units; each adapter with every set of options; paths of up to 3 segments of 9 under 4 bases and 4 namespaces, 240 combinations of query, headers, type and body, 288 replies under HEAD and GET and 6 kinds of formatter, on each transport | answered once, formatter, lingering end, admin surface, silence and release after an abort; requests read and replies delivered alike (138 thousand states) |
| `MCSpecPath` | families of documents, references, requests, schemas and options, see below | documents are read as they say; commit, judgement and negotiation agree with what is delivered; pages cover the list; what is declared is served; schemas are refused exactly; generation keeps the contract and the configuration |

Why these bounds. A race needs the two parties it is between and one to disturb
them: two requests and a reset or a hook (`MockLifecycle`), a predecessor, a
start and a successor (`ServerLifecycle`), two leases of one mock around one of
another (`FetchInterceptor`), two owners and a third party (`LeaseAdapters`; the
request goes with one kind of owner at a time, as it sees leases and not their
owners), an update, a delete and a create (`CrudCommit`).
A limit of two chunks has a body below, at and over it; `Idle < Grace` and not a
divisor of it, so that a chunk can restart the idle timer and the grace timer
still wins. `MCSpecPath` crosses what interacts and nothing else: every
document with every `Accept` and `Prefer`; every way to be refused; plugins
around `openapi` that refuse, judge and transform; every list of up to three rows
of five kinds with every page; lists and the place of `query` in the pipe. Its
documents for detection have up to three operations: a collection, an item and a
rival, which is what a group can be wrong about. Its schemas have up to five
sub-schemas, enough for one that is shared below another that is shared and for a
cycle off the root, with limits small enough that each of them is exceeded. The
documents have an exact status, ranges, `default`, wildcards, an entry without
content, one without a success, and entries whose headers fix one of the declared types
for static and stored responses. The root of a document refers to up to two
others, which may redirect once, so that a failure overtakes another read. The headers
of `MCCrud` need two requests that start in one order and end in the other, and
a third of another kind that draws from the same ordinals.
One reset gives the two generations
whose confusion is the danger. Three plugins give
each hook one before and one after it. Three writes give a reload in progress, one
queued, and one that does not parse among them. Where the property is about
one request (options, order of leases) one request is enough, because requests
share leases but no state of their own. Every property is shown to depend on the
code by a mutant of a definition, listed under `mutants`: a dropped check, a
missing reset, a swapped order.

## 5. Fairness

The event loop runs every continuation that is ready, so weak fairness is assumed
of the steps the code takes by itself, and of nothing else unless the property
needs it:

- `PluginPipeline`: the mock's continuations. User code may never settle;
  `AbortSettles` holds nonetheless.
- `HttpAdapters`: the rejections an abort causes, the timers and time. Nothing
  about hooks, mocks and clients, so that `LeavingReleases` holds although they hang.
- `MockLifecycle`: besides, synchronous user code returns, and a request goes on.
  The code gives no bound for a hook that never settles, so `RetiredUninstalled` is
  not claimed without it.
- `ServerLifecycle`: an import and a bind end, and a closed server loses its
  connections, which `closeAllConnections()` or its clients see to.
- `CliProcess` (`FairProcessSpec`): while there is a process, the watcher, the
  timers and the socket; nothing about requests, signals nor a spec that is
  parsing, so that `ShutdownIsWhole` holds although all of them hang.
  `WrittenIsServed` adds `ParsingEnds` as its own premise.
- `ValidationPlugin` (`HooksSpec`): that of the pipeline.
- `CrudHeaders` and `SpecPath`: none; every property is a safety property.

## 6. Proofs

`MockLifecycleProofs` proves, for every number of requests, plugins, listeners
and resets and every set of callbacks:

- `TypeCorrect`: in particular `activeAdmissions` never goes below zero.
- `AdmissionsCounted`: it equals the number of unreleased admissions.
- `PluginsStayInstalled`: no admission holds a plugin whose `uninstall()` was
  called. This is not inductive: a hook may be run by `reset()` or by a last
  release, and which plugins an admission holds was decided long before.
  `IInv` adds the missing link, the generation a plugin was registered in
  (`pipedIn`): an admission runs plugins of its own generation only; hooks run
  for generations that are over and count no admission; such a generation never
  gains one. `FreshInv` keeps a plugin that is being installed out of the rest.
- `RetiredGenerationsAreHeld`: a generation that still owes hooks has a live
  admission, so its last release will come to them.

- `ProtocolKept` (`EventProtocol`) and `HistoryIsBarrier` (`HistoryBarrier`): the
  events of a request are a beginning of one of the two protocols, and the history
  has only requests of after the last barrier that told everything. How far a
  request has come does not determine its events alone, because a listener may
  reset the mock in the middle of an `emit()`; `EventInv` says what a request has
  emitted at each place of `handle()`, and that one which has become stale has
  stopped at some of them. `Story` is `EventInv` with the barrier.

Assumptions: `Requests` is finite (the count is a cardinality), plugin
registrations are distinct, bounds are numbers. The proof goes by kinds of step:
the lemmas `Type...` for types and counts, `Quiet...` for steps that touch no
plugin, one lemma for each step that does, and `Story...` for events and history.

`PluginPipelineProofs` proves, for any number of plugins, any choice of hooks and
whatever they do:

- `HooksAreInOrder` (`HooksInOrder`): guards before the generator, failures
  downstream from their own plugin, the latest error to each handler and to the
  caller, nothing but handlers after a failure, at most one recovery. The property
  speaks of the log, the code of loop counters. `IInv` ties them: the index of a
  loop says which plugins it has called (`GuardInv`, `HandlerInv`), the phase that
  no later loop has begun, and `error` is that of the last failure in the log
  (`LastFail`), which the next handler is told of.

It is proved of `Spec` of `PluginPipeline`. The run checks it under `HooksSpec` of
`ValidationPlugin`, in which a behaviour that follows the pipeline takes its steps
only, and one that does not has an empty log.

`ServerLifecycleProofs` proves, for any number of starts: `TypeCorrect`,
`NoServerForgotten`, `BarrierIsComplete`, `RestartWorks` (without late binds, and
because `PortInv` ties what a start waits for to who holds the port), and
`Implementation`: every step maps to a step or a stutter of `ServerContract`'s
safety part.

`CliServerProofs` proves, for every set of requests, any number of writes and any
set of contents that parse:

- `ReloadsKeepOrder` (`NeverOlder`): mocks are published in the order of what they
  were made from. `QueueInv`: only the first reload of the queue has begun, and
  what it read is no older than what is published.
- `NoneLosesItsMock` (`InFlightKeepsItsMock`): by `LiveInv`, the mock that serves
  is not retired, so that no request is admitted to one that is.
- `ProcessHonoursCommand` (`CommandIsHonoured`): for every command line and any files,
  what runs is what the line says. The property speaks of the process that serves, the
  code of options parsed long before. `ProcessInv` carries them over: the options are
  one reading of the line (`OptionsInv`), the first mock, the token that the socket
  enforces and the one in the banner are made from them (`MadeInv`), and how far
  `run()` is agrees with how far the server is (`StageInv`). That a seed file lies
  below the manifest is a fact about paths: a relative path that does not begin with
  `..` leads below the base (`Escapes`), and both ends are real paths. Assumptions:
  what is there has a real path (`FilesAssumption`), and a manifest is named by a
  resolved directory, one at most (`CommandsAssumption`).
- `ProcessIsServer`: `CliProcess` implements `CliServer`, whatever the line, the
  seed and the signals are, so that the first two hold in the process that the run checks
  (`ProcessReloadsSafely`).

`HttpAdaptersProofs` proves, for all limits, idle times and grace periods, every
set of options, and whatever mocks, hooks, clients and timers do:

- `AnsweredOnce` (`OneAnswer`), `FormatterIsExact` (`FormatterGetsFailures`),
  `LingeringIsExact` (`LingerIsExact`), `AdminIsPrivate` (`AdminStaysPrivate`) and
  `SilentOnceLeft` (`NothingAfterAbort`, an action property: once the caller has
  left, neither answer nor formatter). The four handlers share the variables of
  `Exchange`, so `IInv` says first which stages each has (`StageInv`), then what was
  said (`SaidInv`), who began the response (`HeadInv`), which hook is on its way
  (`HookInv`) and what was formatted (`FormattedInv`) at each. `LingerInv` relates
  the two timers, which count down, to the time that the property measures.
- `MessageIsCarried` (`MessageSurvives`): for any characters, sites, messages and
  replies, the mock reads the request that was sent and the client sees the reply, on
  each transport. `WireInv` says what each stage has made of the message
  (`ProgressInv`). The rest is about spellings: core compares paths as they are
  spelled, after `canonicalizePath`. The lemmas show that what it compares is spelled
  in one way for each character, and in different ways for different ones, so that
  two paths are spelled alike exactly if they have the same text; that this survives
  the base, the namespace and a trailing slash; and that of several keys the one that
  core finds is the one that the reference finds by text. `CharactersAssumption` says
  that neither `/` nor `%` is an ordinary character; `TalksAssumption` what a site, a
  message and a reply are.

`FetchInterceptorProofs` proves, for any number of leases, mocks, wrappers and
requests:

- `NothingForgotten` (`NoLeaseForgotten`): a request that reaches the network was
  offered to every lease that was held throughout and is still reachable; silence
  of restored leases; the strict ones. `fetch` is a chain of functions that grows
  and shrinks in any order. Reachability along it is written in closed form
  (`Below`, `Ways`: the sets of functions that calls may pass through), which the
  prover can reason about and which needs no recursion. `WayInv`: every way from
  `fetch` passes the dispatchers of all held leases. `MeetInv`: what a request has
  not met yet is before it, in the rest of the session whose turn it is or on every
  way further down.
- `NothingForgottenByAdapters`: the same with leases taken by React, Vue and user
  code, by `AdaptersInv`: a handle is on a lease that was taken.
- `OwnersAreFollowed` (`LeasesFollowOwners`): it speaks of the moments between two
  commits, and says nothing of how a commit gets there, so `FollowInv` follows the
  commit. `PlanInv` says what may be left of it: takes, updates and releases of one
  provider in turn, with a lease in hand exactly if the next effect expects one, and
  what the last effect leaves. `OwnerInv` gives each lease that is held one owner,
  `ArrivalInv` says who arrived and that a provider that is about to take a lease
  arrived last, and `OrderInv` that the lists of the sessions are in the order of
  arrival but for a lease that the commit is about to release. `NativeInv`: without
  other code there is one session at a time, on top of the original. Providers, apps
  and leases are taken to be different things (`PartiesAssumption`). TLC checked
  `FollowInv` on the instance of `MCInterceptor` before it was proved.

`CrudCommitProofs` proves, for every set of requests, every finite seed and
pre-loaded collection, and any number of resets:

- `IdentifiersUnique` (`UniqueIds`): no two rows of a collection share an
  identifier. Not inductive: a staged row is pushed long after its identifier was
  given out. `IInv` says that the counter, once there is one, bounds what was given
  out and what is stored (`CounterInv`), that identifiers given out are distinct and
  their places free (`FreshInv`), that nothing was generated from a collection still
  to be seeded (`SeedInv`), and that a collection has a bound, so that the recovery
  of a counter finds a maximum (`BoundInv`).
- `RejectionsTraceless` (`RejectedLeavesNoTrace`): by `TraceInv`, what is in a
  collection comes from requests that were acknowledged, and what is staged from
  them and the request that staged it.
- `HeadersChangeNothing`: `CrudHeaders`, which the run checks, implements
  `CrudCommit`; what is proved of the collection holds with headers.
- `WritesAreKept` (`WritesStay`): an acknowledged create stays until an
  acknowledged delete, a deleted row does not return, an update lands on the row it
  was computed from. `WInv` adds to `IInv` that a row is born of the create which has
  its identifier (`OwnInv`), what a request may stage (`StagedInv`), that the counter
  has seen what was staged or deleted (`KnownInv`), and that nobody else finds a
  staged row (`FreeInv`). Hypothesis `NeverReused`: the collection is seeded or starts
  empty. Without it the statement is false, as section 8 says.
- `HeadersDeterministic` (`HeadersReplay`): under a seed the headers are those of a
  mock that serves the requests one by one in the order they began, and no
  identifier is used twice or is that of a resource. `HInv`: an ordinal is the place
  of its request in `began`. Hypothesis `FewHeaders`: a million ordinals at most,
  because the code keeps six digits of one.

`OpenApiPathProofs` proves of schemas, requests, documents and field mappings, for
every set of each and all limits:

- `OrderCorrect` (`OrderIsTopological`): the order that the estimates are computed
  in lists each schema after those it leads to. Not inductive: whether an edge is
  served depends on the frames that wait below. `WalkInv` says that all an open
  schema leads to is completed, or waits above the frame that leaves it, or is an
  edge still to be pushed (`Scheduled`); that a frame waits for an open schema only
  below the frame that leaves it (`OpenIsAbove`), which is why a schema with two
  frames is passed over and not taken for a cycle; that the order has exactly what
  is completed (`Listed`), after what it leads to (`OrderSoFar`). It assumes what
  `GraphsAssumption` says: edges lead to schemas of the graph, which has a root.

  `OrderInRequest` takes it to the composition with requests (`OpenApiPath`): every
  other step of a request leaves the walk alone.
- `PathDeliversOneResponse` (`OneResponse`) and `PathNegotiatesAcceptably`
  (`AcceptableOrRefused`): for any documents, headers, orders of plugins and answers
  of the user's plugin. Four pieces of code read the response, and each plugin may
  replace it after another has read it. `RequestInv` follows the value: before
  `openapi` answers, what the generator staged waits and the value can be answered
  (`Unanswered`); what it answered was committed, announced and given a type by one
  reading (`Answered`, `AnswerFacts`); each judgement is of one reading of what it
  judged (`Judged`); what is delivered is what core makes of the last value
  (`Delivered`). For negotiation, `Early` and `Alone` remember what was decided before
  the generator ran, and `Labels` which types the headers of the document can give a
  value; either `Prefer` replaces every value or none (`PreferredAlike`), so that a type
  that outlives it is one of `Fixed`, which the property excepts. The choice of a type, a loop in the code, is put in closed form
  (`Offers`, `Wins`): the offers are ordered totally, so that one wins against all
  others, and none is of better quality. That a status finds the same declared
  response for whoever looks it up is a lemma about ranges and `default`.
  Assumptions: `ScenariosAssumption` (one `openapi` plugin for a document,
  well-formed headers, responses and rows), `UserValuesAssumption` (a user's plugin
  answers with values that `openapi` did not make).
- `PathPagesCover` (`PagesCoverTheList`): whoever walks the pages of a list meets each
  row that passes the filter once and in order. Sorting is stable and total on any
  mixture of values, because `Before` with ties broken by position is a linear order,
  so that the places of the rows are a permutation; pages of a positive size cut what is sorted without a gap.
  `ListInv`: between the generator and the client the body of a list is its rows or
  one such page. `LimitsAssumption`: limits are positive, which
  `assertPositiveInteger()` sees to.
- `PathServesDeclared` (`DeclaredIsServed`): for any documents, in any order. What core
  reads from a converted segment is what the document declares of it; each operation
  is registered once, as a member of a resource or a static route; registrations are
  finitely many and in an order, so each key has a first one, which is in the table;
  of the routes that accept a request one is first. `SurfaceInv` says that a request
  meets that table. Its assumption, `SurfacesAssumption` (with `ProbeAssumption` for
  the document of the other scenarios), is about the text of paths: one parameter in a
  segment, with a name that core accepts, nothing behind the brace that could go on
  with the name, no literal colon, and each name once in a path. Section 8 says what
  the code does with other paths.
- `FakerHonoursSchema` (`ContractIsHanded`): for any schema and table, what
  json-schema-faker is handed has the places of the schema's tuples and nothing the
  library does not know, each schema it leads to is handed too, and the generator that
  a name suggests has the type, format and constraints of a schema of one type, also
  where several properties share that schema. `FakerInv`: what
  is in the cache is what enhancement makes of that node in that context (`CacheInv`),
  what it leads to is in the cache or still on the stack (`ReachedInv`), and what is
  handed is all of it (`HandedInv`). So nothing is missing at the end, and nothing
  depends on the order in which nodes that are shared were met. `MappingsAssumption`
  says which kinds of rows the table has, `SchemasAssumption` what a schema is.

All but the last are proved of `PathSpec`, a start and a request, and that of
`FakerSpec`. `SpecPath`, which the run checks, puts the other parts beside them; their
steps have no variable of these theorems.

Only model-checked:

- liveness and everything under fairness (`RetiredUninstalled`, `AbortSettles`,
  `LeavingReleases`, `ServersGoDown`, `WrittenIsServed`, `ShutdownIsWhole`, and the
  liveness of `ServerContract`): out of the prover's reach, as `ENABLED` is;
- what compares a computation over data with a reference by recursion:
  `SchemaIsJudged`, `SpecIsRead`, `ValueIsConfigured`, `RejectionsPassOnce`,
  `SlotsKeepApart`. Induction over data is out of reach, and `SchemaReading`,
  `SchemaChecks`, `FakerValues` and `ValidationPlugin` declare recursive operators, in
  reach of which no theorem can stand.

Where a proof did not go through, the reason was at times in the program or in the
model. What it showed of the program is in section 8. Of the model it corrected how a
tuple replaces `prefixItems` instead of standing beside it (`ForJsf`), and of
`ContractIsHanded` which schema has the format `uuid`: the one without null, which
for a nullable composition is not the node itself.

## 7. Where the code and its documents disagree

- `MCMockStale`: the documentation says that admitted requests "cannot emit stale
  lifecycle events" after a reset. `emit()` calls a copy of the listeners; when
  one of them resets the mock, the others are still called for the retired
  request.
- `MCInterceptorOwner`: "a mock is consulted at most once per request, however
  many leases it holds" holds within one session. If other code replaces `fetch`
  between two `intercept()` calls of a mock, there are two sessions, and a
  request that passes through the newer lease is offered to the mock again.
- `MCCliLateSwap`: "a reload already parsing must be awaited: otherwise it would
  swap the mock [...] after shutdown has reported itself complete". `close()`
  waits no longer than its grace period, and `reloadMock()` does not look at the
  flag again, so a slow parse still swaps.
- The number of redirects, without a run of its own. `ref-policy.ts` 22-29 says of
  `redirects` that "`fetch` has no numeric redirect cap, so this is effectively a
  boolean: `0` refuses redirects outright, any positive value follows up to the platform
  default"; the published type (`packages/core/schmock.d.ts` 870-876), that it "behaves
  as a boolean". The code follows redirects itself and counts them: at `redirects: 1` it
  refuses the second with "exceeded the redirect limit of 1" (`hops >=
  policy.redirects`, `ref-policy.ts` 227-229). `SpecIsRead` checks the count, which is also what `CODEBASE-ANALYSIS.md`
  166 says ("a bounded hop count"), with chains of two hops at `redirects: 1`; the
  comments are wrong about the code.

## 8. Not modelled, and limits

- Observations without a property, listed as hazards: two concurrent updates of
  one row lose the fields of the first; a collection that was pre-loaded and never
  seeded can reuse the identifier of a row deleted before the first create; a
  spec written between the first parse and the start of the watcher is not seen; a
  hook without a signal may block its request; an abandoned hook goes on.
- An `install()` that calls `reset()` and then throws restores the routes of
  before that reset. The model does so too; no property is about it, because no
  document says what such a hook should see.
- `WritesStay` is checked on seeded collections, and proved of those that are seeded
  or start empty, for the reason above.
- `FetchInterceptor`: a wrapper that overwrites whatever it finds is left out.
- `LeaseAdapters`: without a document (on a server) neither adapter intercepts. A Vue
  app whose `mount()` threw has released its lease; mounting it again runs it without
  interception. The model ends such an app. Several providers of one commit are
  committed one after another.
- `RequestPath`: `security` and `validateRequests` are on. A tuple whose status is
  no status (`[700, ...]`) is delivered as data with 200, which the model has. A
  `Prefer: code=150` commits although core answers 500 to such a status; the
  property is about responses that core can deliver. `callbacks.ts` 113 reads an
  envelope whose headers are not strings as one, core does not. An example that is
  declared on a range of statuses is looked up by one rule before the generator
  (`request-pipeline.ts` 265) and by another after it (721); the documents of the
  run have none. A plugin piped after `openapi` may reject a response whose write is
  already committed, as `docs/openapi.md` 257-258 warns; a validation plugin in
  that place also judges the refusals (401, 406) that `openapi` made.
- `Wire`: messages are spelled as their authors may spell them. A plain character that
  is percent-encoded all the same (`%61` for `a`) is another one to core, which
  normalises the case of the digits but not what they encode, so that such a path does
  not find the route of `a` although its decoded text is the same.
- `RequestPath`: a `Prefer` code that is no status (`code=700`) is negotiated as the
  `default` response before the generator, and is no envelope after it, so that a
  request may be refused for a response that it would not have had. The property is
  about codes that are statuses.
- `RequestPath`, headers that declare a `Content-Type` (`docs/openapi.md` 496-500): those
  with an `enum` or a `default` that is a media type. One that is made up, empty or a
  wildcard is left out. `AcceptableOrRefused` excepts what follows from the rule that
  such a type wins: it may suit the client less than another declared one; a static
  route can pass the negotiation before its generator, which looks at the content, and
  be refused after it, though only with the fixed type as what is available; and it can
  be refused before although the fixed type would have suited.
- `ApiSurface`: one parameter in a segment; percent-encoding and the namespace of a
  mock are left out. A literal colon in a path of the document (`/things:cancel`) is
  the beginning of a parameter to core, and what follows a brace and could go on with
  the name (`/files/{name}-draft`, converted to `:name-draft`) is joined to it; such paths accept
  requests that the document does not declare, and the property is about the others
  (`IsSegment`). What the model shows beside its properties: the item path
  `/files/{name}.json` is taken for the identifier `name.json`, which core does not
  capture (it captures `name`), so that such an item is never found;
  collections whose parents differ in literal text
  only share a scope; CRUD routes come before static ones, so that a more concrete
  path with parameters may be shadowed by a less concrete one.
- `SchemaGraph`: which schema a reference means is data; keywords of newer drafts
  (`prefixItems`, `$dynamicRef`, ...) have the role of the older ones they stand for.
  An empty schema below a shared one that was first reached in an untyped position
  is accepted (`validation.ts` 230-233 checks the shared schema itself only),
  while `docs/openapi.md` refuses incomplete schemas in general. An explicit count
  is that of the root array; arrays inside are estimated by their own bounds.
- `SpecRefs`: a read that times out or fails in the network is a failed read; what the
  diagnostics say of it is left out.
- `SpecReading`: `parser.ts` 36-42 says that everything skipped is in `warnings`, but
  parameters, headers and content entries that are no objects and unknown security
  schemes are dropped without one. In Swagger 2, of two body parameters with
  different names the one of the path is used, although the operation wins
  elsewhere. With `options.schemas` (`plugin.ts` 377-398), on an operation without a
  2xx response, a key with a 2xx status followed by one without a status patches the
  entry that the former made, where `docs/openapi.md` 644-676 has a 200 created;
  `OverridesAreApplied` leaves that case open (`IsUnclear`).
- `SchemaReading`: a component in two unions mixes the constraints of both, by the
  shared memo (`normalizer.ts` 114-146, 241-251); a union that an external document
  has in place ignores its mapping; `enum` with `nullable` and no type rejects null.
- `FakerSchemas`: the mappings of names ignore lists of types and bounds without a
  type; `additionalItems` without `items` reaches json-schema-faker as it is.
  A mapping without a type (`price`) goes with schemas of any type, so the clause of
  `RespectsContract` about types is about the others.
  `FakerValues`: templates in objects under dotted keys and in arrays of overrides are
  not expanded; a template that is mixed with text, which is expanded to a string, is
  left out; the estimate of a root array can be below the length it gets.
- `CliProcess`: `--port ""` is the default and `--port " "` port 0; `--spec a b`
  discards `b`, and `--spec "" b` prints the usage. Programs that call
  `createCliServer()` with options of their own are not modelled.
- `ValidationPlugin` (`index.ts` 237-281): a sibling that declares a name and refers to
  one that the target has, or that is held back, makes the constructor throw; a schema
  that holds a name of the target nested in it is not known to it at all. The property is
  about schemas that do not do both.
- `CrudHeaders`: ordinals follow the order in which generators start, so a client that
  sends the same requests at once may see other headers.
- Ajv, json-schema-faker and the ref parser are libraries outside the repository: what
  they return is any value that their callers must expect. Of the table of field
  mappings the model has the kinds of rows, the run a few rows.
- Wording, logging and everything that is not shipped (step
  definitions of the tests, benchmarks, examples).
