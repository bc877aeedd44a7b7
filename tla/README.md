# mcp-authz in TLA+

mcp-authz decides, in front of an MCP server, who may call what: as a guard
inside a server (embed mode), as a proxy before one, as `wrap` around a stdio
one, as a gate on an OpenAPI service, in TypeScript and in Python.  Its contract
is short: nothing runs that was not allowed, nothing is shown that was hidden,
an upstream is held to the definitions a person approved, and what happened is
in the audit log.  This directory holds TLA+ models of the parts in which that
contract is decided, the TLC runs that check them, and TLAPS proofs.

Paths below are relative to `src/packages/mcp-authz/src/` unless they say
otherwise; Python ones to `src/packages/mcp-authz-python/src/mcp_authz/`.

## How to run

    tlc -workers 2 -config MCWrap_calls.cfg MCWrap.tla
    tlapm Wrap_proofs.tla

`PROJECT.json` lists the runs, the lines each definition is translated from
(`map`), a mutation of the code that each property catches (`mutants`), the
places where code and docs disagree (`findings`) and what is hard to test
(`hazards`).

## The system

| Part | State it keeps | Operations | Talks to | What makes it correct | Module |
|---|---|---|---|---|---|
| **Upstream record** `upstream-record.ts` | `checkedAt`, `changed`, the promise `listing`; shared by all requests of a proxy | `matches`, `relist`, `refuse` | the proxy calls it; it lists the upstream | what it admits stood upstream recently; no waiter is lost | `UpstreamRecord` |
| **wrap** `wrap.ts` | `listing`, `calls`, `discovering`, `changed`, `verified`, `held`, `verifying`, the child process | the client's lines, the server's lines, its own listing, stop | both ends of a stdio pipe | no call to an unapproved definition; nothing hidden shown; every answer recognised; held calls let go; nothing left running | `Wrap`, `WrapStop` |
| **CLI and config** `cli.ts`, `wrap-config.ts` | the config and, beside it, the record | `tools --out`, `--refresh`, `--check`, `readWrapConfig` | the disk, the person who edits | what wrap shows somebody agreed to, whatever dies between two writes | `WrapConfig` |
| **Windows supervisor** `windows-job.ts` | a job object | `McpAuthzJob.Run` | wrap | the server dies with wrap | `WrapStop` |
| **SSE filtering** `proxy.ts` 881-1041 | `buffered`, `bufferedBytes`, `scanned` | `transform`, `drain`, `flush` | the upstream's body, the client's | the client sees the upstream's events, filtered, however the transport cut them; the cap | `EventStream` |
| **Embed guard** `tools.ts` | none between calls | `guarding`, `decideWithin`, `deliverTerminalAudit` | the audit sink, a person, the handler | no run without its attempt and its approval; one true terminal event | `Guarding` |
| **Proxy pipeline** `proxy.ts`, `upstream.ts` | `call.finish`, `call.deadline` per request | `price`, `forward`, `filter`, `recordedOnCompletion` | the ladder, the sink, the credential, the upstream, the client | the same, over a body that is pulled and cancelled | `ProxyCall` |
| **Pricing and scopes** `ladder.ts`, `scopes.ts`, `routing.ts`, `catalogue.ts`, `proxy.ts` | none | `createMcpProxy`, `authorizeMessage`, `runScopedGate`, `preflightScopedRequest` | the policy, the record | whatever a request could reach is paid for; a challenge can be met | `Ladder`, `Pricing` |
| **Policy** `policy.ts`, `identity.ts` | none | `definePolicy`, evaluation, `reconcile` | the ladder | what the rules mean is what is granted; nothing priced is dead | `Access`, `Pricing` |
| **MCP handler** `handler.ts`, `tools.ts`, `decision.ts` | none | `createMcpFetch` over `authz()` | the ladder, the embedded server | what is listed runs, what runs was entitled, with that decision on record | `Access` |
| **OpenAPI gate** `openapi.ts` | none | `createOpenApiFetch` | the sink, the API | the operation that is priced is the one that is reached; the audit trail | `OpenApi` |
| **Python proxy** `proxy.py`, `audit.py` | the catalogue, its lock and read counter; the racing tasks | `_verify`, `_read_catalogue`, `_within_deadline`, `_forward_recorded` | ASGI, the upstream | as the TypeScript proxy, differently ordered | `Pricing`, `PyForward`, `PyCatalogue` |
| **Python server, OpenAPI gate** `server.py`, `policy.py`, `openapi.py` | none | middleware, listing, dispatch; the audited call | the MCP SDK, ASGI | as theirs | `Access`, `OpenApi` |
| **Definitions and screening** `definitions.ts`, `screen.ts`, `strict-json.ts` | none | `captureListings`, `changedFields`, `screenResult`, `parseChecked` | record, wrap, proxy | equal exactly for equal definitions; one reading of a text | none: verdicts are inputs |
| **Token verification, Node host, Python `gate.py`, examples, docs, test server** | | | | | none |

Behaviours that are hard, and where: requests that share one relist while
listings of clients pass by and the upstream changes (record, Python
catalogue); two streams of lines, with calls held across them (wrap); a signal
against a poll (stop); a death between two writes (config); any split of a
stream (SSE); a person against a timer (guard); a hang-up, a deadline, a pull
and a cancel at every `await` (both proxies); and one story of who may do what,
told by two languages, by a listing and by a call (pricing, access, OpenAPI).

The TypeScript is single-threaded: a handler runs to its next `await`
undisturbed, and an action here is exactly such a stretch.  The Python is
asyncio, where the same holds.

## The modules

    AuditTrail          what the audit events promise
      ^ Guarding        tools.ts guarding                Lifecycles_proofs
      ^ ProxyCall       proxy.ts, one forwarded call     ProxyCall_proofs
      ^ PyForward       proxy.py, one forwarded call     PyProxy_proofs
      ^ OpenApi         openapi.ts, openapi.py           Decisions_proofs
    RecordGate          what holding an upstream to its record promises
      ^ UpstreamRecord  upstream-record.ts               UpstreamRecord_proofs
          UpstreamRecordHistory   with memory of what was noted
      ^ PyCatalogue     proxy.py _verify, _read_catalogue  PyProxy_proofs
    Wrap                wrap.ts, both streams            Wrap_proofs
    WrapStop            wrap.ts stop(), windows-job.ts   Lifecycles_proofs
    WrapConfig          wrap-config.ts, cli.ts           Lifecycles_proofs
    Ladder              ladder.ts, routing.ts, scopes.ts
      Pricing           both proxies: configuration, price, scopes   Pricing_proofs
      Access            policy and server, both languages   Decisions_proofs
    EventStream         proxy.ts filterEventStream       EventStream_proofs

`^` is a refinement, checked as a property and proved.
`Decisions` puts `Pricing`, `Access`, `OpenApi` and `EventStream` side by side
(`MCDecisions` has the inputs of its runs), and `MCLifecycles` puts `Guarding`, `WrapConfig`, `WrapStop`, `PyForward`
and `PyCatalogue`: they share no state, and a variable `part`, set once, says
which of them a behaviour is of.  One run then checks them all.

### UpstreamRecord, PyCatalogue and RecordGate

`checkedAt`, `changed` and `listing` are the closure variables of
`holdToRecord`; a definition is `"recorded"`, `"different"` or `"absent"`, which
is all that `changedFields` tells this code.  `live` is the upstream's side, and
`passing` the items of clients' listings on their way through the proxy:
`UpstreamListsItem` takes a reading, `matches` notes it.  The record's own
listing reads each label at a moment of its own (`UpstreamReads`), because
`list()` pages through four lists side by side, and `relist` notes them all at
once, as its loop does.  `refuse` is split at its only `await`: `refuseAtOnce`
(nothing to list), `refuseAfterListing` (start or join a relist), `resume`.
`Woken` is the shared promise: everyone who waits is woken by the same
settlement, and a rejection reaches them all.  `refuse` reads the clock once to
decide whether to list and again to decide, so `refuseAtOnce` lets it tick in
between.

A reading may travel for as long as its request's deadline allows (`ListLimit`,
`PassLimit`), and no longer: that is `upstreamSignal`, which every one of these
requests carries.  Without `timeoutMs` there is no such limit, and no bound on
the age of what is trusted follows.

`PyCatalogue` is the Python proxy's answer to the same question: no promise to
share, but a lock and a counter.  `ReadBegins` takes the lock, `PageReads` notes
each item as its page comes, `ReadEnds` stamps the whole catalogue with the time
of the end and wakes those who queued before it, `ReadRaises` moves the counter
as well.  `PcAsk` and `PcResumes` are the two halves of `_verify`.  Its bounds
on a reading hold only where `upstream_timeout` is set.

`RecordGate` has no cache: it answers a request `admitted` only if each of its
recorded labels stood upstream as recorded within the last `Window` ticks, where
`Window` is the time a verdict is trusted plus one transit.  Both implement it.

### Wrap

Each of the two `onLines` callbacks in `wrap.ts` is synchronous, so each kind of
line is one action, `HandleVerification` to `HandleRequest` for the server's and
`ClientLists` to `ClientCalls` for the client's.  `check` on a page is
`VerifiedAfter` and `ChangedAfter`; `release` and `forward` are `Release` and
`Forward`.  The server is external: it changes its tools when it likes and
writes `list_changed` as it does, answers its requests in any order, errs, and
sends requests of its own whose ids may be the client's (`ServerAsks`).
`fromServer` is the pipe, in order.  With `LateAnswers` it may compose a listing
first and write it later, past a `list_changed`.  A call's arguments and its
result are checked against the recorded schema; the verdict is left open
(`wrong`, `body`).  A client uses each id once, as JSON-RPC requires.
A page may list a name more than once (`Repeats`, `before`).  `check` looks at
each item, so the last one decides; the answer is then filtered by name, so all
items of a name are shown, or none.  `live` is what stands behind a name, and a
page that repeats it lists that last; a name repeated on two pages is not
covered.

### WrapStop

`stop` walks through closing the input, SIGTERM and SIGKILL; between two of them
wrap polls.  `alive` is the group, a launcher and what it started, some of them
`deaf` to SIGTERM.  On Windows the group is a job held by the supervisor, whose
steps (create suspended, assign, resume, wait) can each be its last.

### WrapConfig

`SaveConfig` and `SaveRecord` are the two writes of `writeWrapConfig`,
`WrapReadsConfig` and `WrapReadsRecord` the two reads.  `CommandDies` ends a
command before or within a write, and a write cut short leaves its file torn.  A
definition is a version number, and `consent` remembers, as history, which
definitions somebody switched on, or the first save did as read-only.  With a
deny list wrap also shows tools the record lacks (`drift` has nothing to compare
them with), so what a person agrees to then is those names whatever they hold:
version 0 in `consent`.  `tools --check` reports such a tool as added.

### EventStream

The text is decoded characters of four kinds: CR, LF, one the client may see,
and one the filter must rewrite (two bytes long, so that bytes and characters
differ).  `transform` is `drain` after a chunk; `flush` ends the stream.
`LINE_END` and `EVENT_END` are the two regular expressions, as the length of the
match at a position.  The reference is an independent parser of the SSE format
(`Parse`): a line ends in CRLF, LF or CR, and an empty line ends an event.
`Turn` is one turn of `drain`'s loop, and `drain`, the parser and what was
enqueued are recursive functions: the module has no `RECURSIVE` operator, so that
it can be proved about.

### AuditTrail, Guarding, ProxyCall, PyForward

`AuditTrail` is the promise: an action runs only under a recorded attempt, once,
and has at most one terminal event, which is the truth.

`Guarding` follows one invocation through `guarding`: the attempt, the question
(`decideWithin`: person and timer race, and the person may speak after the
timer), the handler, the terminal event.  The sink accepts or throws.  `ended`
is the event made, which `deliverTerminalAudit` hands to `onAuditError` when the
sink throws.

`ProxyCall` follows one through `createMcpProxy` with `onAudit`: `Refuses` or
`Passes` stand for the rungs of the ladder (which are `Pricing`'s), then the
attempt, `forwardToUpstream`, the headers, and an answer that is streamed as it
comes or held whole to be screened.  `pull` and `cancel` of
`recordedOnCompletion` each end the call after an `await`; `pulling` and
`cancelling` are where each of them is.  `hungUp` is `request.signal`, `late` is
`call.deadline`.

`PyForward` is the same of `_forward_recorded`: the forward, the hangup and the
deadline are tasks that race (`PfReturns`, `PfHangsUp`, `PfExpires`), `Wakes` is
the `await asyncio.wait`, which stops the losers, `PfRecords` the terminal
event.  `PfCancelled` is the server cancelling the whole request, `fwd =
"raised"` a send that throws.

### Ladder, Pricing, Access, OpenApi

These are decisions, not protocols: a state is a configuration and a request,
an action is the whole handler, and a handler's early returns are a sequence of
named rungs of which the first that refuses answers (`FirstRefusal`).

A label, and a key of a scope map, is a string, `update_case` or `prompt:triage`.
In the models it is its prefix and its name, and one string is one label: a name
that is spelt with a prefix (`Prefixed`) is no `"bare"` label but the one it
spells (`BareKey`), so a tool called `prompt:g` is looked up where the code looks
it up.

`Ladder` holds what `createMcpProxy` and `createMcpFetch` share: classification,
preflight, scopes.  `Pricing` adds what each proxy checks when it starts
(`TsBoot`, `PyBoot`) and of a request (`TsRungs`, `PyRungs`), with the decisions
reported on the way, and what a listing shows (`TsListed`, `PyListed`).
`Access` goes from a policy's text and an identity to the handler that runs:
validation, evaluation, registration, the listing, the SDK's dispatch, the
question to a person, the decision sink.  `OpenApi` has the order in which
overlapping paths are tried, the filtered document, and one audited request.
The reference in each is independent of the code's lookup: what any registration
could serve (`MayServe`), what the policy's text means (`Meant`), which URLs a
template gives (`UrlsOf`).

## The runs

| Run | Checks | Shows |
|---|---|---|
| `record_gate` | `TrustIsRecent`, `ImplementsGate` | two recorded labels, every order of listings, changes and calls: how old trusted evidence can be, and `refuse` implements `RecordGate` |
| `record_calls` | `TypeOK`, `EveryCallAnswered` | two requests share slow relists, also for a label nobody recorded: no lost waiter, and the maps hold recorded labels alone |
| `wrap_calls` | `ForwardedAsApproved`, `RefusedNeverSent`, `HeldCallsSettle` | two tools on two pages: a call goes on only with its approved definition or before wrap could know, is not both refused and sent, and is not held for ever |
| `wrap_answers` | `TypeOK`, `NothingHiddenShown`, `EveryAnswerTracked` | all request kinds, reused ids, late answers, pages that list a name twice |
| `proxy_call` | `TypeOK`, `SuccessMeansWhole`, `AnswerAndAuditAgree`, `ImplementsTrail`, `EveryAttemptEnds` | hang-ups, deadline and failures at every await; a stalling upstream does not leave an attempt open |
| `decisions` (161,755 states) | `DecisionTypeOK`; of `Pricing`: `EveryRegistrationPaid`, `ProxiesAgree`, `StepUpSettles`, `ListingMatchesCalls`, `NothingPricedIsDead`; of `Access`: `RunIsEntitled`, `NothingUnasked`, `ListedIsRunnable`; of `OpenApi`: `ReachedIsPriced`, `DocumentMatchesGate`, `OaKeepsTrail`; of `EventStream`: `EventsKept`, `CapDecides` | every configuration, caller and request of the lists in `MCDecisions`; every text of up to six characters in every split, with a cap of four bytes |
| `lifecycles` (239,332 states) | `LifeTypeOK`, `LifeEnds`; of `Guarding`: `RunsOnlyApproved`, `ResultStands`, `ImplementsTrail`; of `WrapConfig`: `HeldToConsent`, `CheckMeansConsent`; of `WrapStop`: `NothingLeftBehind`; of `PyForward`: `PfKeepsTrail`; of `PyCatalogue`: `PcImplementsGate`, `RefusedForCause` | calls against person, timer and sink; files against deaths, edits and upgrades; a stop against deaf processes; a call against deadline, hangup and cancellation; shared reads of a catalogue |

`DecisionTypeOK` and `LifeTypeOK` are the parts' shapes together, `LifeEnds` the
parts' liveness, `OaKeepsTrail` and `PfKeepsTrail` the audit trail and the answer
that goes with it, `CapDecides` both sides of the cap.

Five runs expect a violation.  Each is a statement of the repository's own, in
a doc or a comment, that the code does not keep:

| Run | What the code does |
|---|---|
| `record_withdrawn` | a relist that leaves a label out does not touch it: if an earlier listing keeps it fresh, the call that waited on that very relist is admitted |
| `wrap_late` | a listing composed before a change and written after its `list_changed` verifies the old definition; the next call goes through unchecked |
| `events_last` | a rewritten last event that ends in a bare CR is written without its end, and the client never dispatches it |
| `proxy_cut` | an SSE answer to a `tools/call` that passes the cap is replaced by a refusal and recorded as `success` |
| `same_decisions` | `packages/mcp-authz-python/README.md` says access decisions are identical across the languages; the TypeScript proxy reports `allow` as soon as `authorize` lets a caller in and then `deny` for the same request, where the Python one reports `deny` alone |

### Smaller disagreements

They need no run of their own; the properties are stated as sharply as they
allow, and say what they leave out.

- Upstream record: a listing read before a change and delivered after another
  noticed it clears the change, until the label is checked anew; a label in
  `changed` is refused without a new listing however old the verdict is.  In
  Python the end of a read stamps over sights newer than its pages.
- wrap: a `list_changed` between two pages of wrap's listing has a tool of the
  first page refused as "the server did not list it".  A page that lists a name
  twice, changed first and as recorded after, is shown with both items, because
  the check is per item and the filter by name (`wrap.ts` 348-353), where
  `apps/docs/src/content/docs/wrap.mdx` 127 says that an allowed tool whose
  definition is not the recorded one is hidden.  `NothingHiddenShown` promises
  that the approved definition is among those shown.
- wrap's files: a first save that dies after the config leaves it beside an
  older record, if there is one; a wrap that reads between the two writes pairs
  the new config with the old record.  Nothing in the files tells.  A second
  SIGINT ends wrap itself (`cli.ts` 413).
- Python catalogue: those who queued behind a read that raised are refused with
  it, without a read of their own.
- Python forward: an answer under way at the deadline is ended with an empty
  body, as if it were whole, where the changeset promises a 504; a cancelled
  ASGI task leaves an attempt without its terminal event.
- Pricing: a completion or a subscription, whose route names nothing, can be
  challenged for scopes and then refused by the policy, where `ladder.ts` 215-216
  says never (`StepUpSettles` promises it of invocations alone); the TypeScript
  listing reads a tool's price by its bare name alone.  A resource whose label
  is spelt like another resource's URI has its scopes asked for and its price
  read by different lookups, so a step-up can end in a denial there too.
- Pricing, names spelt like labels: `ladder.ts` 97-99 and `proxy.py` 635-640 look
  a tool's name up as it is, before `tool:` and the name.  A call of a tool named
  `prompt:g` is priced, asked for scopes and held to the record as the prompt `g`
  in both proxies, also where `tool:prompt:g` has a price of its own, and a tool
  named `tool:t` as `t`; `_price` (`proxy.py` 598) says it "refuses one nobody
  priced, so a new upstream tool inherits nothing".  `EveryRegistrationPaid` says
  what such a call pays.  Where `t` is priced by its bare name and has its scopes
  under `tool:t`, a call of a tool named `tool:t` is challenged for them and then
  refused, against `ladder.ts` 215-216 again; `StepUpSettles` leaves it out.
- The two proxies: a notification's method sent as a request is forwarded by
  TypeScript and refused by Python; a read of a template's own text is held in
  TypeScript to every template that spans it, in Python to that one.
- Python server: a name registered again takes the last permission, while its
  handler may be the first; `RunIsEntitled` and `PyPermission` say which.
- Policy: a rule with a null `match` or `role` is refused at start in
  TypeScript and read as absent in Python; an e-mail without an `@` has no
  domain in one and is its own domain in the other.
- OpenAPI: a segment such as `{id}.json` counts as a parameter in the order of
  the routes and is shown in the document, but is matched literally alone; a
  3xx is a success in Python's log and a failure in TypeScript's.
- Definitions: resources share the key space of templates (`definitions.ts`
  141), so of two items with one name one definition is kept.
- SSE: an event of exactly the cap passes or ends the stream according to where
  the transport cut its terminator, which is why `CapDecides` allows three bytes.

### Bounds, and why they are enough

Two labels (or two tools, on two pages) are what it takes for one listing to
hold one and lack the other, and for a relist asked by one label to touch
another.  `Fresh = 1` or `2` with limits of one tick makes evidence old, still
fresh, and old while it travels.  In `record_gate` one client listing passes at
a time beside the relist, so that either overtakes the other; `record_calls` is
about requests and has none.  `MaxNow` and `PcMaxNow` stop the clock, so the runs
stop there: hence `CHECK_DEADLOCK FALSE`.  `PyCatalogue` has one label and two
calls: two are needed to queue, and the label's item can be read, change, and be
passed by a client's listing within one read.  In `wrap`, ids are used once and
the server acts at most `MaxEvents` times of its own accord, so a session ends
as well; one event is a change before, between or after the pages of a listing,
and `wrap_answers` has two, a change and its undoing or a request beside a
change, and pages that list a name's changed definition before the one that
stands (`ChangedBefore`); `Wrap_proofs` holds for any `Repeats`.  `WrapConfig` has one tool in two versions and five events
(`WcLimit`): a save, a death, an edit, an upgrade and a move fit; its theorems
hold for any number.  `WrapStop` has a launcher and a server, each deaf or not.
Six characters hold one event with two CRLF and content around it, or three
events ended by LF or CR; the cap of four bytes lets such events pass and is
met exactly, passed by one, and passed by a two-byte character.  A body of three
chunks has a first, a middle and a last.  `LabelSymmetry` is used where both
labels are recorded and the properties are safety.  Calls do not interact in
`Guarding`, `ProxyCall` and `PyForward`, whose proofs hold for any number.

The inputs of `decisions` are lists, in `MCDecisions`: two templates that
overlap and each span the other's text, an exact resource under both, a tool by
either spelling, tools named like a prompt's label and like another tool's
(`MCPrefixed`), priced on their own or not (`Namesake`); callers with none, one, all and `*`; every method, and each way
a request can be malformed, one at a time; policies with every kind of rule and
mistake, identities with and without a verified address; documents whose paths
overlap in number and length of parameters.

### Fairness

Only what the code or its runtime guarantees, per part.  `UpstreamRecord`: a
relist settles, because each of its requests has a deadline, and a settled
promise runs its continuations.  `PyCatalogue`: the same, so `upstream_timeout`
is taken as set.  `Wrap`: a line that arrived is handled, and, as an assumption
about the server, wrap's listing is answered; wrap sets no deadline on it, and
without that assumption a call is held for ever.  `WrapStop`: wrap's timers fire
and SIGKILL works; no process need heed anything gentler.  `Guarding`: sink and
handler settle, the timer fires; the person need not answer.  `ProxyCall`: the
ladder, the sink and the credential settle, an aborted fetch rejects, the runtime
pulls and cancels, the client reads or leaves, the time runs out; the upstream
need not do anything.  `PyForward`: the deadline passes, where there is one, the
waiting task wakes, sinks and sends settle; without `upstream_timeout` nothing
is promised (`LimitedCallsEnd`).  `WrapConfig` has no liveness: a command may die.

## What is proved

Every invariant and action property that a passing run checks is stated by a
theorem, for every value of the constants.  The assumptions are those of the
modules, and TLC evaluates them on every run: types of the parameters (`ConfigsAssumption`, `CallersAssumption`, `AsksAssumption`,
`PoliciesAssumption`, `ServersAssumption`, `CallsAssumption`,
`DocumentsAssumption`, `RequestsAssumption`, `ExpansionsAssumption`,
`PrefixedAssumption`, `WrapAssumption`, `WrapConfigAssumption`), trust that
lasts at least a tick, recorded labels among the labels, `Launcher` among the
processes, wrap's own id none of the client's.  None of them limits how many
labels, rules, registrations or operations there are, or which overlap.

### Decisions

- `Pricing_proofs`, about every configuration, caller and request:
  `EveryRegistrationIsPaid`, `ProxiesLetTheSameThrough`, `StepUpIsEnough`,
  `ListingIsWhatCallsMeet`, `NothingPricedIsOutOfReach`.  The inductive invariant
  (`PInv`) says that what is answered is the ladders' answer for a configuration
  that passed the checks of its start.  The work is in what the ladders mean.
  `PassesAll` and `RefusesFirst` turn a sequence of rungs into a conjunction of
  conditions, once; `TsPasses` and `PyPasses` state what each proxy lets through;
  `LabelsPaid` compares the labels the code looks up with what any registration
  could serve.  A name spelt like a label is no exception there: `EveryRegistrationIsPaid`
  says that such a call pays what it is taken for.  `LaddersAgree` is then an equivalence of two conditions, and the
  step-up follows because the gate asks the same scopes again (`GateStepsUp`,
  `ChallengeIsTheGates`).
- `Decisions_proofs`, about every policy, server, identity and call: `WhatRunsIsEntitled`,
  `NothingRunsUnasked`, `WhatIsListedRuns`.  `MatchesAreMeant` and `HeldIsMeant`
  show that evaluation finds what the policy's text means; `DispatchReaches` and
  `DispatchPrefers` say what the SDK may run for a name, `TsRuns` and `PyRuns`
  what ran, and `PriceIsRegistered` that the price asked for was one a
  registration of that name carries.
- `Decisions_proofs`, about every document, price and caller: `ReachesArePriced`, `ServedIsGated`, `OaImplementsTrail`
  (`OaSpec => OaKeepsTrail`).  `FirstExists` shows that the sort of the routes has
  a first among those that answer, whichever tie; without it, what is routed to
  could not be said.  The invariant of a call has four parts: what its stage
  leaves on record (`Staged`), that the end recorded is that of the status
  (`Truthful`), that it goes on only where it was allowed (`Decided`), for what
  the request was routed to (`Routing`).  `ReachedIsPriced` was first stated of
  *the* operation with the recorded id, and that is not provable: an operation
  under a verb that is none of `METHODS` is never routed to, so it is not required
  to have an id of its own.  It now speaks of some operation with that id.

- `Decisions_proofs`, about the four parts side by side: `DecisionTypes`
  (`[]DecisionTypeOK`) and `DecisionsAreRight`, which states of `DecisionSpec` all
  that the run `decisions` checks.  A step of the whole is a step or a stutter of
  each part (`PartSteps`), so each keeps its own invariant (`PartsHold`).  The
  shapes follow from those invariants, since what is answered is a rung of a ladder
  (`RefusalAmong`, `GateAmong`, `TsAmong`, `PyAmong`); that a number of handlers
  ran, and not something else, is `DispatchNat`.

### The event stream

- `EventStream_proofs`, about every text, of any length, every cap and every split:
  `EventsAreKept` (`[]EventsKept`), `CapIsKept` (`[]CapDecides`).  The invariant
  (`StreamInv`) says that what is buffered is the window of the text that ends
  where the transport is, and starts where an event starts (`Placed`); that
  nothing before `scanned`, but for the overlap, ends an event; and that what
  was enqueued leaves the client and the upstream's own reader between the same
  two events (`Parted`).  `FoundIsFirst` shows that the search finds the end the
  text has there, though it sees the buffer alone, and `EventPasses` that cutting
  there and filtering is what the client dispatches.  `CapDecides` needs that a
  buffer over the cap in which nothing ends holds an event of the text, less than
  a terminator from its end (`FullIsNear`).
- What a recursive function computes cannot be proved by the library's induction
  theorems here.  Each is instead read by what it does with one element more
  (`AfterReads`, `WrittenAppends`, `DrainTurns`), and what holds along one is proved
  from a least counterexample (`LeastExists`).

### Records and sessions

- `UpstreamRecord_proofs`: `TypeCorrect`, `TrustIsAlwaysRecent`
  (`[]TrustIsRecent`), `RecordImplementsGate` (`Spec => ImplementsGate`).
  `TrustIsRecent` is not inductive: it says nothing of readings on their way.
  The invariant adds that each of them is *backed*: a reading `"recorded"`,
  travelling since `at`, is of a definition that stood at `at` or later, and has
  travelled no longer than its limit (`RelistBacked`, `PassingBacked`); noted,
  it makes a `checkedAt` at most one transit later than the evidence
  (`CheckedBacked`).  `Verdict` then admits only what `Vouched` asks for.
- `PyProxy_proofs`, of the catalogue: `PcTypes`, `PcImplementsRecordGate`
  (`PcSpec => PcImplementsGate`), by the same idea over different state: what a
  read has seen so far, what passes by, and what is noted are each backed
  (`ReadingBacked`, `PassingBacked`, `StatesBacked`), and only who holds the lock
  reads (`OneReader`).  `RefusalsHaveCause` (`PcSpec => RefusedForCause`) is the
  other half: no refusal without a reason upstream.  It needs the mirror of that
  invariant, for sights that are not as recorded (`Caused`), and that a woken call
  is judged before a tick passes (`WokenJudged`).
- `PyProxy_proofs`, of a forwarded call: `PfTypes`, `PfImplementsTrail`
  (`PfSpec => PfKeepsTrail`): the stage fixes what has run and been written,
  whichever racer won.
- `Wrap_proofs`: `TypeCorrect` (`[]TypeOK`), `RefusedStaysHere`
  (`[]RefusedNeverSent`), `AnswersTracked` (`[]EveryAnswerTracked`),
  `ShownIsApproved` (`[]NothingHiddenShown`) and `CallsAsApproved`
  (`~LateAnswers => (Spec => ForwardedAsApproved)`).  Neither of the second and
  third is inductive alone.  The invariant `WInv` gives each request
  one place: an answer is owed or on the wire at most once (`OneAnswer`), and
  what wrap holds or answered itself is nowhere else (`KeptHere`); so an answer
  that is handled, and its id forgotten, was the last.  `ShownIsApproved` says of
  every tool shown that it is listed and that its approved definition is among
  those shown, also on a page that repeats the name.  For `CallsAsApproved`, what
  `verified` or an unread page says of a tool either stands or is followed on
  the wire by a notice that it does not (`FreshInv`).  `LateAnswers` breaks
  exactly that, which is the run `wrap_late`.
- `ProxyCall_proofs`: `TypeCorrect`, `SuccessIsWhole` (`[]SuccessMeansWhole`),
  `LogAgreesWithAnswer` (`[]AnswerAndAuditAgree`), `ProxyKeepsTrail`
  (`Spec => ImplementsTrail`).  The heart of the invariant is `Streamed`: while a
  body is pulled there is no terminal event, so whichever of pull and cancel
  writes first decides, and the other's is dropped by `finish`.

### Lifecycles

`Lifecycles_proofs` holds the proofs of `Guarding`, `WrapConfig` and `WrapStop`,
and `LifeTypes` (`[]LifeTypeOK`), which puts their shapes and those of the
Python proxy's parts together.

- `Guarding`: `TypeCorrect`, `ApprovalGuards` (`[]RunsOnlyApproved`),
  `ResultIsTheCallers` (`[]ResultStands`), `GuardingKeepsTrail`
  (`Audited => (Spec => ImplementsTrail)`).  The invariant says of each stage
  what has and has not happened: before the handler nothing of its end exists,
  and after the timer nothing lets it start.  Without a sink (`Audited = FALSE`),
  `guarding` is covered by `ApprovalGuards` and `ResultIsTheCallers`.
- `WrapConfig`: `ShownIsAgreed` (`[]HeldToConsent`), `CheckedIsAgreed`
  (`[]CheckMeansConsent`).  The invariant says of the files on disk, of what a
  save under way will make of them, and of what wrap has read so far, that they
  have on only what `consent` holds: each tool as recorded, and with a deny list
  one the record lacks as somebody left it on.
- `WrapStop`: `StopTypes`, `StopLeavesNothing` (`[]NothingLeftBehind`):
  the platform and the job decide what can be alive (`JobHolds`), and wrap returns
  only from a stop that saw the group, or the supervisor, gone (`StopHolds`).

### Only model-checked

- All liveness (`EveryCallAnswered`, `HeldCallsSettle`, `EveryAttemptEnds`,
  `LifeEnds`): fairness and `ENABLED` are beyond the prover.

## What is not modelled, and why

- JSON text, schemas, signatures, screening, header decoding: their verdicts are
  inputs.  `changedFields`, `screenResult` and `parseChecked` are pure functions
  over text, which the repository's own fixtures pin.
- `instructions()` of the record: a comparison without state.
- wrap: lines that are not JSON-RPC pass as they are.  So do cancellations, which
  change nothing wrap keeps, also that of a held call, which reaches the server
  before the call does; `Wrap` lets the server leave any request unanswered
  anyway.  Calls left unanswered when the server exits are where `Stop` leaves
  them.
- `gate.ts` and `gate.py`: they price somebody else's server with the guard that
  `Guarding` models.
- Custom authorizers and `scopesForRequest`: a caller's own functions.
- `record`, `drift` and `explain` of the CLI, and all text it prints; quoting of
  command lines.
- OpenAPI without an audit sink, which records nothing, and an ASGI app that
  raises after it started its answer.
- The Python proxy's event filter and capped reads; the Python server's audited
  call, which is `guarding` again with one await less.
- Token verification (a library), the Node host, examples, docs, the test server.

## Plan

The plan of the project is done: record, wrap, framing, audit trail, pricing,
policy and servers, OpenAPI, wrap's files and its stop, the Python proxy.  What
would add most next, in this order:

1. That a `UpstreamRecord` refusal has its cause, as `RefusalsHaveCause` shows of
   the Python proxy; the TypeScript record keeps `changed` labels refused without
   a new listing, so the statement must say since when.
2. `changedFields` and `captureListings` over a small algebra of definitions,
   with the shared key space of resources and templates.
