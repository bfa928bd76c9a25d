# Superion in TLA+

Superion is a voice copilot for maintenance technicians: a technician starts a
work order, is led through the steps of a procedure by a voice agent, takes
photos that are validated in the background, and leaves a report with a PDF.
The backend (Python, FastAPI, asyncio, Postgres through asyncpg) keeps the
state; a mobile and a desktop app (TypeScript) follow a session over a WebSocket.

What can go wrong lies between two awaits. Nearly every use case loads rows,
awaits further queries, and writes a whole row back, without a lock and without
comparing it with what it read; numbers are handed out by one transaction and
used by another; messages are published after the commit. These modules make
every await a step and let requests interleave at each of them, crash at each of
them, and be retried. What the code computes without an await (the contents of a
report, the ranking of passages, the pages of a list) is in modules of its own,
as functions, and checked as such.

## 1. The system

| Component | State it keeps | Operations | What is hard | What makes it correct | Module |
|---|---|---|---|---|---|
| Session event log (`application/use_cases/events`, `supabase/session_event_repository.py`) | `session_event`: number, id, type, payload | `next_seq`, `append`, `list_since`, `get_by_event_id`, `has_accepted_photo` | number and append are two transactions; retries; publication after commit | numbers 1, 2, 3 ... without gap; an id is stored once; an answer names the row; nothing is published that is not stored, and nothing stored goes unpublished | `EventStore` |
| Session flow (`use_cases/sessions`, `reports/finalize.py`) | `maintenance_session`: status, current step | advance, skip, pause, resume, finalize | whole-row saves of stale snapshots; several saves per command; events that fail after the save | photo gate; no skipped critical step; the position is earned; the end follows the last step | `SessionFlow` |
| Work orders (`use_cases/work_orders/start_session.py`, `supabase/migrate.py`) | `work_order`, the sessions of an order | start, resume an open session, seed again | two tables, two transactions; two devices | at most one open session; a started order has a session; two starts never hand out two open sessions | `WorkOrders` |
| Lists and details (`use_cases/work_orders`, `use_cases/sessions`, `session_access.py`) | none | pages of orders, sessions, events; who may read them | cursors while rows change | a client that follows the cursors misses nothing; what is listed can be read | `Reading` |
| Live report (`reports/build_live.py`, `finalize.py`, `get.py`) | `maintenance_report`, the PDF in the object storage | build on every event, read, finalize | concurrent builders on snapshots; four writes in a row at the end | a final report shows every event up to its limit, has its PDF, and the hash of it | `LiveReport`, `ReportContents` |
| Photos (`use_cases/photos`) | `evidence_photo`, the object, background tasks | upload, validate, escalate | tasks in memory; event after save; counting retries | an accepted photo opens the gate; every photo gets a verdict | `PhotoPipeline` |
| Sockets and buses (`interface/ws`, `infrastructure/realtime`, `ws-client`) | subscriptions, last pong, greatest number seen | subscribe, replay, forward, ping, reconnect | replay and forwarding overlap; a peer that vanishes; handlers that raise | nothing is missed between replay and forwarding; a connection that was left is released | `SessionSocket` |
| Authentication and rate limiter (`use_cases/auth`, `token_blacklist.py`, `rate_limiter.py`, `http.ts`) | registered and revoked tokens, a window of time stamps, the client's tokens | login, refresh, logout, every other call | rotation raced by two renewals; state in memory | a spent refresh token is refused; a window never holds more than its limit | `AuthTokens` |
| Manuals and questions (`use_cases/manuals`, `use_cases/rag`) | `manual`, `manual_chunk`, the stored PDF, tasks | upload, index, re-index, archive, ask | background tasks save the row they loaded | the chunks of a manual are never a mixture of two indexings one after the other; versions grow; an archived one is not asked; answers cite | `ManualLibrary`, `Passages` |
| Voice (`use_cases/voice`, `application/agents`) | the step LangGraph remembers | webhooks, intents, tools | several use cases per call, each with a session of its own reading | speech is filed where the technician was; who is answered is told; a pause holds | `VoiceRouting` |
| Agent provisioning (`use_cases/elevenlabs`, `external/elevenlabs`, `state_store.py`) | a state file, tools and agent at the provider | provision, deploy | interruption between creation and saving of the ids; a file written in place | provisioning twice creates nothing twice; the file tells what was done | `AgentProvision` |
| Audit log, download of the PDF, catalogues, wiring, observability, command line, user interface | see PROJECT.json | | | | |

How they interact. Every command of a technician arrives over HTTP (or as a tool
call or webhook of the voice agent) as a request of its own and runs in one
coroutine. All of them append to the session event log. Appending publishes on the
event bus, inside the request; the bus calls its subscribers one after another in
the same coroutine: the sockets of the apps, and the live report builder. Photo
validation and manual indexing are tasks started by a request and run after it.
Components share rows (a session is written by five use cases, a report by three),
never objects in memory, apart from tokens, sockets, tasks and the rate limiter's
windows. Provisioning shares nothing with a running backend but its state file.

## 2. Modules

| Module | Models | State and its counterpart |
|---|---|---|
| `SessionEvents` | the event table as the Postgres adapter and the schema present it: `next_seq`, what `append` answers, the three queries. No state of its own | the table is a sequence of rows `[id, seq, type, step]` |
| `EventLog` | abstract: what the store promises, an append-only log and answers that name positions | `log`, `acks` |
| `EventStore` | `PostSessionEventUseCase`, `AppendEventUseCase` and the notices of other use cases, any number of requests at once | `log` the rows, `bus` what subscribers were sent, `closed` the session's end, `req[r]` the locals of a coroutine |
| `Procedure` | abstract: what carrying out a procedure promises the plant | `photographed`, `completed`, `skipped`, `position`, `closed` |
| `SessionFlow` | transitions, pause, resume, the voice path, accepted photos and finalization | `log`, `row` the session row, `report` whether a finalized report exists, `req[r]` with the snapshot `snap` |
| `WorkOrders` | starting a work order, the statuses of its sessions, and the seeding at start-up | `order`, `sessions`, `req[r]`; `reseeded` (history) |
| `LiveReport` | live builder, readers and finalization on one report row | `events` their number, `finalized`, `report` the row, `pdf` the object, `closedAt` (history), `req[r]` |
| `PhotoPipeline` | uploads, their retries, and the validation task each leaves behind | `photos` the rows, `objects` the images stored, `log` the events, `heard` the notices, `req[r]` an upload and then its task |
| `SessionSocket` | publishers, both buses, the coroutine and heartbeat of every connection, and the client that reconnects | `kind` the configured bus, `stored`, `pub[p]` a publisher, `subs` and `managed` the handlers and the ConnectionManager, `conn[c]` a connection, `last` the client's greatest number, `shown` what it got, `listener`, `inbox` Redis, `built` calls of the builder |
| `AuthTokens` | login, rotation, logout, the check of every call, the limiter's window, the client's renewal, restarts | `now`, `issued`/`iat` the token pairs, `revoked`/`registered` the blacklist, `stamps` the deque of the limiter (each time with a number, as times repeat), `app[a]` stored tokens, `call[c]`; `passed`, `dead`, `boot` (history) |
| `ManualLibrary` | uploads, re-indexing, archiving, indexing tasks and questions on the manuals of one asset model | `manual`, `chunks`, `stored` tables and storage, `uploads`, `scheduled` ids given, `req[r]`, `task[t]`, `question[q]`; `settled`, `misled`, `before`, `after` (history) |
| `VoiceRouting` | webhooks, intents and tools as plans: the list of awaits of a handler in the order of the code | `log`, `row`, `graph` the step in LangGraph, `req[r]` with what is left of its plan |
| `AgentProvision` | provision and deploy, call by call, and removals at the provider | `tools`, `agents` at the provider, `file`/`saved` the state file, `run[r]` a command; `alone` (history) |
| `Passages` | extraction, chunking, hybrid ranking, reranking, abstention and citation | none: operators |
| `ReportContents` | `ReportBuilder.build`, the diff of two versions, which messages the builder looks at | none: operators |
| `Reading` | pages of work orders, sessions and events, and who may read them | none: operators |
| `*Proofs` | theorems about the module they are named after; `AdmissionProofs` about `WorkOrders` and `AuthTokens`, `EventDeliveryProofs` about `EventStore` and `SessionSocket` | |
| `MC*` | the instances of the runs; the claims about the operators, as `ASSUME` | |

The modules share one shape. A request is a record `req[r]` with a label `pc`,
the command, what the coroutine has read so far and the result. An action moves
one request from one await to the next, with everything the code does between
the two: its guard is the label, its branches are the code's early returns. So
`SessionFlow!LoadAdvance` is `_load_session_context` with its refusals, `Gate` is
the query of the photo gate, `SaveStep` the whole-row save of the position, and
`ReadSeq` then `Store` are `next_seq` and `append`. A request may end wherever it is
under way (`Crash`, `Raise`, `Drop`, `Stop`): the instance stops, or a call raises,
and the locals are gone; rows stay. In `VoiceRouting`, where two dozen handlers are made
of the same few use cases, the labels of a handler are the members of its plan,
and there is an action for each kind of await. `PROJECT.json` names the lines of each
definition. In `AuthTokens` and `SessionSocket` the names that other modules use too bear a
prefix (`AuthInit`, `SocketNext`, `CallGoto`), so that one module of proofs can extend two
modules of the system.

What is abstracted. Payloads, names and texts are left out, as the guards do not
read them. A client's event id is a model value; an id drawn by the server is
`Fresh`, equal to no other although all of them share the value. In `LiveReport`
the contents of a report are the number of events they show; what those say is in
`ReportContents`. Time occurs in `AuthTokens` only, as `now`; elsewhere a timer is an
action that is possible once it is set. Scores and similarities are whole numbers
over a common denominator, so that they compare exactly. The adapters modelled are
those for Postgres: in the in-memory ones the awaits never suspend, so that a use
case runs in one step and has fewer behaviours.

How the modules fit together. `SessionEvents` is common to `EventStore`, `SessionFlow`
and `PhotoPipeline`: the second composes the table with the session row, the third with
the photos. `WorkOrders` and `LiveReport` keep of a session what their properties need
(its status; the number of its events), since the product of all would only add
interleavings of steps that touch different rows. `VoiceRouting` takes the append of an
event as one await (that it is two, and how the photo gate answers, is in `SessionFlow`)
and adds what lies between the use cases of one handler. `SessionSocket` begins where
`EventStore` ends: an event is stored under the next number and then published.
They say in their headers which guard lives in which other module. `LiveReport`
assumes the in-memory event bus, under which one builder runs per message.
Histories are variables that no action reads to decide anything: they record, for
a property, what was so at some earlier time.

## 3. Runs

| Run | Instance | Shows |
|---|---|---|
| `event_store` | 3 requests, 2 client ids | `AnswersAreTrue`; `PublishedIsStored`: subscribers hear of what is stored, and of all of it but for requests cut off; that the store implements `EventLog` |
| `session_steps` | 3 requests, ids given twice to the same body or another; 3 steps, the middle one critical and with a photo | `StepsInOrder`, `PhotoGate`, `AcceptedIsRecorded`, and the steps of `Procedure` |
| `session_closing` | 3 requests, all 9 commands; 1 step; a scan of 2 events | `ClosedInOrder`, and the closing of `Procedure` |
| `session_finalized_final` | 3 requests | finding: a finalized session is saved as paused again |
| `work_orders` | 5 requests | `OneOpenSession`, `StartsAreTrue`; the claims about `Reading`: `EveryOrderOnce`, `ListedIsNotOpened`, `ListedIsReadable`, `EventsInBatches` |
| `live_report` | 4 requests; a report shows 2 events at most | `FinalReportWhole`, `NeverStartsOver`; the claims about `ReportContents`: `NothingIsTakenBack`, `ChangesAreNamed`, `SkipsAreSeenLate`, `FindingsAreInBoth` |
| `photo_pipeline` | 3 uploads; 3 event ids, two of one step; 1 retry, fair | `PhotosAreTrue`, `GateIsEarned`; `Judged`: a pending photo gets its verdict unless its task is stopped |
| `session_socket` | 2 events, 2 connections (1 with Redis), 2 instances, a replay of 1 event, fair | `NothingMissed`, `BuilderHears`; `Released`: a connection the app has left is gone from bus and manager |
| `auth_tokens` | 2 apps, 2 calls; 3 pairs, times 0 to 2, access for 1, refresh for 2; a window of 1 and a limit of 2 | `DeadStaysDead`, `WithinLimit` |
| `manual_library` | 2 requests, 1 question; 2 manuals, one without text, their names with blanks or without; 2 tasks | `ChunksAreTrue`, `ArchivedForGood`, `VersionsGrow`, `PendingIsAwaited`; the claims about `Passages`: `PhrasesAreWhole`, `NothingIsLost`, `BetterComesFirst`, `BestIsHalf`, `NoCandidateIsLost`, `AnswersCite`, `OrderDecides` |
| `voice_routing` | one request of any kind, one that skips or ends the conversation, one that advances or resumes; 2 steps, and calls that name one past them | `FiledWhereItWas`, `AcceptedIsTold`, `WordsComeFirst`, `PauseHolds` |
| `agent_provision` | 3 commands; manifests of one tool, two (one listed twice), an unknown one, none; 1 removal by hand | `ToolsOnce`, `AgentOnce`, `ListedIsAttached`, `DeployedIsTrue` |

The last five runs also check the type invariant of their module (`SocketTypeOK`,
`AuthTypeOK`, `TypeOK`); those of all modules are proved. Every property is shown to depend
on the code by a mutant: the module with one
operator changed the way a bug would change it (`mutants` in PROJECT.json; the
mutated operators stand beside the real ones with the comment *mutation*). The claims
about `Passages`, `ReportContents` and `Reading` are `ASSUME`s of the MC modules: TLC
evaluates each of them over all the inputs it quantifies over before the run begins.

The bounds, and why they are enough. The only bounds are the constants. A request
is handled once (in `AuthTokens`, `ManualLibrary` and `AgentProvision` the number of
pairs, manuals, tasks and commands is what ends a behaviour), so the behaviours are finite
and no constraint cuts them off. A race of this code needs a request that read
something, one that changed it, and sometimes one that prepared the state or a
retry: three in the event store, three in a session, four for the report (two
builders, a finalization and an event or a second finalization), five for work
orders (two starts of the same order, a third after a finalization, and the pause or
resume that is late), three for photos (two photos of one step, or a photo and its
retry, and one of another step or id). With one retry the second refused photo of a
step is already escalated. A procedure of three steps has a first, a middle and a last
one; closing uses one step so that all three requests are free to race with the end.
500, the limit of finalize's scan, stands for "more than there are events" in
`session_steps`; `session_closing` uses a limit that bites, as `session_socket` does
for the limit of the replay and `live_report` for that of the contents of a report (two
of up to three events that can be stored before the end).

`session_socket`: two events are one before and one after the subscription, or one
replayed and one forwarded meanwhile; two connections are one that is left and the one
that resumes. With Redis, where nothing reaches a socket, one connection is enough,
and two instances give every message a publisher and a listener elsewhere.
`auth_tokens`: an access token lives for one unit of time and a refresh token for
two, so that it outlives one and has expired at the end of the run; the window is as
long as an access token, so that a request can be at each of its two ends. Two calls
are the two renewals that race; three pairs are a login, its renewal and a login of
the other app. `manual_library`: two tasks are the two of one manual that race, two
manuals a version and the next one; the one without text can only fail. A name with
blanks around it is all that tells a name as sent from the name as stored. `voice_routing` gives
the three requests different workloads, since three of any kind are too many states:
one is the handler looked at, the others move the session under it forwards, and pause
or resume it; a number past the last step stands for every such number, as no handler
looks at it further. `agent_provision`: two commands that overlap and one that comes after a
cut off or a change of the manifest.

Requests, calls and commands are interchangeable, and eight runs use that as symmetry.
What they check are invariants and properties of steps that name no request, for which
it is sound; step properties and refinements included, which TLC checks edge by edge. The
two runs with a liveness property do without, as it would not be sound there, and so does
`voice_routing`, whose requests have different workloads.

Deadlock is not checked: when every request has been handled, nothing is left to
do.

Fairness. Two runs need it. `photo_pipeline`: weak fairness of every upload's and every
task's next step. The event loop resumes a coroutine whose await has completed, and the
queries of this path have no retry loop that could starve. Uploads need not arrive
(`Upload` is not fair) and crashes need not happen. The advisory lock inside `append` is
held within one step, so waiting for it is part of it. `session_socket`: weak fairness
of every connection's coroutine (`Serve`) and of its heartbeat (`Beat`). The event loop
resumes them, `asyncio.sleep` and `wait_for` come to an end, and a peer that is not
there is told of by TCP or by the close handshake of the server. Nothing is assumed of
publishers, nor of the app: it need not open, answer a ping, or say that it leaves.

## 4. Where the code and its documents disagree

One disagreement is a run: the table of errors in `integration_contracts.md` refuses every
mutation of a finalized session, while `pause`, `resume` and `mark_step_complete` save the
row they loaded over a finalization that came in between (`session_finalized_final`).

The others are in the models as the code has them. Where one bears on a property, the
property says what is left to hold:

* *A second start.* The contract (`integration_contracts.md:228`: "409 si OT ya está
  `in_progress` o `completed`"; `:1039`, `WORK_ORDER_ALREADY_STARTED`, "OT ya tiene sesión
  activa") and the plan (`plans/backend/02-work-orders-sessions.md:123`, "Doble start → 409")
  refuse it. `start_session.py:59-66` answers it with 201 and the open session of the
  technician, as the tests expect (`test_work_orders_router.py:118`,
  `test_start_session.py:83`); 409 comes only when the order is in progress without an open
  session. `WorkOrders` follows the code. `SessionsNotDoubled` does not take a side: whatever
  the second start is answered, it never adds a second open session.
* *An event id used for another body.* The contract (`:1037`) has `IDEMPOTENCY_KEY_REUSED`,
  409, for "Mismo key con payload distinto". `post.py:38-40` looks the id up and answers the
  stored event as accepted, without comparing: an advance sent with a used id is
  accepted and never recorded. `AcceptedIsRecorded` excepts that (`IdOfAnother`).
* *A step out of order.* The contract (`:1048`, `:1049`) has `STEP_OUT_OF_ORDER` ("step_index
  no es el actual") and `STEP_ALREADY_DONE`. No code raises either: `mark_step_complete` and
  `skip_step` take any index (`transition_step.py:144-221`). `Procedure` therefore allows such
  completions, and only the position is promised to be earned.
* *Versions and active manuals.* The contract (`:918`): "`manual.version` se incrementa por
  `(asset_model)` y solo una `active` por modelo". `upload.py:105` counts the rows of the
  name as sent and `:113` saves it stripped: a name with blanks around it gets version 1
  again. Two uploads at once read the same version. And an upload that replaces nothing
  archives nothing, so that two manuals of a model can be active; questions take the newest
  one. `VersionsGrow` is about uploads that gave the name as stored, one after the other.

### Seen while modelling

The models contain the following behaviours, as the code has them; no property says
otherwise, and several are the reason for a clause of one.

*Events and sessions.* Publication follows the commit outside any lock, and a notice
repeats the number of the next event, so that numbers on the wire do not always
grow. A duplicate id in `append` aborts the transaction, so that the SELECT in the
handler of the unique violation is refused. The index of a step is taken as given:
critical steps can be left out. A completion whose request is cut off before it saves
the position is answered as accepted when it is sent again, and the session does not
move. `finalize` scans 500 events for the completion of the last step: a session
whose last completion lies beyond cannot be finalized. A pause can hold without
`session.paused` having been stored (the row is saved first, and the append may lose
its number).

*Work orders and lists.* At start-up the seeding sets the demo orders back to
pending, those in progress included (`supabase/migrate.py:167`); `StartsAreTrue`
excepts them. Nothing saves a work order as completed, so that after its session
is finalized it can be neither started nor closed. A supervisor lists the orders of
another technician but cannot open one (`work_orders/get.py:37`). A list of events
never has a cursor (`next_cursor` is always empty) although it is cut at the limit; a
cursor that cannot be parsed raises. `list_for_plant` joins a table `"user"`, while the
schema creates `app_user` (`session_repository.py:98`, `0001_init.sql:11`): `Reading`
takes the join as meant.

*Reports.* A report, the final one too, is built from the first 500 events
(`build_live.py:223`): what a long session stored later is missing in it without a word.
`FinalReportWhole` has this limit as `ReportLimit`. A slow builder saves its draft over the final report, so that a final
report need not stay final. A session is finalized for good although the PDF
failed, since it is saved first; two concurrent finalizations store their PDFs
under one key and may leave the hash of the other (the reason `FinalReportWhole` asks
for the hash only when one request finalizes). The version of a report,
incremented on a snapshot, goes back when builders overlap. A skipped step does not
refresh the live report (`SkipsAreSeenLate`); what was said at a step that is not one
of the procedure is nowhere in it (`FindingsAreInBoth`).

*Photos.* Photos of one step refused at the same time read the same count, so that
more of them than the retries allowed are refused before one is escalated. An
accepted photo whose event lost its number leaves the gate closed, and nothing
validates a photo again whose task was lost. The payload of the event of an
accepted photo has no step index, so that its notice names step 0.

*Sockets.* The server waits ten seconds for a subscribe message; the client of the
apps sends none, only pings, is closed at its first ping or when the time is over, and
connects again, for ever (in the model a connection may subscribe or not). What
reaches it in the meantime is what the bus forwards. A client that resumes from the
number of a notice misses the event stored under it. The replay sends at most 500
events and says nothing of the rest. With the Redis bus the sockets, which subscribe
to the bus in memory, get nothing live, and a builder hears of its own instance's
messages twice.

*Authentication.* The client's renewal keeps the new access token and drops the new
refresh token (`http.ts:90`), while the server revokes the old one: an app can renew
once, and is logged out by its second renewal. A restart of the server forgets what was
revoked.

*Manuals.* Whatever is under way when a manual is archived saves the row it read, so that
`ArchivedForGood` begins when nothing is. Abstention looks at the first passage after
reranking, where `plans/backend/05-manuals-rag.md:80` speaks of the greatest score
(`OrderDecides`); by the hybrid order the best score is one half or more whenever
anything is similar at all, so that a lower threshold never abstains (`BestIsHalf`).
An answer of the reranking model that is JSON but no object raises an error the
reranker does not catch.

*Voice.* The classifier is asked before the words are recorded: when it fails they
are lost. Speech is recorded after the end of a session too. Skipping and pausing emit no
`tool.called`. The tool calls of a blocked user are refused, his webhooks are
not. A
tool that loaded the session before a pause saves it as active again (`PauseHolds`
says so). Nothing invokes the graph that LangGraph is given, and calls of OpenRouter
are synchronous inside coroutines.

*Provisioning.* The state file, "JSON atómico" by its comment (`state_store.py:15`), is
rewritten in place. A tool or an agent removed at the provider makes every later
`provision` fail (`provisioner.py:77`).

## 5. Proofs

Every safety invariant and every property of steps that a run checks is proved by TLAPS,
for every number of requests, connections, calls, tasks, commands, ids and steps. The
assumptions are those the modules name: that the constants have their type
(`TemplateAssumption`, `LimitAssumption`, `WorkloadAssumption`, `CommandsAssumption`,
`RetriesAssumption`, `StepAssumption`, `StepsAssumption`, `TimesAssumption`,
`BoundsAssumption`, `BoundAssumption`, `BlankAssumption`, `ManifestAssumption`,
`NamesAssumption`, `RemovalsAssumption`, `HomeAssumption`); that `Fresh`, `NoSession`,
`NoPhoto`, `NoId` and `None` are no client id, session, photo or step (`FreshAssumption`,
`IdAssumption`, `NoSessionAssumption`, `NothingAssumption`, `StepsAssumption`); and that the
uploads of a session are finitely many (`UploadsAssumption`: their refusals are counted).

The invariants are seldom inductive, since a request acts on what it read before an
await. Each proof therefore says what a request *knows* at each label, in a form that the
steps of the others cannot falsify. In the modules with one such invariant it is called
`IInv`; in the others it comes in layers, each inductive given those before it. Below that
there is a lemma per action, and a short theorem per property at the end.

* `EventDeliveryProofs`, of `EventStore`. That the numbers are gapless and ids stored once is
  not inductive: between `next_seq` and `append` a request holds a number that may be stale.
  `IInv` adds that such a number is at most one past the table (`PendingNumber`), that
  a request about to publish holds the number of its own row (`PendingPublish`), and
  that a number lost in a conflict is in the table (`LostNumber`). `StoredIsTold`, that
  every row was published or is in the hands of a request, is a second layer on top of
  it. With them:
  `NumbersGapless`, `IdsStoredOnce`, `AnswersTrue`, `PublishedStored`, and
  `StoreImplementsLog`: every step of the store is a step of `EventLog` or none.
* `EventDeliveryProofs`, of `SessionSocket`. `SocketShape` places every connection with the bus
  and the manager. `Covered` is the argument for `NothingIsMissed`: from the replay on,
  an event that an open connection has not shown is in the batch about to be sent, or
  beyond the limit of the replay, or its publisher has yet to come to that connection,
  or failed before. `Heard` counts for `BuildersHear`: the calls of a builder and what
  Redis holds for it are together no more than the PUBLISH that was made and the
  publisher's own call.
* `SessionFlowProofs`. Saves of stale rows make any argument about the current row
  useless; the one that works is about the log, which only grows. `RowOK` says what
  the events must have preceded a row; it holds of the session row and of every
  snapshot a request carries, so that saving a stale snapshot is harmless to it.
  `LocalOK` lists what a request knows at each label (the photo of the gate, the
  completion it stored, or the row of another body its id had been given to), `EntryOK`
  what precedes each event, `Owned` and `PostedIds` that the row of a client's id is
  that of a request with this id. With them `StepsTakenInOrder`,
  `PhotoBeforeCompletion`, `ClosesInOrder`, `AnswersRecorded`, and
  `SessionImplementsProcedure`.
* `AdmissionProofs`, of `WorkOrders`. `Knows` says what a start knows at each label; the
  partial unique index is the guard that keeps `OneOpenSession`; an order never leaves
  *in progress* unless it is seeded again, which takes from a start nothing it knows of
  its session. `AtMostOneOpen`, `StartsAnswerTruly`.
* `AdmissionProofs`, of `AuthTokens`. `Remembered`: every request whose window is not over is
  in the limiter's deque, which the limiter drops from only what no window can
  count any more (`LimitIsKept`). `Refused`: every refresh token issued since the process
  started is registered or revoked, so that a logout, which revokes the registered ones,
  leaves none (`DeadAreRefused`).
* `LiveReportProofs`. `Knows` carries along a finalization that the session is saved
  as finalized before the contents are built, that what they show, the first
  `ReportLimit` events, only grows with the table (`ShownGrows`), and that the PDF is stored
  before the row; `Sealed` that a final report means the one finalization is past its save.
  `FinalReportsWhole`, and the action property `DraftsAreKept`.
* `PhotoPipelineProofs`. The argument is ownership: a photo bears the name of its
  upload and only the task of that upload changes it, so that `Knows`, what a task
  knows of its photo at each label, survives the steps of all others. The count a
  refusal carries is stale; the bound on retries holds as refused photos stay refused
  (`RefusedGrow`). With them `PhotosTrue`, `GatesAreEarned`, and the action property
  `VerdictsAreFinal`.
* `ManualLibraryProofs`. Requests and tasks save the row they loaded over whatever is there,
  but under the version it was uploaded with (`Rows`). On this rest `Versions` (the
  next version is greater than all on record, if the name is counted as it is stored, and
  the row goes in under an id nobody else has: `NewVersionsAreGreater`), `PendingManualsAreAwaited`, which is inductive itself,
  `Chunks` (tasks that share the chunks of a manual ran side by side: no one of them had
  ended before another began: `ChunksStayTrue`), and `Settled` (of what is under way, only a
  request that has yet to read the row names a settled manual: `SettledStayArchived`).
* `VoiceRoutingProofs`. What is left of a handler is the rest of its plan, and the
  invariants speak of it. Every plan is shown to be sound (`PlanSound` and the lemmas
  before it: a move comes last and after its report, the words before their effects),
  and every rest of a sound plan is. `Filed` then says what a handler knows of its step
  (`FiledUnderReachedSteps`), `Words` that the record of a sentence is still to come
  (`WordsAreFirst`), and `Told` that the effects up to some one are in the log, under one
  step, and the others are still to come (`AcceptedAreTold`). `PausesHold` is the action
  property.
* `AgentProvisionProofs`. `Shape` holds however commands overlap: ids name what was created
  under that name, and a time of deployment is one of the agent beside it, in the file and
  in every copy of it (`DeploymentsAreTrue`). The rest is promised of commands that do not
  overlap, and so is their invariant, `alone => Alone`: what the one command under way
  has in hand agrees with the provider, or will be found there again by name after a cut
  off (`ToolsAreCreatedOnce`, `AgentIsCreatedOnce`, `ListedStaysAttached`).

Each of the ten components also has its type correctness (`TypeCorrect`,
`SocketTypeCorrect`, `AuthTypeCorrect`). No proof goes by induction over data: that a function
on a finite set has a greatest value, which `NextVersion` needs, is taken from the
well-foundedness of the subsets of a finite set (`GreatestValue`).

Only model-checked: `Judged` and `Released` (liveness is out of the prover's
reach), and the claims about `Passages`, `ReportContents` and `Reading`, of which those
about recursive functions and folds cannot be proved in general: that needs
induction over data. What the finding refutes is of course not proved.

## 6. Plan

No safety property of a run is left without a theorem. What remains:

1. the lemmas about `Reading` and `ReportContents` that need no induction: that whoever
   may list a session may read it, and which message types the live report looks at;
2. the hand-over between `EventStore` and `SessionSocket`: that the table of the one
   gives the other what it assumes, events stored under the next number and published
   only then. `NumbersGapless` and `PublishedStored` are its two halves;
3. shorter leaves where a step of a proof still covers several actions at once.

## 7. Not modelled

Payload contents, wording, prompts and layout of the report and PDF; HTTP
serialisation, configuration and wiring; observability, the command line, the user
interface and its mock of the backend: no state another component depends on.
External services (models, storage, the voice provider) are nondeterministic answers
where a module needs them. The download of the PDF only reads what `FinalReportWhole` is
about. `sessions/finalize.py` is an earlier finalization that nothing calls. The
repositories in memory have fewer behaviours than those for Postgres, as their awaits
never suspend. The pool and the catalogues are read-only. Entries of the audit log are
an await that may raise (in `AuthTokens`); what they contain, nothing reads back. Each
component, with the reason, is in PROJECT.json.
