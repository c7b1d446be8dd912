# TLA+ models of codex-api-wrapper

The wrapper is one Rust service that offers a ChatGPT subscription's Codex
backend under three HTTP surfaces (`/wire/v1`, `/v1/chat/completions`,
`/v1/responses`), next to an image API, quota and metrics endpoints. This
directory models its core logic in TLA+, checks the models with TLC and proves
the most important properties with TLAPS. Paths below are relative to the
repository (`src/auth.rs` is the crate's source file).

Contents: 1 inventory, 2 interaction, 3 modules and code, 4 runs, 5 fairness,
6 disagreements found, 7 proofs, 8 what is not modelled.

## 1. Inventory

| Component | Source | State it keeps | Operations | What is hard | What makes it correct |
|---|---|---|---|---|---|
| Credential coordination | `src/auth.rs`, `src/auth_recovery.rs` | `auth.json` and `auth.lock` in CODEX_HOME, shared by pods; per pod the `AuthManager` cache and its permanent refresh failure, `AuthHealth.rejected`; per request a `CoordinatedRecovery` step and an `AuthTracker` | `coordinated_auth`, `readiness`, `status`, `login_reminder`, `login`, `login_device`, `logout`, `run_with_unauthorized_recovery` | processes share a file; a refresh token works once; answers come late; futures are dropped and pods die at any await; the lock is held over minutes | no refresh token is used twice, none is rotated without a reason, a rejection is true and about the right credential, replays are bounded, everybody gets the lock in the end |
| Backend client | `src/client.rs`, `src/images_client.rs` | per turn `ServerModelSlot` and the tapped headers | `stream`, `models`, `usage`, `image_request`, `build_body`, `cache_key`, `map_events` | the key must stay the same over a conversation; errors before and inside a stream; the order of quota, model and first event | a turn keeps its prefix and its key; quota first, then the backend's events in order, one terminal event |
| Responses surface | `src/openai_responses.rs` | `ResponsesState`: output, open item, reasoning slot, status, sequence number | `to_wire`, `apply`, `response` | several spellings of the same part; reasoning items end late; items open and close implicitly | everything said is sent or the request refused; stream and envelope agree, nothing is lost, reasoning can be replayed |
| Chat surface | `src/openai_chat.rs` | `ChatResponseState`: text, reasoning, calls, stop reason | `to_wire`, `apply`, `response` | system messages before and after the first of the user's; the same turn as a stream and in one piece | the same conversation is the same request as on the other surface; stream and message agree; one `[DONE]` |
| Metrics | `src/metrics.rs` | counters, bands of the latest samples, quota, one `TurnRecorder` per open turn | `start_turn`, `record_rejected`, `observe`, `Drop`, `snapshot`, `prometheus` | turns overlap and end by being dropped | every request is counted once, under the right outcome |
| HTTP server | `src/serve.rs`, `src/lib.rs` | `AppState` | handlers, `run`, `serve_unix`, `serve_tcp`, `announce` | clients that hang up; a stale socket at start-up, and a second instance that starts in between | each handler reaches exactly one end; whoever gets in came through the private socket or has a key (but see 6); the service comes back after crashes |
| Quota projection | `src/limits.rs` | none | `from_headers`, `from_usage` | the default header family is an alias | each group once, the active one first |
| Image API | `src/image_api.rs` | none between requests | `generate`, `edit`, `dispatch`, `response_json` | limits while a multipart body is read, counted before and after encoding; a billed request must not be repeated | billed once; all images and parameters arrive or none; the answer is what was made |
| Request bodies | `src/request_body.rs` | none | `decode_json` | a bound on the decoded size that is one byte from cutting a document off | what is sent on stood in a body that was read to its end within the limit |
| Listening and keys | `src/listen.rs` | configured keys | `from_str`, `from_file`, `authenticate`, `validate` | an empty set of keys lets everybody in; TCP without keys must not start | open only behind the private socket |
| Model catalogue | `src/models.rs` | none | `catalogue`, `openai_list`, `wire_model` | an id with a variant is not a model of the backend's | each entry offered is a model that exists, is not hidden and is reached by its id; a long variant offers more than the standard one |
| Wire types | `src/wire.rs` | none | types only | | |
| Command line | `src/main.rs` | none | arguments, printing | | |

`PROJECT.json` lists the same components with the modules that cover them, and
under `hazards` every place in this code that is hard to test.

## 2. How the parts interact

- A surface's handler (`serve.rs`) translates the request, calls
  `Client::stream`, opens a turn in `Metrics` and then pulls events: each goes
  first to `TurnRecorder::observe`, then to the surface's `apply`, whose output
  goes to the client. A client that hangs up drops the stream, and with it the
  recorder and the call to the backend.
- `Client::stream` (like `models`, `usage` and `image_request`) runs under
  `run_with_unauthorized_recovery`. Each attempt asks `ManagedChatGptAuth` for a
  credential, which takes `auth.lock`, reloads `auth.json`, and lets the
  `AuthManager` refresh a token that is about to expire before the lock is dropped. A 401 makes
  the recovery reload under the lock and try again, then refresh under the lock
  and try again.
- `AuthHealth` is how requests tell `/ready` and the login reminder that the
  backend refuses a credential.
- Several pods share one CODEX_HOME during a rolling update, and `login`,
  `login --device` and `logout` are processes of their own. They meet in two
  files only: the lock and the credential.

## 3. Modules and the code they model

```
CredentialStore <--refines-- AuthCoordination <-- MCAuthCoordination
                                    ^------------ AuthCoordinationProofs
UpstreamTurn <-- ResponsesStream (with ResponsesClient) <-- Surfaces <-- SurfacesProofs
      ^                                                     |            | (instances)
      +----------------------------------------- ChatStream <-- ChatStreamProofs
TurnMetrics <-- TurnMetricsProofs
QuotaLimits <-- QuotaLimitsProofs
ModelCatalogue <-- Conversation <-- MCConversation
                        ^---------- ConversationProofs
SequenceFacts (extended by ConversationProofs; instance in SurfacesProofs,
               ChatStreamProofs, TurnMetricsProofs)
Listening ----v
              Service <-- MCService
ImageRequest -^   ^------ ServiceProofs
```

**CredentialStore** is what the directory promises: one credential, replaced in
single steps (`Rotate`, `SignIn`, `SignOut`), which may be lost if holders die or fail
(`Lose`).

**AuthCoordination** is how `auth.rs` and `auth_recovery.rs` keep that promise.
Every actor (request, probe, login reminder, command) has a control point `pc`;
names in `...Wait` stand in `acquire_auth_lock`, and `HeldPc` are the points
where the guard is alive. A step ends at an await or where another thread can
come in between. A credential is the number under which the authority issued
it, so its access and refresh token are the same number. `cached` and `denied`
are an `AuthManager`'s credential and its permanent refresh failure, `latch` is
`AuthHealth.rejected`, `step` is `CoordinatedRecovery.step`, `used` is what the
tracker recorded. `mark_unauthorized` is two steps (`MarkCheck`, `MarkWrite`)
because it reads the manager before it locks the latch. A token is `due` some minutes
before it is `expired`: from then on `auth()` refreshes it, although the backend still
takes it. `RotationFails` is a refresh that the authority has performed and whose answer
is lost or cannot be saved (`refresh_token()` returns an error, `auth()` the cached
credential); `lost` records what is spent and back for that reason. `Cancel` drops a
request's or probe's future at any await, `CrashRestart` kills a pod.
`AuthManager`, the authority and the backend are external: their actions
(`RotateToken`, `RefreshDenied`, `SaveToken`, `Answer`, `Expire`, `Invalidate`)
are what this code relies on. Abstractions: a future cancelled while it waits
for the lock leaves a blocking thread that takes the lock and drops it at once,
which is the lock being free; a command that is interrupted is `CliDone`
without a credential; a sign-in with its URL, code and PKCE is one step that
succeeds or fails; `readiness` and `status` do the same to the shared state and
are one kind of probe.

**UpstreamTurn** is a turn as `Client::stream` hands it to a surface: the quota
event of the headers, then what `map_one` makes of the backend's events. Events
are numbered, and the number stands for the text, call or item. Events that
`map_one` drops without a trace are left out, empty text deltas too. The
backend may send its events in any order; `orderly` only records whether it has
kept to finishing one reasoning item before the next, for the properties that
need it. That a turn begins with `created` and has one of it is the protocol of the
Responses API; nothing in the repository enforces it, and `Sendable` assumes it. What a surface owes its client is said here too, for both: `Received` is what
came, `Handled` what came before a failure. A `broken` item is
one whose serialisation fails (`Failed` while the backend goes on); the types of today cannot provoke it, the code provides for it.

**ResponsesStream** is `ResponsesState`: one operator per helper
(`ensure_created`, `open_reasoning`, `open_message`, `close_open`,
`finish_summary_part`) and per arm of `apply`, each from a state to a state, so
that a handler is a composition of them as in the code. `sent` is the log of
what went out; a sequence number is a place in it. **ResponsesClient** is the
other end: what a client puts together that appends deltas to the open item and
closes it when told.

**ChatStream** is `ChatResponseState` with the chunks of the streaming API and
the message of `response()`.

**Surfaces** sends one turn through both surfaces in lockstep. Either state is a
function of the turn, so the product has no more states than one of them, and
the two can be compared.

**TurnMetrics** is `Metrics` and `TurnRecorder` over the life of overlapping
turns: connecting, refused (`record_rejected`), abandoned while connecting (no
recorder yet, so no trace), open, and closed by `Drop`, either when the stream
was read to its end or when the client hangs up. Every visit to `Metrics::inner`
is one step. `usages` stands for the token and credit sums, `totalMs` for all
bands that get a sample of every turn, `ttftMs` for those that get one only of
turns that have it; a sample is the turn it came from. A stream is polled only while
its client takes what it is sent: `Stall` and `Resume` are the client's, and a stalled
stream observes nothing and does not end but by `HangUp`. The quota that is shown is
QuotaLimits' subject.

**QuotaLimits** is `limits.rs` with the part of `Metrics` that keeps its results:
`quota` are the backend's books, `response` the headers of turns whose quota event
is still to be observed, `observed` and `limits` are `quota_groups` and `limits` of
`Metrics`. A group's windows are a function of those it has, so `None` is a missing
kind; as headers they are zeroes (`Headers`), which is what `HasData` has to see
through. Header families are spelled in a way that `normalize_id` undoes, while the
usage API's `metered_feature` is taken as it stands; that both come to one id for one
group is assumed of the backend. Headers, usage body and which families come with a turn are external:
they are made as the fixtures of the repository show them. The gap that `limits.rs`
knows, an active group named without its family, is excluded (`NoKnownGap`). Left
out: plan, credits and names, which are copied, and the order of the groups.

**ModelCatalogue** is `models.rs`: the complete list and the picker as functions of
what the backend answers. Slugs and ids are sequences of the segments between colons, so
that an id is a slug with a variant appended and `wire_model`, which splits at the first
colon, keeps the first segment; a context length 0 is one that is not declared.
`CatalogueAssumption` names what is assumed of the backend: slugs that are there are
distinct. That no slug holds a colon (`Separable`) and that a default length is not above
the ceiling or the cap (`Coherent`) are premises of the property that needs them, and the
instance has a catalogue in which neither is so.

**Conversation** is the request direction of both OpenAI surfaces, and the catalogue
with them. A client holds a conversation (`talk`) and sends all of it with each turn;
`Say`, `ReportResult` and `Answer` lengthen it, `Ask` is a turn: both surfaces'
`to_wire` on the same conversation, and what `Client::stream` makes of either
(`BuildBody`, `CacheKey`, `WireModel`). `last` is the request that the backend got,
per surface. An entry stands for its text; a text is the number of its entry and the
places of the parts it was joined from, so that a part that is dropped or moved
shows. A client of the Responses API is modelled as it spells the same conversation:
the leading instructions in `instructions`, answers handed back item by item.
Abstractions: the hash of the key is taken for injective; a system message that
comes late is relabelled as the user's by the Chat surface, and only its text is
kept; the contents of a tool's output, tool choice and parallel calls are copies. A
function among the tools is written in full or sparsely: Chat rebuilds it with the
defaults filled in, Responses clones it (`ChatTools`, `settings.tools`).

**Listening** is how an instance starts: `run`, `validate`, `serve_unix`, `serve_tcp`
and `announce`. Each system call of `serve_unix` (look, remove, bind, change the
mode) is a step, because instances share the path and may start together. A killed
instance leaves its socket behind. `config` is a deployment: a transport and the
lines of the key file.

**ImageRequest** is one request to the image endpoints: `generate` with `decode_json`,
or `edit` reading its form field by field with the checks in the order of the code,
`dispatch`, the attempts of `image_request` under the recovery, and `response_json`.
`billed` is the backend's book: an attempt that ends in anything but a refusal (400
stands for those that come before any work, and 401) may have been done or not. The
limit of the router holds for the body as it comes: each field has a `frame` for what
multipart puts around it. Sizes are in MiB with the limits the code has; an image of 21 MiB passes the check of the
encoded form, because 20 MiB leave a remainder modulo 3 that base64 rounds up, and
has to be caught by the one of the decoded form. `decode_json` serves all POST
endpoints in the same way and is modelled for this one. What follows a JSON document
is white space or not; whether a file is a raster image is a property of its field.

**Service** puts the two together. A connection is queued as soon as an instance is
bound (`Connect`: bind makes it listen at once), is taken up when the instance serves
(`Take`), where its key is looked at, and goes with an instance that is killed. `entry`
remembers what it came through: the mode of the socket at that moment, and whether it
came between that instance's own bind and set_permissions (`early`). A killed instance
takes the request with it. A behaviour has one connection with one request; several would
not interact here, since handlers share nothing but what AuthCoordination and
TurnMetrics model.

## 4. Runs

Properties are stated, with the code behaviour they are about, at the end of
each module. Every one has a mutant of the code in `PROJECT.json` that breaks it;
the mutated forms stand in the modules before the definition they replace.

| Run | Instance | What it shows |
|---|---|---|
| AuthPods | 2 pods, a request each, 2 credentials; cancellation, crashes, refreshes that fail after the rotation | `ReuseOnlyAfterLoss`: a used-up refresh token is presented again only if its successor was lost before it was saved. `FreshTokenAfterRefresh`: after a refresh step the request goes out with another token. `StoreIsAtomic`: the directory refines CredentialStore |
| AuthOnePod | 1 pod, 2 requests that share its `AuthManager` and `AuthHealth`, 3 credentials; lock errors | `BoundedReplay`, `RejectionIsTrue`, `NoNeedlessRotation`, `StaleSuccessHarmless` |
| AuthLogin | 2 pods, one with a login reminder and a request, the other with a probe, and a login or logout command, 1 credential; of request, probe and command two at a time (`TwoAtOnce`); crashes, lock errors | `TypeOK`, `LockDiscipline`, `SignInOnlyWhenNeeded`; `StoreIsAtomic` for sign-in and sign-out; `TasksFinish`: nobody waits for the lock for ever |
| Surfaces | turns of up to 8 events before the terminal one, in any order | Responses: `ClientFollows`, `NothingLost`, `ReasoningReplayable`, `SettledItems`, `NothingAfterTheEnd`. Chat: `StreamAgreesWithResponse`, `EndsWithDone`, `ReasoningText`, `OneModel`. Both: `SurfacesAgree` |
| Metrics | 3 turns, bands of two samples, clients that stall | `TypeOK`, `CountersAgree`, `WindowsHoldLatest`, `EveryTurnCounted` |
| Quota | 3 groups, one of them with two windows; one turn at a time between answer and observation; all, some or no families | `OwnNumbers`, `AliasResolved`, `SourcesAgree` |
| Conversation | conversations of up to 4 entries with 2 turns; 7 things to say, 4 kinds of answers, 4 clients (tools absent, empty, in full and sparse, refused; own key, empty key, none; relying on the server's memory or not), 3 catalogues (one with a colon in a slug and numbers that do not fit), each id of the picker at 2 efforts | `SaidIsSent`, `RequestsAgree`, `CacheStays`, `PickerIsTrue` |
| Service | 2 instances in 4 deployments, 2 kills; one connection; 32 requests to the image endpoints around every limit, 7 answers | `BilledOnce`, `UploadsArrive`, `WholeBodyRead`, `AnswerFaithful`, `LetIn`, `FileKept`, `ReachableAgain` |
| AuthStaleFailure, ResponsesRoutedModel, ChatBlocks, ChatPartsDropped | the smallest instances that show it | section 6 |

Why the bounds are enough. A race over one credential needs two holders and the
credential that replaces it; the third credential of AuthOnePod is there for an
answer that is older than both the latch and the cache. Access tokens may expire
or be invalidated at any moment, so the number of credentials bounds how often
the same race repeats and not which races occur. Eight events, of which two are
the quota and the start, leave room for two complete reasoning items with text
between their parts, or for any six of text, summary, part, item, call and broken
item, which is every pair and triple of transitions of the open item. Three turns
overflow a band of two samples and can close in any order, so that both which sample is
dropped and the order of the rest show. What `TwoAtOnce` cuts off in AuthLogin is the
start of a third actor; no fairness asks for it, so the property is about the behaviours
in which it does not come. Of quotas,
three groups are the account's, one that is charged and one that is not, with numbers
that may or may not coincide. A
conversation of four entries holds instructions, a question, a call and its result,
or a late system message after an answer, and two turns are what it takes to compare
a request with the one before. Two kills let either instance die in the middle of its
start and again when it serves, with the other one anywhere in between. Where a
theorem exists (section 7) no bound is involved. The run AuthOnePod exchanges
the two requests by symmetry; no run with symmetry checks liveness.

Deadlock is checked in the runs of AuthCoordination, whose service never
stops. It is switched off where a turn, a conversation or a request ends and
nothing follows, and in Service also because deployments in which no instance may
start are among those checked.

## 5. Fairness

`TasksFinish` (AuthCoordination): weak fairness of what each actor does of its own
accord (`Advance`): the OAuth calls and the backend have timeouts, a device code
expires after 15 minutes, a command ends with its operator's answer or an
interruption, sleeps are finite. Strong fairness of `AcquireLock`, since the lock is
free again and again while others pass it on: `flock` queues its waiters, and
without this no file lock promises anything. No fairness for failures, expiry,
new requests, cancellation or crashes.

`EveryTurnCounted` (TurnMetrics): the backend's stream comes to an end, because
codex-api ends every stream with a completion or an error (idle timeout) as long as it
is polled, and the server drops a stream that it has read to its end. It is polled only
while the client reads, and nothing times out a client that neither reads nor hangs up:
the property therefore has the premise `<>[](t \notin stalled)` for the turn it is about.
No client is assumed to read on or to hang up, and other clients may stall for ever.

`ReachableAgain` (Service): weak fairness of each instance's `Listen`, which is to say
that a process that runs comes further and that one that has ended is started again,
as the sidecar's and Kubernetes' restart policies do. None for kills, clients or
requests. The property assumes `<>[]Alone`, that from some time on at most one
instance is starting: two that start in lockstep can remove each other's fresh
socket for ever, and TLC shows that behaviour when the assumption is taken away.

## 6. Where code and documentation disagree

Each is a run that must find the violation.

1. `StaleFailureHarmless`: `mark_unauthorized` (src/auth_recovery.rs:68-88) checks
   the manager and writes the latch in two steps. The comment says that a response
   to replaced credentials is ignored; a request held up between the two steps
   overwrites the rejection of a newer credential, and `/ready` calls that one
   accepted.
2. `CreatedNamesRoutedModel`: the quota event precedes `Started`, so
   `response.created` names the requested model; a test says "the routed model,
   not the requested one" and starts its turn with `Started`.
3. `BlocksSeparated`: a boundary is announced by the index of a summary part in its
   own item, so there is none between two reasoning items, and their texts run
   together in Chat Completions, which the comment on `ThinkingBreak` rules out.
4. `NoPartDisappears`: Chat's `content_text` (src/openai_chat.rs:215-228) keeps the text
   parts of a system, developer, assistant or tool message and drops the others, where the
   comment on the content (src/openai_chat.rs:69-71) says that such parts are "rejected
   rather than silently disappearing". The run has a developer message with an image.
   `SaidIsSent` states what is translated, and leaves these parts out (`Translated`).

Observations that no run checks:

- A default family that could not be resolved is remembered under "codex" for as long
  as the process lives, next to the group it was a copy of.
- A recovery whose first step cannot take the lock marks the credential as rejected,
  although the comment in auth.rs says that reload and refresh must have been
  exhausted.
- A turn stays in flight after `Done` until its stream is dropped, where the comment
  on `start_turn` reads as if `Done` closed it.
- The README's table promises `finish_reason: "length"` for a turn that was cut short
  (README.md:354); `apply` sends `stop` or `tool_calls` (src/openai_chat.rs:366).
- `limits` is documented as the quota of the most recent turn (src/metrics.rs:74); it
  is that of the turn whose stream was polled last (src/metrics.rs:178).
- A request without tools and one with an empty list are the same body to the backend
  but have different cache keys.
- The socket listens from `bind` on (src/serve.rs:232) and is given mode 0600 afterwards
  (238), so with a permissive umask a connection that is queued in between is served, at
  242, without a key. "The file permissions *are* the access control" (src/listen.rs:6)
  and the README's "Der Socket wird auf `0600` gesetzt" (README.md:467) do not mention
  that moment; the comment at src/serve.rs:235-236 says that the file does not exist
  before the bind. `LetIn` names it as its one exception (`early`).
- The picker offers a slug as it stands (src/models.rs:193-197) and `wire_model` reads an
  id up to its first colon (82-85): a slug with a colon would be offered and reach another
  model or none. No slug of today has one, and nothing checks it; `PickerIsTrue` has it as
  a premise.
- A client that stops reading without hanging up keeps its turn in `inflight` and its
  stream of the backend open, since nothing times out a write.
- A starting instance takes any socket for stale and removes it, also one that a live
  instance serves, which nobody reaches from then on.
- The limit on the sum of an answer's images (64 MiB) never decides: the limit on the
  whole answer (32 MiB) is reached before.

## 7. Proofs

All theorems hold for every value of the constants that satisfies the named
assumptions; TLC evaluates those assumptions in its runs.

**AuthCoordinationProofs** (assumptions `ActorsAssumption`: the kinds of actors are
disjoint and every task lives in a pod; `BoundsAssumption`: `MaxCred` is positive
and the switches are Booleans).

- `TypeCorrect`: `TypeOK`.
- `LockSafe`: `LockDiscipline`, inductive on its own.
- `ReuseSafe`: `ReuseOnlyAfterLoss`. It is not inductive: one has to know what is
  where while a refresh is under way. `StoreInv` says it: only issued credentials
  are spent; a rotated credential is held exactly between rotation and saving; under
  the lock a reloaded cache agrees with the disk; between rotation and saving the
  disk holds the spent credential and the one about to be saved is the youngest,
  and at all other times a spent credential on disk is a lost one. The lock
  discipline makes the holder of a rotated credential unique.
- `RotationSafe`, `RejectionSafe`: `NoNeedlessRotation` (what is rotated was due, when
  `auth()` does it, or refused, when a recovery does) and `RejectionIsTrue`, from
  `RefusalInv`: tokens stay due and refused once they are, so a 401 is as true when it is
  handled as when it was sent.
- `ReplaySafe`: `BoundedReplay`, from `ReplayInv`, which ties the number of
  attempts to the recovery step.
- `StoreRefinement`: `StoreIsAtomic`. The store's credential is the one about to be
  saved if there is one, else the one on disk, so a rotation takes effect when the
  authority performs it and saving is a stutter.

The action properties need a second strengthening, `StepInv`, on top of what is known
by then (`Known`): a refresh that failed for good failed with a spent token; nobody
has seen a credential that is rotated and not saved yet; until the lock is dropped the
cache agrees with what was saved under it; and while `auth` is under way after the
refresh step, the credential that got the 401 is not the stored one. It is inductive
because what comes to the disk is either newly issued or the one rotated credential
that nobody has seen.

- `FreshSafe`: `FreshTokenAfterRefresh`.
- `SignInSafe`: `SignInOnlyWhenNeeded`.
- `SuccessSafe`: `StaleSuccessHarmless`. A restart forgets the latch with everything
  else, which the property names as the other way in which it is taken back.

**SequenceFacts** has what the proofs about logs need: what `FoldLeft` and `FlattenSeq`
make of a sequence with one entry more (`FoldAppend`, `FlattenAppend`, `FlattenLate`).
Both are defined by CHOOSE of a recursive function, so it has to be shown first that
such a function exists and that two of them agree (`StepsExist`, `StepsAgree`,
`PartsExist`, `PartsAgree`). That is induction, and the library's induction theorem
takes an operator as a parameter; `SetInduction` therefore says it of a set of numbers
and gets it from the least number outside of it. The operation that is folded, `Op`, is
a constant of the module, and a module of proofs takes the facts with INSTANCE for the
operation of its own. The second half is about lists made part by part, which is how
`to_wire` makes a request: what the first k parts give (`UpTo`) grows with k
(`UpToGrows`), depends on the first k parts alone (`SameUpTo`), every part has a place in
the whole (`Place`), the whole has what its parts have (`RangeFlatten`), and to map or
leave out entries part by part or in the whole is the same (`FlattenJoined`).

**SurfacesProofs** (`TurnAssumption`) is about both directions of a turn's answer. Its
first part is about the Responses surface: `SettledSafe`, that is `SettledItems` for
turns of any length and order; the invariant it needs is `SlotIsStandIn` (`SlotSafe`),
that what is remembered for replacement is a stand-in. Every helper
has a lemma that it is `Sound`: from a good state it leads to a good one and only
adds items or puts a reasoning item in the place of a stand-in. `apply` is a
composition, and soundness composes. `EndSafe` is `NothingAfterTheEnd`: every helper
but the two that end a turn (`Complete`, `FailTurn`) leaves a stream without a
terminal event as one without, those two append it last, and the invariant says that
a stream with a terminal event has failed or its turn is over, so nothing is rendered
any more. It also says that `response.completed` is out exactly if the turn is over and
has not failed.

- `ClientSafe`: `ClientFollows`. The invariant (`ClientInv`) is the property itself, but
  on a state it says too little of a helper, which starts in the middle of a handler.
  So each helper has a lemma that the events it sends lead the client from what it knew
  in the first state (`Seen`) to what it should know in the second, one `Read` for each
  event; `apply` is a chain of such steps.
- `LosesNothing`: `NothingLost`. `TextInv` says that the text of the output with the
  open item (`Told`) is what was handled of the turn, for messages and for calls alike;
  each helper adds one delta or none. The case that is not plain is a finished
  reasoning item that replaces an item in the middle of the output: texts have to be
  unaffected (`DeltasReplaced`).
- `Replayable`: `ReasoningReplayable`. It needs to know where the reconstruction is:
  `ReasonInv` says, for a backend that is orderly, that the reasoning in the output is
  the reasoning received, and that what is not verbatim yet is nowhere while the backend
  is not thinking, is the open item while nothing else has begun, and is the one at the
  remembered place afterwards (`Reasoned`).

**ChatStreamProofs** (`TurnAssumption`): `DoneSafe` and `ModelSafe`, that is
`EndsWithDone` and `OneModel` for turns of any length and order. Both are about the
log, so one lemma says what appending a chunk does to it, and every helper keeps a log
`Clean` (no `[DONE]`, one model) or closes it. The invariant ties the log to the phase
of the turn: nothing is out before `Started`, which therefore names the model of every
chunk, and the log is closed exactly when the turn is over or has failed. Two more
properties are about what the log says to its reader:

- `StreamAgrees`: `StreamAgreesWithResponse`. `Faithful` is the invariant: the log, read
  with the client's own fold (`ReadChunk`, which tells calls apart by their index alone),
  gives the text, reasoning, calls and finish reason of the state. The property is about
  what the one-piece message has as well: text, calls and finish reason.
- `ReasoningSafe`: `ReasoningText`. `SpeechInv` ties the state to the turn: text and
  calls are what was handled, reasoning is the thinking with a break for each boundary
  that came after its first text (so there may be two in a row, or one at the end, when
  boundaries come without text), and the state has failed exactly if the turn holds a
  failure.

The second part of **SurfacesProofs** takes an instance of
ChatStreamProofs and shows that both surfaces together start and step as each of them
does alone, which brings `DoneSafe`, `ModelSafe`, `StreamAgrees` and `ReasoningSafe` to
`BothSpec`, the specification that the run Surfaces checks. `Agreement` is
`SurfacesAgree`, from `BothInv`: the invariants of either side tie either state to the
same turn, so the two agree on text, calls, failure and completion without a step-by-step
comparison; only the model does need one (`SameModel`), since it is overwritten rather
than accumulated.

**TurnMetricsProofs** (`MetricsAssumption`: finitely many turns, a positive window):
`TypeCorrect` (`TypeOK`: no band outgrows its window) and `CountersCorrect`
(`CountersAgree`: each counter is the cardinality of the set of turns it counts), and
`WindowsCorrect` (`WindowsHoldLatest`): to push a sample and drop the oldest of a full
band gives the last entries of the longer list (`PushLatest`), whether a turn has a
first token or not (`WithTokenAppend`).

**QuotaLimitsProofs** (`QuotaAssumption`: named groups are not called like the
account's or the default family, lengths and reset times are positive): `OwnSafe`,
`AliasSafe` and `SourcesSafe`, that is all three properties of QuotaLimits for any
groups, numbers, sets of families and overlapping turns. They rest on one lemma,
`Projection`, on what `from_headers` makes of a response; the invariant adds that
every response that waits was made of good books, though of older ones.

**ServiceProofs** (`ListeningAssumption`: `Nobody` is no instance, deployments give
every instance a transport; `ImageAssumption`: limits and sizes are numbers, forms and
answers are sequences) proves all of Service's safety properties for any instances,
deployments, requests, answers and limits.

- `BilledSafe`: `BilledOnce`, from `BilledInv`: as long as the request can be sent
  again, nothing has been billed.
- `BodySafe`: `WholeBodyRead`, from `ReadInv`, which ties what has been dispatched to
  `GenerateStatus`, and the lemma `PassedIsWhole` on `decode_json`: reading one more
  than the limit is what makes a document at the limit distinguishable.
- `UploadsSafe`: `UploadsArrive`. The checks of `edit` look at one field and at what came
  before it, the property at the form as a whole. `FieldsRead` says what is known after
  the first k fields; `RefusedField` shows that a field that is refused makes the form
  improper whatever follows, because totals and the number of images only grow and
  names stay taken (`SumRises`, `PlacesGrow`), and `WholeForm` that a form read to its
  end is proper exactly if `edit` sends it.
- `AnswerSafe`: `AnswerFaithful`. The checks of `response_json`, one image after the
  other, in the encoded and in the decoded form, refuse exactly what does not fit
  (`AcceptedFits`); `AnswerInv` ties the id that is kept to the last attempt.
- `EntrySafe`: `LetIn`. The step that matters is a connection, which is queued from the
  bind on. `ListenInv` says what is known of the instances: one that runs has a validated
  configuration (`RunsValidated`), it is bound to the port only if configured for TCP
  (`PortHeld`), and a socket that belongs to an instance past `Tighten` has mode 0600
  (`PathHeld`), although mode and removal go by the path and not by the owner. So whoever
  is bound has a private socket or keys, or is between bind and `Tighten`
  (`BoundGuarded`), and who waits in a queue came in one of these three ways (`EntryInv`).
  The third is the exception that the property names, so the theorem says that there is
  no other.
- `FileSafe`: `FileKept`; `FileStops` says that no instance is past `Look` on the
  socket's way while a real file is there.

**ConversationProofs** (`CatalogueAssumption`, as in section 3; `ConversationAssumption`:
a content is null, a string or an array of parts, what a client has to say is neither an
answer nor a tool's result, and an answer is a string or null) proves all of
Conversation's properties for conversations of any length, any contents, catalogues and
clients. A request is a function of the conversation, made entry by entry
(`InstructedBy`, `SaidBy`), so the invariants say of which conversation a request was
made, and the rest is about lists. `TalkRight` says what the conversation is: answers
hold no arrays, and the result of a call stands after the call.

- `SaidSafe`: `SaidIsSent`, which says of every entry that what a surface translates
  (`Translated`: on the Chat surface not the parts besides text of roles other than the
  user's, see section 6) arrives in its place. `Asked` says that while a turn waits, the last request of
  every surface that took it is the request for the whole conversation. What an entry
  says stands in its part of the request (`AnswerSays`), that is refused if it cannot be
  said, and a part of an earlier entry stands before one of a later (`ResultAfterCall`).
- `RequestsSafe`: `RequestsAgree`. Entry by entry both surfaces give the same part but
  for the reasoning (`SpokenParts`); to leave it out of every part is to leave it out of
  the whole.
- `CacheSafe`: `CacheStays`. `LastMade` says that the last request of a surface is the one
  for the first entries of the conversation as it is now, which holds across any number
  of entries, failures and refusals in between. What a longer conversation says begins
  with what a shorter one says, and its instructions are complete once anything
  that is not an instruction was said (`LaterSaysMore`); the key is
  made of these and the model alone.
- `PickerSafe`: `PickerIsTrue`, from `RightOffers` for the first k models of the
  catalogue, and from `LastMade` for what a turn asks for. What it says of the lengths
  and of what an id reaches has the premises `Coherent` and `Separable`; that a split at
  the first colon gives back a slug without one, and that two ids of one model differ,
  is `IdFacts`.

So every safety and action property of a run that passes is also proved, for all values
of the constants. Model-checked only is liveness (`TasksFinish`, `EveryTurnCounted`,
`ReachableAgain`), since neither fairness nor ENABLED is in the prover's reach. The four
properties that the code violates are shown by runs, as section 6 says.

## 8. What is not modelled

- What `/metrics` makes of the counters: ratios, percentiles and the Prometheus text
  (`snapshot`, `prometheus`). They change nothing; percentiles and rounding are
  arithmetic that unit tests reach well.
- Plan, credits, promotions, display names and the order of quota groups.
- The parsing of addresses and command lines, and what the commands print.
- The bytes of image files (`raster_mime`), and the bytes of messages and calls.
- The text of messages and logs, JSON layout, timing values.
- `scripts/measure.py`, the fixtures and the recorded data.
- A file that appears at the socket's path between the look and the removal, or a
  symbolic link there: the look and the removal are two steps, but only instances of the
  service act on the path.
- The blocking pool that waiters for the lock stand in, and its exhaustion.
- What a tool's result holds.
- How `AuthManager`, the authority and the backend work inside: they are external and
  modelled from how this code uses them.
