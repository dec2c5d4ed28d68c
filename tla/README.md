# A verification of the Couchbase C++ client

TLA+ models of the parts of this client whose correctness depends on the order
of events: transactions, from the operations of an attempt to the cleanup of a
crashed one and to those who read its documents meanwhile; the path of a
key-value command from `execute()` to its handler; and the pool of HTTP sessions
with the commands that share it. TLC checks the models on small instances; TLAPS
proves the safety properties, and that an attempt implements an atomic commit,
for any number of documents, operations, cleaners, commands and sessions.

`PROJECT.json` maps every definition to the lines it models, lists the runs
with their properties, a plausible defect for each property that the property
detects, the hazards of the code, and the theorems.

## The system

An application calls the public API (`couchbase/`, wrapped by `core/impl/`).
`core/cluster.cxx` owns one I/O thread with an `asio::io_context`
(`impl/public_cluster.cxx`), a bucket object per open bucket, and a pool of HTTP
sessions for the query, search, analytics and management services.

| Part | Source (under `src/core/`) | Model |
|---|---|---|
| Operation list of an attempt | `transactions/waitable_op_list.hxx` | `WaitableOpList` |
| Attempt: staging, commit, rollback | `transactions/attempt_context_impl.cxx` | `AttemptContext` |
| Unstaging, with its queue | `transactions/staged_mutation.cxx` | `AttemptContext` |
| End of an attempt, errors | `transactions/transaction_context.cxx`, `internal/exceptions_internal.hxx` | `AttemptContext` |
| Cleanup of an attempt | `transactions/atr_cleanup_entry.cxx`, `transactions_cleanup.cxx` | `AtrCleanupEntry` |
| Documents and ATR on the server | external, as the above use it | `TransactionStore` |
| Key-value command | `io/mcbp_command.hxx` | `McbpCommand` |
| Retries | `io/retry_orchestrator.hxx`, `impl/retry_reason.cxx`, `impl/best_effort_retry_strategy.cxx` | `McbpCommand` |
| Bucket: dispatch, deferral, sessions, close | `bucket.cxx`, `bucket.hxx` | `McbpCommand` (one node) |
| Session: callbacks, buffers, stop | `io/mcbp_session.cxx` | `McbpCommand` (without the handshake) |
| Transaction reads, `get_multi` | `attempt_context_impl.cxx` (`do_get`), `active_transaction_record.cxx`, `get_multi_orchestrator.cxx` | `TransactionGet` |
| What an attempt promises | (the abstract specification) | `AtomicCommit` |
| HTTP session | `io/http_session.cxx`, `io/http_session.hxx` | `HttpSession` |
| Pool of HTTP sessions, HTTP command | `io/http_session_manager.hxx`, `io/http_command.hxx` | `HttpSessionManager`, `Http` |

What is left out is listed, with the reasons, under *Not modelled*.

## The models

### WaitableOpList

The operations of one attempt and the thread that ends it. A step is a critical
section of `mutex_`; `pc` says where each operation is, and `count`,
`in_flight`, `allow_ops`, `mode` and `nodeSet` are the members of the class. A
condition variable is the set of waiters that a `notify_all` has reached
(`notified`); waiters may also wake spuriously, but nothing relies on it.
`AdmitKv`/`CallCounted` are `increment_ops` and `get_mode` in the order in which
the callers in `attempt_context_impl.cxx` use them (reads, insert, replace and
remove look at the mode first; replica reads and queries are counted first),
`SetQueryMode` is `set_query_mode`, `Complete` and `CallbackReturns` lower the
counters, and `WaitAndBlockOps` is the wait of `commit()` and `rollback()`.
Callbacks run on the single I/O thread and may start operations there
(`onIo`, `IoFree`).

### Transaction = TransactionStore + AttemptContext + AtrCleanupEntry

One attempt of a key-value transaction, any number of cleaners, and other
transactions on the same documents.

- `TransactionStore` (external: the server): documents with a staged mutation,
  the attempt's ATR entry, CAS, the clock. A request and its answer are one
  step. A request can fail, end ambiguously having been applied or not, and, on
  the ATR, be applied later (`late`). CAS values are not numbers: `casOf[h]` is
  the set of documents whose current CAS the holder `h` knows. Another
  transaction's staged mutation has an entry that is still under way (`"other"`)
  or none any more (`"orphan"`).
- `AttemptContext` (the client): `Operate(d)` is a step of insert, replace or
  remove: choosing the ATR, making the entry PENDING, staging, with each class
  of error and each retry. A foreign mutation stops the operation as long as its
  entry exists (`Blocked`); one without an entry is staged over. `Commit`,
  `EndAttempt` and `Unstage(d)` go through `atr_commit`, its ambiguity resolution, the unstaging queue with
  `MAX_PARALLELISM`, `atr_complete`, and the rollback with
  `expiry_overtime_mode_`. The result comes from `handle_error`, `merge_errors`
  and `finalize`. The client may crash at any step.
- `AtrCleanupEntry`: a cleaner reads the entry, then reads and writes one
  document after another, then removes the entry. Each of these is a step, so
  the client, other cleaners and other transactions act in between.

`committed` and `fate` are history variables: whether the entry was ever
COMMITTED, and whether each staged mutation was published or undone.

`AtomicCommit` says what this is for, in four variables: a decision, the
documents the attempt would change, what a reader of each document sees, and
what the application knows. All documents change at one step, `Decide`; success
is told only after it, failure only without it, and after "unknown" it may still
come. `Transaction!Promise` instantiates it: the decision is that the entry has
been COMMITTED, and a reader sees a mutation when it is published, or staged with
a COMMITTED entry. That the mapped steps are steps of `AtomicCommit` means that
publishing documents one by one, repeating it after a crash and removing the
entry are all invisible.

### TransactionReads = Transaction + TransactionGet

Another transaction that reads the documents again and again. `GetDoc` and
`GetEntry` are the two lookups of `do_get`, between which the attempt goes on;
without an entry the document is looked up once more (`resolving` is
`resolving_missing_atr_entry`). `get_multi` runs one `do_get` per document in
parallel; `LastResult` is `disambiguate_results`, `ResolveReadSkew` looks at the
record and goes through the phases of `get_multi_phase`; a staged removal that it
copies gives an empty result, which is present (`Copied`). `reset_and_retry` clears
`results_` and the later results are assigned to elements that are no longer
there: undefined behaviour, modelled as the loss of the results (`cleared`) or
the end of the process. `since` and `blind` are history variables: whether the
attempt was committed when the call started, and whether a lookup of the record
failed.

### McbpCommand

Commands (`cmd[c]`: handler, opaque, session, both timers, cancellation token),
the sessions of one node (`state`, `lastOpaque`, `subs` = `command_handlers_`,
`pending` = `pending_buffer_`), the bucket (`slot`, `members`, `deferred`,
`closed`, `configured`) and what the server has (`wire`). `run[t]` is the frame
of a thread inside a dispatch: execute, map_and_send, send_to, send,
write_and_subscribe are separate steps, since other threads may act between
them. With `CallerThread` the first dispatch and `close()` run on threads of the
application; otherwise all runs on the I/O thread, as it does when operations
are started from callbacks. `sent` and `open` are history variables: the
requests for a command, and those that the server has not refused.

Time is abstracted to the order in which timers expire. A timer has two steps:
it becomes due (after which cancelling it has no effect) and its handler runs. A
deadline that was cancelled differs from one that has passed: the back-off of
`handle_unknown_collection` compares with its time, which a cancelled timer keeps.

### Http = HttpSession + HttpSessionManager + the I/O thread

Sessions (`connected_`, `stopped_`, `keep_alive_`, the idle timer, the two
callbacks, the output buffer, and the requests on the connection), the three
lists of the pool, and per command its handler, session and deadline. `pc[c]` is
where the thread of the application is inside `execute()`: it checks a session
out, starts the deadline, sets the command's session, tests `stopped_`, subscribes
and writes in separate steps. The rest runs on the I/O thread, one handler at a time, save that
`stop()` is a step of its own: `cancel()` calls the handler, which checks the
session in, and stops the session afterwards, and other threads may check it out
in between (`toStop`). `stop()` calls the connect callback, which may go on with
a new session (`ConnectAgain`), and the callback of the current response. Its
`on_stop` takes the session out of the lists. A session nobody refers to stops in
its destructor (`Destroy`).

## What is checked

Twelve runs: seven that pass and five in which TLC shows that the code does not
do what one of its comments or documents says. Deadlock is not checked: the
system may really stop, when the attempt has ended or no command is left.
`RunnerProceeds`, `OpsAnswered`, `ExpiredReturns` and the two
`EveryCommandAnswered` say instead that nobody is left waiting.

| Run | Instance | Shows |
|---|---|---|
| `op_list` | 1 KV operation, 1 replica read, 2 queries, failing BEGIN WORK, callbacks that start operations | counters are exact; commit and rollback run alone; one BEGIN WORK and one query at a time; a counted read of the mode is right; no lost wakeup |
| `op_list_reset` | 2 queries, BEGIN WORK fails | *violated*: rollback is not "allowed to function properly", it waits for ever |
| `txn_faults` | 2 documents, 2 faults, crash, 2 cleaners | an atomic commit (`AtomicPromise`); committed mutations stay readable, results are true, entry before staging; an expired attempt returns, a committed one is published, the entry is removed |
| `txn_others` | 3 calls, 1 fault, another transaction, staged content in memory | no document is written on which another transaction with an entry has staged a mutation, and no body where the attempt has staged nothing, with the exception below |
| `txn_reads` | 2 documents, 1 fault, crash, a cleaner, a reader with `get` and `get_multi` | no dirty reads; a read that starts after the commit sees it |
| `txn_rollback` | 1 fault | *violated*: a rollback "with no mutations" leaves a staged one |
| `txn_lookups` | 1 failing lookup of a cleaner | *violated*: a committed mutation is lost to readers |
| `txn_hang` | 1 fault, parallel operations | *violated*: an operation, and the attempt, never return |
| `kv_command` | a cancellable read in a named collection and a write in the default one, 2 sessions, refused requests, close | one answer, truthful timeouts, own callbacks only, no blind resend, one path |
| `kv_live` | a write in a named collection from an application thread, 2 sessions, 1 configuration change, refused requests | every accepted command is answered; no blind resend, one path |
| `kv_threads` | a write from an application thread | *violated*: a write reported as an unambiguous timeout is sent afterwards |
| `http` | 3 commands, one bound to a node, one whose answer may ask for a retry, 2 sessions, 1 configuration change, close | one answer, one command per session, no answer to the wrong command, nothing written late; everything is answered and no session leaked |

The passing runs reach these numbers of distinct states: `op_list` 90,879;
`txn_faults` 1,041,289; `txn_others` 7,428,855; `txn_reads` 7,527,597;
`kv_command` 3,638,590; `kv_live` 230,437; `http` 1,899,910. Each takes less than
three minutes with two workers. `op_list` was also run with two KV operations
(1,248,319 states), with the same results.

**Bounds.** Two documents are the least with a partially unstaged attempt and
with parallel staging; two cleaners the least that race each other; two faults
the least for an ambiguous request whose repetition fails as well. `MaxCalls`
bounds the mutations the application asks for; the same document may be
mutated twice. Two sessions are the least for a command that outlives its
session; `ConfigCount` and `MaxConfigs` bound the configurations, and `MaxOpaque`
the requests of a session. A refused request is repeated with a new opaque, and an
operation in a named collection needs one for the lookup first. With three opaques
`kv_command` has a write, in the default collection, that is refused and sent
again, next to the read with its lookup, and with four `kv_live` has such a write
in a named collection. Configurations are in `kv_live` and `kv_threads`: in
`kv_command` they would multiply the states without a new way to reach a session.
In `kv_command`, the read and the write share one session, so their opaques are
neighbours. In `http`,
two sessions and three commands are the least for a session that a late deadline
of its first command stops under its second while the third needs one. When the
bound on sessions is reached, `ConnectAgain` leaves the command to its deadline.
The proofs have none of these bounds.

**Fairness.** `WaitableOpList`: threads run, requests are answered or time out,
notified waiters wake. `Transaction`: the client's and cleaners' threads run, a
late request arrives or is lost, time passes, and the application's lambda
returns; other transactions need do nothing. `McbpCommand`: a thread does not
stop inside a call, time passes, and the deadline's handler gets its turn.
The last is strong fairness, because `IoFree` is false while the I/O thread
handles something else; asio runs due handlers in order, so no handler is
passed over for ever. `Http`: a thread inside `execute()` goes on, timers expire,
and the I/O thread runs what is queued on it; nothing is assumed of the server,
of connections, or of close().

**Assumptions that matter.**

- Requests of one client to the ATR are served in the order sent, so at most
  one late request is outstanding.
- `Prompt = TRUE` in all runs: an attempt counts as lost only after its client
  has stopped. A client that runs on long after its expiry is outside the runs.
- Parallel operations of one attempt (`Concurrent`) are in `txn_hang` only:
  `EntryBeforeStaging` does not hold with them, since
  `select_atr_if_needed_unlocked` takes a chosen ATR for a written one. The
  theorems of `TransactionProofs` hold with them. `CommittedIsVisible` and
  `AtomicPromise` hold with them as long as no other transaction mutates the
  same documents: one that finds a staged mutation and no entry may take the
  document over, and the attempt commits without it.
- `ReadsSeeCommit` leaves out reads whose lookup of the record failed: `do_get`
  treats every error like a missing entry, and returns the body from before the
  committed transaction (`attempt_context_impl.cxx:3467`). Both properties of
  reads leave out what `get_multi` returns after `reset_and_retry`.
- `EveryCommandAnswered` and `SessionsEnd` of `Http` leave out commands that
  `retry_http_request` sent again: `handler_` was moved out before, and the
  deadline cancelled, so the second answer finds nobody to call, and the session
  stays checked out (`http_command.hxx:315`).
- `OthersUnharmed` does not say that nothing of another transaction is ever lost.
  It leaves out `RepeatsRemoval`: `remove_doc` sends no CAS, so its repetition
  after an ambiguous answer can remove a newer document. It rests on `Prompt`:
  when a running attempt is taken for lost, the CAS-zero mode of `commit_doc` can
  publish a foreign mutation. And it protects a staged mutation only while its
  entry exists: `check_atr_entry_for_blocking_document` lets an operation stage over
  one whose entry is gone, COMPLETED or ROLLED_BACK.
- The mutations of other transactions are inserts and replaces, and nobody writes
  the documents outside transactions, so the CRC that cleanup compares
  (`atr_cleanup_entry.cxx:233`) always matches.
- A call of `invoke_handler` is one step; a data race inside it is not modelled.
- The server sends well-formed frames. A frame that cannot be parsed stops the
  session with `key_value_temporary_failure` (`mcbp_session.cxx:2224`), which
  permits a resend of writes: `NoBlindResend` would not hold.
- A session whose bootstrap fails is stopped and then removed from the bucket;
  in the code the order of the two depends on where the bootstrap fails.

Observed while modelling, without a run of their own:

- A KV operation that read the mode before BEGIN WORK may send its request after
  it (`attempt_context_impl.cxx:236`), and an operation started from a callback
  can block the only I/O thread in `get_mode()` (`waitable_op_list.hxx:93`).
- `resolve_read_skew` does nothing when the record itself is missing
  (`get_multi_orchestrator.cxx:359` has no `else`): the call would never return.
  Nothing in the client deletes a record.
- A deadline that is due when the answer arrives stops the session afterwards,
  even if another command has it by then (`http_command.hxx:145`). That command
  ends with an error; no answer goes to the wrong command.
- `execute()` starts the deadline before it sets the session of the command
  (`http_session_manager.hxx:536` and `541`). A deadline that passes in between
  calls the handler, which dereferences the null `session_`
  (`http_command.hxx:199`), and the process ends; in the model no behaviour goes on
  from there (`Cancel`).
- The callback of `connect()` sends the request with `sessions_mutex_` held
  (`http_session_manager.hxx:719`): if the request cannot be encoded, the
  application's handler runs under the lock.
- `execute()` on a closed bucket returns without calling the handler
  (`bucket.hxx:86`); `cluster::execute()` looks first, so only a close() in
  between leads there.

## What is proved

Each proof module has an inductive invariant `IInv`, a lemma per action, and
theorems that follow from `Invariance == Spec => []IInv`. The properties by
themselves are not inductive; the invariant adds what the code relies on without
saying so.

`WaitableOpListProofs`, for any finite sets of operations: `TypeCorrect`,
`CountersAreExact`, `RunnerIsAlone`, `OneSetter` (one BEGIN WORK), `OneQuery`,
`CountedReadsRight`, `RunnerNeverWaitsForNode`, `ModeNeverChangesBack`. `IInv`
adds to the checked properties which kind of operation can be at which place,
that operations are blocked exactly when the runner has passed its wait, and that
a known node means QUERY mode; the counters need lemmas on the cardinality of a
set that one operation joins or leaves.

`TransactionProofs`, for any documents, cleaners, faults and calls, with
operations in parallel or not, and with or without `Prompt`: `TypeCorrect`,
`Atomicity`, `ResultsAreTrue`, `CommitsAreFinal`. The heart of `IInv` is the
notion of a *doomed* attempt: one that is not committed and that no request,
late or still to be sent, can commit. An ABORTED entry, a cleaner's copy of
one, an abort on its way, the phases of the rollback, an undone mutation, and
every result but success and "ambiguous" imply it.

`TransactionPromise` builds on it: `Refinement`, that the attempt implements
`AtomicCommit`, and `CommittedSeen`, for any documents, cleaners, faults and
calls, with crashes, and with attempts taken for lost while they run. Both assume
`Sound`: cleaners' lookups do not fail (`txn_lookups` shows why), and parallel
operations are not mixed with other transactions on the same documents. The
invariant has to say why nothing gets lost between the pieces: while the attempt
may still be committed, every document on its list carries its mutation and no
other transaction holds the CAS to overwrite it; the COMMITTED entry lists what
the client staged; and whoever may remove the entry, the client or a cleaner, has
seen every listed document published.

`TransactionOthersProofs` is about the same attempt among other transactions, for
any documents, cleaners, faults and calls.

- `EntryComesFirst` assumes `Prompt` and `~Concurrent`. A cleaner that takes a
  running attempt for lost may remove the entry between two operations, and a
  parallel operation stages while the first still writes the entry. The invariant
  `EntryFirst` says that one operation runs at a time, none after an error, and
  that an attempt with an ATR has its entry unless the operation that writes it
  is the one running.
- `ReportedStateIsTrue` assumes `Shielded`: `Sound`, and `Prompt` where other
  transactions mutate the same documents; alone on its documents, the attempt may
  be taken for lost at any time. `StateIsTrue` needs to know what a missing
  document or a CAS mismatch tells the client. `RInv` says that the client's CAS
  of a staged document stands for its own mutation, or for the document after a
  cleaner undid it (`CasRight`), and that an item that the rollback has done with
  is undone (`RolledRight`).
- `OthersAreUnharmed` assumes `Sound` and `Prompt`: when a running attempt is
  taken for lost, `commit_doc` in its CAS-zero mode may publish what another
  transaction has staged. It excepts the repeated removal and foreign mutations
  without an entry, as said above. `UInv` says why neither the CAS-zero mode nor
  the first removal without a CAS meets a foreign document: the client knows the
  CAS of all it staged until it unstages (`KnowsStaged`); it repeats `commit_doc`
  after an ambiguous answer only on a document that it has published or that
  carries its mutation (`CommitFlight`); a document read for staging carried no
  foreign mutation with an entry (`NotBlocked`); and a cleaner's copy is the
  document as long as its CAS is (`ReadRight`).

`TransactionReadsProofs`, for any documents, cleaners, faults and calls of the
attempt and any number of reads, when no third transaction mutates the documents
(`~Foreign`; the body a third one commits would be neither the old nor the new
one of the attempt): `NoDirtyReads`, also with failing lookups and parallel
operations, and `ReadsSeeTheCommit`, with cleaners whose lookups succeed
(`~LookupsFail`; `txn_lookups` loses a committed mutation, which no read can then
see). A read spans several requests, so the invariant speaks about what has
arrived: before the commit only bodies from before it (`CleanResults`, which rests
on `BodiesRest`: the documents are what they were); after it, for a read that
started then, the new body, or a mutation whose entry is still to be looked up;
and a document that is looked up again, since the entry was gone, is published
(`Informed`).

`HttpProofs`, for any commands, sessions, nodes and configurations:
`AnsweredAtMostOnce`, `SessionsAreExclusive`, `AnswersReachTheirCommand`,
`NothingLateIsWritten`. `OwnAnswer` is not inductive by itself: a session could
have two requests on its connection. `IInv` says that a session has one holder,
and none while it is idle (`Owners`); that its callbacks belong to its holder or
to a command that needs them no more (`Callbacks`); and that a session that is
neither stopped nor about to stop carries nothing but the one request of its
holder, in the output buffer or on the connection (`Clean`). The exemption of
sessions about to stop is the window that `cancel()` opens, and the proof shows
that nothing is read or written in it: the I/O thread, which would do that, is
the one that is about to stop the session.

`McbpCommandProofs`, for any commands and sessions: `HandlerCalledOnce`, and,
when execute() and close() run on the I/O thread (`~CallerThread`),
`UnambiguousIsFinal`, `ReadsNeverAmbiguous` and `CancelIsOwn`. `IInv` says that
a command without opaque was not sent; that an answered command has neither a
handler nor an armed deadline; that queues, callbacks and frames belong to
accepted commands; and (`OpaqueRight`) that a session never reuses an opaque, so
the pair (session, opaque) of a command names its own callback, except between
`send_to` and `send`, where the command already has the new session and still
the old opaque. On the I/O thread nothing can cancel the command in that window;
with `CallerThread` something can, which is why these three theorems assume its
absence and why `kv_threads` fails.

`McbpCommandTracks` builds on that invariant, for any commands, sessions and
threads, with and without `CallerThread`: `TypesAreKept`, `NeverResentBlindly` and
`OneTrackOnly`. `TInv` follows each command. It is in at most one of six places:
the deferred queue, the queue being drained, a callback of a session, a handler
that is due, a back-off, the dispatch of a thread (`OneTrack`). At most one request
of its operation is on its way, in the pending buffer, on the wire or about to be
written, and only while its callback waits, or nobody does any more
(`OneRequest`). A write that has a request the server has not refused is nowhere
but at that callback (`OneOpen`), so whatever sends it again has first seen the
refusal. `SingleTrack` counts the places, which the proof does not need; it
follows from `OneTrack` with a few lemmas on cardinality.

Only model-checked: the liveness properties (`RunnerProceeds`, `OpsAnswered`,
`ExpiredReturns`, `CommittedIsPublished`, `EntryRemoved`, `EveryCommandAnswered` of
`McbpCommand` and of `Http`, `SessionsEnd`), since the prover has no rules for
fairness and `ENABLED`. Every safety property of the passing runs is also proved,
under the assumptions named above. The runs themselves keep these: `txn_faults`
and `txn_others` have `Prompt` without `Concurrent`, `txn_reads` has neither
`Foreign` nor `LookupsFail`.

## Not modelled

- *Requests, answers, codecs, parsers, management operations, the public API*
  (`operations/`, `protocol/`, `impl/`, the `couchbase/` headers, the tools, the
  tests, third-party code): most of the lines of the repository. They convert
  arguments and bytes and hold no state between calls, so that there is nothing
  for a model checker to interleave; unit tests are the better tool. The models
  have what such a conversion can end with (an answer of each class, a failure
  to encode).
- *The sessions of several nodes* (`bucket.cxx`) and *configurations*
  (`io/config_tracker.cxx`, `topology/`): a command has one session at a time, and
  a new configuration is an event at any moment in `McbpCommand` and `Http`. The
  hazard at `bucket.cxx:516` is therefore not covered.
- *The handshake, reconnection and re-authentication of a key-value session*:
  `McbpCommand` has their outcome. When a write fails before the session is
  bootstrapped, `writing_buffer_` stays full over the reconnection
  (`mcbp_session.cxx:2236`), which the model does not show.
- *The agent API* (`agent*.cxx`, `crud_component.cxx`, `collections_component.cxx`,
  `mcbp/operation_queue.cxx`), a second path to the key-value session, and the
  *range scans* built on it; *row streaming* (`row_streamer.cxx`), which rests on
  the channels of asio.
- *The loop over attempts, client records and the threads of cleanup*: attempts
  share only the clock, and which cleaner takes an attempt is free in the model.
  Query mode is in the operation list only, since the server stages there.
- *Observe-based durability, replica reads of several nodes*: sequential polling,
  and the collection of answers under one mutex. *Cluster*: it starts and closes
  the parts that are modelled.
- *Streaming HTTP responses, the columnar build's dispatch deadline and deferred
  queue, DNS, telemetry, tracing, metrics, SASL, TLS, logging*: not part of what
  any of the properties is about.
