# NovariusIRC: models, checks and proofs

TLA+ models of the parts of NovariusIRC whose correctness depends on the order
in which things happen: asyncio tasks, bounded queues, timeouts, a server that
answers late, subprocesses, files that are replaced under a crash, and shutdown. Every
definition is translated from the code under `src/novariusirc/`; `PROJECT.json`
maps each to its lines.

To reproduce: `tlc -workers 2 -config Sender.cfg MCRateLimitedSender.tla` (and
so on, see the table of runs), `tlapm RateLimitedSenderProofs.tla`.

## The system

NovariusIRC is one process with one asyncio loop (threads only for feeds'
HTTP and a worker pool). Code between two `await`s is atomic; a step of a model
is such a stretch.

| component | state | operations | interacts with |
|---|---|---|---|
| rate-limited sender, `irc/transport.py` | queue, `_run` task, tokens | `start`, `stop`, `send`, `_run` | called by everything that writes to IRC; writes to the stream; `on_failure` closes the writer |
| life cycle, `core/client.py` | `writer`, `reader`, tasks, `_stop`, retry delay | `run`, `_connect_once`, `stop` | starts and stops sender, reader, event loop; called by signals, commands, the control socket |
| capability negotiation and SASL, `core/client.py`, `irc/capabilities.py` | offered, pending, active capabilities, `_sasl_*`, `_cap_end_sent` | `_handle_cap`, `_handle_authenticate`, numerics 001, 421, 43x, 90x, `ERROR` | reader; sends with priority, past the queue |
| channel and user state, `irc/state.py` | users, channels, members, `names_*` | `join`, `part`, `quit`, `rename`, `add_names`, `finish_names`, ... | written by the reader, read by commands, plugins, moderation |
| application events, `core/client.py` | `_event_queue`, `_event_task` | `_dispatch_application`, `_event_loop`, `_handle_privmsg`, ... | filled by the reader, runs commands, moderation and plugins, which await `send()` |
| batches, `irc/batches.py` | active batches | `start`, `end`, `clear` | reader |
| moderation, `core/moderation.py`, `core/moderation_store.py` | per-user status, mutes, bans; rows in the database | `check_message`, `apply`, `rename_user`, expiry, restore | event loop; sends kicks and modes |
| feeds, `core/feeds.py`, `modules/rss_announcer.py` | `seen_ids`, etag, poll lock, last announcement | poll, notify, save, subscribe | own tasks; subscribers await `send()` |
| plugins and modules, `core/plugins.py`, `core/tasks.py` | loaded plugins, started modules, hooks, tasks by owner | `load_all`, `load`, `unload_all`, `start_builtin_modules`, `trigger_hook`, `cancel_owner`, `shutdown` | event loop, commands, `async_main()` |
| isolated plugin worker, `core/plugin_worker.py` | a child process, its pipes, a lock | `start`, `request`, `on_unload` | called by commands and hooks of its plugin |
| storage, `core/database.py`, `core/backups.py` | database file, -wal, backup archives | upgrade, restore, backup | command line, start-up |
| control socket, `core/control.py` | the socket path | start, stop, request | command line, other instances |
| commands and roles, `core/commands.py`, `core/auth.py`, `core/database.py` | registered commands, role bindings in the database and in a cache | register, `dispatch`, `role`, owner bootstrap | event loop, control clients |
| start and shutdown, `__main__.py` | which parts are started | `async_main()` | all of the above |
| the rest: web API, configuration, logging, translations, wire format, command line | none of their own after the start | rendering, parsing, formatting | |

What is hard, and so what the properties are about:

* **sender**: a full queue, callers that time out or are cancelled while they
  block or wait, a writer that raises, `stop()` in the middle. What a caller is
  told must be true of the stream, every caller must be told something, and no
  window of time may see more lines than the flow control allows.
* **life cycle**: six ways to leave a connection, each with reader, event loop,
  sender and a `stop()` half way. Nothing may outlive its connection, no attempt
  may hang, `stop()` must end the bot.
* **negotiation**: LS in several lines, ACK, NAK, NEW and DEL in any order, SASL
  in between. One `CAP END`, never before SASL is done; both sides agree.
* **channel state**: a NAMES or WHO answer is a snapshot that arrives in pieces
  between other events. Members must be those who are there.
* **events**: handlers run later than the line they were created from, and may
  never return. State must follow the server, PING must be answered.
* **feeds**: a periodic and a manual poll, of which one goes on without the lock
  when another feed fails; a tag and a list of ids that are taken over, used and
  saved at different moments, with cancellations and crashes in between. Entries
  must be announced, and once.
* **moderation**: lines are judged after they were queued, under a nick that may
  have changed hands. Punishments must stay with the person, counts must reach
  their threshold, and a restart must restore what was in force. An edit of the
  rules is committed before the memory reads it back, which may fail.
* **commands and the worker**: roles change while others command; a request's
  answer may come late, badly or never, and an unload, a cancellation or a
  second caller may meet it. Answers must belong to their requests, the child may
  not work for nobody, authority must be what the database says.
* **storage**: SQLite's log beside the file, copies, renames and unlinks with a
  crash between any two, and two commands within one second. No committed row,
  copy or archive may be lost, and what a broken restore leaves must be known.
* **start and shutdown**: every start can fail half way, while control clients
  and hooks run commands of what is going down; a `CancelledError` out of a
  plugin's or a module's code passes every `except Exception`; two instances meet
  on one socket path. What was begun must be ended once, and the end must come.

`PROJECT.json` lists all hazards with their lines, those that no property covers
yet included.

## Modules

| module | models | state and actions in the code's terms |
|---|---|---|
| `TokenBucket` | what the flow control promises (abstract) | `level` units of at most `Capacity`; `Elapse`, `Pay`, `Refill`; an observer opens a window at any moment and counts the lines in it |
| `RateLimitedSender` | `irc/transport.py` | `call` is where each `send()` stands, `queue`, `putters` and `ready` are `asyncio.Queue` with its blocked and released `put()` calls, `task` and `held` are `_run()`. `Send`, `ResumePut`, `GiveUp*`, `CancelWaiting` are `send()`; `TakeLine`, `EndSleep`, `WriteLine`, `WriteFails` are `_run()`; `StopRequest`, `CancelRun`, `StopFinish` are `stop()` up to, during and after its `await` |
| `CapNegotiation` | CAP and SASL in `core/client.py`, `irc/capabilities.py` | one action per subcommand or numeric; two FIFO streams; an external server with its own actions (`Serve*`, `ServerChange`) |
| `ClientLifecycle` | `run()`, `_connect_once()`, `stop()` | `phase` is the line at which `run()` awaits, `stopping[c]` where each `stop()` call does; one caller outside, one inside the reader |
| `ChannelState` | `irc/state.py` and the lines that feed it | `there` and `has` are the truth at the server, members and their modes; `members`, `modes`, `names_seen`, `names_removed`, ... are the books. An event and its handling are one step, as the server sends one stream in its order |
| `ApplicationEvents` | the event queue, accounts, PING | `told` is what the server said last, `account` the state's; `queue` holds coroutines with their arguments; `outbox` is the sender's queue with who waits for each line; WHOX answers, and any other line that becomes an event |
| `FeedEngine` | `core/feeds.py`, `modules/rss_announcer.py` | one feed; `at` is where `_run()` and `poll_now()` await, `poll[c]` the stretch of `_poll_feed()` each is in, `state` its `FeedState`, `stored` the row or file; the history `fate` says what became of each entry, `cut` and `forgotten` name the exceptions |
| `Moderation` | `core/moderation.py`, `core/moderation_store.py`, and the client's lines that call them | `status`, `muted`, `banned`, `rules`, `enabled` are the manager's memory, `rows`, `ruleRows`, `settingRows` the store's tables. `Say` queues a line, `_moderate_message` is its handling with `check_message()` and `apply_action()` in one step, as neither awaits; `Rename`, `set_casefold`; `modrule` and `modset` commit to a table and then refresh the memory, or fail to (`overdue`); `Restart` restores |
| `PluginWorker` | `core/plugin_worker.py` and its child | `requests` and `responses` are the pipes, `lock` and `call` where each caller of `request()` stands, `process` the parent's handle and `child` the subprocess; `start`, `request`, `Read`, `TimeOut`, `Cancel`, `EndOfFile`, `Reaped`, `on_unload`; the child's `Take`, `Respond`, `Die` |
| `Commands` | `core/commands.py`, `core/auth.py`, the role commands and the bootstrap of owners | extends `PluginWorker`: one command is the worker's, the other is `role`. `table` and `seeded` are in the database, `cache` is the copy that `dispatch` checks, `overdue` the removals that no refresh has followed, `registered` the registry's entry, `orphans` what children of killed bots still do; `Boot`, `LoadWorker`, `BeginUnload`, `EndUnload`, `Restart` |
| `Storage` | `core/database.py` (SQLite), `core/backups.py`, the `db` commands | the disk: `live`, `wal`, the copies `previous`, `candidate`, `prepared`, the file `temporary`, the archives `tar`, `bz3`; `proc` is what each process is at. One file operation per step; `Fail` raises out of any step, `Kill` and `BotCrash` end the process |
| `Runtime` | `async_main()`, `core/plugins.py`, `core/tasks.py`, `core/control.py` | `at` is where `async_main()` awaits; `loaded`, `hooks`, `started`, `owners`, `tasks`, `poll`, `serving` are the parts, `deaf` a `stop()` and `stubborn` a task that suppress their cancellation, `raised` the calls a `CancelledError` came out of, `client` and `irc` whose code a control client or the event loop runs; `path` is the socket file that several instances share |
| `*Proofs` | | the theorems about the module of that name |
| `MC*` | | constants and symmetry for TLC |

How they compose: the sender is described in detail once and implements
`TokenBucket` (`Bucket == INSTANCE TokenBucket WITH clock <- now, level <-
Refilled`); `ClientLifecycle` uses it as a flag that is on from `start()` to the
return of `stop()`, `ApplicationEvents` as a bounded queue. `CapNegotiation`
has one connection; what its `failed` reader means for the process is
`ReaderRaises` of `ClientLifecycle`, and its `Welcome` is `Welcome` there.
`Commands` composes the registry and the roles with the worker: its callers are
the callers of `PluginWorker`, and every step that is one module's leaves the
other's state alone. `Runtime` puts the parts in the order in which
`async_main()` starts and stops them; its `client` and `irc` are the dispatchers
of `Commands`.

## Runs

| run | configuration | what it shows |
|---|---|---|
| `sender` | `Sender.cfg` | `TypeOK` with the bound of the queue; `ResultsTellTheWire`: no line twice in the stream, "sent" only if it is there, "full" only if it is not; `PacedWithinBudget`; `ImplementsTokenBucket` (refinement); `SendSettlesUnlessAbandoned`: every `send()` ends |
| `cap` | `CapNegotiation.cfg` | `TypeOK` with one `CAP END` at most; `AuthenticatedOrFailed`; `CapabilitiesAgree` once nothing is under way; `RegistrationEnds` with a server that answers |
| `lifecycle` | `Lifecycle.cfg` | `TypeOK`, `NothingOutlivesConnection`, `AttemptsEnd`, `StopEndsRunUnlessMissed` |
| `lifecycle_backoff` | `LifecycleBackoff.cfg` | a disagreement: `BackoffResetsAfterEstablished` is violated |
| `channels` | `Channels.cfg` | `IndexesAgree`, `MembersAreThere` and `OrphansAreDropped` with two channels that share the index of users: members are known, those who are there, and forgotten with the last channel |
| `channels_modes` | `ChannelModes.cfg` | `ModesAreHeld`: nobody is taken for an operator who is not one, nor the other way round, across MODE, NAMES, departures and renames |
| `events` | `Events.cfg` | `AccountsTracked`, `PingsAnswered`; deadlock is checked |
| `feeds` | `Feeds.cfg` | `AnnouncedOnce`, but for what a crash found unsaved or `max_items_per_feed` cut off; `SavedWasHandled`: a crash loses no entry; `PollingGoesOn`; `EntriesArrive`: no entry stays behind a tag |
| `moderation` | `Moderation.cfg` | `RestartChangesNothing`; `BanFollowsPerson` through nick changes and lines handled late; `EscalationReachesBan` |
| `commands` | `Commands.cfg` | of the worker: `AnswersMatch`; `WorkIsAwaited`: the bot's child does nothing that nobody waits for; `NobodyElseEndsIt`; `RequestsEnd`. Of the roles: `OwnerRemains`, `RemovedStaysRemoved`; `AuthorityIsCurrent`: whoever commands has the role in the table, or by a removal that no refresh has followed |
| `storage` | `Storage.cfg` | `CommittedRowsStay`, `ArchivesStay`, `OriginalKept` with a fault between any two steps; `RestoredOldOrNew`: what a restore leaves, the half-restored states named |
| `runtime` | `Runtime.cfg` | `NoCallAfterUnload`; `PairedAtExit`, with what exactly a `CancelledError` skips; `ShutdownEnds` |

For every property of a passing run `PROJECT.json` names a mutant, a plausible
bug in one definition, under which TLC finds the property violated. The mutants
stand before the definition they change and are named after it
(`TakeLine_peek`).

Eight more configurations can be run by hand; they need no change of a module:

| configuration | module | what it shows |
|---|---|---|
| `ChannelsWho.cfg` | `MCChannelState` | `TypeOK`, `MembersAreThere` and `ModesAreHeld` hold with WHO answers and modes together |
| `SenderStop.cfg` | `MCRateLimitedSender` | `StopSettlesAll` is violated |
| `LifecycleStop.cfg` | `MCClientLifecycle` | `StopEndsRun` is violated |
| `ChannelsGhost.cfg` | `MCChannelState` | `NamesLeaveNoGhosts` is violated |
| `EventsLogout.cfg` | `ApplicationEvents` | `AccountsAsTold` is violated |
| `StorageBackup.cfg` | `MCStorage` | `BackupBeforeUpgrade` is violated |
| `ModerationEdits.cfg` | `MCModeration` | `RestartChangesNothing` holds over three edits, two of them of equal rules, with refreshes that fail behind the commit; with `_refresh_rules_not` for `_refresh_rules` it does not |
| `RuntimeCleanup.cfg` | `MCRuntime` | `EveryStartedIsStopped` is violated |
| `RuntimeSocket.cfg` | `MCRuntime` | `StartRefusesActiveSocket` is violated |

### Bounds, and why they are enough

* **sender**: three lines with a queue of one: one line held, one queued, one
  blocked is the smallest state in which a drain releases a `put()` that a newer
  `send()` may overtake. A burst of one line and two ticks per token make it
  sleep with a part of a token; two connections, so that callers of the first
  meet the second. `Horizon` bounds the clock outside of sleeps.
* **negotiation**: two capabilities besides `sasl`, so that a request can be cut
  into lines and answered in part; `MaxChanges` = 2 allows a capability to go and
  to come back.
* **life cycle**: the delays are a list of three; connections are unbounded.
* **channel state**: four snapshots, so that one resync can follow another, of
  two channels with two nicks, for orphans and shared users; three nicks in one
  channel for modes, so that one can be renamed to a free nick while another
  comes or goes. Nicks, renames and events are unbounded.
* **events**: queues of two; five lines allow a message, a logout, a departure
  and a return of the same nick before the message is handled, or a nick change.
* **feeds**: three entries with a feed that shows two and a memory of two, so
  that an entry can leave the feed, be passed over or be pushed out of the
  memory; a limit of one for periodic and of two for manual polls; one restart
  (`MaxRestarts`), as a second finds nothing that the first does not. A manual
  fetch is not started while the orphan of the last one is still under way.
* **moderation**: two people and three nicks of which `rfc1459` folds two
  together, so that a nick can be taken over and two nicks can be one key. Three
  lines reach `to_ban`, two renames swap a nick, one queued line can be overtaken
  by a rename. Three `[moderation]` tables have every check and every action
  once; one load, so that a restart is followed by more lines; one edit. Three
  edits in `ModerationEdits.cfg`, so that an edit can meet a memory that is behind
  the store, with one line and nobody renamed.
* **worker and commands**: the event loop and one control client, a seeded owner
  and another user, one restart for the bootstrap; three requests (the load, one
  that is abandoned or late, one that is refused beside it or comes after it) and
  two bindings at a time, of either role and either user, the same one twice
  included.
* **storage**: two processes that overlap, two seconds, so that they stage under
  one name or under two, one write that can be in the log only, one fault;
  which one of several data files is written makes no difference to a restore
  that takes them one by one.
* **runtime**: a bot with two plugins and two modules, so that the second fails
  when the first is up, beside one without any on the same path; one run each.
  `RuntimeSocket.cfg` has two bots without any and two runs each.

### Fairness

Weak fairness, on what the loop or a timeout brings about: a task that can
run runs; `enqueue_timeout`, `connect_timeout_seconds` and
`registration_timeout_seconds` expire; a write ends one way or the other; a
closed stream ends. Nobody has to send, welcome, stop or reconnect. In
`CapNegotiation` the server that supports CAP answers what it is sent
(`RegistrationEnds` is about that server; the silent one is `AttemptsEnd`). In
`ApplicationEvents` no handler has to return. `FeedEngine` has two strong
assumptions: `Acquire` for the periodic task, as `asyncio.Lock` hands itself on
in turn, and `Fetched`, as `EntriesArrive` is about a server that does not fail
for ever; that is the server's to keep, not the code's. In `Commands` only the
timeout of a request and the end of a killed child are fair: no child has to
answer. In `Runtime` `async_main()` goes on and the timeout of a `stop()`
expires. Not fair are what only the plugin's or module's code can end: an
`on_load()` or `on_unload()`, which have no timeout; a `start()`, whose timeout
it may suppress; and a task or a `stop()` that suppresses its cancellation, for
which `wait_for()` waits beyond the timeout (`tasks.py:58-61`,
`plugins.py:635`). `ShutdownEnds` names them, and a control client that stays. `ChannelState`,
`Moderation` and `Storage` state no fairness.

`PingsAnswered` ends in a PONG or in the end of the connection: when the reader
itself waits for a place in the sender's queue, the timeout of that `put()`
raises out of `_listen()`.

## Where the code and its documents disagree

As a run: `BackoffResetsAfterEstablished`. `_connect_once()` returns without an
exception only after `stop()`, so `failure_count` is never reset: the loss of an
established connection counts as one more failure (`docs/IRC_PROTOCOL.md:61-62`).

As configurations to run by hand:

1. `StopSettlesAll`. `stop()` cancels `_run()`; the `CancelledError` passes the
   `except Exception`, so the future of the line in its hand is never set, and a
   `put()` that was blocked lands in a queue that nobody reads. `send_raw()` of
   those callers waits for ever, although the client stops the sender with
   `ConnectionError("IRC connection closed")` for what is pending.
2. `StopEndsRun`. `stop()` during `open_connection()` finds no writer; the
   connection is then made, registered and kept until the server ends it.
   `StopEndsRunUnlessMissed` shows that this is the only gap.
3. `NamesLeaveNoGhosts`. Tombstones are kept only from the first line of a NAMES
   answer on, and only for known members; who leaves before is a member again
   with its entry. `MembersAreThere` shows that besides these races (the history
   variable `raced`) and those of WHO answers the members are right.
4. `AccountsAsTold`. A queued message writes the account back that its sender
   had when the line was read. `AccountsTracked` shows that besides such a write
   (`revived`) the accounts are right.
5. `BackupBeforeUpgrade`. `docs/OPERATIONS.md:51-58` asks for a backup before the
   upgrade of an older schema; `create()` begins with `check()`
   (`backups.py:76-79`, `database.py:664-674`), which refuses an older schema.
6. `EveryStartedIsStopped`. A `CancelledError` out of a module's `stop()`, as of a
   task that it has cancelled and awaits, passes the `except Exception` of
   `plugins.py:641`; the modules started before it are not stopped, against the
   docstring at `plugins.py:645` ("without skipping later cleanup").
7. `StartRefusesActiveSocket`. `tests/test_control.py:46` starts one server after
   another has started, and that is refused; of two starts that both found no
   socket, or a stale one, the second takes the path from the first, which goes
   on to serve where nobody finds it (`control.py:92-112`).

Met while modelling, and named as exceptions in the properties or kept out of
their scope:

* with a store, only rows of `warn` count towards `to_ban`, and a user who is
  muted or kicked gets no more of them (`moderation.py:463`, against
  `docs/CONFIGURATION.en.md:565`): `EscalationReachesBan` is about no store;
* bans restored from the store do not follow a nick change, as `rename_user()`
  moves only with an entry of `user_status`; `set_casefold()` restores while the
  old folding is still in place;
* `control.stop()` of an instance whose start was refused unlinks the socket of
  the one that serves (`control.py:119-120`);
* `wait_closed()` (`control.py:117`) waits for the clients' connections, not for
  the tasks that handle them: a command whose client has left goes on while the
  plugins are unloaded, and `NoCallAfterUnload` is about clients that are there;
* `except Exception` lets a `CancelledError` pass. Out of `on_load()`
  (`plugins.py:436`) the commands of that plugin stay and `load_all()` does not
  unload the others at once; out of `on_unload()` (488) the plugins loaded before
  are not unloaded and `tasks.shutdown()` is not reached; out of `start()` (622)
  that module is never stopped; out of `stop()` see above. `PairedAtExit` says
  that nothing else is skipped;
* a roll-back clears the list of started modules behind its loop only
  (`plugins.py:646-648`), so that when it is aborted the modules that it had
  stopped are stopped again;
* `cancel_owner()` logs what did not stop in time, but only once it has stopped:
  `wait_for()` waits for what it has cancelled (`tasks.py:58-67`);
* the copy of the role bindings is read in a new connection behind the commit
  (`__main__.py:375`, 396-397). If that fails, the answer is `Command failed.`,
  the change is in the database, and a removed role counts on until the next
  change or start; `AuthorityIsCurrent` excepts such bindings (`overdue`);
* in the same way a rule or a setting of moderation may be in the database and
  not in the memory (`moderation.py:228`, 235, 310, 318, 326); a rule that the
  memory does not know can then be added twice. `RestartChangesNothing` excepts
  what was not read since;
* the worker's child has a session of its own (`plugin_worker.py:47`) and sees
  the end of its input only between two requests
  (`plugin_worker_child.py:18-20`): when the bot is killed, a child that is in
  `handle()` goes on until that returns, or for ever. `Commands` has it as
  `orphans`; `WorkIsAwaited` is about the child of the bot that runs;
* a line is judged under the nick it was sent under (`client.py:1318`): by then
  somebody else may have it, and is warned, muted or kicked for it. The
  properties of moderation say that bans and counts are not lost by this, not
  that it does not happen;
* an id that stands twice in one feed body is announced twice
  (`feeds.py:225-234`); a body is a set in `FeedEngine`. An entry whose
  announcement failed to be sent is not tried again;
* `_reset_connection_state()` reads the moderation store for the new connection
  (`client.py:236`, 299): if that raises, the stream that was just opened is left
  open; `ClientLifecycle` has no such failure. 908, which only changes the list of
  mechanisms (`client.py:422-426`), is left out of `CapNegotiation`;
* `feeds.stop()` raises again what its poll task died of, and then
  `plugins.stop()` is skipped: `PairedAtExit` excepts it;
* `restore_backup_snapshot()` can be cut off between the rename and the unlinks,
  with the old database's log beside the new file (`mispaired`). Behind it
  there is no way back: a restore that fails while it copies data files leaves
  some of the archive's and some old ones. A `database init` that was interrupted
  can be completed as long as the file is empty (`database.py:275-276`), and by no
  command once it has a schema and no name;
* nothing keeps two database commands apart: `Storage` assumes that commands that
  replace the database run alone, with the bot stopped as the documents ask;
* a rename leaves a tombstone of the old nick that discards the modes of an entry
  still to come, after a mere change of spelling too (`state.py:257`); a ghost
  that joins in person keeps the ghost's modes;
* two bindings of one role for one user can exist; `role remove` takes one;
* `CAP NEW` requests the whole profile although `network.ircv3_enabled` is off;
* a feed that shows more entries than `max_items_per_feed` is announced again,
  up to the limit, on every poll; `AnnouncedOnce` takes what `seen_ids` forgot as
  an exception.

## Proofs

All theorems hold for every value of the constants that satisfies the modules'
assumptions, checked by TLAPS.

* `RateLimitedSenderProofs`, of the abstract bucket: the window bound
  `used * Cost <= Capacity + (clock - since)` is not inductive: it says nothing
  of what is left in the bucket and could still be spent. `BudgetInv` adds
  `level` to the left-hand side and is inductive (`BucketBudget`);
  `BucketWindow` follows from `level >= 0`. `OneMoreLine` is the only fact about
  multiplication needed.
* `RateLimitedSenderProofs`, of the sender: `TypeCorrect` is proved from four named parts of
  `TypeOK`, each with one step per action; the lemmas `ReleaseTypes` and
  `DetachTypes` say that releasing blocked `put()` calls keeps the sequences
  typed. `SenderRefinesBucket` maps `level` to `Refilled`, what `_run()` would
  compute now: a tick is `Elapse`, paying at once or after a sleep is `Pay` (the
  sleep gives the rest away), a new connection is `Refill`, everything else
  leaves `Refilled` alone (`QuietStep`). `SenderPacing` is `BucketWindow`
  carried over. `ResultsAreTrue` is `ResultsTellTheWire`: `LinesInv` says that a
  line is in one place at a time, among the blocked and released `put()` calls,
  the queue, the hand of `_run()` and the stream, that it is there once, and that
  the state of its call tells which.
* `CapNegotiationProofs`: `NegotiationTypeCorrect`, with at most one `CAP END`
  written. `GoesOnAuthenticated` is `AuthenticatedOrFailed`: the code looks at
  `sasl_complete` only, so the invariant follows it back: it is set by a 903, and
  a 903 is on its way only if the server has the account (`Answered`).
  `BothSidesAgree` is `CapabilitiesAgree`: of the lines on their way
  to the bot the last one about a capability tells whether the server has it on,
  and if there is none the bot knows (`Told`); a pending capability is in a
  request or an answer on its way (`Awaited`).
* `ClientProofs`, of the life cycle: `NothingOutlivesConnection` is not inductive, as it
  speaks of the idle phases only. `Inv` adds what holds on the way there:
  in `draining` the reader is gone (`CancelTasks`), in `unwinding` also the
  sender (`StopSender`), and a `stop()` inside the reader exists only with the
  reader (`TasksEnd`). `LifecycleTypeCorrect` needs `Flags` and `Backoff` too,
  the latter with the arithmetic of the index into the list of delays.
* `ChannelStateProofs`: `IndexesAlwaysAgree` for any number of nicks and
  channels. `ResyncIsRight` is `MembersAreThere`: what a NAMES answer leaves
  is right because, while it is in progress (`InOrder`), everybody who is there was
  seen or has an entry to come that no tombstone discards (`Covered`), and nobody
  who left was seen or will be, unless the channel is named as raced (`Tracked`).
  `ModesAreRight` is `ModesAreHeld`: while an answer is being read, the books
  are right about everybody who was seen and of whom no entry is still to come
  (`Settled`, `ModesTracked`). On top of that `ChannelTypesCorrect` is `TypeOK`:
  what an answer collects is gone when it has ended, and nothing is remembered
  of a channel that the bot is not in. `NoOrphanStays` is `OrphansAreDropped`: who
  is taken out of the last shared channel was in the one book that the step
  changes, or is the one who quit or was renamed, and `Drop` forgets exactly those
  who are then in none.
* `ClientProofs`, of the events: `AccountsFollow` is `AccountsTracked`,
  inductive together with the types of the queue and of the accounts.
  `EventsTypeCorrect` has the bounds of both queues; it needs that a task has at
  most one line in the sender's queue, and one exactly while it waits in `send()`.
* `ServicesProofs`, of the feeds: `FeedAnnouncedOnce` and `FeedSavedWasHandled`,
  for any sizes of the feed and of the limits. `AnnouncedOnce` says nothing of
  what is still to be announced. The invariant `FeedInv` adds that what a poll
  has still to announce is in `seen_ids`, is no other poll's and was not
  announced before, unless it was forgotten (`Pendings`); that what was
  announced is in `seen_ids`, or forgotten (`Silent`); and that what is in
  `seen_ids` without a fate is some poll's to announce (`Awaited`). The last
  carries `SavedWasHandled` over a save by the other poll. `FeedTypeCorrect`: the
  list `seen_ids` has no gaps and at most `max_items_per_feed` places, a poll
  announces no more than its limits, and whoever polls, and nobody else, holds the
  lock. How merging and cutting the list keeps its length rests on lemmas about
  places, proved with the library's facts on cardinality.
* `ServicesProofs`, of moderation: `BansFollow` is `BanFollowsPerson`, with
  that a banned person's channel has an entry in `user_status`: without one
  `rename_user()` would not move the ban (`BanInv`). `WarningsReachBan` is
  `EscalationReachesBan`: the warnings at the key of somebody's nick are at least
  his own offences, or he is banned, through renames onto keys that others left
  warnings at (`WarnInv`). `RestartsChangeNothing` is `RestartChangesNothing`:
  of the mutes of a key the last row ends last (`RowsInv`), and the memory has
  what it says (`StoreInv`); the rules and the settings are those of the store
  whenever they are not overdue (`RulesInv`).
* `CommandsProofs`: at most one request is in the pipes or with the child, and
  none when nobody waits; without a handle there is no child, no request and no
  answer. From that `EveryAnswerMatches`, `NoWorkIsLeft` (`WorkIsAwaited`) and
  `OnlyItsReaderEndsIt`. `AuthorityComesFromTheTable` needs that the cache has
  nothing but what is in the table or was removed since the last refresh, as soon
  as anything can be dispatched (`AuthInv`); `SomebodyOwns` and
  `NoStartRestores` follow from what `role remove` refuses and from `seeded`.
  `CommandTypesCorrect` has that no two rows have one number. The next number is
  above all others, which needs that a finite set of numbers has a largest one
  (proved with the library's theorem that strict inclusion of finite sets is
  well-founded); the seeds are numbered from 1, and meet an empty table. The list
  of seeds is assumed finite: it is read from the configuration.
* `RuntimeProofs`: `CallsFindTheirOwners` is `NoCallAfterUnload`. It rests on
  when dispatchers are there, from `Bind` to `ControlDrained` and while the bot
  runs (`Dispatching`), and on nothing being ended as long as they are
  (`Callable`). `WhatBeganHasEnded` is `PairedAtExit`: at every
  moment what was begun and has not ended is what is loaded or started, in that
  order, and the ends so far are those behind it, from the back (`Pairs`). A
  `CancelledError` breaks that order or leaves something out, so that `Covered`,
  `Skipped` and `Owned` keep account of what each of them may have skipped, and
  `Emptied` of how far the shutdown has come (`PairInv` is all of them).
  From `PairInv` also `RuntimeTypesCorrect`: whatever is in a list is configured.
* `StorageProofs`: `CommittedRowsAreKept` and `ReportedArchivesStay`, for any
  number of processes, seconds, data files, writes and faults. The invariant
  says who is alone (`Exclusive`: who replaces the database; `OneTarEach`: who
  has a tar file of a second), and what each process may rely on from one file
  operation to the next: the copies of an upgrade hold what the database holds
  (`Upgrading`), a restore has the old database up to its rename and the
  archive's from then on (`Restoring`), and nobody else has touched an archive
  that is being filled (`BackingUp`). `ReadFacts` is what SQLite makes of a file
  and a log. From the same invariant the action properties: `TheOriginalIsKept`
  from where `previous` changes at all (`PreviousSteps`),
  `RestoreGivesOldOrNew` from who can end a restore (`WhoEndsARestore`) and from
  when it begins to copy data (`DataComesLast`). With
  more than one fault an archive can be made of a database whose log is not its
  own; what is restored from it stays named in `mispaired`. The types are
  `StorageTyping`.

Only model-checked: everything under fairness (`SendSettlesUnlessAbandoned`,
`RegistrationEnds`, `AttemptsEnd`, `StopEndsRunUnlessMissed`, `PingsAnswered`,
`PollingGoesOn`, `EntriesArrive`, `RequestsEnd`, `ShutdownEnds`), which is out of
the prover's reach, and `BackupBeforeUpgrade`, which speaks of ENABLED. The
`TypeOK` of `Moderation` is not a theorem either: it bounds the length of what
`SelectSeq` leaves of the times of a user's lines, and `SelectSeq` is recursive.
TLC finds it to hold when it is added to the invariants of `Moderation.cfg`.
The theorems about moderation do not need that bound; `ModInv` proves the types
that they use. Every invariant and every action property of a passing run is also
a theorem.

## Not modelled, and why

* **wire format, numerics, translations, logging, configuration, web API, worker
  pool**: sequential, pure or read-only; unit tests reach them. Of the command
  line only what changes state: `async_main()` and the `db`, `role`, `modrule`
  and `modset` commands.
* **batches**: a dictionary with a bound, changed by single lines of one reader;
  batches that never end are the server's doing.
* **patterns of moderation, contents of migrations, SASL payloads, hostmask
  patterns, feed contents**: data that no property tells apart.
* **server databases**: they have no files; the crash behaviour of their
  migrations is the server's transaction.
* **channel state**: the channels' own modes, topics, hosts, away, a casemapping
  that changes, and lines about channels that the bot is not in.
* **feeds**: several channels of a feed and their minimum intervals, feeds that
  send no tag, subscribers that come and go.
* **plugins**: how a plugin file is found, hashed and read; there is no reload.

## Plan

1. Channel modes, topics and casemapping in `ChannelState`; batches with their
   bound.
2. The announcer's channels and intervals in `FeedEngine`.
3. Proofs: abstract specifications that `PluginWorker` (one request, one answer)
   and `Storage` (a committed write, a snapshot, a restore) implement.
