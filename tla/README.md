# BEHIND: models and proofs

BEHIND is a DNS forwarder for a local network. It answers what it knows from a
hosts table, from domain filters and from a cache, and asks upstream forwarders for
the rest. This directory holds TLA+ models of it, the TLC configurations that check
them, and theorems whose proofs TLAPS checks. Paths below are relative to the
repository; line numbers are those of `src/src/Behind.cpp` unless a file is named.

## 1. Inventory

The program is one thread that runs an epoll loop (`Behind::main`, 4115-4385), a
logger thread, and, while a SIGHUP is handled, a thread that validates the new
configuration. Everything the loop calls runs to completion: inside it, what
interleaves is the order of events, never the steps of two handlers.

| Part | State | Operations | What is hard | What makes it correct |
|---|---|---|---|---|
| UDP forwarding and coalescing (509-533, 588-612, 1151-1293, 1508-1706, 2555-2755, 3048-3112, 3238-3391) | `pending_udp`, `udp_queries_by_local_txid`, `udp_queries_by_socket_txid`, `udp_channels`, `active_txids_` | client query, upstream datagram, EDNS retry, deadline scan, purge of ids | fan-out to several upstreams, late and duplicate answers, failed sends, ids that outlive queries and queries that outlive ids, `max_tasks` reached half way | the four tables agree; a waiting client is always reachable, is answered at most once, and leaves |
| DNS cache (330-505, 3283-3331) | LRU list, index, byte count | `find`, `insert`, `insert_failure` | unsigned arithmetic in the eviction loop, expiry, replacement, failures over answers | list and index agree, byte count exact and bounded, nothing expired served |
| TCP tasks (1708-1752, 2757-2849, 3133-3229, 3393-3637, 3739-3797) | `tasks_by_fd`, open descriptors | accept, read, forward, reply, time out | a client descriptor that moves between two tasks, errors between the steps, stale epoll events | each descriptor has one owner and is closed once |
| Admission (639-700, 2003-2065) | `global_rate`, `client_rates` | `is_client_allowed`, `consume_rate_limit` | a bounded table under eviction, prefixes that end within a byte, refill arithmetic | no span of time sees more queries than burst and rate allow, the table stays bounded and shuts out newcomers only for active clients |
| Event loop and listeners (1578-1653, 4115-4385) | `clean_state`, `paused_listeners` | `periodic`, `clean`, epoll dispatch | phases a maintenance interval apart, a resume that fails | each phase runs again and again, a paused listener resumes |
| Static hosts (744-757, 2908-3046, 3988-4093) | `hosts`, modification times | `update_hosts_files`, `find_host`, `find_host_name_by_addr` | a file that changes between its `stat` and its read or while it is read, or twice within the clock's granularity | what is served is a version of the file, finally the last |
| Process control (`src/src/main.cpp` 473-631) | run state, validation future | SIGHUP, SIGINT/SIGTERM, switch-over | signals during an asynchronous validation | the newest valid configuration is served, a stop is never lost |
| Logger (`src/src/Logger.cpp`) | queue, `dropped`, `paused`, `interrupted`, log descriptor | push, write, rotate, reopen, stop | two threads and two mutexes, a wakeup on the first item only | no accepted line is lost or reordered, dropped lines are reported, stop drains |
| Configuration (`main.cpp` 73-471, `ConfigParser.cpp`, `LineReader.cpp`) | options, include stack | parse, validate | nested includes, errors in the middle | all or nothing |
| Domain filter (`DomainFilter.cpp`) | rules in buckets by a key of their name | `add_entry`, `find` | a rule in a bucket that the query does not look into | the verdict of a rule that covers the name, if there is one |
| DNS codec (754-1133, 1754-1927, 2205-2322) | none | parse, build, truncate | pointer loops, sizes | every message built fits, parsing ends |
| Resolver, ChaCha20, misc, rwfile | none | pure functions or one call at start | - | not modelled |

How the parts interact: a datagram passes admission, then `process_local_query` (hosts,
filter, cache); what is left is forwarded. An upstream answer is delivered to all who
wait, then cached. TCP exchanges share the cache, `max_tasks` and the upstream ids with
UDP. `clean()` runs one phase each time the loop finds 100 ms have passed: paused
listeners, TCP deadlines, UDP deadlines, old ids, and a call that resets the phase.

## 2. Plan

One module for each part, its runs, and proofs where a theorem says more than a run:

| Module | Models | Abstract specification | Proofs |
|---|---|---|---|
| `UdpForward` | UDP forwarding and coalescing | `UdpService` | `UdpForward_proofs`, `UdpService_proofs` |
| `Logger` | the logger and its two threads | `LogService` | `Logger_proofs` |
| `DnsCache` | the answer cache | `CacheService` | `DnsCache_proofs` |
| `TcpTask` | DNS over TCP, listeners, maintenance | - | `TcpTask_proofs` |
| `RateLimit` | allowed networks and token buckets | - | `RateLimit_proofs` |
| `Reload` | signals, validation, switch-over | - | `Reload_proofs` |
| `LocalAnswer` | hosts files, and what is answered from them | answers from the files themselves | `LocalAnswer_proofs` |
| `DomainFilter` | rules, buckets and search | `Verdicts`, without buckets | `LocalAnswer_proofs` |

`LocalAnswer` extends `DomainFilter`, since a name that no table has goes to the
filter. Otherwise a module sees of the others what it shares with them: `UdpForward`
and `TcpTask` each keep a count of the tasks of the other one, `UdpForward` lets TCP
exchanges take ids from its pool and store what they get in its cache, and `process_local_query` in `UdpForward` is any
answer that `LocalAnswer` or `DnsCache` may give. A module `X` is checked through
`MCX.tla` and the configurations `MCX*.cfg`.

What is left of the plan: the longest zone match of `choose_forwarder`; truncation; the
include stack of `LineReader`. Every invariant and every action property that a run checks,
and each of the three refinements, is also a theorem (section 11); the liveness properties are not.

## 3. UdpForward

### State

| Variable | In the code |
|---|---|
| `pending_udp` | `Private::pending_udp`: key to the transaction of its `PendingQuery` |
| `waiters` | `PendingQuery::waiters`, by transaction |
| `by_local_txid` | `udp_queries_by_local_txid`; a query is known by its transaction and its forwarder |
| `by_socket_txid` | `udp_queries_by_socket_txid`: socket, upstream id, query |
| `query` | the fields of `UdpQuery` that decide anything: socket, upstream id, `used_edns`, age |
| `channel_count`, `active_queries` | `udp_channels`, `UdpChannel::active_queries` |
| `active_txids` | `active_txids_`: the age of each reservation, or `Free` |
| `cache` | what was stored last for a key, while it is there: an answer or a failure, of UDP or of TCP (`FromTcp`) |
| `tcp_tasks`, `tcp_txids` | `tasks_by_fd.size()` and the ids TCP tasks will release |
| `clean_state`, `local_transaction_id` | the same |
| `status`, `replies` | history: where a client datagram is, how often it was answered |

A request is one client datagram, so a client that repeats its question is another
request. Time is the age of queries and reservations, in ticks; `Timeout` ticks are
`upstream_timeout_ms`. A body of a query that has not been made, or is retired, is
`NullQuery`.

### Actions

| Action | Code |
|---|---|
| `process_local_query` | answered by hosts, filter or cache (2908-3046) |
| `RefuseQuery` | no forwarder, or 200 clients wait already (3068-3093) |
| `JoinPending` | the same question is in flight (3085-3096) |
| `StartTransaction` | draw forwarders, send to each, fall back to SERVFAIL if none took it (3064-3112, 2690-2755) |
| `RetryWithoutEdns` | FORMERR or NOTIMP to a query with EDNS (3346-3373) |
| `ReceiveAnswer`, `ReceiveFailure` | the rest of `process_upstream_udp_channel` and `reply_to_client_udp` |
| `CleanExpiredUdp`, `CleanActiveTxids`, `CleanOther` | the phases of `clean` (1591-1706) |
| `Tick` | the clock |
| `TcpTaskStarts`, `TcpReserves`, `TcpTaskEnds` | what TCP exchanges do to the shared capacity, ids and cache: they store an answer or a failure over whatever is there (1640, 3431, 3626, 3629) |
| `CacheEntryLeaves` | expiry or eviction of a cache entry |

Nondeterministic are: which datagrams arrive, in which order and how often; the
verdict in them; each send to a client and to an upstream (`sendto` may fail); creating
a socket (it may fail); the ids drawn, including giving up after 100 draws when some id
is taken; the forwarders drawn. `forward_udp` leaves an id reserved when its send
fails, and the model keeps that.

Assumed and left out: forwarders have distinct addresses (reservations are kept by
address, without the port, so two forwarders on one host share them, and a forwarder
listed twice may be drawn twice); case randomisation, EDNS sizes and record contents;
the contents of the hosts table and filters. `RootNames` are questions for the root,
which `process_local_query` never looks up (2953), so that they are forwarded even
when an answer is cached.

### Properties

* `PendingIffInFlight`, `WaitersAreReachable`, `IndexesAgree`: the tables agree.
* `AtMostOneReply`, and the refinement `ImplementsService` of `UdpService`: clients of
  one question wait together, leave together, and get at most one reply, in the step
  in which they leave. The mapping is `open[n] <- waiters[pending_udp[n]]`.
* `WithinCapacity`, `ChannelLoadExact`: the counted resources.
* `OwnFailureNeverMasksAnswer`: no failure that UDP meets is stored over an answer that UDP stored.
  It is no promise about the cache as a whole: the two paths do not know of each other's
  questions, so a TCP failure may replace an answer of UDP and the other way round, and the model does it.
* `EveryWaiterLeaves`, `ReservationsExpire`: liveness.

### Runs

| Run | Bounds | Shows |
|---|---|---|
| `forward_safety` | three clients, two of one question, the third asks for the root; two forwarders with a socket each, two ids, capacity 3, two transactions | the tables, replies and socket loads through all orders, and the refinement of `UdpService`, whose clients here do wait and leave together; the smallest instance with a joined question, a fan-out of two, a second question that competes for ids and shares sockets, and id reuse (250,503 states) |
| `forward_capacity` | fan-out of three against a capacity of two, one TCP slot, one socket and one id for each forwarder, three clients of one question, room for two to wait | the limit in the middle of a fan-out, ids and the cache shared with TCP, a client refused because others wait |
| `forward_live` | two clients of one question, two forwarders with two ids, no TCP | every waiting client leaves, every id is free again (38,925 states) |
| `upstream_id_reuse` | as `forward_safety` | violation, below |

The bounds are `MaxTransactions` (local ids drawn), `MaxTcpTasks`, and the sizes of the
sets; `Timeout` is one tick, which is enough to tell young from expired and, since a
retry restarts it, siblings with different deadlines. Symmetry is declared only over
clients (with their questions) or forwarders that the constants treat alike, and only
in safety runs. The runs have one socket for each forwarder, which several queries then share;
the theorems hold for any pool, the choice of its least busy socket included. `TypeOK` is proved for every instance (section 11) and not repeated in
the runs; the same holds for `Logger`, `TcpTask` and `RateLimit`.

Fairness: `FairSpec` assumes weak fairness of `Tick` and of `clean`. Time passes, and
the loop waits for at most 100 ms before it calls `periodic` (4292-4337, 1578-1589).
No client, upstream or TCP exchange is assumed to do anything.

### Disagreements with the comments

* 726 says ids are unique among live queries. A reservation is purged by age (1693-1700)
  one phase after the deadline scan. A query whose deadline passes in between is still
  registered when its id is free again, and a second query may draw it (run
  `upstream_id_reuse`). `finish_udp_query` erases by identity, so the tables stay
  consistent all the same (`IndexesAgree`); the effect is that a datagram may be
  looked up under the wrong query and dropped as not matching its question.
* 1558-1560 says a transaction ends when one query has answered or all have timed out.
  The scan ends it when the first has timed out (`TimedOutQueries`), though a retry may have given another a
  later deadline. This is not a run.

## 4. Logger

### State and actions

| Variable | In the code |
|---|---|
| `items`, `paused`, `interrupted`, `dropped` | `Logger::Private`, under `mutex` |
| `fd_log`, `active`, `rotated` | whether the log is open, what is in it, and in the files `.0`, `.1`, ...; under `file_mutex` |
| `writer`, `batch`, `batch_dropped` | the writer thread: where it is, and the locals `items` (what is left of it) and `dropped` of its loop |
| `main` | where the main thread is among `Logger::start`, `pause`, `open` and `stop` |
| `notifying` | threads that left `push`'s lock and have yet to call `notify_one` |
| `pushed`, `output`, `reported` | history: calls of `push`, lines written, losses told of |

A line is its number in the order of acceptance, so what matters is which number is
where. A step is what a thread does under one lock: `Accept` and `Refuse` are `push`,
`NotifyOne` its notification after the unlock; `WriterWaits`, `WriterReturns` and
`WriterTakes` are the test at the top of the loop; `WriterOpensBatch` (with `Rotate`),
`WriterWrites` and `WriterReports` are the part under `file_mutex`, which `Open`
therefore cannot interleave with. `SpuriousWakeup` is allowed at any time.

Two threads log: the main thread, when it is not inside a call that starts, pauses,
opens or stops, and the validation thread, whose resolver logs failures
(`inetresolver.cpp:29`). Main waits for the validation before `Logger::stop`
(`main.cpp` 616-628). Before `x_start` only the first validation can log, and it is
taken not to fill the queue. Left out: the `_exit` when a validation does not end
within five seconds, which loses what is queued; writes that fail; `LOG_STDERR`; a
reload that changes the path of the log; the destructor's second `x_stop`, which finds
nothing to do.

### Properties and run

The run `logger` allows six lines with a queue of two, rotation at two lines, two
rotated files and one reload: enough for a queue that fills while a batch is in hand,
for a second rotation, which moves a file that a first one made, and for a reopening between
batches. It checks:

* `Fifo`, `NothingUncounted`, and the refinement `ImplementsLogService` of `LogService`
  (`queue <- batch \o items`, `lost <- dropped + batch_dropped`);
* `StopDrains`, `NoLostWakeup`;
* `FilesInOrder`: no line twice, none out of order, in the log and its rotated files.
  A copy that fails may lose lines, which the property allows;
* `LinesAreWritten` and `StopReturnsEventually` under `FairSpec`: weak fairness of the
  writer, of a notification that is due, and of the calls that main makes without
  waiting for anybody. Threads that can run are run; nobody is made to log, reload or stop.

## 5. DnsCache

`items`, `index` and `bytes` are `items_`, `index_` and `bytes_` of `dns::Cache`, and
`item` is what a list node holds. A node is a name that is taken when an entry is pushed
and free again when it is erased, so that an iterator left in the index could meet the
node of another key. `insert`, `insert_failure` and `find` are whole calls (no other
thread has the cache); the clock moves between them. `insert` starts where the received
message does: `modify_received` raises its times to live to the override, and its
lifetime is the least of them. The eviction loop is stated by its result, the longest
front of the list that leaves room, with `bytes` as `size_t` (modulo `SizeModulus`, which is 16 in
the run, so that a wrong subtraction wraps). A message is its rcode, the times to live of
its answers, its SOA and its size (`Message`); names and data of records are left out.

Run `dns_cache`: three keys, one with an override, two entries and four bytes, eight kinds
of message, four ticks of which two are a second. That is enough to evict by count and by bytes,
replace, refuse, expire between two hits, serve a time to live that was rounded, and a record that
ends before its entry does (11,623 states).

* `IndexMatchesList`: no dangling iterator, no entry lookup cannot reach, no key twice.
* `BytesExact`: the counter is the sum, within the limit. That is what the unsigned
  subtraction at 435 rests on.
* `TtlNeverInflated`: a record keeps what its owner gave it on arrival (`owner`: the time to live as it
  came, for the SOA of a denial no more than its minimum), and whether its entry lives on its
  time (`role`). It is served with a time to live that, added to its age, stays within that or within the override,
  if that is longer, and within `max-ttl`. The records that decide, each answer or the SOA of a denial, are not
  served at all after that time. The others, such as the SOA beside an answer or whatever a cached failure has, are: until their entry
  ends, with a time to live of zero (409-416), which the property allows.
* `ImplementsCacheService`: the cache is a map bounded in entries and bytes that forgets the
  least recently used first, and no more than it must. The mapping reads the list of
  nodes as the list of their keys; the abstract cache keeps no counter, but counts the bytes.

## 6. TcpTask

| Variable | In the code |
|---|---|
| `open` | what the kernel has a descriptor open as |
| `task` | `tasks_by_fd`: the state of the task, its `client_fd`, whether EDNS was used, its age |
| `paused` | `paused_listeners` with the time of the next attempt |
| `udp_queries` | the UDP share of `active_task_count` |
| `clean_state`, `running` | the phase of `clean`, and whether the loop goes on |
| `lost` | history: descriptors that two error paths leave open |

Actions are the handlers by the outcome they have: `AcceptClient`, `AcceptFails`
(`process_tcp`); `ReadFails`, `ReplyLocally`, `ForwardLeaks`, `LocalReplyLost`,
`forward_tcp`, `QueryIsSent`, `RetryWithoutEdns`, `ExchangeEnds`, `ReplyIsWritten`
(`process_receive` by the state of the task); `CleanPausedListeners`,
`CleanExpiredTcp`, `CleanOther`; `Shutdown`. An event is for a number, not for a
connection: nothing ties it to the task that was there when epoll reported it, which is
the stale event of a batch (3400). A closed number may be reused by the next step. Left out:
buffers and offsets, and upstream ids, which `UdpForward` has.

Run `tcp_task`: three numbers, two clients, capacity three, timeouts of a tick. Two exchanges
cannot run at once with three numbers, but a client that waits for an upstream while
another is read, and every reuse of a number by either kind, can.

* `OneOwner`: every descriptor belongs to one task, registered for it or waiting to answer
  it, and closed ones to nobody. Hence no descriptor is closed twice and no new client by an
  old task.
* `NothingElseLost`: every open descriptor has an owner, except those in `lost`:
  `forward_tcp` returns at 2801-2811 without closing the socket it has just opened, and a local
  answer that cannot be built gives up its client (below).
* `WithinLimits`: `max-tasks` and `max-tcp-clients` hold; a task stands for one client
  even when it holds two descriptors.
* `ClientsLeave`, `ListenersResume`, under `FairSpec`: weak fairness of `Tick` and `clean`
  as above, and strong fairness of taking a listener back, since `epoll_ctl` does not
  fail for ever (3739-3797 tries again after each pause).

Run `tcp_client_lost` checks what the comment at 3523 says, `ClientsAreOwned`: "Ownership
of the client fd moved to the upstream TCP task." It did not if `process_local_query`
could not build its answer: it returns true regardless (2888-3046), the caller takes that
for a forwarded query, and the descriptor leaves `tasks_by_fd` and epoll without
being closed.

## 7. RateLimit

`global_rate`, `client_rates` and `last_rate_cleanup` are those of the source; `Ask` is
`is_client_allowed` and `consume_rate_limit` as both sockets call them (3669, 3772), by the point where
the call returns: `GlobalLimit`, `TableFull`, `ClientLimit`. Tokens are integers, with
`Second` of them to a query, so that a tick brings `Qps`: the doubles of the code up to
their rounding. An address is a sequence of bytes of `ByteBits` bits. `OpenWindow`
starts, at any moment, the count of admitted queries that `WindowBounded` is about. Left
out: when a refusal is logged.

Run `rate_limit`: six clients of two families and addresses of two bytes of two bits, one network
whose prefix ends within a byte and one single address; a table of two, a burst of three,
five ticks (552,744 states). The table is full, swept, and full again; clients are
forgotten and come back.

* `WindowBounded`: from any moment on, admitted queries are within burst plus rate.
* `OnlyActiveClientsKeepOut`: while the server has a token, a listed client is refused only as
  a newcomer to a full table of clients seen within the idle time and a sweep interval.
* `AdmittedAreListed`: who is served agrees with a listed network bit by bit.

The second property says something the configuration does not: a client's own
bucket never refuses. The server's bucket has the same rate and burst and pays for every
query, hence is never the fuller one (`GlobalBindsFirst`, proved), and it is asked first.
`README.md:74` of the repository speaks of a "Per-client and global sustained query
rate"; only the global one has an effect.

## 8. Reload

`pc` is where the main thread is between `main`, `main2` and the server's loop; `opts`,
`fallback_options`, `reload_candidate`, `validate_again` and the caught signals have the
names of `main.cpp` (473-631); `validation` and `read` are the future and what its thread has
read; `disk` is what the files hold. `announced`, `fresh` and `served` are history:
nothing was edited since the last SIGHUP, the validation read after the last one that a poll found, a server ran.

A poll of the loop has two steps, since a signal handler may run between any two instructions of it:
`ShouldStopForReload` takes the flag of SIGHUP away (4168), and `ValidateReload` is what
follows, by what was found (`requested` or `not_requested`) and by how the validation stands: `QueueValidation`,
`Revalidate`, `NotReady`, `ValidateAgain`, `TakeResult` (`main.cpp` 547-588). `Replace`, `Restore`, `GiveUp`, `Stop` are the branches
of the loop in `main`, and `Leave` the end, with or without the thread. A *trouble* is a failure
that no configuration is to blame for: a validation that throws or hangs, a thread that
cannot start, a start or an `epoll_wait` that fails. The process is modelled from the
installation of the handlers on; before it, a signal has its default effect.

Run `reload`: two configurations that start, one that validates and cannot start, one that is
not valid; three SIGHUPs, two edits, one trouble (76,710 states). Three signals are one that
starts a validation, one that queues another, and one that comes while that is queued.

* `AppliedIsFresh`: what is taken up was read after the last SIGHUP that a poll has found. One that comes
  between the two steps of a poll is too late for it: what was read before is still applied, and the
  next poll validates again. What the user announced is on disk, and if no such signal is
  outstanding it is what is taken up.
* `BadReloadNeverStops`: a process that served exits with an error only after a trouble.
* `LatestIsServed`, `StopIsNotLost` under `FairSpec`: weak fairness of the main thread, which
  polls at least every 100 ms, and of a validation that does not hang. They hold only if nothing
  else happens for ever: `LatestIsServed` excuses an edit, a stop and a trouble.

## 9. LocalAnswer and DomainFilter

| Variable | In the code |
|---|---|
| `rules` | the entries of the filter, in their order; buckets are selections from it |
| `hosts` | `m->hosts`: the static table and one for each file |
| `last_hosts_check` | the same |
| `pc`, `scan`, `st_mtime`, `question` | where `process_local_query` is, and its locals |
| `reading` | the open file of `LineReader`: the lines it gives until its end, how many of them it has got at least, and whether saves still reach it |
| `file`, `now` | the files as other programs leave them, and the clock |
| `started`, `asked`, `saves`, `saved`, `newer`, `newest`, `versions` | history |

The server is one thread, but the files are not its own: `Save` and `Unlink` may come
between any two steps, so `stat` (`StatFile`), the opening (`OpenFile`) and the end of the read (`load_hosts_file`)
are steps of their own, and so are `initialize_hosts` and the validation that read the tables before
it. A version of a file is a list of lines, of which one may be broken. A saved file gets
the second of the clock as its mtime, or an earlier one (`cp -p`).

A file is read 1024 bytes at a time (`LineReader.h:12`, `LineReader.cpp:84`), and what a save in the middle does depends on
how it is done. A file that is replaced (`rename`) or removed stays what it was for who
has it open. One that is rewritten in place (`Rewritten`) changes under the reader (`Overwritten`): the lines
it has got stay, an end of the new ones follows, and where they meet there may be one more, torn
(`Torn`), that may or may not be valid. To truncate a file before writing it is a version without
lines. Left out are reads that fail, which keep the table and its time as an invalid file does.

`DomainFilter` is `add_entry` and `find` as pure operators: `domain_suffix_key`,
`domain_prefix_key`, the buckets, and the searches in the order of the code. A bucket is the set of the
positions of its rules, so that the first rule that matches is at the least position; the tables of
`LocalAnswer` are searched in the same way. `Covers` and `Verdicts` are the reference: what a rule covers
by its form alone, and the kinds that the covering rules of the first form have. Neither knows of keys or buckets;
what the buckets hide is `Missed`, by the lengths of the rule and the name.

`ParametersAssumption` says what a configuration is: rules whose names are valid domains
(`misc.cpp` 181-209, hence never empty and without a star), at least one hosts file, and
versions that are each of one path.

Run `local_answer`: two files with different suffixes and a static entry. One file is replaced and has two
versions, with a name that the static entry has too, and with a broken line; the other one is rewritten in
place and has three, one of them empty. Questions by name and by address. The interval and the second are a tick, the clock goes to
three, and there are two changes; steps within a tick come in any order. So a first save at 1 is seen by an inspection at 2, a second save
at 2 falls between its `stat` and its read or into the read, and the file has settled when the query at 3 is
answered. Seven filter rules, one of each form and some that share a key or have a single label, up to three at once in any
order, are searched for fifteen names, one of them with a label that is a star. With rules, time and the files
stand still (`MaxMixed`), as files and filters meet only in the order of the lookup (3,322,669 states).

* `FilterFindsRule`: a name gets the kind of a rule that covers it, and of the first form
  (exact or wildcard, prefix, middle, regex) that has such a rule; `NORMAL` only when no rule
  covers it. The one exception is a rule of one label that is no local suffix: it may be overlooked for names two labels or
  more below it.
* `TablesAreVersions`: the table of a file that is replaced is some valid version of it, whole, with its suffix, whatever
  the file looks like now. Of a file that is rewritten in place this is not true, and not claimed: no `stat` follows the read at run
  time (the validation has one, 3976-3983), so its table can be a mixture of two versions, or empty.
* `AnswersFollowFiles`: once the files have settled (`Settled`), queries are answered as if from the
  files. Neither the throttle, nor a save between `stat` and read, nor one in the middle of a read leaves anything
  older: a mixture is in the table under the time that `stat` gave before, so the next inspection reads the file again.

Run `filter_subdomains`: `SubdomainsAreFiltered`, without the exception of `FilterFindsRule`, is violated. The repository's
`README.md:147-148` promises of a rule without a star "Exact match and sub domains"; `nxdomain = zip` filters
`zip` and `a.zip` and not `b.a.zip`, whose key is `a.zip`.

`Settled` has conditions, and each is a case in which the code serves old data:

* a save in the same second as the version that was read, or with an older mtime, is not seen at all
  (only a greater mtime counts, and it counts seconds, 4025), although 3990-3993 says that "File changes are still
  picked up within that window via mtime";
* files are validated before the server starts and not read again at the start, so what was
  saved in between waits for the first check, an interval later;
* of a file that is listed twice, with two suffixes, only the first table is ever refreshed: the
  lookup is by path (4020-4031).

A rule of one label does filter `b.*.zip`: its key has a star where such a name has its own; the proof of
`FilterFindsRule` found this. Where several rules of a bucket cover a name the
first one wins, so an earlier `nodata-aaaa` for a domain hides a later `nxdomain` for one below it.

## 10. Disagreements with the comments

Three runs expect a violation: `upstream_id_reuse` (section 3), `tcp_client_lost` (section 6) and
`filter_subdomains` (section 9). The observations on deadlines, rates and hosts files in sections 3, 7 and 9
are not stated as runs: they follow from a definition (`TimedOutQueries`, `GlobalBindsFirst`, `Settled`).

## 11. Proofs

`UdpForward_proofs` proves, for every value of the constants that satisfies
`UdpForwardAssumption` (finite sets, positive limits):

* `TypeCorrect`: `Spec => []TypeOK`. The lemmas say what each helper returns: that
  `ChooseChannel` finds a socket of the pool needs a least load, hence the lemma
  `LeastNat`, from the well-foundedness of `<` on the naturals.
* `CoalescingCorrect`: `Spec => []CoalescingInv`, and from it `PendingCorrect`,
  `WaitersCorrect`, `IndexesCorrect` and `RepliesCorrect`, one for each property.

`CoalescingInv` is `PendingIffInFlight`, `WaitersAreReachable`, `IndexesAgree` and
`AtMostOneReply` with `FreshLtids`: a transaction id not yet drawn is used nowhere.
None is inductive alone. A new transaction needs `FreshLtids`, or its entry could take
over old waiters; delivering a reply needs `WaitersAreReachable` to know that those
reached have not been answered; retiring queries needs `IndexesAgree` to know that
what is erased by key is the query's own entry. `FinishCoalescing` proves once that
retiring any set of registered queries keeps all of it, and the handlers cite it.

`UdpService_proofs` builds on both.

* `LoadCorrect` and `CapacityCorrect`, about counts. That a socket's load is exact makes `FinishLoad`
  subtract cardinalities without the cut at zero ever acting; `FreshLtids` makes a new query count
  once (`ForwardLoad`). A fan-out adds as many queries as it reached forwarders, at most what was
  left (`ForwardCapacity`).
* `OwnFailureMasksNothing`: `Spec => OwnFailureNeverMasksAnswer`. `QuestionInv` is what it needs: a
  transaction is in flight for one question, and a question (the root apart) with an answer of UDP in the cache has none in flight
  (`AnswerClosesQuestion`); TCP may overwrite that answer, but not bring one back. The answer that is stored retires all its siblings in the same step, and
  a new transaction starts only where the cache had nothing.
* `ServiceCorrect`: `Spec => ImplementsService`. The clients a question has open are those who
  wait with its transaction, so that joining, answering, failing and timing out are each one step of `UdpService`
  and the rest are stutters. That two questions never share a transaction (`QuestionInv`) keeps the steps apart.

`Logger_proofs` proves, for every value of the constants that satisfies
`LoggerAssumption`, `TypeCorrect` and `LoggerCorrect`: `Spec => []LoggerInv`. The
invariant is `Fifo` element by element (`InOrder`), `NothingUncounted`, `NoLostWakeup`, and
three facts they need: the writer's hands are empty outside a batch, losses are counted
only while the queue is full (so that the swap which empties it takes them all), and
`Phases`, which says where the writer can be as `x_start` and `x_stop` proceed.
`FifoCorrect`, `CountCorrect`, `StopCorrect` and `WakeupCorrect` follow. `FilesCorrect`
adds that files hold only lines already written. `ServiceCorrect` is the refinement:
`Spec => ImplementsLogService`, each action a step or a stutter of `LogService`.

`TcpTask_proofs` proves, for any finite set of descriptors, `TypeCorrect`, `OneOwnerHolds`,
`NothingIsLost` and `WithinLimitsHolds`. The types come in three parts, `Descriptors`, `Counters` and `Runs`, because
Boolean variables need another prover than the rest. `Ownership`, which is `OneOwner` with
`NothingElseLost`, is inductive given `Descriptors`: a number that the kernel hands out is closed,
and nobody owns what is closed (`ClosedIsFree`), so a new task disturbs no old one. `Respond` covers an answer,
a timeout and the end of the loop; `RespondKeepsOwners` and `RespondLosesNothing` treat it once.
`WithinLimits` counts tasks and clients differently, since a client is a descriptor and a task may hold
two: `Limits` bounds the tasks, and `Ownership` makes the map from client descriptors to
the tasks that hold them an injection.

`RateLimit_proofs` proves `TypeCorrect`, `TableIsBounded`, `WindowIsBounded`,
`OnlyTheActiveKeepOut` and `AdmittedWereListed` for any rate, burst, table and set of clients. `Tabled` is the types
with `TableBounded` and `BucketsArePast`. `WindowHolds` strengthens `WindowBounded` by what the
server could admit at once: queries that were paid for and tokens in hand share one budget.
The last theorem needs `GlobalBindsFirst`, so that the client's bucket is not what refused, and
`SeenSinceSweep`, so that who is in the table was seen recently even between sweeps.
`AdmittedWereListed` relates the division by a power of two in the test of the last byte to the bits the property compares;
what is needed of powers of two is shown by induction over sets of naturals (`SetInduction`, from the well-foundedness of `<`), since
the library's induction takes an operator. `NetworkAssumption` says what a parsed address and prefix are.

`Reload_proofs` proves `TypeCorrect`, `FreshnessHolds` (`Spec => AppliedIsFresh`) and
`BadReloadIsUndone`, for any number of signals, edits and troubles. For `FreshnessHolds`, `ReadsAreTold`: a
result that was read before a signal that a poll has found is accompanied by that request, not yet
acted on, or by `validate_again`. For `BadReloadIsUndone`, `WayBack`: as long as only configurations
fail, a server that has served can start either what it has or what it would go back to.

`DnsCache_proofs` proves `TypeCorrect`, `IndexCorrect`, `BytesCorrect`, `TtlCorrect` and
`CacheCorrect` for any keys, nodes, messages and limits that fit into a `size_t`
(`DnsCacheAssumption`). The invariant is `CacheInv`:

* `Shape`, the types; `Matched`, the list holds nothing twice and the index is its inverse; `Counted`,
  the counter is the sum of the charges and within the limit; `Dated`, a record ends within its bound (what
  its owner or the override gave it, capped) from its birth, and one that decides ends with its entry.
* None stands alone. That erasing by key removes the node of that key is `Matched`; that the subtraction
  of its charge does not wrap is `Counted` for a node that `Matched` puts in the list.
* The sum of the charges (`BytesOf`) is the cardinality of a set of pairs, so that taking an entry away or adding one is a lemma
  on finite sets and no induction over the list. Removal and the front of a list are lemmas by
  position (`RemoveAtResult`, `Holds`).
* `CacheCorrect` reads the list as the list of its keys (`Keyed`). The eviction of the abstract cache keeps as many
  entries as that of the concrete one, because both count the same bytes.

`LocalAnswer_proofs` proves `TypeCorrect`, `TablesCorrect`, `AnswersFollow` and `FilterCorrect`
for any files, listings, versions, rules and names (`ParametersAssumption`). The invariant is
`LocalInv`: `Shape`, `Files`, `Clocks` (no recorded time is ahead of the clock), `Tables` (there is one for each
listing, in order, each a version of its file if that is replaced), `Reader` (what the open file gives is such a version too; of any
file it is the present content, unless that was saved after the inspection began and has a later time than `stat` gave) and
`Fresh`, which `AnswersFollowFiles` needs:

* `Seen`: a file that was saved later than all its earlier versions is in its table, unless the
  table is older than it;
* `Followed`: it is in its table once an inspection that began after the save has passed it;
* `Prompt`: the inspection a query relies on began within an interval of the query.

A save between `stat` and the opening gives the table the new content under the old mtime, one during the read a mixture, or what
was there before, under the old mtime; both keep `Seen`, and the next inspection reads the file again. `SettledAgree` derives from the three that every table of a
settled file has its content, and `SameAnswers` that equal tables give equal answers.

`FilterCorrect` goes by keys: `WrittenKey` says which bucket a rule went to, `CoveringIsReached` that one of the two suffix
searches looks into it if the rule covers the name and is not `Missed`, and `FirstSearchCovers` and `SecondSearchCovers` that what they find there
covers it. `RuleFound` then compares the first search that succeeds with the least rank of a covering rule.

Proving also corrected the model: in `modify_received` and in `Verdicts`, guards of a CASE overlapped,
which leaves its value open although TLC takes the first one; both are now stated without overlap.

Only model-checked are the liveness properties: `EveryWaiterLeaves`, `ReservationsExpire`, `LinesAreWritten`,
`StopReturnsEventually`, `ClientsLeave`, `ListenersResume`, `LatestIsServed` and `StopIsNotLost`. They rest
on fairness, hence on ENABLED, which this prover does not reason about.

## 12. Not modelled

* Option parsing and `LineReader`: a pass over files at one moment, without state that outlives it.
  `Reload` has its result, a configuration that is valid or not.
* The DNS codec: byte-level work on one buffer. That a message cannot be parsed or built is
  an outcome which the actions of `UdpForward` and `TcpTask` may have.
* The resolver of forwarder names (one blocking call at a start or a validation), the
  ChaCha20 generator (the models draw its numbers nondeterministically), string and file helpers.
* epoll's readiness rules, `init_socket`, and what the end of the loop does to UDP clients, which
  wait in vain.
