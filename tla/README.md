# ftnode in TLA+

ftnode is a middleware between SQL clients and several databases of different
makers. A client speaks to it over TCP as if it were one database; the
middleware runs every statement at every database (the *DivRep* protocol),
compares the results and commits only what all databases agree on. This
directory models that program, from the parsing of its settings file to the
commit at the last database, model-checks the models with TLC and proves with
TLAPS, for every value of the constants, the central protocol and its refinement of
a single database, the cutting, comparing and answering of requests, the start and
end of the program, the hand-over of messages, slots and threads, and that the parts
keep to what they assume of each other when they are put together.

    tlc -workers 2 -config divrep.cfg MCAdjudicator     # any run of PROJECT.json
    tlapm AdjudicatorProofs.tla                         # the proofs; also DivRepProofs,
                                                        # RequestsProofs, StartupProofs,
                                                        # TcpSessionProofs, DbServiceProofs,
                                                        # MiddlewareProofs, DataLemmas

Paths below are relative to the repository (`src/` is its C++ source directory,
`headers/` its headers).

## 1. The system

    settings.xml --tinyxml--> xml_settings --> main: ftnode_mw::start
                                                 |             |
                                            tcp_server     std::async: operator()

    client --TCP--> tcp_acceptor --add_request--> threadsafe_queue
                                                       |  pop_unique
                                                db_service::operator()
                                     make_active |                | run_job
                                            db_buffer         thread_pool
                                                 \                /
        tcp_session --msg_q / get_client_msg-->  db_adjudicator::process_request
        (io thread)                              | std::async, one per database
                                             db_executor --SQLAPI++--> database

| component | state | operations | talks to |
|---|---|---|---|
| `tcp_server`, `tcp_acceptor` | io threads, `acc`, `accept_cons` | start, stop, `add_session_to_buffer` | makes a `tcp_session` per connection and queues it at `db_service` |
| `tcp_session` | `m_request`, `msg_q`, `cv_sess` | `read_handler`, `action_msg_received` (io thread), `get_client_msg` (pool thread), `client_response` | client; adjudicator |
| `threadsafe_queue` | queue of sessions | `push_unique`, `pop_unique` | acceptor; dispatcher |
| `db_service` | `tcp_sess_q`, `stop_process` | `add_request`, `operator()` (the dispatcher) | buffer, pool |
| `db_buffer` | stack `st` of free slots, `slots_free`, 200 adjudicators | `make_active`, `make_inactive` | dispatcher, pool threads |
| `thread_pool` | `threads_free`, an `io_service` with 12 threads | `run_job`, `wrap_job` | dispatcher, pool threads |
| `db_adjudicator` | the logic booleans, `msg_cnt`, `first_done`, the static mutex `mx` | `process_request` and its begin, execute, verify, commit, rollback, `handle_failure` | executors, session, every other adjudicator through `mx` |
| `db_executor`, `sql_grain` | a connection, the statements of a request and their results | `exec_sql`, `execute_sql_grains`, `commit`, `rollback`, `disconnect` | one database; answers the client when it is the first to finish |
| databases | committed data, open transactions, row locks | external | |
| `tinyxml` (vendored) | the tree of a document, its first error | `LoadFile`, a `Parse` per kind of node, `Print`, `TiXmlPrinter` | `xml_settings` |
| `xml_settings`, `globals` | database sources and endpoints | `load_settings_xml`, `load_item`, `proc_db_sources`, `proc_end_point`, `global_init` | tinyxml; `main`, `db_buffer`, `ftnode_mw` read it |
| `ftnode_mw`, `main` | the server, the future of the dispatcher, the exit code | `start` and its handlers | starts `tcp_server` and `db_service::operator()`, waits for the latter's exception |
| `logger` | log files | | nothing reads them |

What is hard in it:

* **Several sessions, one mutex, many databases.** A snapshot is consistent
  across databases, and commits come in one order everywhere, only because the
  begin, commit and rollback loops of all adjudicators exclude each other under
  `db_adjudicator::mx`. The statements in between run without it.
* **Executors race.** One task per database; the first to finish answers the
  client while the others may still fail, block on a row or disagree.
* **What is inferred from flags.** Whether a message must roll back, may commit
  or is new SQL follows from five booleans and a 16-bit counter that earlier
  messages, failures and even earlier sessions of the slot have written.
* **Exceptions.** Some are turned into a rollback and an answer; those of
  begin, commit and rollback leave `process_request`, are swallowed by the
  thread pool and take the slot with them.
* **Texts with two meanings.** A request is cut with 16-bit positions, its results
  are compared through truncated counts and through hashes of columns that were
  formatted, cut to the day and joined without a separator, and the rows of all its
  selects are kept in one command.
* **Start and end.** The dispatcher runs, and fails, on a thread of its own while
  `main` is still opening the port; its destructors wait for each other. The
  settings come from a recovering parser, and their ids must be the executors'
  positions.
* **Hand-over between threads.** io threads, the dispatcher, pool threads and
  executor tasks share the mailbox, the stack of slots, the thread count and
  the session objects.

The complete list, each entry at its line, is under `hazards` in PROJECT.json.

What makes each component correct:

* adjudicators: the replicas have one committed history; a transaction reads one
  snapshot of it; the answers tell the truth; a session that ends leaves nothing
  open; only matching results are committed; agreement is never punished; a
  request that started ends.
* requests: every executor gets the client's statements; equal data passes and
  different data fails, as far as hash and count can tell; the client is sent what
  its statements did; a request that ends leaves no connection in use.
* settings and start-up: a file that was cut short is refused; every source has
  its executor; a start-up serves or ends; a dispatcher that fails ends the
  program, and leaves nothing running.
* tinyxml: a file is read as the tree it spells, or refused.
* mailbox: the client's messages arrive once and in order, an error is never
  forgotten, a queued message is taken.
* buffer and pool: a slot and a thread have one owner; the counters match what
  they count, also when a step throws half-way; nobody waits for a slot or
  thread that is free; a session outlives whatever still uses it.

## 2. Modules

| module | models | notes |
|---|---|---|
| `Replicas` | the databases | external: snapshot isolation (demanded by `readme.txt`), first updater wins, row locks |
| `Adjudicator` | `db_adjudicator`, `db_executor`, `sql_grain`: transactions | one copy per slot; EXTENDS `Replicas`; also states the properties |
| `OneCopy` | abstract specification | one database under snapshot isolation |
| `DivRep` | refinement mapping | `Adjudicator` implements `OneCopy` |
| `AdjudicatorInv` | the inductive invariants `IInv`, `DatabaseInv`, `AnswersInv` | |
| `AdjudicatorProofs`, `DivRepProofs` | proofs | types and the protocol; the refinement and `NoFalseAlarm` |
| `MCAdjudicator` | TLC instances of the above | requests, symmetry |
| `Requests`, `MCRequests`, `RequestsProofs` | `create_request`, the tasks of `db_executor`, hashes, answers, `verify_request` | one request; the data that `Adjudicator` takes for exact |
| `Mailbox` | abstract specification | a sequence of messages that are sent, lost and read |
| `TcpSession`, `TcpSessionProofs` | `tcp_session`'s mailbox | implements `Mailbox` |
| `SessionService` | abstract specification | one line of sessions and a set of places in which they are served |
| `DbService`, `DbServiceProofs` | acceptor, queue, dispatcher, buffer, pool | implements `SessionService`; `process_request` is one step that returns or throws |
| `Middleware`, `MCMiddleware`, `MiddlewareProofs` | `db_service` with its adjudicators at work | composes `DbService` with `Adjudicator`: `process_request` is what the jobs do |
| `XmlText` | tinyxml's parser | operators over texts |
| `XmlPrint` | tinyxml's printers, which the program does not call | EXTENDS `XmlText`; cross-checks the model of the parser |
| `SettingsRecord` | what a load of the settings leaves: `xml_settings`' members and how it ended | |
| `XmlSettings` | `xml_settings` | EXTENDS `XmlText`, `SettingsRecord` |
| `Startup`, `StartupProofs` | `main`, `ftnode_mw`, `tcp_server`, `tcp_acceptor`, the dispatcher's life, `set_db_info` | EXTENDS `SettingsRecord`; the loader is its constant `LoadedFrom` |
| `SettingsFile`, `MCStartup` | the start-up with its settings file | composes `Startup` with `XmlSettings` and `XmlPrint`; `MCStartup` has the files |
| `DataLemmas` | | facts on sets, sequences and multisets that several proofs use |

### Adjudicator

The variable `pc[s]` is where the pool thread of slot `s` stands in
`process_request`: `recv` (in `get_client_msg`), `begin`, `commit`, `rollback`
(in front of or inside the section under `mx`), `exec` (in `execute_request`),
`over` (returned), `free` (slot not in use) and `lost` (an exception left
`process_request`, so `make_inactive` was never called). `flag[s]` are the logic
booleans, `msgCnt[s]` the local counter with its width as the constant
`MsgCntModulus`, `idx[s]` the position of the loop over `v_dg`, `task[s][d]` the
executor's task (`run`, `reply` while it sends results, `ok`, `err`), `res[s][d]`
the grains executed so far and `replies[s]` what was written to the client since
its last message was taken.

| code | actions |
|---|---|
| branches of `process_request` | `ReceiveCommit`, `ReceiveEnd`, `ReceiveSQL`, `ReceiveCommitAsSQL` |
| `lock_guard` on `mx` | `Lock`, and the release in `Unlock` |
| `start_request` | `BeginDb` per database, `BeginDone`, `BeginFails` |
| `commit_request` | `CommitDb`, `CommitDone`, `CommitFails` |
| `rollback_request` | `RollbackDb`, `RollbackDone`, `RollbackFails` |
| `execute_sql_grains` | `RunSelect`, `RunDml`, `StatementFails`, `StatementDiverges` |
| `reply_to_client_upon_first_done`, `send_results_to_client` | `FirstDone`, `SendResults`, `SendFails` |
| join, `verify_request`, `handle_failure` | `Accept`, `Disagree`, `ExecutorFailed` |
| `make_active`, `make_inactive` | `StartSession`, `EndSession` |

Each iteration of the loops under `mx` is a step of its own: other sessions'
executors read and write between two commits of one transaction, as they do in
the program. A request is a sequence of statements, each a select or a DML
statement on one row. The hash of a select stands for the set of row versions it
covers, so two hashes are equal exactly when the databases returned the same
data; `{}` is the hash of an empty result, which `verify_request` never lets
count as a mismatch. (In the program that holds for the databases whose
configured hash function returns the md5 of the empty string; the model lets
every database be one.)

A begin, commit or rollback that throws leaves it open what the database has done
before it reported the error: nothing, or what it was told, or, at a commit, a
rollback. After `RollbackFails` the transaction and its locks may therefore be held at
the failing database as well as at those behind it.

`StatementDiverges` is a database that answers wrongly without an error: a DML
statement that reports and changes no row, a select with other data or with
none. A database that reports the right number of rows and does something else
is beyond any comparator of answers and is not modelled.

### Requests

One request at `NDb` databases, with the data that the transactions are about.
`msg` is a sequence of symbols, `grain[d]` the `sql_grain`s of executor `d`,
`at[d]` the statement it is at, `task[d]` the select and the hash task of that
statement, `executor[d]` which of its futures the executor waits for, `asked` how many
of the executors' futures `execute_request` has got, `table[d][i]` what select `i`
finds, `cursor[d]` the rows `cmd_sel` still has.

| code | definitions |
|---|---|
| `create_request`, `ltrim`, `rtrim` | `NextStatement`, one turn of its loop; `Split`, the recursive function of the turns, with positions modulo `W`; `AddSqlGrains`, `CreateRequest` |
| `execute_sql_grains` | `StartSelect`, `ExecuteSelect`, `ExecuteHashSelect`, `SelectFails`, `ExecuteDml`, `DmlFails` |
| `select_result.get()`, `hash_result.get()`, the destructors of both | `GetSelect`, `GetHash`, `Unwind` |
| `generate_concat_columns` | `ConcatColumns`; `Written`, `Formatted` and `Operand` are what a database makes of it, `Hash` the sorted hash of the rows |
| the loop over the executors' futures, their destructors | `GetExecutor`, `RequestFails` |
| `reply_to_client_upon_first_done`, `prepare_client_results` | `FirstDone`, `LaterDone`, `PrepareClientResults` |
| `verify_request`, `comparator_pass` | `Match`, `Emptied`, `Comparison`, `VerifyRequest` |

A hash is the set of the concatenated texts with their numbers: two are equal
exactly when an ideal hash of the sorted hashes would be. A product writes numbers
with decimals and dates with zeros of its own (`Written`); where `ConcatColumns`
recognises the column's type, the formats of `settings.xml` (`Formatted`) take the zeros
around a number away, and keep of a date its first `DayDigits` characters, the day. They
also lose what tells two times of one day apart. A column may be `Null`. At the products
in `NullSkips` (PostgreSQL), `||` with a null operand is null and the aggregate passes over the
row; at the others it counts as the empty text. That two products agree on every number
and day once it is formatted is assumed, as the settings intend it.
A text is a sequence of `Chars`, of which the code treats five in a way of its own:
the blank, the semicolon, the comma, the zero and, as one symbol, the word `select`.

### TcpSession

`sent` numbers the client's messages; `buffered` is `m_request` and the bytes on
the way to it; `msgQ` is `msg_q`; `handler` and `getter` are the two threads. The
getter's wait is three steps (the predicate, the way to sleep, the sleep)
because `action_msg_received` does not hold `tcp_sess_mx` when it pushes and
notifies. The push itself is atomic in the model.

`Mailbox` is what the program may rely on: messages underway are read one by one in
the order they were sent; when the connection breaks those not yet read may be lost, a
SOCKET_ERROR comes behind the ones that are left, and nothing follows it.
In the mapping, what is in transit is what is queued and what is buffered behind it; an
io thread's push with its consume, and all the steps of the waiting, are stutters.

### DbService

`MakeActive` and `MakeInactive` are the critical sections of `db_buffer`,
`RunJob` and `FreeThread` those of `thread_pool`, `PopSession` and `Accept` those
of `threadsafe_queue`; each waits by a guard. Every exception path is an action:
`MakeActiveFails` (the slot goes back, `operator()` ends), `Unwind` (the buffer is
destroyed before the pool is joined), `JobThrows` (`wrap_job` swallows it and
nobody gives the slot back), `MakeInactiveFails` (`Disconnect` throws after
`st.push` and before `slots_free++`). `reader[c]` is the session's pending
`async_read_until`, `gone` the destroyed sessions. `is_active()` is true whenever
a job asks for it, so its other branch has no action.

`SessionService` has neither slots on a stack, nor counters, nor threads: sessions
arrive in one line, the first one is served in a place that nobody has, leaves or
fails, and a place that an exception spoilt is not used again. The mapping's line is
the queue, then the session in the dispatcher's hand, then the jobs that no thread has
taken; it says that these three hand-overs together neither lose, nor duplicate, nor
overtake.

### Middleware

`DbService` lets a job return or throw at any time, `Adjudicator` lets a free slot
start a session, and one that is over end it, at any time. `Middleware` EXTENDS the one and instantiates the other,
and has them take these steps together:

| code | action | of `DbService` | of `Adjudicator` |
|---|---|---|---|
| the job calls `process_request` | `StartJob` | `TakeJob` | `StartSession` |
| `process_request` and its tasks | `RunProcess` | | any step but the two of the session |
| it returns | `ReturnFromProcess` | `JobReturns` | (at `over`) |
| `wrap_job` swallows its exception | `ThrowFromProcess` | `JobThrows` | (at `lost`) |
| `make_inactive` | `EndJob` | `MakeInactive` | `EndSession` |
| its `disconnect` throws at executor `n` | `EndJobFails` | `MakeInactiveFails` | the databases before `n` are disconnected, the others keep what they have |
| acceptor, dispatcher and its failures, the end of `wrap_job` | `Serve` | each of them | |

What is new in it: a thread that is at a job drives one adjudicator, the one of its
slot, and only while the buffer lives (`BufferAlive`; what jobs do after `Unwind` is
undefined); the session of the slot decides when `get_client_msg` gives SOCKET_ERROR;
a half-way disconnect, which neither of the two modules can express. Which exceptions
leave `process_request` is `Adjudicator`'s business: `JobFaults` tells `DbService`
that there are some.

### XmlText, XmlPrint, XmlSettings

A text is a sequence of symbols: marks and white space one by one; a word, a numeral
and the body of a character reference are never cut. Position `p` stands for the
`const char*` of the code, 0 for the null pointer. A `Parse` operator returns where it
stopped, the document's error (`d`) and the node. The operators follow the
C++ functions of the same names; the loops are recursive operators. `IsWhiteSpace`
through `ReadText` are the helpers, `SetError` the bookkeeping,
`CommentParse` through `ElementParse` the nodes, `Printed` and `Accept` the two ways of
writing. `XmlSettings!LoadItem`, `ProcDbSources` and `ProcEndPoint` walk the tree as
`xml_settings.cpp` does and end as the code would: `loaded`, `rejected`, `threw`
(a `std::string` of a null attribute), `crashed` (a null pointer used, an assertion).

### Startup

`main` says where the main thread is in `main`, `ftnode_mw::start`, `tcp_server::start`
and `stop` (one step for each call that another thread can see), `dispatcher` where the
thread of `std::async` is in `operator()`, `thrown` the exit code its exception leads to.
`acceptor`, `acceptCons` and `ioThreads` are the server; `dbi[i]` is the source that
`set_db_info` gave executor `i`. Sessions are only counted (`arrived`, `waiting`,
`served`): the other modules say what happens to them. `BindFails`, `ListenFails`,
`ThreadsFail` (no thread can be created, or not all of them) and `MakeActiveFails` are
the failures from outside. The first exception decides the exit code. The destructor of the future is the
guard `FutureReady` of `LeaveStart`.

What `load_settings_xml` makes of the file is the constant `LoadedFrom`, of which
`Startup` assumes that it leaves vectors of sources and endpoints (`LoadAssumption`).
The run gives it the real value, `XmlSettings!LoadSettings`, and TLC evaluates the
assumption for each of its files. The constant keeps the recursive operators of the
XML modules out of the modules that `StartupProofs` reaches, where the prover could
not handle them; its theorems hold for every loader that keeps the assumption.

## 3. Runs

| run | instance | shows |
|---|---|---|
| `divrep` | 2 slots, 2 databases, 1 row, writers wait, begin and rollback fail | `TypeOK`, `ConsistentSnapshots`, `NoFalseAlarm`, `NoImplicitBegin`, `RepliesTrue`, `SessionEndsClean`, `ImplementsOneCopy` |
| `three_dbs` | 1 slot, 3 databases, all faults, requests of two statements | `AgreedLogs`, `CommitNeedsMatchingDml`, `RepliesTrue` with any subset of databases failing |
| `live` | 2 slots, 2 databases, locks refused, fairness | `MessageHandled`, `MutexReleased` |
| `tcp_session` | 5 messages, 2 in flight | `TypeOK`, `DeliveredInOrder`, `ErrorNotForgotten`, `ImplementsMailbox` |
| `db_service` | 3 sessions, 2 slots, 2 threads, all faults, fairness | `TypeOK`, `SlotOwnership`, `StackCoversCount`, `JobsHaveThread`, `SessionKept`, `ImplementsService`, `Served` |
| `middleware` | 2 sessions, 2 slots, 2 threads, 2 databases, clients that write one row; begin, connect and disconnect fail | `NoReentry`, `FreeSlotsClean`, `MutexHolderRuns`, `ImplementsAdjudicator` |
| `requests` | 2 databases, every message of up to 7 symbols and requests of one or two statements, two selects included, 8 tables | `TypeOK`, `SplitCorrect`, `ConnectionsQuiet`, `VerdictRight`, `ResultsDelivered` |
| `startup` | every text of up to 3 fragments, alone, in the root element and in an attribute, and settings files of up to 2 sources; 2 clients; fairness | `TypeOK`, `RoundTrip`, `TruncationRejected`, `ServedByAll`, `NothingLeftRunning`, `Settles`, `FailureEndsProgram` |

Four refinements are checked: `ImplementsOneCopy` (`divrep`),
`ImplementsMailbox`, `ImplementsService` and `ImplementsAdjudicator`. `live`,
`db_service` and `startup` check liveness. What the properties of the two last rows
leave out is stated in them, because the code is not better than that: the
comparison is exact, up to the time of day, for one column without nulls, for results
with a row at least and for counts that an int can hold (`Exact`, `SameToTheDay`); equal
data passes where the two products agree about its nulls, or it has none (`NullsAlike`);
the rows of a request arrive if it has at most one select and no row ends in an empty or null column
or in a comma (`rtrim` is given the row with its separators and takes every comma at its
end, those of the last column's own value too), and printing is inverse to
parsing for trees without a literal `&#x` in text or values, without quotes and
ampersands in a declaration, and without white space made by references
(`Printable`). `Settles` names the two
ways of hanging that there are (`Hanging`), both in the destructor of the future:
without an endpoint, or when `listen` or a thread fails, `main` waits for a dispatcher
that waits for a client; and if that dispatcher has failed meanwhile, for sessions whose
clients no io thread hears any more. `RoundTrip` is about a part of tinyxml that the
program does not use: it shows that the model of the parser reads what tinyxml writes,
which `TruncationRejected` and the loading of every settings file rest on.

Four runs look for a violation and find it; each is something a comment of the
code promises and the code does not do (`findings` in PROJECT.json quotes them):

| run | property | what happens |
|---|---|---|
| `stale_verdict` | `VerdictHasTransaction` | after SOCKET_ERROR the slot's next session inherits the verdict; its first COMMIT is dropped without an answer |
| `empty_result` | `AnyMismatchRollsBack` | a database that returns no row is not a mismatch |
| `lost_wakeup` | `ContinuallyRead` | a message stays in `msg_q` for ever, SOCKET_ERROR too |
| `stale_handler` | `HandlerHasSession` | a session is destroyed while its read handler is pending |

Two more things that `Adjudicator` shows of the code have no run, since no comment
promises otherwise as plainly: a second COMMIT begins a transaction and is answered as
a request without statements (`ReceiveCommitAsSQL`), and two sessions whose writers
wait can deadlock across two databases, where no database sees the cycle.

### Bounds, and why they are enough

* Two slots: every race of the protocol is between two sessions (a begin against
  a commit, a writer against a writer, two executors of one session against
  another's); the proofs cover any number.
* Two databases suffice for "one did and the other did not"; `three_dbs` adds
  the middle position of each loop, and every kind of fault. Two sessions of which one
  is given a wrong answer are not in a run; there the proofs stand for TLC, since
  `AgreedLogs` and `OneCopyImplemented` hold whatever a database diverges in.
* One row is where conflicts are; sessions on different rows do not meet except
  at `mx`, and cross-database deadlock already needs one row only.
* `MaxLog` stops *new DML requests* once a log has that many commits (1 or 2):
  a transaction that sees one commit, misses another, and conflicts with either
  fits in 2. Commits already under way may exceed it.
* `MsgCntModulus` is 2 or 3 instead of 2^16, so that the counter wraps within a
  few requests of one transaction: the wrap is explored, not avoided.
* `MaxSent` 5 with `Window` 2 (pipelining), 4 with `Window` 1 (a client that waits
  for its answers) in `lost_wakeup`. Messages are numbered, so any loss or
  reordering would show with three of them.
* `BufferSize` and `PoolSize` 2 with three sessions: both limits are reached and
  released, and a leaked slot leaves one in use.
* `middleware`: two sessions at two slots run side by side, and the second one also
  comes into the slot that the first one had; a begin fails at the first or the second
  database, and disconnect at either. One commit (`MaxLog` 1) and `MsgCntModulus` 2
  keep the product of the two modules small; what they leave out is in the runs of
  `Adjudicator` alone, which `ImplementsAdjudicator` makes hold here.
* `requests`: `W` 6 stands for 2^16 and messages have up to 7 symbols, so that
  position and statement count wrap with a symbol to spare; `IntRange` 2 against row
  counts up to 2, so that one count is truncated onto another. Two databases, because
  the comparison is pairwise; one of them with `asynch_hash`, a hash of no rows that is null
  and a `||` that nulls make null, the other with none of these. The tables differ in
  order, multiplicity, type, emptiness, in the time of one day (`DayDigits` 1) and in how
  their columns join; one has a null, one a value that ends in a comma.
* `startup`: three fragments are enough for every pair of neighbouring constructs
  inside a third, and each of the 18 883 files is an initial state; the settings files
  have the sources' ids in every order and combination, each kind of defect alone and
  after a correct source. `TruncationRejected` cuts each file at every symbol. Two
  clients: one that is served while another makes the dispatcher fail.

Deadlock checking is off (`CHECK_DEADLOCK FALSE`) because the system may really
stop: all slots lost, every session gone, the dispatcher thrown out, or two
sessions deadlocked over rows.

### Fairness

`Adjudicator!Fairness`: the pool thread's and the executors' steps are weakly
fair, since a thread that can go on is scheduled. `Lock` and `FirstDone` are
strongly fair because `mx` is contended: it is free and taken again and again, and
the assumption is that a `std::mutex` does not starve one waiter for ever.
Nothing the client does (`Receive`, `StartSession`) and no fault is fair.
`live` uses a lock policy without waiting: with waiting writers the deadlock across
databases makes `MessageHandled` false, and a client that never ends its transaction
would block the others.

`TcpSession!FairSpec`: both threads run; clients send and spurious wakeups come if
they like. `DbService!FairSpec`: dispatcher and pool threads run. `Served` assumes
in its own statement that clients leave (the code has no timeout: twelve idle
clients do stop the service), that some slot is not lost to an exception and that
no connect fails.

`Startup!FairSpec`: the main thread and the dispatcher run, each weakly fair as a
whole. Which of `Bind` and `BindFails`, `MakeActive` and `MakeActiveFails` happens is
left open; nobody has to start the program, to connect or to leave.

## 4. Proofs

Every theorem holds for every value of the constants that the named assumptions of its
module allow. `ReplicasAssumption` and `AdjudicatorAssumption` admit every set of slots
and rows, every number of databases, every set of requests, every combination of faults,
both lock policies and every width of `msg_cnt`; `RequestsAssumption` and
`TablesAssumption` every set of messages and of tables with as many values, nulls
included, in a row as columns, every width of positions and counts, every length of a day,
and every assignment of `asynch_hash`, of null hashes and of nulls in `||` to databases; `StartupAssumption` and `LoadAssumption` every file, every
loader that leaves vectors, and every number of clients. The mailbox is proved for every
`MaxSent` and `Window`, the service for any number of sessions, every size of buffer and
pool and every set of faults; `MiddlewareAssumption` adds to those of `Adjudicator` only
that its slots are the buffer's and that there is a slot and a thread.

| theorem | establishes |
|---|---|
| `AdjudicatorProofs!TypeCorrect` | `TypeOK` |
| `Invariance` | `IInv`, the inductive invariant |
| `AgreedLogsCorrect` | `AgreedLogs` |
| `ConsistentSnapshotsCorrect` | `ConsistentSnapshots` |
| `NoImplicitBeginCorrect` | `NoImplicitBegin` |
| `RepliesTrueCorrect` | `RepliesTrue` |
| `SessionEndsCleanCorrect` | `SessionEndsClean` |
| `CommitNeedsMatchingDmlCorrect` | `CommitNeedsMatchingDml` |
| `DivRepProofs!FirstUpdaterWins` | `DatabaseInv`: row locks are exclusive, and nothing newer than a snapshot touches a row its transaction wrote |
| `OneCopyWhileIntact` | `ImplementsOneCopy` in every behaviour in which no commit loop was cut |
| `OneCopyImplemented` | `ImplementsOneCopy` where `Commit` does not fail |
| `AnswersDetermined` | `AnswersInv`: what each grain of a request is, without faulty databases |
| `NoFalseAlarmCorrect` | `NoFalseAlarm` |
| `RequestsProofs!RequestsInvariant` | `RequestsInv`, the inductive invariant |
| `RequestsProofs!TypeCorrect` | `TypeOK` |
| `StatementsRight` | `SplitCorrect` |
| `NothingLeftBehind` | `ConnectionsQuiet` |
| `ResultsRight` | `ResultsDelivered` |
| `VerdictCorrect` | `VerdictRight` |
| `StartupProofs!TypeCorrect`, `SourcesServed`, `AllJoined` | `TypeOK`, `ServedByAll`, `NothingLeftRunning` |
| `TcpSessionProofs!TypeCorrect`, `DeliveredInOrderCorrect`, `ErrorNotForgottenCorrect` | `TypeOK`, `DeliveredInOrder`, `ErrorNotForgotten` |
| `MailboxImplemented` | `ImplementsMailbox` |
| `DbServiceProofs!Invariance` | its `IInv` |
| `DbServiceProofs!TypeCorrect`, `SlotOwnershipCorrect`, `StackCoversCountCorrect`, `JobsHaveThreadCorrect`, `SessionKeptCorrect` | `TypeOK`, `SlotOwnership`, `StackCoversCount`, `JobsHaveThread`, `SessionKept` |
| `ServiceImplemented` | `ImplementsService` |
| `MiddlewareProofs!AdjudicatorImplemented` | `ImplementsAdjudicator`: the composition is an `Adjudicator` |
| `MiddlewareInvariance` | `MwInv`, the inductive invariant |
| `NoReentryCorrect`, `FreeSlotsCleanCorrect`, `MutexHolderRunsCorrect` | `NoReentry`, `FreeSlotsClean`, `MutexHolderRuns` |

**Adjudicator.** None of the safety properties is inductive. The parts of `IInv`
(`AdjudicatorInv`) are what each step needs to know:

* `MutexInv`: only the holder of `mx` is inside a loop. Without it two commit
  loops could interleave.
* `TasksOf`, `FlagsOf`: what an executor's task and the flags say about the
  request; that a request under way is undecided and unverified.
* `TxOf`: at which databases the transaction is open, at every location: all or
  none while waiting, a prefix inside the begin loop, the rest inside commit and
  rollback. This is where `msgCnt # 0` implies an open transaction, hence
  `NoImplicitBegin`, also across the counter's wrap.
* `RepliesOf`: the last answer agrees with `TxOf`.
* `WritesOf`: all databases hold the same writes of a transaction, up to the DML
  statements of the current request (`Wrote`); equal row counts, which
  `verify_request` checks and `VerdictOf` remembers, make them equal again.
  Without it, a commit could publish different rows at different databases.
* `LogInv`: while a commit loop runs, the databases it has passed are exactly one
  record ahead (`Published`).
* `SnapInv`: snapshots taken by a running begin loop are of the present logs,
  which nobody can extend meanwhile.

Most steps concern one slot. `Locality` says what a step of one slot leaves alone
of the others, so `SlotStep` preserves the per-slot parts action by action (one
lemma per action or family), and only `LogStep` and `SnapStep` look across slots.
`Intact` in `AgreedLogs`, `ConsistentSnapshots`, `LogInv` and `SnapInv` excludes
the states after a `Commit` that threw half-way through the loop: the code has no
second phase and the replicas do differ then.

**The refinement.** `IInv` says what the middleware does; `OneCopy` also promises that
of two overlapping writers of a row one fails, and that is the databases' doing.
`DatabaseInv` states it: `LocksInv`, two transactions never hold writes of one row, and
`FreshInv`, a log has no record behind a snapshot that shares a row with what the
transaction wrote. Neither follows from anything else; `StepAtDatabases` shows that a
step of a slot does one operation of `Replicas` at most, and these preserve both. The
mapping reads the last database of the loops; `MappingDefined` is that the others
continue its log and have its snapshots. A begin, commit or rollback at the last
database is the abstract step, and every other step is a stutter (`StepAtLastDb`);
`FreshInv` is what makes the commit a first committer's, as `OneCopy` demands. `OneCopyWhileIntact` has `[]Intact` as a
hypothesis because after a commit loop that was cut there is no single database the
replicas could be mapped to; it is what the code gives. `OneCopyImplemented` discharges
the hypothesis from `"commit" \notin Faults`, as run `divrep` has it.

**NoFalseAlarm.** Agreement has to be shown of answers that were given at different
times, while others committed. `AnswersInv` says that a grain depends on nothing that can
change: the versions in the snapshot (`Seen`, a prefix of a log that only grows), what
the transaction had written when the request began, and the statements before it. With
equal snapshots and agreed logs these are the same at every database, and for a row the
transaction has written the version is its own; here `FreshInv` is needed again.

**Requests.** `RequestsInv` has a part for each thing `verify_request` and the answer
rely on and that earlier steps have left behind: `Cut` (each executor has the statements
of the message, still), `Tasks`, `Waiting` and `Ended` (which tasks can be running at each
place of `execute_sql_grains`, and which executors at each place of `execute_request`; an
executor fails only behind both futures of its select, and a request ends only behind all
executors, hence `ConnectionsQuiet`), `Hashed` (a select that ended has the hash of what *it* found, although
hash and select are two tasks and `asynch_hash` changes their order), `Fetchable` (the
cursor has the rows of the only select) and `Judged` (the verdict is the comparison of the
grains as they still are). Three facts about data carry the theorems:

* *Cutting.* `SplitRight` is proved by induction over the turns of the loop: the start is
  behind the semicolon that the last turn found (`NextSemicolon`), and the statements are
  those between the semicolons before it. Since theorems with operator parameters cannot be used here,
  induction is over a set (`DataLemmas!SetInduction`): the numbers for which the
  statement fails have no least element and so are none. Messages longer than positions
  can count are excluded by `Fits`, in the property as in the proof.
* *Answers.* `RowJoined` says, by the same kind of induction over the columns, that a
  separator behind every column and the commas taken from the row's end are a separator
  between the columns; `AnswerRight`, that the answer is the lines of the statements one
  behind the other, each select's rows fetched from what it found itself.
* *Comparison.* Equal hashes mean that each text occurs as often at the one database as
  at the other, where the property is about rows. `Multiset` counts occurrences, and two
  sequences count alike exactly if a bijection of their positions matches them
  (`PlacesMatched`); the bijection carries from rows to texts (`ImagesAlike`) and back, because two rows
  of one column have equal texts only if they are equal, or equal to the day. What a text
  is does not depend on the product, since the format undoes what the product wrote
  (`ZerosTrimmed`, `FormattedAlike`, `OperandIs`), and neither does which rows are passed
  over where products agree about nulls or there are none.

**Startup.** `StartupInv` ties the lives of the two threads together (`Lifetimes`), counts
sessions (`Counted`), and says that the executors' sources are fixed before the first one
is served (`Assigned`). That every source has its executor, and one only, is the
pigeonhole: an executor's source has its position as id, so the assignment is injective,
and there are as many positions as sources (`SourcesMatched`).

**TcpSession.** `Mail` is what was taken, what is queued and what is buffered, one
behind the other. Sending appends to it, breaking cuts it, and a read or a
`get_client_msg` only moves the boundary (`Handover`: what leaves the head of one
sequence for the end of another leaves their concatenation alone). The invariant says
that it is in order, that it has no SOCKET_ERROR while the handler reads, and that it
is everything sent while the connection stands; the first alone would not survive a
message sent behind an error. `MailboxImplemented` rests on the same: a client's message
gets the number behind everything taken and underway while the connection stands
(`Post`), a break leaves a prefix of what was underway (`CutBehind`), the error is
pushed when nothing is buffered and so comes behind everything (`Announce`), and the
connection cannot break or carry anything once the handler has stopped.

**DbService.** `OwnedOnce` puts every slot in at most one of four places: the stack, the
dispatcher's hand, a job nobody has started, a thread. `ThreadCount` says that
`threads_free` and the jobs not started add up to the idle threads, which bounds
`threads_free` and gives `JobsHaveThread`; the stack has no slot twice and so no more
than there are, which bounds `slots_free`. `SlotOwnership` counts with cardinalities
what `OwnedOnce` says without (`JobsCounted`). `SessInv` follows the sessions: each is in
the queue, in the dispatcher's hand or in one slot, and none of these is destroyed while
the buffer lives; since `make_active` destroys only what was in a slot that nobody holds,
no job loses its session (`SessionKept`).

**The service as one line.** `ServiceImplemented` follows a session through queue, hand
and jobs with facts on sequences that know nothing of sessions (`DataLemmas`:
`Handover`, `AppendConcat`, `FirstOfConcat`, `PrefixBehind`). `PopSession`,
`MakeActive` and `RunJob` are then stutters (`LineStep`), and `TakeJob` takes the head of
the line because the jobs are its front (`ServeStep`). A slot is unoccupied when no thread has it (`SlotOwnership` again),
and one an exception spoilt is in none of the four places of `OwnedOnce` (`LeakedIs`),
so it cannot come back. An exception in `operator()` cuts the line behind the sessions
that are dispatched (`CloseStep`).

**Middleware.** Every action has one of `DbService` or changes nothing there, by its
definition, so the invariant of `DbService` holds in the composition (`ServiceStep`). The
other direction needs more. `StartSession` wants the slot at `free` and `EndSession` at
`over`, and that is `Glue`: a slot that is on the stack, in the dispatcher's hand or in
a job has no `process_request`, one whose job returned has it at `over`, and one that
is neither `free` nor `lost` belongs to a thread. To keep `Glue`, a step of a thread
must not disturb the slot of another, which is `Owners`, from `DbService`'s invariant.
`EndJobFails` is the case that neither module has. The sessions of the databases behind
the one that threw keep whatever is open, and the slot goes back on the stack all the
same. It is harmless (`HalfDisconnected`) because at `over` nothing is open anywhere,
which is `TxOf` of `IInv`: the step is `EndSession` at whatever executor it stopped.
`MwInv` is the conjunction of `IInv`, `Owners` and `Glue`; the three properties follow
from it without a further induction, and with `AdjudicatorImplemented` so does every
theorem about `Adjudicator`.

Only model-checked:

* `RoundTrip` and `TruncationRejected`: the parser and the printers are
  recursive operators over texts and trees, and no module with a theorem can reach one;
  what they compute for every text would need induction over trees.
* The liveness properties `MessageHandled`, `MutexReleased`, `Served`, `Settles` and
  `FailureEndsProgram`: the prover handles neither fairness nor ENABLED.
* The properties of the four violation runs, which do not hold.

## 5. What is not modelled

* The SQL generated around the columns that are hashed, `select ... for update`
  (an ordinary select in the model), the layout of answers beyond commas and lines.
* `client_response`: what the client is sent is modelled (`Requests!results`,
  `Adjudicator`'s replies), `async_write` and the life of its buffer are not: it is
  given a local string that is gone when the function returns, and what the socket
  library then reads is undefined.
* In `Adjudicator` the hash and the select of one statement are one step; their two
  tasks are in `Requests`.
* `std::async` without a policy may defer a task to `get()`; the tasks are modelled
  as concurrent, which includes running one after the other.
* Exceptions that are not `std::exception` (SQLAPI++'s `SAException` may or may
  not be one, depending on its version) end the process instead of being swallowed
  by `wrap_job`: the behaviours are then prefixes of the modelled ones.
* The `COMPARATOR_FAIL` answer: `handle_failure` compares the whole message with
  the constant, and `execute_request` appends to it, so the branch is never taken.
* A deadlock that one database sees is resolved for cycles of two sessions.
* `db_service::stop()`, which the program never calls; accept errors, which are only
  logged; the truncation of the endpoint's port to 16 bits; environment and signals.
* tinyxml: editing and copying trees, its stream operators, handles, setters and other
  accessors, and encodings (the shipped settings are plain ASCII); rows and columns, which
  ftnode never shows; its string class is a sequence. Of what ftnode does not call, only
  the printers are modelled, as the cross-check of the parser that `RoundTrip` is.
* How exactly products write a number or a day: that the formats of the settings bring
  two of them to the same text is assumed (`Written`, `Formatted`).
* The logger: nothing reads what it writes, and its lock waits for nothing.
* Data races (unlocked `push` on `msg_q`, `failure_msg` of an executor) and what
  jobs do with the buffer after `Unwind`: undefined; listed as hazards.

## 6. Plan

Done: all modules of section 2 with their runs; proofs of every safety property that a
passing run checks, except the two about the XML texts; the composition of the service
with its adjudicators; abstract specifications of the database, the mailbox and the
service, each shown to be implemented. Left:

1. The mailbox in `Middleware`: `get_client_msg` is there `Adjudicator`'s choice of any
   message, and `Mailbox` says which one it would be. It would make the order of a client's
   messages visible in its answers.
