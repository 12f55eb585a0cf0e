------------------------------ MODULE Startup -------------------------------
(***************************************************************************)
(* main, ftnode_mw, tcp_server and the life of the dispatcher thread: the  *)
(* program reads settings.xml, starts db_service::operator() on a thread   *)
(* of its own, opens the endpoint's port, serves clients and ends when the *)
(* dispatcher throws.  A session is only counted here: TcpSession,         *)
(* DbService and Adjudicator say what happens to it.                       *)
(***************************************************************************)
EXTENDS SettingsRecord, Integers, Sequences, FiniteSets, FiniteSetsExt

CONSTANTS
  Texts,             \* the files that settings.xml may be
  LoadedFrom(_),     \* what load_settings_xml makes of one: XmlSettings!LoadSettings
  MaxClients         \* bound: how many clients connect

ASSUME StartupAssumption == MaxClients \in Nat

\* A load ends in one of four ways and leaves a vector of sources, each with an
\* integer id, and a vector of endpoints.
ASSUME LoadAssumption == \A text \in Texts : IsSettings(LoadedFrom(text))

VARIABLES
  settingsXml,  \* the file
  settings,     \* xml_settings, after loading
  main,         \* where the main thread is
  exitCode,     \* what main returns, or 0 while no exception has said so
  acceptor,     \* tcp_server::acc
  acceptCons,   \* tcp_acceptor::accept_cons
  ioThreads,    \* tcp_server::m_thread_pool, running m_ios
  dispatcher,   \* the thread of std::async: where operator() is
  thrown,       \* the exit code that its exception leads to
  dbi,          \* the source of each executor, the same in every adjudicator; 0: none
  arrived,      \* how many clients have connected
  waiting,      \* sessions in tcp_sess_q
  served        \* sessions on pool threads

serverVars == <<acceptor, acceptCons, ioThreads>>
serviceVars == <<dispatcher, thrown, dbi>>
sessionVars == <<arrived, waiting, served>>
vars == <<settingsXml, settings, main, exitCode, serverVars, serviceVars, sessionVars>>

\* Exit codes of constants.h, and main's code for any other std::exception.
GeneralError == 1
ErrDbConnection == 3
ErrXmlNoFile == 5

TypeOK ==
  /\ settingsXml \in Texts /\ IsSettings(settings)
  /\ main \in {"off", "start", "endpoint", "bind", "listen", "threads", "wait", "caught",
               "stopping", "leaving", "exited", "crashed"}
  /\ exitCode \in {0, GeneralError, ErrDbConnection, ErrXmlNoFile}
  /\ acceptor \in {"none", "bound", "listening", "closed"}
  /\ acceptCons \in BOOLEAN
  /\ ioThreads \in {"none", "running", "stopped"}
  /\ dispatcher \in {"none", "building", "pop", "activate", "unwinding", "thrown"}
  /\ thrown \in {0, GeneralError, ErrDbConnection}
  /\ dbi \in Seq(Nat)
  /\ arrived \in 0 .. MaxClients /\ waiting \in 0 .. arrived /\ served \in 0 .. arrived

Init ==
  /\ settingsXml \in Texts
  /\ settings = Nothing
  /\ main = "off" /\ exitCode = 0
  /\ acceptor = "none" /\ acceptCons = FALSE /\ ioThreads = "none"
  /\ dispatcher = "none" /\ thrown = 0 /\ dbi = <<>>
  /\ arrived = 0 /\ waiting = 0 /\ served = 0

Alive == main \notin {"off", "exited", "crashed"}

Exit(code) == main' = "exited" /\ exitCode' = code

-----------------------------------------------------------------------------
(* The main thread.                                                        *)

\* global_init, and main's handlers of what it throws.
GlobalInit ==
  /\ main = "off"
  /\ settings' = LoadedFrom(settingsXml)
  /\ \/ settings'.status = "loaded" /\ main' = "start" /\ UNCHANGED exitCode
     \/ settings'.status = "rejected" /\ Exit(ErrXmlNoFile)
     \/ settings'.status = "threw" /\ Exit(GeneralError)
     \/ settings'.status = "crashed" /\ main' = "crashed" /\ UNCHANGED exitCode
  /\ UNCHANGED <<settingsXml, serverVars, serviceVars, sessionVars>>

\* ftnode_mw::start as far as std::async, which starts the dispatcher.
StartDispatcher ==
  /\ main = "start"
  /\ main' = "endpoint"
  /\ dispatcher' = "building"
  /\ UNCHANGED <<settingsXml, settings, exitCode, serverVars, thrown, dbi, sessionVars>>

\* at(0) throws outside the try block: the future's destructor is next.
TakeEndpoint ==
  /\ main = "endpoint"
  /\ IF settings.endpoints = <<>> THEN main' = "leaving" /\ exitCode' = GeneralError
                                  ELSE main' = "bind" /\ UNCHANGED exitCode
  /\ UNCHANGED <<settingsXml, settings, serverVars, serviceVars, sessionVars>>

\* The constructor of tcp_acceptor opens the port and binds to it.
Bind ==
  /\ main = "bind"
  /\ main' = "listen"
  /\ acceptor' = "bound" /\ acceptCons' = TRUE
  /\ UNCHANGED <<settingsXml, settings, exitCode, ioThreads, serviceVars, sessionVars>>

\* The port is taken: acc is still null, and the handler's tcp_srv->stop()
\* goes through it.  Or nobody knows how many processors there are, and the
\* assertion on the size of the thread pool fails.
BindFails ==
  /\ main = "bind"
  /\ main' = "crashed"
  /\ UNCHANGED <<settingsXml, settings, exitCode, serverVars, serviceVars, sessionVars>>

\* tcp_acceptor::start
Listen ==
  /\ main = "listen"
  /\ main' = "threads"
  /\ acceptor' = "listening"
  /\ UNCHANGED <<settingsXml, settings, exitCode, acceptCons, ioThreads, serviceVars,
                 sessionVars>>

ListenFails ==
  /\ main = "listen"
  /\ main' = "caught" /\ exitCode' = GeneralError
  /\ UNCHANGED <<settingsXml, settings, serverVars, serviceVars, sessionVars>>

\* The rest of tcp_server::start.
StartThreads ==
  /\ main = "threads"
  /\ main' = "wait"
  /\ ioThreads' = "running"
  /\ UNCHANGED <<settingsXml, settings, exitCode, acceptor, acceptCons, serviceVars, sessionVars>>

\* The system has no thread left for one of them: those that were created
\* before it run.
ThreadsFail ==
  /\ main = "threads"
  /\ main' = "caught" /\ exitCode' = GeneralError
  /\ ioThreads' \in {"none", "running"}
  /\ UNCHANGED <<settingsXml, settings, acceptor, acceptCons, serviceVars, sessionVars>>

\* Mistake: only a program that was told to stop waits for the future.
GetFutureAfterStop ==
  /\ main = "wait" /\ dispatcher = "thrown" /\ ~acceptCons
  /\ main' = "caught" /\ exitCode' = thrown
  /\ UNCHANGED <<settingsXml, settings, serverVars, serviceVars, sessionVars>>

\* fut1.get() rethrows what ended operator(), which never returns.
GetFuture ==
  /\ main = "wait" /\ dispatcher = "thrown"
  /\ main' = "caught" /\ exitCode' = thrown
  /\ UNCHANGED <<settingsXml, settings, serverVars, serviceVars, sessionVars>>

\* tcp_server::stop: first acc->stop(),
StopAccepting ==
  /\ main = "caught"
  /\ main' = "stopping"
  /\ acceptCons' = FALSE
  /\ UNCHANGED <<settingsXml, settings, exitCode, acceptor, ioThreads, serviceVars, sessionVars>>

\* Mistake: the io threads are not joined.
StopThreadsUnjoined == IF ioThreads = "running" THEN "running" ELSE ioThreads

StopThreads == IF ioThreads = "running" THEN "stopped" ELSE ioThreads

\* then m_ios.stop() and the joins; the exception goes on.
JoinThreads ==
  /\ main = "stopping"
  /\ main' = "leaving"
  /\ ioThreads' = StopThreads
  /\ UNCHANGED <<settingsXml, settings, exitCode, acceptor, acceptCons, serviceVars, sessionVars>>

\* The destructor of a future made by std::async waits for its thread.
FutureReady == dispatcher = "thrown"

\* The exception leaves ftnode_mw::start and main returns its code, whatever the
\* dispatcher has thrown since.
LeaveStart ==
  /\ main = "leaving" /\ FutureReady
  /\ Exit(exitCode)
  /\ UNCHANGED <<settingsXml, settings, serverVars, serviceVars, sessionVars>>

-----------------------------------------------------------------------------
(* The dispatcher.                                                         *)

DbProducts == {<<"oracle">>, <<"postgres">>, <<"sqlanywhere">>}
IsoLevels == {<<"SA_RepeatableRead">>, <<"SA_Serializable">>, <<"server_specific">>}

\* Mistake: executors take the sources in the order of the file.
DbInfoInOrder(sources) == [i \in DOMAIN sources |-> i]

\* Mistake: positions count from one, so an executor without a source has -1.
DbInfoFromOne(sources) ==
  [i \in DOMAIN sources |->
     Max({-1} \cup {s - 1 : s \in {x \in DOMAIN sources : sources[x].id = i}})]

\* set_db_info: executor i takes the last source with its own id, and keeps an
\* empty db_info when there is none.
DbInfo(sources) ==
  [i \in DOMAIN sources |->
     Max({0} \cup {s \in DOMAIN sources : sources[s].id = i - 1})]

\* The thread pool and the db_buffer, whose maps know three products and two
\* isolation levels besides server_specific.
BuildBuffer ==
  /\ Alive /\ dispatcher = "building"
  /\ IF \A s \in DOMAIN settings.sources :
          /\ settings.sources[s].isoLevel \in IsoLevels
          /\ settings.sources[s].product \in DbProducts
       THEN /\ dispatcher' = "pop"
            /\ dbi' = DbInfo(settings.sources)
            /\ UNCHANGED thrown
       ELSE /\ dispatcher' = "thrown"
            /\ thrown' = GeneralError
            /\ UNCHANGED dbi
  /\ UNCHANGED <<settingsXml, settings, main, exitCode, serverVars, sessionVars>>

PopSession ==
  /\ Alive /\ dispatcher = "pop" /\ waiting > 0
  /\ waiting' = waiting - 1
  /\ dispatcher' = "activate"
  /\ UNCHANGED <<settingsXml, settings, main, exitCode, serverVars, thrown, dbi, arrived, served>>

\* Connect fails for an executor that has no connection string.
Connectable == \A i \in DOMAIN dbi : dbi[i] # 0

\* make_active and run_job.
MakeActive ==
  /\ Alive /\ dispatcher = "activate" /\ Connectable
  /\ served' = served + 1
  /\ dispatcher' = "pop"
  /\ UNCHANGED <<settingsXml, settings, main, exitCode, serverVars, thrown, dbi, arrived, waiting>>

\* make_connection throws: a database is down, or an executor has none.
MakeActiveFails ==
  /\ Alive /\ dispatcher = "activate" /\ dbi # <<>>
  /\ dispatcher' = "unwinding"
  /\ thrown' = ErrDbConnection
  /\ UNCHANGED <<settingsXml, settings, main, exitCode, serverVars, dbi, sessionVars>>

\* The destructor of the thread pool has joined every job.
OperatorThrows ==
  /\ Alive /\ dispatcher = "unwinding" /\ served = 0
  /\ dispatcher' = "thrown"
  /\ UNCHANGED <<settingsXml, settings, main, exitCode, serverVars, thrown, dbi, sessionVars>>

-----------------------------------------------------------------------------
(* Clients, and the handler of async_accept on an io thread.               *)

\* add_session_to_buffer
ClientConnects ==
  /\ Alive /\ acceptor = "listening" /\ ioThreads = "running"
  /\ arrived < MaxClients
  /\ arrived' = arrived + 1
  /\ waiting' = waiting + 1
  /\ acceptor' = IF acceptCons THEN acceptor ELSE "closed"
  /\ UNCHANGED <<settingsXml, settings, main, exitCode, acceptCons, ioThreads, serviceVars, served>>

SessionEnds ==
  /\ Alive /\ served > 0
  /\ served' = served - 1
  /\ UNCHANGED <<settingsXml, settings, main, exitCode, serverVars, serviceVars, arrived, waiting>>

-----------------------------------------------------------------------------
Main ==
  \/ StartDispatcher \/ TakeEndpoint \/ Bind \/ BindFails \/ Listen \/ ListenFails
  \/ StartThreads \/ ThreadsFail \/ GetFuture \/ StopAccepting \/ JoinThreads \/ LeaveStart

Dispatcher == BuildBuffer \/ PopSession \/ MakeActive \/ MakeActiveFails \/ OperatorThrows

Next == GlobalInit \/ Main \/ Dispatcher \/ ClientConnects \/ SessionEnds

Spec == Init /\ [][Next]_vars

\* Both threads run.  Nobody has to start the program, to connect or to leave.
FairSpec == Spec /\ WF_vars(Main) /\ WF_vars(Dispatcher)

-----------------------------------------------------------------------------
(* What runs.                                                              *)

\* A session is served only if each source of the settings has exactly one
\* executor, the one at the position that its id names: set_db_info matches the
\* ids of the file with positions, and no statement may miss a database.
ServedByAll ==
  served > 0 =>
    \A s \in DOMAIN settings.sources :
      /\ Cardinality({i \in DOMAIN dbi : dbi[i] = s}) = 1
      /\ settings.sources[s].id + 1 \in DOMAIN dbi
      /\ dbi[settings.sources[s].id + 1] = s

\* main returns only when no thread is left that uses the server or the
\* database service, which are gone by then.
NothingLeftRunning ==
  main = "exited" =>
    dispatcher \in {"none", "thrown"} /\ ioThreads # "running" /\ served = 0

Over == main \in {"exited", "crashed"}

Serving ==
  main = "wait" /\ acceptor = "listening" /\ ioThreads = "running" /\ dispatcher # "building"

\* Without an endpoint, or when listen or a thread fails, the destructor of the
\* future waits for a dispatcher that waits for the client nobody can be, or for
\* sessions whose clients no io thread hears any more.
Hanging ==
  /\ main = "leaving" /\ ioThreads # "running"
  /\ \/ dispatcher = "pop" /\ waiting = 0
     \/ dispatcher = "unwinding" /\ served > 0

\* A start-up ends in a server that accepts and dispatches, in the end of the
\* program, or in one of the two ways of hanging that the code has.
Settles == main = "start" ~> (Serving /\ dispatcher # "thrown") \/ Over \/ Hanging

\* A dispatcher that has failed ends the program, even though it fails on its
\* own thread while the main thread may not have begun to wait for it.
FailureEndsProgram == dispatcher = "thrown" /\ ~Over ~> Over
=============================================================================
