--------------------------- MODULE StartupProofs ----------------------------
(***************************************************************************)
(* What the program serves with and what it leaves behind, for any loader  *)
(* of settings, any file and any number of clients.                        *)
(***************************************************************************)
EXTENDS Startup, DataLemmas

InHand == IF dispatcher = "activate" THEN 1 ELSE 0

\* Every client that came is waiting, in the dispatcher's hand, served or gone.
Counted == waiting + InHand + served <= arrived

\* The dispatcher starts after the settings are loaded and is waited for when
\* start is left; while it runs, the main thread is between the two.
Lifetimes ==
  /\ main \in {"off", "start"} => dispatcher = "none"
  /\ dispatcher = "none" => main \in {"off", "start", "exited", "crashed"}
  /\ main = "exited" => dispatcher \in {"none", "thrown"}
  /\ ioThreads = "running" => main \in {"wait", "caught", "stopping"}

\* Only an operator() in its loop, or on its way out of it, has jobs.
Jobs == served > 0 => dispatcher \in {"pop", "activate", "unwinding"}

\* The executors' sources are fixed before the first session.
Assigned ==
  /\ dispatcher \in {"pop", "activate", "unwinding"} => dbi = DbInfo(settings.sources)
  /\ served > 0 => Connectable

StartupInv == TypeOK /\ Counted /\ Lifetimes /\ Jobs /\ Assigned

-----------------------------------------------------------------------------
(* Which source an executor takes.                                         *)

\* The sources that executor i may take, and "none".
Candidates(sources, i) == {0} \cup {s \in DOMAIN sources : sources[s].id = i - 1}

\* Executor i has the position of a source with its own id, or none.
LEMMA DbInfoSource ==
  ASSUME NEW settingsRead, IsSettings(settingsRead)
  PROVE  LET sources == settingsRead.sources IN
         /\ DOMAIN sources = 1 .. Len(sources) /\ Len(sources) \in Nat
         /\ DbInfo(sources) \in Seq(Nat)
         /\ DOMAIN DbInfo(sources) = DOMAIN sources
         /\ \A i \in DOMAIN sources : DbInfo(sources)[i] \in Candidates(sources, i)
<1> DEFINE sources == settingsRead.sources
<1>1. DOMAIN sources = 1 .. Len(sources) /\ Len(sources) \in Nat
  BY DEF IsSettings, IsVector
<1> HIDE DEF sources
<1>2. ASSUME NEW i \in DOMAIN sources
      PROVE  Max(Candidates(sources, i)) \in Candidates(sources, i)
  BY <1>1, MaxExists, Candidates(sources, i) \subseteq 0 .. Len(sources) DEF Candidates
<1>3. DbInfo(sources) = [i \in DOMAIN sources |-> Max(Candidates(sources, i))]
  BY DEF DbInfo, Candidates
<1>4. \A i \in DOMAIN sources : DbInfo(sources)[i] \in Nat
  BY <1>1, <1>2, <1>3 DEF Candidates
<1>5. DbInfo(sources) \in Seq(Nat)
  BY <1>1, <1>3, <1>4
<1>6. \A i \in DOMAIN sources : DbInfo(sources)[i] \in Candidates(sources, i)
  BY <1>2, <1>3
<1>7. DOMAIN DbInfo(sources) = DOMAIN sources
  BY <1>3
<1> QED BY <1>1, <1>5, <1>6, <1>7 DEF sources

\* When every executor has a source, every source has its executor: as many
\* positions as sources, and no source has two ids.
LEMMA SourcesMatched ==
  ASSUME NEW settingsRead, IsSettings(settingsRead), NEW d,
         d = DbInfo(settingsRead.sources),
         \A i \in DOMAIN d : d[i] # 0,
         NEW s \in DOMAIN settingsRead.sources
  PROVE  /\ Cardinality({i \in DOMAIN d : d[i] = s}) = 1
         /\ settingsRead.sources[s].id + 1 \in DOMAIN d
         /\ d[settingsRead.sources[s].id + 1] = s
<1> DEFINE sources == settingsRead.sources
           Positions == DOMAIN sources
<1>1. /\ Positions = 1 .. Len(sources) /\ Len(sources) \in Nat
      /\ DOMAIN d = Positions /\ d \in Seq(Nat)
      /\ \A i \in Positions : d[i] \in Candidates(sources, i)
  BY DbInfoSource
<1>2. \A i \in Positions : sources[i].id \in Int
  BY DEF IsSettings
<1> HIDE DEF sources
<1>3. \A i \in Positions : d[i] \in Positions /\ sources[d[i]].id = i - 1
  BY <1>1 DEF Candidates
<1>4. \A i \in Positions : i \in Int
  BY <1>1
<1>5. d \in Injection(Positions, Positions)
  <2>1. d \in [Positions -> Positions]
    BY <1>1, <1>3
  <2>2. \A i, j \in Positions : d[i] = d[j] => i = j
    BY <1>3, <1>4
  <2> QED BY <2>1, <2>2 DEF Injection, IsInjective
<1>6. IsFiniteSet(Positions)
  BY <1>1, FS_Interval
<1>7. d \in Surjection(Positions, Positions)
  BY <1>5, <1>6, FS_Injection
<1>8. PICK i \in Positions : d[i] = s
  BY <1>7 DEF Surjection, sources
<1>9. sources[s].id + 1 = i
  BY <1>3, <1>4, <1>8
<1>10. {j \in DOMAIN d : d[j] = s} = {i}
  BY <1>1, <1>3, <1>4, <1>8
<1> QED BY <1>1, <1>8, <1>9, <1>10, FS_Singleton DEF sources

-----------------------------------------------------------------------------
(* The invariant.                                                          *)

LEMMA InitStartup == Init => StartupInv
<1> SUFFICES ASSUME Init PROVE StartupInv
  OBVIOUS
<1>1. IsSettings(Nothing)
  BY DEF IsSettings, Nothing, Statuses, IsVector
<1>2. TypeOK
  <2>1. dbi \in Seq(Nat)
    BY DEF Init
  <2>2. IsSettings(settings)
    BY <1>1 DEF Init
  <2>3. acceptCons \in BOOLEAN
    BY DEF Init
  <2>4. arrived \in 0 .. MaxClients /\ waiting \in 0 .. arrived /\ served \in 0 .. arrived
    BY StartupAssumption DEF Init
  <2> QED BY <2>1, <2>2, <2>3, <2>4 DEF Init, TypeOK, GeneralError, ErrDbConnection, ErrXmlNoFile
<1> QED BY <1>2 DEF Init, StartupInv, Counted, InHand, Lifetimes, Jobs, Assigned

LEMMA StepStartup == StartupInv /\ [Next]_vars => StartupInv'
<1> SUFFICES ASSUME StartupInv, [Next]_vars PROVE StartupInv'
  OBVIOUS
<1> USE StartupAssumption DEF StartupInv
<1>1. CASE UNCHANGED vars
  BY <1>1 DEF vars, serverVars, serviceVars, sessionVars, TypeOK, Counted, InHand, Lifetimes,
              Jobs, Assigned, Connectable
<1>2. CASE GlobalInit
  <2>1. IsSettings(settings')
    BY <1>2, LoadAssumption DEF GlobalInit, TypeOK
  <2> QED BY <1>2, <2>1 DEF GlobalInit, Exit, vars, serverVars, serviceVars, sessionVars, TypeOK,
                           Counted, InHand, Lifetimes, Jobs, Assigned, Connectable
<1>3. CASE StartDispatcher
  BY <1>3 DEF StartDispatcher, serverVars, sessionVars, TypeOK, Counted, InHand, Lifetimes, Jobs,
              Assigned, Connectable
<1>4. CASE TakeEndpoint \/ Bind \/ BindFails \/ Listen \/ ListenFails \/ StartThreads
           \/ ThreadsFail \/ GetFuture \/ StopAccepting \/ JoinThreads
  <2>1. /\ UNCHANGED <<settingsXml, settings, serviceVars, sessionVars>>
        /\ exitCode' \in {exitCode, thrown, GeneralError}
    BY <1>4 DEF TakeEndpoint, Bind, BindFails, Listen, ListenFails, StartThreads, ThreadsFail,
                GetFuture, StopAccepting, JoinThreads, serverVars
  <2>2. /\ main \notin {"off", "start", "exited", "crashed"}
        /\ main' \in {"bind", "listen", "threads", "wait", "caught", "stopping", "leaving", "crashed"}
        /\ acceptor' \in {acceptor, "bound", "listening"} /\ acceptCons' \in BOOLEAN
    BY <1>4 DEF TakeEndpoint, Bind, BindFails, Listen, ListenFails, StartThreads, ThreadsFail,
                GetFuture, StopAccepting, JoinThreads, serverVars, TypeOK
  <2>3. /\ ioThreads' \in {"none", "running", "stopped"}
        /\ ioThreads' = "running" => main' \in {"wait", "caught", "stopping"}
    BY <1>4 DEF TakeEndpoint, Bind, BindFails, Listen, ListenFails, StartThreads, ThreadsFail,
                GetFuture, StopAccepting, JoinThreads, StopThreads, serverVars, TypeOK, Lifetimes
  <2>4. TypeOK'
    BY <2>1, <2>2, <2>3 DEF TypeOK, serviceVars, sessionVars, GeneralError, ErrDbConnection
  <2>5. Lifetimes'
    BY <2>1, <2>2, <2>3 DEF Lifetimes, serviceVars
  <2> QED BY <2>1, <2>4, <2>5 DEF serviceVars, sessionVars, Counted, InHand, Jobs, Assigned, Connectable
<1>5. CASE LeaveStart
  BY <1>5 DEF LeaveStart, FutureReady, Exit, serverVars, serviceVars, sessionVars, TypeOK, Counted,
              InHand, Lifetimes, Jobs, Assigned, Connectable, GeneralError, ErrDbConnection
<1>6. CASE BuildBuffer
  <2>1. DbInfo(settings.sources) \in Seq(Nat)
    BY DbInfoSource DEF TypeOK
  <2> QED BY <1>6, <2>1 DEF BuildBuffer, Alive, serverVars, sessionVars, TypeOK, Counted, InHand,
                           Lifetimes, Jobs, Assigned, Connectable
<1>7. CASE PopSession \/ MakeActive \/ MakeActiveFails \/ OperatorThrows
  BY <1>7 DEF PopSession, MakeActive, MakeActiveFails, OperatorThrows, Alive, serverVars,
              sessionVars, TypeOK, Counted, InHand, Lifetimes, Jobs, Assigned, Connectable
<1>8. CASE ClientConnects \/ SessionEnds
  BY <1>8 DEF ClientConnects, SessionEnds, Alive, serverVars, serviceVars, sessionVars, TypeOK,
              Counted, InHand, Lifetimes, Jobs, Assigned, Connectable
<1> QED BY <1>1, <1>2, <1>3, <1>4, <1>5, <1>6, <1>7, <1>8 DEF Next, Main, Dispatcher

LEMMA StartupInvariant == Spec => []StartupInv
BY InitStartup, StepStartup, PTL DEF Spec

-----------------------------------------------------------------------------
\* The types of the start-up: the position of an executor's source is never
\* negative, and no session is counted twice.
THEOREM TypeCorrect == Spec => []TypeOK
BY StartupInvariant, PTL DEF StartupInv

\* No session is served while a source of the settings has no executor or an
\* executor has no source, whatever ids the file gives: with as many executors
\* as sources, the last one wins and a second source of one id leaves another
\* executor without a connection string.
THEOREM SourcesServed == Spec => []ServedByAll
<1>1. StartupInv => ServedByAll
  <2> SUFFICES ASSUME StartupInv, served > 0, NEW s \in DOMAIN settings.sources
               PROVE  /\ Cardinality({i \in DOMAIN dbi : dbi[i] = s}) = 1
                      /\ settings.sources[s].id + 1 \in DOMAIN dbi
                      /\ dbi[settings.sources[s].id + 1] = s
    BY DEF ServedByAll
  <2>1. dbi = DbInfo(settings.sources) /\ \A i \in DOMAIN dbi : dbi[i] # 0
    BY DEF StartupInv, Jobs, Assigned, Connectable
  <2>2. IsSettings(settings)
    BY DEF StartupInv, TypeOK
  <2> QED BY <2>1, <2>2, SourcesMatched
<1> QED BY <1>1, StartupInvariant, PTL

\* When main has returned, the dispatcher, its jobs and the io threads have
\* ended: the destructors of the future and of the thread pool, and
\* tcp_server::stop, have waited for each of them on every path.
THEOREM AllJoined == Spec => []NothingLeftRunning
<1>1. StartupInv => NothingLeftRunning
  BY DEF StartupInv, TypeOK, Lifetimes, Jobs, NothingLeftRunning
<1> QED BY <1>1, StartupInvariant, PTL
=============================================================================
