------------------------------- MODULE Daemon -------------------------------
(***************************************************************************)
(* Starting and stopping the service: main and Demonize::initSrv with its  *)
(* two forks, the ports EventServer::init binds, and bin/stop.sh.  Several *)
(* starts and stops may be under way at once: nobody waits for another.    *)
(*                                                                         *)
(* A start runs in three processes, one after the other: the command, its  *)
(* child, and the daemon.  What the daemon does between binding its ports  *)
(* and stopping is in EventServer.                                         *)
(***************************************************************************)
EXTENDS Integers, FiniteSets, SequencesExt

CONSTANTS Servers,      \* what init binds, in order
          MaxStarts,    \* bound: runs of the command
          MaxStops,     \* bound: runs of the script
          MaxTroubles   \* bound: failures of the system, and crashes

ASSUME DaemonAssumption ==
  /\ Servers \in Seq(STRING) /\ Servers # <<>>
  /\ \A i, j \in DOMAIN Servers : Servers[i] = Servers[j] => i = j
  /\ MaxStarts \in Nat /\ MaxStops \in Nat /\ MaxTroubles \in Nat

Starts == 1..MaxStarts
Proc == Starts \X (1..3)
Child(p) == <<p[1], p[2] + 1>>

VARIABLES
  st,           \* process -> "none", "main" (it is to fork), "parent" (it has),
                \*   "init", "loop", "break" (loopbreak called), "failed" (init is
                \*   back before the loop), or "over"
  bound,        \* process -> the servers it holds the ports of
  signalled,    \* process -> SIGTERM has reached its loop
  stops,        \* runs of the script begun
  pids,         \* the processes the last of them has still to signal
  early,        \* history: the starts begun before the first stop
  hit,          \* history: a stop has signalled a process that was there
  troubles      \* history: failures and crashes

procVars == <<st, bound, signalled>>
scriptVars == <<stops, pids>>
historyVars == <<early, hit, troubles>>
vars == <<procVars, scriptVars, historyVars>>

Alive(p) == st[p] \notin {"none", "over"}

Init ==
  /\ st = [p \in Proc |-> "none"]
  /\ bound = [p \in Proc |-> {}]
  /\ signalled = [p \in Proc |-> FALSE]
  /\ stops = 0 /\ pids = {}
  /\ early = {} /\ hit = FALSE /\ troubles = 0

\* The process is gone, with whatever status, and its ports are free.
Exit(p) ==
  /\ st' = [st EXCEPT ![p] = "over"]
  /\ bound' = [bound EXCEPT ![p] = {}]
  /\ UNCHANGED signalled

\* init returns early, with nothing freed.
Fail(p) ==
  /\ st[p] = "init"
  /\ st' = [st EXCEPT ![p] = "failed"]
  /\ UNCHANGED <<bound, signalled>>

Trouble == troubles < MaxTroubles /\ troubles' = troubles + 1 /\ UNCHANGED <<early, hit>>

-----------------------------------------------------------------------------
(* A start.                                                                *)

\* main, up to the first fork of initSrv.
Start(s) ==
  /\ st[<<s, 1>>] = "none"
  /\ s > 1 => st[<<s - 1, 1>>] # "none"      \* numbered as they come
  /\ st' = [st EXCEPT ![<<s, 1>>] = "main"]
  /\ early' = IF stops = 0 THEN early \cup {s} ELSE early
  /\ UNCHANGED <<bound, signalled, scriptVars, hit, troubles>>

\* The two forks of initSrv: the second child is the daemon.
Fork(p) ==
  /\ st[p] = "main"
  /\ st' = [st EXCEPT ![p] = "parent",
                      ![Child(p)] = IF p[2] = 1 THEN "main" ELSE "init"]
  /\ UNCHANGED <<bound, signalled, scriptVars, historyVars>>

\* initSrv exits with -1, which nobody sees of the second fork.
ForkFails(p) ==
  /\ st[p] = "main"
  /\ Exit(p)
  /\ Trouble
  /\ UNCHANGED scriptVars

\* A parent exits at once with 0, which is what the start reports, whatever
\* comes of the daemon.
ParentExits(p) ==
  /\ st[p] = "parent"
  /\ Exit(p)
  /\ UNCHANGED <<scriptVars, historyVars>>

\* The working directory is gone.
ChdirFails(p) ==
  /\ st[p] = "init" /\ bound[p] = {}
  /\ Exit(p)
  /\ Trouble
  /\ UNCHANGED scriptVars

\* Mutant of NextServers: the listeners come up in any order.
AnyServers(p) == ToSet(Servers) \ bound[p]

\* EventServer::init creates the TCP, the HTTP and the HTTPS server in order.
NextServers(p) == {Servers[Cardinality(bound[p]) + 1]}

\* Mutant of Taken: the ports are bound with SO_REUSEPORT.
NeverTaken(server) == FALSE

\* A port is taken while a process has its server (LEV_OPT_REUSEABLE is
\* SO_REUSEADDR: it does not share a port that is listened on).
Taken(server) == \E q \in Proc : server \in bound[q]

\* createTcpServer, createHttpServer, createHttpsServer; after the last one the
\* signals are registered and the loop begins.
Listen(p) ==
  /\ st[p] = "init"
  /\ \E server \in NextServers(p) :
       /\ ~Taken(server)
       /\ bound' = [bound EXCEPT ![p] = @ \cup {server}]
  /\ st' = [st EXCEPT ![p] = IF bound'[p] = ToSet(Servers) THEN "loop" ELSE "init"]
  /\ UNCHANGED <<signalled, scriptVars, historyVars>>

\* The port belongs to another process of the service.
PortTaken(p) ==
  /\ Fail(p)
  /\ \E server \in NextServers(p) : Taken(server)
  /\ UNCHANGED <<scriptVars, historyVars>>

\* event_base_new, evhttp_new, a port another program holds, or a certificate
\* or key that createSslContext cannot use.
InitFails(p) ==
  /\ Fail(p)
  /\ Trouble
  /\ UNCHANGED scriptVars

\* Every other end of the loop (EventServer, ExitExplained).
Crash(p) ==
  /\ st[p] = "loop"
  /\ Exit(p)
  /\ Trouble
  /\ UNCHANGED scriptVars

-----------------------------------------------------------------------------
(* The end of a daemon.                                                    *)

\* Mutant of SignalCb: the signal is only logged.
SignalLogged(p) == st[p] = "loop" /\ signalled[p] /\ UNCHANGED vars

\* signalCb: loopbreak.
SignalCb(p) ==
  /\ st[p] = "loop" /\ signalled[p]
  /\ st' = [st EXCEPT ![p] = "break"]
  /\ UNCHANGED <<bound, signalled, scriptVars, historyVars>>

\* init's clean-up frees the servers one after the other, and their ports.
FreeServer(p) ==
  /\ st[p] = "break" /\ bound[p] # {}
  /\ LET first == CHOOSE i \in DOMAIN Servers :
                    /\ Servers[i] \in bound[p]
                    /\ \A j \in 1..(i - 1) : Servers[j] \notin bound[p]
     IN  bound' = [bound EXCEPT ![p] = @ \ {Servers[first]}]
  /\ UNCHANGED <<st, signalled, scriptVars, historyVars>>

\* init has returned an error, -5 after the loop: initSrv exits with 2, and a port
\* that is still bound is free only now.
InitReturns(p) ==
  /\ st[p] = "failed" \/ (st[p] = "break" /\ bound[p] = {})
  /\ Exit(p)
  /\ UNCHANGED <<scriptVars, historyVars>>

-----------------------------------------------------------------------------
(* stop.sh.                                                                *)

\* Mutant of Found: one process only, as of pgrep -n.
FoundOne == {p \in Proc : Alive(p) /\ p = CHOOSE q \in Proc : Alive(q)}

\* pgrep -f: every process with the command line of the service, forked
\* children included.
Found == {p \in Proc : Alive(p)}

\* The script looks the processes up once.  Scripts run one after the other.
Pgrep ==
  /\ pids = {}
  /\ stops < MaxStops
  /\ stops' = stops + 1
  /\ pids' = Found
  /\ UNCHANGED <<procVars, historyVars>>

\* What SIGTERM does: nothing to a process that is over; its default action
\* before registerSignalCb; in the loop signalCb will run; after the loop it is
\* not looked at any more until the base is freed, and then kills again.
Terminate(p) ==
  \/ st[p] \in {"main", "parent", "init", "failed", "break"} /\ Exit(p)
  \/ /\ st[p] = "loop"
     /\ signalled' = [signalled EXCEPT ![p] = TRUE]
     /\ UNCHANGED <<st, bound>>
  \/ (~Alive(p) \/ st[p] = "break") /\ UNCHANGED procVars

\* kill, to one process after the other.
Kill ==
  /\ \E p \in pids :
       /\ Terminate(p)
       /\ hit' = (hit \/ Alive(p))
       /\ pids' = pids \ {p}
  /\ UNCHANGED <<stops, early, troubles>>

-----------------------------------------------------------------------------
Step(p) ==
  \/ p[2] < 3 /\ (Fork(p) \/ ParentExits(p))
  \/ p[2] = 3 /\ (Listen(p) \/ PortTaken(p) \/ SignalCb(p) \/ FreeServer(p) \/ InitReturns(p))

Fails(p) == ForkFails(p) \/ ChdirFails(p) \/ InitFails(p) \/ Crash(p)

Next ==
  \/ \E s \in Starts : Start(s)
  \/ \E p \in Proc : Step(p) \/ Fails(p)
  \/ Pgrep \/ Kill

\* A process runs on by itself (its loop answers a signal: EventServer,
\* SignalStops), and so does a script once it has begun.
Spec ==
  /\ Init /\ [][Next]_vars
  /\ \A p \in Proc : WF_vars(Step(p))
  /\ WF_vars(Kill)

-----------------------------------------------------------------------------
(* Correctness.                                                            *)

TypeOK ==
  /\ st \in [Proc -> {"none", "main", "parent", "init", "loop", "break", "failed", "over"}]
  /\ signalled \in [Proc -> BOOLEAN]
  /\ stops \in 0..MaxStops /\ pids \subseteq Proc
  /\ early \subseteq Starts /\ hit \in BOOLEAN /\ troubles \in 0..MaxTroubles
  /\ \A p \in Proc :
       /\ bound[p] \subseteq ToSet(Servers)
       /\ bound[p] # {} => st[p] \in {"init", "loop", "break", "failed"}
       /\ st[p] = "loop" => bound[p] = ToSet(Servers)
       /\ st[p] \in {"main", "parent"} => p[2] # 3
       /\ st[p] \in {"init", "loop", "break", "failed"} => p[2] = 3
       /\ \A q \in Proc : p # q => bound[p] \cap bound[q] = {}

Serving == {p \in Proc : st[p] = "loop"}
Quiet == \A p \in Proc : Alive(p) => p \in Serving

\* Starts that overlap, with each other or with a daemon that is still releasing
\* its ports, never leave two services; and they leave none, once all is quiet,
\* only if the system failed or a stop hit one of them: all daemons bind their
\* ports in the same order, so of two starts one gets through.
OneServiceUnlessStopped ==
  /\ Cardinality(Serving) <= 1
  /\ Quiet /\ troubles = 0 /\ (\E s \in Starts : st[<<s, 1>>] # "none") =>
       Serving # {} \/ hit

\* One stop is not enough for a start under way: a process that forks after
\* pgrep has looked leaves a child no kill is sent to, and so does that child
\* once more.  A third stop is enough, whatever ran when the first one began.
ThreeStopsSuffice ==
  stops >= 3 /\ (stops = 3 => pids = {}) =>
    \A p \in Proc : p[1] \in early => ~Alive(p) \/ signalled[p]

\* However starts and stops meet, in the end each start is over or serves, and
\* no process goes on serving that has been told to stop.
EverythingSettles ==
  <>[](pids = {} /\ \A p \in Proc : Alive(p) => p \in Serving /\ ~signalled[p])
=============================================================================
