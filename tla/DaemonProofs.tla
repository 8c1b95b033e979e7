---------------------------- MODULE DaemonProofs ----------------------------
(***************************************************************************)
(* The safety invariants of Daemon, for any number of starts, stops,       *)
(* failures and servers.  IInv is the inductive invariant: what a process  *)
(* can be in which state, which ports it then holds, who is left to serve  *)
(* while nothing has failed, and which early starts a stop can have        *)
(* missed.                                                                 *)
(***************************************************************************)
EXTENDS Daemon, FiniteSetTheorems, TLAPS

States == {"none", "main", "parent", "init", "loop", "break", "failed", "over"}

Typed ==
  /\ st \in [Proc -> States]
  /\ bound \in [Proc -> SUBSET ToSet(Servers)]
  /\ signalled \in [Proc -> BOOLEAN]
  /\ stops \in 0..MaxStops /\ pids \subseteq Proc
  /\ early \subseteq Starts /\ hit \in BOOLEAN /\ troubles \in 0..MaxTroubles

\* Only the second child of a start becomes a daemon, and a process has no
\* child before it forks.
Lineage ==
  \A p \in Proc :
    /\ st[p] \in {"main", "parent"} => p[2] # 3
    /\ st[p] \in {"init", "loop", "break", "failed"} => p[2] = 3
    /\ p[2] # 3 /\ st[p] \in {"none", "main"} => st[Child(p)] = "none"

\* Who holds which ports: all of them in the loop, not all of them before it,
\* and no port has two holders.
Ports ==
  \A p \in Proc :
    /\ bound[p] # {} => st[p] \in {"init", "loop", "break", "failed"}
    /\ st[p] = "loop" => bound[p] = ToSet(Servers)
    /\ st[p] = "init" => bound[p] # ToSet(Servers)
    /\ \A q \in Proc : p # q => bound[p] \cap bound[q] = {}

\* A process is told to stop in its loop only, and leaves it for no other
\* reason than that it was told.
Told ==
  \A p \in Proc :
    /\ signalled[p] => st[p] \in {"loop", "break", "over"}
    /\ st[p] = "break" => signalled[p]

\* Ports are bound in the order of Servers: what a process has bound is the
\* first of them, until its clean-up.
InOrder ==
  \A p \in Proc :
    /\ st[p] = "init" =>
         bound[p] = {Servers[i] : i \in 1..Cardinality(bound[p])}
    /\ bound[p] # {} /\ st[p] # "break" => Servers[1] \in bound[p]

\* While nothing has failed and nothing was stopped, a start gives up at its
\* first port only, and one of the starts is always on its way or serving.
Unstopped ==
  troubles = 0 /\ ~hit =>
    /\ \A p \in Proc : ~signalled[p] /\ (st[p] = "failed" => bound[p] = {})
    /\ (\E s \in Starts : st[<<s, 1>>] # "none") =>
         \E q \in Proc : st[q] \in {"main", "init", "loop"}

\* The n-th stop misses only those processes of an early start that have
\* forked n times since the first stop began: a fork between pgrep and kill.
Missed ==
  /\ \A s \in early : st[<<s, 1>>] # "none"
  /\ \A p \in Proc : p[1] \in early /\ Alive(p) /\ ~signalled[p] =>
       p[2] >= stops /\ (p \in pids \/ p[2] > stops)

IInv ==
  Typed /\ Lineage /\ Ports /\ Told /\ InOrder /\ Unstopped /\ Missed

-----------------------------------------------------------------------------
\* The child of a command or of its child is a process of the same start.
LEMMA ChildOf ==
  ASSUME NEW p \in Proc, p[2] # 3
  PROVE  /\ Child(p) \in Proc /\ Child(p) # p
         /\ Child(p)[1] = p[1] /\ Child(p)[2] = p[2] + 1
         /\ \A q \in Proc : Child(q) = Child(p) => q = p
BY DEF Proc, Child, Starts

\* A command is the first process of its start, and nobody's child.
LEMMA CommandOf ==
  ASSUME NEW s \in Starts
  PROVE  /\ <<s, 1>> \in Proc /\ <<s, 1>>[1] = s /\ <<s, 1>>[2] = 1
         /\ \A q \in Proc : Child(q) # <<s, 1>>
BY DEF Proc, Child, Starts

\* What has bound less than all servers knows which one is next.
LEMMA NextServer ==
  ASSUME NEW p \in Proc, Typed, Ports, st[p] = "init"
  PROVE  /\ IsFiniteSet(bound[p]) /\ Cardinality(bound[p]) \in Nat
         /\ Cardinality(bound[p]) + 1 \in DOMAIN Servers
         /\ Servers[Cardinality(bound[p]) + 1] \in ToSet(Servers)
<1>. DEFINE all == ToSet(Servers)
<1>1. Servers \in Seq(STRING) /\ Len(Servers) \in Nat /\ DOMAIN Servers = 1..Len(Servers)
  BY DaemonAssumption
<1>2. IsFiniteSet(1..Len(Servers)) /\ Cardinality(1..Len(Servers)) = Len(Servers)
  BY <1>1, FS_Interval
<1>3. all = {Servers[i] : i \in 1..Len(Servers)}
  BY <1>1 DEF ToSet
<1>4. IsFiniteSet(all) /\ Cardinality(all) <= Len(Servers)
  <2>. DEFINE f == [i \in 1..Len(Servers) |-> Servers[i]]
  <2>1. f \in Surjection(1..Len(Servers), all)
    BY <1>3 DEF Surjection
  <2>. HIDE DEF f, all
  <2>. QED BY <1>1, <1>2, <2>1, FS_Surjection
<1>5. bound[p] \subseteq all /\ bound[p] # all
  BY DEF Typed, Ports
<1>. HIDE DEF all
<1>6. /\ IsFiniteSet(bound[p]) /\ Cardinality(bound[p]) \in Nat
      /\ Cardinality(bound[p]) < Cardinality(all) /\ Cardinality(all) \in Nat
  BY <1>4, <1>5, FS_Subset, FS_CardinalityType
<1>7. Cardinality(bound[p]) + 1 \in DOMAIN Servers
  BY <1>1, <1>4, <1>6
<1>. QED BY <1>6, <1>7 DEF ToSet

-----------------------------------------------------------------------------
\* The service before its first start.
LEMMA InitIInv == Init => IInv
<1>. SUFFICES ASSUME Init PROVE IInv
  OBVIOUS
<1>. USE DEF Init
<1>1. Typed
  <2>1. MaxStops \in Nat /\ MaxTroubles \in Nat
    BY DaemonAssumption
  <2>2. stops \in 0..MaxStops /\ troubles \in 0..MaxTroubles
    BY <2>1
  <2>3. bound \in [Proc -> SUBSET ToSet(Servers)]
    OBVIOUS
  <2>. QED BY <2>2, <2>3 DEF Typed, States
<1>2. Lineage
  BY ChildOf DEF Lineage, Proc
<1>3. Ports /\ Told /\ InOrder
  BY DEF Ports, Told, InOrder
<1>4. Unstopped
  BY CommandOf DEF Unstopped
<1>5. Missed
  BY DEF Missed, Alive
<1>. QED BY <1>1, <1>2, <1>3, <1>4, <1>5 DEF IInv

\* The steps keep every variable in its range.
LEMMA TypedStep == IInv /\ [Next]_vars => Typed'
<1>. SUFFICES ASSUME IInv, [Next]_vars PROVE Typed'
  OBVIOUS
<1>. USE DEF IInv
<1>. USE DEF Typed, States, scriptVars, historyVars, procVars
<1>1. ASSUME NEW s \in Starts, Start(s) PROVE Typed'
  BY <1>1 DEF Start
<1>2. ASSUME NEW p \in Proc, p[2] < 3, Fork(p) PROVE Typed'
  <2>1. p[2] # 3
    BY <1>2
  <2>. QED BY <1>2, <2>1, ChildOf DEF Fork
<1>3. ASSUME NEW p \in Proc, ParentExits(p) PROVE Typed'
  BY <1>3 DEF ParentExits, Exit
<1>4. ASSUME NEW p \in Proc, Listen(p) PROVE Typed'
  <2>1. Servers[Cardinality(bound[p]) + 1] \in ToSet(Servers)
    BY <1>4, NextServer DEF Listen
  <2>. QED BY <1>4, <2>1 DEF Listen, NextServers
<1>5. ASSUME NEW p \in Proc, PortTaken(p) PROVE Typed'
  BY <1>5 DEF PortTaken, Fail
<1>6. ASSUME NEW p \in Proc, SignalCb(p) PROVE Typed'
  BY <1>6 DEF SignalCb
<1>7. ASSUME NEW p \in Proc, FreeServer(p) PROVE Typed'
  BY <1>7 DEF FreeServer
<1>8. ASSUME NEW p \in Proc, InitReturns(p) PROVE Typed'
  BY <1>8 DEF InitReturns, Exit
<1>9. ASSUME NEW p \in Proc, Fails(p) PROVE Typed'
  BY <1>9, DaemonAssumption
     DEF Fails, ForkFails, ChdirFails, InitFails, Crash, Exit, Fail, Trouble
<1>10. CASE Pgrep
  BY <1>10, DaemonAssumption DEF Pgrep, Found
<1>11. CASE Kill
  <2>1. PICK p \in pids : Terminate(p) /\ hit' = (hit \/ Alive(p)) /\ pids' = pids \ {p}
    BY <1>11 DEF Kill
  <2>2. /\ st' \in [Proc -> States] /\ bound' \in [Proc -> SUBSET ToSet(Servers)]
        /\ signalled' \in [Proc -> BOOLEAN]
    BY <2>1 DEF Terminate, Exit
  <2>3. hit' \in BOOLEAN
    BY <2>1 DEF Alive
  <2>. QED BY <1>11, <2>1, <2>2, <2>3 DEF Kill
<1>12. CASE UNCHANGED vars
  BY <1>12 DEF vars
<1>. QED
  BY <1>1, <1>2, <1>3, <1>4, <1>5, <1>6, <1>7, <1>8, <1>9, <1>10, <1>11, <1>12
     DEF Next, Step

-----------------------------------------------------------------------------
(* What a step does to the processes, whichever action takes it.           *)
Gone(p) == Alive(p) /\ Exit(p)

ToldNow(p) ==
  /\ st[p] = "loop"
  /\ signalled' = [signalled EXCEPT ![p] = TRUE]
  /\ UNCHANGED <<st, bound>>

Change ==
  \/ \E s \in Starts : Start(s)
  \/ \E p \in Proc : p[2] # 3 /\ Fork(p)
  \/ \E p \in Proc : Gone(p) \/ Listen(p) \/ Fail(p)
  \/ \E p \in Proc : SignalCb(p) \/ FreeServer(p) \/ ToldNow(p)
  \/ UNCHANGED procVars

\* Every step is one of these for the processes.
LEMMA StepChange == Typed /\ [Next]_vars => Change
<1>. SUFFICES ASSUME Typed, [Next]_vars PROVE Change
  OBVIOUS
<1>1. ASSUME NEW p \in Proc, Step(p) PROVE Change
  <2>1. CASE p[2] < 3 /\ Fork(p)
    BY <2>1 DEF Change
  <2>2. CASE ParentExits(p) \/ InitReturns(p)
    BY <2>2 DEF Change, ParentExits, InitReturns, Gone, Alive
  <2>3. CASE Listen(p) \/ SignalCb(p) \/ FreeServer(p)
    BY <2>3 DEF Change
  <2>4. CASE PortTaken(p)
    BY <2>4 DEF Change, PortTaken
  <2>. QED BY <1>1, <2>1, <2>2, <2>3, <2>4 DEF Step
<1>2. ASSUME NEW p \in Proc, Fails(p) PROVE Change
  BY <1>2 DEF Change, Fails, ForkFails, ChdirFails, InitFails, Crash, Gone, Alive
<1>3. CASE Pgrep
  BY <1>3 DEF Change, Pgrep
<1>4. CASE Kill
  <2>1. PICK p \in pids : Terminate(p)
    BY <1>4 DEF Kill
  <2>2. p \in Proc
    BY DEF Typed
  <2>. QED BY <2>1, <2>2 DEF Change, Terminate, Gone, Alive, ToldNow
<1>5. CASE UNCHANGED vars
  BY <1>5 DEF Change, vars, procVars
<1>. QED BY <1>1, <1>2, <1>3, <1>4, <1>5 DEF Next, Change

\* A fork gives a start its next process.
LEMMA LineageStep == Typed /\ Lineage /\ [Next]_vars => Lineage'
<1>. SUFFICES ASSUME Typed /\ Lineage, [Next]_vars PROVE Lineage'
  OBVIOUS
<1>0. Change
  BY StepChange
<1>. USE DEF Typed, States, Lineage
<1>c. \A q \in Proc : q[2] # 3 => Child(q) \in Proc
  BY ChildOf
<1>1. ASSUME NEW s \in Starts, Start(s) PROVE Lineage'
  <2>1. /\ st'[<<s, 1>>] = "main" /\ st[<<s, 1>>] = "none"
        /\ \A q \in Proc : q # <<s, 1>> => st'[q] = st[q]
    BY <1>1, CommandOf DEF Start
  <2>2. \A q \in Proc : q[2] # 3 => st'[Child(q)] = st[Child(q)]
    BY <2>1, CommandOf, ChildOf
  <2>. QED BY <2>1, <2>2, CommandOf
<1>2. ASSUME NEW p \in Proc, p[2] # 3, Fork(p) PROVE Lineage'
  <2>1. /\ Child(p) \in Proc /\ Child(p) # p /\ Child(p)[2] = p[2] + 1 /\ p[2] \in 1..2
        /\ \A q \in Proc : Child(q) = Child(p) => q = p
    BY <1>2, ChildOf DEF Proc
  <2>2. st[Child(p)] = "none" /\ st[p] = "main"
    BY <1>2 DEF Fork
  <2>3. /\ st'[p] = "parent" /\ st'[Child(p)] = IF p[2] = 1 THEN "main" ELSE "init"
        /\ \A q \in Proc : q # p /\ q # Child(p) => st'[q] = st[q]
    BY <1>2, <2>1 DEF Fork
  <2>4. ASSUME NEW q \in Proc, q[2] # 3, st'[q] \in {"none", "main"}
        PROVE  st'[Child(q)] = "none"
    <3>1. q # p /\ st[q] \in {"none", "main"}
      BY <2>2, <2>3, <2>4
    <3>2. Child(q) \in Proc /\ Child(q)[2] = q[2] + 1 /\ st[Child(q)] = "none"
      BY <3>1, <2>4, ChildOf
    <3>3. Child(q) # Child(p) /\ Child(q) # p
      BY <2>1, <2>2, <3>1, <3>2
    <3>. QED BY <2>3, <3>2, <3>3
  <2>5. ASSUME NEW q \in Proc
        PROVE  /\ st'[q] \in {"main", "parent"} => q[2] # 3
               /\ st'[q] \in {"init", "loop", "break", "failed"} => q[2] = 3
    BY <2>1, <2>2, <2>3
  <2>. QED BY <2>4, <2>5
<1>3. ASSUME NEW p \in Proc, Gone(p) PROVE Lineage'
  BY <1>3, <1>c DEF Gone, Exit, Alive
<1>4. ASSUME NEW p \in Proc, Listen(p) PROVE Lineage'
  BY <1>4, <1>c DEF Listen, NextServers
<1>5. ASSUME NEW p \in Proc, Fail(p) PROVE Lineage'
  BY <1>5, <1>c DEF Fail
<1>6. ASSUME NEW p \in Proc, SignalCb(p) PROVE Lineage'
  BY <1>6, <1>c DEF SignalCb
<1>7. ASSUME NEW p \in Proc, FreeServer(p) PROVE Lineage'
  BY <1>7, <1>c DEF FreeServer
<1>8. ASSUME NEW p \in Proc, ToldNow(p) PROVE Lineage'
  BY <1>8, <1>c DEF ToldNow
<1>9. CASE UNCHANGED procVars
  BY <1>9, <1>c DEF procVars
<1>. QED BY <1>0, <1>1, <1>2, <1>3, <1>4, <1>5, <1>6, <1>7, <1>8, <1>9 DEF Change

\* A port changes hands only after its holder has freed it or is gone.
LEMMA PortsStep == Typed /\ Lineage /\ Ports /\ [Next]_vars => Ports'
<1>. SUFFICES ASSUME Typed /\ Lineage /\ Ports, [Next]_vars PROVE Ports'
  OBVIOUS
<1>0. Change
  BY StepChange
<1>. USE DEF Typed, States, Ports
<1>e. {} # ToSet(Servers)
  BY DaemonAssumption DEF ToSet
<1>1. ASSUME NEW s \in Starts, Start(s) PROVE Ports'
  BY <1>1, CommandOf DEF Start
<1>2. ASSUME NEW p \in Proc, p[2] # 3, Fork(p) PROVE Ports'
  <2>1. Child(p) \in Proc /\ Child(p) # p
    BY <1>2, ChildOf
  <2>2. st[Child(p)] = "none" /\ bound[Child(p)] = {} /\ {} # ToSet(Servers)
    BY <1>2, <1>e, <2>1 DEF Fork, Lineage
  <2>3. /\ st'[p] = "parent" /\ st'[Child(p)] \in {"main", "init"} /\ bound' = bound
        /\ bound[p] = {} /\ \A q \in Proc : q # p /\ q # Child(p) => st'[q] = st[q]
    BY <1>2, <2>1 DEF Fork
  <2>. QED BY <2>1, <2>2, <2>3
<1>3. ASSUME NEW p \in Proc, Gone(p) PROVE Ports'
  BY <1>3 DEF Gone, Exit, Alive
<1>4. ASSUME NEW p \in Proc, Listen(p) PROVE Ports'
  <2>. DEFINE server == Servers[Cardinality(bound[p]) + 1]
  <2>1. /\ st[p] = "init" /\ \A q \in Proc : server \notin bound[q]
        /\ bound' = [bound EXCEPT ![p] = @ \cup {server}]
        /\ st' = [st EXCEPT ![p] = IF bound'[p] = ToSet(Servers) THEN "loop" ELSE "init"]
    BY <1>4 DEF Listen, NextServers, Taken
  <2>. HIDE DEF server
  <2>. QED BY <2>1
<1>5. ASSUME NEW p \in Proc, Fail(p) PROVE Ports'
  BY <1>5 DEF Fail
<1>6. ASSUME NEW p \in Proc, SignalCb(p) PROVE Ports'
  BY <1>6 DEF SignalCb
<1>7. ASSUME NEW p \in Proc, FreeServer(p) PROVE Ports'
  BY <1>7 DEF FreeServer
<1>8. ASSUME NEW p \in Proc, ToldNow(p) PROVE Ports'
  BY <1>8 DEF ToldNow
<1>9. CASE UNCHANGED procVars
  BY <1>9 DEF procVars
<1>. QED BY <1>0, <1>1, <1>2, <1>3, <1>4, <1>5, <1>6, <1>7, <1>8, <1>9 DEF Change

\* SIGTERM counts in the loop only, and the loop is left for it only.
LEMMA ToldStep == Typed /\ Lineage /\ Told /\ [Next]_vars => Told'
<1>. SUFFICES ASSUME Typed /\ Lineage /\ Told, [Next]_vars PROVE Told'
  OBVIOUS
<1>0. Change
  BY StepChange
<1>. USE DEF Typed, States, Told
<1>1. ASSUME NEW s \in Starts, Start(s) PROVE Told'
  BY <1>1, CommandOf DEF Start
<1>2. ASSUME NEW p \in Proc, p[2] # 3, Fork(p) PROVE Told'
  <2>1. Child(p) \in Proc /\ Child(p) # p /\ st[Child(p)] = "none"
    BY <1>2, ChildOf DEF Fork, Lineage
  <2>. QED BY <1>2, <2>1 DEF Fork
<1>3. ASSUME NEW p \in Proc, Gone(p) PROVE Told'
  BY <1>3 DEF Gone, Exit, Alive
<1>4. ASSUME NEW p \in Proc, Listen(p) PROVE Told'
  BY <1>4 DEF Listen, NextServers
<1>5. ASSUME NEW p \in Proc, Fail(p) PROVE Told'
  BY <1>5 DEF Fail
<1>6. ASSUME NEW p \in Proc, SignalCb(p) PROVE Told'
  BY <1>6 DEF SignalCb
<1>7. ASSUME NEW p \in Proc, FreeServer(p) PROVE Told'
  BY <1>7 DEF FreeServer
<1>8. ASSUME NEW p \in Proc, ToldNow(p) PROVE Told'
  BY <1>8 DEF ToldNow
<1>9. CASE UNCHANGED procVars
  BY <1>9 DEF procVars
<1>. QED BY <1>0, <1>1, <1>2, <1>3, <1>4, <1>5, <1>6, <1>7, <1>8, <1>9 DEF Change

\* One more port is the next one; nothing but the clean-up frees the first.
LEMMA InOrderStep == Typed /\ Lineage /\ Ports /\ InOrder /\ [Next]_vars => InOrder'
<1>. SUFFICES ASSUME Typed /\ Lineage /\ Ports /\ InOrder, [Next]_vars PROVE InOrder'
  OBVIOUS
<1>0. Change
  BY StepChange
<1>. USE DEF Typed, States, InOrder
<1>1. ASSUME NEW s \in Starts, Start(s) PROVE InOrder'
  BY <1>1, CommandOf DEF Start, Ports
<1>2. ASSUME NEW p \in Proc, p[2] # 3, Fork(p) PROVE InOrder'
  <2>1. Child(p) \in Proc /\ Child(p) # p /\ st[Child(p)] = "none"
    BY <1>2, ChildOf DEF Fork, Lineage
  <2>2. bound[Child(p)] = {}
    BY <2>1 DEF Ports
  <2>3. bound[Child(p)] = {Servers[i] : i \in 1..Cardinality(bound[Child(p)])}
    BY <2>2, FS_EmptySet
  <2>4. /\ st'[p] = "parent" /\ st'[Child(p)] \in {"main", "init"} /\ bound' = bound
        /\ bound[p] = {} /\ \A q \in Proc : q # p /\ q # Child(p) => st'[q] = st[q]
    BY <1>2, <2>1 DEF Fork, Ports
  <2>. QED BY <2>1, <2>2, <2>3, <2>4
<1>3. ASSUME NEW p \in Proc, Gone(p) PROVE InOrder'
  BY <1>3 DEF Gone, Exit, Alive
<1>4. ASSUME NEW p \in Proc, Listen(p) PROVE InOrder'
  <2>. DEFINE n == Cardinality(bound[p])
              next == Servers[n + 1]
  <2>1. /\ st[p] = "init" /\ next \notin bound[p]
        /\ bound' = [bound EXCEPT ![p] = @ \cup {next}]
        /\ st' = [st EXCEPT ![p] = IF bound'[p] = ToSet(Servers) THEN "loop" ELSE "init"]
    BY <1>4 DEF Listen, NextServers, Taken
  <2>2. IsFiniteSet(bound[p]) /\ n \in Nat
    BY <2>1, NextServer
  <2>3. bound[p] = {Servers[i] : i \in 1..n}
    BY <2>1
  <2>. HIDE DEF n
  <2>4. bound'[p] = bound[p] \cup {next}
    BY <2>1
  <2>5. Cardinality(bound'[p]) = n + 1
    <3>. HIDE DEF next
    <3>. QED BY <2>1, <2>2, <2>4, FS_AddElement DEF n
  <2>6. 1..(n + 1) = 1..n \cup {n + 1}
    BY <2>2
  <2>7. bound'[p] = {Servers[i] : i \in 1..(n + 1)}
    BY <2>3, <2>4, <2>6
  <2>8. Servers[1] \in bound'[p]
    BY <2>2, <2>7
  <2>9. /\ \A q \in Proc : q # p => st'[q] = st[q] /\ bound'[q] = bound[q]
        /\ st'[p] \in {"init", "loop"}
    BY <2>1
  <2>. QED BY <2>5, <2>7, <2>8, <2>9
<1>5. ASSUME NEW p \in Proc, Fail(p) PROVE InOrder'
  BY <1>5 DEF Fail
<1>6. ASSUME NEW p \in Proc, SignalCb(p) PROVE InOrder'
  BY <1>6 DEF SignalCb
<1>7. ASSUME NEW p \in Proc, FreeServer(p) PROVE InOrder'
  BY <1>7 DEF FreeServer
<1>8. ASSUME NEW p \in Proc, ToldNow(p) PROVE InOrder'
  BY <1>8 DEF ToldNow
<1>9. CASE UNCHANGED procVars
  BY <1>9 DEF procVars
<1>. QED BY <1>0, <1>1, <1>2, <1>3, <1>4, <1>5, <1>6, <1>7, <1>8, <1>9 DEF Change

\* While the system does not fail and no stop comes, a start that gives up has
\* met one that holds the first port, and that one will serve.
LEMMA UnstoppedStep == IInv /\ [Next]_vars => Unstopped'
<1>. SUFFICES ASSUME IInv, [Next]_vars, (troubles = 0 /\ ~hit)'
              PROVE  /\ \A p \in Proc : ~signalled'[p] /\ (st'[p] = "failed" => bound'[p] = {})
                     /\ (\E s \in Starts : st'[<<s, 1>>] # "none") =>
                          \E q \in Proc : st'[q] \in {"main", "init", "loop"}
  BY DEF Unstopped
<1>. DEFINE Goal == /\ \A p \in Proc : ~signalled'[p] /\ (st'[p] = "failed" => bound'[p] = {})
                    /\ (\E s \in Starts : st'[<<s, 1>>] # "none") =>
                         \E q \in Proc : st'[q] \in {"main", "init", "loop"}
            Going == (\E s \in Starts : st[<<s, 1>>] # "none") =>
                       \E q \in Proc : st[q] \in {"main", "init", "loop"}
<1>a. Typed /\ Lineage /\ Ports /\ Told /\ InOrder
  BY DEF IInv
<1>b. troubles = 0 /\ ~hit
  <2>1. ASSUME NEW p \in Proc, Step(p) PROVE troubles' = troubles /\ hit' = hit
    BY <2>1 DEF Step, Fork, ParentExits, Listen, PortTaken, SignalCb, FreeServer,
                InitReturns, historyVars
  <2>2. ASSUME NEW p \in Proc, Fails(p) PROVE troubles' = troubles + 1
    BY <2>2 DEF Fails, ForkFails, ChdirFails, InitFails, Crash, Trouble
  <2>3. troubles \in Nat
    BY <1>a, DaemonAssumption DEF Typed
  <2>4. ASSUME NEW s \in Starts, Start(s) PROVE troubles' = troubles /\ hit' = hit
    BY <2>4 DEF Start
  <2>5. CASE Kill
    BY <2>5 DEF Kill
  <2>6. CASE Pgrep \/ UNCHANGED vars
    BY <2>6 DEF Pgrep, vars, historyVars
  <2>. QED BY <2>1, <2>2, <2>3, <2>4, <2>5, <2>6 DEF Next
<1>c. /\ \A p \in Proc : ~signalled[p] /\ (st[p] = "failed" => bound[p] = {})
      /\ Going
  BY <1>b DEF IInv, Unstopped
<1>d. \A p \in Proc : st[p] # "break"
  BY <1>a, <1>c DEF Told
<1>e. \A p \in Proc : p[2] # 3 => Child(p) \in Proc /\ Child(p) # p
  BY ChildOf
<1>. USE DEF Typed, States
<1>1. ASSUME NEW s \in Starts, Start(s) PROVE Goal
  <2>1. <<s, 1>> \in Proc
    BY CommandOf
  <2>. QED BY <1>1, <1>a, <1>c, <2>1 DEF Start
<1>2. ASSUME NEW p \in Proc, p[2] < 3, Fork(p) PROVE Goal
  <2>1. Child(p) \in Proc /\ Child(p) # p
    BY <1>2, <1>e
  <2>2. st'[Child(p)] \in {"main", "init"} /\ signalled' = signalled /\ bound' = bound
    BY <1>2, <1>a, <2>1 DEF Fork
  <2>3. \A q \in Proc : st'[q] = "failed" => st[q] = "failed"
    BY <1>2, <1>a, <2>1 DEF Fork
  <2>. QED BY <1>c, <2>1, <2>2, <2>3
<1>3. ASSUME NEW p \in Proc, ParentExits(p) \/ InitReturns(p) PROVE Goal
  <2>1. st[p] \in {"parent", "failed"} /\ Exit(p)
    BY <1>3, <1>d DEF ParentExits, InitReturns
  <2>2. \A s \in Starts : st'[<<s, 1>>] # "none" => st[<<s, 1>>] # "none"
    BY <1>a, <2>1, CommandOf DEF Exit
  <2>. QED BY <1>a, <1>c, <2>1, <2>2 DEF Exit
<1>4. ASSUME NEW p \in Proc, Listen(p) PROVE Goal
  <2>1. /\ st[p] = "init" /\ signalled' = signalled
        /\ st' = [st EXCEPT ![p] = IF bound'[p] = ToSet(Servers) THEN "loop" ELSE "init"]
        /\ \E server : bound' = [bound EXCEPT ![p] = @ \cup {server}]
    BY <1>4 DEF Listen
  <2>2. st'[p] \in {"init", "loop"}
    BY <1>a, <2>1
  <2>. QED BY <1>a, <1>c, <2>1, <2>2
<1>5. ASSUME NEW p \in Proc, PortTaken(p) PROVE Goal
  <2>. DEFINE n == Cardinality(bound[p])
              next == Servers[n + 1]
  <2>1. /\ st[p] = "init" /\ st' = [st EXCEPT ![p] = "failed"]
        /\ UNCHANGED <<bound, signalled>>
    BY <1>5 DEF PortTaken, Fail
  <2>2. PICK q \in Proc : next \in bound[q]
    BY <1>5 DEF PortTaken, NextServers, Taken
  <2>3. next \notin bound[p] /\ n \in Nat
    <3>1. n \in Nat /\ n + 1 \in DOMAIN Servers
      BY <1>a, <2>1, NextServer
    <3>2. bound[p] = {Servers[i] : i \in 1..n}
      BY <1>a, <2>1 DEF InOrder
    <3>3. Servers \in Seq(STRING) /\ \A i, j \in DOMAIN Servers : Servers[i] = Servers[j] => i = j
      BY DaemonAssumption
    <3>. HIDE DEF n
    <3>4. \A i \in 1..n : i \in DOMAIN Servers /\ i # n + 1
      BY <3>1, <3>3
    <3>. QED BY <3>1, <3>2, <3>3, <3>4
  <2>. HIDE DEF n, next
  <2>4. st[q] \in {"init", "loop"} /\ q # p /\ Servers[1] \in bound[q]
    BY <1>a, <1>c, <1>d, <2>2, <2>3 DEF Ports, InOrder
  <2>5. bound[p] = {}
    BY <1>a, <2>1, <2>4 DEF Ports, InOrder
  <2>6. st'[q] = st[q]
    BY <2>1, <2>4
  <2>. QED BY <1>a, <1>c, <2>1, <2>4, <2>5, <2>6
<1>6. ASSUME NEW p \in Proc, SignalCb(p) \/ FreeServer(p) PROVE Goal
  BY <1>6, <1>c, <1>d DEF SignalCb, FreeServer
<1>7. ASSUME NEW p \in Proc, Fails(p) PROVE Goal
  BY <1>7, <1>b DEF Fails, ForkFails, ChdirFails, InitFails, Crash, Trouble
<1>8. CASE Pgrep \/ UNCHANGED vars
  BY <1>8, <1>c DEF Pgrep, vars, procVars
<1>9. CASE Kill
  <2>1. PICK p \in pids : Terminate(p) /\ hit' = (hit \/ Alive(p))
    BY <1>9 DEF Kill
  <2>2. ~Alive(p)
    BY <2>1
  <2>3. UNCHANGED procVars
    BY <2>1, <2>2 DEF Terminate, Alive
  <2>. QED BY <1>c, <2>3 DEF procVars
<1>. QED
  BY <1>1, <1>2, <1>3, <1>4, <1>5, <1>6, <1>7, <1>8, <1>9 DEF Next, Step

\* A stop reaches everything early that does not fork while it is under way.
LEMMA MissedStep == IInv /\ [Next]_vars => Missed'
<1>. SUFFICES ASSUME IInv, [Next]_vars PROVE Missed'
  OBVIOUS
<1>a. Typed /\ Lineage /\ Told /\ Missed /\ stops \in Nat
  BY DaemonAssumption DEF IInv, Typed
<1>. DEFINE Escaped(p) == p[1] \in early /\ Alive(p) /\ ~signalled[p]
            Late(p) == p[2] >= stops /\ (p \in pids \/ p[2] > stops)
<1>b. /\ \A s \in early : s \in Starts /\ st[<<s, 1>>] # "none"
      /\ \A p \in Proc : Escaped(p) => Late(p)
  BY <1>a DEF Missed, Typed
<1>c. \A p \in Proc : p[2] \in 1..3
  BY DEF Proc
<1>d. \A s \in Starts : <<s, 1>> \in Proc
  BY CommandOf
<1>. USE DEF Typed, States
<1>1. ASSUME NEW s \in Starts, Start(s) PROVE Missed'
  <2>1. /\ st[<<s, 1>>] = "none" /\ st' = [st EXCEPT ![<<s, 1>>] = "main"]
        /\ early' = IF stops = 0 THEN early \cup {s} ELSE early
        /\ UNCHANGED <<signalled, stops, pids>>
    BY <1>1 DEF Start, scriptVars
  <2>2. s \notin early
    BY <1>b, <2>1
  <2>3. ASSUME NEW p \in Proc, Escaped(p)' PROVE Late(p)'
    <3>1. CASE p = <<s, 1>>
      BY <1>a, <1>c, <2>1, <2>2, <2>3, <3>1 DEF Alive
    <3>2. CASE p[1] \in early
      <4>1. p # <<s, 1>>
        BY <2>2, <3>2
      <4>2. Escaped(p)
        BY <1>a, <2>1, <2>3, <3>2, <4>1 DEF Alive
      <4>. QED BY <1>b, <2>1, <4>2
    <3>3. CASE p[1] = s /\ stops = 0
      BY <1>c, <2>1, <3>3
    <3>. QED BY <2>1, <2>3, <3>1, <3>2, <3>3
  <2>4. \A q \in early' : st'[<<q, 1>>] # "none"
    BY <1>a, <1>b, <1>d, <2>1
  <2>. QED BY <2>3, <2>4 DEF Missed
<1>2. ASSUME NEW p \in Proc, p[2] < 3, Fork(p) PROVE Missed'
  <2>1. /\ Child(p) \in Proc /\ Child(p) # p /\ Child(p)[1] = p[1] /\ Child(p)[2] = p[2] + 1
    BY <1>2, ChildOf
  <2>2. /\ st[p] = "main" /\ st[Child(p)] = "none"
        /\ st' = [st EXCEPT ![p] = "parent", ![Child(p)] = IF p[2] = 1 THEN "main" ELSE "init"]
        /\ UNCHANGED <<signalled, stops, pids, early>>
    BY <1>2, <1>a DEF Fork, Lineage, scriptVars, historyVars
  <2>3. \A q \in Proc : st'[q] # "none" => st[q] # "none" \/ q = Child(p)
    BY <1>a, <2>1, <2>2
  <2>4. ASSUME NEW q \in Proc, Escaped(q)' PROVE Late(q)'
    <3>1. CASE q = Child(p)
      <4>1. Escaped(p)
        BY <1>a, <2>1, <2>2, <2>4, <3>1 DEF Alive, Told
      <4>. QED BY <1>a, <1>b, <1>c, <2>1, <2>2, <3>1, <4>1
    <3>2. CASE q # Child(p)
      <4>1. Escaped(q)
        BY <1>a, <2>1, <2>2, <2>4, <3>2 DEF Alive
      <4>. QED BY <1>b, <2>2, <4>1
    <3>. QED BY <3>1, <3>2
  <2>5. \A s \in early' : st'[<<s, 1>>] # "none"
    BY <1>a, <1>b, <1>d, <2>1, <2>2
  <2>. QED BY <2>4, <2>5 DEF Missed
<1>3. ASSUME \A p \in Proc : /\ Alive(p)' => Alive(p)
                             /\ st[p] # "none" => st'[p] # "none",
             UNCHANGED <<signalled, stops, pids, early>>
      PROVE  Missed'
  <2>1. \A p \in Proc : Escaped(p)' => Escaped(p)
    BY <1>3
  <2>. QED BY <1>b, <1>d, <1>3, <2>1 DEF Missed
<1>4. ASSUME NEW p \in Proc, Step(p), ~(p[2] < 3 /\ Fork(p)) PROVE Missed'
  <2>1. UNCHANGED <<signalled, stops, pids, early>>
    BY <1>4 DEF Step, ParentExits, Listen, PortTaken, SignalCb, FreeServer, InitReturns,
                Exit, Fail, scriptVars, historyVars
  <2>2. \A q \in Proc : (Alive(q)' => Alive(q)) /\ (st[q] # "none" => st'[q] # "none")
    BY <1>a, <1>4 DEF Step, ParentExits, Listen, PortTaken, SignalCb, FreeServer,
                      InitReturns, Exit, Fail, Alive
  <2>. QED BY <1>3, <2>1, <2>2
<1>5. ASSUME NEW p \in Proc, Fails(p) PROVE Missed'
  <2>1. UNCHANGED <<signalled, stops, pids, early>>
    BY <1>5 DEF Fails, ForkFails, ChdirFails, InitFails, Crash, Exit, Fail, Trouble, scriptVars
  <2>2. \A q \in Proc : (Alive(q)' => Alive(q)) /\ (st[q] # "none" => st'[q] # "none")
    BY <1>a, <1>5 DEF Fails, ForkFails, ChdirFails, InitFails, Crash, Exit, Fail, Alive
  <2>. QED BY <1>3, <2>1, <2>2
<1>6. CASE Pgrep
  <2>1. /\ pids = {} /\ stops' = stops + 1 /\ pids' = {p \in Proc : Alive(p)}
        /\ UNCHANGED <<st, signalled, early>>
    BY <1>6 DEF Pgrep, Found, procVars, historyVars
  <2>2. ASSUME NEW p \in Proc, Escaped(p)' PROVE Late(p)'
    <3>1. Escaped(p) /\ p \notin pids
      BY <2>1, <2>2 DEF Alive
    <3>2. p[2] > stops
      BY <1>b, <3>1
    <3>3. p \in pids'
      BY <2>1, <3>1
    <3>. QED BY <1>a, <1>c, <2>1, <3>2, <3>3
  <2>. QED BY <1>b, <2>1, <2>2 DEF Missed
<1>7. CASE Kill
  <2>1. PICK p \in pids : Terminate(p) /\ pids' = pids \ {p}
    BY <1>7 DEF Kill
  <2>2. p \in Proc /\ UNCHANGED <<stops, early>>
    BY <1>a, <1>7, <2>1 DEF Kill
  <2>3. ~Escaped(p)'
    BY <1>a, <2>1, <2>2 DEF Terminate, Exit, Alive, Told, procVars
  <2>4. \A q \in Proc : q # p => st'[q] = st[q] /\ signalled'[q] = signalled[q]
    BY <1>a, <2>1, <2>2 DEF Terminate, Exit, procVars
  <2>5. st[p] # "none" => st'[p] # "none"
    BY <1>a, <2>1, <2>2 DEF Terminate, Exit, procVars
  <2>6. ASSUME NEW q \in Proc, Escaped(q)' PROVE Late(q)'
    <3>1. q # p /\ Escaped(q)
      BY <2>2, <2>3, <2>4, <2>6 DEF Alive
    <3>. QED BY <1>b, <2>1, <2>2, <3>1
  <2>7. \A s \in early' : st'[<<s, 1>>] # "none"
    BY <1>b, <1>d, <2>2, <2>4, <2>5
  <2>. QED BY <2>6, <2>7 DEF Missed
<1>8. CASE UNCHANGED vars
  BY <1>8, <1>b DEF vars, procVars, scriptVars, historyVars, Missed, Alive
<1>. QED BY <1>1, <1>2, <1>4, <1>5, <1>6, <1>7, <1>8 DEF Next, Step

-----------------------------------------------------------------------------
\* Whatever starts, stops, failures and signals come: IInv holds always.
THEOREM Invariance == Spec => []IInv
<1>1. IInv /\ [Next]_vars => IInv'
  BY TypedStep, LineageStep, PortsStep, ToldStep, InOrderStep, UnstoppedStep, MissedStep
     DEF IInv
<1>. QED BY InitIInv, <1>1, PTL DEF Spec

\* Type correctness, and the exclusive ownership of ports it includes: a port of
\* the service is held by one process at a time, a daemon in its loop holds all
\* of them, and none but a daemon holds any.
THEOREM TypeCorrect == Spec => []TypeOK
<1>1. IInv => TypeOK
  BY DEF IInv, Typed, States, Lineage, Ports, TypeOK
<1>. QED BY Invariance, <1>1, PTL

\* However many starts and stops overlap, two services never run at once, and
\* once all is quiet one runs, if ever one was started, unless the system failed
\* or a stop hit one.
THEOREM OneService == Spec => []OneServiceUnlessStopped
<1>1. ASSUME IInv PROVE Cardinality(Serving) <= 1
  <2>1. ASSUME NEW p \in Serving, NEW q \in Serving PROVE p = q
    <3>1. ToSet(Servers) # {}
      BY DaemonAssumption DEF ToSet
    <3>2. bound[p] = ToSet(Servers) /\ bound[q] = ToSet(Servers) /\ p \in Proc /\ q \in Proc
      BY <1>1 DEF IInv, Ports, Serving
    <3>. QED BY <1>1, <3>1, <3>2 DEF IInv, Ports
  <2>2. CASE Serving = {}
    BY <2>2, FS_EmptySet
  <2>3. CASE Serving # {}
    <3>1. \E p : Serving = {p}
      BY <2>1, <2>3
    <3>. QED BY <3>1, FS_Singleton
  <2>. QED BY <2>2, <2>3
<1>2. ASSUME IInv, Quiet, troubles = 0, \E s \in Starts : st[<<s, 1>>] # "none"
      PROVE  Serving # {} \/ hit
  BY <1>2 DEF IInv, Unstopped, Quiet, Alive, Serving
<1>3. IInv => OneServiceUnlessStopped
  BY <1>1, <1>2 DEF OneServiceUnlessStopped
<1>. QED BY Invariance, <1>3, PTL

\* Three runs of stop.sh end, or tell to end, whatever was started before the
\* first of them began: the two forks of a start can carry it past two of them.
THEOREM ThreeStops == Spec => []ThreeStopsSuffice
<1>1. IInv => ThreeStopsSuffice
  <2>. SUFFICES ASSUME IInv, stops >= 3, stops = 3 => pids = {}, NEW p \in Proc,
                       p[1] \in early, Alive(p), ~signalled[p]
                PROVE  FALSE
    BY DEF ThreeStopsSuffice
  <2>1. p[2] \in 1..3 /\ stops \in Nat
    BY DaemonAssumption DEF IInv, Typed, Proc
  <2>2. p[2] >= stops /\ (p \in pids \/ p[2] > stops)
    BY DEF IInv, Missed
  <2>. QED BY <2>1, <2>2
<1>. QED BY Invariance, <1>1, PTL
=============================================================================
