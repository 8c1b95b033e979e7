------------------------------- MODULE Logger -------------------------------
(***************************************************************************)
(* Utils::printLog and Logger: how a line of the log gets into a file.     *)
(* Every line opens, writes and closes the file of its day anew, in steps  *)
(* that read the clock three times.  Several processes may do so in one    *)
(* directory: a service that runs, one that starts beside it and finds its *)
(* ports taken, the processes a start leaves through fork.                 *)
(*                                                                         *)
(* A line is one unit of length; its text is left out.                     *)
(***************************************************************************)
EXTENDS Integers, FiniteSets, Sequences

CONSTANTS Procs,
          MaxBytes,     \* LOG_FILE_MAX_BYTES, in lines
          Seconds,      \* seconds of a day
          LastTick,     \* bound: the last second of the clock
          MaxLines,     \* bound: lines each process logs
          MaxFaults,    \* bound: calls that fail, and processes that are killed
          MaxSetBacks   \* bound: times the clock is set back

ASSUME LoggerAssumption ==
  /\ IsFiniteSet(Procs)
  /\ Seconds \in Nat \ {0}
  /\ {MaxBytes, LastTick, MaxFaults, MaxSetBacks} \subseteq Nat
  /\ MaxLines \in [Procs -> Nat]

VARIABLES
  now,          \* the clock, in seconds since the first day began
  pc,           \* process -> "idle", or the call it is about to make
  line,         \* process -> the line it is logging
  day,          \* process -> the day whose directory it has made
  at,           \* process -> the time it is about to name a rotated file after
  file,         \* process -> the file it has open, 0 if none
  named,        \* <<day, second>> -> file; the second is Current in X.log
  content,      \* file -> its day, and the lines in it
  logged,       \* process -> lines it has logged so far
  rotations,    \* history: files renamed, in order, and the files they replaced
  faults,       \* history: lines whose rename failed, and lines dropped
  setBacks      \* history: times the clock was set back

procVars == <<pc, line, day, at, file>>
diskVars == <<named, content>>
vars == <<now, procVars, diskVars, logged, rotations, faults, setBacks>>

Day(tick) == tick \div Seconds

\* Mutant of Second: the name is stamped to the day only.
SecondMissing(tick) == 0

\* The time of day a rotated file is named after.
Second(tick) == tick % Seconds

Current == -1

NoLine == [by |-> CHOOSE p \in Procs : TRUE, no |-> 0, stamp |-> 0]

Init ==
  /\ now = 0
  /\ pc = [p \in Procs |-> "idle"]
  /\ line = [p \in Procs |-> NoLine]
  /\ day = [p \in Procs |-> 0]
  /\ at = [p \in Procs |-> 0]
  /\ file = [p \in Procs |-> 0]
  /\ named = <<>> /\ content = <<>>
  /\ logged = [p \in Procs |-> 0]
  /\ rotations = <<>> /\ faults = {} /\ setBacks = 0

Goto(p, call) == pc' = [pc EXCEPT ![p] = call]

\* Mutant of Done: the file stays open.
DoneWithoutClose(p) ==
  /\ Goto(p, "idle")
  /\ line' = [line EXCEPT ![p] = NoLine]
  /\ day' = [day EXCEPT ![p] = 0]
  /\ at' = [at EXCEPT ![p] = 0]
  /\ UNCHANGED file

\* p is done with its line, in whatever way.
Done(p) ==
  /\ Goto(p, "idle")
  /\ line' = [line EXCEPT ![p] = NoLine]
  /\ day' = [day EXCEPT ![p] = 0]
  /\ at' = [at EXCEPT ![p] = 0]
  /\ file' = [file EXCEPT ![p] = 0]

Fault(p, kind) ==
  /\ Cardinality(faults) < MaxFaults
  /\ faults' = faults \cup {[by |-> p, no |-> line[p].no, kind |-> kind]}

-----------------------------------------------------------------------------
(* One line.                                                               *)

\* printLog stamps a line.  (One that the level or the type of the log keeps from
\* the file changes nothing here.)
PrintLog(p) ==
  /\ pc[p] = "idle"
  /\ logged[p] < MaxLines[p]
  /\ logged' = [logged EXCEPT ![p] = @ + 1]
  /\ line' = [line EXCEPT ![p] = [by |-> p, no |-> logged'[p], stamp |-> now]]
  /\ Goto(p, "mkdirP")
  /\ UNCHANGED <<now, day, at, file, diskVars, rotations, faults, setBacks>>

\* Mutant of DirDay: the day of the first line stays.
FirstDay(p) == IF content = <<>> THEN Day(now) ELSE content[1].day

\* logToFile reads the clock again for the directory of the day.
DirDay(p) == Day(now)

\* mkdirP: every directory of the path is made or is there already.
MkdirP(p) ==
  /\ pc[p] = "mkdirP"
  /\ day' = [day EXCEPT ![p] = DirDay(p)]
  /\ Goto(p, "stat")
  /\ UNCHANGED <<now, line, at, file, diskVars, logged, rotations, faults, setBacks>>

\* Mutant of TooLong: the name asked about is the one without ".log".
NeverTooLong(d) == FALSE

\* openFile's stat: the current file of the day is there and above the limit.
TooLong(d) ==
  /\ <<d, Current>> \in DOMAIN named
  /\ Len(content[named[<<d, Current>>]].lines) > MaxBytes

Stat(p) ==
  /\ pc[p] = "stat"
  /\ Goto(p, IF TooLong(day[p]) THEN "gettimeofday" ELSE "fopen")
  /\ UNCHANGED <<now, line, day, at, file, diskVars, logged, rotations, faults, setBacks>>

\* openFile reads the clock a third time, for the name of the rotated file.
GetTimeOfDay(p) ==
  /\ pc[p] = "gettimeofday"
  /\ at' = [at EXCEPT ![p] = now]
  /\ Goto(p, "rename")
  /\ UNCHANGED <<now, line, day, file, diskVars, logged, rotations, faults, setBacks>>

\* X.log becomes X.HH:MM:SS.log, in place of a file of that name.  X.log may not
\* be the file p has asked about any more, or not be there.
Rename(p) ==
  LET from == <<day[p], Current>>
      to == <<day[p], Second(at[p])>>
  IN  /\ pc[p] = "rename"
      /\ IF from \in DOMAIN named
           THEN /\ named' = [n \in (DOMAIN named \ {from}) \cup {to} |->
                               IF n = to THEN named[from] ELSE named[n]]
                /\ rotations' = Append(rotations,
                     [by |-> p, file |-> named[from], at |-> at[p],
                      replaced |-> IF to \in DOMAIN named THEN named[to] ELSE 0])
           ELSE UNCHANGED <<named, rotations>>
      /\ Goto(p, "fopen")
      /\ UNCHANGED <<now, line, day, at, file, content, logged, faults, setBacks>>

\* Mutant of OpenMode: "w+" instead of "a+".
Truncated(f) == [f EXCEPT !.lines = <<>>]

\* fopen "a+" leaves what is in the file.
OpenMode(f) == f

\* fopen: the current file of the day, a new one if there is none.
Fopen(p) ==
  LET name == <<day[p], Current>>
  IN  /\ pc[p] = "fopen"
      /\ IF name \in DOMAIN named
           THEN /\ content' = [content EXCEPT ![named[name]] = OpenMode(@)]
                /\ UNCHANGED named
           ELSE /\ content' = Append(content, [day |-> day[p], lines |-> <<>>])
                /\ named' = [n \in DOMAIN named \cup {name} |->
                               IF n = name THEN Len(content') ELSE named[n]]
      /\ file' = [file EXCEPT ![p] = named'[name]]
      /\ Goto(p, "fclose")
      /\ UNCHANGED <<now, line, day, at, logged, rotations, faults, setBacks>>

\* fprintf and fclose: the line is appended to the open file, whatever its
\* name is by now.
Fclose(p) ==
  /\ pc[p] = "fclose"
  /\ content' = [content EXCEPT ![file[p]].lines = Append(@, line[p])]
  /\ Done(p)
  /\ UNCHANGED <<now, named, logged, rotations, faults, setBacks>>

\* rename fails: the file is used though it is above the limit.
RenameFails(p) ==
  /\ pc[p] = "rename"
  /\ Fault(p, "rename")
  /\ Goto(p, "fopen")
  /\ UNCHANGED <<now, line, day, at, file, diskVars, logged, rotations, setBacks>>

\* mkdirP or openFile fails, or the write (whose result nobody looks at), or
\* the process is killed: the line is not filed.
LineDropped(p) ==
  /\ pc[p] # "idle"
  /\ Fault(p, "dropped")
  /\ Done(p)
  /\ UNCHANGED <<now, diskVars, logged, rotations, setBacks>>

-----------------------------------------------------------------------------
(* The clock, in local time.                                               *)

Tick ==
  /\ now < LastTick
  /\ now' = now + 1
  /\ UNCHANGED <<procVars, diskVars, logged, rotations, faults, setBacks>>

\* The end of daylight saving, or a correction.
SetBack ==
  /\ setBacks < MaxSetBacks
  /\ now' \in 0..(now - 1)
  /\ setBacks' = setBacks + 1
  /\ UNCHANGED <<procVars, diskVars, logged, rotations, faults>>

Step(p) ==
  \/ PrintLog(p) \/ MkdirP(p) \/ Stat(p) \/ GetTimeOfDay(p) \/ Rename(p)
  \/ Fopen(p) \/ Fclose(p) \/ RenameFails(p) \/ LineDropped(p)

Next == (\E p \in Procs : Step(p)) \/ Tick \/ SetBack

Spec == Init /\ [][Next]_vars

-----------------------------------------------------------------------------
(* Correctness.                                                            *)

Files == DOMAIN content
Days == 0..Day(LastTick)
Lines == [by : Procs, no : Nat, stamp : 0..LastTick]
Faults == [by : Procs, no : Nat, kind : {"rename", "dropped"}]
Rotations == [by : Procs, file : Files, at : 0..LastTick, replaced : {0} \cup Files]

TypeOK ==
  /\ now \in 0..LastTick
  /\ pc \in [Procs -> {"idle", "mkdirP", "stat", "gettimeofday", "rename",
                       "fopen", "fclose"}]
  /\ line \in [Procs -> Lines]
  /\ day \in [Procs -> Days] /\ at \in [Procs -> 0..LastTick]
  /\ file \in [Procs -> {0} \cup Files]
  /\ \A p \in Procs : file[p] # 0 <=> pc[p] = "fclose"
  /\ content \in Seq([day : Days, lines : Seq(Lines)])
  /\ named \in [DOMAIN named -> Files]
  /\ DOMAIN named \subseteq Days \X ({Current} \cup 0..(Seconds - 1))
  /\ \A n \in DOMAIN named : content[named[n]].day = n[1]
  /\ logged \in [Procs -> Nat] /\ \A p \in Procs : logged[p] <= MaxLines[p]
  /\ rotations \in Seq(Rotations)
  /\ faults \subseteq Faults /\ IsFiniteSet(faults) /\ Cardinality(faults) <= MaxFaults
  /\ setBacks \in 0..MaxSetBacks

\* The places of p's lines: the file, and the line of the file.
Filed(p) ==
  {w \in UNION {{i} \X DOMAIN content[i].lines : i \in Files} :
     content[w[1]].lines[w[2]].by = p}

No(w) == content[w[1]].lines[w[2]].no

Before(v, w) == v[1] < w[1] \/ (v[1] = w[1] /\ v[2] < w[2])

Dropped(p) == {f.no : f \in {g \in faults : g.by = p /\ g.kind = "dropped"}}

\* Whatever other processes rotate meanwhile, and however the clock is set: the
\* files of a day, read one after the other, hold a process's lines in the order
\* in which it logged them, and every line that was not dropped is in one of
\* them, once.
LinesKeptInOrder ==
  \A p \in Procs :
    /\ \A v, w \in Filed(p) :
         /\ content[v[1]].day = content[w[1]].day /\ Before(v, w) => No(v) < No(w)
         /\ No(v) = No(w) => v = w
    /\ {No(w) : w \in Filed(p)} = ((1..logged[p]) \ Dropped(p)) \ {line[p].no}

\* Rotation limits every file, the renamed ones too, though several processes
\* may have found the current file below the limit before any of them writes:
\* one line above it for each process, unless a rename failed.
SizeBounded ==
  (\A f \in faults : f.kind # "rename") =>
    \A i \in Files : Len(content[i].lines) <= MaxBytes + Cardinality(Procs)

\* A rotated file is replaced by a later one of the same name only if two
\* processes rotated them, or the clock was set back, or a process went on with
\* a line a day later, or more than MaxBytes were logged within one second.
RotatedFilesSurvive ==
  setBacks = 0 =>
    \A i, j \in DOMAIN rotations :
      LET old == rotations[i]
          new == rotations[j]
      IN  new.replaced = old.file =>
            \/ old.by # new.by
            \/ new.at - old.at >= Seconds
            \/ /\ new.at = old.at
               /\ \E f \in (old.file + 1)..new.file : Len(content[f].lines) > MaxBytes

\* A line is never filed under a day that was over when it was stamped, however
\* long a process takes from the one reading of the clock to the next.
FiledUnderItsDay ==
  setBacks = 0 =>
    \A i \in Files : \A k \in DOMAIN content[i].lines :
      Day(content[i].lines[k].stamp) <= content[i].day /\ content[i].day <= Day(now)
=============================================================================
