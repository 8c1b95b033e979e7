---------------------------- MODULE LoggerProofs ----------------------------
(***************************************************************************)
(* The safety properties of Logger, for any number of processes, lines,    *)
(* rotations and failures.  IInv is the inductive invariant: which file is *)
(* the newest of its day, what has been filed, who is about to write to a  *)
(* file, which file was rotated when, and what a process that is about to  *)
(* rotate one has seen.                                                    *)
(***************************************************************************)
EXTENDS Logger, FiniteSetTheorems, SequenceTheorems, TLAPS

States == {"idle", "mkdirP", "stat", "gettimeofday", "rename", "fopen", "fclose"}

LinesOf(i) == content[i].lines
DayOf(i) == content[i].day

\* A process has the line it logged last until it is done with it, and then
\* none; what it has open is a file of the day it made the directory of.
Own ==
  \A p \in Procs :
    /\ pc[p] = "idle" => line[p].no = 0
    /\ pc[p] # "idle" => line[p].by = p /\ line[p].no = logged[p] /\ logged[p] # 0
    /\ pc[p] = "fclose" => DayOf(file[p]) = day[p]

\* The current file of a day is its newest: a renamed one is never current again.
Newest ==
  \A d \in Days : <<d, Current>> \in DOMAIN named =>
    \A i \in Files : DayOf(i) = d => i <= named[<<d, Current>>]

\* Faults are about lines logged, and no line is dropped that is being logged.
Blamed ==
  \A f \in faults :
    /\ f.no <= logged[f.by]
    /\ f.kind = "dropped" /\ pc[f.by] # "idle" => f.no # logged[f.by]

\* A process that is about to write has no line in a later file of the day.
Ahead ==
  \A p \in Procs : pc[p] = "fclose" =>
    \A w \in Filed(p) : DayOf(w[1]) = day[p] => w[1] <= file[p]

\* The processes that are about to write to file i, as things stand.
Pending(i) ==
  {p \in Procs :
     \/ pc[p] = "fclose" /\ file[p] = i
     \/ /\ pc[p] = "fopen" /\ <<day[p], Current>> \in DOMAIN named
        /\ named[<<day[p], Current>>] = i}

\* There is room for all of them.
Room ==
  (\A f \in faults : f.kind # "rename") =>
    \A i \in Files : Len(LinesOf(i)) + Cardinality(Pending(i)) <= MaxBytes + Cardinality(Procs)

\* The clock was never set back: a process is never ahead of it, nor the day of
\* its directory before that of its line.
Timely ==
  setBacks = 0 =>
    \A p \in Procs :
      /\ pc[p] # "idle" => line[p].stamp <= now
      /\ pc[p] \notin {"idle", "mkdirP"} => Day(line[p].stamp) <= day[p] /\ day[p] <= Day(now)

\* The files that were rotated: no current ones, each once, and every other
\* name is of one of them.
Rotated ==
  /\ \A n \in DOMAIN named : n[2] = Current =>
       \A i \in DOMAIN rotations : rotations[i].file # named[n]
  /\ \A n \in DOMAIN named : n[2] # Current =>
       \E i \in DOMAIN rotations :
         rotations[i].file = named[n] /\ Second(rotations[i].at) = n[2]
  /\ \A i, j \in DOMAIN rotations : rotations[i].file = rotations[j].file => i = j
  /\ \A i \in DOMAIN rotations : rotations[i].replaced # 0 =>
       \E j \in DOMAIN rotations : rotations[j].file = rotations[i].replaced

\* A process that is about to rotate a file has seen one above the limit that is
\* newer than all those of the day it has rotated before.
Seen(p) ==
  \E f \in Files :
    /\ DayOf(f) = day[p] /\ Len(LinesOf(f)) > MaxBytes
    /\ \A i \in DOMAIN rotations :
         rotations[i].by = p /\ DayOf(rotations[i].file) = day[p] => rotations[i].file < f

\* The clock was never set back: rotations are not ahead of it, and a process's
\* own come in order.
InTime ==
  setBacks = 0 =>
    /\ \A i \in DOMAIN rotations : rotations[i].at <= now
    /\ \A p \in Procs : pc[p] = "rename" =>
         /\ at[p] <= now
         /\ \A i \in DOMAIN rotations : rotations[i].by = p => rotations[i].at <= at[p]

Sighted == \A p \in Procs : pc[p] \in {"gettimeofday", "rename"} => Seen(p)

\* The invariant, inductive.
IInv ==
  /\ TypeOK /\ Own /\ Newest /\ Blamed /\ Ahead /\ LinesKeptInOrder
  /\ Room /\ Timely /\ FiledUnderItsDay
  /\ Rotated /\ InTime /\ Sighted /\ RotatedFilesSurvive

-----------------------------------------------------------------------------
(* Times of day.                                                           *)

\* Division by a positive number keeps the order.
LEMMA DivMonotone ==
  ASSUME NEW a \in Nat, NEW b \in Nat, NEW n \in Nat \ {0}, a <= b
  PROVE  a \div n \in Nat /\ a \div n <= b \div n
OBVIOUS

\* Of two numbers with the same remainder, the larger is larger by the divisor.
LEMMA SameRemainder ==
  ASSUME NEW a \in Nat, NEW b \in Nat, NEW n \in Nat \ {0}, a % n = b % n, a < b
  PROVE  b - a >= n
OBVIOUS

\* Days and seconds are of the ranges they are taken from.
LEMMA DayType ==
  ASSUME NEW a \in 0..LastTick
  PROVE  Day(a) \in Days /\ Day(a) \in Nat /\ Second(a) \in 0..(Seconds - 1) /\ Second(a) # Current
<1>1. a \in Nat /\ LastTick \in Nat /\ Seconds \in Nat \ {0} /\ a <= LastTick
  BY LoggerAssumption
<1>2. a \div Seconds \in Nat /\ a \div Seconds <= LastTick \div Seconds
      /\ LastTick \div Seconds \in Nat
  BY <1>1, DivMonotone
<1>3. a % Seconds \in 0..(Seconds - 1)
  BY <1>1
<1>. QED BY <1>2, <1>3 DEF Day, Days, Second, Current

\* The day goes on with the clock.
LEMMA DayGoesOn ==
  ASSUME NEW a \in 0..LastTick, NEW b \in 0..LastTick, a <= b
  PROVE  Day(a) <= Day(b)
<1>1. a \in Nat /\ b \in Nat /\ Seconds \in Nat \ {0}
  BY LoggerAssumption
<1>. QED BY <1>1, DivMonotone DEF Day

-----------------------------------------------------------------------------
(* Types.                                                                  *)

\* The types of the functions on processes, and of what is shared.
Calls ==
  /\ pc \in [Procs -> States]
  /\ line \in [Procs -> Lines]
  /\ day \in [Procs -> Days] /\ at \in [Procs -> 0..LastTick]
  /\ file \in [Procs -> {0} \cup Files]
  /\ \A p \in Procs : file[p] # 0 <=> pc[p] = "fclose"

FileType == [day : Days, lines : Seq(Lines)]

Disk ==
  /\ content \in Seq(FileType)
  /\ named \in [DOMAIN named -> Files]
  /\ DOMAIN named \subseteq Days \X ({Current} \cup 0..(Seconds - 1))
  /\ \A n \in DOMAIN named : content[named[n]].day = n[1]

History ==
  /\ now \in 0..LastTick
  /\ logged \in [Procs -> Nat] /\ \A p \in Procs : logged[p] <= MaxLines[p]
  /\ rotations \in Seq(Rotations)
  /\ faults \subseteq Faults /\ IsFiniteSet(faults) /\ Cardinality(faults) <= MaxFaults
  /\ setBacks \in 0..MaxSetBacks

\* TypeOK in three parts.
LEMMA TypeParts == TypeOK <=> Calls /\ Disk /\ History
BY DEF TypeOK, Calls, Disk, History, States, FileType

\* A line that is none.
LEMMA NoLineType == \A p \in Procs : NoLine \in Lines /\ NoLine.no = 0
<1>. SUFFICES ASSUME NEW p \in Procs PROVE NoLine \in Lines /\ NoLine.no = 0
  OBVIOUS
<1>1. (CHOOSE q \in Procs : TRUE) \in Procs
  OBVIOUS
<1>2. 0 \in 0..LastTick
  BY LoggerAssumption
<1>. QED BY <1>1, <1>2 DEF NoLine, Lines

\* What a step does to the files: nothing, a new one, or a line more in one that
\* is open.
Begins(p) ==
  /\ pc[p] = "fopen" /\ <<day[p], Current>> \notin DOMAIN named
  /\ content' = Append(content, [day |-> day[p], lines |-> <<>>])

Writes(p) ==
  /\ pc[p] = "fclose"
  /\ content' = [content EXCEPT ![file[p]].lines = Append(@, line[p])]

\* A line more in a file.
LEMMA LineMore ==
  ASSUME NEW f \in FileType, NEW v \in Lines
  PROVE  LET new == [f EXCEPT !.lines = Append(@, v)]
         IN  /\ new \in FileType /\ f.lines \in Seq(Lines)
             /\ new.day = f.day /\ new.lines = Append(f.lines, v)
<1>. DEFINE new == [f EXCEPT !.lines = Append(@, v)]
<1>1. PICK d \in Days, s \in Seq(Lines) : f = [day |-> d, lines |-> s]
  BY DEF FileType
<1>2. f.day = d /\ f.lines = s
  BY <1>1
<1>3. Append(s, v) \in Seq(Lines)
  BY <1>1, AppendProperties
<1>4. new = [day |-> d, lines |-> Append(s, v)]
  BY <1>1, <1>2
<1>5. new.day = d /\ new.lines = Append(s, v)
  BY <1>4
<1>6. new \in FileType
  BY <1>3, <1>4 DEF FileType
<1>. QED BY <1>1, <1>2, <1>5, <1>6

\* What a step does to the files is one of these.
LEMMA ContentStep ==
  ASSUME [Next]_vars, Disk
  PROVE  content' = content \/ \E p \in Procs : Begins(p) \/ Writes(p)
<1>1. ASSUME NEW p \in Procs, Step(p)
      PROVE  content' = content \/ Begins(p) \/ Writes(p)
  <2>1. CASE Fopen(p)
    <3>1. CASE <<day[p], Current>> \in DOMAIN named
      <4>1. content' = [content EXCEPT ![named[<<day[p], Current>>]] = OpenMode(@)]
        BY <2>1, <3>1 DEF Fopen
      <4>2. content' = content
        BY <4>1 DEF OpenMode, Disk
      <4>. QED BY <4>2
    <3>2. CASE <<day[p], Current>> \notin DOMAIN named
      BY <2>1, <3>2 DEF Fopen, Begins
    <3>. QED BY <3>1, <3>2
  <2>2. CASE Fclose(p)
    BY <2>2 DEF Fclose, Writes
  <2>3. CASE ~Fopen(p) /\ ~Fclose(p)
    BY <1>1, <2>3 DEF Step, PrintLog, MkdirP, Stat, GetTimeOfDay, Rename, RenameFails,
       LineDropped, diskVars
  <2>. QED BY <2>1, <2>2, <2>3
<1>2. CASE Tick \/ SetBack \/ UNCHANGED vars
  BY <1>2 DEF Tick, SetBack, vars, diskVars
<1>. QED BY <1>1, <1>2 DEF Next

\* A line written is the last one of its file.
LEMMA Written ==
  ASSUME NEW p \in Procs, Writes(p), Calls, Disk
  PROVE  /\ content' \in Seq(FileType) /\ Files' = Files
         /\ \A i \in Files : i # file[p] => content'[i] = content[i]
         /\ file[p] \in Files /\ content[file[p]].lines \in Seq(Lines) /\ line[p] \in Lines
         /\ content'[file[p]].day = content[file[p]].day
         /\ content'[file[p]].lines = Append(content[file[p]].lines, line[p])
<1>1. content \in Seq(FileType) /\ Files = 1..Len(content) /\ Len(content) \in Nat
  BY DEF Disk, Files
<1>2. file[p] \in Files /\ line[p] \in Lines /\ content[file[p]] \in FileType
  BY <1>1 DEF Calls, Writes, Files
<1>. DEFINE f == file[p]
            new == [content[f] EXCEPT !.lines = Append(@, line[p])]
<1>3. content' = [content EXCEPT ![f] = new]
  BY DEF Writes
<1>4. new.day = content[f].day /\ new.lines = Append(content[f].lines, line[p])
      /\ content[f].lines \in Seq(Lines) /\ new \in FileType
  BY ONLY <1>2, LineMore
<1>. HIDE DEF new
<1>5. content' \in Seq(FileType) /\ DOMAIN content' = DOMAIN content /\ content'[f] = new
      /\ \A i \in Files : i # f => content'[i] = content[i]
  BY <1>1, <1>2, <1>3, <1>4 DEF Files
<1>. QED BY <1>2, <1>4, <1>5 DEF Files

\* Files stay and keep their day; what is in them only grows.
LEMMA FilesStay ==
  ASSUME [Next]_vars, Calls, Disk
  PROVE  /\ content' \in Seq(FileType) /\ Files \subseteq Files'
         /\ \A i \in Files :
              /\ content'[i].day = content[i].day
              /\ Len(content[i].lines) <= Len(content'[i].lines)
              /\ \A k \in DOMAIN content[i].lines :
                   k \in DOMAIN content'[i].lines /\ content'[i].lines[k] = content[i].lines[k]
<1>1. content \in Seq(FileType) /\ Files = 1..Len(content) /\ Len(content) \in Nat
  BY DEF Disk, Files
<1>2. CASE content' = content
  BY <1>1, <1>2 DEF Files
<1>3. ASSUME NEW p \in Procs, Begins(p)
      PROVE  /\ content' \in Seq(FileType) /\ Files' = 1..(Len(content) + 1)
             /\ \A i \in Files : content'[i] = content[i]
  <2>. DEFINE new == [day |-> day[p], lines |-> <<>>]
  <2>1. new \in FileType
    BY DEF FileType, Calls
  <2>2. content' = Append(content, new)
    BY <1>3 DEF Begins
  <2>. HIDE DEF new
  <2>. QED BY <1>1, <2>1, <2>2 DEF Files
<1>4. ASSUME NEW p \in Procs, Writes(p)
      PROVE  /\ content' \in Seq(FileType) /\ Files' = Files
             /\ \A i \in Files : i # file[p] => content'[i] = content[i]
             /\ file[p] \in Files /\ content[file[p]].lines \in Seq(Lines) /\ line[p] \in Lines
             /\ content'[file[p]].day = content[file[p]].day
             /\ content'[file[p]].lines = Append(content[file[p]].lines, line[p])
  BY <1>4, Written
<1>5. ASSUME NEW i \in Files
      PROVE  content[i].lines \in Seq(Lines)
  <2>1. content[i] \in FileType
    BY <1>1
  <2>. QED BY ONLY <2>1 DEF FileType
<1>6. CASE \E p \in Procs : Begins(p)
  <2>1. /\ content' \in Seq(FileType) /\ Files' = 1..(Len(content) + 1)
        /\ \A i \in Files : content'[i] = content[i]
    BY <1>3, <1>6
  <2>2. Files \subseteq Files'
    BY <1>1, <2>1
  <2>3. \A i \in Files : Len(content[i].lines) <= Len(content[i].lines)
    BY <1>5
  <2>. QED BY <2>1, <2>2, <2>3
<1>7. ASSUME NEW p \in Procs, Writes(p), NEW i \in Files
      PROVE  /\ content'[i].day = content[i].day
             /\ Len(content[i].lines) <= Len(content'[i].lines)
             /\ \A k \in DOMAIN content[i].lines :
                  k \in DOMAIN content'[i].lines /\ content'[i].lines[k] = content[i].lines[k]
  <2>. DEFINE s == content[i].lines
  <2>1. s \in Seq(Lines)
    BY <1>5
  <2>2. CASE i # file[p]
    BY <1>4, <1>7, <2>1, <2>2
  <2>3. CASE i = file[p]
    <3>1. content'[i].lines = Append(s, line[p]) /\ line[p] \in Lines
          /\ content'[i].day = content[i].day
      BY <1>4, <1>7, <2>3
    <3>. HIDE DEF s
    <3>. QED BY <2>1, <3>1 DEF s
  <2>. QED BY <2>2, <2>3
<1>8. CASE \E p \in Procs : Writes(p)
  BY <1>4, <1>7, <1>8
<1>. QED BY <1>2, <1>6, <1>8, ContentStep

\* The types of what the processes have hold on.
LEMMA CallsStep ==
  ASSUME [Next]_vars, TypeOK
  PROVE  Calls'
<1>1. Calls /\ Disk /\ History /\ now \in 0..LastTick
  BY TypeParts DEF History
<1>2. Files \subseteq Files'
  BY <1>1, FilesStay
<1>3. /\ pc \in [Procs -> States] /\ line \in [Procs -> Lines] /\ day \in [Procs -> Days]
      /\ at \in [Procs -> 0..LastTick] /\ file \in [Procs -> {0} \cup Files']
      /\ \A p \in Procs : file[p] # 0 <=> pc[p] = "fclose"
  BY <1>1, <1>2 DEF Calls
<1>4. ASSUME NEW p \in Procs, NEW call \in States \ {"fclose"}, Goto(p, call), pc[p] # "fclose"
      PROVE  /\ pc' \in [Procs -> States]
             /\ \A q \in Procs : file[q] # 0 <=> pc'[q] = "fclose"
  BY <1>3, <1>4 DEF Goto
<1>5. ASSUME NEW p \in Procs, Done(p)
      PROVE  Calls'
  <2>1. NoLine \in Lines /\ 0 \in 0..LastTick /\ 0 \in Days
    BY NoLineType, LoggerAssumption, DayType DEF Day
  <2>2. pc' \in [Procs -> States] /\ pc' = [pc EXCEPT ![p] = "idle"]
    BY <1>3, <1>5 DEF Done, Goto, States
  <2>3. line' \in [Procs -> Lines]
    BY <1>3, <1>5, <2>1 DEF Done
  <2>4. day' \in [Procs -> Days] /\ at' \in [Procs -> 0..LastTick]
    BY <1>3, <1>5, <2>1 DEF Done
  <2>5. file' \in [Procs -> {0} \cup Files'] /\ file' = [file EXCEPT ![p] = 0]
    BY <1>3, <1>5 DEF Done
  <2>6. \A q \in Procs : file'[q] # 0 <=> pc'[q] = "fclose"
    BY <1>3, <2>2, <2>5
  <2>. QED BY <2>2, <2>3, <2>4, <2>5, <2>6 DEF Calls, Lines
<1>6. ASSUME NEW p \in Procs, PrintLog(p) PROVE Calls'
  <2>1. logged[p] \in Nat /\ logged' = [logged EXCEPT ![p] = @ + 1] /\ logged \in [Procs -> Nat]
    BY <1>1, <1>6 DEF PrintLog, History
  <2>2. logged'[p] \in Nat
    BY <2>1
  <2>3. line' = [line EXCEPT ![p] = [by |-> p, no |-> logged'[p], stamp |-> now]]
    BY <1>6 DEF PrintLog
  <2>4. [by |-> p, no |-> logged'[p], stamp |-> now] \in Lines
    BY <1>1, <2>2 DEF Lines
  <2>5. line' \in [Procs -> Lines]
    BY <1>3, <2>3, <2>4
  <2>. QED BY <1>3, <1>4, <1>6, <2>5 DEF PrintLog, Calls, Lines, States
<1>7. ASSUME NEW p \in Procs, MkdirP(p) PROVE Calls'
  <2>1. DirDay(p) \in Days
    BY <1>1, DayType DEF DirDay
  <2>2. day' \in [Procs -> Days]
    BY <1>3, <1>7, <2>1 DEF MkdirP
  <2>. QED BY <1>3, <1>4, <1>7, <2>2 DEF MkdirP, Calls, Lines, States
<1>8. ASSUME NEW p \in Procs, Stat(p) PROVE Calls'
  BY <1>3, <1>4, <1>8 DEF Stat, Calls, Lines, States
<1>9. ASSUME NEW p \in Procs, GetTimeOfDay(p) PROVE Calls'
  <2>1. at' \in [Procs -> 0..LastTick]
    BY <1>1, <1>3, <1>9 DEF GetTimeOfDay
  <2>. QED BY <1>3, <1>4, <1>9, <2>1 DEF GetTimeOfDay, Calls, Lines, States
<1>10. ASSUME NEW p \in Procs, Rename(p) \/ RenameFails(p) PROVE Calls'
  <2>1. Goto(p, "fopen") /\ pc[p] = "rename" /\ UNCHANGED <<line, day, at, file>>
    BY <1>10 DEF Rename, RenameFails
  <2>. QED BY <1>3, <1>4, <2>1 DEF Calls, Lines, States
<1>11. ASSUME NEW p \in Procs, Fopen(p) PROVE Calls'
  <2>. DEFINE name == <<day[p], Current>>
  <2>1. UNCHANGED <<line, day, at>> /\ pc[p] = "fopen" /\ Goto(p, "fclose")
        /\ file' = [file EXCEPT ![p] = named'[name]]
    BY <1>11 DEF Fopen
  <2>2. named'[name] \in Files' /\ named'[name] # 0
    <3>1. CASE name \in DOMAIN named
      <4>1. named' = named
        BY <1>11, <3>1 DEF Fopen
      <4>2. named[name] \in Files
        BY <1>1, <3>1 DEF Disk
      <4>3. Files = 1..Len(content)
        BY <1>1 DEF Disk, Files
      <4>. QED BY <1>2, <4>1, <4>2, <4>3
    <3>2. CASE name \notin DOMAIN named
      <4>1. named' = [n \in DOMAIN named \cup {name} |->
                        IF n = name THEN Len(content') ELSE named[n]]
        BY <1>11, <3>2 DEF Fopen
      <4>2. named'[name] = Len(content')
        BY <4>1
      <4>3. content' = Append(content, [day |-> day[p], lines |-> <<>>])
        BY <1>11, <3>2 DEF Fopen
      <4>4. Len(content') = Len(content) + 1 /\ Len(content) \in Nat
            /\ DOMAIN content' = 1..Len(content')
        BY <1>1, <4>3 DEF Disk
      <4>. QED BY <4>2, <4>4 DEF Files
    <3>. QED BY <3>1, <3>2
  <2>3. file' \in [Procs -> {0} \cup Files'] /\ file'[p] # 0
        /\ \A q \in Procs \ {p} : file'[q] = file[q]
    BY <1>3, <2>1, <2>2
  <2>4. pc' \in [Procs -> States] /\ pc'[p] = "fclose" /\ \A q \in Procs \ {p} : pc'[q] = pc[q]
    BY <1>3, <2>1 DEF Goto, States
  <2>. QED BY <1>3, <2>1, <2>3, <2>4 DEF Calls, Lines
<1>12. ASSUME NEW p \in Procs, Fclose(p) \/ LineDropped(p) PROVE Calls'
  BY <1>5, <1>12 DEF Fclose, LineDropped
<1>13. CASE Tick \/ SetBack \/ UNCHANGED vars
  <2>1. UNCHANGED <<pc, line, day, at, file>>
    BY <1>13 DEF Tick, SetBack, vars, procVars
  <2>. QED BY <1>3, <2>1 DEF Calls, Lines
<1>. QED BY <1>6, <1>7, <1>8, <1>9, <1>10, <1>11, <1>12, <1>13 DEF Next, Step

\* What a step does to the names of the files: nothing, a rotation, or a name for
\* a new file.
Rotates(p) == Rename(p) /\ <<day[p], Current>> \in DOMAIN named

Creates(p) == Fopen(p) /\ <<day[p], Current>> \notin DOMAIN named

\* A step changes the names, or the rotations, in one of these ways only.
LEMMA NamedStep ==
  ASSUME [Next]_vars
  PROVE  \/ UNCHANGED <<named, rotations>>
         \/ \E p \in Procs : Rotates(p) \/ Creates(p)
<1>1. ASSUME NEW p \in Procs, Step(p)
      PROVE  UNCHANGED <<named, rotations>> \/ Rotates(p) \/ Creates(p)
  <2>1. CASE Rename(p)
    BY <2>1 DEF Rename, Rotates
  <2>2. CASE Fopen(p)
    BY <2>2 DEF Fopen, Creates, Begins
  <2>3. CASE ~Rename(p) /\ ~Fopen(p)
    BY <1>1, <2>3 DEF Step, PrintLog, MkdirP, Stat, GetTimeOfDay, Fclose, RenameFails,
       LineDropped, diskVars
  <2>. QED BY <2>1, <2>2, <2>3
<1>2. CASE Tick \/ SetBack \/ UNCHANGED vars
  BY <1>2 DEF Tick, SetBack, vars, diskVars
<1>. QED BY <1>1, <1>2 DEF Next

\* The files and their names keep their types.
LEMMA DiskStep ==
  ASSUME [Next]_vars, TypeOK
  PROVE  Disk'
<1>1. Calls /\ Disk /\ History
  BY TypeParts
<1>2. /\ content' \in Seq(FileType) /\ Files \subseteq Files'
      /\ \A i \in Files : content'[i].day = content[i].day
  BY <1>1, FilesStay
<1>. DEFINE Names == Days \X ({Current} \cup 0..(Seconds - 1))
<1>3. /\ DOMAIN named \subseteq Names
      /\ \A n \in DOMAIN named : named[n] \in Files /\ content[named[n]].day = n[1]
  BY <1>1 DEF Disk
<1>4. SUFFICES
        /\ \E D : named' \in [D -> Files']
        /\ DOMAIN named' \subseteq Names
        /\ \A n \in DOMAIN named' : content'[named'[n]].day = n[1]
  BY <1>2 DEF Disk, FileType, Days, Lines, Day
<1>5. CASE UNCHANGED named
  <2>1. named \in [DOMAIN named -> Files']
    BY <1>1, <1>2 DEF Disk
  <2>. QED BY <1>2, <1>3, <1>5, <2>1
<1>6. ASSUME NEW p \in Procs, Rotates(p)
      PROVE  /\ \E D : named' \in [D -> Files']
             /\ DOMAIN named' \subseteq Names
             /\ \A n \in DOMAIN named' : content'[named'[n]].day = n[1]
  <2>. DEFINE from == <<day[p], Current>>
              to == <<day[p], Second(at[p])>>
              D == (DOMAIN named \ {from}) \cup {to}
  <2>1. to \in Names /\ to[1] = day[p] /\ from[1] = day[p]
    BY <1>1, DayType DEF Calls
  <2>2. from \in DOMAIN named /\ content' = content
        /\ named' = [n \in D |-> IF n = to THEN named[from] ELSE named[n]]
    BY <1>6 DEF Rotates, Rename
  <2>. HIDE DEF from, to, Names
  <2>3. \A n \in D : named'[n] = IF n = to THEN named[from] ELSE named[n]
    BY <2>2
  <2>4. DOMAIN named' = D
    BY <2>2
  <2>5. \A n \in D : named'[n] \in Files' /\ content'[named'[n]].day = n[1]
    BY <1>2, <1>3, <2>1, <2>2, <2>3
  <2>6. named' \in [D -> Files']
    BY <2>2, <2>3, <2>5
  <2>. QED BY <1>3, <2>1, <2>4, <2>5, <2>6
<1>7. ASSUME NEW p \in Procs, Creates(p)
      PROVE  /\ \E D : named' \in [D -> Files']
             /\ DOMAIN named' \subseteq Names
             /\ \A n \in DOMAIN named' : content'[named'[n]].day = n[1]
  <2>. DEFINE name == <<day[p], Current>>
              new == [day |-> day[p], lines |-> <<>>]
              D == DOMAIN named \cup {name}
  <2>1. name \in Names /\ name[1] = day[p]
    BY <1>1 DEF Calls
  <2>2. /\ content' = Append(content, new) /\ new.day = day[p]
        /\ named' = [n \in D |-> IF n = name THEN Len(content') ELSE named[n]]
    BY <1>7 DEF Creates, Fopen, Begins
  <2>. HIDE DEF name, new, Names
  <2>3. content \in Seq(FileType)
    BY <1>1 DEF Disk
  <2>4. Len(content') \in Files' /\ content'[Len(content')] = new
    BY <2>2, <2>3 DEF Files
  <2>5. \A n \in D : named'[n] = IF n = name THEN Len(content') ELSE named[n]
    BY <2>2
  <2>6. DOMAIN named' = D
    BY <2>2
  <2>7. \A n \in D : named'[n] \in Files' /\ content'[named'[n]].day = n[1]
    BY <1>2, <1>3, <2>1, <2>2, <2>4, <2>5
  <2>8. named' \in [D -> Files']
    BY <2>2, <2>5, <2>7
  <2>. QED BY <1>3, <2>1, <2>6, <2>7, <2>8
<1>. QED BY <1>5, <1>6, <1>7, NamedStep

\* The clock and the histories keep their types.
LEMMA HistoryStep ==
  ASSUME [Next]_vars, TypeOK
  PROVE  History'
<1>1. Calls /\ Disk /\ History
  BY TypeParts
<1>2. Files \subseteq Files'
  BY <1>1, FilesStay
<1>3. rotations' \in Seq(Rotations')
  <2>1. Rotations \subseteq Rotations'
    BY <1>2 DEF Rotations, Lines
  <2>2. rotations \in Seq(Rotations')
    BY <1>1, <2>1 DEF History
  <2>3. ASSUME NEW p \in Procs, Rotates(p)
        PROVE  rotations' \in Seq(Rotations')
    <3>. DEFINE from == <<day[p], Current>>
                to == <<day[p], Second(at[p])>>
                old == IF to \in DOMAIN named THEN named[to] ELSE 0
    <3>1. at[p] \in 0..LastTick /\ named[from] \in Files /\ old \in {0} \cup Files
      BY <1>1, <2>3 DEF Calls, Disk, Rotates, Rename
    <3>2. rotations' = Append(rotations, [by |-> p, file |-> named[from], at |-> at[p], replaced |-> old])
      BY <2>3 DEF Rotates, Rename
    <3>. HIDE DEF old, from
    <3>3. [by |-> p, file |-> named[from], at |-> at[p], replaced |-> old] \in Rotations'
      BY <1>2, <3>1 DEF Rotations
    <3>. QED BY <2>2, <3>2, <3>3, AppendProperties
  <2>4. ASSUME NEW p \in Procs, Creates(p)
        PROVE  rotations' = rotations
    BY <2>4 DEF Creates, Fopen
  <2>. QED BY <2>2, <2>3, <2>4, NamedStep
<1>4. now' \in 0..LastTick /\ setBacks' \in 0..MaxSetBacks
  <2>1. now \in 0..LastTick /\ setBacks \in 0..MaxSetBacks /\ LastTick \in Nat /\ MaxSetBacks \in Nat
    BY <1>1, LoggerAssumption DEF History
  <2>2. CASE Tick
    BY <2>1, <2>2 DEF Tick
  <2>3. CASE SetBack
    BY <2>1, <2>3 DEF SetBack
  <2>4. CASE ~Tick /\ ~SetBack
    <3>1. UNCHANGED <<now, setBacks>>
      BY <2>4 DEF Next, Step, PrintLog, MkdirP, Stat, GetTimeOfDay, Rename, Fopen, Fclose,
         RenameFails, LineDropped, vars
    <3>. QED BY <2>1, <3>1
  <2>. QED BY <2>2, <2>3, <2>4
<1>5. logged' \in [Procs -> Nat] /\ \A p \in Procs : logged'[p] <= MaxLines[p]
  <2>1. logged \in [Procs -> Nat] /\ MaxLines \in [Procs -> Nat]
        /\ \A p \in Procs : logged[p] <= MaxLines[p]
    BY <1>1, LoggerAssumption DEF History
  <2>2. ASSUME NEW p \in Procs, PrintLog(p)
        PROVE  logged' \in [Procs -> Nat] /\ \A q \in Procs : logged'[q] <= MaxLines[q]
    BY <2>1, <2>2 DEF PrintLog
  <2>3. CASE ~\E p \in Procs : PrintLog(p)
    <3>1. logged' = logged
      BY <2>3 DEF Next, Step, MkdirP, Stat, GetTimeOfDay, Rename, Fopen, Fclose,
         RenameFails, LineDropped, Tick, SetBack, vars
    <3>. QED BY <2>1, <3>1
  <2>. QED BY <2>2, <2>3
<1>6. faults' \subseteq Faults /\ IsFiniteSet(faults') /\ Cardinality(faults') <= MaxFaults
  <2>1. faults \subseteq Faults /\ IsFiniteSet(faults) /\ Cardinality(faults) <= MaxFaults
        /\ MaxFaults \in Nat
    BY <1>1, LoggerAssumption DEF History
  <2>2. ASSUME NEW p \in Procs, NEW kind \in {"rename", "dropped"}, Fault(p, kind)
        PROVE  faults' \subseteq Faults /\ IsFiniteSet(faults') /\ Cardinality(faults') <= MaxFaults
    <3>. DEFINE f == [by |-> p, no |-> line[p].no, kind |-> kind]
    <3>1. line[p].no \in Nat
      BY <1>1 DEF Calls, Lines
    <3>2. f \in Faults
      BY <3>1 DEF Faults
    <3>3. faults' = faults \cup {f} /\ Cardinality(faults) < MaxFaults
      BY <2>2 DEF Fault
    <3>. HIDE DEF f
    <3>4. IsFiniteSet(faults') /\ Cardinality(faults) \in Nat
          /\ Cardinality(faults') \in {Cardinality(faults), Cardinality(faults) + 1}
      BY <2>1, <3>3, FS_AddElement, FS_CardinalityType
    <3>. QED BY <2>1, <3>2, <3>3, <3>4
  <2>3. CASE \E p \in Procs : RenameFails(p) \/ LineDropped(p)
    BY <2>2, <2>3 DEF RenameFails, LineDropped
  <2>4. CASE ~\E p \in Procs : RenameFails(p) \/ LineDropped(p)
    <3>1. faults' = faults
      BY <2>4 DEF Next, Step, PrintLog, MkdirP, Stat, GetTimeOfDay, Rename, Fopen, Fclose,
         Tick, SetBack, vars
    <3>. QED BY <2>1, <3>1
  <2>. QED BY <2>3, <2>4
<1>. QED BY <1>3, <1>4, <1>5, <1>6 DEF History, Faults

\* TypeOK is inductive.
LEMMA TypeStep ==
  ASSUME [Next]_vars, TypeOK
  PROVE  TypeOK'
<1>1. TypeOK' <=> Calls' /\ Disk' /\ History'
  BY DEF TypeOK, Calls, Disk, History, States, FileType
<1>. QED BY <1>1, CallsStep, DiskStep, HistoryStep

\* Nor is there anything at the start.
LEMMA TypeInit == Init => TypeOK
<1>. SUFFICES ASSUME Init PROVE TypeOK
  OBVIOUS
<1>1. NoLine \in [by : Procs, no : Nat, stamp : 0..LastTick] \/ Procs = {}
  BY NoLineType DEF Lines
<1>2. 0 \in 0..LastTick /\ 0 \in Days /\ MaxFaults \in Nat /\ MaxSetBacks \in Nat
      /\ MaxLines \in [Procs -> Nat]
  BY LoggerAssumption, DayType DEF Day
<1>3. content = <<>> /\ named = <<>> /\ rotations = <<>> /\ faults = {}
  BY DEF Init
<1>4. DOMAIN content = {} /\ DOMAIN named = {} /\ IsFiniteSet(faults) /\ Cardinality(faults) = 0
  BY <1>3, FS_EmptySet
<1>5. Calls
  BY <1>1, <1>2, <1>4 DEF Init, Calls, States, Lines, Files
<1>6. Disk
  BY <1>3, <1>4 DEF Disk, Files
<1>7. History
  BY <1>2, <1>3, <1>4 DEF Init, History
<1>. QED BY <1>5, <1>6, <1>7, TypeParts

-----------------------------------------------------------------------------
(* Who has what line, which file is the newest, what failed.               *)

\* A step of one process leaves what another one holds on.
LEMMA OthersStay ==
  ASSUME NEW p \in Procs, NEW q \in Procs, q # p, Step(p), Calls, History
  PROVE  /\ pc'[q] = pc[q] /\ line'[q] = line[q] /\ day'[q] = day[q] /\ at'[q] = at[q]
         /\ file'[q] = file[q] /\ logged'[q] = logged[q]
         /\ setBacks' = setBacks /\ now' = now
<1>1. /\ pc \in [Procs -> States] /\ line \in [Procs -> Lines] /\ day \in [Procs -> Days]
      /\ at \in [Procs -> 0..LastTick] /\ file \in [Procs -> {0} \cup Files]
      /\ logged \in [Procs -> Nat]
  BY DEF Calls, History
<1>2. CASE PrintLog(p)
  BY <1>1, <1>2 DEF PrintLog, Goto
<1>3. CASE MkdirP(p) \/ Stat(p) \/ GetTimeOfDay(p)
  BY <1>1, <1>3 DEF MkdirP, Stat, GetTimeOfDay, Goto
<1>4. CASE Rename(p) \/ Fopen(p) \/ RenameFails(p)
  BY <1>1, <1>4 DEF Rename, Fopen, RenameFails, Goto
<1>5. CASE Fclose(p) \/ LineDropped(p)
  BY <1>1, <1>5 DEF Fclose, LineDropped, Done, Goto
<1>. QED BY <1>2, <1>3, <1>4, <1>5 DEF Step

\* What no process does: the clock.
LEMMA ClockOnly ==
  ASSUME [Next]_vars
  PROVE  \/ \E p \in Procs : Step(p)
         \/ UNCHANGED <<pc, line, day, at, file, named, content, logged, rotations, faults>>
BY DEF Next, Tick, SetBack, vars, procVars, diskVars

\* What the process itself holds on after each of its calls.
LEMMA OwnCall ==
  ASSUME NEW p \in Procs, Calls, History
  PROVE  /\ PrintLog(p) => /\ pc[p] = "idle" /\ pc'[p] = "mkdirP" /\ logged'[p] = logged[p] + 1
                           /\ line'[p] = [by |-> p, no |-> logged[p] + 1, stamp |-> now]
         /\ MkdirP(p) => /\ pc[p] = "mkdirP" /\ pc'[p] = "stat" /\ line'[p] = line[p]
                         /\ logged' = logged /\ day'[p] = Day(now)
         /\ Stat(p) \/ GetTimeOfDay(p) \/ Rename(p) \/ RenameFails(p) =>
              /\ pc[p] \in {"stat", "gettimeofday", "rename"}
              /\ pc'[p] \in {"gettimeofday", "rename", "fopen"} /\ line'[p] = line[p]
              /\ logged' = logged /\ day'[p] = day[p]
         /\ Fopen(p) => /\ pc[p] = "fopen" /\ pc'[p] = "fclose" /\ line'[p] = line[p]
                        /\ logged' = logged /\ day'[p] = day[p]
                        /\ file'[p] = named'[<<day[p], Current>>]
         /\ Fclose(p) \/ LineDropped(p) =>
              /\ pc[p] # "idle" /\ pc'[p] = "idle" /\ line'[p] = NoLine /\ logged' = logged
<1>1. /\ pc \in [Procs -> States] /\ line \in [Procs -> Lines] /\ day \in [Procs -> Days]
      /\ file \in [Procs -> {0} \cup Files] /\ logged \in [Procs -> Nat]
  BY DEF Calls, History
<1>2. ASSUME PrintLog(p)
      PROVE  /\ pc[p] = "idle" /\ pc'[p] = "mkdirP" /\ logged'[p] = logged[p] + 1
             /\ line'[p] = [by |-> p, no |-> logged[p] + 1, stamp |-> now]
  <2>1. logged'[p] = logged[p] + 1
    BY <1>1, <1>2 DEF PrintLog
  <2>. QED BY <1>1, <1>2, <2>1 DEF PrintLog, Goto
<1>3. MkdirP(p) => /\ pc[p] = "mkdirP" /\ pc'[p] = "stat" /\ line'[p] = line[p]
                   /\ logged' = logged /\ day'[p] = Day(now)
  BY <1>1 DEF MkdirP, Goto, DirDay
<1>4. Stat(p) \/ GetTimeOfDay(p) \/ Rename(p) \/ RenameFails(p) =>
        /\ pc[p] \in {"stat", "gettimeofday", "rename"}
        /\ pc'[p] \in {"gettimeofday", "rename", "fopen"} /\ line'[p] = line[p]
        /\ logged' = logged /\ day'[p] = day[p]
  BY <1>1 DEF Stat, GetTimeOfDay, Rename, RenameFails, Goto
<1>5. Fopen(p) => /\ pc[p] = "fopen" /\ pc'[p] = "fclose" /\ line'[p] = line[p]
                  /\ logged' = logged /\ day'[p] = day[p]
                  /\ file'[p] = named'[<<day[p], Current>>]
  BY <1>1 DEF Fopen, Goto
<1>6. Fclose(p) \/ LineDropped(p) =>
        /\ pc[p] # "idle" /\ pc'[p] = "idle" /\ line'[p] = NoLine /\ logged' = logged
  BY <1>1 DEF Fclose, LineDropped, Done, Goto
<1>. QED BY ONLY <1>2, <1>3, <1>4, <1>5, <1>6

\* What a step does to the disk: nothing, or a rotation, a new file, a line.
LEMMA DiskSteps ==
  ASSUME [Next]_vars, Disk
  PROVE  \/ UNCHANGED <<content, named, rotations>>
         \/ \E p \in Procs : Rotates(p) \/ Creates(p) \/ Fclose(p)
<1>1. ASSUME NEW p \in Procs, Step(p)
      PROVE  UNCHANGED <<content, named, rotations>> \/ Rotates(p) \/ Creates(p) \/ Fclose(p)
  <2>1. CASE Fopen(p)
    <3>1. CASE <<day[p], Current>> \in DOMAIN named
      <4>1. content' = [content EXCEPT ![named[<<day[p], Current>>]] = OpenMode(@)]
        BY <2>1, <3>1 DEF Fopen
      <4>2. content' = content
        BY <4>1 DEF OpenMode, Disk
      <4>. QED BY <2>1, <3>1, <4>2 DEF Fopen
    <3>2. CASE <<day[p], Current>> \notin DOMAIN named
      BY <2>1, <3>2 DEF Fopen, Begins, Creates
    <3>. QED BY <3>1, <3>2
  <2>2. CASE Rename(p)
    BY <2>2 DEF Rename, Rotates
  <2>3. CASE ~Fopen(p) /\ ~Fclose(p) /\ ~Rename(p)
    BY <1>1, <2>3 DEF Step, PrintLog, MkdirP, Stat, GetTimeOfDay, RenameFails,
       LineDropped, diskVars
  <2>. QED BY <2>1, <2>2, <2>3
<1>. QED BY <1>1, ClockOnly DEF Next

\* A file that has a name is a file of the day of the name.
LEMMA NamedFile ==
  ASSUME Disk, NEW n \in DOMAIN named
  PROVE  named[n] \in Files /\ DayOf(named[n]) = n[1]
BY DEF Disk, DayOf

\* Own is inductive.
LEMMA OwnStep ==
  ASSUME [Next]_vars, TypeOK, Own
  PROVE  Own'
<1>1. Calls /\ Disk /\ History /\ Disk'
  BY TypeParts, DiskStep
<1>2. Files \subseteq Files' /\ \A i \in Files : content'[i].day = content[i].day
  BY <1>1, FilesStay
<1>3. ASSUME NEW q \in Procs, pc[q] = "fclose"
      PROVE  file[q] \in Files /\ content'[file[q]].day = day[q]
  BY <1>1, <1>2, <1>3 DEF Calls, Own, DayOf
<1>4. CASE UNCHANGED <<pc, line, day, at, file, named, content, logged, rotations, faults>>
  BY <1>4 DEF Own, DayOf
<1>5. ASSUME NEW p \in Procs, Step(p), NEW q \in Procs
      PROVE  /\ pc'[q] = "idle" => line'[q].no = 0
             /\ pc'[q] # "idle" => line'[q].by = q /\ line'[q].no = logged'[q] /\ logged'[q] # 0
             /\ pc'[q] = "fclose" => content'[file'[q]].day = day'[q]
  <2>1. CASE q # p
    BY <1>1, <1>3, <1>5, <2>1, OthersStay DEF Own
  <2>2. CASE q = p
    <3>1. logged[p] \in Nat
      BY <1>1 DEF History
    <3>2. CASE PrintLog(p)
      <4>1. /\ pc'[p] = "mkdirP" /\ logged'[p] = logged[p] + 1
            /\ line'[p] = [by |-> p, no |-> logged[p] + 1, stamp |-> now]
        BY <1>1, <3>2, OwnCall
      <4>2. line'[p].by = p /\ line'[p].no = logged[p] + 1
        BY ONLY <4>1
      <4>. QED BY <2>2, <3>1, <4>1, <4>2
    <3>3. CASE MkdirP(p)
      BY <1>1, <2>2, <3>3, OwnCall DEF Own
    <3>4. CASE Stat(p) \/ GetTimeOfDay(p) \/ Rename(p) \/ RenameFails(p)
      BY <1>1, <2>2, <3>4, OwnCall DEF Own
    <3>5. CASE Fopen(p)
      <4>. DEFINE name == <<day[p], Current>>
      <4>1. name \in DOMAIN named'
        BY <3>5 DEF Fopen
      <4>2. content'[named'[name]].day = name[1]
        BY <1>1, <4>1 DEF Disk
      <4>3. content'[file'[p]].day = day'[p]
        BY <1>1, <3>5, <4>2, OwnCall
      <4>. QED BY <1>1, <2>2, <3>5, <4>3, OwnCall DEF Own
    <3>6. CASE Fclose(p) \/ LineDropped(p)
      BY <1>1, <2>2, <3>6, OwnCall, NoLineType
    <3>. QED BY <1>5, <3>2, <3>3, <3>4, <3>5, <3>6 DEF Step
  <2>. QED BY <2>1, <2>2
<1>6. CASE \E p \in Procs : Step(p)
  BY <1>5, <1>6 DEF Own, DayOf
<1>. QED BY <1>4, <1>6, ClockOnly

\* Newest is inductive.
LEMMA NewestStep ==
  ASSUME [Next]_vars, TypeOK, Newest
  PROVE  Newest'
<1>1. Calls /\ Disk /\ History
  BY TypeParts
<1>2. Files \subseteq Files' /\ \A i \in Files : content'[i].day = content[i].day
  BY <1>1, FilesStay
<1>3. CASE UNCHANGED named /\ Files' = Files
  BY <1>2, <1>3 DEF Newest, DayOf, Days, Day
<1>4. ASSUME NEW p \in Procs, Rotates(p)
      PROVE  Newest'
  <2>1. content' = content /\ Files' = Files
    BY <1>4 DEF Rotates, Rename, Files
  <2>2. \A d \in Days : <<d, Current>> \in DOMAIN named' =>
          <<d, Current>> \in DOMAIN named /\ named'[<<d, Current>>] = named[<<d, Current>>]
    <3>1. at[p] \in 0..LastTick
      BY <1>1 DEF Calls
    <3>2. Second(at[p]) # Current
      BY <3>1, DayType
    <3>. QED BY <1>4, <3>2 DEF Rotates, Rename
  <2>. QED BY <2>1, <2>2 DEF Newest, DayOf, Days, Day
<1>5. ASSUME NEW p \in Procs, Creates(p)
      PROVE  Newest'
  <2>. DEFINE new == Len(content) + 1
  <2>1. content \in Seq(FileType) /\ content' = Append(content, [day |-> day[p], lines |-> <<>>])
    BY <1>1, <1>5 DEF Disk, Creates, Fopen, Begins
  <2>2. Len(content) \in Nat /\ Len(content') = new /\ Files = 1..Len(content) /\ Files' = 1..new
        /\ content'[new].day = day[p]
    BY <2>1 DEF Files
  <2>3. named' = [n \in DOMAIN named \cup {<<day[p], Current>>} |->
                    IF n = <<day[p], Current>> THEN new ELSE named[n]]
    BY <1>5, <2>2 DEF Creates, Fopen
  <2>4. ASSUME NEW d \in Days, <<d, Current>> \in DOMAIN named', NEW i \in Files',
               content'[i].day = d
        PROVE  i <= named'[<<d, Current>>]
    <3>1. CASE d = day[p]
      BY <2>2, <2>3, <3>1
    <3>2. CASE d # day[p]
      <4>1. i \in Files /\ content[i].day = d
        BY <1>2, <2>2, <2>4, <3>2
      <4>2. <<d, Current>> \in DOMAIN named /\ named'[<<d, Current>>] = named[<<d, Current>>]
        BY <2>3, <2>4, <3>2
      <4>. QED BY <4>1, <4>2 DEF Newest, DayOf
    <3>. QED BY <3>1, <3>2
  <2>. HIDE DEF new
  <2>5. \A d \in Days : <<d, Current>> \in DOMAIN named' =>
          \A i \in Files' : content'[i].day = d => i <= named'[<<d, Current>>]
    BY <2>4
  <2>. QED BY <2>5 DEF Newest, DayOf, Days, Day
<1>6. ASSUME NEW p \in Procs, Fclose(p)
      PROVE  Files' = Files /\ UNCHANGED named
  BY <1>1, <1>6, Written DEF Fclose, Writes
<1>7. CASE UNCHANGED <<content, named, rotations>>
  BY <1>3, <1>7 DEF Files
<1>8. CASE \E p \in Procs : Rotates(p) \/ Creates(p) \/ Fclose(p)
  BY <1>3, <1>4, <1>5, <1>6, <1>8
<1>. QED BY <1>1, <1>7, <1>8, DiskSteps

-----------------------------------------------------------------------------
(* What has been filed.                                                    *)

\* A fault is of a kind, about a line of a process; a new one is the process's that
\* failed, about the line it is logging.
LEMMA FaultStep ==
  ASSUME NEW p \in Procs, Step(p)
  PROVE  \/ faults' = faults /\ ~RenameFails(p) /\ ~LineDropped(p)
         \/ /\ RenameFails(p)
            /\ faults' = faults \cup {[by |-> p, no |-> line[p].no, kind |-> "rename"]}
         \/ /\ LineDropped(p)
            /\ faults' = faults \cup {[by |-> p, no |-> line[p].no, kind |-> "dropped"]}
<1>1. CASE RenameFails(p)
  BY <1>1 DEF RenameFails, Fault
<1>2. CASE LineDropped(p)
  BY <1>2 DEF LineDropped, Fault
<1>3. CASE ~RenameFails(p) /\ ~LineDropped(p)
  BY <1>3 DEF Step, PrintLog, MkdirP, Stat, GetTimeOfDay, Rename, Fopen, Fclose
<1>. QED BY <1>1, <1>2, <1>3

\* Blamed is inductive.
LEMMA BlamedStep ==
  ASSUME [Next]_vars, TypeOK, Own, Blamed
  PROVE  Blamed'
<1>1. Calls /\ Disk /\ History
  BY TypeParts
<1>2. CASE UNCHANGED <<pc, line, day, at, file, named, content, logged, rotations, faults>>
  BY <1>2 DEF Blamed
<1>3. ASSUME NEW p \in Procs, Step(p), NEW f \in faults'
      PROVE  /\ f.no <= logged'[f.by]
             /\ f.kind = "dropped" /\ pc'[f.by] # "idle" => f.no # logged'[f.by]
  <2>1. logged[p] \in Nat /\ logged \in [Procs -> Nat]
    BY <1>1 DEF History
  <2>2. CASE f \in faults
    <3>1. f.by \in Procs /\ f.no \in Nat
      BY <1>1, <2>2 DEF History, Faults
    <3>2. f.no <= logged[f.by]
          /\ (f.kind = "dropped" /\ pc[f.by] # "idle" => f.no # logged[f.by])
      BY <2>2 DEF Blamed
    <3>3. CASE f.by # p
      BY <1>1, <1>3, <3>1, <3>2, <3>3, OthersStay
    <3>4. CASE f.by = p
      <4>1. CASE PrintLog(p)
        <5>1. logged'[p] = logged[p] + 1
          BY <1>1, <4>1, OwnCall
        <5>. QED BY ONLY <2>1, <3>1, <3>2, <3>4, <5>1
      <4>2. CASE ~PrintLog(p)
        <5>1. logged'[p] = logged[p] /\ (pc'[p] # "idle" => pc[p] # "idle")
          BY <1>1, <1>3, <4>2, OwnCall DEF Step
        <5>. QED BY <3>2, <3>4, <5>1
      <4>. QED BY <4>1, <4>2
    <3>. QED BY <3>3, <3>4
  <2>3. CASE f \notin faults
    <3>1. f.by = p /\ f.no = line[p].no /\ ((RenameFails(p) /\ f.kind = "rename") \/ LineDropped(p))
      BY <1>3, <2>3, FaultStep
    <3>2. pc[p] # "idle" /\ logged' = logged /\ (LineDropped(p) => pc'[p] = "idle")
      BY <1>1, <3>1, OwnCall
    <3>3. line[p].no = logged[p]
      BY <3>2 DEF Own
    <3>4. f.no <= logged'[f.by]
      BY <2>1, <3>1, <3>2, <3>3
    <3>. QED BY <3>1, <3>2, <3>4
  <2>. QED BY <2>2, <2>3
<1>4. CASE \E p \in Procs : Step(p)
  BY <1>3, <1>4 DEF Blamed
<1>. QED BY <1>2, <1>4, ClockOnly

Places(p) ==
  /\ \A w \in Filed(p) :
       /\ w[1] \in Files /\ w[2] \in DOMAIN LinesOf(w[1]) /\ w = <<w[1], w[2]>>
       /\ LinesOf(w[1])[w[2]].by = p /\ No(w) = LinesOf(w[1])[w[2]].no
  /\ \A i \in Files : \A k \in DOMAIN LinesOf(i) :
       LinesOf(i)[k].by = p => <<i, k>> \in Filed(p)

\* The places of a process's lines.
LEMMA FiledAre ==
  ASSUME NEW p
  PROVE  Places(p)
<1>1. ASSUME NEW w \in Filed(p)
      PROVE  /\ w[1] \in Files /\ w[2] \in DOMAIN LinesOf(w[1]) /\ w = <<w[1], w[2]>>
             /\ LinesOf(w[1])[w[2]].by = p /\ No(w) = LinesOf(w[1])[w[2]].no
  <2>1. PICK i \in Files : w \in {i} \X DOMAIN content[i].lines
    BY DEF Filed
  <2>2. PICK k \in DOMAIN content[i].lines : w = <<i, k>>
    BY <2>1
  <2>3. w[1] = i /\ w[2] = k /\ content[w[1]].lines[w[2]].by = p
    BY <2>2 DEF Filed
  <2>. QED BY <2>2, <2>3 DEF LinesOf, No
<1>2. ASSUME NEW i \in Files, NEW k \in DOMAIN LinesOf(i), LinesOf(i)[k].by = p
      PROVE  <<i, k>> \in Filed(p)
  <2>. DEFINE w == <<i, k>>
  <2>1. w \in {i} \X DOMAIN content[i].lines /\ w[1] = i /\ w[2] = k
    BY DEF LinesOf
  <2>2. w \in UNION {{j} \X DOMAIN content[j].lines : j \in Files}
    BY <2>1
  <2>. QED BY <1>2, <2>1, <2>2 DEF Filed, LinesOf
<1>. QED BY <1>1, <1>2 DEF Places

\* And after a step.
LEMMA FiledThen ==
  ASSUME NEW p
  PROVE  Places(p)'
<1>1. Places(p)
  BY FiledAre
<1>. QED BY <1>1, PTL

\* A process's lines stay where they are in every step, and there are new ones in
\* none but its own Fclose.
LEMMA FiledStay ==
  ASSUME NEW q \in Procs, [Next]_vars, TypeOK, Own
  PROVE  /\ \A w \in Filed(q) :
              w \in Filed(q)' /\ No(w)' = No(w) /\ DayOf(w[1])' = DayOf(w[1])
         /\ \A w \in Filed(q)' : w \in Filed(q) \/
              /\ Fclose(q) /\ w = <<file[q], Len(LinesOf(file[q])) + 1>>
              /\ No(w)' = line[q].no /\ DayOf(w[1])' = DayOf(file[q])
         /\ Fclose(q) => <<file[q], Len(LinesOf(file[q])) + 1>> \in Filed(q)'
<1>1. Calls /\ Disk /\ History
  BY TypeParts
<1>2. Files \subseteq Files'
      /\ \A i \in Files :
           /\ content'[i].day = content[i].day
           /\ \A k \in DOMAIN content[i].lines :
                k \in DOMAIN content'[i].lines /\ content'[i].lines[k] = content[i].lines[k]
  BY <1>1, FilesStay
<1>3. /\ \A w \in Filed(q)' :
           /\ w[1] \in Files' /\ w[2] \in DOMAIN content'[w[1]].lines /\ w = <<w[1], w[2]>>
           /\ content'[w[1]].lines[w[2]].by = q /\ No(w)' = content'[w[1]].lines[w[2]].no
      /\ \A i \in Files' : \A k \in DOMAIN content'[i].lines :
           content'[i].lines[k].by = q => <<i, k>> \in Filed(q)'
  BY FiledThen DEF Places, LinesOf
<1>4. ASSUME NEW w \in Filed(q)
      PROVE  w \in Filed(q)' /\ No(w)' = No(w) /\ DayOf(w[1])' = DayOf(w[1])
  <2>1. /\ w[1] \in Files /\ w[2] \in DOMAIN content[w[1]].lines /\ w = <<w[1], w[2]>>
        /\ content[w[1]].lines[w[2]].by = q /\ No(w) = content[w[1]].lines[w[2]].no
    BY FiledAre DEF Places, LinesOf
  <2>2. w[1] \in Files' /\ w[2] \in DOMAIN content'[w[1]].lines
        /\ content'[w[1]].lines[w[2]] = content[w[1]].lines[w[2]]
    BY <1>2, <2>1
  <2>3. w \in Filed(q)'
    BY <1>3, <2>1, <2>2
  <2>. QED BY <1>2, <1>3, <2>1, <2>2, <2>3 DEF DayOf
<1>5. ASSUME NEW p \in Procs, Fclose(p)
      PROVE  /\ Files' = Files
             /\ \A i \in Files : i # file[p] => content'[i] = content[i]
             /\ file[p] \in Files /\ content[file[p]].lines \in Seq(Lines) /\ line[p] \in Lines
             /\ content'[file[p]].day = content[file[p]].day
             /\ content'[file[p]].lines = Append(content[file[p]].lines, line[p])
             /\ line[p].by = p
  <2>1. Writes(p) /\ pc[p] = "fclose"
    BY <1>5 DEF Fclose, Writes
  <2>. QED BY <1>1, <2>1, Written DEF Own
<1>6. ASSUME NEW w \in Filed(q)', w \notin Filed(q)
      PROVE  /\ Fclose(q) /\ w = <<file[q], Len(LinesOf(file[q])) + 1>>
             /\ No(w)' = line[q].no /\ DayOf(w[1])' = DayOf(file[q])
  <2>1. /\ w[1] \in Files' /\ w[2] \in DOMAIN content'[w[1]].lines /\ w = <<w[1], w[2]>>
        /\ content'[w[1]].lines[w[2]].by = q /\ No(w)' = content'[w[1]].lines[w[2]].no
    BY <1>3
  <2>2. ASSUME w[1] \in Files, w[2] \in DOMAIN content[w[1]].lines,
               content[w[1]].lines[w[2]].by = q
        PROVE  FALSE
    <3>1. <<w[1], w[2]>> \in Filed(q)
      BY <2>2, FiledAre DEF Places, LinesOf
    <3>. QED BY <1>6, <2>1, <3>1
  <2>3. content' # content
    BY <2>1, <2>2 DEF Files
  <2>4. ASSUME NEW p \in Procs, Creates(p)
        PROVE  FALSE
    <3>. DEFINE new == [day |-> day[p], lines |-> <<>>]
    <3>1. content \in Seq(FileType) /\ content' = Append(content, new) /\ new.lines = <<>>
      BY <1>1, <2>4 DEF Disk, Creates, Fopen, Begins
    <3>. HIDE DEF new
    <3>2. /\ Files = 1..Len(content) /\ Len(content) \in Nat
          /\ Files' = 1..(Len(content) + 1) /\ content'[Len(content) + 1].lines = <<>>
          /\ \A i \in Files : content'[i] = content[i]
      BY <3>1 DEF Files
    <3>3. CASE w[1] \in Files
      BY <2>1, <2>2, <3>2, <3>3
    <3>4. CASE w[1] = Len(content) + 1
      <4>1. w[2] \in DOMAIN <<>>
        BY <2>1, <3>2, <3>4
      <4>. QED BY <4>1
    <3>. QED BY <2>1, <3>2, <3>3, <3>4
  <2>5. ASSUME NEW p \in Procs, Fclose(p)
        PROVE  p = q /\ w[1] = file[p] /\ w[2] = Len(content[file[p]].lines) + 1
               /\ content'[w[1]].lines[w[2]] = line[p]
    <3>. DEFINE s == content[file[p]].lines
    <3>1. s \in Seq(Lines) /\ line[p] \in Lines /\ content'[file[p]].lines = Append(s, line[p])
      BY <1>5, <2>5
    <3>2. w[1] \in Files /\ (w[1] # file[p] => content'[w[1]] = content[w[1]])
      BY <1>5, <2>1, <2>5
    <3>3. w[1] = file[p]
      BY <2>1, <2>2, <3>2
    <3>4. w[2] \in DOMAIN Append(s, line[p]) /\ Append(s, line[p])[w[2]].by = q
      BY <2>1, <3>1, <3>3
    <3>5. w[2] \notin DOMAIN s \/ s[w[2]].by # q
      BY <2>2, <3>2, <3>3
    <3>. HIDE DEF s
    <3>6. w[2] = Len(s) + 1 /\ Append(s, line[p])[w[2]] = line[p]
      BY ONLY <3>1, <3>4, <3>5
    <3>. QED BY <1>5, <2>5, <3>1, <3>3, <3>4, <3>6 DEF s
  <2>6. \E p \in Procs : Fclose(p)
    <3>1. ASSUME NEW p \in Procs, Rotates(p)
          PROVE  content' = content
      BY <3>1 DEF Rotates, Rename
    <3>2. content' = content \/ \E p \in Procs : Rotates(p) \/ Creates(p) \/ Fclose(p)
      BY <1>1, DiskSteps
    <3>. QED BY ONLY <2>3, <2>4, <3>1, <3>2
  <2>7. /\ Fclose(q) /\ w[1] = file[q] /\ w[2] = Len(content[file[q]].lines) + 1
        /\ content'[w[1]].lines[w[2]] = line[q]
    BY <2>5, <2>6
  <2>. QED BY <1>5, <2>1, <2>7 DEF LinesOf, DayOf
<1>7. ASSUME Fclose(q)
      PROVE  <<file[q], Len(LinesOf(file[q])) + 1>> \in Filed(q)'
  <2>. DEFINE s == content[file[q]].lines
  <2>1. file[q] \in Files' /\ s \in Seq(Lines) /\ line[q] \in Lines /\ line[q].by = q
        /\ content'[file[q]].lines = Append(s, line[q])
    BY <1>5, <1>7
  <2>. HIDE DEF s
  <2>2. Len(s) + 1 \in DOMAIN Append(s, line[q]) /\ Append(s, line[q])[Len(s) + 1] = line[q]
    BY ONLY <2>1
  <2>3. <<file[q], Len(s) + 1>> \in Filed(q)'
    BY <1>3, <2>1, <2>2
  <2>. QED BY <2>3 DEF s, LinesOf
<1>. QED BY <1>4, <1>6, <1>7

\* Ahead is inductive: whoever opens a file opens the newest of the day.
LEMMA AheadStep ==
  ASSUME [Next]_vars, TypeOK, Own, Newest, Ahead
  PROVE  Ahead'
<1>1. Calls /\ Disk /\ History /\ Calls' /\ Disk' /\ Newest'
  BY TypeParts, CallsStep, DiskStep, NewestStep
<1>2. ASSUME NEW q \in Procs, pc[q] = "fclose", ~Fclose(q), NEW w \in Filed(q)',
             DayOf(w[1])' = day[q]
      PROVE  w[1] <= file[q]
  <2>1. w \in Filed(q) /\ DayOf(w[1]) = day[q]
    BY <1>2, FiledStay
  <2>. QED BY <1>2, <2>1 DEF Ahead
<1>3. CASE UNCHANGED <<pc, line, day, at, file, named, content, logged, rotations, faults>>
  <2>1. ASSUME NEW q \in Procs, pc[q] = "fclose"
        PROVE  ~Fclose(q)
    BY <1>1, <1>3, <2>1, OwnCall
  <2>. QED BY <1>2, <1>3, <2>1 DEF Ahead
<1>4. ASSUME NEW p \in Procs, Step(p), NEW q \in Procs, pc'[q] = "fclose",
             NEW w \in Filed(q)', DayOf(w[1])' = day'[q]
      PROVE  w[1] <= file'[q]
  <2>1. CASE q # p
    <3>1. pc[q] = "fclose" /\ day'[q] = day[q] /\ file'[q] = file[q] /\ pc'[q] = pc[q]
      BY <1>1, <1>4, <2>1, OthersStay
    <3>2. ~Fclose(q)
      BY <1>1, <3>1, OwnCall
    <3>. QED BY <1>2, <1>4, <3>1, <3>2
  <2>2. CASE q = p
    <3>1. Fopen(p)
      BY <1>1, <1>4, <2>2, OwnCall DEF Step
    <3>. DEFINE name == <<day'[p], Current>>
    <3>2. name \in DOMAIN named' /\ file'[p] = named'[name]
      BY <3>1, <1>1, OwnCall DEF Fopen
    <3>3. w[1] \in Files' /\ day'[p] \in Days'
      BY <1>1, <1>4, FiledThen DEF Places, Calls
    <3>4. w[1] <= named'[name]
      BY <1>1, <1>4, <2>2, <3>2, <3>3 DEF Newest
    <3>. QED BY <2>2, <3>2, <3>4
  <2>. QED BY <2>1, <2>2
<1>5. CASE \E p \in Procs : Step(p)
  BY <1>4, <1>5 DEF Ahead
<1>. QED BY <1>3, <1>5, ClockOnly

\* Which lines of p are filed, in a file or to be: LinesKeptInOrder for one process.
Ordered(p) ==
  \A v, w \in Filed(p) :
    /\ content[v[1]].day = content[w[1]].day /\ Before(v, w) => No(v) < No(w)
    /\ No(v) = No(w) => v = w

FiledNos(p) == {No(w) : w \in Filed(p)}

Due(p) == ((1..logged[p]) \ Dropped(p)) \ {line[p].no}

\* The lines a process has dropped are those of the faults.
LEMMA DroppedAre ==
  ASSUME NEW p, NEW n
  PROVE  n \in Dropped(p) <=> \E f \in faults : f.by = p /\ f.kind = "dropped" /\ f.no = n
BY DEF Dropped

\* LinesKeptInOrder is inductive, of the lines of one process: a step of another
\* process, or of the clock.
LEMMA OthersKept ==
  ASSUME NEW q \in Procs, [Next]_vars, TypeOK, Own, ~Step(q), Ordered(q), FiledNos(q) = Due(q)
  PROVE  Ordered(q)' /\ FiledNos(q)' = Due(q)'
<1>1. Calls /\ Disk /\ History
  BY TypeParts
<1>2. Filed(q)' = Filed(q)
      /\ \A w \in Filed(q) : No(w)' = No(w) /\ content'[w[1]].day = content[w[1]].day
  BY FiledStay DEF Step, DayOf
<1>3. Ordered(q)'
  BY <1>2 DEF Ordered, Before
<1>4. FiledNos(q)' = FiledNos(q)
  BY <1>2 DEF FiledNos
<1>5. logged'[q] = logged[q] /\ line'[q] = line[q]
  BY <1>1, ClockOnly, OthersStay
<1>6. \A n : n \in Dropped(q)' <=> n \in Dropped(q)
  <2>1. \A n : n \in Dropped(q)' <=> \E f \in faults' : f.by = q /\ f.kind = "dropped" /\ f.no = n
    BY DEF Dropped
  <2>2. CASE faults' = faults
    BY <2>1, <2>2, DroppedAre
  <2>3. ASSUME NEW p \in Procs, NEW kind, p # q,
               faults' = faults \cup {[by |-> p, no |-> line[p].no, kind |-> kind]}
        PROVE  \A n : n \in Dropped(q)' <=> n \in Dropped(q)
    <3>. DEFINE new == [by |-> p, no |-> line[p].no, kind |-> kind]
    <3>1. new.by # q /\ faults' = faults \cup {new}
      BY <2>3
    <3>. HIDE DEF new
    <3>. QED BY <2>1, <3>1, DroppedAre
  <2>. QED BY <2>2, <2>3, ClockOnly, FaultStep
<1>7. Dropped(q)' = Dropped(q)
  BY <1>6
<1>. QED BY <1>3, <1>4, <1>5, <1>7 DEF Due

\* And its own steps.
LEMMA OwnKept ==
  ASSUME NEW q \in Procs, [Next]_vars, TypeOK, Own, Blamed, Ahead, Step(q),
         Ordered(q), FiledNos(q) = Due(q)
  PROVE  Ordered(q)' /\ FiledNos(q)' = Due(q)'
<1>1. Calls /\ Disk /\ History
  BY TypeParts
<1>2. logged[q] \in Nat /\ line[q].no \in Nat
  BY <1>1 DEF Calls, Lines, History
<1>3. \A w \in Filed(q) :
        w \in Filed(q)' /\ No(w)' = No(w) /\ content'[w[1]].day = content[w[1]].day
  BY FiledStay DEF DayOf
<1>4. \A w \in Filed(q) : No(w) \in Due(q)
  BY DEF FiledNos
<1>5. \A n : n \in Dropped(q)' <=> \E f \in faults' : f.by = q /\ f.kind = "dropped" /\ f.no = n
  BY DEF Dropped
<1>6. faults' = faults => Dropped(q)' = Dropped(q)
  BY DEF Dropped
<1>7. ASSUME ~Fclose(q)
      PROVE  Ordered(q)' /\ FiledNos(q)' = FiledNos(q)
  <2>1. Filed(q)' = Filed(q)
    BY <1>7, FiledStay
  <2>2. Ordered(q)'
    BY <1>3, <2>1 DEF Ordered, Before
  <2>. QED BY <1>3, <2>1, <2>2 DEF FiledNos
<1>8. CASE PrintLog(q)
  <2>1. line[q].no = 0 /\ logged'[q] = logged[q] + 1
        /\ line'[q] = [by |-> q, no |-> logged[q] + 1, stamp |-> now]
    BY <1>1, <1>8, OwnCall DEF Own
  <2>2. line'[q].no = logged[q] + 1
    BY <2>1
  <2>3. ~Fclose(q) /\ faults' = faults
    BY <1>1, <1>8, OwnCall DEF PrintLog
  <2>4. ((1..(logged[q] + 1)) \ Dropped(q)) \ {logged[q] + 1} = ((1..logged[q]) \ Dropped(q)) \ {0}
    BY <1>2
  <2>5. Due(q)' = Due(q)
    BY <1>6, <2>1, <2>2, <2>3, <2>4 DEF Due
  <2>. QED BY <1>7, <2>3, <2>5
<1>9. CASE MkdirP(q) \/ Stat(q) \/ GetTimeOfDay(q) \/ Rename(q) \/ Fopen(q)
  <2>1. logged' = logged /\ line'[q] = line[q] /\ ~Fclose(q)
    BY <1>1, <1>9, OwnCall
  <2>2. faults' = faults
    BY <1>9 DEF MkdirP, Stat, GetTimeOfDay, Rename, Fopen
  <2>. QED BY <1>6, <1>7, <2>1, <2>2 DEF Due
<1>10. CASE RenameFails(q)
  <2>1. logged' = logged /\ line'[q] = line[q] /\ ~Fclose(q)
    BY <1>1, <1>10, OwnCall
  <2>. DEFINE new == [by |-> q, no |-> line[q].no, kind |-> "rename"]
  <2>2. faults' = faults \cup {new} /\ new.kind = "rename"
    BY <1>10 DEF RenameFails, Fault
  <2>. HIDE DEF new
  <2>3. \A n : n \in Dropped(q)' <=> n \in Dropped(q)
    BY <1>5, <2>2, DroppedAre
  <2>4. Dropped(q)' = Dropped(q)
    BY <2>3
  <2>. QED BY <1>7, <2>1, <2>4 DEF Due
<1>11. CASE LineDropped(q)
  <2>1. logged' = logged /\ line'[q].no = 0 /\ pc[q] # "idle"
    BY <1>1, <1>11, OwnCall, NoLineType
  <2>2. line[q].no = logged[q] /\ logged[q] # 0
    BY <2>1 DEF Own
  <2>3. ~Fclose(q)
    <3>1. SUFFICES ASSUME Fclose(q) PROVE FALSE
      OBVIOUS
    <3>2. /\ content[file[q]].lines \in Seq(Lines) /\ line[q] \in Lines
          /\ content'[file[q]].lines = Append(content[file[q]].lines, line[q])
      BY <1>1, <3>1, Written DEF Fclose, Writes
    <3>3. content' = content
      BY <1>11 DEF LineDropped, diskVars
    <3>4. \A t \in Seq(Lines) : Append(t, line[q]) # t
      BY <3>2
    <3>. QED BY <3>2, <3>3, <3>4
  <2>. DEFINE new == [by |-> q, no |-> line[q].no, kind |-> "dropped"]
  <2>4. faults' = faults \cup {new} /\ new.kind = "dropped" /\ new.no = line[q].no /\ new.by = q
    BY <1>11 DEF LineDropped, Fault
  <2>. HIDE DEF new
  <2>5. \A n : n \in Dropped(q)' <=> n \in Dropped(q) \/ n = line[q].no
    BY <1>5, <2>4, DroppedAre
  <2>6. Due(q)' = Due(q)
    BY <1>2, <2>1, <2>2, <2>5 DEF Due
  <2>. QED BY <1>7, <2>3, <2>6
<1>12. CASE Fclose(q)
  <2>. DEFINE f == file[q]
              n == line[q].no
              s == LinesOf(f)
  <2>0. PICK u : u = <<f, Len(s) + 1>>
    OBVIOUS
  <2>1. logged' = logged /\ line'[q].no = 0 /\ pc[q] = "fclose" /\ faults' = faults
    BY <1>1, <1>12, OwnCall, NoLineType DEF Fclose
  <2>13. /\ f \in Files /\ Files \subseteq Nat /\ content \in Seq(FileType) /\ f \in Nat
         /\ s \in Seq(Lines) /\ Len(s) \in Nat /\ n \in Nat
    <3>1. Writes(q)
      BY <1>12 DEF Fclose, Writes
    <3>2. f \in Files /\ s \in Seq(Lines)
      BY <1>1, <3>1, Written DEF LinesOf
    <3>3. Files \subseteq Nat /\ content \in Seq(FileType)
      BY <1>1 DEF Disk, Files
    <3>. HIDE DEF f, s, n
    <3>4. Len(s) \in Nat
      BY <3>2
    <3>5. n \in Nat
      BY <1>2 DEF n
    <3>. QED BY <3>2, <3>3, <3>4, <3>5
  <2>2. n = logged[q] /\ n # 0 /\ line[q].by = q /\ DayOf(f) = day[q]
    BY <2>1 DEF Own
  <2>3. n \notin Dropped(q)
    BY <2>1, <2>2, DroppedAre DEF Blamed
  <2>4. /\ u \in Filed(q)' /\ u \notin Filed(q)
        /\ \A w \in Filed(q)' : w \in Filed(q) \/ w = u
    <3>1. u[1] = f /\ u[2] = Len(s) + 1
      BY <2>0
    <3>2. u \notin Filed(q)
      <4>. HIDE DEF s
      <4>1. Len(s) + 1 \notin DOMAIN s
        BY <2>13
      <4>. QED BY <3>1, <4>1, FiledAre DEF Places, s
    <3>. QED BY <1>12, <2>0, <3>2, FiledStay
  <2>5. No(u)' = n /\ content'[u[1]].day = day[q] /\ u[1] = f /\ u[2] = Len(s) + 1
    <3>1. No(u)' = line[q].no /\ DayOf(u[1])' = DayOf(f)
      BY <1>12, <2>4, FiledStay
    <3>. QED BY <2>0, <2>2, <3>1 DEF DayOf
  <2>6. ASSUME NEW w \in Filed(q)
        PROVE  /\ No(w) \in Nat /\ No(w) < n
               /\ w[1] \in Nat /\ w[2] \in Nat
               /\ content[w[1]].day = day[q] => w[1] < f \/ (w[1] = f /\ w[2] < Len(s) + 1)
    <3>1. No(w) \in 1..logged[q] /\ No(w) # n
      BY <1>4 DEF Due
    <3>2. w[1] \in Files /\ w[2] \in DOMAIN LinesOf(w[1])
      BY FiledAre DEF Places
    <3>3. LinesOf(w[1]) \in Seq(Lines) /\ w[1] \in Nat /\ f \in Nat
      <4>1. content[w[1]] \in FileType
        BY <2>13, <3>2 DEF Files
      <4>2. content[w[1]].lines \in Seq(Lines)
        BY ONLY <4>1 DEF FileType
      <4>. QED BY <2>13, <3>2, <4>2 DEF LinesOf
    <3>4. w[2] \in 1..Len(LinesOf(w[1])) /\ Len(LinesOf(w[1])) \in Nat
      BY <3>2, <3>3
    <3>5. content[w[1]].day = day[q] => w[1] <= f
      BY <2>1 DEF Ahead, DayOf
    <3>6. w[1] = f => w[2] < Len(s) + 1
      BY <3>4
    <3>7. No(w) \in Nat /\ No(w) < n
      BY <1>2, <2>2, <3>1
    <3>. HIDE DEF f, s, n
    <3>. QED BY <3>3, <3>4, <3>5, <3>6, <3>7
  <2>8. ASSUME NEW v \in Filed(q)', NEW w \in Filed(q)'
        PROVE  /\ content'[v[1]].day = content'[w[1]].day /\ Before(v, w) => No(v)' < No(w)'
               /\ No(v)' = No(w)' => v = w
    <3>. HIDE DEF f, s, n
    <3>1. CASE v \in Filed(q) /\ w \in Filed(q)
      BY <1>3, <3>1 DEF Ordered
    <3>2. CASE v \in Filed(q) /\ w = u
      <4>1. No(v)' < No(w)' /\ No(v)' \in Nat /\ No(w)' \in Nat
        BY <1>3, <2>5, <2>6, <2>13, <3>2
      <4>. QED BY <4>1
    <3>3. CASE v = u /\ w \in Filed(q)
      <4>1. No(w)' < No(v)' /\ No(v)' \in Nat /\ No(w)' \in Nat
        BY <1>3, <2>5, <2>6, <2>13, <3>3
      <4>2. content'[v[1]].day = content'[w[1]].day => content[w[1]].day = day[q]
        BY <1>3, <2>5, <3>3
      <4>3. content[w[1]].day = day[q] => ~Before(v, w)
        BY <2>5, <2>6, <2>13, <3>3 DEF Before
      <4>. QED BY <4>1, <4>2, <4>3
    <3>4. CASE v = u /\ w = u
      BY <2>5, <2>13, <3>4 DEF Before
    <3>. QED BY <2>4, <3>1, <3>2, <3>3, <3>4
  <2>9. Ordered(q)'
    BY <2>8 DEF Ordered, Before
  <2>10. \A m : m \in FiledNos(q)' <=> m \in FiledNos(q) \/ m = n
    <3>1. \A m : m \in FiledNos(q)' <=> \E w \in Filed(q)' : No(w)' = m
      BY DEF FiledNos
    <3>2. \A m : m \in FiledNos(q) <=> \E w \in Filed(q) : No(w) = m
      BY DEF FiledNos
    <3>. HIDE DEF n
    <3>. QED BY <1>3, <2>4, <2>5, <3>1, <3>2
  <2>11. \A m : m \in Due(q)' <=> m \in Due(q) \/ m = n
    <3>1. Due(q)' = ((1..logged[q]) \ Dropped(q)) \ {0}
      BY <1>6, <2>1 DEF Due
    <3>. QED BY <1>2, <2>2, <2>3, <3>1 DEF Due
  <2>. QED BY <2>9, <2>10, <2>11
<1>. QED BY <1>8, <1>9, <1>10, <1>11, <1>12 DEF Step

\* LinesKeptInOrder is inductive.
LEMMA KeptStep ==
  ASSUME [Next]_vars, TypeOK, Own, Blamed, Ahead, LinesKeptInOrder
  PROVE  LinesKeptInOrder'
<1>1. \A q \in Procs : Ordered(q) /\ FiledNos(q) = Due(q)
  BY DEF LinesKeptInOrder, Ordered, FiledNos, Due
<1>2. \A q \in Procs : Ordered(q)' /\ FiledNos(q)' = Due(q)'
  BY <1>1, OwnKept, OthersKept
<1>. QED BY <1>2 DEF LinesKeptInOrder, Ordered, FiledNos, Due

-----------------------------------------------------------------------------
(* How long a file gets.                                                   *)

\* Sets of processes and their sizes.
LEMMA ProcsCount ==
  ASSUME NEW A, NEW B, A \subseteq B, B \subseteq Procs
  PROVE  /\ Cardinality(A) \in Nat /\ Cardinality(B) \in Nat /\ Cardinality(Procs) \in Nat
         /\ Cardinality(A) <= Cardinality(B) /\ Cardinality(B) <= Cardinality(Procs)
         /\ \A p \in B : p \notin A => Cardinality(A) + 1 <= Cardinality(B)
<1>1. IsFiniteSet(Procs)
  BY LoggerAssumption
<1>2. IsFiniteSet(B) /\ Cardinality(B) <= Cardinality(Procs)
  BY <1>1, FS_Subset
<1>3. IsFiniteSet(A) /\ Cardinality(A) <= Cardinality(B)
  BY <1>2, FS_Subset
<1>4. Cardinality(A) \in Nat /\ Cardinality(B) \in Nat /\ Cardinality(Procs) \in Nat
  BY <1>1, <1>2, <1>3, FS_CardinalityType
<1>5. ASSUME NEW p \in B, p \notin A
      PROVE  Cardinality(A) + 1 <= Cardinality(B)
  <2>1. IsFiniteSet(A \cup {p}) /\ Cardinality(A \cup {p}) = Cardinality(A) + 1
    BY <1>3, <1>5, FS_AddElement
  <2>2. A \cup {p} \subseteq B
    BY <1>5
  <2>3. Cardinality(A \cup {p}) <= Cardinality(B)
    BY <1>2, <2>2, FS_Subset
  <2>. QED BY <2>1, <2>3
<1>. QED BY <1>2, <1>3, <1>4, <1>5

\* What a step leaves of the room there is in a file.
HasRoom(i) == Len(LinesOf(i)) + Cardinality(Pending(i)) <= MaxBytes + Cardinality(Procs)

\* Where no process comes to write, and none has written, there is as much room.
LEMMA RoomKept ==
  ASSUME [Next]_vars, TypeOK, NEW i \in Files, HasRoom(i), content'[i] = content[i],
         Pending(i)' \subseteq Pending(i)
  PROVE  HasRoom(i)'
<1>1. content[i] \in FileType
  BY TypeParts DEF Disk, Files
<1>2. content[i].lines \in Seq(Lines)
  BY ONLY <1>1 DEF FileType
<1>3. Len(content[i].lines) \in Nat /\ MaxBytes \in Nat
  BY <1>2, LoggerAssumption
<1>4. Cardinality(Pending(i)') <= Cardinality(Pending(i))
      /\ Cardinality(Pending(i)') \in Nat /\ Cardinality(Pending(i)) \in Nat
      /\ Cardinality(Procs) \in Nat
  BY ProcsCount DEF Pending
<1>5. Len(content'[i].lines) = Len(content[i].lines)
  OBVIOUS
<1>6. Len(content'[i].lines) + Cardinality(Pending(i)') <= MaxBytes + Cardinality(Procs)
  BY <1>3, <1>4, <1>5 DEF HasRoom, LinesOf
<1>. QED BY <1>6 DEF HasRoom, LinesOf

\* A file below the limit has room for all processes.
LEMMA RoomBelow ==
  ASSUME NEW i, Len(content'[i].lines) \in Nat, Len(content'[i].lines) <= MaxBytes
  PROVE  HasRoom(i)'
<1>1. Pending(i)' \subseteq Procs
  BY DEF Pending
<1>2. Cardinality(Pending(i)') <= Cardinality(Procs) /\ Cardinality(Pending(i)') \in Nat
      /\ Cardinality(Procs) \in Nat
  BY <1>1, ProcsCount
<1>3. Len(content'[i].lines) + Cardinality(Pending(i)') <= MaxBytes + Cardinality(Procs)
  BY <1>2, LoggerAssumption
<1>. QED BY <1>3 DEF HasRoom, LinesOf

\* A process writes, and is pending no more.
LEMMA RoomUsed ==
  ASSUME NEW p \in Procs, Fclose(p), TypeOK, NEW i \in Files, HasRoom(i)
  PROVE  HasRoom(i)'
<1>1. Calls /\ Disk /\ History
  BY TypeParts
<1>2. Writes(p) /\ pc[p] = "fclose" /\ named' = named /\ pc' = [pc EXCEPT ![p] = "idle"]
      /\ day' = [day EXCEPT ![p] = 0] /\ file' = [file EXCEPT ![p] = 0]
  BY DEF Fclose, Writes, Done, Goto
<1>3. /\ \A j \in Files : j # file[p] => content'[j] = content[j]
      /\ file[p] \in Files /\ line[p] \in Lines
      /\ content'[file[p]].lines = Append(content[file[p]].lines, line[p])
  BY <1>1, <1>2, Written
<1>4. content[i].lines \in Seq(Lines)
  <2>1. content[i] \in FileType
    BY <1>1 DEF Disk, Files
  <2>. QED BY ONLY <2>1 DEF FileType
<1>5. /\ pc'[p] = "idle"
      /\ \A q \in Procs : q # p => pc'[q] = pc[q] /\ day'[q] = day[q] /\ file'[q] = file[q]
  BY <1>1, <1>2 DEF Calls
<1>6. Pending(i)' \subseteq Pending(i) /\ p \notin Pending(i)'
  BY <1>2, <1>5 DEF Pending
<1>7. Pending(i) \subseteq Procs
  BY DEF Pending
<1>8. Len(content[i].lines) \in Nat /\ MaxBytes \in Nat
  BY <1>4, LoggerAssumption
<1>9. Cardinality(Pending(i)') <= Cardinality(Pending(i))
      /\ Cardinality(Pending(i)') \in Nat /\ Cardinality(Pending(i)) \in Nat
      /\ Cardinality(Procs) \in Nat
      /\ (p \in Pending(i) => Cardinality(Pending(i)') + 1 <= Cardinality(Pending(i)))
  BY <1>6, <1>7, ProcsCount
<1>10. Len(content'[i].lines) = Len(content[i].lines)
       \/ (Len(content'[i].lines) = Len(content[i].lines) + 1 /\ p \in Pending(i))
  <2>1. CASE i # file[p]
    BY <1>3, <2>1
  <2>2. CASE i = file[p]
    <3>1. p \in Pending(i)
      BY <1>2, <2>2 DEF Pending
    <3>2. Len(content'[i].lines) = Len(content[i].lines) + 1
      BY <1>3, <1>4, <2>2
    <3>. QED BY <3>1, <3>2
  <2>. QED BY <2>1, <2>2
<1>11. Len(content'[i].lines) + Cardinality(Pending(i)') <= MaxBytes + Cardinality(Procs)
  <2>1. Len(content[i].lines) + Cardinality(Pending(i)) <= MaxBytes + Cardinality(Procs)
    BY DEF HasRoom, LinesOf
  <2>2. CASE Len(content'[i].lines) = Len(content[i].lines)
    BY <1>8, <1>9, <2>1, <2>2
  <2>3. CASE Len(content'[i].lines) = Len(content[i].lines) + 1 /\ p \in Pending(i)
    BY <1>8, <1>9, <2>1, <2>3
  <2>. QED BY <1>10, <2>2, <2>3
<1>. QED BY <1>11 DEF HasRoom, LinesOf

\* A file is opened by a process that was about to open it, or it is a new one.
LEMMA RoomOpened ==
  ASSUME NEW p \in Procs, Fopen(p), [Next]_vars, TypeOK, \A i \in Files : HasRoom(i)
  PROVE  \A i \in Files' : HasRoom(i)'
<1>1. Calls /\ Disk /\ History
  BY TypeParts
<1>. DEFINE name == <<day[p], Current>>
<1>2. /\ pc[p] = "fopen" /\ pc' = [pc EXCEPT ![p] = "fclose"] /\ UNCHANGED day
      /\ file' = [file EXCEPT ![p] = named'[name]]
  BY DEF Fopen, Goto
<1>3. /\ pc'[p] = "fclose" /\ file'[p] = named'[name]
      /\ \A q \in Procs : q # p => pc'[q] = pc[q] /\ file'[q] = file[q]
  BY <1>1, <1>2 DEF Calls
<1>4. CASE name \in DOMAIN named
  <2>1. content' = content /\ named' = named
    <3>1. content' = [content EXCEPT ![named[name]] = OpenMode(@)] /\ named' = named
      BY <1>4 DEF Fopen
    <3>. QED BY <1>1, <3>1 DEF OpenMode, Disk
  <2>2. ASSUME NEW i \in Files
        PROVE  Pending(i)' \subseteq Pending(i)
    BY <1>2, <1>3, <1>4, <2>1 DEF Pending
  <2>. QED BY <2>1, <2>2, RoomKept DEF Files
<1>5. CASE name \notin DOMAIN named
  <2>. DEFINE new == [day |-> day[p], lines |-> <<>>]
  <2>1. /\ content' = Append(content, new) /\ new.lines = <<>>
        /\ named' = [n \in DOMAIN named \cup {name} |->
                        IF n = name THEN Len(content') ELSE named[n]]
    BY <1>5 DEF Fopen
  <2>. HIDE DEF new
  <2>2. content \in Seq(FileType)
    BY <1>1 DEF Disk
  <2>3. /\ Files = 1..Len(content) /\ Len(content) \in Nat /\ Len(content') = Len(content) + 1
        /\ Files' = 1..(Len(content) + 1) /\ content'[Len(content) + 1].lines = <<>>
        /\ \A i \in Files : content'[i] = content[i]
    BY <2>1, <2>2 DEF Files
  <2>4. named'[name] = Len(content) + 1
        /\ \A n \in DOMAIN named' : n # name => n \in DOMAIN named /\ named'[n] = named[n]
    BY <2>1, <2>3
  <2>5. ASSUME NEW i \in Files', i = Len(content) + 1
        PROVE  HasRoom(i)'
    <3>1. Len(content'[i].lines) = 0 /\ MaxBytes \in Nat
      BY <2>3, <2>5, LoggerAssumption
    <3>. QED BY <3>1, RoomBelow
  <2>6. ASSUME NEW i \in Files
        PROVE  HasRoom(i)'
    <3>1. i # Len(content) + 1
      BY <2>3
    <3>2. ASSUME NEW q \in Procs, q \in Pending(i)'
          PROVE  q \in Pending(i)
      <4>1. CASE pc'[q] = "fclose" /\ file'[q] = i
        <5>1. q # p
          BY <1>3, <2>4, <3>1, <4>1
        <5>. QED BY <1>3, <4>1, <5>1 DEF Pending
      <4>2. CASE /\ pc'[q] = "fopen" /\ <<day'[q], Current>> \in DOMAIN named'
                 /\ named'[<<day'[q], Current>>] = i
        <5>1. q # p /\ day'[q] = day[q] /\ <<day[q], Current>> # name
          BY <1>2, <1>3, <2>4, <3>1, <4>2
        <5>2. pc[q] = "fopen" /\ <<day[q], Current>> \in DOMAIN named
              /\ named[<<day[q], Current>>] = i
          BY <1>3, <2>4, <4>2, <5>1
        <5>. QED BY <5>2 DEF Pending
      <4>. QED BY <3>2, <4>1, <4>2 DEF Pending
    <3>3. Pending(i)' \subseteq Pending(i)
      BY <3>2 DEF Pending
    <3>. QED BY <2>3, <3>3, RoomKept
  <2>. QED BY <2>3, <2>5, <2>6
<1>. QED BY <1>4, <1>5

\* Stat lets a process open a file only if it is not above the limit.
LEMMA RoomFound ==
  ASSUME NEW p \in Procs, Stat(p), [Next]_vars, TypeOK, NEW i \in Files, HasRoom(i)
  PROVE  HasRoom(i)'
<1>1. Calls /\ Disk /\ History
  BY TypeParts
<1>2. UNCHANGED <<content, named, day, file>>
      /\ pc' = [pc EXCEPT ![p] = IF TooLong(day[p]) THEN "gettimeofday" ELSE "fopen"]
  BY DEF Stat, Goto, diskVars
<1>3. pc'[p] = (IF TooLong(day[p]) THEN "gettimeofday" ELSE "fopen")
      /\ \A q \in Procs : q # p => pc'[q] = pc[q]
  BY <1>1, <1>2 DEF Calls
<1>4. CASE p \in Pending(i)'
  <2>1. /\ pc'[p] = "fopen" /\ <<day[p], Current>> \in DOMAIN named
        /\ named[<<day[p], Current>>] = i
    BY <1>2, <1>3, <1>4 DEF Pending
  <2>2. ~(Len(content[i].lines) > MaxBytes)
    BY <1>3, <2>1 DEF TooLong
  <2>3. content[i] \in FileType
    BY <1>1 DEF Disk, Files
  <2>4. content[i].lines \in Seq(Lines)
    BY ONLY <2>3 DEF FileType
  <2>5. Len(content[i].lines) \in Nat /\ MaxBytes \in Nat
    BY <2>4, LoggerAssumption
  <2>6. Len(content[i].lines) <= MaxBytes
    BY <2>2, <2>5
  <2>. QED BY <1>2, <2>5, <2>6, RoomBelow
<1>5. CASE p \notin Pending(i)'
  <2>1. Pending(i)' \subseteq Pending(i)
    BY <1>2, <1>3, <1>5 DEF Pending
  <2>. QED BY <1>2, <2>1, RoomKept
<1>. QED BY <1>4, <1>5

\* A file that is rotated is nobody's to open any more.
LEMMA RoomRotated ==
  ASSUME NEW p \in Procs, Rename(p), [Next]_vars, TypeOK, NEW i \in Files, HasRoom(i)
  PROVE  HasRoom(i)'
<1>1. Calls /\ Disk /\ History
  BY TypeParts
<1>2. UNCHANGED <<content, day, file>> /\ pc[p] = "rename" /\ pc' = [pc EXCEPT ![p] = "fopen"]
  BY DEF Rename, Goto
<1>3. pc'[p] = "fopen" /\ \A q \in Procs : q # p => pc'[q] = pc[q]
  BY <1>1, <1>2 DEF Calls
<1>. DEFINE from == <<day[p], Current>>
            to == <<day[p], Second(at[p])>>
<1>4. from \notin DOMAIN named'
      /\ \A d \in Days : <<d, Current>> \in DOMAIN named' =>
           <<d, Current>> \in DOMAIN named /\ named'[<<d, Current>>] = named[<<d, Current>>]
  <2>1. CASE from \in DOMAIN named
    <3>1. Second(at[p]) # Current
      BY <1>1, DayType DEF Calls
    <3>2. named' = [n \in (DOMAIN named \ {from}) \cup {to} |->
                      IF n = to THEN named[from] ELSE named[n]]
      BY <2>1 DEF Rename
    <3>. QED BY <3>1, <3>2
  <2>2. CASE from \notin DOMAIN named
    BY <2>2 DEF Rename
  <2>. QED BY <2>1, <2>2
<1>5. \A q \in Procs : day[q] \in Days
  BY <1>1 DEF Calls
<1>. HIDE DEF to
<1>6. ASSUME NEW q \in Procs, q \in Pending(i)'
      PROVE  q \in Pending(i)
  <2>1. CASE pc'[q] = "fclose" /\ file'[q] = i
    BY <1>2, <1>3, <2>1 DEF Pending
  <2>2. CASE /\ pc'[q] = "fopen" /\ <<day'[q], Current>> \in DOMAIN named'
             /\ named'[<<day'[q], Current>>] = i
    <3>1. day'[q] = day[q] /\ q # p
      BY <1>2, <1>4, <2>2
    <3>. QED BY <1>3, <1>4, <1>5, <2>2, <3>1 DEF Pending
  <2>. QED BY <1>6, <2>1, <2>2 DEF Pending
<1>7. Pending(i)' \subseteq Pending(i)
  BY <1>6 DEF Pending
<1>. QED BY <1>2, <1>7, RoomKept

\* Other calls bring nobody closer to a file.
LEMMA RoomElse ==
  ASSUME NEW p \in Procs, PrintLog(p) \/ MkdirP(p) \/ GetTimeOfDay(p) \/ LineDropped(p),
         [Next]_vars, TypeOK, NEW i \in Files, HasRoom(i)
  PROVE  HasRoom(i)'
<1>1. Calls /\ Disk /\ History
  BY TypeParts
<1>2. UNCHANGED <<content, named>>
  BY DEF PrintLog, MkdirP, GetTimeOfDay, LineDropped, diskVars
<1>3. pc'[p] \notin {"fopen", "fclose"}
  BY <1>1 DEF Calls, PrintLog, MkdirP, GetTimeOfDay, LineDropped, Done, Goto
<1>4. \A q \in Procs : q # p => pc'[q] = pc[q] /\ day'[q] = day[q] /\ file'[q] = file[q]
  BY <1>1, OthersStay DEF Step
<1>5. Pending(i)' \subseteq Pending(i)
  BY <1>2, <1>3, <1>4 DEF Pending
<1>. QED BY <1>2, <1>5, RoomKept

\* Room is inductive.
LEMMA RoomStep ==
  ASSUME [Next]_vars, TypeOK, Room
  PROVE  Room'
<1>1. Calls /\ Disk /\ History
  BY TypeParts
<1>2. Room <=> ((\A f \in faults : f.kind # "rename") => \A i \in Files : HasRoom(i))
  BY DEF Room, HasRoom
<1>3. Room' <=> ((\A f \in faults' : f.kind # "rename") => \A i \in Files' : HasRoom(i)')
  BY DEF Room, HasRoom
<1>4. SUFFICES ASSUME \A f \in faults' : f.kind # "rename"
               PROVE  \A i \in Files' : HasRoom(i)'
  BY <1>3
<1>5. \A f \in faults : f.kind # "rename"
  BY <1>4, ClockOnly, FaultStep
<1>6. \A i \in Files : HasRoom(i)
  BY <1>2, <1>5
<1>7. CASE UNCHANGED <<pc, line, day, at, file, named, content, logged, rotations, faults>>
  BY <1>6, <1>7 DEF HasRoom, LinesOf, Pending, Files
<1>8. ASSUME NEW p \in Procs, Step(p)
      PROVE  \A i \in Files' : HasRoom(i)'
  <2>1. CASE Fopen(p)
    BY <1>6, <2>1, RoomOpened
  <2>2. ~RenameFails(p)
    <3>1. SUFFICES ASSUME RenameFails(p) PROVE FALSE
      OBVIOUS
    <3>. DEFINE new == [by |-> p, no |-> line[p].no, kind |-> "rename"]
    <3>2. new \in faults' /\ new.kind = "rename"
      BY <3>1 DEF RenameFails, Fault
    <3>. HIDE DEF new
    <3>. QED BY <1>4, <3>2
  <2>3. CASE ~Fopen(p)
    <3>1. Files' = Files
      <4>1. CASE Fclose(p)
        BY <1>1, <4>1, Written DEF Fclose, Writes
      <4>2. CASE ~Fclose(p)
        <5>1. content' = content
          BY <1>8, <2>3, <4>2 DEF Step, PrintLog, MkdirP, Stat, GetTimeOfDay, Rename, RenameFails,
             LineDropped, diskVars
        <5>. QED BY <5>1 DEF Files
      <4>. QED BY <4>1, <4>2
    <3>2. ASSUME NEW i \in Files
          PROVE  HasRoom(i)'
      BY <1>6, <1>8, <2>2, <2>3, RoomUsed, RoomFound, RoomRotated, RoomElse DEF Step
    <3>. QED BY <3>1, <3>2
  <2>. QED BY <2>1, <2>3
<1>. QED BY <1>7, <1>8, ClockOnly

\* There is room, so that no file is too long.
LEMMA RoomEnough == TypeOK /\ Room => SizeBounded
<1>. SUFFICES ASSUME TypeOK, Room, \A f \in faults : f.kind # "rename", NEW i \in Files
              PROVE  Len(content[i].lines) <= MaxBytes + Cardinality(Procs)
  BY DEF SizeBounded
<1>1. content[i] \in FileType
  BY TypeParts DEF Disk, Files
<1>2. content[i].lines \in Seq(Lines)
  BY ONLY <1>1 DEF FileType
<1>3. Len(content[i].lines) \in Nat /\ MaxBytes \in Nat
  BY <1>2, LoggerAssumption
<1>4. Cardinality(Pending(i)) \in Nat /\ Cardinality(Procs) \in Nat
  BY ProcsCount DEF Pending
<1>5. Len(content[i].lines) + Cardinality(Pending(i)) <= MaxBytes + Cardinality(Procs)
  BY DEF Room, LinesOf
<1>. QED BY <1>3, <1>4, <1>5

-----------------------------------------------------------------------------
(* Days.                                                                   *)

\* As long as nobody sets the clock back, it goes forward.
LEMMA Forward ==
  ASSUME [Next]_vars, TypeOK, setBacks' = 0
  PROVE  setBacks = 0 /\ now <= now' /\ now \in 0..LastTick /\ now' \in 0..LastTick
<1>1. /\ setBacks \in Nat /\ now \in 0..LastTick /\ now \in Int /\ LastTick \in Nat
      /\ now' \in 0..LastTick
  BY TypeParts, HistoryStep, LoggerAssumption DEF History
<1>2. CASE SetBack
  BY <1>1, <1>2 DEF SetBack
<1>3. CASE Tick
  BY <1>1, <1>3 DEF Tick
<1>4. CASE ~SetBack /\ ~Tick
  <2>1. now' = now /\ setBacks' = setBacks
    BY <1>4 DEF Next, Step, PrintLog, MkdirP, Stat, GetTimeOfDay, Rename, Fopen, Fclose,
         RenameFails, LineDropped, vars
  <2>. QED BY <1>1, <2>1
<1>. QED BY <1>2, <1>3, <1>4

\* Timely is inductive.
LEMMA TimelyStep ==
  ASSUME [Next]_vars, TypeOK, Own, Timely
  PROVE  Timely'
<1>1. Calls /\ Disk /\ History /\ Calls'
  BY TypeParts, CallsStep
<1>2. SUFFICES ASSUME setBacks' = 0, NEW q \in Procs
               PROVE  /\ pc'[q] # "idle" => line'[q].stamp <= now'
                      /\ pc'[q] \notin {"idle", "mkdirP"} =>
                           Day(line'[q].stamp) <= day'[q] /\ day'[q] <= Day(now')
  BY DEF Timely, Day
<1>3. setBacks = 0 /\ now <= now' /\ now \in 0..LastTick /\ now' \in 0..LastTick
  BY <1>2, Forward
<1>4. /\ pc[q] # "idle" => line[q].stamp <= now
      /\ pc[q] \notin {"idle", "mkdirP"} => Day(line[q].stamp) <= day[q] /\ day[q] <= Day(now)
  BY <1>3 DEF Timely
<1>5. line[q].stamp \in 0..LastTick /\ day[q] \in Nat /\ Day(now) \in Nat /\ Day(now') \in Nat
      /\ Day(now) <= Day(now') /\ line[q].stamp \in Int /\ now \in Int /\ now' \in Int
  <2>1. line[q] \in Lines /\ day[q] \in Days
    BY <1>1 DEF Calls
  <2>2. line[q].stamp \in 0..LastTick /\ LastTick \in Nat
    BY <2>1, LoggerAssumption DEF Lines
  <2>3. day[q] \in Nat
    BY <2>1 DEF Days
  <2>. QED BY <1>3, <2>2, <2>3, DayType, DayGoesOn
<1>6. Day(line[q].stamp) \in Nat
  BY <1>5, DayType
<1>7. CASE line'[q] = line[q] /\ day'[q] = day[q] /\ pc'[q] = pc[q]
  BY <1>3, <1>4, <1>5, <1>6, <1>7
<1>8. ASSUME NEW p \in Procs, Step(p), q # p
      PROVE  line'[q] = line[q] /\ day'[q] = day[q] /\ pc'[q] = pc[q]
  BY <1>1, <1>8, OthersStay
<1>9. CASE PrintLog(q)
  <2>1. pc'[q] = "mkdirP" /\ line'[q] = [by |-> q, no |-> logged[q] + 1, stamp |-> now]
    BY <1>1, <1>9, OwnCall
  <2>2. line'[q].stamp = now
    BY <2>1
  <2>. QED BY <1>3, <1>5, <2>1, <2>2
<1>10. CASE MkdirP(q)
  <2>1. pc[q] = "mkdirP" /\ pc'[q] = "stat" /\ line'[q] = line[q] /\ day'[q] = Day(now)
    BY <1>1, <1>10, OwnCall
  <2>2. Day(line[q].stamp) <= Day(now)
    BY <1>3, <1>4, <1>5, <2>1, DayGoesOn
  <2>. QED BY <1>3, <1>4, <1>5, <1>6, <2>1, <2>2
<1>11. CASE Stat(q) \/ GetTimeOfDay(q) \/ Rename(q) \/ RenameFails(q) \/ Fopen(q)
  <2>1. line'[q] = line[q] /\ day'[q] = day[q] /\ pc[q] \notin {"idle", "mkdirP"}
    BY <1>1, <1>11, OwnCall
  <2>. QED BY <1>3, <1>4, <1>5, <1>6, <2>1
<1>12. CASE Fclose(q) \/ LineDropped(q)
  <2>1. pc'[q] = "idle"
    BY <1>1, <1>12, OwnCall
  <2>. QED BY <2>1
<1>13. CASE UNCHANGED <<pc, line, day, at, file, named, content, logged, rotations, faults>>
  BY <1>7, <1>13
<1>. QED BY <1>7, <1>8, <1>9, <1>10, <1>11, <1>12, <1>13, ClockOnly DEF Step

\* FiledUnderItsDay is inductive.
LEMMA DayStep ==
  ASSUME [Next]_vars, TypeOK, Own, Timely, FiledUnderItsDay
  PROVE  FiledUnderItsDay'
<1>1. Calls /\ Disk /\ History /\ Disk'
  BY TypeParts, DiskStep
<1>2. SUFFICES ASSUME setBacks' = 0, NEW i \in Files', NEW k \in DOMAIN content'[i].lines
               PROVE  Day(content'[i].lines[k].stamp) <= content'[i].day
                      /\ content'[i].day <= Day(now')
  BY DEF FiledUnderItsDay, Day
<1>3. setBacks = 0 /\ now <= now' /\ now \in 0..LastTick /\ now' \in 0..LastTick
  BY <1>2, Forward
<1>4. Day(now) \in Nat /\ Day(now') \in Nat /\ Day(now) <= Day(now')
  BY <1>3, DayType, DayGoesOn
<1>. DEFINE l == content'[i].lines[k]
            d == content'[i].day
<1>5. l.by \in Procs /\ d \in Nat
  <2>1. content'[i] \in FileType
    BY <1>1 DEF Disk, Files
  <2>2. content'[i].lines \in Seq(Lines) /\ content'[i].day \in Days
    BY ONLY <2>1 DEF FileType
  <2>3. l \in Lines
    BY <2>2
  <2>. HIDE DEF l
  <2>. QED BY <2>2, <2>3 DEF Lines, Days
<1>6. PICK q \in Procs : l.by = q
  BY <1>5
<1>7. <<i, k>> \in Filed(q)'
  BY <1>6, FiledThen DEF Places, LinesOf
<1>8. CASE <<i, k>> \in Filed(q)
  <2>1. i \in Files /\ k \in DOMAIN content[i].lines
    BY <1>8, FiledAre DEF Places, LinesOf
  <2>2. content'[i].day = content[i].day /\ content'[i].lines[k] = content[i].lines[k]
    BY <1>1, <2>1, FilesStay
  <2>3. Day(content[i].lines[k].stamp) <= content[i].day /\ content[i].day <= Day(now)
    BY <1>3, <2>1 DEF FiledUnderItsDay
  <2>. QED BY <1>4, <1>5, <2>2, <2>3
<1>9. CASE <<i, k>> \notin Filed(q)
  <2>1. Fclose(q) /\ i = file[q] /\ k = Len(content[i].lines) + 1
    BY <1>7, <1>9, FiledStay DEF LinesOf
  <2>2. Writes(q) /\ pc[q] = "fclose"
    BY <2>1 DEF Fclose, Writes
  <2>3. /\ content[i].lines \in Seq(Lines) /\ line[q] \in Lines
        /\ content'[i].day = content[i].day
        /\ content'[i].lines = Append(content[i].lines, line[q])
    BY <1>1, <2>1, <2>2, Written
  <2>4. content'[i].lines[k] = line[q]
    BY <2>1, <2>3
  <2>5. content[i].day = day[q]
    BY <2>1, <2>2 DEF Own, DayOf
  <2>6. Day(line[q].stamp) <= day[q] /\ day[q] <= Day(now)
    BY <1>3, <2>2 DEF Timely
  <2>. QED BY <1>4, <1>5, <2>3, <2>4, <2>5, <2>6
<1>. QED BY <1>8, <1>9

-----------------------------------------------------------------------------
(* Rotation.                                                               *)

\* What is known of a file that was rotated.
LEMMA RotationType ==
  ASSUME History, Disk, NEW i \in DOMAIN rotations
  PROVE  /\ rotations[i].by \in Procs /\ rotations[i].file \in Files
         /\ rotations[i].at \in 0..LastTick /\ rotations[i].at \in Nat
         /\ rotations[i].replaced \in {0} \cup Files
         /\ Files \subseteq Nat \ {0}
<1>1. rotations[i] \in Rotations
  BY DEF History
<1>2. Files \subseteq Nat \ {0}
  BY DEF Disk, Files
<1>. HIDE DEF Files
<1>. QED BY <1>1, <1>2, LoggerAssumption DEF Rotations

\* A rotation is one more at the end of the history.
LEMMA Rotation ==
  ASSUME NEW p \in Procs, Rotates(p), TypeOK
  PROVE  LET from == <<day[p], Current>>
             to == <<day[p], Second(at[p])>>
             N == Len(rotations) + 1
         IN  /\ DOMAIN rotations' = DOMAIN rotations \cup {N} /\ N \notin DOMAIN rotations
             /\ \A i \in DOMAIN rotations : rotations'[i] = rotations[i]
             /\ rotations'[N].by = p /\ rotations'[N].file = named[from]
             /\ rotations'[N].at = at[p]
             /\ rotations'[N].replaced = IF to \in DOMAIN named THEN named[to] ELSE 0
             /\ from \in DOMAIN named /\ Second(at[p]) # Current /\ at[p] \in 0..LastTick
<1>1. Calls /\ Disk /\ History
  BY TypeParts
<1>. DEFINE from == <<day[p], Current>>
            to == <<day[p], Second(at[p])>>
            N == Len(rotations) + 1
            old == IF to \in DOMAIN named THEN named[to] ELSE 0
            new == [by |-> p, file |-> named[from], at |-> at[p], replaced |-> old]
<1>2. rotations \in Seq(Rotations) /\ rotations' = Append(rotations, new)
  BY <1>1 DEF History, Rotates, Rename
<1>3. new.by = p /\ new.file = named[from] /\ new.at = at[p] /\ new.replaced = old
  OBVIOUS
<1>. HIDE DEF new
<1>4. /\ DOMAIN rotations' = DOMAIN rotations \cup {N} /\ N \notin DOMAIN rotations
      /\ \A i \in DOMAIN rotations : rotations'[i] = rotations[i]
      /\ rotations'[N] = new
  BY <1>2
<1>5. from \in DOMAIN named /\ Second(at[p]) # Current /\ at[p] \in 0..LastTick
  BY <1>1, DayType DEF Calls, Rotates, Rename
<1>. QED BY <1>3, <1>4, <1>5

\* Rotated is inductive.
LEMMA RotatedStep ==
  ASSUME [Next]_vars, TypeOK, Rotated
  PROVE  Rotated'
<1>1. Calls /\ Disk /\ History
  BY TypeParts
<1>2. CASE UNCHANGED <<named, rotations>>
  BY <1>2 DEF Rotated, Second
<1>3. ASSUME NEW p \in Procs, Rotates(p)
      PROVE  Rotated'
  <2>. DEFINE from == <<day[p], Current>>
              to == <<day[p], Second(at[p])>>
  <2>0. PICK N : N = Len(rotations) + 1
    OBVIOUS
  <2>1. /\ DOMAIN rotations' = DOMAIN rotations \cup {N} /\ N \notin DOMAIN rotations
        /\ \A i \in DOMAIN rotations : rotations'[i] = rotations[i]
        /\ rotations'[N].file = named[from] /\ rotations'[N].at = at[p]
        /\ rotations'[N].replaced = IF to \in DOMAIN named THEN named[to] ELSE 0
        /\ from \in DOMAIN named /\ Second(at[p]) # Current
    BY <1>3, <2>0, Rotation
  <2>2. named' = [n \in (DOMAIN named \ {from}) \cup {to} |->
                    IF n = to THEN named[from] ELSE named[n]]
    BY <1>3 DEF Rotates, Rename
  <2>3. to[2] = Second(at[p]) /\ from[2] = Current /\ from[1] = day[p]
    OBVIOUS
  <2>4. \A n \in DOMAIN named : n = <<n[1], n[2]>> /\ content[named[n]].day = n[1]
    BY <1>1 DEF Disk
  <2>. HIDE DEF from, to
  <2>5. /\ DOMAIN named' = (DOMAIN named \ {from}) \cup {to} /\ named'[to] = named[from]
        /\ \A n \in DOMAIN named' : n # to => named'[n] = named[n]
    BY <2>2
  <2>6. \A i \in DOMAIN rotations : rotations[i].file # named[from]
    BY <2>1, <2>3 DEF Rotated
  <2>7. ASSUME NEW n \in DOMAIN named', n[2] = Current, NEW i \in DOMAIN rotations'
        PROVE  rotations'[i].file # named'[n]
    <3>1. n # to /\ n \in DOMAIN named /\ n # from /\ named'[n] = named[n]
      BY <2>1, <2>3, <2>5, <2>7
    <3>2. named[n] # named[from]
      <4>1. n[1] # from[1]
        BY <2>1, <2>3, <2>4, <2>7, <3>1
      <4>. QED BY <2>1, <2>4, <3>1, <4>1
    <3>3. CASE i \in DOMAIN rotations
      BY <2>1, <2>7, <3>1, <3>3 DEF Rotated
    <3>4. CASE i = N
      BY <2>1, <3>1, <3>2, <3>4
    <3>. QED BY <2>1, <3>3, <3>4
  <2>8. ASSUME NEW n \in DOMAIN named', n[2] # Current
        PROVE  \E i \in DOMAIN rotations' :
                 rotations'[i].file = named'[n] /\ Second(rotations'[i].at) = n[2]
    <3>1. CASE n = to
      BY <2>1, <2>3, <2>5, <3>1
    <3>2. CASE n # to
      <4>1. n \in DOMAIN named /\ named'[n] = named[n]
        BY <2>5, <3>2
      <4>2. PICK i \in DOMAIN rotations :
               rotations[i].file = named[n] /\ Second(rotations[i].at) = n[2]
        BY <2>8, <4>1 DEF Rotated
      <4>. QED BY <2>1, <4>1, <4>2
    <3>. QED BY <3>1, <3>2
  <2>9. ASSUME NEW i \in DOMAIN rotations', NEW j \in DOMAIN rotations',
               rotations'[i].file = rotations'[j].file
        PROVE  i = j
    BY <2>1, <2>6, <2>9 DEF Rotated
  <2>10. ASSUME NEW i \in DOMAIN rotations', rotations'[i].replaced # 0
         PROVE  \E j \in DOMAIN rotations' : rotations'[j].file = rotations'[i].replaced
    <3>1. \E j \in DOMAIN rotations : rotations[j].file = rotations'[i].replaced
      <4>1. CASE i \in DOMAIN rotations
        BY <2>1, <2>10, <4>1 DEF Rotated
      <4>2. CASE i = N
        BY <2>1, <2>3, <2>10, <4>2 DEF Rotated
      <4>. QED BY <2>1, <4>1, <4>2
    <3>. QED BY <2>1, <3>1
  <2>. QED BY <2>7, <2>8, <2>9, <2>10 DEF Rotated, Second
<1>4. ASSUME NEW p \in Procs, Creates(p)
      PROVE  Rotated'
  <2>. DEFINE name == <<day[p], Current>>
              new == Len(content) + 1
  <2>1. content \in Seq(FileType) /\ content' = Append(content, [day |-> day[p], lines |-> <<>>])
    BY <1>1, <1>4 DEF Disk, Creates, Fopen, Begins
  <2>2. Len(content) \in Nat /\ Len(content') = new /\ Files = 1..Len(content)
    BY <2>1 DEF Files
  <2>3. /\ named' = [n \in DOMAIN named \cup {name} |-> IF n = name THEN new ELSE named[n]]
        /\ rotations' = rotations /\ name[2] = Current
    BY <1>4, <2>2 DEF Creates, Fopen
  <2>4. \A i \in DOMAIN rotations : rotations[i].file # new
    BY <1>1, <2>2, RotationType
  <2>. HIDE DEF name, new
  <2>5. /\ DOMAIN named' = DOMAIN named \cup {name} /\ named'[name] = new
        /\ \A n \in DOMAIN named' : n # name => n \in DOMAIN named /\ named'[n] = named[n]
    BY <2>3
  <2>. QED BY <2>3, <2>4, <2>5 DEF Rotated, Second
<1>. QED BY <1>2, <1>3, <1>4, NamedStep

\* InTime is inductive.
LEMMA InTimeStep ==
  ASSUME [Next]_vars, TypeOK, InTime
  PROVE  InTime'
<1>1. Calls /\ Disk /\ History /\ Calls'
  BY TypeParts, CallsStep
<1>2. SUFFICES ASSUME setBacks' = 0
               PROVE  /\ \A i \in DOMAIN rotations' : rotations'[i].at <= now'
                      /\ \A q \in Procs : pc'[q] = "rename" =>
                           /\ at'[q] <= now'
                           /\ \A i \in DOMAIN rotations' :
                                rotations'[i].by = q => rotations'[i].at <= at'[q]
  BY DEF InTime
<1>3. setBacks = 0 /\ now <= now' /\ now \in Nat /\ now' \in Nat
  BY <1>2, Forward, LoggerAssumption
<1>4. /\ \A i \in DOMAIN rotations : rotations[i].at <= now /\ rotations[i].at \in Nat
      /\ \A q \in Procs : pc[q] = "rename" =>
           /\ at[q] <= now
           /\ \A i \in DOMAIN rotations : rotations[i].by = q => rotations[i].at <= at[q]
  BY <1>1, <1>3, RotationType DEF InTime
<1>5. \A q \in Procs : at[q] \in Nat
  BY <1>1, LoggerAssumption DEF Calls
<1>6. CASE UNCHANGED <<pc, line, day, at, file, named, content, logged, rotations, faults>>
  BY <1>3, <1>4, <1>5, <1>6
<1>7. ASSUME NEW p \in Procs, Rename(p)
      PROVE  /\ DOMAIN rotations \subseteq DOMAIN rotations'
             /\ \A i \in DOMAIN rotations : rotations'[i] = rotations[i]
             /\ \A i \in DOMAIN rotations' : i \in DOMAIN rotations \/
                  (rotations'[i].by = p /\ rotations'[i].at = at[p])
  <2>1. CASE Rotates(p)
    BY <2>1, Rotation
  <2>2. CASE ~Rotates(p)
    <3>1. rotations' = rotations
      BY <1>7, <2>2 DEF Rename, Rotates
    <3>. QED BY <3>1
  <2>. QED BY <2>1, <2>2
<1>8. ASSUME NEW p \in Procs, Step(p), ~Rename(p)
      PROVE  rotations' = rotations
  BY <1>8 DEF Step, PrintLog, MkdirP, Stat, GetTimeOfDay, Fopen, Fclose, RenameFails, LineDropped
<1>9. ASSUME NEW p \in Procs, Step(p), NEW i \in DOMAIN rotations'
      PROVE  rotations'[i].at <= now'
  <2>1. CASE i \in DOMAIN rotations /\ rotations'[i] = rotations[i]
    BY <1>3, <1>4, <2>1
  <2>2. CASE Rename(p) /\ rotations'[i].by = p /\ rotations'[i].at = at[p]
    <3>1. pc[p] = "rename"
      BY <2>2 DEF Rename
    <3>. QED BY <1>3, <1>4, <1>5, <2>2, <3>1
  <2>. QED BY <1>7, <1>8, <1>9, <2>1, <2>2
<1>10. ASSUME NEW p \in Procs, Step(p), NEW q \in Procs, pc'[q] = "rename"
       PROVE  /\ at'[q] <= now'
              /\ \A i \in DOMAIN rotations' : rotations'[i].by = q => rotations'[i].at <= at'[q]
  <2>1. CASE q # p
    <3>1. pc[q] = "rename" /\ at'[q] = at[q]
      BY <1>1, <1>10, <2>1, OthersStay
    <3>2. \A i \in DOMAIN rotations' : rotations'[i].by = q =>
             i \in DOMAIN rotations /\ rotations'[i] = rotations[i]
      BY <1>7, <1>8, <1>10, <2>1
    <3>. QED BY <1>3, <1>4, <1>5, <3>1, <3>2
  <2>2. CASE q = p
    <3>1. GetTimeOfDay(p)
      BY <1>1, <1>10, <2>2 DEF Step, PrintLog, MkdirP, Stat, Rename, Fopen, Fclose, RenameFails,
         LineDropped, Done, Goto, Calls
    <3>2. at'[p] = now /\ rotations' = rotations
      BY <1>1, <3>1 DEF GetTimeOfDay, Calls
    <3>. QED BY <1>3, <1>4, <2>2, <3>2
  <2>. QED BY <2>1, <2>2
<1>. QED BY <1>6, <1>9, <1>10, ClockOnly

\* What a process has seen stays seen, unless it rotates a file itself.
LEMMA SeenStays ==
  ASSUME NEW q \in Procs, Seen(q), [Next]_vars, TypeOK, day'[q] = day[q],
         \A i \in DOMAIN rotations' : rotations'[i].by = q =>
            i \in DOMAIN rotations /\ rotations'[i] = rotations[i]
  PROVE  Seen(q)'
<1>1. Calls /\ Disk /\ History
  BY TypeParts
<1>2. PICK f \in Files :
         /\ DayOf(f) = day[q] /\ Len(LinesOf(f)) > MaxBytes
         /\ \A i \in DOMAIN rotations :
              rotations[i].by = q /\ DayOf(rotations[i].file) = day[q] => rotations[i].file < f
  BY DEF Seen
<1>3. Files \subseteq Files'
      /\ \A i \in Files : content'[i].day = content[i].day
                          /\ Len(content[i].lines) <= Len(content'[i].lines)
                          /\ Len(content[i].lines) \in Nat /\ Len(content'[i].lines) \in Nat
  <2>1. content \in Seq(FileType) /\ content' \in Seq(FileType) /\ Files \subseteq Files'
    BY <1>1, FilesStay DEF Disk
  <2>2. ASSUME NEW i \in Files
        PROVE  Len(content[i].lines) \in Nat /\ Len(content'[i].lines) \in Nat
    <3>1. content[i] \in FileType /\ content'[i] \in FileType
      BY <2>1 DEF Files
    <3>2. content[i].lines \in Seq(Lines) /\ content'[i].lines \in Seq(Lines)
      BY ONLY <3>1 DEF FileType
    <3>. QED BY <3>2
  <2>. QED BY <1>1, <2>1, <2>2, FilesStay
<1>4. f \in Files' /\ content'[f].day = day'[q] /\ Len(content'[f].lines) > MaxBytes
  BY <1>2, <1>3, LoggerAssumption DEF DayOf, LinesOf
<1>5. ASSUME NEW i \in DOMAIN rotations', rotations'[i].by = q,
             content'[rotations'[i].file].day = day'[q]
      PROVE  rotations'[i].file < f
  <2>1. i \in DOMAIN rotations /\ rotations'[i] = rotations[i]
    BY <1>5
  <2>2. rotations[i].file \in Files
    BY <1>1, <2>1, RotationType
  <2>3. DayOf(rotations[i].file) = day[q]
    BY <1>3, <1>5, <2>1, <2>2 DEF DayOf
  <2>. QED BY <1>2, <1>5, <2>1, <2>3
<1>. QED BY <1>4, <1>5 DEF Seen, DayOf, LinesOf

\* Sighted is inductive.
LEMMA SightedStep ==
  ASSUME [Next]_vars, TypeOK, Newest, Rotated, Sighted
  PROVE  Sighted'
<1>1. Calls /\ Disk /\ History /\ Calls'
  BY TypeParts, CallsStep
<1>2. CASE UNCHANGED <<pc, line, day, at, file, named, content, logged, rotations, faults>>
  BY <1>2 DEF Sighted, Seen, DayOf, LinesOf, Files
<1>3. ASSUME NEW p \in Procs, Step(p), NEW q \in Procs, pc'[q] \in {"gettimeofday", "rename"}
      PROVE  Seen(q)'
  <2>1. ASSUME Rotates(p), q # p
        PROVE  \A i \in DOMAIN rotations' : rotations'[i].by = q =>
                 i \in DOMAIN rotations /\ rotations'[i] = rotations[i]
    BY <2>1, Rotation
  <2>2. CASE q # p
    <3>1. pc[q] \in {"gettimeofday", "rename"} /\ day'[q] = day[q]
      BY <1>1, <1>3, <2>2, OthersStay
    <3>2. CASE Rotates(p)
      BY <2>1, <2>2, <3>1, <3>2, SeenStays DEF Sighted
    <3>3. CASE ~Rotates(p)
      <4>1. rotations' = rotations
        BY <1>3, <3>3 DEF Step, PrintLog, MkdirP, Stat, GetTimeOfDay, Rename, Rotates, Fopen,
           Fclose, RenameFails, LineDropped
      <4>. QED BY <3>1, <4>1, SeenStays DEF Sighted
    <3>. QED BY <3>2, <3>3
  <2>3. CASE q = p
    <3>1. Stat(p) \/ GetTimeOfDay(p)
      BY <1>1, <1>3, <2>3 DEF Step, PrintLog, MkdirP, Rename, Fopen, Fclose, RenameFails,
         LineDropped, Done, Goto, Calls
    <3>2. CASE GetTimeOfDay(p)
      <4>1. pc[p] = "gettimeofday" /\ day'[p] = day[p] /\ rotations' = rotations
        BY <3>2 DEF GetTimeOfDay
      <4>. QED BY <2>3, <4>1, SeenStays DEF Sighted
    <3>3. CASE Stat(p)
      <4>1. pc'[p] = IF TooLong(day[p]) THEN "gettimeofday" ELSE "fopen"
        BY <1>1, <3>3 DEF Stat, Goto, Calls
      <4>2. /\ UNCHANGED <<content, rotations, day>>
            /\ TooLong(day[p])
        BY <1>3, <2>3, <3>3, <4>1 DEF Stat, diskVars
      <4>. DEFINE name == <<day[p], Current>>
      <4>3. name \in DOMAIN named /\ Len(content[named[name]].lines) > MaxBytes
        BY <4>2 DEF TooLong
      <4>4. PICK f : f = named[name]
        OBVIOUS
      <4>5. f \in Files /\ DayOf(f) = day[p] /\ Len(LinesOf(f)) > MaxBytes /\ day[p] \in Days
        BY <1>1, <4>3, <4>4, NamedFile DEF LinesOf, Calls
      <4>6. ASSUME NEW i \in DOMAIN rotations, DayOf(rotations[i].file) = day[p]
            PROVE  rotations[i].file < f
        <5>1. rotations[i].file \in Files /\ Files \subseteq Nat \ {0}
          BY <1>1, RotationType
        <5>2. rotations[i].file <= f
          BY <4>3, <4>4, <4>5, <4>6, <5>1 DEF Newest
        <5>3. rotations[i].file # f
          BY <4>3, <4>4 DEF Rotated
        <5>4. rotations[i].file \in Nat /\ f \in Nat
          BY <4>5, <5>1
        <5>. QED BY ONLY <5>2, <5>3, <5>4
      <4>7. Seen(p)
        BY <4>5, <4>6 DEF Seen
      <4>. QED BY <2>3, <4>2, <4>7, SeenStays
    <3>. QED BY <3>1, <3>2, <3>3
  <2>. QED BY <2>2, <2>3
<1>4. CASE \E p \in Procs : Step(p)
  BY <1>3, <1>4 DEF Sighted
<1>. QED BY <1>2, <1>4, ClockOnly

\* RotatedFilesSurvive, of two rotations.
Survives(old, new) ==
  new.replaced = old.file =>
    \/ old.by # new.by
    \/ new.at - old.at >= Seconds
    \/ /\ new.at = old.at
       /\ \E f \in (old.file + 1)..new.file : Len(content[f].lines) > MaxBytes

\* Files only get longer: what was said of two rotations stays true.
LEMMA SurvivesStays ==
  ASSUME [Next]_vars, TypeOK, NEW i \in DOMAIN rotations, NEW j \in DOMAIN rotations,
         Survives(rotations[i], rotations[j])
  PROVE  rotations[j].replaced = rotations[i].file =>
           \/ rotations[i].by # rotations[j].by
           \/ rotations[j].at - rotations[i].at >= Seconds
           \/ /\ rotations[j].at = rotations[i].at
              /\ \E f \in (rotations[i].file + 1)..rotations[j].file :
                   Len(content'[f].lines) > MaxBytes
<1>1. Calls /\ Disk /\ History
  BY TypeParts
<1>2. /\ rotations[i].file \in Files /\ rotations[j].file \in Files
      /\ Files \subseteq Nat \ {0} /\ content \in Seq(FileType) /\ Files = 1..Len(content)
  BY <1>1, RotationType DEF Disk, Files
<1>3. ASSUME NEW f \in (rotations[i].file + 1)..rotations[j].file, Len(content[f].lines) > MaxBytes
      PROVE  Len(content'[f].lines) > MaxBytes
  <2>1. f \in Files
    BY <1>2
  <2>2. content' \in Seq(FileType) /\ f \in Files' /\ Len(content[f].lines) <= Len(content'[f].lines)
    BY <1>1, <2>1, FilesStay
  <2>3. content[f] \in FileType /\ content'[f] \in FileType
    BY <1>2, <2>1, <2>2 DEF Files
  <2>4. content[f].lines \in Seq(Lines) /\ content'[f].lines \in Seq(Lines)
    BY ONLY <2>3 DEF FileType
  <2>5. Len(content[f].lines) \in Nat /\ Len(content'[f].lines) \in Nat /\ MaxBytes \in Nat
    BY <2>4, LoggerAssumption
  <2>. QED BY <1>3, <2>2, <2>5
<1>. QED BY <1>3 DEF Survives

\* A process that rotates a file in place of one it has rotated itself.
LEMMA ReplacedOwn ==
  ASSUME NEW p \in Procs, Rotates(p), [Next]_vars, TypeOK, Newest, Rotated, InTime, Sighted,
         setBacks = 0, NEW i \in DOMAIN rotations, rotations[i].by = p,
         NEW from, from = <<day[p], Current>>, NEW to, to = <<day[p], Second(at[p])>>,
         to \in DOMAIN named, named[to] = rotations[i].file
  PROVE  \/ at[p] - rotations[i].at >= Seconds
         \/ /\ at[p] = rotations[i].at
            /\ \E f \in (rotations[i].file + 1)..named[from] : Len(content[f].lines) > MaxBytes
<1>1. Calls /\ Disk /\ History /\ pc[p] = "rename" /\ from \in DOMAIN named
  BY TypeParts DEF Rotates, Rename
<1>2. /\ rotations[i].at \in Nat /\ at[p] \in Nat /\ Seconds \in Nat \ {0}
      /\ rotations[i].file \in Files /\ Files \subseteq Nat \ {0} /\ day[p] \in Days
      /\ Second(at[p]) # Current
  BY <1>1, RotationType, DayType, LoggerAssumption DEF Calls
<1>3. rotations[i].at <= at[p]
  BY <1>1 DEF InTime
<1>4. Second(rotations[i].at) = Second(at[p])
  <2>1. to[2] = Second(at[p])
    OBVIOUS
  <2>2. PICK k \in DOMAIN rotations :
           rotations[k].file = named[to] /\ Second(rotations[k].at) = to[2]
    BY <1>2, <2>1 DEF Rotated
  <2>3. k = i
    BY <2>2 DEF Rotated
  <2>. QED BY <2>1, <2>2, <2>3
<1>5. CASE rotations[i].at < at[p]
  BY <1>2, <1>4, <1>5, SameRemainder DEF Second
<1>6. CASE rotations[i].at = at[p]
  <2>1. DayOf(rotations[i].file) = day[p]
    <3>1. to[1] = day[p]
      OBVIOUS
    <3>. QED BY <1>1, <3>1, NamedFile
  <2>2. PICK f \in Files :
           /\ DayOf(f) = day[p] /\ Len(LinesOf(f)) > MaxBytes
           /\ \A k \in DOMAIN rotations :
                rotations[k].by = p /\ DayOf(rotations[k].file) = day[p] => rotations[k].file < f
    BY <1>1 DEF Sighted, Seen
  <2>3. rotations[i].file < f
    BY <2>1, <2>2
  <2>4. f <= named[from]
    BY <1>1, <1>2, <2>2 DEF Newest
  <2>5. named[from] \in Files
    BY <1>1, NamedFile
  <2>6. f \in (rotations[i].file + 1)..named[from]
    <3>1. f \in Nat /\ rotations[i].file \in Nat /\ named[from] \in Nat
      BY <1>2, <2>5
    <3>. QED BY ONLY <2>3, <2>4, <3>1
  <2>. QED BY <1>6, <2>2, <2>6 DEF LinesOf
<1>. QED BY <1>2, <1>3, <1>5, <1>6

\* RotatedFilesSurvive is inductive.
LEMMA SurviveStep ==
  ASSUME [Next]_vars, TypeOK, Newest, Rotated, InTime, Sighted, RotatedFilesSurvive
  PROVE  RotatedFilesSurvive'
<1>1. Calls /\ Disk /\ History
  BY TypeParts
<1>2. SUFFICES ASSUME setBacks' = 0, NEW i \in DOMAIN rotations', NEW j \in DOMAIN rotations',
                      rotations'[j].replaced = rotations'[i].file
               PROVE  \/ rotations'[i].by # rotations'[j].by
                      \/ rotations'[j].at - rotations'[i].at >= Seconds
                      \/ /\ rotations'[j].at = rotations'[i].at
                         /\ \E f \in (rotations'[i].file + 1)..rotations'[j].file :
                              Len(content'[f].lines) > MaxBytes
  BY DEF RotatedFilesSurvive
<1>3. setBacks = 0
  BY <1>2, Forward
<1>4. CASE /\ i \in DOMAIN rotations /\ rotations'[i] = rotations[i]
           /\ j \in DOMAIN rotations /\ rotations'[j] = rotations[j]
  <2>1. Survives(rotations[i], rotations[j])
    BY <1>3, <1>4 DEF RotatedFilesSurvive, Survives
  <2>. QED BY <1>2, <1>4, <2>1, SurvivesStays
<1>5. ASSUME NEW p \in Procs, Rotates(p)
      PROVE  \/ rotations'[i].by # rotations'[j].by
             \/ rotations'[j].at - rotations'[i].at >= Seconds
             \/ /\ rotations'[j].at = rotations'[i].at
                /\ \E f \in (rotations'[i].file + 1)..rotations'[j].file :
                     Len(content'[f].lines) > MaxBytes
  <2>1. PICK from, to, N : from = <<day[p], Current>> /\ to = <<day[p], Second(at[p])>>
                           /\ N = Len(rotations) + 1
    OBVIOUS
  <2>2. /\ DOMAIN rotations' = DOMAIN rotations \cup {N} /\ N \notin DOMAIN rotations
        /\ \A k \in DOMAIN rotations : rotations'[k] = rotations[k]
        /\ rotations'[N].by = p /\ rotations'[N].file = named[from] /\ rotations'[N].at = at[p]
        /\ rotations'[N].replaced = IF to \in DOMAIN named THEN named[to] ELSE 0
        /\ from \in DOMAIN named /\ Second(at[p]) # Current
    BY <1>5, <2>1, Rotation
  <2>3. from[2] = Current /\ to[2] # Current
    BY <2>1, <2>2
  <2>4. \A k \in DOMAIN rotations : rotations[k].file # named[from]
    BY <2>2, <2>3 DEF Rotated
  <2>5. named[from] # 0 /\ \A k \in DOMAIN rotations : rotations[k].file # 0
    <3>1. Files \subseteq Nat \ {0}
      BY <1>1 DEF Disk, Files
    <3>2. named[from] \in Files
      BY <1>1, <2>2, NamedFile
    <3>3. \A k \in DOMAIN rotations : rotations[k].file \in Files
      BY <1>1, RotationType
    <3>. QED BY <3>1, <3>2, <3>3
  <2>6. j \in DOMAIN rotations => rotations[j].replaced # named[from]
    BY <2>4, <2>5 DEF Rotated
  <2>7. rotations'[N].replaced # named[from]
    BY <2>2, <2>3, <2>4, <2>5 DEF Rotated
  <2>8. i \in DOMAIN rotations
    BY <1>2, <2>2, <2>6, <2>7
  <2>9. CASE j \in DOMAIN rotations
    BY <1>4, <2>2, <2>8, <2>9
  <2>10. CASE j = N
    <3>1. to \in DOMAIN named /\ named[to] = rotations[i].file
      BY <1>2, <2>2, <2>5, <2>8, <2>10
    <3>2. content' = content
      BY <1>5 DEF Rotates, Rename
    <3>3. rotations[i].by = p =>
            \/ at[p] - rotations[i].at >= Seconds
            \/ /\ at[p] = rotations[i].at
               /\ \E f \in (rotations[i].file + 1)..named[from] : Len(content[f].lines) > MaxBytes
      BY <1>3, <1>5, <2>1, <2>8, <3>1, ReplacedOwn
    <3>. QED BY <2>2, <2>8, <2>10, <3>2, <3>3
  <2>. QED BY <2>2, <2>9, <2>10
<1>6. CASE rotations' = rotations
  BY <1>4, <1>6
<1>7. ASSUME NEW p \in Procs, Creates(p)
      PROVE  rotations' = rotations
  BY <1>7 DEF Creates, Fopen
<1>. QED BY <1>5, <1>6, <1>7, NamedStep

-----------------------------------------------------------------------------
(* The theorems.                                                           *)

\* IInv holds at the start.
LEMMA InvInit == Init => IInv
<1>. SUFFICES ASSUME Init PROVE IInv
  OBVIOUS
<1>1. TypeOK
  BY TypeInit
<1>2. /\ \A p \in Procs : pc[p] = "idle" /\ line[p] = NoLine /\ logged[p] = 0
      /\ content = <<>> /\ named = <<>> /\ rotations = <<>> /\ faults = {} /\ setBacks = 0
  BY DEF Init
<1>3. DOMAIN content = {} /\ DOMAIN named = {} /\ DOMAIN rotations = {}
  BY <1>2
<1>4. \A p \in Procs : line[p].no = 0
  BY <1>2, NoLineType
<1>5. Own /\ Newest /\ Blamed /\ Room /\ Timely /\ FiledUnderItsDay
  BY <1>2, <1>3, <1>4 DEF Own, Newest, Blamed, Room, Timely, FiledUnderItsDay, Files
<1>6. \A p \in Procs : Filed(p) = {}
  BY <1>3 DEF Filed, Files
<1>7. Ahead
  BY <1>6 DEF Ahead
<1>8. LinesKeptInOrder
  <2>1. \A p \in Procs : ((1..logged[p]) \ Dropped(p)) \ {line[p].no} = {}
    BY <1>2
  <2>. QED BY <1>6, <2>1 DEF LinesKeptInOrder
<1>9. Rotated /\ InTime /\ RotatedFilesSurvive
  BY <1>2, <1>3 DEF Rotated, InTime, RotatedFilesSurvive
<1>10. Sighted
  BY <1>2 DEF Sighted
<1>. QED BY <1>1, <1>5, <1>7, <1>8, <1>9, <1>10 DEF IInv

\* And every step keeps it.
LEMMA InvStep == IInv /\ [Next]_vars => IInv'
<1>. SUFFICES ASSUME IInv, [Next]_vars PROVE IInv'
  OBVIOUS
<1>1. /\ TypeOK /\ Own /\ Newest /\ Blamed /\ Ahead /\ LinesKeptInOrder
      /\ Room /\ Timely /\ FiledUnderItsDay
      /\ Rotated /\ InTime /\ Sighted /\ RotatedFilesSurvive
  BY DEF IInv
<1>2. TypeOK' /\ Own' /\ Newest' /\ Blamed' /\ Ahead'
  BY <1>1, TypeStep, OwnStep, NewestStep, BlamedStep, AheadStep
<1>3. LinesKeptInOrder' /\ Room' /\ Timely' /\ FiledUnderItsDay'
  BY <1>1, KeptStep, RoomStep, TimelyStep, DayStep
<1>4. Rotated' /\ InTime' /\ Sighted' /\ RotatedFilesSurvive'
  BY <1>1, RotatedStep, InTimeStep, SightedStep, SurviveStep
<1>. QED BY <1>2, <1>3, <1>4 DEF IInv

\* The inductive invariant holds of every behaviour.
THEOREM Invariance == Spec => []IInv
BY InvInit, InvStep, PTL DEF Spec

\* The variables have their types: a process has a file open exactly when it is
\* about to write to it, and every name is of a file of its day.
THEOREM TypeCorrect == Spec => []TypeOK
<1>1. IInv => TypeOK
  BY DEF IInv
<1>. QED BY <1>1, Invariance, PTL

\* The files of a day hold a process's lines in the order in which it logged
\* them, and every line that was not dropped once.
THEOREM LinesKept == Spec => []LinesKeptInOrder
<1>1. IInv => LinesKeptInOrder
  BY DEF IInv
<1>. QED BY <1>1, Invariance, PTL

\* Rotation limits every file, however many processes log: one line above the
\* limit for each of them.
THEOREM SizeIsBounded == Spec => []SizeBounded
<1>1. IInv => SizeBounded
  BY RoomEnough DEF IInv
<1>. QED BY <1>1, Invariance, PTL

\* A rotated file is replaced by another one only in the cases named.
THEOREM RotatedSurvive == Spec => []RotatedFilesSurvive
<1>1. IInv => RotatedFilesSurvive
  BY DEF IInv
<1>. QED BY <1>1, Invariance, PTL

\* No line is filed under a day that was over when it was stamped.
THEOREM FiledRightly == Spec => []FiledUnderItsDay
<1>1. IInv => FiledUnderItsDay
  BY DEF IInv
<1>. QED BY <1>1, Invariance, PTL
=============================================================================
