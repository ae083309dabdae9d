----------------------------- MODULE LoggerProofs -----------------------------
(***************************************************************************)
(* Proofs about module Logger, for any number of threads, calls, ticks and *)
(* settings: what logMutex protects of a line's time (OnlyPushesRace), and *)
(* that the two outputs tell the same story in the order of the calls      *)
(* (OutputsAgree).                                                         *)
(***************************************************************************)
EXTENDS Logger, SequenceTheorems, TLAPS

Steps == {"idle", "write", "lock", "localtime", "hours", "minutes", "console", "file",
          "written", "push localtime", "push hours", "push minutes", "push", "curl"}
Racers == {"writer", "push"}

\* The fields of the buffer that a thread has read.
FieldsRead ==
    \A t \in Threads :
        /\ pc[t] \in {"hours", "push hours"} => stamp[t] = <<>>
        /\ pc[t] \in {"minutes", "push minutes"} => \E h \in Nat : stamp[t] = <<h>>

Lines == [from : Threads, n : Nat, now : Nat, stamp : Seq(Nat), raced : SUBSET Racers]

TimeTypeOK ==
    /\ pc \in [Threads -> Steps] /\ calls \in [Threads -> Nat]
    /\ tm \in Nat \X Nat /\ clock \in Nat
    /\ now \in [Threads -> Nat]
    /\ stamp \in [Threads -> Seq(Nat)]
    /\ raced \in [Threads -> SUBSET Racers]
    /\ file \in Seq(Lines)
    /\ FieldsRead

\* logMutex is a mutex.
MutexInv == \A t \in Threads : pc[t] \in Critical => logMutex = t

\* In the critical section no other writer touches the buffer; if no push does, the
\* buffer keeps the thread's time and the fields read are those of that time.
BufferInv ==
    \A t \in Threads :
        /\ pc[t] \in {"hours", "minutes", "console", "file"} => "writer" \notin raced[t]
        /\ raced[t] = {} =>
              /\ pc[t] \in {"hours", "minutes"} => tm = Broken(now[t])
              /\ pc[t] = "minutes" => stamp[t] = <<Broken(now[t])[1]>>
              /\ pc[t] \in {"console", "file"} => stamp[t] = Broken(now[t])

RaceInv == TimeTypeOK /\ MutexInv /\ BufferInv /\ OnlyPushesRace

\* The two fields of a time.
LEMMA BrokenType == ASSUME NEW n \in Nat PROVE Broken(n) \in Nat \X Nat
BY DEF Broken

\* put_time has read the first field of the buffer, and then both.
LEMMA FirstField == ASSUME NEW x PROVE Len(<<>>) = 0 /\ Append(<<>>, x) = <<x>>
OBVIOUS

\* See FirstField.
LEMMA SecondField == ASSUME NEW h \in Nat, NEW x \in Nat PROVE Len(<<h>>) = 1 /\ Append(<<h>>, x) = <<h, x>>
<1>1. <<h>> \in Seq(Nat) /\ Len(<<h>>) = 1 /\ <<h>>[1] = h
  OBVIOUS
<1>2. <<h, x>> \in Seq(Nat) /\ Len(<<h, x>>) = 2 /\ <<h, x>>[1] = h /\ <<h, x>>[2] = x
  OBVIOUS
<1>3. /\ Append(<<h>>, x) \in Seq(Nat) /\ Len(Append(<<h>>, x)) = 2
      /\ Append(<<h>>, x)[1] = h /\ Append(<<h>>, x)[2] = x
  BY <1>1, AppendProperties
<1> DEFINE s == Append(<<h>>, x)
           t == <<h, x>>
<1> HIDE DEF s, t
<1>4. s \in Seq(Nat) /\ t \in Seq(Nat) /\ Len(s) = 2 /\ Len(t) = 2 /\ s[1] = t[1] /\ s[2] = t[2]
  BY <1>2, <1>3 DEF s, t
<1>5. \A i \in 1 .. Len(s) : s[i] = t[i]
  BY <1>4
<1>6. s = t
  BY <1>4, <1>5, SeqEqual
<1> QED BY <1>1, <1>6 DEF s, t

\* Nobody has asked for the time yet.
LEMMA InitRace == Init => RaceInv
BY LoggerAssumption, BrokenType DEF Init, RaceInv, TimeTypeOK, FieldsRead, MutexInv, BufferInv, OnlyPushesRace,
   Steps, Critical

\* The steps that leave the time, the buffer and the file alone, and enter or leave no
\* part of a call that the invariant speaks of.
LEMMA QuietSteps ==
    ASSUME RaceInv, NEW t \in Threads,
           Call(t) \/ CheckLevel(t) \/ Written(t) \/ Push(t) \/ PushEnds(t)
    PROVE  RaceInv'
<1> USE DEF RaceInv, TimeTypeOK, Steps
<1>1. UNCHANGED <<logMutex, tm, now, stamp, raced, clock, file>>
  BY DEF Call, CheckLevel, Written, Push, PushEnds, configVars, timeVars, outputs
<1>0. calls' \in [Threads -> Nat]
  <2>1. CASE Call(t)
    <3>1. calls \in [Threads -> Nat]
      OBVIOUS
    <3>2. calls' = [calls EXCEPT ![t] = calls[t] + 1]
      BY <2>1 DEF Call
    <3> HIDE DEF RaceInv, TimeTypeOK
    <3> QED BY <3>1, <3>2
  <2>2. CASE CheckLevel(t) \/ Written(t) \/ Push(t) \/ PushEnds(t)
    BY <2>2 DEF CheckLevel, Written, Push, PushEnds
  <2> QED BY <2>1, <2>2
<1>2. \E s \in {"write", "lock", "written", "push localtime", "idle", "curl"} : pc' = [pc EXCEPT ![t] = s]
  <2>1. CASE Call(t)
    BY <2>1 DEF Call
  <2>2. CASE CheckLevel(t)
    BY <2>2 DEF CheckLevel
  <2>3. CASE Written(t)
    BY <2>3 DEF Written
  <2>4. CASE Push(t) \/ PushEnds(t)
    BY <2>4 DEF Push, PushEnds
  <2> QED BY <2>1, <2>2, <2>3, <2>4
<1>3. TimeTypeOK'
  BY <1>0, <1>1, <1>2 DEF FieldsRead
<1>4. MutexInv'
  BY <1>1, <1>2 DEF MutexInv, Critical
<1>5. BufferInv'
  BY <1>1, <1>2 DEF BufferInv
<1>6. OnlyPushesRace'
  BY <1>1 DEF OnlyPushesRace
<1> QED BY <1>3, <1>4, <1>5, <1>6

\* Only one thread gets the mutex.
LEMMA LockStep == ASSUME RaceInv, NEW t \in Threads, Lock(t) PROVE RaceInv'
<1> USE DEF RaceInv, TimeTypeOK, Steps, Lock, configVars, timeVars, outputs
<1>1. TimeTypeOK'
  BY DEF FieldsRead
<1>2. MutexInv'
  BY LoggerAssumption DEF MutexInv, Critical
<1>3. BufferInv'
  BY DEF BufferInv
<1>4. OnlyPushesRace'
  BY DEF OnlyPushesRace
<1> QED BY <1>1, <1>2, <1>3, <1>4

\* A writer that asks for the time is the only one in the critical section: the others
\* that are reading the buffer are pushes.
LEMMA LocaltimeStep == ASSUME RaceInv, NEW t \in Threads, Localtime(t) PROVE RaceInv'
<1> USE DEF RaceInv, TimeTypeOK, Steps, Localtime, configVars, outputs
<1>1. Broken(clock) \in Nat \X Nat
  BY BrokenType
<1>2. TimeTypeOK'
  <2>1. pc' \in [Threads -> Steps] /\ now' \in [Threads -> Nat]
    OBVIOUS
  <2>4. stamp' \in [Threads -> Seq(Nat)]
    <3>1. <<>> \in Seq(Nat)
      BY EmptySeq
    <3>2. stamp \in [Threads -> Seq(Nat)] /\ stamp' = [stamp EXCEPT ![t] = <<>>]
      OBVIOUS
    <3> HIDE DEF RaceInv, TimeTypeOK, Localtime
    <3> QED BY <3>1, <3>2
  <2>2. raced' \in [Threads -> SUBSET Racers]
    BY DEF Racers
  <2>3. FieldsRead'
    BY DEF FieldsRead
  <2> QED BY <1>1, <2>1, <2>2, <2>3, <2>4
<1>3. MutexInv'
  BY DEF MutexInv, Critical
<1>4. ASSUME NEW u \in Threads, pc'[u] \in {"hours", "minutes", "console", "file"}
      PROVE  "writer" \notin raced'[u]
  <2>1. CASE u = t
    BY <2>1
  <2>2. CASE u # t /\ pc[t] = "localtime"
    BY <1>4, <2>2 DEF MutexInv, Critical
  <2>3. CASE u # t /\ pc[t] = "push localtime"
    BY <1>4, <2>3 DEF BufferInv, Reading
  <2> QED BY <2>1, <2>2, <2>3
<1>5. ASSUME NEW u \in Threads, raced'[u] = {}
      PROVE  /\ pc'[u] \in {"hours", "minutes"} => tm' = Broken(now'[u])
             /\ pc'[u] = "minutes" => stamp'[u] = <<Broken(now'[u])[1]>>
             /\ pc'[u] \in {"console", "file"} => stamp'[u] = Broken(now'[u])
  <2>1. CASE u = t
    BY <2>1
  <2>2. CASE u # t
    <3>1. pc[u] \notin Reading /\ raced[u] = {}
      BY <1>5, <2>2
    <3> QED BY <2>2, <3>1 DEF BufferInv, Reading
  <2> QED BY <2>1, <2>2
<1>6. BufferInv'
  BY <1>4, <1>5 DEF BufferInv
<1>7. OnlyPushesRace'
  BY DEF OnlyPushesRace
<1> QED BY <1>2, <1>3, <1>6, <1>7

\* A field that is read while nobody else has written to the buffer is of the time asked for.
LEMMA ReadFieldStep == ASSUME RaceInv, NEW t \in Threads, ReadField(t) PROVE RaceInv'
<1>1. /\ pc \in [Threads -> Steps] /\ stamp \in [Threads -> Seq(Nat)] /\ tm \in Nat \X Nat
      /\ FieldsRead /\ MutexInv /\ BufferInv /\ OnlyPushesRace
  BY DEF RaceInv, TimeTypeOK
<1>2. /\ pc[t] \in Reading
      /\ stamp' = [stamp EXCEPT ![t] = Append(stamp[t], tm[Len(stamp[t]) + 1])]
      /\ pc' = [pc EXCEPT ![t] = AfterField(pc[t])]
      /\ UNCHANGED <<calls, logMutex, tm, now, raced, clock, file>>
  BY DEF ReadField, outputs
<1>3. ASSUME NEW u \in Threads, u # t PROVE pc'[u] = pc[u] /\ stamp'[u] = stamp[u]
  BY <1>1, <1>2, <1>3
<1>4. stamp'[t] = Append(stamp[t], tm[Len(stamp[t]) + 1]) /\ pc'[t] = AfterField(pc[t])
  BY <1>1, <1>2
<1>5. CASE pc[t] \in {"hours", "push hours"}
  <2>1. stamp[t] = <<>>
    BY <1>1, <1>5 DEF FieldsRead
  <2>2. stamp'[t] = <<tm[1]>>
    BY <1>4, <2>1, FirstField
  <2>3. pc'[t] = IF pc[t] = "hours" THEN "minutes" ELSE "push minutes"
    BY <1>4, <1>5 DEF AfterField
  <2>4. tm[1] \in Nat
    BY <1>1
  <2>5. stamp'[t] \in Seq(Nat)
    BY <2>2, <2>4
  <2>6. TimeTypeOK'
    <3>1. stamp' \in [Threads -> Seq(Nat)]
      BY <1>1, <1>2, <1>4, <2>5
    <3>2. pc' \in [Threads -> Steps]
      BY <1>1, <1>2, <1>4, <2>3 DEF Steps
    <3>3. FieldsRead'
      BY <1>1, <1>3, <2>2, <2>3, <2>4 DEF FieldsRead
    <3> QED BY <1>2, <3>1, <3>2, <3>3 DEF RaceInv, TimeTypeOK
  <2>7. MutexInv'
    BY <1>1, <1>2, <1>3, <1>5, <2>3 DEF MutexInv, Critical
  <2>8. BufferInv'
    BY <1>1, <1>2, <1>3, <1>5, <2>2, <2>3 DEF BufferInv
  <2> QED BY <1>1, <1>2, <2>6, <2>7, <2>8 DEF RaceInv, OnlyPushesRace
<1>6. CASE pc[t] \in {"minutes", "push minutes"}
  <2>1. PICK h \in Nat : stamp[t] = <<h>>
    BY <1>1, <1>6 DEF FieldsRead
  <2>4. tm[2] \in Nat
    BY <1>1
  <2>2. stamp'[t] = <<h, tm[2]>>
    BY <1>4, <2>1, <2>4, SecondField
  <2>3. pc'[t] = IF pc[t] = "minutes" THEN "console" ELSE "push"
    BY <1>4, <1>6 DEF AfterField
  <2>5. stamp'[t] \in Seq(Nat)
    BY <2>2, <2>4
  <2>6. TimeTypeOK'
    <3>1. stamp' \in [Threads -> Seq(Nat)]
      BY <1>1, <1>2, <1>4, <2>5
    <3>2. pc' \in [Threads -> Steps]
      BY <1>1, <1>2, <1>4, <2>3 DEF Steps
    <3>3. FieldsRead'
      BY <1>1, <1>3, <2>3 DEF FieldsRead
    <3> QED BY <1>2, <3>1, <3>2, <3>3 DEF RaceInv, TimeTypeOK
  <2>7. MutexInv'
    BY <1>1, <1>2, <1>3, <1>6, <2>3 DEF MutexInv, Critical
  <2>8. BufferInv'
    <3>1. pc[t] = "minutes" /\ raced[t] = {} => stamp'[t] = Broken(now[t])
      <4> SUFFICES ASSUME pc[t] = "minutes", raced[t] = {} PROVE stamp'[t] = Broken(now[t])
        OBVIOUS
      <4>1. tm = Broken(now[t]) /\ <<h>> = <<Broken(now[t])[1]>>
        BY <1>1, <2>1 DEF BufferInv
      <4>2. stamp'[t] = <<Broken(now[t])[1], Broken(now[t])[2]>>
        BY <2>2, <4>1
      <4> QED BY <4>2 DEF Broken
    <3> QED BY <1>1, <1>2, <1>3, <1>6, <2>3, <3>1 DEF BufferInv
  <2> QED BY <1>1, <1>2, <2>6, <2>7, <2>8 DEF RaceInv, OnlyPushesRace
<1> QED BY <1>2, <1>5, <1>6 DEF Reading

\* Printing on the console leaves the time alone.
LEMMA WriteConsoleStep == ASSUME RaceInv, NEW t \in Threads, WriteConsole(t) PROVE RaceInv'
<1> USE DEF RaceInv, TimeTypeOK, Steps, WriteConsole, configVars, timeVars
<1>1. TimeTypeOK'
  BY DEF FieldsRead
<1>2. MutexInv'
  BY DEF MutexInv, Critical
<1>3. BufferInv'
  BY DEF BufferInv
<1>4. OnlyPushesRace'
  BY DEF OnlyPushesRace
<1> QED BY <1>1, <1>2, <1>3, <1>4

\* The line that reaches the file has the time that its thread read in the critical section.
LEMMA WriteFileStep == ASSUME RaceInv, NEW t \in Threads, WriteFile(t) PROVE RaceInv'
<1>1. /\ pc \in [Threads -> Steps] /\ calls \in [Threads -> Nat] /\ now \in [Threads -> Nat]
      /\ stamp \in [Threads -> Seq(Nat)] /\ raced \in [Threads -> SUBSET Racers]
      /\ file \in Seq(Lines) /\ FieldsRead /\ MutexInv /\ BufferInv /\ OnlyPushesRace
  BY DEF RaceInv, TimeTypeOK
<1>2. /\ pc[t] = "file" /\ logMutex' = NoThread
      /\ file' = IF fileEnabled /\ fileOpen THEN Append(file, Line(t)) ELSE file
      /\ pc' = [pc EXCEPT ![t] = "written"]
      /\ UNCHANGED <<calls, tm, now, stamp, raced, clock>>
  BY DEF WriteFile, timeVars
<1>3. Line(t) \in Lines
  BY <1>1 DEF Line, Lines
<1>4. /\ "writer" \notin Line(t).raced
      /\ Line(t).stamp # Broken(Line(t).now) => Line(t).raced = {"push"}
  <2>1. "writer" \notin raced[t] /\ (raced[t] = {} => stamp[t] = Broken(now[t]))
    BY <1>1, <1>2 DEF BufferInv
  <2>2. raced[t] \in SUBSET Racers
    BY <1>1
  <2>3. raced[t] = {} \/ raced[t] = {"push"}
    BY <2>1, <2>2 DEF Racers
  <2>4. Line(t).raced = raced[t] /\ Line(t).stamp = stamp[t] /\ Line(t).now = now[t]
    BY DEF Line
  <2> QED BY <2>1, <2>3, <2>4
<1>5. pc' \in [Threads -> Steps] /\ pc'[t] = "written" /\ \A u \in Threads : u # t => pc'[u] = pc[u]
  BY <1>1, <1>2 DEF Steps
<1>6. MutexInv'
  BY <1>1, <1>2, <1>5 DEF MutexInv, Critical
<1>7. BufferInv'
  BY <1>1, <1>2, <1>5 DEF BufferInv
<1>8. FieldsRead'
  BY <1>1, <1>2, <1>5 DEF FieldsRead
<1>9. file' \in Seq(Lines) /\ OnlyPushesRace'
  <2>1. CASE file' = file
    BY <1>1, <2>1 DEF OnlyPushesRace
  <2>2. CASE file' = Append(file, Line(t))
    <3>1. /\ file' \in Seq(Lines) /\ Len(file') = Len(file) + 1
          /\ \A k \in 1 .. Len(file) : file'[k] = file[k]
          /\ file'[Len(file) + 1] = Line(t)
      BY <1>1, <1>3, <2>2, AppendProperties
    <3>2. ASSUME NEW k \in DOMAIN file'
          PROVE  /\ "writer" \notin file'[k].raced
                 /\ file'[k].stamp # Broken(file'[k].now) => file'[k].raced = {"push"}
      <4>1. Len(file) \in Nat /\ DOMAIN file = 1 .. Len(file) /\ DOMAIN file' = 1 .. Len(file) + 1
        BY <1>1, <3>1
      <4>2. CASE k \in 1 .. Len(file)
        <5>1. file'[k] = file[k] /\ k \in DOMAIN file
          BY <3>1, <4>1, <4>2
        <5> QED BY <1>1, <5>1 DEF OnlyPushesRace
      <4>3. CASE k = Len(file) + 1
        <5>1. file'[k] = Line(t)
          BY <3>1, <4>3
        <5> QED BY <1>4, <5>1
      <4> QED BY <4>1, <4>2, <4>3
    <3> QED BY <3>1, <3>2 DEF OnlyPushesRace
  <2> QED BY <1>2, <2>1, <2>2
<1> QED BY <1>2, <1>5, <1>6, <1>7, <1>8, <1>9 DEF RaceInv, TimeTypeOK

\* Start, the clock, the setters and stuttering.
LEMMA OtherSteps ==
    ASSUME RaceInv,
           \/ Initialize \/ InitWithLoki \/ Tick \/ UNCHANGED vars
           \/ \E level \in Levels : SetLevel(level)
           \/ \E enabled \in BOOLEAN : EnableConsole(enabled) \/ EnableFile(enabled)
    PROVE  RaceInv'
<1> USE DEF RaceInv, TimeTypeOK
<1>1. UNCHANGED <<pc, calls, logMutex, tm, now, stamp, raced, file>> /\ clock' \in Nat
  BY DEF Initialize, InitWithLoki, Tick, SetLevel, EnableConsole, EnableFile, Setter, vars,
         threadVars, timeVars, outputs
<1>2. TimeTypeOK'
  BY <1>1 DEF FieldsRead
<1>3. MutexInv'
  BY <1>1 DEF MutexInv
<1>4. BufferInv'
  BY <1>1 DEF BufferInv
<1>5. OnlyPushesRace'
  BY <1>1 DEF OnlyPushesRace
<1> QED BY <1>2, <1>3, <1>4, <1>5

\* Every step keeps the invariant.
LEMMA NextRace == RaceInv /\ [Next]_vars => RaceInv'
<1> SUFFICES ASSUME RaceInv, [Next]_vars PROVE RaceInv'
  OBVIOUS
<1> QED
  BY QuietSteps, LockStep, LocaltimeStep, ReadFieldStep, WriteConsoleStep, WriteFileStep, OtherSteps
  DEF Next, Writing

\* For any number of threads, calls and ticks: a line of the log file has the time it was
\* written at, unless a push to Loki, which formats its time without the mutex, used the
\* buffer of std::localtime meanwhile (logger.h:65).
THEOREM PushesAloneRace == Spec => []OnlyPushesRace
<1>1. RaceInv => OnlyPushesRace
  BY DEF RaceInv
<1> QED BY InitRace, NextRace, <1>1, PTL DEF Spec

(***************************************************************************)
(* The console and the file.                                               *)
(***************************************************************************)
Unwritten == {"write", "lock", "localtime", "hours", "minutes", "console"}

\* The lines that a thread has in an output are of its earlier calls, or of the present
\* one if it has passed the step that prints it.
Earlier(lines, waiting) ==
    \A k \in DOMAIN lines :
        /\ lines[k].n <= calls[lines[k].from]
        /\ pc[lines[k].from] \in waiting => lines[k].n # calls[lines[k].from]

\* The nth call of t has its line on the console.
Printed(t, n) == n \in Logged(t) \/ (n = calls[t] /\ pc[t] = "file")

ConsoleComplete ==
    \A t \in Threads, n \in Nat :
        Printed(t, n) <=> \E k \in DOMAIN console : console[k].from = t /\ console[k].n = n

\* The file is the console, less the line that its writer is about to write there.
FileFollows ==
    /\ (\A t \in Threads : pc[t] # "file") => file = console
    /\ \A t \in Threads : pc[t] = "file" => console = Append(file, Line(t))

Untouched ==
    settings = 0 =>
        /\ minLevel = 0 /\ consoleEnabled /\ (fileEnabled <=> fileOpen)
        /\ ConsoleComplete
        /\ fileOpen => FileFollows

CallInv ==
    /\ settings \in Nat /\ console \in Seq(Lines)
    /\ \A t \in Threads : /\ call[t].level \in Nat /\ calls[t] <= MaxCalls
                          /\ pc[t] # "idle" => calls[t] >= 1
    /\ phase = "start" => console = <<>> /\ file = <<>> /\ \A t \in Threads : pc[t] = "idle"

OrderInv ==
    /\ InOrder(console) /\ InOrder(file)
    /\ Earlier(console, Unwritten) /\ Earlier(file, Unwritten \cup {"file"})

OutputInv == CallInv /\ OrderInv /\ Untouched

\* What a line of an output is.
LEMMA LineFacts ==
  ASSUME NEW lines \in Seq(Lines), NEW k \in DOMAIN lines
  PROVE  lines[k] \in Lines /\ lines[k].from \in Threads /\ lines[k].n \in Nat
<1>1. k \in 1 .. Len(lines)
  OBVIOUS
<1>2. lines[k] \in Lines
  BY <1>1, ElementOfSeq
<1> HIDE DEF Lines
<1> QED BY <1>2 DEF Lines

\* A new line at the end of an output.
LEMMA NewLine ==
  ASSUME TimeTypeOK, NEW lines \in Seq(Lines), NEW x \in Lines
  PROVE  /\ Append(lines, x) \in Seq(Lines)
         /\ DOMAIN Append(lines, x) = 1 .. Len(lines) + 1
         /\ DOMAIN lines = 1 .. Len(lines) /\ Len(lines) \in Nat
         /\ \A k \in 1 .. Len(lines) : Append(lines, x)[k] = lines[k]
         /\ Append(lines, x)[Len(lines) + 1] = x
<1>1. /\ Append(lines, x) \in Seq(Lines) /\ Len(Append(lines, x)) = Len(lines) + 1
      /\ \A k \in 1 .. Len(lines) : Append(lines, x)[k] = lines[k]
      /\ Append(lines, x)[Len(lines) + 1] = x
  BY AppendProperties
<1>2. DOMAIN lines = 1 .. Len(lines) /\ Len(lines) \in Nat
  OBVIOUS
<1>3. DOMAIN Append(lines, x) = 1 .. Len(lines) + 1
  <2> DEFINE s == Append(lines, x)
  <2>1. s \in Seq(Lines) /\ Len(s) = Len(lines) + 1
    BY <1>1
  <2> HIDE DEF s
  <2>2. DOMAIN s = 1 .. Len(s)
    BY <2>1
  <2> QED BY <2>1, <2>2 DEF s
<1> QED BY <1>1, <1>2, <1>3

\* The lines stay in order when a thread prints a call that it has not printed.
LEMMA OrderedAppend ==
  ASSUME TimeTypeOK, NEW lines \in Seq(Lines), NEW t \in Threads, NEW W, pc[t] \in W,
         InOrder(lines), Earlier(lines, W)
  PROVE  /\ Line(t) \in Lines
         /\ InOrder(Append(lines, Line(t)))
         /\ \A k \in DOMAIN Append(lines, Line(t)) :
              LET l == Append(lines, Line(t))[k]
              IN  \/ l = Line(t)
                  \/ k \in DOMAIN lines /\ l = lines[k]
<1> DEFINE x == Line(t)
           s == Append(lines, x)
<1>1. x \in Lines /\ x.from = t /\ x.n = calls[t]
  BY DEF TimeTypeOK, Line, Lines
<1> HIDE DEF x
<1>2. /\ DOMAIN s = 1 .. Len(lines) + 1 /\ DOMAIN lines = 1 .. Len(lines) /\ Len(lines) \in Nat
      /\ \A k \in 1 .. Len(lines) : s[k] = lines[k]
      /\ s[Len(lines) + 1] = x
  BY <1>1, NewLine
<1> HIDE DEF s
<1>3. \A k \in DOMAIN s : s[k] = x \/ (k \in DOMAIN lines /\ s[k] = lines[k])
  BY <1>2
<1>4. InOrder(s)
  <2> SUFFICES ASSUME NEW i \in DOMAIN s, NEW k \in DOMAIN s, i < k, s[i].from = s[k].from
               PROVE  s[i].n < s[k].n
    BY DEF InOrder
  <2>1. i \in 1 .. Len(lines) /\ i \in DOMAIN lines /\ s[i] = lines[i]
    BY <1>2
  <2>2. CASE k = Len(lines) + 1
    <3>1. s[k] = x /\ lines[i].from = t
      BY <1>1, <1>2, <2>1, <2>2
    <3>2. lines[i].n <= calls[t] /\ lines[i].n # calls[t]
      BY <2>1, <3>1 DEF Earlier
    <3>3. lines[i].n \in Nat /\ calls[t] \in Nat
      BY <2>1, LineFacts DEF TimeTypeOK
    <3> QED BY <1>1, <2>1, <3>1, <3>2, <3>3
  <2>3. CASE k # Len(lines) + 1
    <3>1. k \in DOMAIN lines /\ s[k] = lines[k]
      BY <1>2, <2>3
    <3> QED BY <2>1, <3>1 DEF InOrder
  <2> QED BY <2>2, <2>3
<1> QED BY <1>1, <1>3, <1>4 DEF s, x

\* Before the logger is initialized there is nothing in the outputs.
LEMMA InitOutput == Init => OutputInv
<1> SUFFICES ASSUME Init PROVE OutputInv
  OBVIOUS
<1>1. console = <<>> /\ file = <<>> /\ \A t \in Threads : pc[t] = "idle" /\ calls[t] = 0 /\ call[t].level = 0
  BY DEF Init
<1>2. CallInv
  BY <1>1, LoggerAssumption, EmptySeq DEF Init, CallInv
<1>3. OrderInv
  BY <1>1 DEF OrderInv, InOrder, Earlier
<1>4. Untouched
  <2>1. ConsoleComplete
    <3>1. \A t \in Threads, n \in Nat : ~Printed(t, n)
      <4> SUFFICES ASSUME NEW t \in Threads, NEW n \in Nat PROVE ~Printed(t, n)
        OBVIOUS
      <4>1. Logged(t) = 1 .. calls[t] /\ calls[t] = 0 /\ pc[t] # "file"
        BY <1>1 DEF Logged
      <4>2. n \notin 1 .. 0
        OBVIOUS
      <4> QED BY <4>1, <4>2 DEF Printed
    <3> QED BY <1>1, <3>1 DEF ConsoleComplete
  <2>2. FileFollows
    BY <1>1 DEF FileFollows
  <2> QED BY <2>1, <2>2 DEF Untouched, Init
<1> QED BY <1>2, <1>3, <1>4 DEF OutputInv

\* A thread moves on and prints nothing: it stays on the same side of the two steps that
\* print, or write() returns early because a setter has raised the level.
LEMMA MoveOn ==
  ASSUME RaceInv, OutputInv, NEW t \in Threads, NEW s \in Steps, pc' = [pc EXCEPT ![t] = s],
         pc[t] # "idle",
         \/ pc[t] \in Unwritten /\ s \in Unwritten
         \/ pc[t] \notin Unwritten \cup {"file"} /\ s \notin Unwritten \cup {"file"}
         \/ pc[t] \in Unwritten /\ s = "written" /\ settings # 0,
         UNCHANGED <<phase, call, calls, configVars, console, file, settings>>,
         \A u \in Threads : pc[u] = "file" => Line(u)' = Line(u)
  PROVE  OutputInv'
<1>1. TimeTypeOK /\ CallInv /\ OrderInv /\ Untouched
  BY DEF OutputInv, RaceInv
<1>2. pc'[t] = s /\ \A u \in Threads : u # t => pc'[u] = pc[u]
  BY <1>1 DEF TimeTypeOK
<1>3. CallInv'
  BY <1>1, <1>2 DEF CallInv
<1>4. OrderInv'
  <2>1. ASSUME NEW W \in {Unwritten, Unwritten \cup {"file"}}, NEW u, pc[u] \notin W
        PROVE  u \in Threads => pc'[u] \notin W
    BY <1>2, <2>1 DEF Unwritten
  <2>2. console \in Seq(Lines) /\ file \in Seq(Lines)
    BY <1>1 DEF CallInv, TimeTypeOK
  <2>3. ASSUME NEW lines \in Seq(Lines), NEW k \in DOMAIN lines PROVE lines[k].from \in Threads
    BY LineFacts
  <2>4. Earlier(console, Unwritten)'
    BY <1>1, <2>1, <2>2, <2>3 DEF OrderInv, Earlier
  <2>5. Earlier(file, Unwritten \cup {"file"})'
    BY <1>1, <2>1, <2>2, <2>3 DEF OrderInv, Earlier
  <2>6. InOrder(console)' /\ InOrder(file)'
    BY <1>1 DEF OrderInv, InOrder
  <2> QED BY <2>4, <2>5, <2>6 DEF OrderInv
<1>5. Untouched'
  <2> SUFFICES ASSUME settings' = 0
               PROVE  /\ minLevel' = 0 /\ consoleEnabled' /\ (fileEnabled' <=> fileOpen')
                      /\ ConsoleComplete' /\ (fileOpen' => FileFollows')
    BY DEF Untouched
  <2>1. /\ minLevel = 0 /\ consoleEnabled /\ (fileEnabled <=> fileOpen)
        /\ ConsoleComplete /\ (fileOpen => FileFollows) /\ settings = 0
    BY <1>1 DEF Untouched
  <2>2. \A u \in Threads : /\ pc'[u] \in Unwritten <=> pc[u] \in Unwritten
                           /\ pc'[u] = "file" <=> pc[u] = "file"
    BY <1>2, <2>1 DEF Unwritten
  <2>3. \A u \in Threads : Logged(u)' = Logged(u)
    <3>1. \A u \in Threads : pc[u] \in Steps /\ pc'[u] \in Steps
      BY <1>1, <1>2 DEF TimeTypeOK
    <3> QED BY <2>2, <3>1 DEF Logged, Steps, Unwritten
  <2>4. \A u \in Threads : \A n : Printed(u, n)' <=> Printed(u, n)
    BY <2>2, <2>3 DEF Printed
  <2>5. \A k \in DOMAIN console : console[k].from \in Threads
    BY <1>1, LineFacts DEF CallInv
  <2>6. ConsoleComplete'
    BY <2>1, <2>4, <2>5 DEF ConsoleComplete
  <2>7. fileOpen' => FileFollows'
    BY <2>1, <2>2 DEF FileFollows, configVars
  <2> QED BY <2>1, <2>6, <2>7 DEF configVars
<1> QED BY <1>3, <1>4, <1>5 DEF OutputInv

\* A call begins: its line is not due, and what the thread has printed is of earlier calls.
LEMMA CallOutput ==
  ASSUME RaceInv, OutputInv, NEW t \in Threads, Call(t)
  PROVE  OutputInv'
<1>1. TimeTypeOK /\ CallInv /\ OrderInv /\ Untouched
  BY DEF OutputInv, RaceInv
<1>2. /\ phase = "running" /\ pc[t] = "idle" /\ calls[t] < MaxCalls
      /\ calls' = [calls EXCEPT ![t] = @ + 1] /\ pc' = [pc EXCEPT ![t] = "write"]
      /\ UNCHANGED <<phase, minLevel, consoleEnabled, fileEnabled, fileOpen, now, stamp, raced,
                     console, file, settings>>
  BY DEF Call, configVars, timeVars, outputs
<1>3. /\ pc'[t] = "write" /\ calls'[t] = calls[t] + 1 /\ calls[t] \in Nat
      /\ \A u \in Threads : u # t => pc'[u] = pc[u] /\ calls'[u] = calls[u]
      /\ \A u \in Threads : calls[u] \in Nat
  BY <1>1, <1>2 DEF TimeTypeOK
<1>4. \A u \in Threads : call'[u].level \in Nat
  <2>1. PICK level \in Levels : \E push \in BOOLEAN :
           call' = [call EXCEPT ![t] = [level |-> level, push |-> push]]
    BY DEF Call
  <2>2. PICK push \in BOOLEAN : call' = [call EXCEPT ![t] = [level |-> level, push |-> push]]
    BY <2>1
  <2> QED BY <1>1, <2>2, LoggerAssumption DEF CallInv
<1>5. CallInv'
  <2>1. MaxCalls \in Nat
    BY LoggerAssumption
  <2>2. \A u \in Threads : calls'[u] <= MaxCalls /\ (pc'[u] # "idle" => calls'[u] >= 1)
    BY <1>1, <1>2, <1>3, <2>1 DEF CallInv
  <2> QED BY <1>1, <1>2, <1>4, <2>2 DEF CallInv
<1>6. ASSUME NEW lines \in Seq(Lines), NEW W, pc[t] \notin W, Earlier(lines, W)
      PROVE  \A k \in DOMAIN lines :
                /\ lines[k].n <= calls'[lines[k].from]
                /\ pc'[lines[k].from] \in W => lines[k].n # calls'[lines[k].from]
  <2> SUFFICES ASSUME NEW k \in DOMAIN lines
               PROVE  /\ lines[k].n <= calls'[lines[k].from]
                      /\ pc'[lines[k].from] \in W => lines[k].n # calls'[lines[k].from]
    OBVIOUS
  <2>1. lines[k].from \in Threads /\ lines[k].n \in Nat
    BY LineFacts
  <2>2. lines[k].n <= calls[lines[k].from] /\ (pc[lines[k].from] \in W => lines[k].n # calls[lines[k].from])
    BY <1>6 DEF Earlier
  <2>3. CASE lines[k].from = t
    BY <1>3, <2>1, <2>2, <2>3
  <2>4. CASE lines[k].from # t
    BY <1>3, <2>1, <2>2, <2>4
  <2> QED BY <2>3, <2>4
<1>7. OrderInv'
  <2>1. pc[t] \notin Unwritten /\ pc[t] \notin Unwritten \cup {"file"}
    BY <1>2 DEF Unwritten
  <2>2. console \in Seq(Lines) /\ file \in Seq(Lines)
    BY <1>1 DEF CallInv, TimeTypeOK
  <2>3. Earlier(console, Unwritten)'
    BY <1>1, <1>2, <1>6, <2>1, <2>2 DEF OrderInv, Earlier
  <2>4. Earlier(file, Unwritten \cup {"file"})'
    BY <1>1, <1>2, <1>6, <2>1, <2>2 DEF OrderInv, Earlier
  <2>5. InOrder(console)' /\ InOrder(file)'
    BY <1>1, <1>2 DEF OrderInv, InOrder
  <2> QED BY <2>3, <2>4, <2>5 DEF OrderInv
<1>8. Untouched'
  <2> SUFFICES ASSUME settings' = 0
               PROVE  /\ minLevel' = 0 /\ consoleEnabled' /\ (fileEnabled' <=> fileOpen')
                      /\ ConsoleComplete' /\ (fileOpen' => FileFollows')
    BY DEF Untouched
  <2>1. /\ minLevel = 0 /\ consoleEnabled /\ (fileEnabled <=> fileOpen)
        /\ ConsoleComplete /\ (fileOpen => FileFollows)
    BY <1>1, <1>2 DEF Untouched
  <2>2. \A u \in Threads, n \in Nat : Printed(u, n)' <=> Printed(u, n)
    <3> SUFFICES ASSUME NEW u \in Threads, NEW n \in Nat PROVE Printed(u, n)' <=> Printed(u, n)
      OBVIOUS
    <3>1. CASE u = t
      <4>1. Logged(t) = 1 .. calls[t] /\ Logged(t)' = 1 .. calls[t]
        <5>1. calls'[t] - 1 = calls[t] /\ pc'[t] = "write"
          BY <1>3
        <5>2. Logged(t)' = 1 .. calls'[t] - 1
          BY <5>1 DEF Logged
        <5>3. Logged(t)' = 1 .. calls[t]
          BY <5>1, <5>2
        <5>4. Logged(t) = 1 .. calls[t]
          BY <1>2 DEF Logged
        <5> QED BY <5>3, <5>4
      <4> QED BY <1>2, <1>3, <3>1, <4>1 DEF Printed
    <3>2. CASE u # t
      BY <1>3, <3>2 DEF Printed, Logged
    <3> QED BY <3>1, <3>2
  <2>3. \A k \in DOMAIN console : console[k].from \in Threads /\ console[k].n \in Nat
    BY <1>1, LineFacts DEF CallInv
  <2>4. ConsoleComplete'
    BY <1>2, <2>1, <2>2, <2>3 DEF ConsoleComplete
  <2>5. fileOpen' => FileFollows'
    BY <1>2, <1>3, <2>1 DEF FileFollows, Line
  <2> QED BY <1>2, <2>1, <2>4, <2>5
<1> QED BY <1>5, <1>7, <1>8 DEF OutputInv

\* The steps of a call that print nothing.
LEMMA SilentSteps ==
  ASSUME RaceInv, OutputInv, NEW t \in Threads,
         \/ CheckLevel(t) \/ Lock(t) \/ Localtime(t) \/ ReadField(t)
         \/ Written(t) \/ Push(t) \/ PushEnds(t)
  PROVE  OutputInv'
<1>1. TimeTypeOK /\ CallInv /\ OrderInv /\ Untouched
  BY DEF OutputInv, RaceInv
<1>2. UNCHANGED <<phase, call, calls, configVars, console, file, settings>>
  BY DEF CheckLevel, Lock, Localtime, ReadField, Written, Push, PushEnds, outputs
<1>3. \A u \in Threads : pc[u] = "file" => Line(u)' = Line(u)
  <2> SUFFICES ASSUME NEW u \in Threads, pc[u] = "file" PROVE Line(u)' = Line(u)
    OBVIOUS
  <2>1. calls' = calls
    BY <1>2
  <2>2. now'[u] = now[u] /\ stamp'[u] = stamp[u] /\ raced'[u] = raced[u]
    <3>1. CASE CheckLevel(t) \/ Lock(t) \/ Written(t) \/ Push(t) \/ PushEnds(t)
      BY <3>1 DEF CheckLevel, Lock, Written, Push, PushEnds, timeVars
    <3>2. CASE Localtime(t)
      <4>1. u # t /\ pc[u] \notin Reading
        BY <3>2 DEF Localtime, Reading
      <4> QED BY <1>1, <3>2, <4>1 DEF Localtime, TimeTypeOK
    <3>3. CASE ReadField(t)
      <4>1. u # t
        BY <3>3 DEF ReadField, Reading
      <4> QED BY <1>1, <3>3, <4>1 DEF ReadField, TimeTypeOK
    <3> QED BY <3>1, <3>2, <3>3
  <2> QED BY <2>1, <2>2 DEF Line
<1>4. PICK s \in Steps :
         /\ pc' = [pc EXCEPT ![t] = s] /\ pc[t] # "idle"
         /\ \/ pc[t] \in Unwritten /\ s \in Unwritten
            \/ pc[t] \notin Unwritten \cup {"file"} /\ s \notin Unwritten \cup {"file"}
            \/ pc[t] \in Unwritten /\ s = "written" /\ settings # 0
  <2>1. CASE CheckLevel(t)
    <3>1. CASE settings # 0
      BY <2>1, <3>1 DEF CheckLevel, Unwritten, Steps
    <3>2. CASE settings = 0
      <4>1. minLevel = 0 /\ call[t].level \in Nat
        BY <1>1, <3>2 DEF Untouched, CallInv
      <4>2. ~(call[t].level < minLevel)
        BY <4>1
      <4> QED BY <2>1, <4>2 DEF CheckLevel, Unwritten, Steps
    <3> QED BY <3>1, <3>2
  <2>2. CASE Lock(t)
    BY <2>2 DEF Lock, Unwritten, Steps
  <2>3. CASE Localtime(t)
    BY <2>3 DEF Localtime, Unwritten, Steps
  <2>4. CASE ReadField(t)
    BY <2>4 DEF ReadField, Reading, AfterField, Unwritten, Steps
  <2>5. CASE Written(t)
    BY <2>5 DEF Written, Unwritten, Steps
  <2>6. CASE Push(t) \/ PushEnds(t)
    BY <2>6 DEF Push, PushEnds, Unwritten, Steps
  <2> QED BY <2>1, <2>2, <2>3, <2>4, <2>5, <2>6
<1> QED BY <1>2, <1>3, <1>4, MoveOn

\* The line goes to the console: the console is ahead of the file by it.
LEMMA ConsoleOutput ==
  ASSUME RaceInv, OutputInv, NEW t \in Threads, WriteConsole(t)
  PROVE  OutputInv'
<1> DEFINE x == Line(t)
<1>1. TimeTypeOK /\ MutexInv /\ CallInv /\ OrderInv /\ Untouched
  BY DEF OutputInv, RaceInv
<1>2. /\ pc[t] = "console" /\ pc' = [pc EXCEPT ![t] = "file"]
      /\ console' = IF consoleEnabled THEN Append(console, x) ELSE console
      /\ UNCHANGED <<phase, call, calls, minLevel, consoleEnabled, fileEnabled, fileOpen,
                     now, stamp, raced, file, settings>>
  BY DEF WriteConsole, configVars, timeVars
<1>3. /\ pc'[t] = "file" /\ \A u \in Threads : u # t => pc'[u] = pc[u]
      /\ \A u \in Threads : calls[u] \in Nat
  BY <1>1, <1>2 DEF TimeTypeOK
<1>4. console \in Seq(Lines) /\ file \in Seq(Lines)
  BY <1>1 DEF CallInv, TimeTypeOK
<1>5. x \in Lines /\ x.from = t /\ x.n = calls[t]
  BY <1>1 DEF TimeTypeOK, Line, Lines
<1>6. /\ InOrder(Append(console, x))
      /\ \A k \in DOMAIN Append(console, x) :
              \/ Append(console, x)[k] = x
              \/ k \in DOMAIN console /\ Append(console, x)[k] = console[k]
  <2>1. pc[t] \in Unwritten
    BY <1>2 DEF Unwritten
  <2>2. InOrder(console) /\ Earlier(console, Unwritten)
    BY <1>1 DEF OrderInv
  <2> QED BY <1>1, <1>4, <2>1, <2>2, OrderedAppend
<1>7. /\ Append(console, x) \in Seq(Lines)
      /\ DOMAIN Append(console, x) = 1 .. Len(console) + 1
      /\ DOMAIN console = 1 .. Len(console) /\ Len(console) \in Nat
      /\ \A k \in 1 .. Len(console) : Append(console, x)[k] = console[k]
      /\ Append(console, x)[Len(console) + 1] = x
  BY <1>1, <1>4, <1>5, NewLine
<1>8. phase # "start"
  BY <1>1, <1>2 DEF CallInv
<1>9. \A u \in Threads : Line(u)' = Line(u)
  BY <1>2 DEF Line
<1> DEFINE added == Append(console, x)
<1> HIDE DEF x, added
<1>10. console' = added \/ console' = console
  BY <1>2 DEF added
<1>11. CallInv'
  <2>1. console' \in Seq(Lines)
    BY <1>4, <1>7, <1>10 DEF added
  <2>2. \A u \in Threads : pc'[u] # "idle" => pc[u] # "idle"
    BY <1>2, <1>3
  <2> QED BY <1>1, <1>2, <1>8, <2>1, <2>2 DEF CallInv
<1>12. OrderInv'
  <2>1. InOrder(console)'
    BY <1>1, <1>6, <1>10 DEF OrderInv, added, InOrder
  <2>2. InOrder(file)'
    BY <1>1, <1>2 DEF OrderInv, InOrder
  <2>3. ASSUME NEW k \in DOMAIN console'
        PROVE  /\ console'[k].n <= calls'[console'[k].from]
               /\ pc'[console'[k].from] \in Unwritten => console'[k].n # calls'[console'[k].from]
    <3>1. console'[k] = x \/ (k \in DOMAIN console /\ console'[k] = console[k])
      BY <1>6, <1>10, <2>3 DEF added
    <3>2. CASE console'[k] = x
      BY <1>2, <1>3, <1>5, <3>2 DEF Unwritten
    <3>3. CASE k \in DOMAIN console /\ console'[k] = console[k]
      <4>1. console[k].from \in Threads /\ console[k].n \in Nat
        BY <1>4, <3>3, LineFacts
      <4>2. /\ console[k].n <= calls[console[k].from]
            /\ pc[console[k].from] \in Unwritten => console[k].n # calls[console[k].from]
        BY <1>1, <3>3 DEF OrderInv, Earlier
      <4>3. pc'[console[k].from] \in Unwritten => pc[console[k].from] \in Unwritten
        BY <1>3, <4>1 DEF Unwritten
      <4> QED BY <1>2, <3>3, <4>2, <4>3
    <3> QED BY <3>1, <3>2, <3>3
  <2>4. Earlier(console, Unwritten)'
    BY <2>3 DEF Earlier
  <2>5. Earlier(file, Unwritten \cup {"file"})'
    <3>1. Earlier(file, Unwritten \cup {"file"})
      BY <1>1 DEF OrderInv
    <3>2. \A u \in Threads : pc'[u] \in Unwritten \cup {"file"} => pc[u] \in Unwritten \cup {"file"}
      BY <1>2, <1>3 DEF Unwritten
    <3>3. \A k \in DOMAIN file : file[k].from \in Threads
      BY <1>4, LineFacts
    <3> QED BY <1>2, <3>1, <3>2, <3>3 DEF Earlier
  <2> QED BY <2>1, <2>2, <2>4, <2>5 DEF OrderInv
<1>13. Untouched'
  <2> SUFFICES ASSUME settings' = 0
               PROVE  /\ minLevel' = 0 /\ consoleEnabled' /\ (fileEnabled' <=> fileOpen')
                      /\ ConsoleComplete' /\ (fileOpen' => FileFollows')
    BY DEF Untouched
  <2>1. /\ minLevel = 0 /\ consoleEnabled /\ (fileEnabled <=> fileOpen)
        /\ ConsoleComplete /\ (fileOpen => FileFollows)
    BY <1>1, <1>2 DEF Untouched
  <2>2. console' = added
    BY <1>2, <2>1 DEF added
  <2>3. \A u \in Threads, n \in Nat : Printed(u, n)' <=> Printed(u, n) \/ (u = t /\ n = calls[t])
    <3> SUFFICES ASSUME NEW u \in Threads, NEW n \in Nat
                 PROVE  Printed(u, n)' <=> Printed(u, n) \/ (u = t /\ n = calls[t])
      OBVIOUS
    <3>1. CASE u = t
      <4>1. Logged(t)' = Logged(t)
        BY <1>2, <1>3 DEF Logged
      <4> QED BY <1>2, <1>3, <3>1, <4>1 DEF Printed
    <3>2. CASE u # t
      BY <1>2, <1>3, <3>2 DEF Printed, Logged
    <3> QED BY <3>1, <3>2
  <2>4. ASSUME NEW u \in Threads, NEW n \in Nat, NEW k \in DOMAIN console',
               console'[k].from = u, console'[k].n = n
        PROVE  Printed(u, n)'
    <3>1. CASE console'[k] = x
      BY <1>5, <2>3, <2>4, <3>1
    <3>2. CASE k \in DOMAIN console /\ console'[k] = console[k]
      <4>1. Printed(u, n)
        BY <2>1, <2>4, <3>2 DEF ConsoleComplete
      <4> QED BY <2>3, <4>1
    <3> QED BY <1>6, <2>2, <2>4, <3>1, <3>2 DEF added
  <2>5. ASSUME NEW u \in Threads, NEW n \in Nat, Printed(u, n)'
        PROVE  \E k \in DOMAIN console' : console'[k].from = u /\ console'[k].n = n
    <3>1. CASE u = t /\ n = calls[t]
      <4>1. Len(console) + 1 \in DOMAIN console' /\ console'[Len(console) + 1] = x
        BY <1>7, <2>2 DEF added
      <4> QED BY <1>5, <3>1, <4>1
    <3>2. CASE Printed(u, n)
      <4>1. PICK k \in DOMAIN console : console[k].from = u /\ console[k].n = n
        BY <2>1, <3>2 DEF ConsoleComplete
      <4>2. k \in DOMAIN console' /\ console'[k] = console[k]
        BY <1>7, <2>2 DEF added
      <4> QED BY <4>1, <4>2
    <3> QED BY <2>3, <2>5, <3>1, <3>2
  <2>6. ConsoleComplete'
    BY <2>4, <2>5 DEF ConsoleComplete
  <2>7. fileOpen' => FileFollows'
    <3> SUFFICES ASSUME fileOpen' PROVE FileFollows'
      OBVIOUS
    <3>1. FileFollows
      BY <1>2, <2>1
    <3>2. \A u \in Threads : pc[u] # "file"
      BY <1>1, <1>2 DEF MutexInv, Critical
    <3>3. file = console
      BY <3>1, <3>2 DEF FileFollows
    <3>4. console' = Append(file', Line(t)')
      BY <1>2, <1>9, <2>2, <3>3 DEF added, x
    <3>5. \A u \in Threads : pc'[u] = "file" => u = t
      BY <1>3, <3>2
    <3> QED BY <1>3, <3>4, <3>5 DEF FileFollows
  <2> QED BY <1>2, <2>1, <2>6, <2>7
<1> QED BY <1>11, <1>12, <1>13 DEF OutputInv

\* The line goes to the file: the file has caught up with the console.
LEMMA FileOutput ==
  ASSUME RaceInv, OutputInv, NEW t \in Threads, WriteFile(t)
  PROVE  OutputInv'
<1> DEFINE x == Line(t)
           added == Append(file, x)
<1>1. TimeTypeOK /\ MutexInv /\ CallInv /\ OrderInv /\ Untouched
  BY DEF OutputInv, RaceInv
<1>2. /\ pc[t] = "file" /\ pc' = [pc EXCEPT ![t] = "written"]
      /\ file' = IF fileEnabled /\ fileOpen THEN added ELSE file
      /\ UNCHANGED <<phase, call, calls, minLevel, consoleEnabled, fileEnabled, fileOpen,
                     now, stamp, raced, console, settings>>
  BY DEF WriteFile, configVars, timeVars
<1>3. /\ pc'[t] = "written" /\ \A u \in Threads : u # t => pc'[u] = pc[u]
      /\ \A u \in Threads : calls[u] \in Nat
  BY <1>1, <1>2 DEF TimeTypeOK
<1>4. console \in Seq(Lines) /\ file \in Seq(Lines)
  BY <1>1 DEF CallInv, TimeTypeOK
<1>5. x \in Lines /\ x.from = t /\ x.n = calls[t]
  BY <1>1 DEF TimeTypeOK, Line, Lines
<1>6. /\ InOrder(added)
      /\ \A k \in DOMAIN added : added[k] = x \/ (k \in DOMAIN file /\ added[k] = file[k])
  <2> DEFINE W == Unwritten \cup {"file"}
  <2>1. pc[t] \in W
    BY <1>2
  <2>2. InOrder(file) /\ Earlier(file, W)
    BY <1>1 DEF OrderInv
  <2> HIDE DEF W
  <2> QED BY <1>1, <1>4, <2>1, <2>2, OrderedAppend
<1>7. phase # "start" /\ calls[t] >= 1
  BY <1>1, <1>2 DEF CallInv
<1> HIDE DEF x, added
<1>8. CallInv'
  <2>1. \A u \in Threads : pc'[u] # "idle" => pc[u] # "idle"
    BY <1>2, <1>3
  <2> QED BY <1>1, <1>2, <1>7, <2>1 DEF CallInv
<1>9. OrderInv'
  <2>1. InOrder(file)' /\ InOrder(console)'
    <3>1. InOrder(console)'
      BY <1>1, <1>2 DEF OrderInv, InOrder
    <3>2. CASE file' = added
      BY <1>6, <3>1, <3>2 DEF InOrder
    <3>3. CASE file' = file
      BY <1>1, <3>1, <3>3 DEF OrderInv, InOrder
    <3> QED BY <1>2, <3>2, <3>3
  <2>2. Earlier(console, Unwritten)'
    <3>1. Earlier(console, Unwritten)
      BY <1>1 DEF OrderInv
    <3>2. \A u \in Threads : pc'[u] \in Unwritten => pc[u] \in Unwritten
      BY <1>3 DEF Unwritten
    <3>3. \A k \in DOMAIN console : console[k].from \in Threads
      BY <1>4, LineFacts
    <3> QED BY <1>2, <3>1, <3>2, <3>3 DEF Earlier
  <2>3. ASSUME NEW k \in DOMAIN file'
        PROVE  /\ file'[k].n <= calls'[file'[k].from]
               /\ pc'[file'[k].from] \in Unwritten \cup {"file"} => file'[k].n # calls'[file'[k].from]
    <3>1. file'[k] = x \/ (k \in DOMAIN file /\ file'[k] = file[k])
      BY <1>2, <1>6, <2>3
    <3>2. CASE file'[k] = x
      BY <1>2, <1>3, <1>5, <3>2 DEF Unwritten
    <3>3. CASE k \in DOMAIN file /\ file'[k] = file[k]
      <4>1. file[k].from \in Threads /\ file[k].n \in Nat
        BY <1>4, <3>3, LineFacts
      <4>2. /\ file[k].n <= calls[file[k].from]
            /\ pc[file[k].from] \in Unwritten \cup {"file"} => file[k].n # calls[file[k].from]
        BY <1>1, <3>3 DEF OrderInv, Earlier
      <4>3. pc'[file[k].from] \in Unwritten \cup {"file"} => pc[file[k].from] \in Unwritten \cup {"file"}
        BY <1>3, <4>1 DEF Unwritten
      <4> QED BY <1>2, <3>3, <4>2, <4>3
    <3> QED BY <3>1, <3>2, <3>3
  <2>4. Earlier(file, Unwritten \cup {"file"})'
    BY <2>3 DEF Earlier
  <2> QED BY <2>1, <2>2, <2>4 DEF OrderInv
<1>10. Untouched'
  <2> SUFFICES ASSUME settings' = 0
               PROVE  /\ minLevel' = 0 /\ consoleEnabled' /\ (fileEnabled' <=> fileOpen')
                      /\ ConsoleComplete' /\ (fileOpen' => FileFollows')
    BY DEF Untouched
  <2>1. /\ minLevel = 0 /\ consoleEnabled /\ (fileEnabled <=> fileOpen)
        /\ ConsoleComplete /\ (fileOpen => FileFollows)
    BY <1>1, <1>2 DEF Untouched
  <2>2. ASSUME NEW u \in Threads, NEW n \in Nat PROVE Printed(u, n)' <=> Printed(u, n)
    <3>1. CASE u = t
      <4>1. Logged(t) = 1 .. calls[t] - 1 /\ Logged(t)' = 1 .. calls[t]
        BY <1>2, <1>3 DEF Logged
      <4>2. n \in 1 .. calls[t] <=> n \in 1 .. calls[t] - 1 \/ n = calls[t]
        BY <1>3, <1>7
      <4> QED BY <1>2, <1>3, <3>1, <4>1, <4>2 DEF Printed
    <3>2. CASE u # t
      BY <1>2, <1>3, <3>2 DEF Printed, Logged
    <3> QED BY <3>1, <3>2
  <2>3. ConsoleComplete'
    BY <1>2, <2>1, <2>2 DEF ConsoleComplete
  <2>4. fileOpen' => FileFollows'
    <3> SUFFICES ASSUME fileOpen' PROVE FileFollows'
      OBVIOUS
    <3>1. FileFollows /\ file' = added
      BY <1>2, <2>1
    <3>2. \A u \in Threads : u # t => pc[u] # "file"
      BY <1>1, <1>2 DEF MutexInv, Critical
    <3>3. console = added
      BY <1>2, <3>1 DEF FileFollows, added, x
    <3>4. \A u \in Threads : pc'[u] # "file"
      BY <1>3, <3>2
    <3> QED BY <1>2, <3>1, <3>3, <3>4 DEF FileFollows
  <2> QED BY <1>2, <2>1, <2>3, <2>4
<1> QED BY <1>8, <1>9, <1>10 DEF OutputInv

\* Start, the clock, the setters and stuttering print nothing.
LEMMA OtherOutput ==
  ASSUME RaceInv, OutputInv,
         \/ Initialize \/ InitWithLoki \/ Tick \/ UNCHANGED vars
         \/ \E level \in Levels : SetLevel(level)
         \/ \E enabled \in BOOLEAN : EnableConsole(enabled) \/ EnableFile(enabled)
  PROVE  OutputInv'
<1>1. CallInv /\ OrderInv /\ Untouched
  BY DEF OutputInv
<1>2. UNCHANGED <<pc, call, calls, now, stamp, raced, console, file>>
  BY DEF Initialize, InitWithLoki, Tick, SetLevel, EnableConsole, EnableFile, Setter, vars,
         threadVars, timeVars, outputs
<1>3. phase' = "start" => phase = "start"
  BY DEF Initialize, InitWithLoki, Tick, SetLevel, EnableConsole, EnableFile, Setter, vars
<1>4. settings' \in Nat
  BY <1>1 DEF CallInv, Initialize, InitWithLoki, Tick, SetLevel, EnableConsole, EnableFile, Setter, vars
<1>5. CallInv'
  BY <1>1, <1>2, <1>3, <1>4 DEF CallInv
<1>6. OrderInv'
  BY <1>1, <1>2 DEF OrderInv, InOrder, Earlier
<1>7. ConsoleComplete' <=> ConsoleComplete
  BY <1>2 DEF ConsoleComplete, Printed, Logged
<1>8. FileFollows' <=> FileFollows
  BY <1>2 DEF FileFollows, Line
<1>9. Untouched'
  <2>1. CASE Initialize
    <3>1. /\ phase = "start" /\ minLevel' = 0 /\ consoleEnabled' = TRUE /\ settings' = settings
          /\ \E opens \in BOOLEAN : fileOpen' = opens /\ fileEnabled' = opens
      BY <2>1 DEF Initialize
    <3>2. FileFollows
      BY <1>1, <3>1 DEF CallInv, FileFollows
    <3> QED BY <1>1, <1>7, <1>8, <3>1, <3>2 DEF Untouched
  <2>2. CASE InitWithLoki \/ Tick \/ UNCHANGED vars
    <3>1. UNCHANGED <<settings, minLevel, consoleEnabled, fileEnabled, fileOpen>>
      BY <2>2 DEF InitWithLoki, Tick, configVars, vars
    <3> QED BY <1>1, <1>7, <1>8, <3>1 DEF Untouched
  <2>3. CASE \/ \E level \in Levels : SetLevel(level)
             \/ \E enabled \in BOOLEAN : EnableConsole(enabled) \/ EnableFile(enabled)
    <3>1. settings' = settings + 1 /\ settings \in Nat
      BY <1>1, <2>3 DEF CallInv, SetLevel, EnableConsole, EnableFile, Setter
    <3> QED BY <3>1 DEF Untouched
  <2> QED BY <2>1, <2>2, <2>3
<1> QED BY <1>5, <1>6, <1>9 DEF OutputInv

\* Every step keeps both invariants.
LEMMA NextOutput == RaceInv /\ OutputInv /\ [Next]_vars => OutputInv'
<1> SUFFICES ASSUME RaceInv, OutputInv, [Next]_vars PROVE OutputInv'
  OBVIOUS
<1> QED
  BY CallOutput, SilentSteps, ConsoleOutput, FileOutput, OtherOutput DEF Next, Writing

\* What FileFollows says of the file is what the property says of it.
LEMMA FilePrefix ==
  ASSUME RaceInv, OutputInv, FileFollows
  PROVE  \E k \in 0 .. 1 : file = SubSeq(console, 1, Len(console) - k)
<1>1. console \in Seq(Lines) /\ file \in Seq(Lines) /\ TimeTypeOK
  BY DEF RaceInv, OutputInv, CallInv, TimeTypeOK
<1>2. CASE \A t \in Threads : pc[t] # "file"
  <2>1. file = console
    BY <1>2 DEF FileFollows
  <2>2. SubSeq(console, 1, Len(console)) = console
    BY <1>1, SubSeqFull
  <2>3. Len(console) - 0 = Len(console)
    BY <1>1
  <2>4. file = SubSeq(console, 1, Len(console) - 0)
    BY <2>1, <2>2, <2>3, Zenon
  <2>5. 0 \in 0 .. 1
    OBVIOUS
  <2> QED BY <2>4, <2>5, Zenon
<1>3. ASSUME NEW t \in Threads, pc[t] = "file"
      PROVE  \E k \in 0 .. 1 : file = SubSeq(console, 1, Len(console) - k)
  <2> DEFINE x == Line(t)
             r == SubSeq(console, 1, Len(console) - 1)
  <2>1. console = Append(file, x) /\ x \in Lines
    BY <1>1, <1>3 DEF FileFollows, TimeTypeOK, Line, Lines
  <2> HIDE DEF x
  <2>2. /\ Len(file) \in Nat /\ Len(console) = Len(file) + 1
        /\ \A i \in 1 .. Len(file) : console[i] = file[i]
    BY <1>1, <2>1, AppendProperties
  <2>3. \A i \in 1 .. Len(file) : console[i] \in Lines
    BY <1>1, <2>2, ElementOfSeq
  <2>4. Len(console) - 1 = Len(file) /\ Len(file) \in Int /\ 1 \in Int
    BY <2>2
  <2>5. r = SubSeq(console, 1, Len(file))
    BY <2>4
  <2> HIDE DEF r
  <2>6. /\ r \in Seq(Lines)
        /\ Len(r) = IF 1 <= Len(file) THEN Len(file) - 1 + 1 ELSE 0
        /\ \A i \in 1 .. Len(file) - 1 + 1 : r[i] = console[1 + i - 1]
    BY <2>3, <2>4, <2>5, SubSeqProperties
  <2>7. Len(r) = Len(file) /\ \A i \in 1 .. Len(file) : r[i] = console[i]
    BY <2>2, <2>6
  <2>8. \A i \in 1 .. Len(r) : r[i] = file[i]
    BY <2>2, <2>7
  <2>9. r = file
    BY <1>1, <2>6, <2>7, <2>8, SeqEqual
  <2> QED BY <2>9 DEF r
<1> QED BY <1>2, <1>3

\* For any number of threads, calls and settings: the lines of a thread are in the order
\* of its calls on the console and in the file, and until a setter is called the console
\* has exactly the lines of the calls that have passed it, and the file the same lines
\* but for the one being written (logger.h:96-117).
THEOREM OutputsInStep == Spec => []OutputsAgree
<1>1. ASSUME RaceInv, OutputInv PROVE OutputsAgree
  <2>1. InOrder(console) /\ InOrder(file)
    BY <1>1 DEF OutputInv, OrderInv
  <2>2. ASSUME settings = 0
        PROVE  /\ {<<console[k].from, console[k].n>> : k \in DOMAIN console}
                     = {m \in Threads \X (1 .. MaxCalls) :
                           m[2] \in Logged(m[1]) \/ (m[2] = calls[m[1]] /\ pc[m[1]] = "file")}
               /\ fileOpen => \E k \in 0 .. 1 : file = SubSeq(console, 1, Len(console) - k)
    <3>1. ConsoleComplete /\ (fileOpen => FileFollows)
      BY <1>1, <2>2 DEF OutputInv, Untouched
    <3>2. \A k \in DOMAIN console : console[k].from \in Threads /\ console[k].n \in Nat
      BY <1>1, LineFacts DEF OutputInv, CallInv
    <3>3. ASSUME NEW t \in Threads, NEW n \in Nat, Printed(t, n) PROVE n \in 1 .. MaxCalls
      <4>1. calls[t] \in Nat /\ calls[t] <= MaxCalls /\ (pc[t] # "idle" => calls[t] >= 1)
            /\ MaxCalls \in Nat
        BY <1>1, LoggerAssumption DEF RaceInv, TimeTypeOK, OutputInv, CallInv
      <4>2. CASE n = calls[t] /\ pc[t] = "file"
        BY <4>1, <4>2
      <4>3. CASE n \in Logged(t)
        <5>1. Logged(t) = 1 .. calls[t] \/ Logged(t) = 1 .. calls[t] - 1
          BY DEF Logged
        <5>2. n \in 1 .. calls[t] \/ n \in 1 .. calls[t] - 1
          BY <4>3, <5>1
        <5> QED BY <4>1, <5>2
      <4> QED BY <3>3, <4>2, <4>3 DEF Printed
    <3> DEFINE Shown == {<<console[k].from, console[k].n>> : k \in DOMAIN console}
               Due == {m \in Threads \X (1 .. MaxCalls) :
                          m[2] \in Logged(m[1]) \/ (m[2] = calls[m[1]] /\ pc[m[1]] = "file")}
    <3>4. \A t \in Threads, n \in 1 .. MaxCalls : <<t, n>> \in Due <=> Printed(t, n)
      BY DEF Printed
    <3>5. ASSUME NEW m \in Shown PROVE m \in Due
      <4>1. PICK k \in DOMAIN console : m = <<console[k].from, console[k].n>>
        BY <3>5
      <4>2. Printed(console[k].from, console[k].n)
        BY <3>1, <3>2 DEF ConsoleComplete
      <4>3. console[k].n \in 1 .. MaxCalls
        BY <3>2, <3>3, <4>2
      <4> QED BY <3>2, <3>4, <4>1, <4>2, <4>3
    <3>6. ASSUME NEW m \in Due PROVE m \in Shown
      <4>1. PICK t \in Threads, n \in 1 .. MaxCalls : m = <<t, n>>
        OBVIOUS
      <4>2. Printed(t, n) /\ n \in Nat
        BY <3>4, <3>6, <4>1
      <4>3. PICK k \in DOMAIN console : console[k].from = t /\ console[k].n = n
        BY <3>1, <4>2 DEF ConsoleComplete
      <4> QED BY <4>1, <4>3
    <3>7. Shown = Due
      BY <3>5, <3>6, Zenon
    <3> QED BY <1>1, <3>1, <3>7, FilePrefix
  <2> QED BY <2>1, <2>2 DEF OutputsAgree
<1> QED BY <1>1, InitRace, NextRace, InitOutput, NextOutput, PTL DEF Spec

=============================================================================
