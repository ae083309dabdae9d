-------------------------------- MODULE Logger --------------------------------
(***************************************************************************)
(* src/logger.h: the process-wide logger.  write() formats and prints one  *)
(* line under logMutex; the log functions then push the same message to    *)
(* Loki, synchronously and without the mutex.  Both ask                    *)
(* getCurrentTimestamp() for the time, and std::localtime answers with a   *)
(* pointer to one buffer that all the threads share.                       *)
(*                                                                         *)
(* A message is <<thread, n>>, the nth call of the thread.  A time is a    *)
(* number of clock ticks and is broken down into two fields, as localtime  *)
(* breaks it down into tm_hour, tm_min and so on; put_time reads the       *)
(* fields one after the other.                                             *)
(***************************************************************************)
EXTENDS Naturals, Sequences

CONSTANTS
    Threads,        \* the worker threads of the server
    Levels,         \* the log levels in use, DEBUG = 0 .. ERROR = 3
    NoThread,       \* the owner of a free mutex
    MaxCalls,       \* bound: log calls per thread
    MaxTime,        \* bound: ticks of the clock
    MaxSettings     \* bound: calls of the setters

ASSUME LoggerAssumption ==
    /\ NoThread \notin Threads
    /\ Levels \subseteq 0 .. 3 /\ 0 \in Levels
    /\ MaxCalls \in Nat /\ MaxTime \in Nat /\ MaxSettings \in Nat

VARIABLES
    phase,      \* how far the constructor of WebServer has come
    pc,         \* where each thread is
    call,       \* the level of the call, and whether its function pushes
    calls,      \* calls made by each thread
    logMutex,
    minLevel, consoleEnabled, fileEnabled, fileOpen, lokiFormatEnabled,
    tm,         \* the buffer of std::localtime
    now,        \* the time each thread has asked to be broken down
    stamp,      \* the fields that each thread has read so far
    raced,      \* who wrote to tm since the thread did: nobody, a writer, a push
    clock,
    console, file,  \* the lines printed
    pushes,         \* the messages handed to curl
    settings        \* calls of the setters so far

vars == <<phase, pc, call, calls, logMutex, minLevel, consoleEnabled, fileEnabled,
          fileOpen, lokiFormatEnabled, tm, now, stamp, raced, clock, console, file,
          pushes, settings>>
threadVars == <<pc, call, calls>>
configVars == <<minLevel, consoleEnabled, fileEnabled, fileOpen, lokiFormatEnabled>>
timeVars == <<tm, now, stamp, raced>>
outputs == <<console, file, pushes>>

\* The clock starts one tick before the full hour, so that both fields change.
Broken(time) == <<(time + 1) \div 2, (time + 1) % 2>>
Line(t) == [from |-> t, n |-> calls[t], now |-> now[t], stamp |-> stamp[t],
            raced |-> raced[t]]

Init ==
    /\ phase = "start"
    /\ pc = [t \in Threads |-> "idle"]
    /\ call = [t \in Threads |-> [level |-> 0, push |-> FALSE]]
    /\ calls = [t \in Threads |-> 0]
    /\ logMutex = NoThread
    /\ minLevel = 0 /\ consoleEnabled = TRUE
    /\ fileEnabled = FALSE /\ fileOpen = FALSE /\ lokiFormatEnabled = FALSE
    /\ tm = Broken(0)
    /\ now = [t \in Threads |-> 0]
    /\ stamp = [t \in Threads |-> <<>>]
    /\ raced = [t \in Threads |-> {}]
    /\ clock = 0
    /\ console = <<>> /\ file = <<>> /\ pushes = {}
    /\ settings = 0

(***************************************************************************)
(* Start: initWithLoki is called before any worker thread exists.          *)
(***************************************************************************)
\* The log file may fail to open.
Initialize ==
    /\ phase = "start"
    /\ phase' = "initialized"
    /\ \E opens \in BOOLEAN : fileOpen' = opens /\ fileEnabled' = opens
    /\ consoleEnabled' = TRUE /\ lokiFormatEnabled' = FALSE /\ minLevel' = 0
    /\ UNCHANGED <<threadVars, logMutex, timeVars, clock, outputs, settings>>

InitWithLoki ==
    /\ phase = "initialized"
    /\ phase' = "running"
    /\ lokiFormatEnabled' = TRUE
    /\ UNCHANGED <<threadVars, logMutex, minLevel, consoleEnabled, fileEnabled, fileOpen,
                   timeVars, clock, outputs, settings>>

(***************************************************************************)
(* write().                                                                *)
(***************************************************************************)
\* debug ... error only write; logRequest ... logLifecycle also push.
Call(t) ==
    /\ phase = "running" /\ pc[t] = "idle" /\ calls[t] < MaxCalls
    /\ \E level \in Levels, push \in BOOLEAN :
          call' = [call EXCEPT ![t] = [level |-> level, push |-> push]]
    /\ calls' = [calls EXCEPT ![t] = @ + 1]
    /\ pc' = [pc EXCEPT ![t] = "write"]
    /\ UNCHANGED <<phase, logMutex, configVars, timeVars, clock, outputs, settings>>

\* minLevel is read before the mutex is taken.
CheckLevel(t) ==
    /\ pc[t] = "write"
    /\ pc' = [pc EXCEPT ![t] = IF call[t].level < minLevel THEN "written" ELSE "lock"]
    /\ UNCHANGED <<phase, call, calls, logMutex, configVars, timeVars, clock, outputs,
                   settings>>

\* Mutant: write() formats its line before it takes the mutex.
MutantLockNot(t) ==
    /\ pc[t] = "lock"
    /\ logMutex' = logMutex
    /\ pc' = [pc EXCEPT ![t] = "localtime"]
    /\ UNCHANGED <<phase, call, calls, configVars, timeVars, clock, outputs, settings>>

Lock(t) ==
    /\ pc[t] = "lock" /\ logMutex = NoThread
    /\ logMutex' = t
    /\ pc' = [pc EXCEPT ![t] = "localtime"]
    /\ UNCHANGED <<phase, call, calls, configVars, timeVars, clock, outputs, settings>>

\* Where a thread is between std::localtime and the last field put_time reads.
Reading == {"hours", "minutes", "push hours", "push minutes"}

\* getCurrentTimestamp up to std::localtime, for the line and for the push.
Localtime(t) ==
    /\ pc[t] \in {"localtime", "push localtime"}
    /\ now' = [now EXCEPT ![t] = clock]
    /\ tm' = Broken(clock)
    /\ stamp' = [stamp EXCEPT ![t] = <<>>]
    /\ raced' = [u \in Threads |->
          IF u = t THEN {}
          ELSE IF pc[u] \in Reading
               THEN raced[u] \cup {IF pc[t] = "localtime" THEN "writer" ELSE "push"}
               ELSE raced[u]]
    /\ pc' = [pc EXCEPT ![t] = IF @ = "localtime" THEN "hours" ELSE "push hours"]
    /\ UNCHANGED <<phase, call, calls, logMutex, configVars, clock, outputs, settings>>

AfterField(step) ==
    IF step = "hours" THEN "minutes"
    ELSE IF step = "minutes" THEN "console"
    ELSE IF step = "push hours" THEN "push minutes" ELSE "push"

\* put_time: the fields of the buffer, one after the other.
ReadField(t) ==
    /\ pc[t] \in Reading
    /\ stamp' = [stamp EXCEPT ![t] = Append(@, tm[Len(@) + 1])]
    /\ pc' = [pc EXCEPT ![t] = AfterField(@)]
    /\ UNCHANGED <<phase, call, calls, logMutex, configVars, tm, now, raced, clock,
                   outputs, settings>>

\* Mutant: the console is not written when there is a file.
MutantWriteConsole(t) ==
    /\ pc[t] = "console"
    /\ console' = IF consoleEnabled /\ ~fileOpen THEN Append(console, Line(t)) ELSE console
    /\ pc' = [pc EXCEPT ![t] = "file"]
    /\ UNCHANGED <<phase, call, calls, logMutex, configVars, timeVars, clock, file, pushes,
                   settings>>

WriteConsole(t) ==
    /\ pc[t] = "console"
    /\ console' = IF consoleEnabled THEN Append(console, Line(t)) ELSE console
    /\ pc' = [pc EXCEPT ![t] = "file"]
    /\ UNCHANGED <<phase, call, calls, logMutex, configVars, timeVars, clock, file, pushes,
                   settings>>

\* Mutant: the mutex is held until the push has ended.
MutantWriteFileHolds(t) ==
    /\ pc[t] = "file"
    /\ file' = IF fileEnabled /\ fileOpen THEN Append(file, Line(t)) ELSE file
    /\ logMutex' = IF call[t].push THEN t ELSE NoThread
    /\ pc' = [pc EXCEPT ![t] = "written"]
    /\ UNCHANGED <<phase, call, calls, configVars, timeVars, clock, console, pushes,
                   settings>>

\* The line goes to the file, and the mutex is released.
WriteFile(t) ==
    /\ pc[t] = "file"
    /\ file' = IF fileEnabled /\ fileOpen THEN Append(file, Line(t)) ELSE file
    /\ logMutex' = NoThread
    /\ pc' = [pc EXCEPT ![t] = "written"]
    /\ UNCHANGED <<phase, call, calls, configVars, timeVars, clock, console, pushes,
                   settings>>

(***************************************************************************)
(* sendToLoki().                                                           *)
(***************************************************************************)
\* lokiFormatEnabled is read without the mutex; sendToLoki returns at once if
\* curl_easy_init fails.
Written(t) ==
    /\ pc[t] = "written"
    /\ \E sends \in (IF call[t].push /\ lokiFormatEnabled THEN BOOLEAN ELSE {FALSE}) :
          pc' = [pc EXCEPT ![t] = IF sends THEN "push localtime" ELSE "idle"]
    /\ UNCHANGED <<phase, call, calls, logMutex, configVars, timeVars, clock, outputs,
                   settings>>

\* curl_easy_perform starts.
Push(t) ==
    /\ pc[t] = "push"
    /\ pushes' = pushes \cup {<<t, calls[t]>>}
    /\ pc' = [pc EXCEPT ![t] = "curl"]
    /\ UNCHANGED <<phase, call, calls, logMutex, configVars, timeVars, clock, console, file,
                   settings>>

\* Mutant: a push that fails is tried again, for ever.
MutantPushRetries(t) ==
    /\ pc[t] = "curl"
    /\ pc' = [pc EXCEPT ![t] = "push"]
    /\ UNCHANGED <<phase, call, calls, logMutex, configVars, timeVars, clock, outputs,
                   settings>>

\* Loki answers, or refuses, or CURLOPT_TIMEOUT has passed: the result is not used.
PushEnds(t) ==
    /\ pc[t] = "curl"
    /\ pc' = [pc EXCEPT ![t] = "idle"]
    /\ UNCHANGED <<phase, call, calls, logMutex, configVars, timeVars, clock, outputs,
                   settings>>

(***************************************************************************)
(* The setters, each one critical section.                                 *)
(***************************************************************************)
Setter ==
    /\ phase = "running" /\ logMutex = NoThread /\ settings < MaxSettings
    /\ settings' = settings + 1
    /\ UNCHANGED <<phase, threadVars, logMutex, lokiFormatEnabled, timeVars, clock, outputs>>

SetLevel(level) ==
    /\ Setter
    /\ minLevel' = level
    /\ UNCHANGED <<consoleEnabled, fileEnabled, fileOpen>>

EnableConsole(enabled) ==
    /\ Setter
    /\ consoleEnabled' = enabled
    /\ UNCHANGED <<minLevel, fileEnabled, fileOpen>>

\* Enabling opens the file if it is not open, and may fail.
EnableFile(enabled) ==
    /\ Setter
    /\ fileOpen' \in (IF enabled /\ ~fileOpen THEN BOOLEAN ELSE {fileOpen})
    /\ fileEnabled' = (enabled /\ fileOpen')
    /\ UNCHANGED <<minLevel, consoleEnabled>>

Tick ==
    /\ phase = "running" /\ clock < MaxTime
    /\ clock' = clock + 1
    /\ UNCHANGED <<phase, threadVars, logMutex, configVars, timeVars, outputs, settings>>

Writing(t) ==
    \/ CheckLevel(t) \/ Lock(t) \/ Localtime(t) \/ ReadField(t)
    \/ WriteConsole(t) \/ WriteFile(t) \/ Written(t) \/ Push(t)

Next ==
    \/ Initialize \/ InitWithLoki \/ Tick
    \/ \E t \in Threads : Call(t) \/ Writing(t) \/ PushEnds(t)
    \/ \E level \in Levels : SetLevel(level)
    \/ \E enabled \in BOOLEAN : EnableConsole(enabled) \/ EnableFile(enabled)

Spec == Init /\ [][Next]_vars

\* Threads are scheduled and the mutex is handed on.  Nothing is assumed of Loki.
Fairness == \A t \in Threads : WF_vars(Writing(t)) /\ SF_vars(Lock(t))

\* curl gives up after CURLOPT_TIMEOUT.
CurlFairness == \A t \in Threads : WF_vars(PushEnds(t))

(***************************************************************************)
(* Properties.                                                             *)
(***************************************************************************)

\* Inside the critical section of write().
Critical == {"localtime", "hours", "minutes", "console", "file"}

\* logMutex protects the buffer of std::localtime among the calls of write(): a
\* line in the file has the time it was written at unless a push, which asks for the
\* time without the mutex, wrote to the buffer meanwhile (logger.h:65).
OnlyPushesRace ==
    \A k \in DOMAIN file :
        /\ "writer" \notin file[k].raced
        /\ file[k].stamp # Broken(file[k].now) => file[k].raced = {"push"}

\* The lines of a thread are in the order of its calls, each once.
InOrder(lines) ==
    \A i, k \in DOMAIN lines : i < k /\ lines[i].from = lines[k].from => lines[i].n < lines[k].n

\* The calls of t that have left write().
Logged(t) == IF pc[t] \in {"idle", "written", "push localtime", "push hours",
                           "push minutes", "push", "curl"}
             THEN 1 .. calls[t] ELSE 1 .. calls[t] - 1

\* The console and the file show the same lines in the same order, a thread's lines
\* in the order of its calls, and while no setter has been called no line is missing:
\* of all the calls that have left write() and none besides, but for the line that is
\* just being written (logger.h:96-117).
OutputsAgree ==
    /\ InOrder(console) /\ InOrder(file)
    /\ settings = 0 =>
          /\ {<<console[k].from, console[k].n>> : k \in DOMAIN console}
                = {m \in Threads \X (1 .. MaxCalls) :
                      m[2] \in Logged(m[1]) \/ (m[2] = calls[m[1]] /\ pc[m[1]] = "file")}
          /\ fileOpen => \E k \in 0 .. 1 : file = SubSeq(console, 1, Len(console) - k)

\* However slow Loki is, it delays only the thread whose message it was sent: any
\* other thread's line is written even if no push ever ends.
SlowLokiDelaysNoWriter ==
    \A t \in Threads : (pc[t] = "write") ~> (pc[t] = "written")

\* With curl's timeout (logger.h:172) every log call returns.
EveryLogCallReturns ==
    CurlFairness => \A t \in Threads : (pc[t] = "write") ~> (pc[t] = "idle")

=============================================================================
