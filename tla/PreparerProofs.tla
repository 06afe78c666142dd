--------------------------- MODULE PreparerProofs ---------------------------
(***************************************************************************)
(* What the proofs about the three drivers share: the types, the homes of  *)
(* the messages, the log of Preparer and the length of the queue, and what *)
(* the log says about the rows of the database.  A driver's proof shows    *)
(* that its steps are of the kinds named here.                             *)
(***************************************************************************)
EXTENDS Preparer, FiniteSetTheorems, TLAPS

USE DEF dbVars, loopVars, reportVars, flags, queueVars, threadVars,
        tsQueueEmpty, tsQueueSize, Tables, Workers, SelectThread, DriverThreads

-----------------------------------------------------------------------------
(* The kinds of steps, as Prep's and Run's loops see them.                 *)

\* A virtual function of the driver returns, or throws.
Launch ==
  /\ \/ main = "CreateSchema" /\ main' = "Prep" /\ UNCHANGED retval
     \/ main \in {"Prep", "Run"} /\ main' = "startReporter" /\ UNCHANGED retval
     \/ /\ main \in {"CreateSchema", "range"}
        /\ main' = "complete" /\ retval' = "failure"
     \/ main = "range" /\ main' = "aborted" /\ UNCHANGED retval
  /\ UNCHANGED <<loopVars, queueVars, mode>>

\* getTimestampRange returns.
Choice ==
  /\ main = "range"
  /\ startTimestamp' \in Nat \ {0} /\ ts' = startTimestamp'
  /\ main' = IF mode = "prepare" THEN "time" ELSE "Run"
  /\ UNCHANGED <<queueVars, mode, retval>>

\* Another thread takes a message, or does something else, or ends the
\* process.
Elsewhere ==
  /\ main' = main \/ (Alive /\ main' = "aborted")
  /\ popped' \in popped..Len(sent)
  /\ UNCHANGED <<loopVars, sent, mode, retval>>

LoopStep == MainStep \/ Launch \/ Choice \/ Elsewhere \/ Restart
-----------------------------------------------------------------------------
(* Where the main thread is and what its locals are there.                 *)

BeforeLoop == main \in {"CreateSchema", "Prep", "startReporter", "range", "Run"}
InMinute == main \in {"push", "wait_size", "wait_empty"}

\* Between the start of main and the return of getTimestampRange.
NotChosen ==
  main \in {"CreateSchema", "Prep", "range"}
    \/ (main = "startReporter" /\ mode = "prepare")
HasChosen ==
  main \in {"Run", "time", "push", "wait_size", "wait_empty", "joinReporter"}
    \/ (main = "startReporter" /\ mode = "run")

Locals ==
  /\ main \in {"CreateSchema", "Prep", "wait_empty"} => mode = "prepare"
  /\ main = "Run" => mode = "run"
  /\ BeforeLoop => sent = << >> /\ ts = startTimestamp
  /\ NotChosen => startTimestamp = 0
  /\ HasChosen => startTimestamp > 0
  /\ sent # << >> => startTimestamp > 0
  /\ main = "time" => ts >= startTimestamp
  /\ InMinute => /\ ts >= startTimestamp /\ ts < startTimestamp + LoadMins
                 /\ devicesCnt \in 1..MaxDevices /\ dc \in 1..devicesCnt
                 /\ mode = "prepare" => devicesCnt = MaxDevices
                 /\ table_id \in Tables
  /\ main \in {"wait_size", "wait_empty"} => table_id = DBTables
  /\ main = "wait_empty" \/ (main = "wait_size" /\ mode = "run") => dc = devicesCnt
  /\ main \in {"joinReporter", "complete", "JoinThreads", "display", "exited"}
       /\ retval = "success"
     => startTimestamp > 0 /\ ts >= startTimestamp + LoadMins
  /\ retval = "failure" =>
       /\ main \in {"complete", "JoinThreads", "display", "exited", "aborted"}
       /\ sent = << >> /\ startTimestamp = 0 /\ ts = 0

-----------------------------------------------------------------------------
(* The log.                                                                *)

\* What the process may push.
Slots == [ts : startTimestamp..(startTimestamp + LoadMins - 1),
          device_id : 1..MaxDevices, table_id : Tables]

\* The loops have been at x.
Past(x) ==
  \/ x.ts < ts
  \/ /\ InMinute /\ x.ts = ts
     /\ \/ x.device_id < dc
        \/ x.device_id = dc /\ (x.table_id < table_id \/ main # "push")

\* Minute by minute, device by device, table by table.
Earlier(x, y) ==
  \/ x.ts < y.ts
  \/ x.ts = y.ts /\ x.device_id < y.device_id
  \/ x.ts = y.ts /\ x.device_id = y.device_id /\ x.table_id < y.table_id

InWindow == \A i \in 1..Len(sent) : sent[i] \in Slots
InOrder == \A i, j \in 1..Len(sent) : i < j => Earlier(sent[i], sent[j])
OnlyPast == main # "aborted" => \A i \in 1..Len(sent) : Past(sent[i])
Covered ==
  mode = "prepare" /\ main # "aborted" =>
    \A x \in Slots : Past(x) => \E i \in 1..Len(sent) : sent[i] = x

Log == InWindow /\ InOrder /\ OnlyPast /\ Covered
-----------------------------------------------------------------------------
(* The queue.                                                              *)

\* prepare starts each minute with an empty queue.
Barrier ==
  /\ mode = "prepare" =>
       /\ main \notin {"push", "wait_size", "wait_empty", "aborted"} => tsQueueEmpty
       /\ InMinute => \A i \in (popped + 1)..Len(sent) : sent[i].ts = ts
  /\ MinuteBarrier

\* How much each wait has left in the queue, and what was pushed since.
Pressure ==
  /\ mode = "prepare" =>
       /\ main = "push" => tsQueueSize <= LoaderThreads * 2 + table_id - 1
       /\ main \notin {"push", "wait_size", "aborted"} =>
            tsQueueSize <= LoaderThreads * 2
  /\ mode = "run" =>
       /\ main = "push" =>
            tsQueueSize <= LoaderThreads * RunQueueFactor
                             + (dc - 1) * DBTables + table_id - 1
       /\ main \notin {"push", "wait_size", "aborted"} =>
            tsQueueSize <= LoaderThreads * RunQueueFactor
  /\ BackPressure
-----------------------------------------------------------------------------
(* The rows, for the drivers that write the row of each message.           *)

\* What is recorded, or about to be, is in the database.
Written ==
  /\ recorded \subseteq committed
  /\ \A t \in DriverThreads : pc[t] = "record" => hand[t] \in committed

\* A thread is about to write no message a second time.
ExecFresh ==
  Alive => \A w \in Workers : pc[w] = "exec" => hand[w] \notin committed

\* A row is older than the window, or is that of a committed message.
Rows ==
  /\ \A r \in rows : r.table_id \in Tables
  /\ \A c \in committed : RowOf(c) \in rows
  /\ startTimestamp > 0 =>
       \A r \in rows : r.ts < startTimestamp \/ \E c \in committed : r = RowOf(c)
-----------------------------------------------------------------------------
(* The places and the locals of the main thread.                           *)

\* The process starts where Locals holds.
LEMMA InitLocals == Init => Locals
BY ConfigAssumption DEF Init, Entry, Locals, BeforeLoop, InMinute, NotChosen, HasChosen

\* Locals is inductive.
LEMMA LocalsStep ==
  ASSUME ProcessTypeOK, Locals, LoopStep
  PROVE  Locals'
<1> USE ConfigAssumption DEF ProcessTypeOK, MainPlaces, Locals, BeforeLoop,
        InMinute, NotChosen, HasChosen
<1>1. CASE StartReporter BY <1>1 DEF StartReporter
<1>2. CASE NextMinute BY <1>2 DEF NextMinute
<1>3. CASE PushMessage
  <2>1. /\ main = "push" /\ main' \in {"push", "wait_size"}
        /\ UNCHANGED <<startTimestamp, ts, devicesCnt, mode, retval>>
        /\ dc' \in 1..devicesCnt /\ table_id' \in Tables
        /\ main' = "wait_size" => table_id' = DBTables
        /\ main' = "wait_size" /\ mode = "run" => dc' = devicesCnt
    BY <1>3 DEF PushMessage
  <2>2. QED BY <2>1
<1>4. CASE PrepWaitSize BY <1>4 DEF PrepWaitSize
<1>5. CASE PrepWaitEmpty BY <1>5 DEF PrepWaitEmpty
<1>6. CASE RunWaitSize BY <1>6 DEF RunWaitSize
<1>7. CASE LoadFinished BY <1>7 DEF LoadFinished
<1>8. CASE JoinReporter BY <1>8 DEF JoinReporter
<1>9. CASE SetProcessingComplete BY <1>9 DEF SetProcessingComplete
<1>10. CASE JoinThreads BY <1>10 DEF JoinThreads
<1>11. CASE DisplayAndReturn BY <1>11 DEF DisplayAndReturn
<1>12. CASE Launch BY <1>12 DEF Launch
<1>13. CASE Choice BY <1>13 DEF Choice
<1>14. CASE Elsewhere BY <1>14 DEF Elsewhere, Alive
<1>15. CASE Restart BY <1>15 DEF Restart, Entry
<1>16. QED
  BY <1>1, <1>2, <1>3, <1>4, <1>5, <1>6, <1>7, <1>8, <1>9, <1>10, <1>11,
     <1>12, <1>13, <1>14, <1>15 DEF LoopStep, MainStep
-----------------------------------------------------------------------------
(* The log.                                                                *)

\* The message at the push is of the window and new; what the loops have been
\* at comes before it.
LEMMA PushIsNew ==
  ASSUME ProcessTypeOK, Locals, main = "push"
  PROVE  LET m == [ts |-> ts, device_id |-> dc, table_id |-> table_id]
         IN  m \in Slots /\ \A x \in Slots : Past(x) => Earlier(x, m)
BY ConfigAssumption DEF ProcessTypeOK, Locals, InMinute, Slots, Past, Earlier

\* A push leaves behind what it has pushed and nothing else.
LEMMA PushPast ==
  ASSUME ProcessTypeOK, Locals, PushMessage, NEW x \in Slots
  PROVE  /\ Past(x) => Past(x)'
         /\ x = [ts |-> ts, device_id |-> dc, table_id |-> table_id] => Past(x)'
         /\ mode = "prepare" /\ Past(x)' =>
              Past(x) \/ x = [ts |-> ts, device_id |-> dc, table_id |-> table_id]
<1> USE ConfigAssumption DEF ProcessTypeOK, Locals, InMinute, Slots, PushMessage, Past
<1>1. /\ x.ts \in Nat /\ x.device_id \in Nat /\ x.table_id \in 1..DBTables
      /\ x = [ts |-> x.ts, device_id |-> x.device_id, table_id |-> x.table_id]
  OBVIOUS
<1>2. UNCHANGED <<ts, mode>> /\ main = "push" /\ main' \in {"push", "wait_size"}
      /\ table_id \in Tables /\ dc \in Nat /\ ts \in Nat
  OBVIOUS
<1>3. CASE table_id < DBTables BY <1>1, <1>2, <1>3
<1>4. CASE table_id = DBTables BY <1>1, <1>2, <1>4
<1>5. QED BY <1>2, <1>3, <1>4

\* No other step of the loops changes what they have been at, but for the
\* devices that the last minute of a run did not have.
LEMMA OtherPast ==
  ASSUME ProcessTypeOK, Locals, LoopStep, ~PushMessage, ~Restart, ~Choice,
         main' # "aborted", NEW x \in Slots
  PROVE  /\ Past(x) => Past(x)'
         /\ mode = "prepare" /\ Past(x)' => Past(x)
<1> USE ConfigAssumption DEF ProcessTypeOK, Locals, InMinute, Past
<1>1. /\ x.ts \in Nat /\ x.device_id \in 1..MaxDevices /\ x.table_id \in 1..DBTables
  BY DEF Slots
<1>2. CASE NextMinute BY <1>1, <1>2 DEF NextMinute
<1>3. CASE PrepWaitSize BY <1>1, <1>3 DEF PrepWaitSize
<1>4. CASE PrepWaitEmpty BY <1>1, <1>4 DEF PrepWaitEmpty
<1>5. CASE RunWaitSize BY <1>1, <1>5 DEF RunWaitSize
<1>6. CASE StartReporter \/ LoadFinished \/ JoinReporter \/ SetProcessingComplete
             \/ JoinThreads \/ DisplayAndReturn \/ Launch \/ Elsewhere
  BY <1>1, <1>6 DEF StartReporter, LoadFinished, JoinReporter,
     SetProcessingComplete, JoinThreads, DisplayAndReturn, Launch, Elsewhere
<1>7. QED BY <1>2, <1>3, <1>4, <1>5, <1>6 DEF LoopStep, MainStep

\* What the other steps leave alone.
LEMMA LoopFrame ==
  ASSUME LoopStep, ~PushMessage, ~Restart
  PROVE  /\ UNCHANGED <<sent, mode>>
         /\ ~Choice => UNCHANGED startTimestamp
         /\ main = "aborted" => main' = "aborted"
         /\ ~Elsewhere => UNCHANGED popped
BY DEF LoopStep, MainStep, StartReporter, NextMinute, PrepWaitSize,
   PrepWaitEmpty, RunWaitSize, LoadFinished, JoinReporter,
   SetProcessingComplete, JoinThreads, DisplayAndReturn, Launch, Choice,
   Elsewhere, Alive

\* The log is empty at first.
LEMMA InitLog == Init => Log
BY ConfigAssumption DEF Init, Entry, Log, InWindow, InOrder, OnlyPast, Covered, Past, Slots, InMinute

\* A push keeps Log.
LEMMA PushKeepsLog ==
  ASSUME ProcessTypeOK, Locals, Log, PushMessage
  PROVE  Log'
<1> DEFINE m == [ts |-> ts, device_id |-> dc, table_id |-> table_id]
           n == Len(sent)
<1>1. /\ main = "push" /\ main' # "aborted" /\ UNCHANGED <<mode, startTimestamp>>
      /\ sent' = Append(sent, m)
  BY DEF PushMessage
<1>2. Slots' = Slots BY <1>1 DEF Slots
<1>3. m \in Slots /\ \A x \in Slots : Past(x) => Earlier(x, m)
  BY <1>1, PushIsNew
<1>4. /\ n \in Nat /\ Len(sent') = n + 1 /\ sent'[n + 1] = m
      /\ \A i \in 1..n : sent'[i] = sent[i]
  BY <1>1 DEF ProcessTypeOK
<1> HIDE DEF m, n
<1>5. \A i \in 1..n : sent[i] \in Slots /\ Past(sent[i])
  BY <1>1 DEF Log, InWindow, OnlyPast, n
<1>6. \A i \in 1..(n + 1) : i \in 1..n \/ i = n + 1
  BY <1>4
<1>7. InWindow' BY <1>2, <1>3, <1>4, <1>5, <1>6 DEF InWindow
<1>8. InOrder'
  <2> SUFFICES ASSUME NEW i \in 1..(n + 1), NEW j \in 1..(n + 1), i < j
               PROVE  Earlier(sent'[i], sent'[j])
    BY <1>4 DEF InOrder, Earlier
  <2>1. CASE j \in 1..n
    BY <1>4, <1>6, <2>1 DEF Log, InOrder, n
  <2>2. CASE j = n + 1
    BY <1>3, <1>4, <1>5, <2>2
  <2>3. QED BY <1>6, <2>1, <2>2
<1>9. \A x \in Slots : (Past(x) => Past(x)') /\ (x = m => Past(x)')
                       /\ (mode = "prepare" /\ Past(x)' => Past(x) \/ x = m)
  BY PushPast DEF m
<1>10. OnlyPast'
  <2> SUFFICES ASSUME NEW i \in 1..(n + 1), NEW x, x = sent'[i] PROVE Past(x)'
    BY <1>4 DEF OnlyPast, Past, InMinute
  <2>1. x \in Slots /\ (Past(x) \/ x = m)
    BY <1>3, <1>4, <1>5, <1>6
  <2>2. QED BY <1>9, <2>1
<1>11. Covered'
  <2> SUFFICES ASSUME mode = "prepare", NEW x \in Slots, Past(x)'
               PROVE  \E i \in 1..(n + 1) : sent'[i] = x
    BY <1>1, <1>2, <1>4 DEF Covered, Past, InMinute
  <2>1. CASE x = m BY <1>4, <2>1
  <2>2. CASE Past(x)
    BY <1>1, <1>4, <2>2 DEF Log, Covered, n
  <2>3. QED BY <1>9, <2>1, <2>2
<1>12. QED BY <1>7, <1>8, <1>10, <1>11 DEF Log

\* Log is inductive relative to the types and Locals.
LEMMA LogStep ==
  ASSUME ProcessTypeOK, Locals, Log, LoopStep
  PROVE  Log'
<1>1. CASE PushMessage BY <1>1, PushKeepsLog
<1>2. CASE Restart
  BY <1>2, ConfigAssumption
     DEF Restart, Entry, Log, InWindow, InOrder, OnlyPast, Covered, Past, Slots, InMinute
<1>3. CASE Choice
  BY <1>3, ConfigAssumption
     DEF Choice, Locals, BeforeLoop, Log, InWindow, InOrder, OnlyPast, Covered,
         Past, Slots, InMinute
<1>4. CASE ~PushMessage /\ ~Restart /\ ~Choice
  <2>1. /\ UNCHANGED <<sent, mode, startTimestamp>>
        /\ main = "aborted" => main' = "aborted"
    BY <1>4, LoopFrame
  <2>2. Slots' = Slots BY <2>1 DEF Slots
  <2>3. InWindow' /\ InOrder'
    BY <2>1, <2>2 DEF Log, InWindow, InOrder, Earlier
  <2>4. main' # "aborted" => \A x \in Slots :
          (Past(x) => Past(x)') /\ (mode = "prepare" /\ Past(x)' => Past(x))
    BY <1>4, OtherPast
  <2>5. OnlyPast'
    <3> SUFFICES ASSUME main' # "aborted", NEW i \in 1..Len(sent),
                        NEW x, x = sent[i]
                 PROVE  Past(x)'
      BY <2>1 DEF OnlyPast, Past, InMinute
    <3>1. x \in Slots /\ Past(x)
      BY <2>1 DEF Log, InWindow, OnlyPast
    <3>2. QED BY <2>4, <3>1
  <2>6. Covered'
    BY <2>1, <2>2, <2>4 DEF Log, Covered, Past, InMinute
  <2>7. QED BY <2>3, <2>5, <2>6 DEF Log
<1>5. QED BY <1>1, <1>2, <1>3, <1>4
-----------------------------------------------------------------------------
(* The queue.                                                              *)

\* The queue is empty at first.
LEMMA InitQueue == Init => Barrier /\ Pressure
<1> SUFFICES ASSUME Init PROVE Barrier /\ Pressure
  OBVIOUS
<1>1. sent = << >> /\ popped = 0 /\ tsQueueSize = 0 /\ ~InMinute
      /\ main \notin {"push", "wait_size"}
  BY DEF Init, Entry, InMinute
<1>2. /\ LoaderThreads * 2 \in Nat /\ LoaderThreads * RunQueueFactor \in Nat
      /\ MaxDevices * DBTables \in Nat /\ DBTables \in Nat
  BY ConfigAssumption
<1>3. QED BY <1>1, <1>2 DEF Barrier, MinuteBarrier, Pressure, BackPressure

\* Barrier is inductive.
LEMMA BarrierStep ==
  ASSUME ProcessTypeOK, Locals, Barrier, LoopStep
  PROVE  Barrier'
<1>0. /\ Len(sent) \in Nat /\ popped \in 0..Len(sent)
      /\ \A x : x \in (popped + 1)..Len(sent) <=> x \in Int /\ popped + 1 <= x /\ x <= Len(sent)
  BY DEF ProcessTypeOK
<1>1. CASE PushMessage
  <2> DEFINE m == [ts |-> ts, device_id |-> dc, table_id |-> table_id]
  <2>1. /\ main = "push" /\ main' \in {"push", "wait_size"}
        /\ UNCHANGED <<mode, popped, ts>> /\ sent' = Append(sent, m)
    BY <1>1 DEF PushMessage
  <2>2. /\ Len(sent') = Len(sent) + 1 /\ sent'[Len(sent) + 1].ts = ts
        /\ \A i \in 1..Len(sent) : sent'[i] = sent[i]
    BY <2>1 DEF ProcessTypeOK
  <2>3. ASSUME mode = "prepare", NEW i \in (popped + 1)..(Len(sent) + 1)
        PROVE  sent'[i].ts = ts
    BY <1>0, <2>1, <2>2, <2>3 DEF Barrier, InMinute
  <2>4. QED BY <2>1, <2>2, <2>3 DEF Barrier, MinuteBarrier, InMinute
<1>2. CASE Elsewhere
  <2>1. /\ popped' \in popped..Len(sent) /\ main' \in {main, "aborted"}
        /\ UNCHANGED <<ts, sent, mode>>
    BY <1>2 DEF Elsewhere
  <2>2. (popped' + 1)..Len(sent) \subseteq (popped + 1)..Len(sent)
    BY <1>0, <2>1
  <2>3. tsQueueEmpty => tsQueueEmpty' BY <1>0, <2>1
  <2> HIDE DEF tsQueueEmpty
  <2>4. MinuteBarrier' BY <2>1, <2>2 DEF Barrier, MinuteBarrier
  <2>5. CASE main' = main
    BY <2>1, <2>2, <2>3, <2>4, <2>5 DEF Barrier, InMinute
  <2>6. CASE main' = "aborted"
    BY <2>1, <2>4, <2>6 DEF Barrier, InMinute
  <2>7. QED BY <2>1, <2>5, <2>6
<1>3. CASE Restart
  BY <1>3 DEF Restart, Entry, Barrier, MinuteBarrier, InMinute
<1>4. CASE NextMinute
  BY <1>0, <1>4 DEF NextMinute, Barrier, MinuteBarrier, InMinute
<1>5. CASE PrepWaitSize
  BY <1>0, <1>5 DEF PrepWaitSize, Barrier, MinuteBarrier, InMinute
<1>6. CASE PrepWaitEmpty
  BY <1>0, <1>6 DEF PrepWaitEmpty, Barrier, MinuteBarrier, InMinute
<1>7. CASE RunWaitSize
  BY <1>0, <1>7 DEF RunWaitSize, Barrier, MinuteBarrier, InMinute
<1>8. CASE StartReporter \/ LoadFinished \/ JoinReporter \/ SetProcessingComplete
             \/ JoinThreads \/ DisplayAndReturn \/ Launch \/ Choice
  BY <1>0, <1>8 DEF StartReporter, LoadFinished, JoinReporter,
     SetProcessingComplete, JoinThreads, DisplayAndReturn, Launch, Choice,
     Barrier, MinuteBarrier, InMinute
<1>9. QED
  BY <1>1, <1>2, <1>3, <1>4, <1>5, <1>6, <1>7, <1>8 DEF LoopStep, MainStep

\* The rows of dc devices, one after the other.
LEMMA Devices ==
  ASSUME NEW d \in Nat, d >= 1, NEW m \in Nat, d <= m, NEW n \in Nat
  PROVE  /\ (d - 1) * n \in Nat /\ d * n \in Nat /\ m * n \in Nat
         /\ (d - 1) * n + n = d * n
         /\ d * n <= m * n
<1>1. (d - 1) * n \in Nat /\ d * n \in Nat /\ m * n \in Nat
  OBVIOUS
<1>2. (d - 1) * n + n = d * n
  OBVIOUS
<1>3. d * n <= m * n
  <2>1. (m - d) * n \in Nat OBVIOUS
  <2>2. m * n = d * n + (m - d) * n OBVIOUS
  <2>3. QED BY <1>1, <2>1, <2>2
<1>4. QED BY <1>1, <1>2, <1>3

\* Pressure is inductive relative to Barrier.
LEMMA PressureStep ==
  ASSUME ProcessTypeOK, Locals, Barrier, Pressure, LoopStep
  PROVE  Pressure'
<1> DEFINE two == LoaderThreads * 2
           rqf == LoaderThreads * RunQueueFactor
           all == MaxDevices * DBTables
           done == (dc - 1) * DBTables
<1>0. /\ Len(sent) \in Nat /\ popped \in 0..Len(sent)
      /\ two \in Nat /\ rqf \in Nat /\ all \in Nat /\ DBTables \in Nat \ {0}
      /\ mode \in {"prepare", "run"}
  BY ConfigAssumption DEF ProcessTypeOK
<1>a. InMinute =>
        /\ dc \in Nat /\ table_id \in 1..DBTables /\ dc <= devicesCnt
        /\ done \in Nat /\ done + DBTables <= all
        /\ dc' = dc + 1 => done' = done + DBTables
  <2> SUFFICES ASSUME InMinute
               PROVE  /\ dc \in Nat /\ table_id \in 1..DBTables /\ dc <= devicesCnt
                      /\ done \in Nat /\ done + DBTables <= all
                      /\ dc' = dc + 1 => done' = done + DBTables
    OBVIOUS
  <2>1. /\ dc \in Nat /\ dc >= 1 /\ dc <= MaxDevices /\ table_id \in 1..DBTables
        /\ dc <= devicesCnt /\ MaxDevices \in Nat /\ DBTables \in Nat
    BY ConfigAssumption DEF Locals
  <2>2. /\ (dc - 1) * DBTables \in Nat
        /\ (dc - 1) * DBTables + DBTables = dc * DBTables
        /\ dc * DBTables <= MaxDevices * DBTables
    BY <2>1, Devices
  <2>3. dc' = dc + 1 => (dc' - 1) * DBTables = dc * DBTables
    BY <2>1
  <2>4. QED BY <2>1, <2>2, <2>3
<1>b. /\ UNCHANGED dc => done' = done
      /\ dc' = 1 => done' = 0
  BY <1>0
<1> HIDE DEF two, rqf, all, done
<1>p. Pressure <=>
        /\ mode = "prepare" =>
             /\ main = "push" => tsQueueSize <= two + table_id - 1
             /\ main \notin {"push", "wait_size", "aborted"} => tsQueueSize <= two
             /\ tsQueueSize <= two + DBTables
        /\ mode = "run" =>
             /\ main = "push" => tsQueueSize <= rqf + done + table_id - 1
             /\ main \notin {"push", "wait_size", "aborted"} => tsQueueSize <= rqf
             /\ tsQueueSize <= rqf + all
  BY <1>0 DEF Pressure, BackPressure, two, rqf, all, done
<1>q. mode' \in {"prepare", "run"} => (Pressure' <=>
        /\ mode' = "prepare" =>
             /\ main' = "push" => tsQueueSize' <= two + table_id' - 1
             /\ main' \notin {"push", "wait_size", "aborted"} => tsQueueSize' <= two
             /\ tsQueueSize' <= two + DBTables
        /\ mode' = "run" =>
             /\ main' = "push" => tsQueueSize' <= rqf + done' + table_id' - 1
             /\ main' \notin {"push", "wait_size", "aborted"} => tsQueueSize' <= rqf
             /\ tsQueueSize' <= rqf + all)
  BY DEF Pressure, BackPressure, two, rqf, all, done
<1>1. CASE PushMessage
  <2>1. /\ main = "push" /\ UNCHANGED <<mode, popped>>
        /\ Len(sent') = Len(sent) + 1 /\ tsQueueSize' = tsQueueSize + 1
    BY <1>0, <1>1 DEF PushMessage, ProcessTypeOK
  <2>2. tsQueueSize \in Nat BY <1>0
  <2>3. \/ /\ main' = "push" /\ table_id < DBTables /\ table_id' = table_id + 1 /\ dc' = dc
        \/ /\ main' = "push" /\ table_id = DBTables /\ mode = "run" /\ dc < devicesCnt
           /\ dc' = dc + 1 /\ table_id' = 1
        \/ main' = "wait_size" /\ table_id = DBTables
    BY <1>1, <2>1 DEF PushMessage
  <2> HIDE DEF tsQueueSize
  <2>4. CASE mode = "prepare"
    BY <1>0, <1>a, <1>p, <1>q, <2>1, <2>2, <2>3, <2>4 DEF InMinute
  <2>5. CASE mode = "run"
    <3>1. CASE main' = "push" /\ table_id < DBTables /\ table_id' = table_id + 1 /\ dc' = dc
      BY <1>0, <1>a, <1>b, <1>p, <1>q, <2>1, <2>2, <2>5, <3>1 DEF InMinute
    <3>2. CASE /\ main' = "push" /\ table_id = DBTables /\ dc < devicesCnt
               /\ dc' = dc + 1 /\ table_id' = 1
      BY <1>0, <1>a, <1>p, <1>q, <2>1, <2>2, <2>5, <3>2 DEF InMinute
    <3>3. CASE main' = "wait_size" /\ table_id = DBTables
      BY <1>0, <1>a, <1>p, <1>q, <2>1, <2>2, <2>5, <3>3 DEF InMinute
    <3>4. QED BY <2>3, <3>1, <3>2, <3>3
  <2>6. QED BY <1>0, <2>4, <2>5
<1>2. CASE Restart
  BY <1>0, <1>2, <1>q, ConfigAssumption DEF Restart, Entry
<1>3. CASE ~PushMessage /\ ~Restart
  <2>1. UNCHANGED <<sent, mode>> BY <1>3, LoopFrame
  <2>2. popped' \in popped..Len(sent)
    BY <1>0, <1>3, LoopFrame DEF Elsewhere
  <2>3. tsQueueSize' \in Nat /\ tsQueueSize \in Nat /\ tsQueueSize' <= tsQueueSize
    BY <1>0, <2>1, <2>2
  <2>4. CASE NextMinute
    <3>1. /\ main = "time" /\ main' = "push" /\ dc' = 1 /\ table_id' = 1
          /\ UNCHANGED popped
      BY <2>4 DEF NextMinute
    <3> HIDE DEF tsQueueSize
    <3>2. QED BY <1>0, <1>b, <1>p, <1>q, <2>1, <2>3, <3>1
  <2>5. CASE PrepWaitSize
    <3>1. /\ mode = "prepare" /\ tsQueueSize <= two
          /\ (main' = "push" /\ table_id' = 1) \/ main' = "wait_empty"
      BY <2>5 DEF PrepWaitSize, two
    <3> HIDE DEF tsQueueSize
    <3>2. QED BY <1>0, <1>q, <2>1, <2>3, <3>1
  <2>6. CASE PrepWaitEmpty
    <3>1. main = "wait_empty" /\ main' = "time" BY <2>6 DEF PrepWaitEmpty
    <3> HIDE DEF tsQueueSize
    <3>2. QED BY <1>0, <1>p, <1>q, <2>1, <2>3, <3>1
  <2>7. CASE RunWaitSize
    <3>1. mode = "run" /\ tsQueueSize <= rqf /\ main' = "time"
      BY <2>7 DEF RunWaitSize, rqf
    <3> HIDE DEF tsQueueSize
    <3>2. QED BY <1>0, <1>q, <2>1, <2>3, <3>1
  <2>8. CASE Elsewhere
    <3>1. main' \in {main, "aborted"} /\ UNCHANGED <<dc, table_id>>
      BY <2>8 DEF Elsewhere
    <3> HIDE DEF tsQueueSize
    <3>2. CASE main' = main
      BY <1>0, <1>a, <1>b, <1>p, <1>q, <2>1, <2>3, <3>1, <3>2 DEF InMinute
    <3>3. CASE main' = "aborted"
      BY <1>0, <1>p, <1>q, <2>1, <2>3, <3>3
    <3>4. QED BY <3>1, <3>2, <3>3
  <2>9. CASE StartReporter \/ LoadFinished \/ JoinReporter \/ SetProcessingComplete
               \/ JoinThreads \/ DisplayAndReturn \/ Launch \/ Choice
    <3>1. /\ main \notin {"push", "wait_size", "aborted"}
          /\ main' \notin {"push", "wait_size"}
      BY <2>9 DEF StartReporter, LoadFinished, JoinReporter,
         SetProcessingComplete, JoinThreads, DisplayAndReturn, Launch, Choice
    <3> HIDE DEF tsQueueSize
    <3>2. QED BY <1>0, <1>p, <1>q, <2>1, <2>3, <3>1
  <2>10. QED
    BY <1>3, <2>4, <2>5, <2>6, <2>7, <2>8, <2>9 DEF LoopStep, MainStep
<1>4. QED BY <1>1, <1>2, <1>3
-----------------------------------------------------------------------------
(* The steps of a process, by what they do to the threads and the rows.    *)

ThreadPlaces == {"unborn", "connect", "loop", "drain", "peek", "pop", "exec",
                 "record", "query", "exited"}
Quiet == {"connect", "loop", "drain", "peek", "pop", "query", "exited"}
AnyRow == [table_id : Nat, ts : Nat, device_id : Nat]

Typed == ProcessTypeOK /\ pc \in [DriverThreads -> ThreadPlaces]

\* A thread that holds no message goes on, or throws.
Move(t) ==
  /\ pc[t] \in Quiet
  /\ \/ main' = main /\ \E to \in Quiet : pc' = [pc EXCEPT ![t] = to]
     \/ Alive /\ main' = "aborted" /\ pc' = pc
  /\ UNCHANGED <<dbVars, loopVars, reportVars, flags, queueVars, threads, hand,
                 committed, recorded>>

\* A thread writes a row for the message it holds; it may throw afterwards.
Write(w, row) ==
  /\ Alive /\ pc[w] = "exec"
  /\ \/ main' = main /\ pc' = [pc EXCEPT ![w] = "record"]
     \/ main' = "aborted" /\ pc' = pc
  /\ rows' = rows \cup {row}
  /\ committed' = committed \cup {hand[w]}
  /\ UNCHANGED <<tables, loopVars, reportVars, flags, queueVars, threads, hand,
                 recorded>>

\* It goes on without having written one.
Miss(w) ==
  /\ Alive /\ pc[w] = "exec"
  /\ pc' = [pc EXCEPT ![w] = "record"]
  /\ UNCHANGED <<dbVars, loopVars, reportVars, flags, queueVars, threads, hand,
                 committed, recorded, main>>

\* It has recorded the latency.
Finish(w) ==
  /\ Alive /\ pc[w] = "record"
  /\ \E to \in {"loop", "pop"} : pc' = [pc EXCEPT ![w] = to]
  /\ recorded' = recorded \cup {hand[w]}
  /\ hand' = [hand EXCEPT ![w] = 0]
  /\ UNCHANGED <<dbVars, loopVars, reportVars, flags, queueVars, threads,
                 committed, main>>

\* CreateSchema, whether it throws or not.
Clear ==
  /\ Launch /\ main = "CreateSchema"
  /\ tables' \subseteq Tables /\ rows' \subseteq rows
  /\ UNCHANGED <<reportVars, processingComplete, procs, threadVars>>

\* Prep or Run starts threads.
Start ==
  /\ Launch /\ main \in {"Prep", "Run"}
  /\ \E new \in SUBSET DriverThreads :
       pc' = [t \in DriverThreads |-> IF t \in new THEN "connect" ELSE pc[t]]
  /\ threads' \subseteq DriverThreads
  /\ UNCHANGED <<dbVars, reportVars, processingComplete, procs, hand, committed,
                 recorded>>

Choose ==
  /\ Choice
  /\ UNCHANGED <<dbVars, dc, table_id, devicesCnt, reportVars, flags, threadVars>>

\* getTimestampRange throws.
RangeFails ==
  /\ Launch /\ main = "range"
  /\ UNCHANGED <<dbVars, reportVars, processingComplete, procs, threadVars>>

Common ==
  \/ MainStep
  \/ Clear \/ Start \/ Choose \/ RangeFails
  \/ \E t \in DriverThreads : Move(t)
  \/ \E w \in Workers : WaitAndPop(w) \/ Finish(w)
  \/ ReporterExits \/ Kill \/ Restart \/ UNCHANGED vars

AnyStep ==
  \/ Common
  \/ \E w \in Workers : Miss(w) \/ \E row \in AnyRow : Write(w, row)

\* The steps of the drivers in which a message has a row of its own, and
\* getTimestampRange looks at all rows.
OwnStep ==
  \/ Common /\ (Choice => \A r \in rows : r.ts < startTimestamp')
  \/ \E w \in Workers : Write(w, RowOf(hand[w]))
-----------------------------------------------------------------------------
(* The operators of Preparer the drivers' threads are written with.        *)

\* Goto is a move, when neither place is "exec" or "record".
LEMMA GotoMoves ==
  ASSUME NEW t, NEW from \in Quiet, NEW to \in Quiet, Goto(t, from, to)
  PROVE  Move(t)
  BY DEF Goto, Move

\* So is a statement that throws.
LEMMA ThrowMoves ==
  ASSUME NEW t, NEW from \in Quiet, Throw(t, from), UNCHANGED <<dbVars, committed>>
  PROVE  Move(t)
  BY DEF Throw, Terminate, Move

\* A range that was read is used in one step only: to leave "range".
LEMMA OnlyChoice ==
  ASSUME Common, main # "range" \/ main' \in {main, "aborted", "complete"}
  PROVE  OwnStep
  BY DEF OwnStep, Choice
-----------------------------------------------------------------------------
(* The types.                                                              *)

\* The message in the hands of a busy thread is one of the log, and its row
\* is the message.
LEMMA RowIsTyped ==
  ASSUME ProcessTypeOK, NEW t \in DriverThreads, hand[t] # 0
  PROVE  /\ RowOf(hand[t]) \in AnyRow
         /\ hand[t] \in 1..popped
<1>1. hand[t] \in 1..Len(sent) /\ hand[t] \in 1..popped
  BY DEF ProcessTypeOK
<1>2. sent[hand[t]] \in Messages
  BY <1>1 DEF ProcessTypeOK
<1>3. QED BY <1>1, <1>2 DEF RowOf, Messages, AnyRow

\* A thread at the insert or the record has a message.
LEMMA BusyHolds ==
  ASSUME ProcessTypeOK, EveryMessageHasOneHome, NEW w \in Workers,
         pc[w] \in {"exec", "record"}
  PROVE  /\ w \in DriverThreads /\ hand[w] \in 1..popped
         /\ RowOf(hand[w]) \in AnyRow
<1>1. w \in DriverThreads BY ConfigAssumption
<1>2. hand[w] # 0 BY <1>1 DEF EveryMessageHasOneHome, Busy
<1>3. QED BY <1>1, <1>2, RowIsTyped

\* The types hold at first.
LEMMA InitTyped == Init => Typed
<1> SUFFICES ASSUME Init PROVE Typed
  OBVIOUS
<1>1. sent \in Seq(Messages) /\ popped \in 0..Len(sent) BY DEF Init
<1>2. hand \in [DriverThreads -> 0..popped] BY DEF Init
<1>3. pc \in [DriverThreads -> ThreadPlaces] BY DEF Init, ThreadPlaces
<1>4. main \in MainPlaces BY DEF Init, Entry, MainPlaces
<1>5. QED
  BY <1>1, <1>2, <1>3, <1>4 DEF Init, Typed, ProcessTypeOK

\* The steps of the main thread that do not call the driver keep the types.
LEMMA MainStepTyped ==
  ASSUME ProcessTypeOK, MainStep
  PROVE  ProcessTypeOK' /\ UNCHANGED pc
<1> USE ConfigAssumption DEF ProcessTypeOK, MainPlaces
<1>1. CASE StartReporter BY <1>1 DEF StartReporter
<1>2. CASE NextMinute BY <1>2 DEF NextMinute
<1>3. CASE PushMessage
  <2>1. sent' \in Seq(Messages) /\ Len(sent') = Len(sent) + 1
    BY <1>3 DEF PushMessage, Messages
  <2>2. popped' \in 0..Len(sent')
    BY <2>1, <1>3 DEF PushMessage
  <2>3. main' \in {"push", "wait_size"} /\ dc' \in Nat /\ table_id' \in Nat
    BY <1>3 DEF PushMessage
  <2>4. UNCHANGED <<dbVars, startTimestamp, ts, devicesCnt, reportVars, flags,
                    popped, threadVars>>
    BY <1>3 DEF PushMessage
  <2>5. QED BY <2>1, <2>2, <2>3, <2>4
<1>4. CASE PrepWaitSize BY <1>4 DEF PrepWaitSize
<1>5. CASE PrepWaitEmpty BY <1>5 DEF PrepWaitEmpty
<1>6. CASE RunWaitSize BY <1>6 DEF RunWaitSize
<1>7. CASE LoadFinished BY <1>7 DEF LoadFinished
<1>8. CASE JoinReporter BY <1>8 DEF JoinReporter
<1>9. CASE SetProcessingComplete BY <1>9 DEF SetProcessingComplete
<1>10. CASE JoinThreads BY <1>10 DEF JoinThreads
<1>11. CASE DisplayAndReturn BY <1>11 DEF DisplayAndReturn
<1>12. QED
  BY <1>1, <1>2, <1>3, <1>4, <1>5, <1>6, <1>7, <1>8, <1>9, <1>10, <1>11
     DEF MainStep

\* Restart leads to typed states.
LEMMA RestartTyped ==
  ASSUME ProcessTypeOK, Restart
  PROVE  Typed'
<1> USE DEF ProcessTypeOK, MainPlaces
<1>1. sent' = << >> /\ popped' = 0 BY DEF Restart
<1>2. sent' \in Seq(Messages) /\ popped' \in 0..Len(sent') BY <1>1
<1>3. hand' \in [DriverThreads -> 0..popped'] BY <1>1 DEF Restart
<1>4. pc' \in [DriverThreads -> ThreadPlaces] BY DEF Restart, ThreadPlaces
<1>5. main' \in MainPlaces /\ mode' \in Modes BY DEF Restart, Entry
<1>6. committed' \subseteq 1..popped' /\ recorded' \subseteq 1..popped'
      /\ threads' \subseteq DriverThreads
  BY DEF Restart
<1>7. procs' \in Nat /\ tables' \subseteq Tables
      /\ rows' \subseteq [table_id : Nat, ts : Nat, device_id : Nat]
  BY DEF Restart
<1>8. /\ retval' \in {"success", "failure"}
      /\ startTimestamp' \in Nat /\ ts' \in Nat
      /\ dc' \in Nat /\ table_id' \in Nat /\ devicesCnt' \in Nat
      /\ progressLoad' \in BOOLEAN
      /\ reporter' \in {"none", "printing", "exited"}
      /\ processingComplete' \in BOOLEAN
  BY DEF Restart
<1>9. QED BY <1>2, <1>3, <1>4, <1>5, <1>6, <1>7, <1>8 DEF Typed

\* Every step keeps the types.
LEMMA TypedStep ==
  ASSUME Typed, EveryMessageHasOneHome, AnyStep
  PROVE  Typed'
<1>1. CASE MainStep BY <1>1, MainStepTyped DEF Typed
<1>2. CASE Restart BY <1>2, RestartTyped DEF Typed
<1> USE DEF Typed, ProcessTypeOK, MainPlaces, ThreadPlaces
<1>3. CASE Clear BY <1>3 DEF Clear, Launch
<1>4. CASE Start BY <1>4 DEF Start, Launch
<1>5. CASE Choose BY <1>5 DEF Choose, Choice
<1>6. CASE RangeFails BY <1>6 DEF RangeFails, Launch
<1>7. ASSUME NEW t \in DriverThreads, Move(t) PROVE Typed'
  BY <1>7 DEF Move, Quiet
<1>8. CASE ReporterExits \/ Kill \/ UNCHANGED vars
  BY <1>8 DEF ReporterExits, Kill, vars
<1>9. ASSUME NEW w \in Workers, WaitAndPop(w) PROVE Typed'
  BY <1>9, ConfigAssumption DEF WaitAndPop
<1>10. ASSUME NEW w \in Workers, Finish(w) PROVE Typed'
  <2>1. w \in DriverThreads /\ hand[w] \in 1..popped
    BY <1>10, BusyHolds DEF Finish
  <2>2. popped \in Nat /\ 0 \in 0..popped OBVIOUS
  <2>3. hand' \in [DriverThreads -> 0..popped]
    BY <1>10, <2>2 DEF Finish
  <2>4. recorded' \subseteq 1..popped BY <1>10, <2>1 DEF Finish
  <2>5. pc' \in [DriverThreads -> ThreadPlaces] BY <1>10 DEF Finish
  <2>6. QED BY <1>10, <2>3, <2>4, <2>5 DEF Finish
<1>11. ASSUME NEW w \in Workers, Miss(w) PROVE Typed'
  BY <1>11 DEF Miss
<1>12. ASSUME NEW w \in Workers, NEW row \in AnyRow, Write(w, row) PROVE Typed'
  <2>1. hand[w] \in 1..popped BY <1>12, BusyHolds DEF Write
  <2>2. QED BY <1>12, <2>1 DEF Write, AnyRow
<1>13. QED
  BY <1>1, <1>2, <1>3, <1>4, <1>5, <1>6, <1>7, <1>8, <1>9, <1>10, <1>11,
     <1>12 DEF AnyStep, Common
-----------------------------------------------------------------------------
(* The homes of the messages.                                              *)

\* A step that touches neither hand, popped, recorded nor who is busy keeps
\* the homes.
LEMMA HomesKept ==
  ASSUME EveryMessageHasOneHome, UNCHANGED <<hand, recorded, popped>>,
         \A t \in DriverThreads : Busy(t)' <=> Busy(t)
  PROVE  EveryMessageHasOneHome'
  BY DEF EveryMessageHasOneHome

\* wait_and_pop gives a new message to one thread.
LEMMA PopKeepsHomes ==
  ASSUME Typed, EveryMessageHasOneHome, NEW w \in Workers, WaitAndPop(w)
  PROVE  EveryMessageHasOneHome'
<1>1. /\ popped \in Nat
      /\ \A t \in DriverThreads : hand[t] \in 0..popped
      /\ recorded \subseteq 1..popped
      /\ Workers \subseteq DriverThreads
  BY ConfigAssumption DEF Typed, ProcessTypeOK
<1>2. /\ popped' = popped + 1 /\ hand'[w] = popped + 1 /\ hand[w] = 0
      /\ \A t \in DriverThreads \ {w} : hand'[t] = hand[t] /\ pc'[t] = pc[t]
      /\ pc[w] = "pop" /\ pc'[w] = "exec"
      /\ UNCHANGED recorded
  BY <1>1 DEF WaitAndPop, EveryMessageHasOneHome, Busy, Typed, ProcessTypeOK
<1>3. \A t \in DriverThreads : hand'[t] # 0 <=> Busy(t)'
  BY <1>1, <1>2 DEF EveryMessageHasOneHome, Busy
<1>4. \A s, t \in DriverThreads : hand'[s] = hand'[t] /\ hand'[s] # 0 => s = t
  BY <1>1, <1>2 DEF EveryMessageHasOneHome
<1>5. \A i \in 1..popped' : i \in recorded' \/ \E t \in Workers : hand'[t] = i
  <2>1. ASSUME NEW i \in 1..popped, i \notin recorded
        PROVE  \E t \in Workers : hand'[t] = i
    <3>1. PICK t \in Workers : hand[t] = i
      BY <2>1 DEF EveryMessageHasOneHome
    <3>2. t # w BY <1>2, <2>1, <3>1
    <3>3. QED BY <1>1, <1>2, <3>1, <3>2
  <2>2. QED BY <1>1, <1>2, <2>1
<1>6. \A t \in Workers : hand'[t] \notin recorded'
  BY <1>1, <1>2 DEF EveryMessageHasOneHome
<1>7. QED BY <1>3, <1>4, <1>5, <1>6 DEF EveryMessageHasOneHome

\* A message whose latency is recorded leaves the hands of its thread.
LEMMA FinishKeepsHomes ==
  ASSUME Typed, EveryMessageHasOneHome, NEW w \in Workers, Finish(w)
  PROVE  EveryMessageHasOneHome'
<1>1. /\ Workers \subseteq DriverThreads /\ 0 \notin recorded
      /\ hand \in [DriverThreads -> 0..popped]
      /\ pc \in [DriverThreads -> ThreadPlaces]
  BY ConfigAssumption DEF Typed, ProcessTypeOK
<1>2. /\ hand'[w] = 0 /\ hand[w] # 0
      /\ \A t \in DriverThreads \ {w} : hand'[t] = hand[t] /\ pc'[t] = pc[t]
      /\ pc'[w] \in {"loop", "pop"}
      /\ UNCHANGED popped
      /\ recorded' = recorded \cup {hand[w]}
  BY <1>1 DEF Finish, EveryMessageHasOneHome, Busy
<1>3. \A t \in DriverThreads : hand'[t] # 0 <=> Busy(t)'
  BY <1>2 DEF EveryMessageHasOneHome, Busy
<1>4. \A s, t \in DriverThreads : hand'[s] = hand'[t] /\ hand'[s] # 0 => s = t
  BY <1>2 DEF EveryMessageHasOneHome
<1>5. \A i \in 1..popped' : i \in recorded' \/ \E t \in Workers : hand'[t] = i
  BY <1>1, <1>2 DEF EveryMessageHasOneHome
<1>6. \A t \in Workers : hand'[t] \notin recorded'
  BY <1>1, <1>2 DEF EveryMessageHasOneHome
<1>7. QED BY <1>3, <1>4, <1>5, <1>6 DEF EveryMessageHasOneHome

\* No message is out before the threads are started.
LEMMA NoneBusy ==
  ASSUME Typed, EveryMessageHasOneHome, sent = << >>
  PROVE  /\ popped = 0 /\ committed = {} /\ recorded = {}
         /\ \A t \in DriverThreads : hand[t] = 0 /\ ~Busy(t)
BY DEF Typed, ProcessTypeOK, EveryMessageHasOneHome

\* EveryMessageHasOneHome is inductive relative to the types and Locals.
LEMMA HomesStep ==
  ASSUME Typed, Locals, EveryMessageHasOneHome, AnyStep
  PROVE  EveryMessageHasOneHome'
<1>1. CASE MainStep
  BY <1>1, HomesKept, MainStepTyped
     DEF Typed, Busy, MainStep, StartReporter, NextMinute, PushMessage,
     PrepWaitSize, PrepWaitEmpty, RunWaitSize, LoadFinished, JoinReporter,
     SetProcessingComplete, JoinThreads, DisplayAndReturn
<1>2. CASE Restart
  <2>1. /\ popped' = 0 /\ recorded' = {}
        /\ \A t \in DriverThreads : hand'[t] = 0 /\ pc'[t] = "unborn"
    BY <1>2 DEF Restart
  <2>2. QED BY <2>1 DEF EveryMessageHasOneHome, Busy
<1>3. CASE Clear \/ Choose \/ RangeFails
  BY <1>3, HomesKept DEF Clear, Choose, RangeFails, Choice, Launch, Busy
<1>4. CASE Start
  <2>1. sent = << >> BY <1>4 DEF Start, Locals, BeforeLoop
  <2>2. \A t \in DriverThreads : ~Busy(t) /\ ~Busy(t)'
    BY <1>4, <2>1, NoneBusy DEF Start, Busy
  <2>3. QED BY <1>4, <2>2, HomesKept DEF Start, Launch
<1>5. ASSUME NEW t \in DriverThreads, Move(t) PROVE EveryMessageHasOneHome'
  BY <1>5, HomesKept DEF Move, Quiet, Busy, Typed
<1>6. CASE ReporterExits \/ Kill \/ UNCHANGED vars
  BY <1>6, HomesKept DEF ReporterExits, Kill, vars, Busy
<1>7. ASSUME NEW w \in Workers, WaitAndPop(w) \/ Finish(w)
      PROVE  EveryMessageHasOneHome'
  BY <1>7, PopKeepsHomes, FinishKeepsHomes
<1>8. ASSUME NEW w \in Workers, NEW row, Miss(w) \/ Write(w, row)
      PROVE  EveryMessageHasOneHome'
  BY <1>8, HomesKept DEF Miss, Write, Busy, Typed
<1>9. QED
  BY <1>1, <1>2, <1>3, <1>4, <1>5, <1>6, <1>7, <1>8 DEF AnyStep, Common
-----------------------------------------------------------------------------
(* The process as a whole.                                                 *)

\* For the loops, every step is of the kinds named first.
LEMMA StepIsLoopStep ==
  ASSUME Typed, AnyStep
  PROVE  LoopStep
<1>1. popped \in popped..Len(sent)
  BY DEF Typed, ProcessTypeOK
<1> USE <1>1 DEF LoopStep
<1>2. CASE MainStep \/ Clear \/ Start \/ Choose \/ RangeFails \/ Restart
  BY <1>2 DEF Clear, Start, Choose, RangeFails
<1>3. CASE ReporterExits \/ Kill \/ UNCHANGED vars
  BY <1>3 DEF ReporterExits, Kill, vars, Elsewhere, Alive
<1>4. ASSUME NEW t, Move(t) PROVE LoopStep BY <1>4 DEF Move, Elsewhere
<1>5. ASSUME NEW w, WaitAndPop(w) PROVE LoopStep
  <2>1. popped + 1 \in popped..Len(sent)
    BY <1>5 DEF WaitAndPop, Typed, ProcessTypeOK
  <2>2. QED BY <1>5, <2>1 DEF WaitAndPop, Elsewhere
<1>6. ASSUME NEW w, NEW row, Finish(w) \/ Miss(w) \/ Write(w, row)
      PROVE  LoopStep
  BY <1>6 DEF Finish, Miss, Write, Elsewhere
<1>7. QED BY <1>2, <1>3, <1>4, <1>5, <1>6 DEF AnyStep, Common

\* What holds of any driver.
ProcessInv ==
  /\ Typed
  /\ EveryMessageHasOneHome
  /\ Locals
  /\ Log
  /\ Barrier
  /\ Pressure

\* ProcessInv holds before the first process starts.
LEMMA InitProcess == Init => ProcessInv
<1>1. Init => EveryMessageHasOneHome
  BY DEF Init, EveryMessageHasOneHome, Busy
<1>2. QED BY <1>1, InitTyped, InitLocals, InitLog, InitQueue DEF ProcessInv

\* ProcessInv is inductive.
LEMMA ProcessStep == ProcessInv /\ AnyStep => ProcessInv'
BY TypedStep, HomesStep, StepIsLoopStep, LocalsStep, LogStep, BarrierStep,
   PressureStep DEF ProcessInv, Typed
-----------------------------------------------------------------------------
(* The rows.                                                               *)

\* The row of a message is the message, and no two messages have the same.
LEMMA RowIsMessage ==
  ASSUME ProcessTypeOK, InWindow, InOrder, NEW i \in 1..Len(sent)
  PROVE  /\ RowOf(i) = sent[i] /\ RowOf(i) \in Slots
         /\ RowOf(i).ts >= startTimestamp /\ RowOf(i).table_id \in Tables
         /\ \A j \in 1..Len(sent) : RowOf(i) = RowOf(j) => i = j
<1>1. \A k \in 1..Len(sent) : sent[k] \in Slots /\ sent[k] \in Messages
  BY DEF InWindow, ProcessTypeOK
<1>2. \A k \in 1..Len(sent) : RowOf(k) = sent[k]
  BY <1>1 DEF Messages, RowOf
<1>3. ASSUME NEW j \in 1..Len(sent), RowOf(i) = RowOf(j) PROVE i = j
  <2>1. sent[i] = sent[j] BY <1>2, <1>3
  <2>2. /\ sent[i].ts \in Nat /\ sent[i].device_id \in Nat
        /\ sent[i].table_id \in Nat
    BY <1>1 DEF Messages
  <2>3. ~Earlier(sent[i], sent[j]) /\ ~Earlier(sent[j], sent[i])
    BY <2>1, <2>2 DEF Earlier
  <2>4. i \in Int /\ j \in Int /\ ~(i < j) /\ ~(j < i)
    BY <2>3 DEF InOrder, ProcessTypeOK
  <2>5. QED BY <2>4
<1>4. sent[i].ts >= startTimestamp /\ sent[i].table_id \in Tables
  BY <1>1 DEF Slots, ProcessTypeOK
<1>5. QED BY <1>1, <1>2, <1>3, <1>4

\* A message that is not in the database yet has no row there.
LEMMA FreshRow ==
  ASSUME ProcessInv, Rows, NEW i \in 1..Len(sent), i \notin committed
  PROVE  RowOf(i) \notin rows
<1> USE DEF ProcessInv, Typed, Log
<1>1. startTimestamp > 0 BY DEF Locals, ProcessTypeOK
<1>2. RowOf(i).ts >= startTimestamp BY RowIsMessage
<1>3. \A c \in committed : c \in 1..Len(sent)
  BY DEF ProcessTypeOK
<1>4. \A c \in committed : RowOf(i) # RowOf(c)
  BY <1>3, RowIsMessage
<1>5. RowOf(i).ts \in Nat /\ startTimestamp \in Nat
  BY RowIsMessage DEF Slots, ProcessTypeOK
<1>6. QED BY <1>1, <1>2, <1>4, <1>5 DEF Rows

\* What the driver knows of the rows, and of who has written them.
OwnInv == Written /\ ExecFresh /\ Rows

\* OwnInv holds of an empty database.
LEMMA InitOwn == Init => OwnInv
BY ConfigAssumption
   DEF Init, OwnInv, Written, ExecFresh, Rows

\* A step of OwnStep is a step.
LEMMA OwnIsAny ==
  ASSUME Typed, EveryMessageHasOneHome, OwnStep
  PROVE  AnyStep
<1>1. ASSUME NEW w \in Workers, Write(w, RowOf(hand[w])) PROVE AnyStep
  <2>1. RowOf(hand[w]) \in AnyRow BY <1>1, BusyHolds DEF Typed, Write
  <2>2. QED BY <1>1, <2>1 DEF AnyStep
<1>2. QED BY <1>1 DEF OwnStep, AnyStep

\* Written is inductive relative to ProcessInv.
LEMMA WrittenStep ==
  ASSUME ProcessInv, Written, OwnStep
  PROVE  Written'
<1> USE DEF Written, ProcessInv, Typed
<1>1. CASE MainStep
  BY <1>1, MainStepTyped DEF MainStep, StartReporter, NextMinute,
     PushMessage, PrepWaitSize, PrepWaitEmpty, RunWaitSize, LoadFinished,
     JoinReporter, SetProcessingComplete, JoinThreads, DisplayAndReturn
<1>2. CASE Restart BY <1>2 DEF Restart
<1>3. CASE Clear \/ Choose \/ RangeFails BY <1>3 DEF Clear, Choose, RangeFails
<1>4. CASE Start BY <1>4 DEF Start
<1>5. ASSUME NEW t \in DriverThreads, Move(t) PROVE Written'
  BY <1>5 DEF Move, Quiet
<1>6. CASE ReporterExits \/ Kill \/ UNCHANGED vars
  BY <1>6 DEF ReporterExits, Kill, vars
<1>7. ASSUME NEW w \in Workers, WaitAndPop(w) PROVE Written'
  <2>1. /\ w \in DriverThreads
        /\ \A t \in DriverThreads \ {w} : hand'[t] = hand[t] /\ pc'[t] = pc[t]
        /\ pc'[w] = "exec" /\ UNCHANGED <<recorded, committed>>
    BY <1>7, ConfigAssumption DEF WaitAndPop, ProcessTypeOK
  <2>2. QED BY <2>1
<1>8. ASSUME NEW w \in Workers, Finish(w) PROVE Written'
  <2>1. /\ w \in DriverThreads
        /\ \A t \in DriverThreads \ {w} : hand'[t] = hand[t] /\ pc'[t] = pc[t]
        /\ pc'[w] # "record" /\ UNCHANGED committed
        /\ recorded' = recorded \cup {hand[w]} /\ pc[w] = "record"
    BY <1>8, ConfigAssumption DEF Finish, ProcessTypeOK
  <2>2. QED BY <2>1
<1>9. ASSUME NEW w \in Workers, Write(w, RowOf(hand[w])) PROVE Written'
  BY <1>9 DEF Write
<1>10. QED
  BY <1>1, <1>2, <1>3, <1>4, <1>5, <1>6, <1>7, <1>8, <1>9 DEF OwnStep, Common

\* So is ExecFresh.
LEMMA ExecFreshStep ==
  ASSUME ProcessInv, ExecFresh, OwnStep
  PROVE  ExecFresh'
<1> USE DEF ExecFresh, ProcessInv, Typed
<1>0. /\ Workers \subseteq DriverThreads /\ popped \in Nat
      /\ committed \subseteq 1..popped
  BY ConfigAssumption DEF ProcessTypeOK
<1>1. CASE MainStep
  BY <1>1, MainStepTyped DEF MainStep, StartReporter, NextMinute,
     PushMessage, PrepWaitSize, PrepWaitEmpty, RunWaitSize, LoadFinished,
     JoinReporter, SetProcessingComplete, JoinThreads, DisplayAndReturn, Alive
<1>2. CASE Restart BY <1>0, <1>2 DEF Restart
<1>3. CASE Clear \/ Choose \/ RangeFails
  BY <1>3 DEF Clear, Choose, Choice, RangeFails, Launch, Alive
<1>4. CASE Start BY <1>0, <1>4 DEF Start, Launch, Alive
<1>5. ASSUME NEW t \in DriverThreads, Move(t) PROVE ExecFresh'
  BY <1>0, <1>5 DEF Move, Quiet, Alive
<1>6. CASE ReporterExits \/ Kill \/ UNCHANGED vars
  BY <1>6 DEF ReporterExits, Kill, vars, Alive
<1>7. ASSUME NEW w \in Workers, WaitAndPop(w) PROVE ExecFresh'
  <2>1. /\ Alive /\ UNCHANGED committed
        /\ hand'[w] = popped + 1
        /\ \A t \in Workers \ {w} : hand'[t] = hand[t] /\ pc'[t] = pc[t]
    BY <1>0, <1>7 DEF WaitAndPop, ProcessTypeOK
  <2>2. popped + 1 \notin committed BY <1>0
  <2>3. QED BY <2>1, <2>2
<1>8. ASSUME NEW w \in Workers, Finish(w) PROVE ExecFresh'
  <2>1. /\ Alive /\ UNCHANGED committed /\ pc'[w] # "exec"
        /\ \A t \in Workers \ {w} : hand'[t] = hand[t] /\ pc'[t] = pc[t]
    BY <1>0, <1>8 DEF Finish, ProcessTypeOK
  <2>2. QED BY <2>1
<1>9. ASSUME NEW w \in Workers, Write(w, RowOf(hand[w])) PROVE ExecFresh'
  <2>1. CASE main' = "aborted" BY <2>1 DEF Alive
  <2>2. CASE pc' = [pc EXCEPT ![w] = "record"]
    <3>1. /\ Alive /\ committed' = committed \cup {hand[w]} /\ UNCHANGED hand
          /\ pc[w] = "exec" /\ pc'[w] = "record"
          /\ \A t \in Workers \ {w} : pc'[t] = pc[t]
      BY <1>0, <1>9, <2>2 DEF Write
    <3>2. hand[w] # 0 BY <1>0, <3>1 DEF EveryMessageHasOneHome, Busy
    <3>3. \A t \in Workers \ {w} : hand[t] # hand[w]
      BY <1>0, <3>2 DEF EveryMessageHasOneHome
    <3>4. QED BY <3>1, <3>3
  <2>3. QED BY <1>9, <2>1, <2>2 DEF Write
<1>10. QED
  BY <1>1, <1>2, <1>3, <1>4, <1>5, <1>6, <1>7, <1>8, <1>9 DEF OwnStep, Common

\* A step that leaves the rows alone and changes neither the window nor the
\* log of what is committed keeps Rows.
LEMMA RowsKept ==
  ASSUME Rows, UNCHANGED <<rows, committed, startTimestamp>>,
         \A c \in committed : RowOf(c)' = RowOf(c)
  PROVE  Rows'
BY DEF Rows

\* So is Rows.
LEMMA RowsStep ==
  ASSUME ProcessInv, Rows, OwnStep
  PROVE  Rows'
<1> USE DEF ProcessInv, Typed
<1>0. /\ committed \subseteq 1..Len(sent) /\ startTimestamp \in Nat
      /\ UNCHANGED sent => \A c \in committed : RowOf(c)' = RowOf(c)
  BY DEF ProcessTypeOK, RowOf
<1>1. CASE PushMessage
  <2>1. \A c \in committed : sent'[c] = sent[c]
    BY <1>0, <1>1 DEF PushMessage, ProcessTypeOK
  <2>2. \A c \in committed : RowOf(c)' = RowOf(c) BY <2>1 DEF RowOf
  <2>3. QED BY <1>1, <2>2, RowsKept DEF PushMessage
<1>2. CASE MainStep /\ ~PushMessage
  BY <1>0, <1>2, RowsKept DEF MainStep, StartReporter, NextMinute,
     PrepWaitSize, PrepWaitEmpty, RunWaitSize, LoadFinished, JoinReporter,
     SetProcessingComplete, JoinThreads, DisplayAndReturn
<1>3. CASE Restart BY <1>3 DEF Restart, Rows
<1>4. CASE Clear
  <2>1. startTimestamp = 0 /\ sent = << >>
    BY <1>4 DEF Clear, Locals, NotChosen, BeforeLoop
  <2>2. committed = {} BY <2>1, NoneBusy
  <2>3. QED BY <1>4, <2>1, <2>2 DEF Clear, Launch, Rows
<1>5. CASE Choose
  <2>1. sent = << >> BY <1>5 DEF Choose, Choice, Locals, BeforeLoop
  <2>2. committed = {} BY <2>1, NoneBusy
  <2>3. \A r \in rows : r.ts < startTimestamp'
    <3>1. \A w \in Workers : \A row : ~Write(w, row)
      BY <1>5 DEF Choose, Choice, Write
    <3>2. QED BY <1>5, <3>1 DEF OwnStep, Choose
  <2>4. QED BY <1>5, <2>2, <2>3 DEF Choose, Rows
<1>6. CASE Start \/ RangeFails \/ ReporterExits \/ Kill \/ UNCHANGED vars
  BY <1>0, <1>6, RowsKept DEF Start, RangeFails, ReporterExits, Kill, vars, Launch
<1>7. ASSUME NEW t, Move(t) PROVE Rows'
  BY <1>0, <1>7, RowsKept DEF Move
<1>8. ASSUME NEW w, WaitAndPop(w) \/ Finish(w) PROVE Rows'
  BY <1>0, <1>8, RowsKept DEF WaitAndPop, Finish
<1>9. ASSUME NEW w \in Workers, Write(w, RowOf(hand[w])) PROVE Rows'
  <2>1. /\ rows' = rows \cup {RowOf(hand[w])}
        /\ committed' = committed \cup {hand[w]}
        /\ UNCHANGED <<startTimestamp, sent>>
    BY <1>9 DEF Write
  <2>2. hand[w] \in 1..Len(sent)
    BY <1>9, BusyHolds DEF Write, ProcessTypeOK
  <2>3. RowOf(hand[w]).table_id \in Tables
    BY <2>2, RowIsMessage DEF Log
  <2>4. \A c : RowOf(c)' = RowOf(c) BY <2>1 DEF RowOf
  <2>5. QED BY <2>1, <2>3, <2>4 DEF Rows
<1>10. QED
  BY <1>1, <1>2, <1>3, <1>4, <1>5, <1>6, <1>7, <1>8, <1>9 DEF OwnStep, Common

\* OwnInv is inductive relative to ProcessInv.
LEMMA OwnInvStep == ProcessInv /\ OwnInv /\ OwnStep => OwnInv'
BY WrittenStep, ExecFreshStep, RowsStep DEF OwnInv
-----------------------------------------------------------------------------
(* How many messages the threads can hold.                                 *)

\* As many threads as there are.
LEMMA WorkersCount ==
  /\ IsFiniteSet(Workers) /\ Cardinality(Workers) = LoaderThreads
  /\ \A v \in Workers : /\ IsFiniteSet(Workers \ {v})
                        /\ Cardinality(Workers \ {v}) = LoaderThreads - 1
<1>1. LoaderThreads \in Nat \ {0} BY ConfigAssumption
<1>2. IsFiniteSet(Workers) /\ Cardinality(Workers) = LoaderThreads
  <2>1. 0 \in Int /\ LoaderThreads - 1 \in Int /\ ~(0 > LoaderThreads - 1)
        /\ (LoaderThreads - 1) - 0 + 1 = LoaderThreads
    BY <1>1
  <2>2. QED BY <2>1, FS_Interval
<1>3. ASSUME NEW v \in Workers
      PROVE  /\ IsFiniteSet(Workers \ {v})
             /\ Cardinality(Workers \ {v}) = LoaderThreads - 1
  BY <1>2, <1>3, FS_RemoveElement
<1>4. QED BY <1>2, <1>3

\* What is in somebody's hands is at most as much as there are hands.
LEMMA HeldAreFew ==
  ASSUME NEW W, IsFiniteSet(W), NEW held, NEW S,
         \A x \in S : \E w \in W : held[w] = x
  PROVE  /\ IsFiniteSet(S) /\ Cardinality(S) \in Nat
         /\ Cardinality(S) <= Cardinality(W)
<1> DEFINE holder == [x \in S |-> CHOOSE w \in W : held[w] = x]
<1>1. \A x \in S : holder[x] \in W /\ held[holder[x]] = x
  OBVIOUS
<1>2. holder \in Injection(S, W)
  <2>1. holder \in [S -> W] BY <1>1
  <2>2. \A x, y \in S : holder[x] = holder[y] => x = y BY <1>1
  <2>3. QED BY <2>1, <2>2 DEF Injection, IsInjective
<1> HIDE DEF holder
<1>3. IsFiniteSet(S) /\ Cardinality(S) <= Cardinality(W)
  BY <1>2, FS_Injection
<1>4. QED BY <1>3, FS_CardinalityType

\* A message taken from the queue that is not in the database is in the hands
\* of a thread.
LEMMA UncommittedIsHeld ==
  ASSUME ProcessInv, Written, NEW i \in 1..popped, i \notin committed
  PROVE  \E w \in Workers : hand[w] = i
BY DEF ProcessInv, Written, EveryMessageHasOneHome

\* The rows of the window that Prep has been at and that are not in the
\* database are those of messages the threads hold or have not taken.
LEMMA AbsentIsUncommitted ==
  ASSUME ProcessInv, Rows, mode = "prepare", main # "aborted",
         NEW x \in Slots, Past(x), x \notin rows
  PROVE  \E i \in 1..Len(sent) : RowOf(i) = x /\ sent[i] = x /\ i \notin committed
<1> USE DEF ProcessInv, Typed, Log
<1>1. PICK i \in 1..Len(sent) : sent[i] = x BY DEF Covered
<1>2. RowOf(i) = x BY <1>1, RowIsMessage
<1>3. i \notin committed BY <1>2 DEF Rows
<1>4. QED BY <1>1, <1>2, <1>3

\* In a prepare, of the minutes before that of a message a thread is about to
\* insert only what the other threads hold is missing.
LEMMA FewBehind ==
  ASSUME ProcessInv, OwnInv, mode = "prepare", main # "aborted",
         NEW w \in Workers, hand[w] # 0
  PROVE  LET older == {r \in Slots : r.ts < RowOf(hand[w]).ts} \ rows
         IN  IsFiniteSet(older) /\ Cardinality(older) <= LoaderThreads - 1
<1> DEFINE n == hand[w]
           older == {r \in Slots : r.ts < RowOf(n).ts} \ rows
           held == [v \in Workers |-> RowOf(hand[v])]
<1> USE DEF ProcessInv, Typed, Log
<1>1. /\ n \in 1..popped /\ n \in 1..Len(sent)
      /\ \A i : i \in 1..Len(sent) <=> i \in Nat /\ 1 <= i /\ i <= Len(sent)
      /\ popped \in 0..Len(sent) /\ Len(sent) \in Nat
  BY ConfigAssumption DEF ProcessTypeOK
<1>2. /\ RowOf(n) = sent[n] /\ sent[n] \in Slots
      /\ sent[n].ts \in Nat /\ ts \in Nat /\ startTimestamp \in Nat
  BY <1>1, RowIsMessage DEF Slots, ProcessTypeOK
<1>3. sent[n].ts <= ts
  <2>1. Past(sent[n]) BY <1>1 DEF OnlyPast
  <2>2. QED BY <1>2, <2>1 DEF Past
<1>4. ASSUME NEW x \in older
      PROVE  \E v \in Workers \ {w} : held[v] = x
  <2>1. x \in Slots /\ x \notin rows /\ x.ts < sent[n].ts
    BY <1>2
  <2>2. x.ts < ts /\ x.ts \in Int
    BY <1>2, <1>3, <2>1 DEF Slots
  <2>3. PICK i \in 1..Len(sent) : RowOf(i) = x /\ sent[i] = x /\ i \notin committed
    BY <2>1, <2>2, AbsentIsUncommitted DEF OwnInv, Past
  <2>4. ~Earlier(sent[n], sent[i])
    BY <1>2, <2>1, <2>2, <2>3 DEF Earlier
  <2>5. ~(n < i) /\ n # i BY <1>1, <2>1, <2>2, <2>3, <2>4 DEF InOrder
  <2>6. i \in 1..popped BY <1>1, <2>5
  <2>7. PICK v \in Workers : hand[v] = i
    BY <2>3, <2>6, UncommittedIsHeld DEF OwnInv
  <2>8. QED BY <2>3, <2>5, <2>7
<1> HIDE DEF held, n, older
<1>5. IsFiniteSet(older) /\ Cardinality(older) <= Cardinality(Workers \ {w})
  <2>1. \A x \in older : \E v \in Workers \ {w} : held[v] = x
    BY <1>4
  <2>2. IsFiniteSet(Workers \ {w})
    BY WorkersCount
  <2> QED BY ONLY <2>1, <2>2, HeldAreFew
<1>6. QED BY <1>5, WorkersCount DEF older, n
-----------------------------------------------------------------------------
(* The process as a LoadJob.                                               *)

Lax == INSTANCE LoadJob WITH phase <- JobPhase, first <- startTimestamp,
                             Behind <- LoaderThreads - 1,
                             Missing <- LoaderThreads

\* main returns success.
Succeeds ==
  /\ main = "display" /\ retval = "success" /\ main' = "exited"
  /\ UNCHANGED <<dbVars, loopVars, flags, queueVars, threadVars>>

\* The window of LoadJob is what Preparer may push.
LEMMA WindowIsSlots == Lax!Window(startTimestamp) = Slots
BY DEF Lax!Window, Slots

\* LoadJob counts as this module does.
LEMMA LaxCardinality == \A S : Lax!Cardinality(S) = Cardinality(S)
BY DEF Lax!Cardinality, Cardinality

\* A row written by a thread is one that LoadJob allows.
LEMMA WriteIsAllowed ==
  ASSUME ProcessInv, OwnInv, NEW w \in Workers, Write(w, RowOf(hand[w]))
  PROVE  /\ RowOf(hand[w]) \in Lax!Window(startTimestamp)
         /\ Lax!Write(RowOf(hand[w]))
         /\ startTimestamp > 0
<1> USE DEF ProcessInv, Typed
<1>1. /\ w \in DriverThreads /\ hand[w] \in 1..popped /\ hand[w] \in 1..Len(sent)
      /\ hand[w] # 0
  BY BusyHolds DEF Write, ProcessTypeOK
<1>2. hand[w] \notin committed BY DEF Write, OwnInv, ExecFresh
<1>3. RowOf(hand[w]) \in Slots /\ RowOf(hand[w]) \notin rows
  BY <1>1, <1>2, RowIsMessage, FreshRow DEF Log, OwnInv
<1>4. startTimestamp > 0 BY <1>1 DEF Locals, ProcessTypeOK
<1>5. main # "aborted" BY DEF Write, Alive
<1>6. mode = "prepare" =>
        Cardinality({r \in Slots : r.ts < RowOf(hand[w]).ts} \ rows) <= LoaderThreads - 1
  BY <1>1, <1>5, FewBehind
<1>7. rows' = rows \cup {RowOf(hand[w])} BY DEF Write
<1>8. Lax!Write(RowOf(hand[w]))
  BY <1>3, <1>6, <1>7, WindowIsSlots, LaxCardinality DEF Lax!Write
<1>9. QED BY <1>3, <1>4, <1>8, WindowIsSlots

\* Every step but the last of a successful process is one of LoadJob.
LEMMA JobStep ==
  ASSUME ProcessInv, OwnInv, OwnStep
  PROVE  \/ Lax!Clear \/ Lax!Choose \/ Lax!Insert \/ Lax!Fail \/ Lax!StartAgain
         \/ UNCHANGED Lax!vars
         \/ Succeeds
<1> DEFINE Goal == \/ Lax!Clear \/ Lax!Choose \/ Lax!Insert \/ Lax!Fail
                   \/ Lax!StartAgain \/ UNCHANGED Lax!vars \/ Succeeds
<1> USE DEF ProcessInv, Typed, JobPhase, Alive, Lax!vars
<1>0. startTimestamp \in Nat BY DEF ProcessTypeOK
<1>1. CASE DisplayAndReturn
  <2>1. CASE retval = "success" BY <1>1, <2>1 DEF DisplayAndReturn, Succeeds
  <2>2. CASE retval = "failure"
    BY <1>1, <2>2 DEF DisplayAndReturn, Locals, Lax!Fail
  <2>3. QED BY <2>1, <2>2 DEF ProcessTypeOK
<1>2. CASE MainStep /\ ~DisplayAndReturn
  <2>1. Alive /\ Alive' /\ UNCHANGED <<rows, mode, startTimestamp>>
    BY <1>2 DEF MainStep, StartReporter, NextMinute, PushMessage, PrepWaitSize,
       PrepWaitEmpty, RunWaitSize, LoadFinished, JoinReporter,
       SetProcessingComplete, JoinThreads
  <2>2. QED BY <2>1
<1>3. CASE Clear
  BY <1>3 DEF Clear, Launch, Locals, NotChosen, Lax!Clear
<1>4. CASE Choose
  <2>1. main = "range" /\ \A w \in Workers : \A row : ~Write(w, row)
    BY <1>4 DEF Choose, Choice, Write
  <2>2. \A r \in rows : r.ts < startTimestamp'
    BY <1>4, <2>1 DEF OwnStep, Choose
  <2>3. startTimestamp' > 0 /\ startTimestamp = 0 /\ main' \in {"time", "Run"}
        /\ UNCHANGED <<rows, mode>>
    BY <1>4 DEF Choose, Choice, Locals, NotChosen
  <2>4. QED BY <2>1, <2>2, <2>3 DEF Lax!Choose
<1>5. CASE Start BY <1>5 DEF Start, Launch
<1>6. CASE RangeFails
  <2>1. startTimestamp = 0 /\ UNCHANGED <<rows, mode, startTimestamp>>
    BY <1>6 DEF RangeFails, Launch, Locals, NotChosen
  <2>2. QED BY <1>6, <2>1 DEF RangeFails, Launch, Lax!Fail
<1>7. ASSUME NEW t, Move(t) PROVE Goal
  BY <1>0, <1>7 DEF Move, Lax!Fail
<1>8. CASE Kill BY <1>0, <1>8 DEF Kill, Lax!Fail
<1>9. CASE ReporterExits \/ UNCHANGED vars BY <1>9 DEF ReporterExits, vars
<1>10. CASE Restart
  <2>1. /\ JobPhase \in {"done", "failed"} /\ JobPhase' = "new"
        /\ mode' \in Modes /\ startTimestamp' = 0 /\ UNCHANGED rows
    BY <1>10 DEF Restart, Entry
  <2>2. QED BY <2>1 DEF Lax!StartAgain
<1>11. ASSUME NEW w, WaitAndPop(w) \/ Finish(w) PROVE Goal
  BY <1>11 DEF WaitAndPop, Finish
<1>12. ASSUME NEW w \in Workers, Write(w, RowOf(hand[w])) PROVE Goal
  <2>1. /\ RowOf(hand[w]) \in Lax!Window(startTimestamp)
        /\ Lax!Write(RowOf(hand[w])) /\ startTimestamp > 0
    BY <1>12, WriteIsAllowed
  <2>2. JobPhase = "loading" /\ UNCHANGED <<mode, startTimestamp>>
    BY <1>12, <2>1 DEF Write
  <2>3. CASE main' = main
    <3>1. JobPhase' = "loading" BY <1>12, <2>1, <2>2, <2>3 DEF Write
    <3>2. QED BY <2>1, <2>2, <3>1 DEF Lax!Insert
  <2>4. CASE main' = "aborted"
    <3>1. JobPhase' = "failed" BY <2>4
    <3>2. QED BY <2>1, <2>2, <3>1 DEF Lax!Fail
  <2>5. QED BY <1>12, <2>3, <2>4 DEF Write
<1>13. QED
  BY <1>1, <1>2, <1>3, <1>4, <1>5, <1>6, <1>7, <1>8, <1>9, <1>10, <1>11,
     <1>12 DEF OwnStep, Common

\* The process starts as a LoadJob does.
LEMMA InitJob == Init => Lax!Init
BY DEF Init, Entry, Lax!Init, JobPhase, Alive
=============================================================================
