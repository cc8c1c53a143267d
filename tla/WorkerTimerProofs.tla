------------------------- MODULE WorkerTimerProofs -------------------------
(***************************************************************************)
(* The guard terminates no worker that is within its timeout and the       *)
(* buffer, for any timeouts and any cycle, as long as a worker that does   *)
(* not hang is done before the buffer is used up (SLACK < BUFFER).         *)
(***************************************************************************)
EXTENDS WorkerTimer, TLAPS

Arming == {"armed", "tested", "adding"}
Running == {"run", "hung", "ended", "locked", "put"}
Places == {"get", "taken", "leaving", "dead"} \cup Arming \cup Running

Types == /\ wpc \in Places
         /\ limit \in {Idle} \cup (Nat \ {0})
         /\ elapsed \in Nat /\ nap \in Nat
         /\ timer \in Int /\ reg \in Int
         /\ timedout \in BOOLEAN

\* While the worker arms its timer the clock stands still: the guard comes once at
\* most, so that what it takes off is still to be slept.
ArmingInv ==
  wpc \in Arming =>
    /\ elapsed = 0
    /\ limit = Idle => timer = Idle /\ wpc = "armed"
    /\ limit # Idle => /\ timer + nap >= limit
                       /\ wpc = "adding" => reg + nap >= limit

\* What the timer still has, what the worker has used and what the guard still sleeps
\* make up the timeout and the buffer, until a task that hangs is past both; a timer
\* that has gone below 0 stays there.
RunningInv ==
  wpc \in Running =>
    /\ limit = Idle => timer = Idle
    /\ limit # Idle => /\ timer >= 0 => \/ timer + elapsed + nap >= limit + BUFFER
                                        \/ wpc = "hung" /\ elapsed >= limit + SLACK
                       /\ wpc # "hung" => elapsed <= limit + SLACK

\* Who is between two tasks is idle, who leaves has timed out or is recycled.
AwayInv == /\ wpc \in {"get", "taken"} => timer = Idle
           /\ wpc = "leaving" => timer = Recycled \/ (timer = 0 /\ timedout)

TimerInv == Types /\ ArmingInv /\ RunningInv /\ AwayInv

LEMMA TimerInit == Init => TimerInv
<1> SUFFICES ASSUME Init PROVE TimerInv
  OBVIOUS
<1>1. Types
  <2>1. timedout \in BOOLEAN
    BY Zenon DEF Init
  <2>2. wpc \in Places /\ limit \in {Idle} \cup (Nat \ {0})
    BY DEF Init, Places
  <2>3. elapsed \in Nat /\ nap \in Nat /\ timer \in Int /\ reg \in Int
    BY DEF Init, Idle
  <2> QED BY <2>1, <2>2, <2>3 DEF Types
<1>2. ArmingInv /\ RunningInv
  BY DEF Init, ArmingInv, RunningInv, Arming, Running
<1>3. AwayInv
  BY DEF Init, AwayInv
<1> QED BY <1>1, <1>2, <1>3 DEF TimerInv

LEMMA TimerNext == TimerInv /\ [Next]_vars => TimerInv'
<1> SUFFICES ASSUME TimerInv, [Next]_vars PROVE TimerInv'
  OBVIOUS
<1>0. /\ BUFFER \in Nat /\ CYCLE \in Nat \ {0} /\ SLACK \in Nat
      /\ Timeouts \subseteq {-1} \cup (Nat \ {0})
  BY TimerAssumption
<1> USE <1>0 DEF TimerInv, Types, ArmingInv, RunningInv, AwayInv, Idle, Recycled,
                 Places, Arming, Running, Go
<1>1. CASE Take
  BY <1>1 DEF Take
<1>2. CASE Arm
  BY <1>2 DEF Arm
<1>3. CASE Test
  BY <1>3 DEF Test
<1>4. CASE Read
  BY <1>4 DEF Read
<1>5. CASE Add
  BY <1>5 DEF Add, Buffered
<1>6. CASE Lock \/ PutResult \/ Exit
  BY <1>6 DEF Lock, PutResult, Exit
<1>7. CASE Release
  BY <1>7 DEF Release
<1>8. CASE Hang
  BY <1>8 DEF Hang
<1>9. CASE End
  BY <1>9 DEF End
<1>10. CASE Flush
  BY <1>10 DEF Flush
<1>11. CASE Die
  <2>1. wpc' = "dead" /\ UNCHANGED <<limit, elapsed, timedout, timer, reg, nap>>
    BY <1>11, Zenon DEF Die
  <2> QED BY <2>1
<1>12. CASE Replace \/ Terminate
  <2>0. Respawn /\ nap' = CYCLE
    BY <1>12 DEF Replace, Terminate, Pass
  <2>1. Types'
    <3>1. timedout' \in BOOLEAN
      BY <2>0, Zenon DEF Respawn
    <3> QED BY <2>0, <3>1 DEF Respawn
  <2>2. (ArmingInv /\ RunningInv)'
    BY <2>0 DEF Respawn
  <2>3. AwayInv'
    BY <2>0 DEF Respawn
  <2> QED BY <2>1, <2>2, <2>3
<1>13. CASE Watch
  BY <1>13 DEF Watch, Pass, Countdown
<1>14. CASE Tick
  BY <1>14 DEF Tick, Timed
<1>15. CASE UNCHANGED vars
  BY <1>15 DEF vars
<1> QED
  BY <1>1, <1>2, <1>3, <1>4, <1>5, <1>6, <1>7, <1>8, <1>9, <1>10, <1>11, <1>12, <1>13,
     <1>14, <1>15 DEF Next, WorkerStep

\* The guard terminates a worker only where it hangs past its timeout, or on its way
\* out after one, whatever the cycle and wherever a pass falls into the arming.
THEOREM OnlyOverdueKilled == ASSUME SLACK < BUFFER PROVE Spec => KillsOnlyOverdue
<1>1. ASSUME TimerInv, Terminate
      PROVE  \/ wpc = "leaving" /\ timedout
             \/ wpc = "hung" /\ limit # Idle /\ elapsed >= limit
  <2>1. timer = 0 /\ nap = 0 /\ wpc # "dead"
    BY <1>1 DEF Terminate, Pass, Expired, Finished
  <2>2. BUFFER \in Nat /\ SLACK \in Nat
    BY TimerAssumption
  <2>3. wpc \notin Arming
    BY <1>1, <2>1 DEF TimerInv, Types, ArmingInv, Idle
  <2>4. CASE wpc \in Running
    BY <1>1, <2>1, <2>2, <2>4 DEF TimerInv, Types, RunningInv, Running, Idle
  <2>5. CASE wpc \in {"get", "taken", "leaving"}
    BY <1>1, <2>1, <2>5 DEF TimerInv, AwayInv, Idle, Recycled
  <2> QED BY <1>1, <2>1, <2>3, <2>4, <2>5 DEF TimerInv, Types, Places
<1>2. TimerInv => [Terminate => \/ wpc = "leaving" /\ timedout
                                \/ wpc = "hung" /\ limit # Idle /\ elapsed >= limit]_vars
  BY <1>1
<1> QED BY <1>2, TimerInit, TimerNext, PTL DEF Spec, KillsOnlyOverdue

-----------------------------------------------------------------------------
(* The types, for any constants. *)

\* A worker that takes a task has not had as many as it may, and has more tasks taken
\* than results at its feeder, by one from the time it takes a task until it reports.
CountInv == /\ wpc = "get" => count < RECYCLE
            /\ outbox <= count
            /\ wpc \in {"taken", "hung", "run", "ended", "locked"} \cup Arming => outbox < count

TypeInv == TypeOK /\ CountInv

LEMMA TypeInit == Init => TypeInv
<1> SUFFICES ASSUME Init PROVE TypeInv
  OBVIOUS
<1>1. timedout \in BOOLEAN /\ locked \in BOOLEAN
  BY Zenon DEF Init
<1>2. RECYCLE \in Nat \ {0} /\ CYCLE \in Nat /\ MaxDeaths \in Nat
  BY TimerAssumption
<1>3. /\ wpc = "get" /\ limit = Idle /\ elapsed = 0 /\ timer = Idle /\ reg = Idle /\ count = 0
      /\ outbox = 0 /\ nap = 0 /\ deaths = 0
  BY DEF Init
<1>4. CountInv
  BY <1>2, <1>3 DEF CountInv, Arming
<1>5. /\ timer \in Int /\ reg \in Int /\ count \in 0..RECYCLE /\ outbox \in 0..RECYCLE
      /\ nap \in 0..CYCLE /\ deaths \in 0..MaxDeaths /\ elapsed \in Nat
  BY <1>2, <1>3 DEF Idle
<1> QED BY <1>1, <1>3, <1>4, <1>5 DEF TypeInv, TypeOK

LEMMA TypeNext == TypeInv /\ [Next]_vars => TypeInv'
<1> SUFFICES ASSUME TypeInv, [Next]_vars PROVE TypeInv'
  OBVIOUS
<1>0. /\ BUFFER \in Nat /\ CYCLE \in Nat \ {0} /\ RECYCLE \in Nat \ {0} /\ MaxDeaths \in Nat
      /\ Timeouts \subseteq Int
  BY TimerAssumption
<1> DEFINE Numbers == /\ elapsed \in Nat /\ timer \in Int /\ reg \in Int /\ count \in 0..RECYCLE
                      /\ outbox \in 0..RECYCLE /\ nap \in 0..CYCLE /\ deaths \in 0..MaxDeaths
                      /\ limit \in Timeouts \cup {Idle} /\ limit \in Int
           Flags == timedout \in BOOLEAN /\ locked \in BOOLEAN
           At == wpc \in Places
<1>1. Numbers /\ Flags /\ At /\ CountInv
  <2>1. TypeOK /\ CountInv
    BY DEF TypeInv
  <2>2. Flags
    BY <2>1, Zenon DEF TypeOK
  <2>3. At
    BY <2>1 DEF TypeOK, Places, Arming, Running
  <2>4. Numbers
    BY <1>0, <2>1 DEF TypeOK, Idle
  <2> QED BY <2>1, <2>2, <2>3, <2>4
<1>2. SUFFICES (Numbers /\ Flags /\ At /\ CountInv)'
  <2>1. (Numbers /\ At)' => /\ wpc' \in {"get", "taken", "armed", "tested", "adding", "run", "hung",
                                      "ended", "locked", "put", "leaving", "dead"}
                         /\ limit' \in Timeouts \cup {Idle} /\ elapsed' \in Nat
                         /\ timer' \in Int /\ reg' \in Int
                         /\ count' \in 0..RECYCLE /\ outbox' \in 0..RECYCLE
                         /\ nap' \in 0..CYCLE /\ deaths' \in 0..MaxDeaths
    BY DEF Places, Arming, Running
  <2> QED BY <2>1, Zenon DEF TypeInv, TypeOK
<1>3. Flags'
  BY <1>1, Zenon DEF Next, WorkerStep, Take, Arm, Test, Read, Add, Hang, End, Lock, PutResult,
     Release, Flush, Exit, Die, Replace, Terminate, Watch, Pass, Respawn, Tick, vars
<1>4. (Numbers /\ At /\ CountInv)'
  <2> USE <1>0, <1>1 DEF CountInv, Places, Arming, Running, Go, Idle, Recycled
  <2>1. CASE Take
    BY <2>1 DEF Take
  <2>2. CASE Arm \/ Test
    BY <2>2 DEF Arm, Test
  <2>3. CASE Read \/ Add
    BY <2>3 DEF Read, Add, Buffered
  <2>4. CASE Hang \/ End \/ Lock
    BY <2>4 DEF Hang, End, Lock
  <2>5. CASE PutResult \/ Exit \/ Flush
    BY <2>5 DEF PutResult, Exit, Flush
  <2>6. CASE Release
    <3>1. /\ wpc = "put" /\ (wpc' = "leaving" \/ (wpc' = "get" /\ count # RECYCLE))
          /\ timer' \in {0, Recycled, Idle}
          /\ UNCHANGED <<limit, elapsed, reg, count, outbox, nap, deaths>>
      BY <2>6, Zenon DEF Release
    <3> QED BY <3>1
  <2>7. CASE Die
    <3>1. /\ wpc' = "dead" /\ outbox' = 0 /\ deaths' = deaths + 1 /\ deaths < MaxDeaths
          /\ UNCHANGED <<limit, elapsed, timer, reg, count, nap>>
      BY <2>7, Zenon DEF Die
    <3> QED BY <3>1
  <2>8. CASE Replace \/ Terminate
    <3>1. /\ wpc' = "get" /\ limit' = Idle /\ elapsed' = 0 /\ timer' = Idle /\ reg' = Idle
          /\ count' = 0 /\ outbox' = 0 /\ nap' = CYCLE /\ deaths' = deaths
      BY <2>8 DEF Replace, Terminate, Pass, Respawn
    <3> QED BY <3>1
  <2>9. CASE Watch
    BY <2>9 DEF Watch, Pass, Countdown
  <2>10. CASE Tick
    BY <2>10 DEF Tick
  <2>11. CASE UNCHANGED vars
    BY <2>11 DEF vars
  <2> QED
    BY <2>1, <2>2, <2>3, <2>4, <2>5, <2>6, <2>7, <2>8, <2>9, <2>10, <2>11 DEF Next, WorkerStep
<1> QED BY <1>3, <1>4

\* TypeOK for any timeouts, cycle and limit of tasks: no worker takes more tasks than
\* RECYCLE or leaves more results to its feeder thread.
THEOREM TypeCorrect == Spec => []TypeOK
<1>1. TypeInv => TypeOK
  BY DEF TypeInv
<1> QED BY <1>1, TypeInit, TypeNext, PTL DEF Spec
=============================================================================
