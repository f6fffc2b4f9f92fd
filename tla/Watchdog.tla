------------------------------ MODULE Watchdog ------------------------------
(***************************************************************************)
(* The deadman watchdog of the sidecar: HeartbeatHandle, touched by every  *)
(* Heartbeat RPC of the Brain, and the loop that disarms command intake    *)
(* when heartbeats stop.  The handle is two atomics; neither a touch nor a *)
(* check is atomic over both.                                              *)
(*                                                                         *)
(* Time passes in seconds, the resolution of the code.  What the code does *)
(* without waiting takes no time: a second passes only while the loop      *)
(* sleeps and no touch is half done.  The wall clock is never set.         *)
(***************************************************************************)
EXTENDS Integers

CONSTANTS
  Timeout,    \* WatchdogConfig.timeout_secs
  Interval,   \* WatchdogConfig.check_interval_secs
  Enabled     \* WatchdogConfig.enabled

ASSUME WatchdogAssumption ==
  Timeout \in Nat /\ Interval \in Nat \ {0} /\ Enabled \in BOOLEAN

VARIABLES
  age,      \* now_secs() - last_seen_secs, counted up to Stale
  intake,   \* HeartbeatState.armed: is command intake armed?
  due,      \* seconds left of the loop's sleep
  check,    \* where the loop is: "sleep", "late", "disarm"
  beat      \* where a touch is: "idle", "stored"

watchdogVars == <<age, intake, due, check, beat>>

\* A bound on age: beyond it nothing depends on how old a heartbeat is.
Stale == Timeout + Interval + 1

WatchdogInit == age = 0 /\ intake = TRUE /\ due = Interval /\ check = "sleep" /\ beat = "idle"

\* Mutant of TouchLastSeen: the stored second is rounded up.
TouchRoundedUp ==
  /\ beat = "idle" /\ beat' = "stored"
  /\ age' = -1
  /\ UNCHANGED <<intake, due, check>>

\* HeartbeatHandle::touch, store by store.
TouchLastSeen ==
  /\ beat = "idle" /\ beat' = "stored"
  /\ age' = 0
  /\ UNCHANGED <<intake, due, check>>

\* Mutant of TouchArmed: a touch only keeps intake armed.
TouchKeeps ==
  /\ beat = "stored" /\ beat' = "idle"
  /\ UNCHANGED <<age, intake, due, check>>

TouchArmed ==
  /\ beat = "stored" /\ beat' = "idle"
  /\ intake' = TRUE
  /\ UNCHANGED <<age, due, check>>

\* Mutant of Late: the comparison is the wrong way round.
LateReversed == age < Timeout

Late == age > Timeout

\* Watchdog::run wakes up and reads the age of the last heartbeat ...
CheckElapsed ==
  /\ check = "sleep" /\ due = 0
  /\ IF Late /\ Enabled
       THEN check' = "late" /\ UNCHANGED due
       ELSE check' = "sleep" /\ due' = Interval
  /\ UNCHANGED <<age, intake, beat>>

\* Mutant of CheckArmed: the test is negated.
CheckDisarmed ==
  /\ check = "late"
  /\ IF ~intake THEN check' = "disarm" /\ UNCHANGED due
               ELSE check' = "sleep" /\ due' = Interval
  /\ UNCHANGED <<age, intake, beat>>

\* ... then whether intake is armed ...
CheckArmed ==
  /\ check = "late"
  /\ IF intake THEN check' = "disarm" /\ UNCHANGED due
              ELSE check' = "sleep" /\ due' = Interval
  /\ UNCHANGED <<age, intake, beat>>

\* ... and disarms it.
Disarm ==
  /\ check = "disarm" /\ check' = "sleep" /\ due' = Interval
  /\ intake' = FALSE
  /\ UNCHANGED <<age, beat>>

Second ==
  /\ check = "sleep" /\ due > 0 /\ beat = "idle"
  /\ due' = due - 1
  /\ age' = IF age = Stale THEN age ELSE age + 1
  /\ UNCHANGED <<intake, check, beat>>

Loop == CheckElapsed \/ CheckArmed \/ Disarm

WatchdogNext == TouchLastSeen \/ TouchArmed \/ Loop \/ Second

WatchdogSpec == WatchdogInit /\ [][WatchdogNext]_watchdogVars

\* The loop and a touch run on; the Brain owes no heartbeat.
WatchdogFairSpec == WatchdogSpec /\ WF_watchdogVars(Loop) /\ WF_watchdogVars(TouchArmed)

-----------------------------------------------------------------------------
(* Properties.                                                             *)

WatchdogTypeOK ==
  /\ age \in 0 .. Stale /\ due \in 0 .. Interval
  /\ intake \in BOOLEAN
  /\ check \in {"sleep", "late", "disarm"} /\ beat \in {"idle", "stored"}

\* The watchdog period is bounded: intake is not armed longer than the
\* timeout and one check interval after the last heartbeat.
DisarmsInTime ==
  Enabled /\ intake /\ beat = "idle" => age <= Timeout + Interval

\* A Brain whose heartbeats are never older than the timeout is never
\* refused a command.
StaysArmed == [](age <= Timeout) => []intake

\* After the Brain comes back, intake is armed for good, although a touch
\* may be overwritten by a check that had read the old age: later heartbeats
\* put it right.
Rearms ==
  /\ <>[](age <= Timeout)
  /\ []<><<TouchLastSeen>>_watchdogVars
  => <>[]intake
=============================================================================
