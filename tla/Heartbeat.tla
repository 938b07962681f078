------------------------------- MODULE Heartbeat -------------------------------
(***************************************************************************)
(* watchdog.py: whether the scheduled watch is still asking.  A timer      *)
(* starts a pass every Interval, a pass takes up to Interval, and its end  *)
(* is recorded; status and notify judge the record against the wall clock. *)
(* The timer dies, the fleet becomes unresolvable, the record cannot be    *)
(* written, the clock is set, and an operator runs watch by hand.          *)
(***************************************************************************)
EXTENDS Integers

CONSTANTS
  Interval,  \* --interval of the timer's passes
  MaxClock   \* bound: the last tick

VARIABLES
  clock,    \* the wall clock
  back,     \* how far it was ever set back, once at most
  set,      \* whether it was set
  timer,    \* installed and firing
  since,    \* ticks since the timer last started a pass
  running,  \* a pass of the timer is under way
  beat,     \* the heartbeat file: stamp and declared interval
  age,      \* ticks since a pass was last recorded
  faults    \* a pass went unrecorded

vars == <<clock, back, set, timer, since, running, beat, age, faults>>

None == [stamp |-> -1, interval |-> 0]
HeartbeatAssumption == Interval \in Nat \ {0} /\ MaxClock \in Nat

Init ==
  /\ clock \in 0..Interval /\ back = 0 /\ set = FALSE /\ timer = TRUE /\ since = Interval
  /\ running = FALSE /\ beat = None /\ age = 0 /\ faults = FALSE

-----------------------------------------------------------------------------
(* read_state *)

\* Mutant: a pass that is one interval late counts as a dead timer.
OneInterval == 1
StaleIntervals == 2

Delta == clock - beat.stamp
Status ==
  CASE beat = None               -> "never"
    [] beat # None /\ Delta < 0  -> "skewed"
    [] beat # None /\ Delta >= 0 ->
         IF beat.interval = 0 THEN "unknown"
         ELSE IF Delta > beat.interval * StaleIntervals THEN "stale" ELSE "fresh"
NeedsAttention == Status \in {"never", "stale", "skewed"}

-----------------------------------------------------------------------------
(* The passes. *)

RecordPass(interval) == beat' = [stamp |-> clock, interval |-> interval] /\ age' = 0

Start ==
  /\ timer /\ ~running /\ since >= Interval /\ running' = TRUE /\ since' = 0
  /\ UNCHANGED <<clock, back, set, timer, beat, age, faults>>

\* _cmd_watch ends in record_pass, but for an empty fleet, which exits 2 before it.
Complete ==
  /\ running /\ running' = FALSE
  /\ \/ RecordPass(Interval) /\ UNCHANGED faults
     \/ faults' = TRUE /\ UNCHANGED <<beat, age>>
  /\ UNCHANGED <<clock, back, set, timer, since>>

\* An operator's own watch, with an --interval or without.
ByHand ==
  /\ \E interval \in {0, Interval} : RecordPass(interval)
  /\ UNCHANGED <<clock, back, set, timer, since, running, faults>>

Die == timer /\ timer' = FALSE /\ running' = FALSE
       /\ UNCHANGED <<clock, back, set, since, beat, age, faults>>

\* A pass starts when it is due and takes no longer than the schedule it is on.
Tick ==
  /\ clock < MaxClock /\ clock' = clock + 1 /\ age' = age + 1
  /\ timer => since < Interval
  /\ since' = IF since < Interval THEN since + 1 ELSE since
  /\ UNCHANGED <<back, set, timer, running, beat, faults>>

SetClock ==
  /\ ~set /\ set' = TRUE
  /\ \E now \in 0..MaxClock : /\ now # clock /\ clock' = now
                              /\ back' = IF now < clock THEN clock - now ELSE 0
  /\ UNCHANGED <<timer, since, running, beat, age, faults>>

Next == Start \/ Complete \/ ByHand \/ Die \/ Tick \/ SetClock
Spec == Init /\ [][Next]_vars

-----------------------------------------------------------------------------
TypeOK ==
  /\ clock \in 0..MaxClock /\ back \in 0..MaxClock /\ since \in 0..Interval /\ age \in Nat
  /\ beat \in {None} \cup [stamp : 0..MaxClock, interval : {0, Interval}]
  /\ {set, timer, running, faults} \subseteq BOOLEAN

\* "If the timer stops firing it goes on reading green for ever" (watchdog.py) is what
\* must not be: where the last pass declared its schedule, quiet means that one was
\* recorded within two intervals, and what the clock was set back since; and while the
\* timer fires, nothing goes unrecorded and the clock is left alone, "a pass that
\* merely overlaps its own schedule is late, not dead": nobody is alarmed.
SilenceIsTold ==
  /\ ~NeedsAttention /\ beat.interval > 0 => age <= 2 * Interval + back
  /\ NeedsAttention => \/ beat = None \/ set \/ faults \/ ~timer
=============================================================================
