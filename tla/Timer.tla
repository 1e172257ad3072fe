------------------------------- MODULE Timer -------------------------------
(***************************************************************************)
(* The timer (earth/cpu_timer.c).  mtime and mtimecmp have twice the width *)
(* of a register, so the 32-bit code reads and writes them in halves while *)
(* the clock runs.  Definitions named X_without_Y are wrong versions of X. *)
(***************************************************************************)
EXTENDS Naturals

CONSTANTS
    HALF,      \* 2^32: the number of values of a half
    QUANTUM,   \* ticks of a time slice
    MaxTime    \* bound on the clock; the hardware never gets to its last half

ASSUME TimerAssumption ==
    /\ HALF \in Nat /\ HALF > 1
    /\ QUANTUM \in Nat \ {0}
    /\ MaxTime \in Nat /\ MaxTime + QUANTUM < HALF * (HALF - 1)

VARIABLES
    mtime,      \* the clock
    mtimecmp,   \* the deadline: an interrupt is pending from then on
    pc,         \* where the code is
    caller,     \* who asked for the time: timer_reset or gettime
    high, low,  \* the locals of mtime_get
    time,       \* what mtime_get returned, or the new deadline
    last_time,  \* static in gettime
    began,      \* when the caller was called
    armed       \* when the last timer_reset was called

vars == <<mtime, mtimecmp, pc, caller, high, low, time, last_time,
          began, armed>>

\* Whether the timer interrupt is pending.
MTIP == mtime >= mtimecmp

Init ==
    /\ mtime = 0 /\ mtimecmp = QUANTUM
    /\ pc = "idle" /\ caller = "timer_reset"
    /\ high = 0 /\ low = 0 /\ time = 0
    /\ last_time = 0
    /\ began = 0 /\ armed = 0

tick ==
    /\ mtime < MaxTime
    /\ mtime' = mtime + 1
    /\ UNCHANGED <<mtimecmp, pc, caller, high, low, time, last_time,
                   began, armed>>

call(who) ==
    /\ pc = "idle"
    /\ pc' = "read_high" /\ caller' = who /\ began' = mtime
    /\ UNCHANGED <<mtime, mtimecmp, high, low, time, last_time, armed>>

-----------------------------------------------------------------------------
(***************************************************************************)
(* mtime_get                                                               *)
(***************************************************************************)
Constant == <<mtime, mtimecmp, caller, last_time, began, armed>>

read_high ==
    /\ pc = "read_high"
    /\ high' = mtime \div HALF
    /\ pc' = "read_low"
    /\ UNCHANGED <<Constant, low, time>>

read_low ==
    /\ pc = "read_low"
    /\ low' = mtime % HALF
    /\ pc' = "read_again"
    /\ UNCHANGED <<Constant, high, time>>

\* The loop runs once.
read_again_without_check ==
    /\ pc = "read_again"
    /\ time' = high * HALF + low /\ pc' = caller
    /\ UNCHANGED <<Constant, high, low>>

\* If the high half has changed in between, read both again.
read_again ==
    /\ pc = "read_again"
    /\ \/ mtime \div HALF # high /\ pc' = "read_high" /\ UNCHANGED time
       \/ /\ mtime \div HALF = high
          /\ time' = high * HALF + low /\ pc' = caller
    /\ UNCHANGED <<Constant, high, low>>

-----------------------------------------------------------------------------
(***************************************************************************)
(* timer_reset and gettime go on from there.                               *)
(***************************************************************************)
Rest == <<mtime, caller, high, low, last_time, began>>

\* The high half keeps its value while the low one changes.
mtimecmp_set_without_max ==
    /\ pc = "timer_reset"
    /\ mtimecmp' = mtimecmp
    /\ time' = time + QUANTUM /\ armed' = began
    /\ pc' = "set_low"
    /\ UNCHANGED Rest

\* mtimecmp_set(mtime_get() + QUANTUM): the high half is set to its largest
\* value first.
mtimecmp_set ==
    /\ pc = "timer_reset"
    /\ mtimecmp' = (HALF - 1) * HALF + (mtimecmp % HALF)
    /\ time' = time + QUANTUM /\ armed' = began
    /\ pc' = "set_low"
    /\ UNCHANGED Rest

set_low ==
    /\ pc = "set_low"
    /\ mtimecmp' = (mtimecmp \div HALF) * HALF + (time % HALF)
    /\ pc' = "set_high"
    /\ UNCHANGED <<Rest, time, armed>>

set_high ==
    /\ pc = "set_high"
    /\ mtimecmp' = (time \div HALF) * HALF + (mtimecmp % HALF)
    /\ pc' = "idle"
    /\ UNCHANGED <<Rest, time, armed>>

gettime ==
    /\ pc = "gettime"
    /\ last_time' = time
    /\ pc' = "idle"
    /\ UNCHANGED <<mtime, mtimecmp, caller, high, low, time, began, armed>>

Next ==
    \/ tick
    \/ \E who \in {"timer_reset", "gettime"} : call(who)
    \/ read_high \/ read_low \/ read_again
    \/ mtimecmp_set \/ set_low \/ set_high
    \/ gettime

Spec == Init /\ [][Next]_vars

-----------------------------------------------------------------------------
(***************************************************************************)
(* Properties.                                                             *)
(***************************************************************************)
\* mtime_get returns a time between its call and its return, although the
\* clock carries into the high half between the two reads; so gettime never
\* sees the time it returned before overtake the new one.
TimeIsCurrent ==
    /\ pc \in {"timer_reset", "gettime"} => began <= time /\ time <= mtime
    /\ pc = "gettime" => last_time <= time

\* The interrupt stays away until QUANTUM ticks after the call of the
\* timer_reset that wrote mtimecmp last, also while it writes: no mixture of
\* an old and a new half of mtimecmp lies in the past.
QuantumGuaranteed == MTIP => mtime >= armed + QUANTUM
=============================================================================
