----------------------------- MODULE RateLimiter -----------------------------
(***************************************************************************)
(* Pacing by --rate: class RateLimiter of src/tgt/sender.py between the    *)
(* send loop of a cycle-mode run, which calls wait() before each frame and *)
(* may be held up anywhere (a pause, a slow interface, the build of the    *)
(* next cycle), and the control thread that calls set_rate() meanwhile.    *)
(* Neither takes a lock, so every action here reads or writes one field at *)
(* most, or the clock: `self._next += self.interval' is a read of each and *)
(* a write, `self._next = perf_counter()' a read of the clock and a write. *)
(*                                                                         *)
(* A window begins at some frame, any frame, or at a change of the rate;   *)
(* what is shown of one window holds of all.                               *)
(***************************************************************************)
EXTENDS Integers

CONSTANTS
  Intervals,   \* time between two frames at the rates set; 0 is unlimited
  Backlog,     \* MAX_BACKLOG
  MaxTime,     \* bound: time
  MaxFrames    \* bound: frames of a window

ASSUME IntervalsAssumption == Intervals \subseteq Nat
ASSUME BoundsAssumption == Backlog \in Nat /\ MaxTime \in Nat /\ MaxFrames \in Nat

VARIABLES
  now,         \* perf_counter()
  interval, next,       \* RateLimiter.interval, ._next
  pc,          \* of wait() and the frame after it
  sum,         \* what wait() has added up for _next
  seen,        \* now of wait(): the clock as it read it
  delay, wake, \* delay of wait(), and when the sleep it asks for ends
  setting,     \* of set_rate(): the interval is written, _next is not yet
  reset,       \* the clock as set_rate() read it
  from, frames,         \* history: begin of the window, frames sent in it
  crossed      \* history: set_rate() wrote _next after wait() read the clock

limiter == <<interval, next>>
call == <<pc, sum, seen, delay, wake>>
control == <<setting, reset>>
window == <<from, frames>>
vars == <<now, limiter, call, control, window, crossed>>

Init ==
  /\ now = 0
  /\ interval \in Intervals /\ next = 0
  /\ pc = "idle" /\ sum = 0 /\ seen = 0 /\ delay = 0 /\ wake = 0
  /\ setting = "idle" /\ reset = 0
  /\ from = 0 /\ frames = 0 /\ crossed = FALSE

Tick ==
  /\ now < MaxTime /\ now' = now + 1
  /\ UNCHANGED <<limiter, call, control, window, crossed>>

-----------------------------------------------------------------------------
(* wait(), and the frame that goes out after it.                           *)

Ask ==
  /\ pc = "idle" /\ frames < MaxFrames
  /\ pc' = IF interval = 0 THEN "send" ELSE "next"
  /\ UNCHANGED <<now, limiter, sum, seen, delay, wake, control, window, crossed>>

ReadNext ==
  /\ pc = "next" /\ pc' = "interval"
  /\ sum' = next
  /\ UNCHANGED <<now, limiter, seen, delay, wake, control, window, crossed>>

ReadInterval ==
  /\ pc = "interval" /\ pc' = "add"
  /\ sum' = sum + interval
  /\ UNCHANGED <<now, limiter, seen, delay, wake, control, window, crossed>>

Add ==
  /\ pc = "add" /\ pc' = "clock"
  /\ next' = sum
  /\ UNCHANGED <<now, interval, sum, seen, delay, wake, control, window, crossed>>

ReadClock ==
  /\ pc = "clock" /\ pc' = "delay"
  /\ seen' = now /\ crossed' = FALSE
  /\ UNCHANGED <<now, limiter, sum, delay, wake, control, window>>

\* The slot was to come when the clock was read: sleep for what was missing
\* then. It had come: send, but too late, resync first.
Delay ==
  /\ pc = "delay"
  /\ delay' = next - seen
  /\ \/ delay' > 0 /\ pc' = "sleep" /\ wake' = now + delay'
     \/ delay' \in -Backlog..0 /\ pc' = "send" /\ UNCHANGED wake
     \/ delay' < -Backlog /\ pc' = "resync" /\ UNCHANGED wake
  /\ UNCHANGED <<now, limiter, sum, seen, control, window, crossed>>

\* mutant: a stall is caught up with, however long it was
CatchesUp ==
  /\ pc = "resync" /\ pc' = "send"
  /\ UNCHANGED <<now, limiter, sum, seen, delay, wake, control, window, crossed>>

\* mutant: the slot after a stall is skipped
SkipsSlot ==
  /\ pc = "resync" /\ pc' = "send"
  /\ next' = seen + interval
  /\ UNCHANGED <<now, interval, sum, seen, delay, wake, control, window, crossed>>

\* What is missed is forgotten.
Resync ==
  /\ pc = "resync" /\ pc' = "send"
  /\ next' = seen
  /\ UNCHANGED <<now, interval, sum, seen, delay, wake, control, window, crossed>>

Awake ==
  /\ pc = "sleep" /\ now >= wake
  /\ pc' = "send"
  /\ UNCHANGED <<now, limiter, sum, seen, delay, wake, control, window, crossed>>

\* The frame leaves; a window may begin with it. wait()'s locals are gone.
Send(begins) ==
  /\ pc = "send" /\ pc' = "idle"
  /\ sum' = 0 /\ seen' = 0 /\ delay' = 0 /\ wake' = 0 /\ crossed' = FALSE
  /\ IF begins THEN from' = now /\ frames' = 1
               ELSE from' = from /\ frames' = frames + 1
  /\ UNCHANGED <<now, limiter, control>>

-----------------------------------------------------------------------------
(* set_rate(), from a control thread.                                      *)

SetInterval(i) ==
  /\ setting = "idle" /\ setting' = "clock"
  /\ interval' = i
  /\ from' = now /\ frames' = 0
  /\ UNCHANGED <<now, next, call, reset, crossed>>

ResetClock ==
  /\ setting = "clock" /\ setting' = "reset"
  /\ reset' = now
  /\ UNCHANGED <<now, limiter, call, window, crossed>>

ResetNext ==
  /\ setting = "reset" /\ setting' = "idle" /\ reset' = 0
  /\ next' = reset
  /\ crossed' = (crossed \/ pc = "delay")
  /\ from' = now /\ frames' = 0
  /\ UNCHANGED <<now, interval, call>>

Wait ==
  \/ Ask \/ ReadNext \/ ReadInterval \/ Add \/ ReadClock
  \/ Delay \/ Resync \/ Awake

Next ==
  \/ Tick \/ Wait \/ ResetClock \/ ResetNext
  \/ \E begins \in BOOLEAN : Send(begins)
  \/ \E i \in Intervals : SetInterval(i)

Spec == Init /\ [][Next]_vars

-----------------------------------------------------------------------------
(* Properties.                                                             *)

\* The types of the limiter and its two callers (RateLimiter.__init__).
TypeOK ==
  /\ now \in Nat /\ interval \in Intervals /\ next \in Nat
  /\ sum \in Nat /\ seen \in Nat /\ delay \in Int /\ wake \in Nat
  /\ from \in Nat /\ frames \in Nat
  /\ pc \in {"idle", "next", "interval", "add", "clock", "delay", "resync",
            "sleep", "send"}
  /\ setting \in {"idle", "clock", "reset"} /\ reset \in Nat
  /\ crossed \in BOOLEAN
  /\ from <= now /\ seen <= now /\ reset <= now

\* The rate holds over every stretch of time, however short or long, and
\* whatever pauses and stalls fall into it: frames beyond the first two cost
\* an interval each, but for MAX_BACKLOG ("instead of bursting the whole
\* backlog onto the wire", sender.py:187), and a change of the rate on the
\* way to a frame starts no burst.
RateBounded ==
  frames > 2 => (frames - 2) * interval <= now - from + Backlog

\* A frame sleeps no longer than an interval of one of the rates set: slots
\* never get further ahead of the clock, whatever set_rate() writes into the
\* middle of wait(). But for one place: set_rate() between the read of the
\* clock and that of _next (sender.py:179, 180). Then the frame, whose slot
\* has come, sleeps for as long as wait() was held up between the two.
HeldOneInterval ==
  pc = "sleep" =>
    \/ \E i \in Intervals : delay <= i
    \/ crossed /\ delay <= (wake - delay) - seen
=============================================================================
