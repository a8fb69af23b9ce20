-------------------------- MODULE RateLimiter_proofs --------------------------
(***************************************************************************)
(* Proofs about RateLimiter, for all rates, backlogs and times.            *)
(*                                                                         *)
(* Paid bounds _next from below: from the second frame of a window on, each*)
(* one moved it an interval ahead, starting no earlier than Backlog before *)
(* the window. As no frame leaves before _next, the frames of the window   *)
(* are bounded by its length.                                              *)
(***************************************************************************)
EXTENDS RateLimiter, TLAPS

\* The slots of the last frame of the window and of the one before it, counted
\* from the earliest the window can start.
LastSlot == from - Backlog + (frames - 1) * interval
SlotBefore == from - Backlog + (frames - 2) * interval

\* What the frames of a window have paid for, at each stage of wait(). A window
\* that has a frame began before the frame in hand asked to leave.
Paid ==
  interval > 0 =>
    /\ pc \in {"idle", "next"} /\ frames > 1 => next >= SlotBefore
    /\ pc = "interval" /\ frames > 1 => sum >= SlotBefore
    /\ pc = "add" /\ frames > 1 => sum >= LastSlot
    /\ pc \in {"clock", "delay"} /\ frames > 1 => next >= LastSlot
    /\ pc = "delay" /\ frames > 0 => seen >= from
    /\ pc = "resync" /\ frames > 0 => seen >= LastSlot
    /\ pc = "sleep" /\ frames > 0 => wake >= next /\ next >= LastSlot
    /\ pc = "send" /\ frames > 0 => now >= next /\ next >= LastSlot

IInv == TypeOK /\ Paid /\ RateBounded

-----------------------------------------------------------------------------
\* What the arithmetic below rests on.
LEMMA Types ==
  ASSUME TypeOK
  PROVE  /\ now \in Nat /\ next \in Nat /\ sum \in Nat /\ wake \in Nat
         /\ from \in Nat /\ frames \in Nat /\ Backlog \in Nat /\ from <= now
         /\ interval \in Nat /\ delay \in Int
         /\ seen \in Nat /\ seen <= now /\ reset \in Nat /\ reset <= now
  BY IntervalsAssumption, BoundsAssumption DEF TypeOK

\* Slots are an interval apart, and the first is Backlog before the window.
LEMMA Slots ==
  ASSUME TypeOK
  PROVE  /\ SlotBefore \in Int /\ LastSlot \in Int
         /\ LastSlot = SlotBefore + interval
         /\ frames = 1 => LastSlot = from - Backlog
<1>1. /\ interval \in Int /\ from \in Int /\ Backlog \in Nat
      /\ frames - 2 \in Int /\ frames - 1 \in Int
  BY Types
<1>2. (frames - 2) * interval \in Int /\ (frames - 1) * interval \in Int
  BY <1>1
<1>3. (frames - 1) * interval = (frames - 2) * interval + interval
  BY Types
<1>4. frames = 1 => (frames - 1) * interval = 0
  BY Types
<1> QED
  BY <1>1, <1>2, <1>3, <1>4 DEF LastSlot, SlotBefore

\* TypeOK without `crossed', for the steps that are arithmetic.
Times ==
  /\ now \in Nat /\ interval \in Intervals /\ next \in Nat
  /\ sum \in Nat /\ seen \in Nat /\ delay \in Int /\ wake \in Nat
  /\ from \in Nat /\ frames \in Nat
  /\ pc \in {"idle", "next", "interval", "add", "clock", "delay", "resync",
            "sleep", "send"}
  /\ setting \in {"idle", "clock", "reset"} /\ reset \in Nat
  /\ from <= now /\ seen <= now /\ reset <= now

\* A limiter before its first frame satisfies the invariant.
LEMMA InitIInv == Init => IInv
<1>1. Init => TypeOK
  <2>1. Init => Times
    BY IntervalsAssumption DEF Init, Times
  <2>2. Init => crossed \in BOOLEAN
    BY Zenon DEF Init
  <2> QED
    BY <2>1, <2>2, Zenon DEF TypeOK, Times
<1>2. Init => Paid /\ RateBounded
  BY DEF Init, Paid, RateBounded
<1> QED
  BY <1>1, <1>2 DEF IInv

\* Every step keeps the types.
LEMMA TypeStep ==
  ASSUME TypeOK, [Next]_vars PROVE TypeOK'
<1>0. Times
  BY Zenon DEF TypeOK, Times
<1>1. Tick \/ (\E b \in BOOLEAN : Send(b)) \/ UNCHANGED vars => Times'
  BY <1>0, Types DEF Tick, Send, Times, vars, limiter, call, control, window
<1>2. Ask \/ ReadNext \/ ReadInterval \/ Add \/ ReadClock => Times'
  BY <1>0, Types DEF Ask, ReadNext, ReadInterval, Add, ReadClock, Times, limiter, control, window
<1>3. Delay => Times'
  BY <1>0, Types DEF Delay, Times, limiter, control, window
<1>4. Resync \/ Awake => Times'
  BY <1>0, Types DEF Resync, Awake, Times, limiter, control, window
<1>5. ResetClock \/ ResetNext => Times'
  BY <1>0, Types DEF ResetClock, ResetNext, Times, limiter, call, window
<1>6. ASSUME NEW i \in Intervals, SetInterval(i) PROVE Times'
  BY <1>0, <1>6, Types DEF SetInterval, Times, call
<1>7. Times'
  BY <1>1, <1>2, <1>3, <1>4, <1>5, <1>6, Zenon DEF Next, Wait
<1>8. crossed' \in BOOLEAN
  <2>1. \/ crossed' \in {crossed, FALSE}
        \/ crossed' = (crossed \/ pc = "delay")
    BY Zenon DEF Next, Wait, Tick, Ask, ReadNext, ReadInterval, Add, ReadClock, Delay,
      Resync, Awake, Send, SetInterval, ResetClock, ResetNext, vars
  <2> QED
    BY <2>1, Zenon DEF TypeOK
<1> QED
  BY <1>7, <1>8, Zenon DEF TypeOK, Times

\* wait() takes a frame from the slot of the last one to its own.
LEMMA WaitStep ==
  ASSUME TypeOK, Paid, RateBounded, Wait PROVE Paid' /\ RateBounded'
<1>1. UNCHANGED <<now, interval, from, frames>>
  BY DEF Wait, Ask, ReadNext, ReadInterval, Add, ReadClock, Delay, Resync, Awake, limiter, window
<1>2. LastSlot' = LastSlot /\ SlotBefore' = SlotBefore
  BY <1>1 DEF LastSlot, SlotBefore
<1>3. RateBounded'
  BY <1>1 DEF RateBounded
<1>4. /\ now \in Int /\ next \in Int /\ interval \in Int /\ frames \in Nat
      /\ wake \in Int /\ sum \in Int /\ from \in Int /\ Backlog \in Nat
      /\ from <= now /\ seen \in Int /\ seen <= now
  BY Types
<1>5. /\ LastSlot \in Int /\ SlotBefore \in Int
      /\ LastSlot = SlotBefore + interval
      /\ frames = 1 => LastSlot = from - Backlog
  BY Slots
<1>6. CASE Ask
  BY <1>1, <1>2, <1>3, <1>4, <1>6 DEF Ask, Paid, limiter
<1>7. CASE ReadNext
  BY <1>1, <1>2, <1>3, <1>4, <1>7 DEF ReadNext, Paid
<1>8. CASE ReadInterval
  BY <1>1, <1>2, <1>3, <1>4, <1>5, <1>8 DEF ReadInterval, Paid
<1>9. CASE Add
  BY <1>1, <1>2, <1>3, <1>4, <1>9 DEF Add, Paid
<1>10. CASE ReadClock
  BY <1>1, <1>2, <1>3, <1>4, <1>10 DEF ReadClock, Paid, limiter
<1>11. CASE Delay
  <2>1. /\ UNCHANGED <<next, seen>> /\ pc = "delay"
        /\ \/ next > seen /\ pc' = "sleep" /\ wake' = now + (next - seen)
           \/ next <= seen /\ seen - next <= Backlog /\ pc' = "send"
           \/ seen - next > Backlog /\ pc' = "resync"
    BY <1>4, <1>11 DEF Delay, limiter
  <2>2. interval > 0 /\ frames > 0 => seen - next > Backlog \/ next >= LastSlot
    BY <1>4, <1>5, <2>1 DEF Paid
  <2>3. seen - next > Backlog /\ interval > 0 /\ frames > 0 => seen >= LastSlot
    BY <1>4, <1>5, <2>1 DEF Paid
  <2>4. next > seen => ~(seen - next > Backlog) /\ now + (next - seen) >= next
    BY <1>4
  <2>5. next <= seen => now >= next
    BY <1>4
  <2>6. seen - next <= Backlog => ~(seen - next > Backlog)
    BY <1>4
  <2> QED
    BY <1>1, <1>2, <1>3, <2>1, <2>2, <2>3, <2>4, <2>5, <2>6 DEF Paid
<1>12. CASE Resync
  BY <1>1, <1>2, <1>3, <1>4, <1>12 DEF Resync, Paid
<1>13. CASE Awake
  BY <1>1, <1>2, <1>3, <1>4, <1>13 DEF Awake, Paid, limiter
<1> QED
  BY <1>6, <1>7, <1>8, <1>9, <1>10, <1>11, <1>12, <1>13 DEF Wait

\* A frame leaves at its slot or after it: the window has room for it.
LEMMA SendStep ==
  ASSUME TypeOK, Paid, RateBounded, NEW begins \in BOOLEAN, Send(begins)
  PROVE  Paid' /\ RateBounded'
<1>1. /\ now' = now /\ next' = next /\ interval' = interval
      /\ pc = "send" /\ pc' = "idle"
  BY DEF Send, limiter
<1>2. /\ now \in Int /\ next \in Int /\ interval \in Nat /\ frames \in Nat
      /\ from \in Int /\ Backlog \in Nat /\ from <= now
  BY Types
<1>3. CASE begins
  <2>1. from' = now /\ frames' = 1
    BY <1>3 DEF Send
  <2> QED
    BY <1>1, <2>1 DEF Paid, RateBounded
<1>4. CASE ~begins
  <2>1. from' = from /\ frames' = frames + 1
    BY <1>4 DEF Send
  <2>2. SlotBefore' = LastSlot
    <3>1. frames' - 2 = frames - 1
      BY <1>2, <2>1
    <3> QED
      BY <1>1, <2>1, <3>1 DEF SlotBefore, LastSlot
  <2>3. Paid'
    BY <1>1, <1>2, <2>1, <2>2 DEF Paid
  <2>4. CASE interval > 0 /\ frames > 1
    <3>1. LastSlot <= now /\ LastSlot \in Int
      BY <1>1, <1>2, <2>4, Slots DEF Paid
    <3>2. (frames - 1) * interval \in Int
      BY <1>2
    <3>3. (frames - 1) * interval <= now - from + Backlog
      BY <1>2, <3>1, <3>2 DEF LastSlot
    <3>4. frames' - 2 = frames - 1
      BY <1>2, <2>1
    <3> QED
      BY <1>1, <2>1, <2>3, <3>3, <3>4 DEF RateBounded
  <2>5. CASE interval = 0
    <3>1. (frames' - 2) * interval' = 0
      BY <1>1, <1>2, <2>1, <2>5
    <3> QED
      BY <1>1, <1>2, <2>1, <2>3, <3>1 DEF RateBounded
  <2>6. CASE frames <= 1
    BY <1>2, <2>1, <2>3, <2>6 DEF RateBounded
  <2> QED
    BY <1>2, <2>4, <2>5, <2>6
<1> QED
  BY <1>3, <1>4

\* Time passes, and the rate changes: no frame is owed.
LEMMA OtherStep ==
  ASSUME TypeOK, Paid, RateBounded,
         \/ Tick \/ UNCHANGED vars
         \/ ResetClock \/ ResetNext \/ \E i \in Intervals : SetInterval(i)
  PROVE  Paid' /\ RateBounded'
<1>1. CASE Tick \/ ResetClock \/ UNCHANGED vars
  <2>1. /\ UNCHANGED <<interval, next, pc, sum, seen, wake, from, frames>>
        /\ now' = now \/ now' = now + 1
    BY <1>1 DEF Tick, ResetClock, vars, limiter, call, window
  <2>2. LastSlot' = LastSlot /\ SlotBefore' = SlotBefore
    BY <2>1 DEF LastSlot, SlotBefore
  <2>3. /\ now \in Int /\ next \in Int /\ now' \in Int /\ now' >= now
    BY <2>1, Types
  <2>4. Paid'
    BY <2>1, <2>2, <2>3 DEF Paid
  <2>5. (frames - 2) * interval \in Int /\ from \in Int /\ Backlog \in Nat
    BY Types
  <2>6. RateBounded'
    BY <2>1, <2>3, <2>5 DEF RateBounded
  <2> QED
    BY <2>4, <2>6
<1>2. CASE ResetNext \/ \E i \in Intervals : SetInterval(i)
  BY <1>2 DEF ResetNext, SetInterval, Paid, RateBounded
<1> QED
  BY <1>1, <1>2

\* IInv is inductive.
LEMMA NextIInv == IInv /\ [Next]_vars => IInv'
<1> SUFFICES ASSUME TypeOK, Paid, RateBounded, [Next]_vars PROVE IInv'
  BY DEF IInv
<1>1. TypeOK'
  BY TypeStep
<1>2. CASE Wait
  BY <1>1, <1>2, WaitStep DEF IInv
<1>3. CASE \E begins \in BOOLEAN : Send(begins)
  <2>1. PICK begins \in BOOLEAN : Send(begins)
    BY <1>3
  <2>2. Paid' /\ RateBounded'
    BY <2>1, SendStep
  <2> QED
    BY <1>1, <2>2 DEF IInv
<1>4. CASE \/ Tick \/ UNCHANGED vars
           \/ ResetClock \/ ResetNext \/ \E i \in Intervals : SetInterval(i)
  BY <1>1, <1>4, OtherStep DEF IInv
<1> QED
  BY <1>2, <1>3, <1>4 DEF Next

-----------------------------------------------------------------------------
\* Times never go back: _next and the sleeps of wait() are never before the
\* run began (RateLimiter.__init__, sender.py:162).
THEOREM LimiterTypes == Spec => []TypeOK
<1>1. IInv => TypeOK
  BY DEF IInv
<1> QED
  BY <1>1, InitIInv, NextIInv, PTL DEF Spec

\* No interleaving of wait() and set_rate() sends more frames in a stretch of
\* time than the rate and the backlog allow (RateLimiter.wait, sender.py:171).
THEOREM RateIsBounded == Spec => []RateBounded
<1>1. IInv => RateBounded
  BY DEF IInv
<1> QED
  BY <1>1, InitIInv, NextIInv, PTL DEF Spec

-----------------------------------------------------------------------------
\* _next is ahead of the clock only while wait() has it in hand, by an interval
\* at most; what set_rate() writes is never ahead of the clock, but may be ahead
\* of what wait() has read of it.
Slot ==
  /\ pc \notin {"clock", "delay", "sleep"} => next <= now
  /\ pc = "interval" => sum <= now
  /\ pc = "add" => \E i \in Intervals : sum <= now + i
  /\ pc = "clock" => next <= now \/ \E i \in Intervals : next <= now + i
  /\ pc = "delay" => \/ \E i \in Intervals : next <= seen + i
                     \/ next <= seen
                     \/ crossed /\ next <= now
  /\ pc = "sleep" => next <= now \/ next <= wake
  /\ HeldOneInterval

\* What Slot is about, as the steps below need it.
LEMMA SlotTypes ==
  ASSUME TypeOK
  PROVE  /\ now \in Nat /\ next \in Nat /\ sum \in Nat /\ wake \in Nat
         /\ seen \in Nat /\ seen <= now /\ reset \in Nat /\ reset <= now
         /\ delay \in Int /\ interval \in Intervals /\ Backlog \in Nat
         /\ \A i \in Intervals : i \in Nat
  BY IntervalsAssumption, BoundsAssumption DEF TypeOK

\* wait() takes its slot an interval on, and sleeps until the clock is there.
LEMMA SlotWait ==
  ASSUME TypeOK, Slot, Wait PROVE Slot'
<1>1. now' = now
  BY DEF Wait, Ask, ReadNext, ReadInterval, Add, ReadClock, Delay, Resync, Awake
<1>2. CASE Ask \/ ReadNext
  BY <1>1, <1>2 DEF Ask, ReadNext, Slot, HeldOneInterval, limiter
<1>3. CASE ReadInterval
  <2>1. sum + interval <= now + interval
    BY <1>3, SlotTypes DEF ReadInterval, Slot
  <2> QED
    BY <1>1, <1>3, <2>1, SlotTypes DEF ReadInterval, Slot, HeldOneInterval, limiter
<1>4. CASE Add
  BY <1>1, <1>4 DEF Add, Slot, HeldOneInterval
<1>5. CASE ReadClock
  BY <1>1, <1>5 DEF ReadClock, Slot, HeldOneInterval, limiter
<1>6. CASE Delay
  <2>1. /\ UNCHANGED <<next, seen, crossed>> /\ pc = "delay" /\ delay' = next - seen
        /\ \/ next > seen /\ pc' = "sleep" /\ wake' = now + (next - seen)
           \/ next <= seen /\ pc' \in {"send", "resync"}
    BY <1>6, SlotTypes DEF Delay, limiter
  <2>2. CASE next <= seen
    <3>1. next <= now /\ ~(next > seen)
      BY <2>2, SlotTypes
    <3> QED
      BY <1>1, <2>1, <3>1 DEF Slot, HeldOneInterval
  <2>3. CASE next > seen
    <3>1. /\ pc' = "sleep" /\ wake' = now + (next - seen) /\ next <= wake'
          /\ wake' - delay' = now
      BY <2>1, <2>3, SlotTypes
    <3>2. \/ \E i \in Intervals : delay' <= i
          \/ crossed /\ delay' <= now - seen
      <4>1. \/ \E i \in Intervals : next <= seen + i
            \/ crossed /\ next <= now
        BY <2>1, <2>3, SlotTypes DEF Slot
      <4>2. next <= now => next - seen <= now - seen
        BY SlotTypes
      <4>3. \A i \in Intervals : next <= seen + i => next - seen <= i
        BY SlotTypes
      <4> QED
        BY <2>1, <4>1, <4>2, <4>3
    <3> QED
      BY <1>1, <2>1, <3>1, <3>2 DEF Slot, HeldOneInterval
  <2> QED
    BY <2>2, <2>3, SlotTypes
<1>7. CASE Resync \/ Awake
  <2>1. /\ pc' = "send"
        /\ \/ next' = seen /\ seen <= now
           \/ next' = next /\ (next <= now \/ (next <= wake /\ wake <= now))
    BY <1>7, SlotTypes DEF Resync, Awake, Slot, limiter
  <2>2. next' <= now
    BY <2>1, SlotTypes
  <2> QED
    BY <1>1, <2>1, <2>2 DEF Slot, HeldOneInterval
<1> QED
  BY <1>2, <1>3, <1>4, <1>5, <1>6, <1>7 DEF Wait

\* Time passes, frames leave and the rate is set: slots stay near.
LEMMA SlotOther ==
  ASSUME TypeOK, Slot,
         \/ Tick \/ UNCHANGED vars
         \/ \E begins \in BOOLEAN : Send(begins)
         \/ ResetClock \/ ResetNext \/ \E i \in Intervals : SetInterval(i)
  PROVE  Slot'
<1>1. CASE \/ Tick \/ UNCHANGED vars
           \/ ResetClock \/ \E i \in Intervals : SetInterval(i)
  <2>1. /\ UNCHANGED <<next, pc, sum, seen, delay, wake, crossed>>
        /\ now' \in Nat /\ now <= now'
    BY <1>1, SlotTypes
    DEF Tick, ResetClock, SetInterval, vars, limiter, call, control, window
  <2>2. HeldOneInterval'
    BY <2>1 DEF Slot, HeldOneInterval
  <2>3. /\ next <= now => next <= now'
        /\ sum <= now => sum <= now'
        /\ \A i \in Intervals : /\ sum <= now + i => sum <= now' + i
                                /\ next <= now + i => next <= now' + i
    BY <2>1, SlotTypes
  <2>4. pc = "delay" => \/ \E i \in Intervals : next <= seen + i
                        \/ next <= seen
                        \/ crossed /\ next <= now'
    BY <2>3 DEF Slot
  <2>5. pc' = "delay" => (\/ \E i \in Intervals : next <= seen + i
                          \/ next <= seen
                          \/ crossed /\ next <= now)'
    BY <2>1, <2>4
  <2>6. /\ pc' \notin {"clock", "delay", "sleep"} => next' <= now'
        /\ pc' = "interval" => sum' <= now'
        /\ pc' = "sleep" => next' <= now' \/ next' <= wake'
    BY <2>1, <2>3 DEF Slot
  <2>7. ASSUME pc = "add" PROVE \E i \in Intervals : sum <= now' + i
    <3>1. PICK i \in Intervals : sum <= now + i
      BY <2>7 DEF Slot
    <3> QED
      BY <2>3, <3>1
  <2>8. ASSUME pc = "clock"
        PROVE  next <= now' \/ \E i \in Intervals : next <= now' + i
    <3>1. next <= now \/ \E i \in Intervals : next <= now + i
      BY <2>8 DEF Slot
    <3>2. ASSUME NEW i \in Intervals, next <= now + i PROVE next <= now' + i
      BY <2>3, <3>2
    <3> QED
      BY <2>3, <3>1, <3>2
  <2>9. /\ pc' = "add" => \E i \in Intervals : sum' <= now' + i
        /\ pc' = "clock" => next' <= now' \/ \E i \in Intervals : next' <= now' + i
    BY <2>1, <2>7, <2>8
  <2> QED
    BY <2>2, <2>5, <2>6, <2>9, Zenon DEF Slot
<1>2. CASE \E begins \in BOOLEAN : Send(begins)
  BY <1>2 DEF Send, Slot, HeldOneInterval, limiter
<1>3. CASE ResetNext
  <2>1. /\ UNCHANGED <<now, pc, sum, seen, delay, wake>>
        /\ next' = reset /\ reset <= now
        /\ crossed' = (crossed \/ pc = "delay")
    BY <1>3, SlotTypes DEF ResetNext, call
  <2>2. HeldOneInterval'
    BY <2>1 DEF Slot, HeldOneInterval
  <2> QED
    BY <2>1, <2>2 DEF Slot
<1> QED
  BY <1>1, <1>2, <1>3

\* No frame sleeps for longer than an interval of one of the rates set, wherever
\* set_rate() falls into wait(), but between its read of the clock and that of
\* _next; then it sleeps for as long as it was held up between the two
\* (RateLimiter.set_rate, sender.py:166, and wait, 179 and 180).
THEOREM FramesAreNotHeld == Spec => []HeldOneInterval
<1>1. Init => Slot
  <2>1. Init => next <= now
    BY DEF Init
  <2> QED
    BY <2>1 DEF Init, Slot, HeldOneInterval
<1>2. TypeOK /\ Slot /\ [Next]_vars => Slot'
  BY SlotWait, SlotOther DEF Next
<1>3. Slot => HeldOneInterval
  BY DEF Slot
<1> QED
  BY LimiterTypes, <1>1, <1>2, <1>3, PTL DEF Spec
=============================================================================
