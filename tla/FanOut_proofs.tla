---------------------------- MODULE FanOut_proofs ----------------------------
(***************************************************************************)
(* Proofs about FanOut, for any interfaces, retry times and bounds.        *)
(*                                                                         *)
(* EveryFrameAccounted is not inductive as it stands: its bound on packets *)
(* has room for the frame in hand on interfaces the frame has not reached, *)
(* and outside send() it says nothing of who is still to be visited.       *)
(* Account is exact on both. Recovers compares a step with what happened  *)
(* earlier; Recovery ties the sockets and retries to that, interface by    *)
(* interface.                                                              *)
(***************************************************************************)
EXTENDS FanOut, TLAPS

\* On n, every frame is a packet or an error, or n is still to be visited.
Balanced(n) ==
  packets[n] + errors[n] + (IF n \in visit THEN 1 ELSE 0)
    = attempted + (IF n \in failedOpens THEN 1 ELSE 0)

\* Packets of n are frames that send() returned for, and the one in hand once it
\* has reached n.
Reported(n) == packets[n] <= returned + (IF pc = "send" /\ n \in reached THEN 1 ELSE 0)

Account ==
  /\ pc # "send" => visit = {}
  /\ pc = "send" => reached \cap visit = {} /\ (sent <=> reached # {})
  /\ pc = "new" => failedOpens = {} /\ attempted = 0
  /\ \A n \in Ifaces : Balanced(n) /\ Reported(n)

IInv == TypeOK /\ Account

\* The sender, on one interface.
Handles(n) == Waits(n) \/ ReopenFails(n) \/ Reopen(n) \/ Transmit(n) \/ TransmitFails(n)
\* Everybody else.
Changed(n) == Toggle(n) \/ Delete(n) \/ Create(n)

-----------------------------------------------------------------------------
\* A sender before open() satisfies the invariant.
LEMMA InitIInv == Init => IInv
<1>1. ASSUME Init PROVE TypeOK
  <2>1. index \in [Ifaces -> Nat] /\ \A n \in Ifaces : 0 <= index[n]
    BY <1>1 DEF Init
  <2>2. Never \in Nat /\ 0 \in 0..(now + Retry)
    BY <1>1, BoundsAssumption DEF Init, Never
  <2>4. /\ All(0) \in [Ifaces -> Nat] /\ All(Never) \in [Ifaces -> Nat]
        /\ All(0) \in [Ifaces -> 0..(now + Retry)]
        /\ \A n \in Ifaces : All(0)[n] = 0
    BY <2>2 DEF All
  <2>5. up \in [Ifaces -> BOOLEAN] /\ created = index /\ bound = All(0)
    BY <1>1 DEF Init
  <2>6. \A n \in Ifaces : bound[n] <= created[n] /\ index[n] <= created[n]
    BY <2>1, <2>4, <2>5
  <2>7. /\ now \in Nat /\ {attempted, returned, raised} \subseteq Nat
        /\ pc \in {"new", "idle", "send", "closed"}
        /\ visit \subseteq Ifaces /\ sent \in BOOLEAN
        /\ failedOpens \subseteq Ifaces /\ reached \subseteq Ifaces
    <3>1. /\ now = 0 /\ attempted = 0 /\ returned = 0 /\ raised = 0 /\ pc = "new"
          /\ visit = {} /\ sent = FALSE /\ failedOpens = {} /\ reached = {}
      BY <1>1 DEF Init
    <3>2. sent \in BOOLEAN
      BY <3>1
    <3>3. {attempted, returned, raised} \subseteq Nat
      BY <3>1
    <3> QED
      BY <3>1, <3>2, <3>3
  <2>8. /\ retryAt = All(0) /\ packets = All(0) /\ errors = All(0)
        /\ lastTry = All(Never) /\ firstTry = All(Never)
    BY <1>1 DEF Init
  <2> QED
    BY <2>1, <2>4, <2>5, <2>6, <2>7, <2>8 DEF TypeOK
<1>2. Init => Account
  BY DEF Init, Account, Balanced, Reported, All
<1> QED
  BY <1>1, <1>2 DEF IInv

\* What others do to the interfaces keeps the types.
LEMMA NetworkTypes ==
  ASSUME TypeOK, NEW n \in Ifaces, Changed(n) PROVE TypeOK'
<1>1. UNCHANGED <<now, sockets, calls, failedOpens, reached, lastTry>>
      /\ firstTry' = [firstTry EXCEPT ![n] = Never]
  BY DEF Changed, Toggle, Delete, Create, Changes
<1>2. firstTry' \in [Ifaces -> Nat] /\ Never \in Nat
  BY <1>1, BoundsAssumption DEF TypeOK, Never
<1>3. /\ index' \in [Ifaces -> Nat] /\ created' \in [Ifaces -> Nat]
      /\ up' \in [Ifaces -> BOOLEAN]
      /\ \A m \in Ifaces : bound[m] <= created'[m] /\ index'[m] <= created'[m]
  <2>1. CASE Toggle(n)
    BY <2>1 DEF Toggle, TypeOK
  <2>2. CASE Delete(n)
    BY <2>2 DEF Delete, TypeOK
  <2>3. CASE Create(n)
    BY <2>3 DEF Create, TypeOK
  <2> QED
    BY <2>1, <2>2, <2>3 DEF Changed
<1> QED
  BY <1>1, <1>2, <1>3 DEF TypeOK, sockets, calls

\* Handling the frame on one interface keeps the types.
LEMMA HandleTypes ==
  ASSUME TypeOK, NEW n \in Ifaces, Handles(n) PROVE TypeOK'
<1>1. UNCHANGED <<network, pc, attempted, returned, raised, failedOpens>>
  BY DEF Handles, Waits, ReopenFails, Reopen, Transmit, TransmitFails, Visited, calls
<1>2. visit' \subseteq Ifaces /\ firstTry' \in [Ifaces -> Nat]
  <2>1. CASE Reopen(n)
    BY <2>1 DEF Reopen, TypeOK, calls
  <2>2. CASE ~Reopen(n)
    <3>1. Visited(n)
      BY <2>2 DEF Handles, Waits, ReopenFails, Transmit, TransmitFails
    <3> QED
      BY <3>1 DEF Visited, TypeOK
  <2> QED
    BY <2>1, <2>2
<1>3. Retry \in Nat /\ now \in Nat
  BY BoundsAssumption DEF TypeOK
<1>4. lastTry' \in [Ifaces -> Nat] /\ sent' \in BOOLEAN /\ reached' \subseteq Ifaces
  BY <1>3 DEF Handles, Waits, ReopenFails, Reopen, Transmit, TransmitFails, Visited,
              TypeOK, calls, Sent
<1>5. packets' \in [Ifaces -> Nat] /\ errors' \in [Ifaces -> Nat]
  <2>1. CASE Reopen(n)
    BY <2>1 DEF Reopen, TypeOK
  <2>2. CASE Transmit(n)
    BY <2>2 DEF Transmit, TypeOK
  <2>3. CASE Waits(n) \/ ReopenFails(n) \/ TransmitFails(n)
    <3>1. packets' = packets /\ errors' = [errors EXCEPT ![n] = @ + 1]
      BY <2>3 DEF Waits, ReopenFails, TransmitFails, Missed
    <3> QED
      BY <3>1 DEF TypeOK
  <2> QED
    BY <2>1, <2>2, <2>3 DEF Handles
<1>6. retryAt' \in [Ifaces -> 0..(now + Retry)]
  <2>1. now + Retry \in 0..(now + Retry)
    BY <1>3
  <2> QED
    BY <2>1 DEF Handles, Waits, ReopenFails, Reopen, Transmit, TransmitFails,
                RetryLater, DropIfGone, TypeOK
<1>7. bound' \in [Ifaces -> Nat] /\ \A m \in Ifaces : bound'[m] <= created[m]
  <2>1. CASE Reopen(n)
    BY <2>1 DEF Reopen, TypeOK
  <2>2. CASE bound' = bound
    BY <2>2 DEF TypeOK
  <2>3. CASE bound' = [bound EXCEPT ![n] = 0]
    <3>1. ASSUME NEW m \in Ifaces PROVE bound'[m] \in Nat /\ bound'[m] <= created[m]
      <4>1. bound[m] \in Nat /\ created[m] \in Nat /\ bound[m] <= created[m]
        BY DEF TypeOK
      <4>2. bound'[m] = bound[m] \/ bound'[m] = 0
        BY <2>3 DEF TypeOK
      <4> QED
        BY <4>1, <4>2
    <3> QED
      BY <2>3, <3>1 DEF TypeOK
  <2> QED
    BY <2>1, <2>2, <2>3 DEF Handles, Waits, ReopenFails, Transmit, TransmitFails,
                            DropIfGone
<1> QED
  BY <1>1, <1>2, <1>4, <1>5, <1>6, <1>7 DEF TypeOK, network

\* Every step keeps the types.
LEMMA TypeStep ==
  ASSUME TypeOK, [Next]_vars PROVE TypeOK'
<1>1. CASE Tick
  <2>1. now \in Nat /\ now' = now + 1 /\ Retry \in Nat
    BY <1>1, BoundsAssumption DEF Tick, TypeOK
  <2>2. \A t \in 0..(now + Retry) : t \in 0..(now' + Retry)
    BY <2>1
  <2>3. retryAt' \in [Ifaces -> 0..(now' + Retry)]
    BY <1>1, <2>2 DEF Tick, TypeOK, sockets
  <2> QED
    BY <1>1, <2>1, <2>3 DEF Tick, TypeOK, sockets, calls, history
<1>2. CASE Open
  <2>1. now + Retry \in 0..(now + Retry) /\ 0 \in 0..(now + Retry)
    BY BoundsAssumption DEF TypeOK
  <2>2. retryAt' \in [Ifaces -> 0..(now + Retry)]
    BY <1>2, <2>1 DEF Open
  <2>3. /\ errors' \in [Ifaces -> Nat] /\ lastTry' \in [Ifaces -> Nat]
        /\ failedOpens' \subseteq Ifaces
    BY <1>2 DEF Open, TypeOK, All
  <2>4. \A n \in Ifaces : bound'[n] <= created'[n] /\ index'[n] <= created'[n]
    BY <1>2 DEF Open, TypeOK, network
  <2> QED
    BY <1>2, <2>2, <2>3, <2>4 DEF Open, TypeOK, network
<1>3. CASE BeginFrame \/ EndFrame
  <2>1. UNCHANGED <<now, index, up, created, bound, retryAt, packets, errors,
                    failedOpens, lastTry, firstTry>>
    BY <1>3 DEF BeginFrame, EndFrame, network, sockets, history
  <2>2. /\ {attempted', returned', raised'} \subseteq Nat
        /\ pc' \in {"new", "idle", "send", "closed"}
        /\ visit' \subseteq Ifaces /\ sent' \in BOOLEAN /\ reached' \subseteq Ifaces
    <3>1. CASE BeginFrame
      <4>1. attempted' \in Nat /\ UNCHANGED <<returned, raised>> /\ pc' = "send"
        BY <3>1 DEF BeginFrame, TypeOK
      <4>2. visit' = Ifaces /\ sent' = FALSE /\ reached' = {}
        BY <3>1 DEF BeginFrame
      <4>3. sent' \in BOOLEAN
        BY <4>2
      <4> QED
        BY <4>1, <4>2, <4>3 DEF TypeOK
    <3>2. CASE EndFrame
      <4>1. returned' \in Nat /\ raised' \in Nat
        BY <3>2 DEF EndFrame, TypeOK
      <4>2. UNCHANGED <<visit, sent, attempted, reached>> /\ pc' = "idle"
        BY <3>2 DEF EndFrame, history
      <4> QED
        BY <4>1, <4>2 DEF TypeOK
    <3> QED
      BY <1>3, <3>1, <3>2
  <2> QED
    BY <2>1, <2>2 DEF TypeOK
<1>4. CASE Close
  <2>1. bound' \in [Ifaces -> Nat] /\ \A n \in Ifaces : bound'[n] = 0
    BY <1>4 DEF Close, All
  <2>2. \A n \in Ifaces : bound'[n] <= created[n]
    BY <2>1 DEF TypeOK
  <2> QED
    BY <1>4, <2>1, <2>2 DEF Close, TypeOK, network, history
<1>5. CASE Closed \/ UNCHANGED vars
  BY <1>5 DEF Closed, TypeOK, vars, network, sockets, calls, history
<1> QED
  BY <1>1, <1>2, <1>3, <1>4, <1>5, NetworkTypes, HandleTypes DEF Next, Changed, Handles

\* The visit of one interface: one packet or one error, and it is visited.
LEMMA HandleAccount ==
  ASSUME TypeOK, Account, NEW n \in Ifaces, Handles(n) PROVE Account'
<1>1. UNCHANGED <<pc, attempted, returned, failedOpens>> /\ pc = "send" /\ n \in visit
  BY DEF Handles, Waits, ReopenFails, Reopen, Transmit, TransmitFails, Visited, calls
<1>2. n \notin reached
  BY <1>1 DEF Account
<1>3. /\ packets \in [Ifaces -> Nat] /\ errors \in [Ifaces -> Nat]
      /\ attempted \in Nat /\ returned \in Nat /\ sent \in BOOLEAN
  BY DEF TypeOK
<1>4. CASE Reopen(n)
  BY <1>4 DEF Reopen, Account, Balanced, Reported, calls
<1>5. CASE Transmit(n)
  <2>1. /\ packets' = [packets EXCEPT ![n] = @ + 1] /\ errors' = errors
        /\ visit' = visit \ {n} /\ reached' = reached \cup {n} /\ sent'
    BY <1>5 DEF Transmit, Visited, Sent
  <2>2. ASSUME NEW m \in Ifaces PROVE Balanced(m)' /\ Reported(m)'
    <3>1. CASE m = n
      BY <1>1, <1>2, <1>3, <2>1, <3>1 DEF Account, Balanced, Reported
    <3>2. CASE m # n
      BY <1>1, <1>3, <2>1, <3>2 DEF Account, Balanced, Reported
    <3> QED
      BY <3>1, <3>2
  <2> QED
    BY <1>1, <2>1, <2>2 DEF Account
<1>6. CASE Waits(n) \/ ReopenFails(n) \/ TransmitFails(n)
  <2>1. /\ errors' = [errors EXCEPT ![n] = @ + 1] /\ packets' = packets
        /\ visit' = visit \ {n} /\ reached' = reached /\ sent' = sent
    BY <1>3, <1>6 DEF Waits, ReopenFails, TransmitFails, Missed, Visited, Sent
  <2>2. ASSUME NEW m \in Ifaces PROVE Balanced(m)' /\ Reported(m)'
    <3>1. CASE m = n
      BY <1>1, <1>3, <2>1, <3>1 DEF Account, Balanced, Reported
    <3>2. CASE m # n
      BY <1>1, <1>3, <2>1, <3>2 DEF Account, Balanced, Reported
    <3> QED
      BY <3>1, <3>2
  <2> QED
    BY <1>1, <2>1, <2>2 DEF Account
<1> QED
  BY <1>4, <1>5, <1>6 DEF Handles

\* Every step keeps the accounts.
LEMMA AccountStep ==
  ASSUME TypeOK, Account, [Next]_vars PROVE Account'
<1>1. /\ packets \in [Ifaces -> Nat] /\ errors \in [Ifaces -> Nat]
      /\ attempted \in Nat /\ returned \in Nat
  BY DEF TypeOK
<1>2. CASE Open
  <2>1. ASSUME NEW n \in Ifaces PROVE Balanced(n)' /\ Reported(n)'
    <3>1. packets[n] = 0 /\ attempted = 0 /\ visit = {}
      BY <1>1, <1>2 DEF Open, Account, Balanced
    <3> QED
      BY <1>1, <1>2, <3>1 DEF Open, Balanced, Reported
  <2> QED
    BY <1>2, <2>1 DEF Open, Account
<1>3. CASE BeginFrame
  <2>1. ASSUME NEW n \in Ifaces PROVE Balanced(n)' /\ Reported(n)'
    BY <1>1, <1>3 DEF BeginFrame, Account, Balanced, Reported, sockets
  <2> QED
    BY <1>3, <2>1 DEF BeginFrame, Account
<1>4. CASE EndFrame
  <2>1. ASSUME NEW n \in Ifaces PROVE Balanced(n)' /\ Reported(n)'
    BY <1>1, <1>4 DEF EndFrame, Account, Balanced, Reported, sockets, history
  <2> QED
    BY <1>4, <2>1 DEF EndFrame, Account, history
<1>5. CASE Close
  BY <1>5 DEF Close, Account, Balanced, Reported, history
<1>6. CASE Tick \/ Closed \/ UNCHANGED vars \/ \E n \in Ifaces : Changed(n)
  <2>1. UNCHANGED <<packets, errors, pc, visit, sent, attempted, returned,
                    failedOpens, reached>>
    BY <1>6 DEF Tick, Closed, Changed, Toggle, Delete, Create, Changes, vars, sockets,
                calls, history
  <2> QED
    BY <2>1 DEF Account, Balanced, Reported
<1> QED
  BY <1>2, <1>3, <1>4, <1>5, <1>6, HandleAccount DEF Next, Changed, Handles

\* The sender's state keeps its types, no retry is ever further off than RETRY and
\* no socket is bound to an interface that never was (RawSender.send).
THEOREM TypeCorrect == Spec => []TypeOK
<1>1. Init => TypeOK
  BY InitIInv DEF IInv
<1> QED
  BY <1>1, TypeStep, PTL DEF Spec

\* Every frame is accounted on every interface, exactly once, and send() raises
\* for exactly the lost ones, for any number of interfaces that come and go
\* (RawSender.send).
THEOREM AccountCorrect == Spec => []EveryFrameAccounted
<1>1. IInv /\ [Next]_vars => IInv'
  BY TypeStep, AccountStep DEF IInv
<1>2. IInv => EveryFrameAccounted
  <2>1. ASSUME IInv, NEW n \in Ifaces
        PROVE packets[n] <= returned + (IF pc = "send" THEN 1 ELSE 0)
    BY <2>1 DEF IInv, TypeOK, Account, Reported
  <2> QED
    BY <2>1 DEF IInv, Account, Balanced, EveryFrameAccounted
<1> QED
  BY InitIInv, <1>1, <1>2, PTL DEF Spec
-----------------------------------------------------------------------------
(* Recovery. Recovers speaks of two moments; what it needs in between is   *)
(* how the socket and the retry of an interface relate to what was tried   *)
(* on it.                                                                  *)

\* An interface without a socket waits RETRY from the last attempt to open it.
Spaced(n) ==
  /\ lastTry[n] # Never => lastTry[n] <= now
  /\ bound[n] = 0 /\ lastTry[n] # Never => lastTry[n] + Retry <= retryAt[n]

\* Once a frame was handed to an interface as it is, its socket is of this very
\* interface, or there is none and the retry is due RETRY after that frame.
Recovering(n) ==
  firstTry[n] # Never /\ index[n] # 0 =>
    \/ bound[n] = index[n]
    \/ bound[n] = 0 /\ retryAt[n] <= firstTry[n] + Retry

Recovery ==
  /\ pc = "new" => lastTry = All(Never) /\ firstTry = All(Never)
  /\ pc \in {"idle", "send"} => \A n \in Ifaces : Spaced(n) /\ Recovering(n)

\* The frame in hand is looked at one interface at a time: the others keep all
\* Recovery speaks of.
LEMMA HandleRecovery ==
  ASSUME TypeOK, Recovery, NEW n \in Ifaces, Handles(n) PROVE Recovery'
<1>1. UNCHANGED <<now, index, pc>> /\ pc = "send"
  BY DEF Handles, Waits, ReopenFails, Reopen, Transmit, TransmitFails, Visited, calls,
         network
<1>2. /\ now \in Nat /\ Retry \in Nat
      /\ bound \in [Ifaces -> Nat] /\ retryAt \in [Ifaces -> Nat] /\ index \in [Ifaces -> Nat]
      /\ lastTry \in [Ifaces -> Nat] /\ firstTry \in [Ifaces -> Nat]
      /\ retryAt[n] <= now + Retry
  BY BoundsAssumption DEF TypeOK
<1>3. \A m \in Ifaces \ {n} :
        /\ bound'[m] = bound[m] /\ retryAt'[m] = retryAt[m]
        /\ lastTry'[m] = lastTry[m] /\ firstTry'[m] = firstTry[m]
  BY <1>2 DEF Handles, Waits, ReopenFails, Reopen, Transmit, TransmitFails, Visited,
     RetryLater, DropIfGone
<1>4. \A m \in Ifaces \ {n} : Spaced(m)' /\ Recovering(m)'
  BY <1>1, <1>3 DEF Recovery, Spaced, Recovering, Never
<1>5. Spaced(n) /\ Recovering(n)
  BY <1>1 DEF Recovery
<1>6. CASE Waits(n)
  <2>1. /\ bound[n] = 0 /\ UNCHANGED <<bound, retryAt, lastTry>>
        /\ firstTry'[n] = (IF firstTry[n] = Never THEN now ELSE firstTry[n])
    BY <1>2, <1>6 DEF Waits, Visited
  <2>2. Spaced(n)' /\ Recovering(n)'
    BY <1>1, <1>2, <1>5, <2>1 DEF Spaced, Recovering, Never
  <2> QED
    BY <1>1, <1>4, <2>2 DEF Recovery
<1>7. CASE ReopenFails(n)
  <2>1. /\ bound' = bound /\ index[n] = 0 /\ retryAt'[n] = now + Retry
        /\ lastTry'[n] = now
    BY <1>2, <1>7 DEF ReopenFails, RetryLater
  <2>2. Spaced(n)' /\ Recovering(n)'
    BY <1>1, <1>2, <2>1 DEF Spaced, Recovering, Never
  <2> QED
    BY <1>1, <1>4, <2>2 DEF Recovery
<1>8. CASE Reopen(n)
  <2>1. index[n] # 0 /\ bound'[n] = index[n] /\ lastTry'[n] = now
    BY <1>2, <1>8 DEF Reopen
  <2>2. Spaced(n)' /\ Recovering(n)'
    BY <1>1, <1>2, <2>1 DEF Spaced, Recovering, Never
  <2> QED
    BY <1>1, <1>4, <2>2 DEF Recovery
<1>9. CASE Transmit(n)
  <2>1. bound[n] # 0 /\ bound[n] = index[n] /\ UNCHANGED <<bound, retryAt, lastTry>>
    BY <1>9 DEF Transmit
  <2>2. Spaced(n)' /\ Recovering(n)'
    BY <1>1, <1>5, <2>1 DEF Spaced, Recovering, Never
  <2> QED
    BY <1>1, <1>4, <2>2 DEF Recovery
<1>10. CASE TransmitFails(n)
  <2>1. /\ bound[n] # 0 /\ lastTry' = lastTry
        /\ firstTry'[n] = (IF firstTry[n] = Never THEN now ELSE firstTry[n])
        /\ \/ bound[n] = index[n] /\ UNCHANGED <<bound, retryAt>>
           \/ bound[n] # index[n] /\ bound'[n] = 0 /\ retryAt'[n] = now + Retry
    BY <1>2, <1>10 DEF TransmitFails, Visited, DropIfGone, RetryLater
  <2>2. Spaced(n)'
    BY <1>1, <1>2, <1>5, <2>1 DEF Spaced, Never
  <2>3. Recovering(n)'
    BY <1>1, <1>2, <1>5, <2>1 DEF Recovering, Never
  <2> QED
    BY <1>1, <1>4, <2>2, <2>3 DEF Recovery
<1> QED
  BY <1>6, <1>7, <1>8, <1>9, <1>10 DEF Handles

\* Whatever happens, a dead interface waits no longer and no shorter than RETRY.
LEMMA RecoveryStep ==
  ASSUME TypeOK, Account, Recovery, [Next]_vars PROVE Recovery'
<1>1. /\ now \in Nat /\ Retry \in Nat
      /\ bound \in [Ifaces -> Nat] /\ retryAt \in [Ifaces -> Nat] /\ index \in [Ifaces -> Nat]
      /\ lastTry \in [Ifaces -> Nat] /\ firstTry \in [Ifaces -> Nat]
  BY BoundsAssumption DEF TypeOK
<1>2. CASE Tick
  <2>1. ASSUME NEW n \in Ifaces, Spaced(n) PROVE Spaced(n)'
    BY <1>1, <1>2, <2>1 DEF Tick, Spaced, Never, sockets, history
  <2> QED
    BY <1>2, <2>1 DEF Tick, Recovery, Recovering, Never, All, sockets, history, calls
<1>3. CASE Open
  <2>1. ASSUME NEW n \in Ifaces PROVE Spaced(n)' /\ Recovering(n)'
    <3>1. /\ bound'[n] = index[n] /\ lastTry'[n] = now /\ UNCHANGED <<now, index>>
          /\ index[n] = 0 => retryAt'[n] = now + Retry
      BY <1>3 DEF Open, All, network
    <3>2. firstTry'[n] = Never
      BY <1>3 DEF Open, Recovery, All
    <3> QED
      BY <1>1, <3>1, <3>2 DEF Spaced, Recovering, Never
  <2> QED
    BY <1>3, <2>1 DEF Open, Recovery
<1>4. CASE BeginFrame \/ EndFrame \/ Closed \/ UNCHANGED vars
  <2>1. /\ UNCHANGED <<now, index, bound, retryAt, lastTry, firstTry>>
        /\ pc' = "new" => pc = "new"
        /\ pc' \in {"idle", "send"} => pc \in {"idle", "send"}
    BY <1>4 DEF BeginFrame, EndFrame, Closed, vars, network, sockets, history, calls
  <2> QED
    BY <2>1 DEF Recovery, Spaced, Recovering, Never, All
<1>5. CASE Close
  BY <1>5 DEF Close, Recovery
<1>6. ASSUME NEW n \in Ifaces, Changed(n) PROVE Recovery'
  <2>1. /\ UNCHANGED <<now, pc, bound, retryAt, lastTry>>
        /\ firstTry' = [firstTry EXCEPT ![n] = Never]
        /\ \A m \in Ifaces \ {n} : index'[m] = index[m]
    BY <1>1, <1>6 DEF Changed, Toggle, Delete, Create, Changes, sockets, calls
  <2>2. pc = "new" => firstTry' = All(Never)
    BY <1>1, <2>1 DEF Recovery, All, Never
  <2>3. ASSUME NEW m \in Ifaces, Spaced(m) /\ Recovering(m)
        PROVE  Spaced(m)' /\ Recovering(m)'
    BY <1>1, <2>1, <2>3 DEF Spaced, Recovering, Never
  <2> QED
    BY <2>1, <2>2, <2>3 DEF Recovery, All, Never
<1> QED
  BY <1>2, <1>3, <1>4, <1>5, <1>6, HandleRecovery DEF Next, Changed, Handles

\* Two attempts to open an interface are RETRY apart.
LEMMA TriesApart ==
  ASSUME TypeOK, Recovery, [Next]_vars, NEW n \in Ifaces,
         lastTry'[n] # lastTry[n], lastTry[n] # Never
  PROVE  lastTry'[n] - lastTry[n] >= Retry
<1>1. ~Open
  BY DEF Open, Recovery, All
<1>2. PICK m \in Ifaces : ReopenFails(m) \/ Reopen(m)
  BY <1>1 DEF Next, Tick, BeginFrame, EndFrame, Close, Closed, Toggle, Delete, Create, Changes,
     Waits, Transmit, TransmitFails, vars, history
<1>3. /\ pc = "send" /\ bound[m] = 0 /\ now >= retryAt[m]
      /\ lastTry' = [lastTry EXCEPT ![m] = now]
  BY <1>2 DEF ReopenFails, Reopen
<1>4. m = n /\ lastTry'[n] = now
  BY <1>3 DEF TypeOK
<1>5. lastTry[n] + Retry <= retryAt[n]
  BY <1>3, <1>4 DEF Recovery, Spaced
<1>6. now \in Nat /\ Retry \in Nat /\ lastTry[n] \in Nat /\ retryAt[n] \in Nat
  BY BoundsAssumption DEF TypeOK
<1> QED
  BY <1>3, <1>4, <1>5, <1>6

\* An interface that is up and was first tried RETRY ago gets the frame.
LEMMA FramesReach ==
  ASSUME TypeOK, Recovery, [Next]_vars, NEW n \in Ifaces,
         n \in visit, n \notin visit', index[n] # 0, up[n],
         firstTry[n] # Never, now >= firstTry[n] + Retry
  PROVE  n \in reached'
<1>1. /\ now \in Nat /\ Retry \in Nat /\ retryAt[n] \in Nat /\ firstTry[n] \in Nat
      /\ visit \subseteq Ifaces
  BY BoundsAssumption DEF TypeOK
<1>2. PICK m \in Ifaces : Waits(m) \/ ReopenFails(m) \/ Transmit(m) \/ TransmitFails(m)
  BY <1>1 DEF Next, Tick, Open, BeginFrame, EndFrame, Close, Closed, Toggle, Delete, Create,
     Changes, Reopen, vars, calls
<1>3. m = n /\ pc = "send"
  BY <1>2 DEF Waits, ReopenFails, Transmit, TransmitFails, Visited
<1>4. bound[n] = index[n] \/ (bound[n] = 0 /\ retryAt[n] <= firstTry[n] + Retry)
  BY <1>3 DEF Recovery, Recovering
<1>5. ~Waits(n)
  <2>1. bound[n] = 0 => ~(now < retryAt[n])
    BY <1>1, <1>4
  <2> QED
    BY <2>1 DEF Waits
<1>6. ~ReopenFails(n)
  BY DEF ReopenFails
<1>7. ~TransmitFails(n)
  BY <1>4 DEF TransmitFails
<1> QED
  BY <1>2, <1>3, <1>5, <1>6, <1>7 DEF Transmit

\* A dead interface is tried every RETRY and no more often, and one that is back
\* is sending again RETRY later (RawSender.send, _reopen), however many interfaces
\* come and go.
THEOREM RecoversCorrect == Spec => Recovers
<1>1. Init => TypeOK /\ Account /\ Recovery
  BY InitIInv DEF IInv, Init, Recovery
<1>2. TypeOK /\ Account /\ Recovery /\ [Next]_vars => (TypeOK /\ Account /\ Recovery)'
  BY TypeStep, AccountStep, RecoveryStep
<1>3. TypeOK /\ Recovery /\ [Next]_vars =>
        [\A n \in Ifaces :
           /\ lastTry'[n] # lastTry[n] /\ lastTry[n] # Never =>
                lastTry'[n] - lastTry[n] >= Retry
           /\ /\ n \in visit /\ n \notin visit'
              /\ index[n] # 0 /\ up[n]
              /\ firstTry[n] # Never /\ now >= firstTry[n] + Retry
              => n \in reached']_vars
  BY TriesApart, FramesReach
<1> QED
  BY <1>1, <1>2, <1>3, PTL DEF Spec, Recovers
=============================================================================
