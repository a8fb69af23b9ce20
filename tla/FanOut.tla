-------------------------------- MODULE FanOut --------------------------------
(***************************************************************************)
(* RawSender of src/tgt/sender.py: one raw socket per send interface, every*)
(* frame fanned out to all of them. Interfaces are taken down, deleted and *)
(* created again by somebody else at any moment, also in the middle of a   *)
(* frame; a socket stays bound to the interface it was opened on (the      *)
(* ifindex), so it is dead once that is gone, even if one of the same name *)
(* is back.                                                                *)
(***************************************************************************)
EXTENDS Naturals, FiniteSets

CONSTANTS
  Ifaces,      \* the names of --iface a,b,...
  Retry,       \* RETRY: time between two attempts to open a dead interface
  MaxTime,     \* bound: time
  MaxIndex,    \* bound: times an interface of a name is created
  MaxFrames    \* bound: frames sent

ASSUME IfacesAssumption == IsFiniteSet(Ifaces) /\ Ifaces # {}
ASSUME BoundsAssumption == {Retry, MaxTime, MaxIndex, MaxFrames} \subseteq Nat

VARIABLES
  now,
  index, up,             \* what the name stands for (0: nothing); link up
  created,               \* interfaces created under the name so far
  pc,                    \* "new", "idle", "send" or "closed"
  bound,                 \* the ifindex the socket is bound to, 0: no socket
  retryAt, packets, errors,
  visit,                 \* interfaces the frame has not been handed to yet
  sent,                  \* the frame left on some interface
  attempted, returned, raised,   \* frames: all, send() returned, it raised
  failedOpens,           \* history: interfaces that failed in open()
  reached,               \* history: interfaces the frame left on
  lastTry,               \* history: when an open was last tried, or Never
  firstTry               \* history: when a frame was first handed to an
                         \* interface since it is what it is, or Never

network == <<now, index, up, created>>
sockets == <<bound, retryAt, packets, errors>>
calls == <<pc, visit, sent, attempted, returned, raised>>
history == <<failedOpens, reached, lastTry, firstTry>>
vars == <<network, sockets, calls, history>>

Never == MaxTime + Retry + 1
All(v) == [n \in Ifaces |-> v]

Init ==
  /\ now = 0
  /\ index \in [Ifaces -> {0, 1}] /\ created = index
  /\ up = [n \in Ifaces |-> index[n] = 1]
  /\ pc = "new" /\ visit = {} /\ sent = FALSE
  /\ attempted = 0 /\ returned = 0 /\ raised = 0
  /\ bound = All(0) /\ retryAt = All(0) /\ packets = All(0) /\ errors = All(0)
  /\ failedOpens = {} /\ reached = {}
  /\ lastTry = All(Never) /\ firstTry = All(Never)

-----------------------------------------------------------------------------
(* The network: ip link set up / down, add, delete; the clock.             *)

Changes(n) ==
  /\ firstTry' = [firstTry EXCEPT ![n] = Never]
  /\ UNCHANGED <<now, sockets, calls, failedOpens, reached, lastTry>>

Toggle(n) ==
  /\ index[n] # 0
  /\ up' = [up EXCEPT ![n] = ~@]
  /\ Changes(n) /\ UNCHANGED <<index, created>>

Delete(n) ==
  /\ index[n] # 0
  /\ index' = [index EXCEPT ![n] = 0] /\ up' = [up EXCEPT ![n] = FALSE]
  /\ Changes(n) /\ UNCHANGED created

Create(n) ==
  /\ index[n] = 0 /\ created[n] < MaxIndex
  /\ created' = [created EXCEPT ![n] = @ + 1]
  /\ index' = [index EXCEPT ![n] = created[n] + 1]
  /\ Changes(n) /\ UNCHANGED up

Tick ==
  /\ now < MaxTime /\ now' = now + 1
  /\ UNCHANGED <<index, up, created, sockets, calls, history>>

-----------------------------------------------------------------------------
(* The sender.                                                             *)

\* open(): every interface; an error only if none of them could be opened.
Open ==
  LET failed == {n \in Ifaces : index[n] = 0} IN
  /\ pc = "new"
  /\ bound' = index
  /\ retryAt' = [n \in Ifaces |-> IF n \in failed THEN now + Retry ELSE 0]
  /\ errors' = [n \in Ifaces |-> IF n \in failed THEN 1 ELSE 0]
  /\ pc' = IF failed = Ifaces THEN "closed" ELSE "idle"
  /\ failedOpens' = failed
  /\ lastTry' = All(now)
  /\ UNCHANGED <<network, packets, visit, sent, attempted, returned, raised,
                 reached, firstTry>>

\* send(): the loop over the interfaces begins.
BeginFrame ==
  /\ pc = "idle" /\ attempted < MaxFrames
  /\ pc' = "send" /\ visit' = Ifaces /\ sent' = FALSE /\ reached' = {}
  /\ attempted' = attempted + 1
  /\ UNCHANGED <<network, sockets, returned, raised, failedOpens, lastTry,
                 firstTry>>

\* The first attempt since the interface is what it is, for the record.
Visited(n) ==
  /\ visit' = visit \ {n}
  /\ firstTry' = [firstTry EXCEPT ![n] = IF @ = Never THEN now ELSE @]
  /\ UNCHANGED <<network, pc, attempted, returned, raised, failedOpens>>

\* mutant: a frame missed while an interface waits for its retry is nobody's
ForgetsMissed(n) == UNCHANGED errors

Missed(n) == errors' = [errors EXCEPT ![n] = @ + 1]

\* No socket, and the retry is not due: the frame is missed on n.
Waits(n) ==
  /\ pc = "send" /\ n \in visit
  /\ bound[n] = 0 /\ now < retryAt[n]
  /\ Missed(n)
  /\ Visited(n) /\ UNCHANGED <<bound, retryAt, packets, sent, reached, lastTry>>

RetryLater(n) == retryAt' = [retryAt EXCEPT ![n] = now + Retry]

\* No socket, the retry is due and fails.
ReopenFails(n) ==
  /\ pc = "send" /\ n \in visit
  /\ bound[n] = 0 /\ now >= retryAt[n] /\ index[n] = 0
  /\ RetryLater(n)
  /\ errors' = [errors EXCEPT ![n] = @ + 1]
  /\ lastTry' = [lastTry EXCEPT ![n] = now]
  /\ Visited(n) /\ UNCHANGED <<bound, packets, sent, reached>>

\* The retry is due and succeeds; the frame goes to the new socket.
Reopen(n) ==
  /\ pc = "send" /\ n \in visit
  /\ bound[n] = 0 /\ now >= retryAt[n] /\ index[n] # 0
  /\ bound' = [bound EXCEPT ![n] = index[n]]
  /\ lastTry' = [lastTry EXCEPT ![n] = now]
  /\ UNCHANGED <<network, retryAt, packets, errors, calls, failedOpens, reached,
                 firstTry>>

Sent(n, ok) == sent' = (sent \/ ok)

\* s.send() on a live socket.
Transmit(n) ==
  /\ pc = "send" /\ n \in visit
  /\ bound[n] # 0 /\ bound[n] = index[n] /\ up[n]
  /\ packets' = [packets EXCEPT ![n] = @ + 1]
  /\ Sent(n, TRUE)
  /\ reached' = reached \cup {n}
  /\ Visited(n) /\ UNCHANGED <<bound, retryAt, errors, lastTry>>

\* mutant: a socket is kept whatever the error says
KeepsDead(n) == UNCHANGED <<bound, retryAt>>

\* ENXIO / ENODEV: the interface of this socket is no more. Other errors
\* (ENETDOWN) leave the socket as it is.
DropIfGone(n) ==
  IF bound[n] = index[n]
    THEN UNCHANGED <<bound, retryAt>>
    ELSE bound' = [bound EXCEPT ![n] = 0] /\ RetryLater(n)

\* s.send() raises: the link is down, or the socket is dead.
TransmitFails(n) ==
  /\ pc = "send" /\ n \in visit
  /\ bound[n] # 0 /\ (bound[n] # index[n] \/ ~up[n])
  /\ errors' = [errors EXCEPT ![n] = @ + 1]
  /\ DropIfGone(n)
  /\ Sent(n, FALSE)
  /\ Visited(n) /\ UNCHANGED <<packets, reached, lastTry>>

\* send() returns, or raises when the frame left on no interface.
EndFrame ==
  /\ pc = "send" /\ visit = {} /\ pc' = "idle"
  /\ IF sent THEN returned' = returned + 1 /\ UNCHANGED raised
             ELSE raised' = raised + 1 /\ UNCHANGED returned
  /\ UNCHANGED <<network, sockets, visit, sent, attempted, history>>

Close ==
  /\ pc = "idle" /\ pc' = "closed"
  /\ bound' = All(0)
  /\ UNCHANGED <<network, retryAt, packets, errors, visit, sent, attempted,
                 returned, raised, history>>

Closed == pc = "closed" /\ UNCHANGED vars

Next ==
  \/ Tick \/ Open \/ BeginFrame \/ EndFrame \/ Close \/ Closed
  \/ \E n \in Ifaces : \/ Toggle(n) \/ Delete(n) \/ Create(n)
                       \/ Waits(n) \/ ReopenFails(n) \/ Reopen(n)
                       \/ Transmit(n) \/ TransmitFails(n)

Spec == Init /\ [][Next]_vars

-----------------------------------------------------------------------------
(* Properties.                                                             *)

\* The types of the sender's state (RawSender.__init__). No retry is further
\* away than RETRY, and no socket is of an interface that never was.
TypeOK ==
  /\ now \in Nat /\ {attempted, returned, raised} \subseteq Nat
  /\ index \in [Ifaces -> Nat] /\ created \in [Ifaces -> Nat]
  /\ bound \in [Ifaces -> Nat] /\ up \in [Ifaces -> BOOLEAN]
  /\ retryAt \in [Ifaces -> 0..(now + Retry)]
  /\ \A n \in Ifaces : bound[n] <= created[n] /\ index[n] <= created[n]
  /\ packets \in [Ifaces -> Nat] /\ errors \in [Ifaces -> Nat]
  /\ pc \in {"new", "idle", "send", "closed"}
  /\ visit \subseteq Ifaces /\ sent \in BOOLEAN
  /\ failedOpens \subseteq Ifaces /\ reached \subseteq Ifaces
  /\ lastTry \in [Ifaces -> Nat] /\ firstTry \in [Ifaces -> Nat]

\* Per interface, every frame is a packet or an error, exactly once, whether
\* the interface was up, down, waiting for its retry or lost half-way; beyond
\* that there is at most the error of a failed open(). send() raises exactly when
\* the frame left on no interface, so what the engine counts and logs really left.
EveryFrameAccounted ==
  /\ \A n \in Ifaces :
       packets[n] + errors[n] + (IF n \in visit THEN 1 ELSE 0)
         = attempted + (IF n \in failedOpens THEN 1 ELSE 0)
  /\ pc = "send" => (sent <=> reached # {})
  /\ \A n \in Ifaces : packets[n] <= returned + (IF pc = "send" THEN 1 ELSE 0)

\* A dead interface is not hammered: two attempts to open it are at least RETRY
\* apart, however fast frames are sent and sockets die. One that is back
\* recovers: once RETRY has passed since the first frame handed to it, every
\* frame leaves on it, although the socket was bound to an interface of that name
\* deleted since.
Recovers ==
  [][\A n \in Ifaces :
       /\ lastTry'[n] # lastTry[n] /\ lastTry[n] # Never =>
            lastTry'[n] - lastTry[n] >= Retry
       /\ /\ n \in visit /\ n \notin visit'
          /\ index[n] # 0 /\ up[n]
          /\ firstTry[n] # Never /\ now >= firstTry[n] + Retry
          => n \in reached']_vars
=============================================================================
