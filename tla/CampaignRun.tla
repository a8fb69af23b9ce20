----------------------------- MODULE CampaignRun -----------------------------
(***************************************************************************)
(* A campaign as it is run: the phases of Campaign, the frames that their  *)
(* streams send (schedule.env_streams, Enterprise._route), the phase loop  *)
(* of _run_timed in src/tgt/engine.py around the recorder of Recorder, and *)
(* the manifest as tgt score reads it with Score.                          *)
(*                                                                         *)
(* Frames are those of conversations, of DHCP leases and of ARP; a         *)
(* conversation's are told apart by direction only. Which stream is due    *)
(* when is left open; a frame that was built in one phase may be sent in a *)
(* later one, as Scheduler has it. A file's run has a synthetic clock, an  *)
(* interface's the wall clock, and stops at any time.                      *)
(***************************************************************************)
EXTENDS Recorder

CONSTANTS
  Anyone,             \* the broadcast address, the broadcast MAC
  GatewayMac(_),      \* of a segment
  Length,             \* of each phase
  Gaps,               \* from a frame to the next
  MaxFrames           \* bound: frames per phase

ASSUME TimesAssumption == Length \in Nat /\ Gaps \subseteq Nat /\ None \notin Nat

Ips ==
  DOMAIN Zone \cup {AnyAddress}
  \cup UNION {{h.ip : h \in ToSet(INCIDENTS[k].hosts)} : k \in DOMAIN INCIDENTS}

\* Names are no addresses (asset ids are `env:name'), incidents are no baseline.
ASSUME NamesAssumption ==
  /\ \A h \in ToSet(Base.hosts) \cup AddedHosts \cup UNION {ToSet(INCIDENTS[k].hosts) : k \in DOMAIN INCIDENTS} :
       h.name \notin {None} \cup {GatewayMac(Zone[a]) : a \in DOMAIN Zone} \cup Ips
  /\ "baseline" \notin DOMAIN INCIDENTS

\* No MAC reads like an IP, no host has 0.0.0.0, no attack is a lease.
ASSUME AddressesAssumption ==
  /\ Ips \cap (Said("mac") \ {None}) = {}
  /\ \A model \in Said("model"), ip \in DOMAIN Zone : AutoMac(model, ip) \notin Ips
  /\ \A a \in DOMAIN Zone : GatewayMac(Zone[a]) \notin Ips
  /\ AnyAddress # None /\ {AnyAddress, None} \cap DOMAIN Zone = {}
  /\ \A k \in DOMAIN INCIDENTS : /\ \A h \in ToSet(INCIDENTS[k].hosts) :
                                      h.mac \notin Ips /\ h.ip \notin {None, AnyAddress}
                                 /\ \A f \in ToSet(INCIDENTS[k].flows) : f[3] # "dhcp"

VARIABLES
  synthetic,          \* the clock frames are stamped with
  pc, i, now,         \* of _run_timed: i phases have begun
  log                 \* history: every frame that was observed

run == <<synthetic, pc, i, now, log>>
vars == <<plan, manifest, run>>

INSTANCE Score

-----------------------------------------------------------------------------
(* What hosts put on the wire.                                             *)

Mac(env, n) == Of(env.hosts, n).mac

\* segment_of: the segments have the addresses of Zone. A host that is not of the
\* environment is foreign to all of them.
Segment(h) == IF h.ip \in DOMAIN Zone THEN Zone[h.ip] ELSE None
SegmentIn(env, h) == IF h.name \in Names(env.hosts) THEN Segment(h) ELSE None

\* place: a frame from c to s or back, whose sender is told by MAC. _route: other
\* segments and foreign hosts are behind the gateway.
Unicast(env, f, source, c, s, reply) ==
  LET a == IF reply THEN s ELSE c
      b == IF reply THEN c ELSE s
      forward == a.mac = c.mac
      x == SegmentIn(env, IF forward THEN c ELSE s)
      y == SegmentIn(env, IF forward THEN s ELSE c)
  IN [key |-> f[3], conv |-> f, source |-> source, from |-> f[IF reply THEN 2 ELSE 1],
      s |-> a.ip, d |-> b.ip,
      smac |-> IF x = None /\ y # None THEN GatewayMac(y) ELSE a.mac,
      dmac |-> IF x \in {None, y} THEN b.mac ELSE GatewayMac(x)]

Discover(f, a) ==
  [key |-> "dhcp", conv |-> f, source |-> "baseline", from |-> a.name, s |-> AnyAddress,
   d |-> Anyone, smac |-> a.mac, dmac |-> Anyone]

Arp(from, smac, dmac) ==
  [key |-> "arp", conv |-> <<>>, source |-> "baseline", from |-> from,
   s |-> smac, d |-> dmac, smac |-> smac, dmac |-> dmac]

\* mutant: a server that is offline still answers
AlwaysAnswers(off, f) == TRUE

Answers(off, f) == f[2] \notin off \/ f[1] = f[2]

ConversationFrames(env, off, f) ==
  LET c == Of(env.hosts, f[1])
      s == Of(env.hosts, f[2])
  IN IF f[1] \in off THEN {}
     ELSE {Unicast(env, f, "baseline", c, s, FALSE)}
          \cup (IF f[3] = "dhcp" THEN {Discover(f, c)} ELSE {})
          \cup (IF Answers(off, f) THEN {Unicast(env, f, "baseline", c, s, TRUE)} ELSE {})

\* ArpStream, and the announcement of an arrival, which looks like a request.
ArpFrames(env, off, h) ==
  LET segment == Segment(Of(env.hosts, h))
      peers == {n \in Names(env.hosts) \ (off \cup {h}) :
                  /\ Segment(Of(env.hosts, n)) = segment
                  /\ \E k \in DOMAIN env.flows : env.flows[k][1] = h /\ env.flows[k][2] = n}
  IN IF h \in off THEN {}
     ELSE {Arp(h, Mac(env, h), Anyone), Arp(None, GatewayMac(segment), Mac(env, h))}
          \cup {Arp(n, Mac(env, n), Mac(env, h)) : n \in peers}

\* sprinkle_streams: whoever stands in for an incident's host, offline or not.
\* The manifest knows external hosts by address.
Acting(inc, env, m, f) == <<Resolve(inc, env, m, f[1]), Resolve(inc, env, m, f[2])>>
Called(inc, env, m, n) ==
  LET h == Resolve(inc, env, m, n)
  IN IF _is_external(Of(inc.hosts, n)) THEN h.ip ELSE h.name

Attacks(env, key) ==
  LET inc == INCIDENTS[key]
      m == map_onto(inc, env)
  IN {[conv |-> <<Called(inc, env, m, f[1]), Called(inc, env, m, f[2]), f[3]>>,
       ends |-> Acting(inc, env, m, f)] : f \in ToSet(inc.flows)}

SprinkleFrames(env, key) ==
  {Unicast(env, g.conv, key, g.ends[1], g.ends[2], reply) :
     g \in Attacks(env, key), reply \in BOOLEAN}

env_streams(ph) ==
  (UNION {ConversationFrames(ph.env, ph.offline, f) : f \in ToSet(ph.env.flows)})
  \cup (UNION {ArpFrames(ph.env, ph.offline, h) : h \in Names(ph.env.hosts)})
  \cup (UNION {SprinkleFrames(ph.env, k) : k \in ToSet(ph.sprinkle)})

-----------------------------------------------------------------------------
(* _run_timed                                                              *)

Init ==
  /\ PlanInit /\ RecorderInit(Environment(Base))
  /\ synthetic \in BOOLEAN /\ pc = "planning" /\ i = 0 /\ now = 0 /\ log = <<>>

Plan == Planning /\ UNCHANGED <<manifest, run>>

Start ==
  /\ Launch /\ campaign(union_env)
  /\ pc' = "between" /\ UNCHANGED <<synthetic, i, now, log>>

\* Never before its time: what is left of the phase before is slept.
BeginPhase ==
  /\ pc = "between" /\ i < Len(phases)
  /\ now' = IF now < i * Length THEN i * Length ELSE now
  /\ begin_phase(i + 1, phases[i + 1], IF synthetic THEN i * Length ELSE now')
  /\ i' = i + 1 /\ pc' = "phase"
  /\ UNCHANGED <<plan, synthetic, log>>

\* A phase's frames, or ones that an earlier phase's streams had built. The wall
\* clock's can be late.
SendFrame ==
  /\ pc = "phase" /\ Cardinality({k \in DOMAIN log : log[k].phase = i}) < MaxFrames
  /\ \E gap \in Gaps, built \in 1 .. i : \E f \in env_streams(phases[built]) :
       /\ synthetic => now + gap < i * Length
       /\ observe(now + gap, f)
       /\ now' = now + gap
       /\ log' = Append(log, [frame |-> f, ts |-> now + gap, phase |-> i, built |-> built,
                              asset |-> Source(f), flow |-> FlowOf(f)])
  /\ UNCHANGED <<plan, synthetic, pc, i>>

\* The wall clock's phase ends with its last frame; the rest of it is slept.
EndPhase ==
  /\ pc = "phase"
  /\ LET end == IF synthetic THEN i * Length ELSE now
     IN end_phase(end) /\ now' = end
  /\ pc' = IF i = Len(phases) THEN "done" ELSE "between"
  /\ UNCHANGED <<plan, synthetic, i, log>>

\* A signal, /stop, --count.
StopRun ==
  /\ pc \in {"between", "phase"}
  /\ IF pc = "phase" THEN end_phase(None) ELSE UNCHANGED manifest
  /\ pc' = "done"
  /\ UNCHANGED <<plan, synthetic, i, now, log>>

Next ==
  Plan \/ Start \/ BeginPhase \/ SendFrame \/ EndPhase \/ StopRun

Spec == Init /\ [][Next]_vars

-----------------------------------------------------------------------------
(* The manifest, as tgt score reads it.                                    *)

truth ==
  [assets |-> {[id |-> r.name, name |-> r.name, ip |-> r.ip, mac |-> r.mac, vlan |-> Segment(r),
                emitted |-> r.name \in DOMAIN seen] :
                 r \in ToSet(inventory.hosts) \cup ToSet(inventory.new_assets)},
   infra |-> {GatewayMac(Zone[a]) : a \in DOMAIN Zone},
   external |-> {}]

-----------------------------------------------------------------------------
(* Properties.                                                             *)

\* The hosts of all phases, and those that incidents bring.
HostsEver ==
  ToSet(Environment(Base).hosts)
  \cup UNION {ToSet(phases[p].env.hosts)
              \cup UNION {ToSet(unmapped_hosts(INCIDENTS[k], phases[p].env)) :
                            k \in ToSet(phases[p].sprinkle)} : p \in DOMAIN phases}

\* ... with the external ones, which go by their addresses.
Outsiders(inc) == {[name |-> h.ip, ip |-> h.ip, mac |-> h.mac] : h \in External(inc)}

PartiesEver ==
  HostsEver \cup UNION {UNION {Outsiders(INCIDENTS[k]) : k \in ToSet(phases[p].sprinkle)} :
                          p \in DOMAIN phases}

FlowsEver ==
  ToSet(Base.flows)
  \cup UNION {ToSet(phases[p].env.flows)
              \cup UNION {{g.conv : g \in Attacks(phases[p].env, k)} :
                            k \in ToSet(phases[p].sprinkle)} : p \in DOMAIN phases}

\* Another host has had the address, in the same environment or before or after.
Rival(hosts, a, n) == \E h \in hosts : h.name # n /\ a \in {h.ip, h.mac}

Contested(hosts, a) == \E h \in hosts : a \in {h.ip, h.mac} /\ Rival(hosts, a, h.name)

Clear(hosts, f) == ~Rival(hosts, f.smac, f.from) /\ ~Rival(hosts, f.s, f.from)

\* Every frame is credited to the host that sent it, whatever phase it was built
\* in and however addresses have moved, unless one of its addresses has been
\* another host's; what a gateway sends is credited to no host (_resolve).
Attributed ==
  LET hosts == HostsEver
  IN \A k \in DOMAIN log :
       LET f == log[k].frame
       IN \/ log[k].asset = IF f.from = None THEN f.smac ELSE f.from
          \/ ~Clear(hosts, f)

\* ... and counted under its own conversation, replies and broadcasts too: only
\* another conversation of the two hosts, or of the broadcaster, takes a frame
\* from it (_resolve's four keys and its fallback to MACs).
FlowsTrue ==
  LET hosts == PartiesEver
      ever == FlowsEver
      rivals(f) == {g \in ever \ {f.conv} :
                      /\ g[3] = f.key
                      /\ \/ {g[1], g[2]} = {f.conv[1], f.conv[2]}
                         \/ f.s = AnyAddress /\ f.from \in {g[1], g[2]}}
  IN \A k \in DOMAIN log :
       LET f == log[k].frame
       IN /\ f.conv # <<>> /\ <<log[k].flow[1], log[k].flow[2]>> # <<f.conv[1], f.conv[2]>>
          /\ Clear(hosts, f) /\ ~Contested(hosts, f.d)
          => rivals(f) # {}

\* The phases of the manifest are a partition of the run: every frame is counted
\* by the phase that it was sent in and by no other, a phase ends before the next
\* one starts, the frames it counts lie within it, and its change events end
\* with it (begin_phase, end_phase).
FramesOf(k) == {j \in DOMAIN log : log[j].phase = phase_log[k].id}

PhasesAddUp ==
  /\ packets = Len(log)
  /\ \A j \in DOMAIN log : \E k \in DOMAIN phase_log : \A m \in DOMAIN phase_log :
       j \in FramesOf(m) <=> m = k
  /\ \A k \in DOMAIN phase_log :
       LET p == phase_log[k]
       IN /\ PhaseRows[k].packets = Cardinality(FramesOf(k))
          /\ k < Len(phase_log) => p.end # None /\ p.end <= phase_log[k + 1].start
          /\ \A j \in FramesOf(k) : p.start <= log[j].ts /\ (p.end # None => log[j].ts <= p.end)
          /\ \A e \in change_events : e.phase = p.id => e.t_start = p.start /\ e.t_end = p.end

\* A baseline frame is credited to an asset only if the phase it was built in is one in
\* which the inventory's row says that the asset is online: offline servers do
\* not answer, removed hosts do not send (env_streams, campaign's rows).
OnlineOnly ==
  LET hosts == HostsEver
  IN \A k \in DOMAIN log : \A r \in ToSet(inventory.hosts) :
       log[k].frame.source = "baseline" /\ r.name = log[k].asset =>
         log[k].built \in r.online_phases \/ ~Clear(hosts, log[k].frame)

\* The inventory, which has one address per host, has the sender's: external hosts
\* go by theirs.
Listed(f) == \E a \in truth.assets : a.id = f.from /\ a.ip = f.s

\* The frame belongs to the event: to the attack itself, to an asset that is new,
\* to a host that its phase has changed.
Shows(parties, sent, e) ==
  LET f == sent.frame
  IN \/ /\ f.source # "baseline" /\ (Listed(f) \/ f.from = f.s) /\ Clear(parties, f)
        /\ e = AttackRow(<<sent.flow[1], sent.flow[2], f.key, f.source>>)
     \/ /\ sent.asset \in DOMAIN new_assets /\ Listed(f) /\ Clear(parties, f)
        /\ e = NewAssetRow(sent.asset)
     \/ /\ e.phase = sent.phase /\ e.phase = sent.built
        /\ f.from \in e.what.hosts \cap Names(phases[e.phase].env.hosts)
        /\ f.s = Of(phases[e.phase].env.hosts, f.from).ip

\* A monitor that raises the right alert, about the sender, at every frame of an
\* event has no false alert and misses no event that has shown itself, with no
\* tolerance (the events of to_dict against detections). Of what is not the phase's
\* own change, senders whose address has been another host's, or is no longer theirs,
\* are excepted: hosts are compared by the addresses of the inventory.
Detected ==
  pc = "done" =>
    LET parties == PartiesEver
        shown == {p \in (DOMAIN log) \X EventRows : Shows(parties, log[p[1]], p[2])}
        alerts == {[category |-> p[2].what.category, time |-> log[p[1]].ts,
                    ips |-> {log[p[1]].frame.s}] : p \in shown}
        d == detections(truth, EventRows, alerts, 0, 0)
    IN /\ d.false_alerts = {}
       /\ d.missed \cap {p[2] : p \in shown} = {}

\* What a monitor has seen of a MAC.
SeenOf(m) ==
  LET own == Without(log, {e \in ToSet(log) : ~(e.frame.smac = m /\ e.frame.s \in DOMAIN Zone)})
      ips == [j \in DOMAIN own |-> own[j].frame.s]
  IN [ips |-> ips, macs |-> <<m>>, name |-> None,
      vlan |-> IF ips = <<>> THEN None ELSE Zone[ips[Len(ips)]]]

\* Nobody else goes by the asset's name. An incident's host that nobody stands in
\* for has its name and address from the incident, whatever the environment has.
Alone(t, a) == \A b \in t.assets : b.id = a.id => b = a

\* A monitor's row of a sender that still has the MAC or one of the addresses
\* that the inventory gives it is matched to it, if no other host has had them or is
\* listed with them and the MAC is no router's; and the perfect export scores 100 %,
\* also where hosts share a MAC (perfect_export's docstring).
Recognised ==
  pc = "done" =>
    LET t == truth
        hosts == PartiesEver \cup t.assets
    IN /\ \A k \in DOMAIN log : \A a \in {b \in t.assets : b.name = log[k].frame.from} :
            LET row == SeenOf(log[k].frame.smac)
            IN /\ a.mac = row.macs[1] \/ a.ip \in ToSet(row.ips)
               /\ \A x \in ToSet(row.macs) \cup ToSet(row.ips) : ~Contested(hosts, x)
               /\ Alone(t, a) /\ row.macs[1] \notin t.infra
               => Match(t, row).asset = a.id
       /\ (\A a \in t.assets : Alone(t, a) /\ a.mac \notin t.infra)
            => Perfect(score(t, perfect_export(t)))

\* No conversation of a sprinkled incident is one of a host with itself, and who
\* stands in for its server serves what the attack needs; external hosts are
\* nobody's role (map_onto's docstring).
Placed ==
  pc = "planning" =>
    \A p \in DOMAIN phases : \A key \in ToSet(phases[p].sprinkle) :
      LET env == phases[p].env
          inc == INCIDENTS[key]
          m == map_onto(inc, env)
      IN /\ \A f \in ToSet(inc.flows) :
              /\ Acting(inc, env, m, f)[1] # Acting(inc, env, m, f)[2]
              /\ f[2] \in DOMAIN m /\ Service[f[3]] # None
                   => _can_serve(env, Of(env.hosts, m[f[2]]), Service[f[3]])
         /\ \A n \in DOMAIN m : ~_is_external(Of(inc.hosts, n))

\* What the manifest says a phase has changed turns the phase before it into it:
\* hosts, their fields, their flows and who is offline (_apply against _diff).
DiffsReplay ==
  \A p \in 2 .. Len(phases) :
    LET old == phases[p - 1]
        new == phases[p]
        d == new.diff
        kept == Names(old.env.hosts) \ d.removed
        field(n, f) == LET c == {x \in d.changed : x.name = n /\ x.field = f}
                       IN IF c = {} THEN Of(old.env.hosts, n)[f] ELSE (CHOOSE x \in c : TRUE).new
    IN /\ Names(new.env.hosts) = kept \cup d.added
       /\ \A n \in kept : \A f \in DOMAIN Of(new.env.hosts, n) \ {"name"} :
            field(n, f) = Of(new.env.hosts, n)[f]
       /\ new.offline = ((old.offline \ d.removed) \ d.online) \cup d.offline
       /\ ToSet(new.env.flows) = (ToSet(old.env.flows) \ ToSet(d.flows_removed))
                                   \cup ToSet(d.flows_added)
=============================================================================
