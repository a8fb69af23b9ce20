------------------------------- MODULE Campaign -------------------------------
(***************************************************************************)
(* The phases of a campaign plan: _apply, _diff, _events, _arrivals,       *)
(* build() and union_env() of src/tgt/campaign.py, over the part of        *)
(* envfile.from_dict that an added host, a moved one or a new flow can     *)
(* fail. A plan is asked for change by change; a phase is built from the   *)
(* document of the phase before it.                                        *)
(*                                                                         *)
(* A host of a document need not say its MAC and firmware: they then       *)
(* follow from its model and address whenever the document is read. Flows  *)
(* keep their order, hosts too. Lengths of phases are left out, so every   *)
(* plan is one that `--force' runs; and so are timing, findings and the    *)
(* fields that nothing here depends on.                                    *)
(***************************************************************************)
EXTENDS Naturals, Sequences, FiniteSets, TLC, SequencesExt

CONSTANTS
  Base,          \* the environment's document: hosts and flows
  Zone,          \* per address inside a segment: its zone and cell
  AutoMac(_, _), \* envfile._auto_mac: of a model and an address
  Ships,         \* per model of the catalog: its firmware
  Changes,       \* what phases ask for
  MaxPhases, MaxChanges,    \* bounds
  None

AddedHosts == {c.host : c \in {d \in Changes : d.kind = "add_host"}}

\* What documents and changes say of a field of a host.
Said(f) ==
  {h[f] : h \in {g \in ToSet(Base.hosts) \cup AddedHosts : f \in DOMAIN g}}
  \cup {c.new[f] : c \in {d \in Changes : d.kind = "set" /\ f \in DOMAIN d.new}}

\* Hosts have names, and no change can set them (_SET_FIELDS).
ASSUME DocumentsAssumption ==
  /\ Base.hosts \in Seq(ToSet(Base.hosts)) /\ Base.flows \in Seq(ToSet(Base.flows))
  /\ \A h \in ToSet(Base.hosts) \cup AddedHosts : {"name", "model", "mac"} \subseteq DOMAIN h
  /\ \A c \in Changes : /\ c.kind \in {"add_host", "remove_host", "set", "add_flow", "remove_flow",
                                       "offline", "online", "sprinkle"}
                        /\ c.kind = "set" => "name" \notin DOMAIN c.new

VARIABLES
  doc, offline,  \* of build(): the document, the hosts that are silent
  spec,          \* changes asked of the phase to come
  phases,
  stage

plan == <<doc, offline, spec, phases, stage>>

\* The sequence without some of its elements.
Without(seq, dropped) ==
  LET kept[k \in 0 .. Len(seq)] ==
        IF k = 0 THEN <<>>
        ELSE IF seq[k] \in dropped THEN kept[k - 1] ELSE Append(kept[k - 1], seq[k])
  IN kept[Len(seq)]

NewIn(seq, more) == seq \o Without(more, ToSet(seq))

\* What sequences have, in the order in which it comes up.
Together(seqs) ==
  LET first[k \in 0 .. Len(seqs)] == IF k = 0 THEN <<>> ELSE NewIn(first[k - 1], seqs[k])
  IN first[Len(seqs)]

Names(hosts) == {hosts[i].name : i \in DOMAIN hosts}
Of(hosts, n) == hosts[CHOOSE i \in DOMAIN hosts : hosts[i].name = n]

-----------------------------------------------------------------------------
(* Reading a document.                                                     *)

Host(h) ==
  [name |-> h.name, ip |-> h.ip, model |-> h.model,
   mac |-> IF h.mac = None THEN AutoMac(h.model, h.ip) ELSE h.mac,
   firmware |-> IF h.firmware = None THEN Ships[h.model] ELSE h.firmware]

Environment(d) == [hosts |-> [i \in DOMAIN d.hosts |-> Host(d.hosts[i])], flows |-> d.flows]

\* from_dict() takes it: names and addresses are unique, every address lies in
\* one segment, every flow joins hosts there are.
Valid(d) ==
  /\ d.hosts # <<>>
  /\ \A i, j \in DOMAIN d.hosts : i # j => /\ d.hosts[i].name # d.hosts[j].name
                                           /\ d.hosts[i].ip # d.hosts[j].ip
  /\ \A i \in DOMAIN d.hosts : d.hosts[i].ip \in DOMAIN Zone
  /\ \A i \in DOMAIN d.flows : {d.flows[i][1], d.flows[i][2]} \subseteq Names(d.hosts)

\* The plan starts from an environment that has been read.
ASSUME BaseAssumption == Valid(Base)

-----------------------------------------------------------------------------
(* _apply: lists of changes, taken in the order of these kinds.            *)

\* Sprinkles are the phase's own, and asked for with them.
Kinds == <<"add_host", "remove_host", "set", "add_flow", "remove_flow", "offline", "online",
           "sprinkle">>
Rank(c) == CHOOSE r \in DOMAIN Kinds : Kinds[r] = c.kind

_dhcp_server(flows) ==
  LET servers == {flows[i][2] : i \in {j \in DOMAIN flows : flows[j][3] = "dhcp"}}
      uses(s) == Cardinality({i \in DOMAIN flows : flows[i][2] = s /\ flows[i][3] = "dhcp"})
  IN IF servers = {} THEN None
     ELSE CHOOSE s \in servers : \A t \in servers : uses(t) <= uses(s)

Removes(c, f) ==
  c.client = f[1] /\ c.server = f[2] /\ c.proto \in {None, f[3]}

Legal(d, c) ==
  CASE c.kind = "add_host" -> /\ c.host.name \notin Names(d.hosts)
                              /\ c.dhcp => d.server # None
    [] c.kind \in {"add_flow", "sprinkle"} -> TRUE
    [] c.kind = "remove_flow" -> \E i \in DOMAIN d.flows : Removes(c, d.flows[i])
    [] OTHER -> c.name \in Names(d.hosts)

\* A change of the model is a change of the device: what is not set with it is
\* the new one's own.
SetFields(h, new) ==
  LET lost == IF "model" \in DOMAIN new THEN {"firmware", "mac"} ELSE {}
  IN [f \in DOMAIN h |->
        IF f \in DOMAIN new THEN new[f] ELSE IF f \in lost THEN None ELSE h[f]]

Change(d, c) ==
  CASE c.kind = "add_host" ->
         [d EXCEPT !.hosts = Append(@, c.host),
                   !.flows = IF c.dhcp THEN Append(@, <<c.host.name, d.server, "dhcp">>)
                                       ELSE @,
                   !.dhcp = IF c.dhcp THEN @ \cup {c.host.name} ELSE @]
    [] c.kind = "remove_host" ->
         [d EXCEPT !.hosts = Without(@, {h \in ToSet(@) : h.name = c.name}),
                   !.flows = Without(@, {f \in ToSet(@) : c.name \in {f[1], f[2]}}),
                   !.offline = @ \ {c.name}]
    [] c.kind = "set" ->
         [d EXCEPT !.hosts = [i \in DOMAIN @ |-> IF @[i].name = c.name
                                                 THEN SetFields(@[i], c.new) ELSE @[i]]]
    [] c.kind = "add_flow" -> [d EXCEPT !.flows = Append(@, c.flow)]
    [] c.kind = "remove_flow" -> [d EXCEPT !.flows = Without(@, {f \in ToSet(@) : Removes(c, f)})]
    [] c.kind = "offline" -> [d EXCEPT !.offline = @ \cup {c.name}]
    [] c.kind = "online" -> [d EXCEPT !.offline = @ \ {c.name}]
    [] c.kind = "sprinkle" -> [d EXCEPT !.sprinkle = Append(@, c.key)]

Taken(d, c) ==
  IF d.legal /\ Legal(d, c) THEN Change(d, c) ELSE [d EXCEPT !.legal = FALSE]

\* The first changes of spec, one after the other.
Applied(d) ==
  LET after[n \in 0 .. Len(spec)] == IF n = 0 THEN d ELSE Taken(after[n - 1], spec[n])
  IN after

_apply(prevFlows) ==
  Applied([hosts |-> doc.hosts, flows |-> doc.flows, offline |-> offline, sprinkle |-> <<>>,
           dhcp |-> {}, server |-> _dhcp_server(prevFlows), legal |-> TRUE])[Len(spec)]

-----------------------------------------------------------------------------
(* What a phase changes.                                                   *)

\* mutant: what only follows from the document is not compared
SaidFields == {"ip", "firmware", "model"}

Fields == {"ip", "mac", "firmware", "model"}

FlowsNotIn(flows, others) == Without(flows, ToSet(others))

_diff(prev, env, prevOff, off) ==
  LET pn == Names(prev.hosts)
      nn == Names(env.hosts)
  IN [added |-> nn \ pn, removed |-> pn \ nn,
      offline |-> (off \ prevOff) \cap nn, online |-> (prevOff \ off) \cap nn,
      changed |-> {c \in {[name |-> n, field |-> f, old |-> Of(prev.hosts, n)[f],
                           new |-> Of(env.hosts, n)[f]] : n \in pn \cap nn, f \in Fields} :
                     c.old # c.new},
      flows_added |-> FlowsNotIn(env.flows, prev.flows),
      flows_removed |-> FlowsNotIn(prev.flows, env.flows)]

\* The first phase has nothing to differ from.
FirstDiff(off) ==
  [added |-> {}, removed |-> {}, offline |-> off, online |-> {}, changed |-> {},
   flows_added |-> <<>>, flows_removed |-> <<>>]

\* Zones that may talk directly.
_ADJACENT == {{"IT", "DMZ"}, {"DMZ", "OT-SUPERVISORY"}, {"OT-SUPERVISORY", "OT-CELL"}}

_zone(env, n) == Zone[Of(env.hosts, n).ip]
_adjacent(a, b) == {a.zone, b.zone} \in _ADJACENT

Event(category, hosts, src, dst) ==
  [category |-> category, hosts |-> hosts, src |-> src, dst |-> dst]

HostEvents(prev, env, diff) ==
  LET ip(n) == Of(env.hosts, n).ip
      of(f) == {c \in diff.changed : c.field = f}
      named(f) == {c.name : c \in of(f)}
  IN {Event("new-asset", {n}, ip(n), None) : n \in diff.added}
     \cup {Event("asset-offline", {n}, Of(prev.hosts, n).ip, None) : n \in diff.removed}
     \cup {Event("asset-offline", {n}, ip(n), None) : n \in diff.offline}
     \cup {Event("ip-change", {c.name}, c.new, c.old) : c \in of("ip")}
     \cup {Event("firmware-change", {n}, ip(n), None) : n \in named("firmware") \ named("model")}
     \cup {Event("asset-change", {n}, ip(n), None) : n \in named("model")}

\* Zones that talk already: of those, only the ones that may talk directly.
\* Every other pair is news, once in each phase that adds a flow.
FlowEvents(prev, env, diff) ==
  LET added == diff.flows_added
      zones(e, f) == <<_zone(e, f[1]), _zone(e, f[2])>>
      z(k) == zones(env, added[k])
      known == {p \in {zones(prev, prev.flows[i]) : i \in DOMAIN prev.flows} :
                  _adjacent(p[1], p[2])}
      talk == {k \in DOMAIN added : /\ added[k][1] # added[k][2]
                                    /\ diff.added \cap {added[k][1], added[k][2]} = {}}
      cross == {k \in DOMAIN added : /\ z(k)[1] # z(k)[2] /\ z(k) \notin known
                                     /\ \A j \in 1 .. k - 1 : z(j) # z(k)}
      told(category, f) ==
        Event(category, {f[1], f[2]}, Of(env.hosts, f[1]).ip, Of(env.hosts, f[2]).ip)
  IN {told("new-conversation", added[k]) : k \in talk}
     \cup {told("cross-zone", added[k]) : k \in cross}

_events(prev, env, diff) == HostEvents(prev, env, diff) \cup FlowEvents(prev, env, diff)

\* Hosts that announce themselves when the phase starts.
_arrivals(diff, off) ==
  (diff.added \cup {c.name : c \in {d \in diff.changed : d.field \in {"ip", "mac"}}}
   \cup diff.online) \ off

-----------------------------------------------------------------------------
(* build()                                                                 *)

PlanInit ==
  /\ doc = Base /\ offline = {} /\ spec = <<>> /\ phases = <<>> /\ stage = "plan"

Asked ==
  Len(spec) + FoldLeft(LAMBDA n, p : n + p.asked, 0, phases)

Ask(c) ==
  /\ stage = "plan" /\ Len(phases) < MaxPhases /\ Asked < MaxChanges
  /\ spec # <<>> => Rank(spec[Len(spec)]) <= Rank(c)
  /\ spec' = Append(spec, c)
  /\ UNCHANGED <<doc, offline, phases, stage>>

Previous == IF phases = <<>> THEN Environment(Base) ELSE phases[Len(phases)].env

BuildPhase ==
  /\ stage = "plan" /\ Len(phases) < MaxPhases
  /\ LET d == _apply(Previous.flows)
         env == Environment(d)
         diff == IF phases = <<>> THEN FirstDiff(d.offline)
                                  ELSE _diff(Previous, env, offline, d.offline)
     IN \/ /\ d.legal /\ Valid(d)
           /\ phases' = Append(phases,
                [env |-> env, offline |-> d.offline, diff |-> diff, asked |-> Len(spec),
                 sprinkle |-> d.sprinkle,
                 events |-> IF phases = <<>>
                            THEN {Event("asset-offline", {n}, Of(env.hosts, n).ip, None) :
                                    n \in d.offline}
                            ELSE _events(Previous, env, diff),
                 inject |-> _arrivals(diff, d.offline)])
           /\ doc' = [hosts |-> d.hosts, flows |-> d.flows]
           /\ offline' = d.offline /\ spec' = <<>>
           /\ UNCHANGED stage
        \/ /\ ~(d.legal /\ Valid(d))
           /\ stage' = "refused"
           /\ UNCHANGED <<doc, offline, spec, phases>>

Launch ==
  /\ stage = "plan" /\ phases # <<>> /\ spec = <<>>
  /\ stage' = "launched"
  /\ UNCHANGED <<doc, offline, spec, phases>>

Planning == BuildPhase \/ \E c \in Changes : Ask(c)

-----------------------------------------------------------------------------
(* The inventory of a campaign: every host, flow and address of any phase, *)
(* a host as it is last, or the last phase's when those collide.           *)

Latest(n) ==
  LET last == CHOOSE p \in DOMAIN phases :
                /\ n \in Names(phases[p].env.hosts)
                /\ \A q \in p + 1 .. Len(phases) : n \notin Names(phases[q].env.hosts)
  IN Of(phases[last].env.hosts, n)

union_env ==
  LET names == Together([p \in DOMAIN phases |->
                           [i \in DOMAIN phases[p].env.hosts |-> phases[p].env.hosts[i].name]])
      union == [hosts |-> [i \in DOMAIN names |-> Latest(names[i])],
                flows |-> Together([p \in DOMAIN phases |-> phases[p].env.flows])]
  IN IF Valid(union) THEN union ELSE phases[Len(phases)].env
=============================================================================
