------------------------------- MODULE Recorder -------------------------------
(***************************************************************************)
(* The ground truth of a run: class Recorder of src/tgt/manifest.py, which *)
(* the engine thread feeds with every frame it has sent and with the       *)
(* begins and ends of phases, and whose document tgt score reads. It knows *)
(* nothing of who sent a frame: it goes by the addresses in it.            *)
(*                                                                         *)
(* A frame has a protocol, a source (the baseline or a sprinkled           *)
(* incident), two addresses, which are those of its IP header or else its  *)
(* MACs, and two MACs. Occurrences, injections and byte counts are left    *)
(* out. So is the cache, whose entries are cleared with every phase and    *)
(* cannot go stale in between. The category of an attack's event is the    *)
(* attack.                                                                 *)
(***************************************************************************)
EXTENDS Incidents

CONSTANT AnyAddress       \* 0.0.0.0

VARIABLES
  inventory,       \* of the document: rows of hosts and of new assets
  addr_aid,        \* IP or MAC -> asset
  flowidx,         \* protocol and two addresses -> client, server, their IPs
  l2src,           \* protocol and sender's MAC -> the same
  new_assets,      \* hosts of incidents that no host stands in for -> IP
  firsts,          \* of a pair that no flow explains: who sent first
  packets, last_ts,
  seen,            \* per asset: first and last frame
  flows,           \* per client, server, protocol, source: times, frames, ends
  phase_log, change_events

index == <<addr_aid, flowidx, l2src, new_assets>>
tallies == <<firsts, packets, last_ts, seen, flows>>
manifest == <<inventory, index, tallies, phase_log, change_events>>

Get(f, k, otherwise) == IF k \in DOMAIN f THEN f[k] ELSE otherwise

-----------------------------------------------------------------------------
(* Indexes are filled with setdefault(): what is there stays.              *)

\* Entry after entry, each under its keys: the first that has a key keeps it.
SetDefaults(known, entries) ==
  LET having(x) == {k \in DOMAIN entries : x \in entries[k].keys}
  IN SetDefault(known, [x \in UNION {e.keys : e \in ToSet(entries)} |->
                          entries[Min(having(x))].value])

\* The first host that has an address, in the order of the hosts, is its owner.
AddressesOf(known, hosts) ==
  SetDefaults(known, [k \in DOMAIN hosts |->
    [keys |-> {hosts[k].ip, hosts[k].mac}, value |-> hosts[k].name]])

\* _add: a flow, found by its addresses, its MACs and by either end's MAC.
Entry(key, c, s, client, server) ==
  [pairs |-> {<<key, c.ip, s.ip>>, <<key, c.mac, s.mac>>},
   senders |-> {<<key, c.mac>>, <<key, s.mac>>},
   row |-> <<client, server, c.ip, s.ip>>]

FlowsOf(known, entries) ==
  SetDefaults(known, [k \in DOMAIN entries |->
    [keys |-> entries[k].pairs, value |-> entries[k].row]])

SendersOf(known, entries) ==
  SetDefaults(known, [k \in DOMAIN entries |->
    [keys |-> entries[k].senders, value |-> entries[k].row]])

Conversations(env) ==
  [k \in DOMAIN env.flows |->
     LET f == env.flows[k]
     IN Entry(f[3], Of(env.hosts, f[1]), Of(env.hosts, f[2]), f[1], f[2])]

\* A host outside of the inventory goes by its address (_known).
IncidentFlows(inc, env, addresses) ==
  LET m == map_onto(inc, env)
      known(h) == Get(addresses, h.ip, h.ip)
  IN [k \in DOMAIN inc.flows |->
        LET f == inc.flows[k]
            c == Resolve(inc, env, m, f[1])
            s == Resolve(inc, env, m, f[2])
        IN Entry(f[3], c, s, known(c), known(s))]

_add(x, entries) ==
  [x EXCEPT !.flows = FlowsOf(@, entries), !.senders = SendersOf(@, entries)]

\* The indexes x, with an environment's hosts and conversations in them ...
IndexOf(x, env) ==
  _add([x EXCEPT !.known = AddressesOf(@, env.hosts)], Conversations(env))

\* ... and with an incident's.
Arrived(x, hosts) ==
  [x EXCEPT !.known = AddressesOf(@, hosts),
            !.arrived = SetDefaults(@, [k \in DOMAIN hosts |->
                          [keys |-> {hosts[k].name}, value |-> hosts[k].ip]])]

_index_incident(x, env, inc) ==
  LET y == Arrived(x, unmapped_hosts(inc, env))
  IN _add(y, IncidentFlows(inc, env, y.known))

\* The indexes after each sprinkle.
Indexed(env, sprinkle) ==
  LET after[k \in 0 .. Len(sprinkle)] ==
        IF k = 0
          THEN IndexOf([known |-> addr_aid, flows |-> flowidx, senders |-> l2src,
                        arrived |-> new_assets], env)
          ELSE _index_incident(after[k - 1], env, INCIDENTS[sprinkle[k]])
  IN after

IndexesAre(x) ==
  addr_aid' = x.known /\ flowidx' = x.flows /\ l2src' = x.senders /\ new_assets' = x.arrived

_index(env, sprinkle) == IndexesAre(Indexed(env, sprinkle)[Len(sprinkle)])

\* Recorder(), of the environment the plan starts from.
RecorderInit(env) ==
  /\ inventory = [hosts |-> <<>>, new_assets |-> <<>>]
  /\ addr_aid = AddressesOf(<<>>, env.hosts)
  /\ flowidx = FlowsOf(<<>>, Conversations(env))
  /\ l2src = SendersOf(<<>>, Conversations(env))
  /\ new_assets = <<>>
  /\ firsts = <<>> /\ packets = 0 /\ last_ts = None /\ seen = <<>> /\ flows = <<>>
  /\ phase_log = <<>> /\ change_events = {}

-----------------------------------------------------------------------------
(* Campaigns.                                                              *)

IpsOf(n) ==
  {Of(p.env.hosts, n).ip : p \in {q \in ToSet(phases) : n \in Names(q.env.hosts)}}

Row(h) ==
  LET in(p) == h.name \in Names(p.env.hosts)
  IN [name |-> h.name, ip |-> h.ip, mac |-> h.mac, ip_history |-> IpsOf(h.name),
      phases |-> {p \in DOMAIN phases : in(phases[p])},
      online_phases |-> {p \in DOMAIN phases : in(phases[p]) /\ h.name \notin phases[p].offline}]

\* inventory.new_assets: one row each, whichever sprinkles bring it.
NewAssetRows(env, sprinkle) ==
  Together([k \in DOMAIN sprinkle |-> unmapped_hosts(INCIDENTS[sprinkle[k]], env)])

\* Before the first phase: rows for the union of all of them, and the
\* addresses that each will ever have.
campaign(union) ==
  /\ inventory' =
       [hosts |-> [i \in DOMAIN union.hosts |-> Row(union.hosts[i])],
        new_assets |->
          NewAssetRows(union, Together([p \in DOMAIN phases |-> phases[p].sprinkle]))]
  /\ LET rows == inventory'.hosts
     IN addr_aid' = SetDefaults(addr_aid, [k \in DOMAIN rows |->
                      [keys |-> rows[k].ip_history, value |-> rows[k].name]])
  /\ UNCHANGED <<flowidx, l2src, new_assets, tallies, phase_log, change_events>>

\* mutant: the phase's own addresses are not taken in
NotIndexed(id, ph, ts) ==
  /\ phase_log' = Append(phase_log,
       [id |-> id, start |-> ts, end |-> None, packets |-> 0, p0 |-> packets,
        diff |-> ph.diff, offline |-> ph.offline])
  /\ change_events' = change_events \cup
       {[what |-> e, phase |-> id, t_start |-> ts, t_end |-> None] : e \in ph.events}
  /\ UNCHANGED <<inventory, index, tallies>>

\* mutant: counts since the phase before
CountsOn(id, ph, ts) ==
  /\ _index(ph.env, ph.sprinkle)
  /\ phase_log' = Append(phase_log,
       [id |-> id, start |-> ts, end |-> None, packets |-> 0,
        p0 |-> IF phase_log = <<>> THEN 0 ELSE phase_log[Len(phase_log)].p0,
        diff |-> ph.diff, offline |-> ph.offline])
  /\ change_events' = change_events \cup
       {[what |-> e, phase |-> id, t_start |-> ts, t_end |-> None] : e \in ph.events}
  /\ UNCHANGED <<inventory, tallies>>

begin_phase(id, ph, ts) ==
  /\ _index(ph.env, ph.sprinkle)
  /\ phase_log' = Append(phase_log,
       [id |-> id, start |-> ts, end |-> None, packets |-> 0, p0 |-> packets,
        diff |-> ph.diff, offline |-> ph.offline])
  /\ change_events' = change_events \cup
       {[what |-> e, phase |-> id, t_start |-> ts, t_end |-> None] : e \in ph.events}
  /\ UNCHANGED <<inventory, tallies>>

\* mutant: events of a phase stay open
LeavesEventsOpen(ts) ==
  /\ LET last == Len(phase_log)
         end == IF ts = None THEN last_ts ELSE ts
     IN phase_log' = [phase_log EXCEPT ![last].end = end, ![last].packets = packets - @]
  /\ UNCHANGED <<inventory, index, tallies, change_events>>

\* Without a time the phase ends with the last frame, whichever phase that is of.
end_phase(ts) ==
  LET last == Len(phase_log)
      end == IF ts = None THEN last_ts ELSE ts
  IN /\ phase_log' = [phase_log EXCEPT ![last].end = end,
                                       ![last].packets = packets - phase_log[last].p0]
     /\ change_events' = {IF e.phase = phase_log[last].id /\ e.t_end = None
                            THEN [e EXCEPT !.t_end = end] ELSE e : e \in change_events}
     /\ UNCHANGED <<inventory, index, tallies>>

-----------------------------------------------------------------------------
(* Frames.                                                                 *)

Source(f) ==
  Get(addr_aid, f.s, Get(addr_aid, f.smac, IF f.s = AnyAddress THEN f.smac ELSE f.s))

\* mutant: looks for the client's frames only
OneWay(f) ==
  LET keys == <<<<f.key, f.s, f.d>>, <<f.key, f.smac, f.dmac>>>>
      found == {n \in DOMAIN keys : keys[n] \in DOMAIN flowidx}
  IN IF found # {} THEN flowidx[keys[Min(found)]]
     ELSE Get(l2src, <<f.key, f.smac>>,
              <<Get(addr_aid, f.s, f.s), Get(addr_aid, f.d, f.d), f.s, f.d>>)

\* Flow of a frame: by its addresses, its MACs, its sender's MAC; else the
\* first of the two to send is the client.
FlowOf(f) ==
  LET keys == <<<<f.key, f.s, f.d>>, <<f.key, f.d, f.s>>,
                <<f.key, f.smac, f.dmac>>, <<f.key, f.dmac, f.smac>>>>
      found == {n \in DOMAIN keys : keys[n] \in DOMAIN flowidx}
      first == Get(firsts, <<f.key, f.source, {f.s, f.d}>>, f.s)
      other == IF first = f.s THEN f.d ELSE f.s
  IN IF found # {} THEN flowidx[keys[Min(found)]]
     ELSE Get(l2src, <<f.key, f.smac>>,
              <<Get(addr_aid, first, first), Get(addr_aid, other, other), first, other>>)

Explained(f) ==
  \/ <<f.key, f.smac>> \in DOMAIN l2src
  \/ \E k \in {<<f.s, f.d>>, <<f.d, f.s>>, <<f.smac, f.dmac>>, <<f.dmac, f.smac>>} :
       <<f.key>> \o k \in DOMAIN flowidx

\* known[x] = value
Put(known, x, value) ==
  [y \in DOMAIN known \cup {x} |-> IF y = x THEN value ELSE known[y]]

observe(ts, f) ==
  LET src == Source(f)
      row == FlowOf(f)
      fkey == <<row[1], row[2], f.key, f.source>>
      flow == Get(flows, fkey, [first |-> ts, packets |-> 0, row |-> row])
  IN /\ last_ts' = ts /\ packets' = packets + 1
     /\ seen' = Put(seen, src, [first |-> Get(seen, src, [first |-> ts]).first, last |-> ts])
     /\ flows' = Put(flows, fkey, [first |-> flow.first, last |-> ts,
                                   packets |-> flow.packets + 1, row |-> flow.row])
     /\ firsts' = IF Explained(f) THEN firsts
                  ELSE SetDefault(firsts, [x \in {<<f.key, f.source, {f.s, f.d}>>} |-> f.s])
     /\ UNCHANGED <<inventory, index, phase_log, change_events>>

-----------------------------------------------------------------------------
(* to_dict()                                                               *)

EventRow(what, times) ==
  [what |-> what, phase |-> None, t_start |-> times.first, t_end |-> times.last]

AttackRow(k) ==
  LET row == flows[k].row
  IN EventRow(Event(k[3], {row[1], row[2]}, row[3], row[4]), flows[k])

NewAssetRow(n) == EventRow(Event("new-asset", {n}, new_assets[n], None), seen[n])

\* Attacks, new assets that have sent, and what the phases change.
EventRows ==
  {AttackRow(k) : k \in {j \in DOMAIN flows : j[4] # "baseline"}}
  \cup {NewAssetRow(n) : n \in DOMAIN new_assets \cap DOMAIN seen}
  \cup change_events

\* A phase that has no end yet counts what there is.

PhaseRow(p) ==
  IF p.end = None THEN [p EXCEPT !.packets = packets - p.p0] ELSE p

PhaseRows == [i \in DOMAIN phase_log |-> PhaseRow(phase_log[i])]
=============================================================================
