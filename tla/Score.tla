-------------------------------- MODULE Score --------------------------------
(***************************************************************************)
(* How tgt score reads a monitor's export against a manifest: Truth,       *)
(* match_assets, score, perfect_export and detections of src/tgt/score.py. *)
(*                                                                         *)
(* An asset of the truth has an id, a name, an address, a MAC, a VLAN and  *)
(* whether the manifest saw it send; a row of the export has lists of      *)
(* addresses and MACs, a VLAN and a name. Fields of identity, protocols,   *)
(* techniques and names that are only nearly right are left out, and so    *)
(* are ratios: the counts they are made of are kept.                       *)
(***************************************************************************)
EXTENDS Naturals, Sequences, FiniteSets, FiniteSetsExt, SequencesExt

CONSTANT None

population(truth) == {a \in truth.assets : a.emitted}

-----------------------------------------------------------------------------
(* match_assets: the asset of a row.                                       *)

\* One candidate is the asset, several are none.
Only(assets) == IF \E a \in assets : assets = {a} THEN assets ELSE {}

\* Assets that share a MAC are told apart by address.
pick(assets, r) ==
  IF Only(assets) # {} THEN assets
  ELSE Only({a \in assets : a.ip \in ToSet(r.ips)})

FirstOf(found) ==
  LET hits == {k \in DOMAIN found : found[k] # {}}
  IN IF hits = {} THEN {} ELSE found[Min(hits)]

ByMac(truth, r) ==
  FirstOf([k \in DOMAIN r.macs |->
             IF r.macs[k] \in truth.infra THEN {}
             ELSE pick({a \in truth.assets : a.mac = r.macs[k]}, r)])

ByVlan(truth, r) ==
  FirstOf([k \in DOMAIN r.ips |->
             Only({a \in truth.assets : a.ip = r.ips[k] /\ a.vlan = r.vlan})])

ByIp(truth, r) ==
  FirstOf([k \in DOMAIN r.ips |-> Only({a \in truth.assets : a.ip = r.ips[k]})])

ByName(truth, r) == Only({a \in truth.assets : a.name = r.name})

Id(found) == (CHOOSE a \in found : TRUE).id

\* mutant: a row that names a MAC is looked up by nothing else
MacOrNothing(truth, r) ==
  LET a == ByMac(truth, r)
  IN IF a # {} THEN [asset |-> Id(a), method |-> 1, bucket |-> "matched"]
     ELSE [asset |-> None, method |-> 0, bucket |-> "false-positive"]

\* Strongest first. What belongs to the network itself is not looked up by name.
Match(truth, r) ==
  LET apart == (ToSet(r.ips) \cup ToSet(r.macs)) \cap (truth.external \cup truth.infra) # {}
      found == <<ByMac(truth, r), ByVlan(truth, r), ByIp(truth, r),
                 IF apart THEN {} ELSE ByName(truth, r)>>
      how == {i \in DOMAIN found : found[i] # {}}
  IN IF how # {} THEN [asset |-> Id(found[Min(how)]), method |-> Min(how), bucket |-> "matched"]
     ELSE [asset |-> None, method |-> 0,
           bucket |-> IF apart THEN "apart" ELSE "false-positive"]

\* Of an asset's rows one counts, by the strongest method; the others are
\* duplicates.
match_assets(truth, rows) ==
  LET m == [i \in DOMAIN rows |-> Match(truth, rows[i])]
      better(i, j) == m[i].method < m[j].method \/ (m[i].method = m[j].method /\ i < j)
  IN [i \in DOMAIN rows |->
        IF m[i].asset # None /\ \E j \in DOMAIN rows : m[j].asset = m[i].asset /\ better(j, i)
          THEN [m[i] EXCEPT !.bucket = "duplicate"] ELSE m[i]]

score(truth, rows) ==
  LET m == match_assets(truth, rows)
      found == {m[i].asset : i \in DOMAIN m} \ {None}
      in(bucket) == Cardinality({i \in DOMAIN m : m[i].bucket = bucket})
  IN [population |-> Cardinality(population(truth)),
      found |-> Cardinality({a \in population(truth) : a.id \in found}),
      matched |-> Cardinality(found),
      duplicates |-> in("duplicate"), false_positives |-> in("false-positive")]

Perfect(result) ==
  /\ result.found = result.population
  /\ result.duplicates = 0 /\ result.false_positives = 0

\* Every asset that has sent, once.
perfect_export(truth) ==
  SetToSeq({[ips |-> <<a.ip>>, macs |-> <<a.mac>>, vlan |-> a.vlan, name |-> a.name] :
              a \in population(truth)})

-----------------------------------------------------------------------------
(* detections                                                              *)

Ends(ev) == IF ev.t_end = None THEN ev.t_start ELSE ev.t_end

\* Hosts are compared by the addresses the inventory has for them, and those
\* the event and the alert name.
EventIps(truth, ev) ==
  ({a.ip : a \in {b \in truth.assets : b.id \in ev.what.hosts}}
   \cup {ev.what.src, ev.what.dst}) \ {None}

Detects(truth, al, ev, tolerance, skew) ==
  /\ al.category = ev.what.category
  /\ ev.t_start <= al.time + skew /\ al.time <= Ends(ev) + tolerance
  /\ \/ al.ips = {}
     \/ al.ips \cap EventIps(truth, ev) # {}

detections(truth, events, alerts, tolerance, skew) ==
  LET hit(al, ev) == Detects(truth, al, ev, tolerance, skew)
  IN [missed |-> {ev \in events : \A al \in alerts : ~hit(al, ev)},
      false_alerts |-> {al \in alerts : \A ev \in events : ~hit(al, ev)}]
=============================================================================
