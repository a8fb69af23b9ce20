------------------------------ MODULE Incidents ------------------------------
(***************************************************************************)
(* Which hosts of an environment stand in for an incident's: map_onto and  *)
(* what it goes by, of src/tgt/incidents.py. An incident is a sequence of  *)
(* hosts, ordered by name, and one of flows <<client, server, what>>       *)
(* between them.                                                           *)
(* The catalog says of a model what the code reads off a host's role, OS,  *)
(* MAC and product: of a PC no vendor, of an unknown product no family.    *)
(***************************************************************************)
EXTENDS Campaign

CONSTANTS
  INCIDENTS,     \* per key: hosts, flows
  Catalog,       \* per model: role, os, vendor, family, serves
  Service        \* _ATTACK_SERVICE: of what flows do, what their server needs

\* Phases are given incidents there are; these have no flow from a host to itself.
ASSUME IncidentsAssumption ==
  /\ \A c \in Changes : c.kind = "sprinkle" => c.key \in DOMAIN INCIDENTS
  /\ \A key \in DOMAIN INCIDENTS :
       LET inc == INCIDENTS[key]
       IN /\ inc.hosts \in Seq(ToSet(inc.hosts)) /\ inc.flows \in Seq(ToSet(inc.flows))
          /\ \A i, j \in DOMAIN inc.hosts : inc.hosts[i].name = inc.hosts[j].name => i = j
          /\ \A h \in ToSet(inc.hosts) : "external" \in DOMAIN h
          /\ \A f \in ToSet(inc.flows) : f[1] # f[2] /\ {f[1], f[2]} \subseteq Names(inc.hosts)

_ROLE_FAMILIES ==
  {{"plc", "rtu", "relay", "drive", "meter"}, {"scada", "hmi", "hist"}}

_role_tier(want, have) ==
  IF want = have THEN 2
  ELSE IF \E f \in _ROLE_FAMILIES : {want, have} \subseteq f THEN 1 ELSE 0

_purdue_level(role) ==
  CASE role \in {"ws", "dc", "dns", "file", "web", "mail", "db", "proxy"} -> 5
    [] role \in {"jump", "patch", "av"} -> 4
    [] role \in {"plc", "rtu", "relay", "drive"} -> 2
    [] role = "meter" -> 1
    [] OTHER -> 3

_WINDOWS_SERVICES == {"smb", "rdp", "netbios"}
_GENERIC_SERVICES == {"http", "https", "dns"}

About(h) == Catalog[h.model]

_is_external(h) == h.external

\* What hosts serve in the environment's own conversations.
_env_services(env, h) ==
  {f[3] : f \in {g \in ToSet(env.flows) : g[2] = h.name /\ g[1] # h.name}}

_can_serve(env, h, s) ==
  \/ s \in _env_services(env, h) \cup About(h).serves
  \/ s \in _WINDOWS_SERVICES /\ About(h).os = "windows"
  \/ s = "telnet" /\ About(h).os # "windows"
  \/ s \in _GENERIC_SERVICES

\* Hosts of an incident that its flows join to n, what n must serve in them.
Neighbours(inc, n) ==
  (UNION {{f[1], f[2]} : f \in {g \in ToSet(inc.flows) : n \in {g[1], g[2]}}}) \ {n}
served(inc, n) ==
  {Service[f[3]] : f \in {g \in ToSet(inc.flows) : g[2] = n}} \ {None}

\* What f has stays.
SetDefault(f, g) == [x \in DOMAIN f \cup DOMAIN g |-> IF x \in DOMAIN f THEN f[x] ELSE g[x]]

-----------------------------------------------------------------------------

\* mutant: two ends of a flow may be the same host
AnyStandIn(inc, env, m, ih) ==
  {h \in ToSet(env.hosts) :
     /\ About(ih).vendor \in {None, About(h).vendor}
     /\ \A s \in served(inc, ih.name) : _can_serve(env, h, s)
     /\ _role_tier(About(ih).role, About(h).role) > 0}

\* Hosts that may stand in for ih, where those of m have been found already:
\* none that stands in for a neighbour.
StandIns(inc, env, m, ih) ==
  LET need == served(inc, ih.name)
      peers == {m[n] : n \in Neighbours(inc, ih.name) \cap DOMAIN m}
      want == About(ih)
      seen(h) == need # {} /\ need \subseteq _env_services(env, h)
  IN {h \in ToSet(env.hosts) :
        /\ h.name \notin peers
        /\ want.vendor \in {None, About(h).vendor}
        /\ want.family = None \/ About(h).family \in {None, want.family}
        /\ \A s \in need : _can_serve(env, h, s)
        /\ \/ _role_tier(want.role, About(h).role) > 0
           \/ seen(h) /\ _purdue_level(About(h).role) = _purdue_level(want.role)}

\* Lower is better: role, services seen, product, segment of a neighbour, not
\* used yet, OS, in this order.
Cost(inc, env, m, ih, h) ==
  LET need == served(inc, ih.name)
      near == {Zone[Of(env.hosts, m[n]).ip] : n \in Neighbours(inc, ih.name) \cap DOMAIN m}
      worse(b, w) == IF b THEN w ELSE 0
  IN  (2 - _role_tier(About(ih).role, About(h).role)) * 32
      + worse(need = {} \/ ~(need \subseteq _env_services(env, h)), 16)
      + worse(About(ih).family = None \/ h.model # ih.model, 8)
      + worse(Zone[h.ip] \notin near, 4)
      + worse(\E n \in DOMAIN m : m[n] = h.name, 2)
      + worse(About(h).os # About(ih).os, 1)

\* From the top of the plant down.
TopDown(hosts) ==
  LET at(l) == Without(hosts, {h \in ToSet(hosts) : _purdue_level(About(h).role) # l})
  IN at(5) \o at(4) \o at(3) \o at(2) \o at(1)

\* The external hosts of an incident stay who they are.
External(inc) == {h \in ToSet(inc.hosts) : _is_external(h)}

\* Names break ties in the code, here any does.
Place(inc, env, m, ih) ==
  LET can == StandIns(inc, env, m, ih)
  IN IF can = {} THEN m
     ELSE SetDefault(m, [n \in {ih.name} |->
                           (CHOOSE h \in can : \A g \in can : Cost(inc, env, m, ih, h)
                                                                <= Cost(inc, env, m, ih, g)).name])

\* One host after the other.
Placements(inc, env, order) ==
  LET m[k \in 0 .. Len(order)] == IF k = 0 THEN <<>> ELSE Place(inc, env, m[k - 1], order[k])
  IN m

map_onto(inc, env) ==
  LET order == TopDown(Without(inc.hosts, External(inc)))
  IN Placements(inc, env, order)[Len(order)]

\* They keep their own addresses.
unmapped_hosts(inc, env) ==
  LET m == map_onto(inc, env)
  IN Without(inc.hosts, External(inc) \cup {h \in ToSet(inc.hosts) : h.name \in DOMAIN m})

\* The host that plays n, where m maps hosts of the incident: one of the
\* environment, or its own.
Resolve(inc, env, m, n) == IF n \in DOMAIN m THEN Of(env.hosts, m[n]) ELSE Of(inc.hosts, n)
=============================================================================
