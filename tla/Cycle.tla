--------------------------------- MODULE Cycle ---------------------------------
(***************************************************************************)
(* The batch of frames that cycle mode sends: _build_cycle, _build_base    *)
(* and _sprinkle of src/tgt/engine.py and Incident.build, over the frames  *)
(* that the builders make. Two profiles are the base of a run, an incident *)
(* is what it is sprinkled with: the first of the two is the stream of     *)
(* Sessions. Where frames are placed is left out.                          *)
(*                                                                         *)
(* A frame is told by what it belongs to and its place in that: the key of *)
(* a profile with its position, or that of an attack with its cycle and    *)
(* flow.                                                                   *)
(***************************************************************************)
EXTENDS Sessions

CONSTANTS
  Companion,     \* the other profile of the base
  Malware,       \* incidents sprinkled: sequences of attacks
  Ratios,        \* --sprinkle-ratio, as pairs <<r, s>> for r / (r + s)
  Every          \* --sprinkle-random: how many base frames to a roll that succeeds

frames(what, n) == [i \in 1..n |-> <<what, i>>]

Repeated(s, times) == [i \in 1..times * Len(s) |-> s[1 + ((i - 1) % Len(s))]]

RoundRobin(streams) ==
  LET longest == Max({0} \cup {Len(streams[s]) : s \in DOMAIN streams})
      row(i) == FlattenSeq([s \in DOMAIN streams |->
                              IF i <= Len(streams[s]) THEN <<streams[s][i]>> ELSE <<>>])
  IN  FlattenSeq([i \in 1..longest |-> row(i)])

_build_base(profiles) ==
  RoundRobin([p \in DOMAIN profiles |->
                frames(<<profiles[p], p, 0>>, Len(Build(profiles[p], count, 0, variant)))])

\* Malware cycle i.
incident_build(incident, i) ==
  RoundRobin([f \in DOMAIN incident |->
                frames(<<incident[f], i, f>>, Len(Attack(incident[f], count, variant)))])

\* After every n-th base frame the next malware frame, for so many turns.
Turns(base, flat, n, turns) ==
  [i \in 1..turns * (n + 1) |-> IF i % (n + 1) = 0 THEN flat[i \div (n + 1)]
                                ELSE base[i - i \div (n + 1)]]
    \o SubSeq(base, turns * n + 1, Len(base))

\* mutant: what no base frame was left to follow is not sent
DropsRemainder(base, flat, n) == Turns(base, flat, n, Min({Len(base) \div n, Len(flat)}))

Merge(base, flat, n) ==
  LET turns == Min({Len(base) \div n, Len(flat)})
  IN  Turns(base, flat, n, turns) \o SubSeq(flat, turns + 1, Len(flat))

\* every: the rolls of --sprinkle-random, or 0 for an even spread.
_sprinkle(base, extras, every) ==
  LET flat == FlattenSeq(extras)
      interval == Max({1, Len(base) \div (Len(flat) + 1)})
      n == IF every > 0 THEN every ELSE interval
  IN  IF flat = <<>> THEN base ELSE IF base = <<>> THEN flat
      ELSE Merge(base, flat, n)

\* Python's round(): a half goes to the even neighbour.
Rounded(x, y) ==
  LET q == x \div y
      twice == 2 * (x % y)
  IN  IF twice > y \/ (twice = y /\ q % 2 = 1) THEN q + 1 ELSE q

\* A base that is too small for one malware cycle is repeated, one that is large
\* enough takes several.
_build_cycle(base, incident, r, s, every) ==
  LET first == incident_build(incident, 0)
      c == Max({1, Len(first)})
      room == Len(base) * r
      n == Max({1, Rounded(room, c * s)})
      needed == (c * s) \div r
      reps == Max({1, (needed + Len(base) - 1) \div Len(base)})
  IN  IF r = 0 \/ base = <<>> THEN _sprinkle(base, <<first>>, every)
      ELSE IF room >= c * s
           THEN _sprinkle(base, [i \in 1..n |-> incident_build(incident, i - 1)], every)
           ELSE _sprinkle(Repeated(base, reps), <<first>>, every)

-----------------------------------------------------------------------------
(* Properties.                                                             *)

\* "Malware frames keep their relative order (so each attack's session stays
\* ordered); only the spacing between injections changes" (engine.py:236), and
\* so do those of the base: in every batch each session is whole and in order,
\* as often as the base was repeated. The malware's share is the one asked for,
\* but for half a malware cycle, or, of a base that is repeated, one time more
\* than needed.
Sprinkled ==
  (builds = 0 /\ flights = <<>> /\ ~dead /\ key \in Keys) =>
    \A incident \in Malware, ratio \in Ratios, every \in Every :
      LET profiles == <<key, Companion>>
          base == _build_base(profiles)
          first == incident_build(incident, 0)
          batch == _build_cycle(base, incident, ratio[1], ratio[2], every)
          malware == SelectSeq(batch, LAMBDA f : f[1][3] > 0)
          benign == SelectSeq(batch, LAMBDA f : f[1][3] = 0)
          c == Len(first)
          cycles == Len(malware) \div c
          whole(within, what, n) ==
            SelectSeq(within, LAMBDA f : f[1] = what) = frames(what, n)
          excess == Len(malware) * ratio[2] - Len(benign) * ratio[1]
      IN /\ malware = FlattenSeq([i \in 1..cycles |-> incident_build(incident, i - 1)])
         /\ \A f \in DOMAIN incident :
              whole(first, <<incident[f], 0, f>>, Len(Attack(incident[f], count, variant)))
         /\ benign = Repeated(base, Len(benign) \div Len(base))
         /\ \A p \in DOMAIN profiles :
              whole(base, <<profiles[p], p, 0>>, Len(Build(profiles[p], count, 0, variant)))
         /\ ratio[1] > 0 =>
              /\ 2 * excess <= Max({c * ratio[2], 2 * ratio[1]})
              /\ \/ cycles = 1 /\ -excess < Len(base) * ratio[1]
                 \/ -2 * excess <= c * ratio[2]
===============================================================================
