-------------------------- MODULE MCClassification --------------------------
(* Two rules that compete for the location of a row.  A rule is one that    *)
(* finds one object for one hostname and two for the other, one that comes  *)
(* later and finds another object, or the first switched off or made for    *)
(* other addresses.                                                         *)
EXTENDS Classification, TLC

CONSTANTS h1, ams, fra, x, y, web

MCRule == 1..2

MCVersions ==
  LET narrow == [target |-> "location", weight |-> 1, active |-> TRUE, scope |-> Host,
                 finds |-> [n \in Hostname |-> IF n = "core" THEN {ams} ELSE {ams, fra}]]
      wide == [narrow EXCEPT !.weight = 2, !.finds = [n \in Hostname |-> {fra}]]
  IN {narrow, wide, [narrow EXCEPT !.active = FALSE], [narrow EXCEPT !.scope = {}]}

ActorsAlike == Permutations(Actor)

MCProcessOf == [a \in Actor |-> web]
=============================================================================
