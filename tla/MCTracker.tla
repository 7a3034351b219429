----------------------------- MODULE MCTracker -----------------------------
(* Instances of Tracker for TLC. *)
EXTENDS Tracker, TLC

CONSTANTS p1, p2, a, b, d1, d2

\* Package a is listed, b is matched by a wildcard rule only; the second
\* configuration moves a to another directory and drops b.
TwoConfigs ==
    { [policies |-> [x \in {a, b} |-> IF x = a THEN {d1, NoCpus} ELSE {d2}],
       listed |-> {a}],
      [policies |-> [x \in {a, b} |-> IF x = a THEN {d2, NoRule} ELSE {}],
       listed |-> {a}] }

OneConfig ==
    { [policies |-> [x \in {a, b} |-> IF x = a THEN {d1, NoCpus} ELSE {d1, d2}],
       listed |-> {a, b}] }

=============================================================================
