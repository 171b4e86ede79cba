------------------------------ MODULE Service ------------------------------
(***************************************************************************)
(* What the two threads do together, seen from outside: datagrams are      *)
(* collected from fragments and delivered.                                 *)
(*                                                                         *)
(* An attempt collects the fragments of one datagram.  It is open from its *)
(* first fragment until it has been delivered or given up; then it is      *)
(* closed, and forgotten some time later.                                  *)
(***************************************************************************)
EXTENDS Naturals, FiniteSetsExt

CONSTANTS
  Attempts,
  Wire,  \* the fragments: key, off, plen and mf
  MaxLen \* the longest payload that is delivered

VARIABLES
  open, closed, \* attempts
  of,           \* the datagram each of them is for, 0 if none
  have,         \* the fragments it has
  sending,      \* the attempt whose datagram is being written out
  delivered,    \* attempts whose datagram has been written out
  late          \* attempts that have lasted too long

vars == <<open, closed, of, have, sending, delivered, late>>

Init ==
  /\ open = {} /\ closed = {} /\ sending = {} /\ delivered = {} /\ late = {}
  /\ of = [a \in Attempts |-> 0] /\ have = [a \in Attempts |-> {}]

\* There is one open attempt for a datagram at a time.  It may be late already.
Open(a, k) ==
  /\ a \notin open \cup closed
  /\ \A b \in open : of[b] # k
  /\ open' = open \cup {a} /\ of' = [of EXCEPT ![a] = k]
  /\ late' \in {late, late \cup {a}}
  /\ UNCHANGED <<closed, have, sending, delivered>>

\* A fragment goes to an attempt for its datagram that has none at the same offset and
\* has not begun to deliver.  The attempt may be closed already: then the fragment is
\* lost.
Collect(a, f) ==
  /\ a \in (open \cup closed) \ (sending \cup delivered) /\ of[a] = f.key
  /\ \A g \in have[a] : g.off # f.off
  /\ have' = [have EXCEPT ![a] = @ \cup {f}]
  /\ UNCHANGED <<open, closed, of, sending, delivered, late>>

Bytes(S) == MapThenSumSet(LAMBDA f : f.plen, S)

EndOf(l) == l.off * 8 + l.plen

\* The first and the last fragment are there, and as many bytes as the datagram has.
Whole(S) ==
  /\ \E f \in S : f.off = 0
  /\ \E l \in S : ~l.mf /\ Bytes(S) = EndOf(l) /\ EndOf(l) <= MaxLen

\* There are more bytes than the datagram has, or it is too long.
Hopeless(S) == \E l \in S : ~l.mf /\ (Bytes(S) > EndOf(l) \/ EndOf(l) > MaxLen)

\* An attempt starts to deliver once, while it is open, and only a whole datagram.
Start(a) ==
  /\ sending = {} /\ a \in open \ delivered /\ Whole(have[a])
  /\ sending' = {a}
  /\ UNCHANGED <<open, closed, of, have, delivered, late>>

\* All of the datagram has been written.
Deliver(a) ==
  /\ a \in sending
  /\ sending' = {} /\ delivered' = delivered \cup {a}
  /\ UNCHANGED <<open, closed, of, have, late>>

\* It has delivered, or is given up for a reason, but not halfway.
Close(a) ==
  /\ a \in open \ sending /\ (a \in delivered \cup late \/ Hopeless(have[a]))
  /\ open' = open \ {a} /\ closed' = closed \cup {a}
  /\ UNCHANGED <<of, have, sending, delivered, late>>

Age(S) ==
  /\ S # {} /\ late' = late \cup S
  /\ UNCHANGED <<open, closed, of, have, sending, delivered>>

Forget(S) ==
  /\ S \subseteq closed /\ S # {}
  /\ closed' = closed \ S /\ delivered' = delivered \ S /\ late' = late \ S
  /\ of' = [a \in Attempts |-> IF a \in S THEN 0 ELSE of[a]]
  /\ have' = [a \in Attempts |-> IF a \in S THEN {} ELSE have[a]]
  /\ UNCHANGED <<open, sending>>

Next ==
  \/ \E a \in Attempts, f \in Wire : Open(a, f.key) \/ Collect(a, f)
  \/ \E a \in Attempts : Start(a) \/ Deliver(a) \/ Close(a)
  \/ \E S \in SUBSET closed : Forget(S)
  \/ \E S \in SUBSET (open \cup closed) : Age(S)

Spec == Init /\ [][Next]_vars
=============================================================================
