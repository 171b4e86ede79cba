----------------------------- MODULE OrderedSet -----------------------------
(***************************************************************************)
(* What set_elem, key_elem and tag_elem promise their callers: a set of    *)
(* elements ordered by key.  An element is its key, a natural number.      *)
(*                                                                         *)
(* A caller asks for an operation on a key; the operation takes effect at  *)
(* one moment after that, and its answer is what the set says then; the    *)
(* caller gets the answer and may ask again.                               *)
(***************************************************************************)
EXTENDS Naturals

CONSTANTS
  Callers,
  Elements, \* the elements there may be
  None,     \* no element: the NULL pointer
  AtOnce    \* the operations whose call and effect are one step

VARIABLES
  members, \* the elements in the container
  pending, \* what each caller has asked for and was not done yet
  result   \* {}, or {r}: what was done for the caller came to r

vars == <<members, pending, result>>

Requests ==
  [op : {"insert", "search", "remove", "next", "erase"}, x : Elements]
    \cup [op : {"first", "clear"}, x : {None}]

Idle == [op |-> "none", x |-> None]

\* The first element of S, if there is one.
First(S) == IF S = {} THEN {None} ELSE {x \in S : \A y \in S : x <= y}

\* The elements of S after x.
After(S, x) == {y \in S : y > x}

\* x, if S has it.
Found(S, x) == IF x \in S THEN {x} ELSE {None}

Init ==
  /\ members = {}
  /\ pending = [c \in Callers |-> Idle] /\ result = [c \in Callers |-> {}]

\* What request q comes to on the set S.  An insert returns the element that is
\* already there, a remove hands over the element with the key, an erase the
\* successor of the element erased.
Answer(q, S) ==
  CASE q.op \in {"insert", "search", "remove"} -> Found(S, q.x)
    [] q.op \in {"next", "erase"} -> First(After(S, q.x))
    [] q.op = "first" -> First(S)
    [] q.op = "clear" -> {None}

\* The set that q leaves of S.
Rest(q, S) ==
  CASE q.op = "insert" -> S \cup {q.x}
    [] q.op \in {"remove", "erase"} -> S \ {q.x}
    [] q.op = "clear" -> {}
    [] OTHER -> S

\* Only an element that is there has a successor or is erased.
Serve(c, q) ==
  /\ q.op \in {"next", "erase"} => q.x \in members
  /\ result' = [result EXCEPT ![c] = Answer(q, members)]
  /\ members' = Rest(q, members)

Ready(c) == pending[c] = Idle /\ result[c] = {}

Invoke(c, q) ==
  Ready(c) /\ pending' = [pending EXCEPT ![c] = q] /\ UNCHANGED <<members, result>>

Perform(c) ==
  /\ pending[c] # Idle
  /\ Serve(c, pending[c]) /\ pending' = [pending EXCEPT ![c] = Idle]

InvokeAndPerform(c, q) ==
  q.op \in AtOnce /\ Ready(c) /\ Serve(c, q) /\ UNCHANGED pending

Respond(c) ==
  result[c] # {} /\ result' = [result EXCEPT ![c] = {}] /\ UNCHANGED <<members, pending>>

Next ==
  \E c \in Callers :
    \/ Perform(c) \/ Respond(c)
    \/ \E q \in Requests : Invoke(c, q) \/ InvokeAndPerform(c, q)

Spec == Init /\ [][Next]_vars
=============================================================================
