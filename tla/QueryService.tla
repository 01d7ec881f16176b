---------------------------- MODULE QueryService ----------------------------
(***************************************************************************)
(* What a client expects of portproxy: a query that was sent may be        *)
(* answered, to the client and port that sent it, any number of times or   *)
(* never (UDP), and nothing else comes as an answer.                       *)
(***************************************************************************)
CONSTANTS Askers, Ids

VARIABLES
  asked,    \* queries sent: who and what
  answered  \* answers that arrived: at whom and to what

Query == [who : Askers, id : Ids]

Init == asked = {} /\ answered = {}

Ask(q) == asked' = asked \cup {q} /\ UNCHANGED answered

Answer(q) ==
  /\ q \in asked
  /\ answered' = answered \cup {q}
  /\ UNCHANGED asked

Next == \E q \in Query : Ask(q) \/ Answer(q)

Spec == Init /\ [][Next]_<<asked, answered>>
=============================================================================
