---------------------------- MODULE RelayService ----------------------------
(***************************************************************************)
(* What a client may expect of the relay when it uses NAT-PMP: each query  *)
(* that it sent is answered at most once or given up.  Which of the AFTR's *)
(* answers it gets is not promised.                                        *)
(***************************************************************************)
EXTENDS Naturals

VARIABLES
  asked,    \* how often the client asked
  waiting,  \* how many of these queries may still be answered
  answered  \* answers that were sent to the client

vars == <<asked, waiting, answered>>

Init == asked = 0 /\ waiting = 0 /\ answered = 0

Ask ==
  /\ asked' = asked + 1 /\ waiting' = waiting + 1
  /\ UNCHANGED answered

Resolve == waiting > 0 /\ waiting' = waiting - 1

Answer ==
  /\ Resolve
  /\ answered' = answered + 1
  /\ UNCHANGED asked

GiveUp == Resolve /\ UNCHANGED <<asked, answered>>

Next == Ask \/ Answer \/ GiveUp

Spec == Init /\ [][Next]_vars
=============================================================================
