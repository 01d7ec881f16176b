----------------------------- MODULE EventLoop ------------------------------
(***************************************************************************)
(* The scheduling of portproxy: who is served, when mappings go and when   *)
(* the loop ends (run, wait_for_traffic, ctx_timeout_get and               *)
(* ctx_mappings_remove_expired of src/src/framework.c).                    *)
(*                                                                         *)
(* Packets are counted, not read, and what is left of a timeout replaces   *)
(* the time of day, so that the state space is finite without stopping the *)
(* clock and liveness can be checked.  UdpRelay has the packets.           *)
(***************************************************************************)
EXTENDS Integers, FiniteSets

CONSTANTS
  NSockets,     \* sockets 1 .. NSockets in the order of ctx->sockets
  Slots,        \* mappings the table may hold at a time (bound)
  Timeout,      \* ctx->timeout
  IdleTimeout,  \* 3600
  RxCap         \* bound: packets waiting at a socket

ASSUME SocketAssumption == NSockets \in Nat \ {0} /\ RxCap \in Nat \ {0}
ASSUME TimeAssumption == Timeout \in Nat \ {0} /\ IdleTimeout \in Nat \ {0}

Socks  == 1 .. NSockets
Absent == -1

VARIABLES
  pc,        \* where the thread is
  Shutdown,  \* set by signal_handler
  sleep,     \* seconds select() still waits
  left,      \* slot -> seconds its mapping has left, or Absent
  rx,        \* socket -> packets waiting
  served     \* the socket read in this pass, 0 if none

vars == <<pc, Shutdown, sleep, left, rx, served>>

(* Every variable has its type; nothing is left of more than one timeout.  *)
TypeOK ==
  /\ pc \in {"test", "arm", "select", "handle", "sweep", "stopped"}
  /\ Shutdown \in BOOLEAN
  /\ sleep \in 0 .. IdleTimeout
  /\ left \in [Slots -> {Absent} \cup 0 .. Timeout]
  /\ rx \in [Socks -> 0 .. RxCap]
  /\ served \in 0 .. NSockets

Init ==
  /\ pc = "test" /\ Shutdown = FALSE /\ sleep = 0
  /\ left = [m \in Slots |-> Absent]
  /\ rx = [s \in Socks |-> 0]
  /\ served = 0

Live == {m \in Slots : left[m] # Absent}

-----------------------------------------------------------------------------
(* A fault of an operator is what a plausible slip would have made of it;  *)
(* the properties are tested against the faults.                           *)

LoopTestFault ==   \* Shutdown is seen only when nothing was served
  /\ pc = "test"
  /\ pc' = IF Shutdown /\ served = 0 THEN "stopped" ELSE "arm"
  /\ served' = 0
  /\ UNCHANGED <<Shutdown, sleep, left, rx>>

(* while (!Shutdown)                                                       *)
LoopTest ==
  /\ pc = "test"
  /\ pc' = IF Shutdown THEN "stopped" ELSE "arm"
  /\ served' = 0
  /\ UNCHANGED <<Shutdown, sleep, left, rx>>

TimeoutGetFault ==   \* the idle wait is added, it should be the upper bound
  LET waits == {0} \cup {left[m] : m \in Live}
  IN  IdleTimeout + (CHOOSE x \in waits : \A y \in waits : x >= y)

(* ctx_timeout_get                                                         *)
TimeoutGet ==
  LET waits == {IdleTimeout} \cup {left[m] : m \in Live}
      least == CHOOSE x \in waits : \A y \in waits : x <= y
  IN  IF least = 0 THEN 1 ELSE least

ArmSelect ==
  /\ pc = "arm"
  /\ sleep' = TimeoutGet /\ pc' = "select"
  /\ UNCHANGED <<Shutdown, left, rx, served>>

FirstReadyFault(s) ==   \* the scan runs from the other end
  rx[s] > 0 /\ \A t \in Socks : t > s => rx[t] = 0

(* The scan of wait_for_traffic stops at the first readable socket.        *)
FirstReady(s) == rx[s] > 0 /\ \A t \in Socks : t < s => rx[t] = 0

Serve(s) ==
  /\ pc = "select" /\ FirstReady(s)
  /\ rx' = [rx EXCEPT ![s] = @ - 1]
  /\ served' = s /\ pc' = "handle"
  /\ UNCHANGED <<Shutdown, sleep, left>>

SelectTimeout ==
  /\ pc = "select" /\ sleep = 0 /\ \A s \in Socks : rx[s] = 0
  /\ pc' = "sweep"
  /\ UNCHANGED <<Shutdown, sleep, left, rx, served>>

(* handle_packet: the packet makes a mapping, uses one up, or does neither.*)
Handle ==
  /\ pc = "handle" /\ pc' = "sweep"
  /\ \/ \E m \in Slots \ Live : left' = [left EXCEPT ![m] = Timeout]
     \/ \E m \in Live : left' = [left EXCEPT ![m] = Absent]
     \/ UNCHANGED left
  /\ UNCHANGED <<Shutdown, sleep, rx, served>>

SweepFault ==   \* packets postpone the removal
  /\ pc = "sweep" /\ pc' = "test"
  /\ left' = [m \in Slots |-> IF left[m] = 0 /\ served = 0 THEN Absent ELSE left[m]]
  /\ UNCHANGED <<Shutdown, sleep, rx, served>>

(* ctx_mappings_remove_expired                                             *)
Sweep ==
  /\ pc = "sweep" /\ pc' = "test"
  /\ left' = [m \in Slots |-> IF left[m] = 0 THEN Absent ELSE left[m]]
  /\ UNCHANGED <<Shutdown, sleep, rx, served>>

-----------------------------------------------------------------------------
Arrive(s) ==
  /\ rx[s] < RxCap
  /\ rx' = [rx EXCEPT ![s] = @ + 1]
  /\ UNCHANGED <<pc, Shutdown, sleep, left, served>>

(* A signal ends a select() that waits, and no other step.                 *)
Signal ==
  /\ ~ Shutdown
  /\ Shutdown' = TRUE
  /\ pc' = IF pc = "select" THEN "sweep" ELSE pc
  /\ UNCHANGED <<sleep, left, rx, served>>

Less(n) == IF n > 0 THEN n - 1 ELSE n

Tick ==
  /\ pc # "stopped"
  /\ sleep' = Less(sleep)
  /\ left' = [m \in Slots |-> Less(left[m])]
  /\ <<sleep, left>>' # <<sleep, left>>
  /\ UNCHANGED <<pc, Shutdown, rx, served>>

Proxy ==
  LoopTest \/ ArmSelect \/ SelectTimeout \/ Handle \/ Sweep \/ \E s \in Socks : Serve(s)

(* run() has returned: the only state in which nothing more happens.       *)
Stopped == pc = "stopped" /\ UNCHANGED vars

Next == Proxy \/ Signal \/ Tick \/ Stopped \/ \E s \in Socks : Arrive(s)

(* The thread is scheduled again and again and time passes; nobody has to  *)
(* send a packet or a signal.                                              *)
Fairness == WF_vars(Proxy) /\ WF_vars(Tick)

Spec == Init /\ [][Next]_vars /\ Fairness

-----------------------------------------------------------------------------
(* SIGTERM ends the loop, also when it comes just before select() is       *)
(* entered and interrupts nothing: the sleep is finite and, under a flood  *)
(* of packets, the loop condition is still tested after each of them.      *)
SignalStops == Shutdown ~> pc = "stopped"

(* No mapping stays: it is answered, or expires, or the program ends,      *)
(* however many packets keep the loop busy.                                *)
MappingsEnd ==
  \A m \in Slots : left[m] # Absent ~> (left[m] = Absent \/ pc = "stopped")

(* Only one socket is read per select(), and the scan starts at the head of*)
(* ctx->sockets: a packet at the first socket, the one the answers come to,*)
(* is read whatever arrives elsewhere, and a socket further down the list  *)
(* is sure of its turn once those before it are quiet.                     *)
ServedWhenOthersQuiet ==
  \A s \in Socks :
     <>[](\A t \in Socks : t < s => rx[t] = 0) =>
        (rx[s] > 0 ~> (served = s \/ pc = "stopped"))
=============================================================================
