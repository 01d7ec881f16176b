---------------------------- MODULE PendingTable ----------------------------
(***************************************************************************)
(* What the loop of portproxy expects of its mapping list: each packet     *)
(* either takes the youngest mapping it answers out of the list or puts a  *)
(* new one at its head; a sweep takes out what has expired, first from the *)
(* head, and all of it; select() waits as long as the list says.           *)
(***************************************************************************)
EXTENDS MappingList

CONSTANTS
  Keys,      \* what an answer is compared with: addresses and ports
  Timeout,   \* ctx->timeout
  MaxTime    \* bound: the clock stops here

(* A packet answers the mappings of some keys: of its sender, port and     *)
(* protocol, and of multicast with that port; a query answers none.  When  *)
(* nothing waits for it, a mapping is made of it.                          *)
Packets == [seeks : SUBSET Keys, makes : Keys]

VARIABLES
  phase,   \* of the loop
  table,   \* the list
  now,     \* the time of day
  clock,   \* the time that was last read
  wait     \* the timeout of the last select()

vars == <<phase, table, now, clock, wait>>

Init ==
  /\ phase = "loop" /\ table = <<>>
  /\ now = 0 /\ clock = 0 /\ wait = IdleTimeout

ReadClock ==
  /\ phase = "loop" /\ phase' = "arm"
  /\ clock' = now
  /\ UNCHANGED <<table, now, wait>>

Select ==
  /\ phase = "arm" /\ phase' = "select"
  /\ wait' = TimeoutGet(table, clock)
  /\ UNCHANGED <<table, now, clock>>

Quiet ==
  /\ phase = "select" /\ phase' = "handled"
  /\ UNCHANGED <<table, now, clock, wait>>

IsAnswered(p, i) ==
  /\ i \in DOMAIN table /\ table[i].key \in p.seeks
  /\ \A j \in 1 .. i - 1 : table[j].key \notin p.seeks

Answer(p, i) ==
  /\ phase = "select" /\ phase' = "handled"
  /\ IsAnswered(p, i)
  /\ table' = MappingDelete(table, i)
  /\ UNCHANGED <<now, clock, wait>>

Add(p) ==
  /\ phase = "select" /\ phase' = "handled"
  /\ \A i \in DOMAIN table : table[i].key \notin p.seeks
  /\ table' = MappingAdd(table, [key |-> p.makes, timeout |-> now + Timeout])
  /\ UNCHANGED <<now, clock, wait>>

SweepStart ==
  /\ phase = "handled" /\ phase' = "sweep"
  /\ clock' = now
  /\ UNCHANGED <<table, now, wait>>

SweepOne(i) ==
  /\ phase = "sweep" /\ FirstExpired(table, clock, i)
  /\ table' = MappingDelete(table, i)
  /\ UNCHANGED <<phase, now, clock, wait>>

SweepDone ==
  /\ phase = "sweep" /\ phase' = "loop"
  /\ \A i \in DOMAIN table : ~ Expired(table[i], clock)
  /\ UNCHANGED <<table, now, clock, wait>>

Tick ==
  /\ now < MaxTime /\ now' = now + 1
  /\ UNCHANGED <<phase, table, clock, wait>>

Next ==
  \/ ReadClock \/ Select \/ Quiet \/ SweepStart \/ SweepDone \/ Tick
  \/ \E p \in Packets : Add(p) \/ \E i \in DOMAIN table : Answer(p, i)
  \/ \E i \in DOMAIN table : SweepOne(i)

Spec == Init /\ [][Next]_vars
=============================================================================
