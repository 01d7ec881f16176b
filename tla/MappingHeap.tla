---------------------------- MODULE MappingHeap -----------------------------
(***************************************************************************)
(* ctx->mappings as it lies in memory: cells that malloc gives and free    *)
(* takes back, the pointers between them, and the walks of mapping_find,   *)
(* mapping_delete, ctx_mappings_remove_expired and ctx_timeout_get along   *)
(* these pointers, one cell per step (src/src/framework.c).  The fields    *)
(* that mapping_find compares are a key.  timeout is an int; the time of   *)
(* day is wider, and unsigned where ctx_timeout_get compares it.           *)
(***************************************************************************)
EXTENDS MappingList

CONSTANTS
  Cells,     \* where malloc may put a mapping
  Null,
  Keys, Timeout, MaxTime,   \* as in PendingTable
  NoKey,     \* of a cell that was never used
  IntMax     \* the largest int

ASSUME HeapAssumption ==
  /\ NoKey \notin Keys /\ Null \notin Cells
  /\ IntMax \in Nat /\ Timeout \in 0 .. IntMax /\ MaxTime \in 0 .. IntMax + 1

Packets  == [seeks : SUBSET Keys, makes : Keys]
NoPacket == [seeks |-> {}, makes |-> NoKey]
Pointers == Cells \cup {Null}

VARIABLES
  pc,        \* where the thread is
  mappings,  \* ctx->mappings
  next, key, timeout,   \* the fields of the cells
  used,      \* the cells that malloc gave and free has not got back
  m, tmp,    \* the pointers of the walks
  back,      \* who called mapping_delete
  pkt,       \* the packet in hand
  left,      \* timeout in ctx_timeout_get
  now,       \* the time of day
  clock,     \* now in the two functions that read it
  wait,      \* the timeout of the last select()
  chain      \* history: the cells that were linked and not unlinked, head first

cellVars == <<mappings, next, key, timeout, used, chain>>
walkVars == <<m, tmp, back, pkt, left>>
timeVars == <<now, clock, wait>>
vars == <<pc, cellVars, walkVars, timeVars>>

Pcs == {"loop", "timeout", "select", "find", "delete", "unlink", "handled", "sweep",
        "crashed"}

-----------------------------------------------------------------------------
(* A sum stored in an int; an int compared with an unsigned int.           *)
ToInt(x)      == IF x > IntMax THEN x - 2 * (IntMax + 1) ELSE x
ToUnsigned(x) == IF x < 0 THEN x + 2 * (IntMax + 1) ELSE x

Init ==
  /\ pc = "loop" /\ mappings = Null /\ chain = <<>> /\ used = {}
  /\ next = [c \in Cells |-> Null]
  /\ key = [c \in Cells |-> NoKey] /\ timeout = [c \in Cells |-> 0]
  /\ m = Null /\ tmp = Null /\ back = "handled" /\ pkt = NoPacket /\ left = 0
  /\ now = 0 /\ clock = 0 /\ wait = IdleTimeout

(* A function returns; its locals are gone.                                *)
Leave ==
  m' = Null /\ tmp' = Null /\ back' = "handled" /\ pkt' = NoPacket /\ left' = 0

-----------------------------------------------------------------------------
(* ctx_timeout_get *)

TimeoutStart ==
  /\ pc = "loop" /\ pc' = "timeout"
  /\ clock' = now /\ left' = IdleTimeout /\ m' = mappings
  /\ UNCHANGED <<cellVars, tmp, back, pkt, now, wait>>

LeastFault(a, b) == IF a > b THEN a ELSE b   \* the longest

Least(a, b) == IF a > b THEN b ELSE a

TimeoutStepFault ==   \* the test for an expired mapping is left out
  /\ pc = "timeout" /\ m # Null
  /\ left' = Least(left, timeout[m] - clock)
  /\ m' = next[m]
  /\ UNCHANGED <<pc, cellVars, tmp, back, pkt, timeVars>>

TimeoutStep ==
  /\ pc = "timeout" /\ m # Null /\ ~ ToUnsigned(timeout[m]) < clock
  /\ left' = Least(left, ToUnsigned(timeout[m]) - clock)
  /\ m' = next[m]
  /\ UNCHANGED <<pc, cellVars, tmp, back, pkt, timeVars>>

TimeoutExpired ==   \* break; a timeout of 0 is raised to 1
  /\ pc = "timeout" /\ m # Null /\ ToUnsigned(timeout[m]) < clock
  /\ wait' = 1 /\ pc' = "select"
  /\ Leave /\ UNCHANGED <<cellVars, now, clock>>

TimeoutDone ==
  /\ pc = "timeout" /\ m = Null
  /\ wait' = IF left = 0 THEN 1 ELSE left
  /\ pc' = "select"
  /\ Leave /\ UNCHANGED <<cellVars, now, clock>>

-----------------------------------------------------------------------------
(* wait_for_traffic returns without a packet, or with one that mapping_find*)
(* looks for.                                                              *)

Quiet ==
  /\ pc = "select" /\ pc' = "handled"
  /\ UNCHANGED <<cellVars, walkVars, timeVars>>

Receive(p) ==
  /\ pc = "select" /\ pc' = "find"
  /\ pkt' = p /\ m' = mappings
  /\ UNCHANGED <<cellVars, tmp, back, left, timeVars>>

FindStep ==
  /\ pc = "find" /\ m # Null /\ key[m] \notin pkt.seeks
  /\ m' = next[m]
  /\ UNCHANGED <<pc, cellVars, tmp, back, pkt, left, timeVars>>

Delete(caller) ==
  /\ back' = caller /\ pc' = "delete"
  /\ UNCHANGED <<cellVars, m, tmp, pkt, left, timeVars>>

(* response_send leaves the list alone.                                    *)
Found ==
  /\ pc = "find" /\ m # Null /\ key[m] \in pkt.seeks
  /\ Delete("handled")

(* mapping_create and mapping_add.                                         *)
Add(c) ==
  /\ pc = "find" /\ m = Null /\ c \in Cells \ used
  /\ used' = used \cup {c}
  /\ key' = [key EXCEPT ![c] = pkt.makes]
  /\ timeout' = [timeout EXCEPT ![c] = ToInt(now + Timeout)]
  /\ next' = [next EXCEPT ![c] = mappings]
  /\ mappings' = c
  /\ chain' = MappingAdd(chain, c)
  /\ pc' = "handled"
  /\ Leave /\ UNCHANGED timeVars

(* mapping_create does not look at what malloc returned.                   *)
NoMemory ==
  /\ pc = "find" /\ m = Null /\ used = Cells
  /\ pc' = "crashed"
  /\ Leave /\ UNCHANGED <<cellVars, timeVars>>

-----------------------------------------------------------------------------
(* mapping_delete *)

ReturnFault ==   \* on to the next cell
  /\ pc' = back
  /\ IF back = "sweep" THEN m' = next'[m] /\ tmp' = Null /\ UNCHANGED <<back, pkt, left>>
                       ELSE Leave

(* ctx_mappings_remove_expired starts again from the head; handle_packet   *)
(* is done.                                                                *)
Return ==
  /\ pc' = back
  /\ IF back = "sweep" THEN m' = mappings' /\ tmp' = Null /\ UNCHANGED <<back, pkt, left>>
                       ELSE Leave

IsAt(i) == i \in DOMAIN chain /\ chain[i] = m
Forget == \E i \in DOMAIN chain : IsAt(i) /\ chain' = MappingDelete(chain, i)

DeleteHeadFault ==   \* returns before the head is moved on
  /\ pc = "delete" /\ mappings = m
  /\ UNCHANGED <<cellVars, timeVars>>
  /\ Return

(* The head is unlinked and not freed.                                     *)
DeleteHead ==
  /\ pc = "delete" /\ mappings = m
  /\ mappings' = next[m]
  /\ UNCHANGED <<next, key, timeout, used, timeVars>>
  /\ Forget
  /\ Return

DeleteOther ==
  /\ pc = "delete" /\ mappings # m
  /\ tmp' = mappings /\ pc' = "unlink"
  /\ UNCHANGED <<cellVars, m, back, pkt, left, timeVars>>

UnlinkStep ==
  /\ pc = "unlink" /\ next[tmp] \notin {m, Null}
  /\ tmp' = next[tmp]
  /\ UNCHANGED <<pc, cellVars, m, back, pkt, left, timeVars>>

FreeFault == UNCHANGED used

Free == used' = used \ {m}

(* free() writes over the cell: what was its pointer leads astray.         *)
Relink == next' = [next EXCEPT ![tmp] = next[m], ![m] = m]

Unlink ==
  /\ pc = "unlink" /\ next[tmp] = m
  /\ Relink
  /\ Free
  /\ UNCHANGED mappings
  /\ Forget
  /\ Return
  /\ UNCHANGED <<key, timeout, timeVars>>

-----------------------------------------------------------------------------
(* ctx_mappings_remove_expired *)

SweepStart ==
  /\ pc = "handled" /\ pc' = "sweep"
  /\ clock' = now /\ m' = mappings
  /\ UNCHANGED <<cellVars, tmp, back, pkt, left, now, wait>>

SweepStep ==
  /\ pc = "sweep" /\ m # Null /\ timeout[m] > clock
  /\ m' = next[m]
  /\ UNCHANGED <<pc, cellVars, tmp, back, pkt, left, timeVars>>

SweepExpired ==
  /\ pc = "sweep" /\ m # Null /\ timeout[m] <= clock
  /\ Delete("sweep")

SweepDone ==
  /\ pc = "sweep" /\ m = Null
  /\ pc' = "loop"
  /\ Leave /\ UNCHANGED <<cellVars, timeVars>>

-----------------------------------------------------------------------------
Tick ==
  /\ now < MaxTime /\ now' = now + 1
  /\ UNCHANGED <<pc, cellVars, walkVars, clock, wait>>

Crashed == pc = "crashed" /\ UNCHANGED vars

Thread ==
  \/ TimeoutStart \/ TimeoutStep \/ TimeoutExpired \/ TimeoutDone
  \/ Quiet \/ (\E p \in Packets : Receive(p)) \/ FindStep \/ Found
  \/ (\E c \in Cells : Add(c)) \/ NoMemory
  \/ DeleteHead \/ DeleteOther \/ UnlinkStep \/ Unlink
  \/ SweepStart \/ SweepStep \/ SweepExpired \/ SweepDone

Next == Thread \/ Tick \/ Crashed

Spec == Init /\ [][Next]_vars

(* The process is scheduled.                                               *)
FairSpec == Spec /\ WF_vars(Thread)

-----------------------------------------------------------------------------
(* Every variable has its type; mapping_delete is called for a mapping.    *)
TypeOK ==
  /\ pc \in Pcs /\ back \in {"handled", "sweep"} /\ pkt \in Packets \cup {NoPacket}
  /\ mappings \in Pointers /\ m \in Pointers /\ tmp \in Pointers
  /\ next \in [Cells -> Pointers] /\ key \in [Cells -> Keys \cup {NoKey}]
  /\ timeout \in [Cells -> -(IntMax + 1) .. IntMax]
  /\ used \subseteq Cells /\ chain \in Seq(Cells)
  /\ now \in 0 .. MaxTime /\ clock \in 0 .. MaxTime
  /\ left \in 0 .. IdleTimeout /\ wait \in 1 .. IdleTimeout
  /\ pc = "delete" => m # Null
  /\ pc = "unlink" => m # Null /\ tmp # Null

(* Whatever is added, answered and swept, and wherever malloc puts it: the *)
(* pointers from ctx->mappings on run through the cells that are in the    *)
(* list, each once, and end in NULL.                                       *)
Ptr(i) == IF i \in DOMAIN chain THEN chain[i] ELSE Null
Linked ==
  /\ mappings = Ptr(1)
  /\ \A i \in DOMAIN chain : next[chain[i]] = Ptr(i + 1)
  /\ \A i, j \in DOMAIN chain : chain[i] = chain[j] => i = j

InList(c) == \E i \in DOMAIN chain : chain[i] = c

(* The walk of ctx_mappings_remove_expired deletes the cell it stands on:  *)
(* no walk reads a cell that was freed, nor one that is not in the list.   *)
NoDangling ==
  /\ pc \in {"timeout", "find", "sweep"} => m = Null \/ InList(m)
  /\ pc \in {"delete", "unlink"} => InList(m)
  /\ pc = "unlink" => InList(tmp) /\ next[tmp] # Null
  /\ \A i \in DOMAIN chain : chain[i] \in used

(* mapping_delete gives back the memory of what it takes out of the list,  *)
(* unless it stood at the head.                                            *)
OnlyHeadIsLost ==
  [][\A c \in Cells : InList(c) /\ ~ InList(c)' => c \notin used' \/ c = mappings]_vars

(* Every walk ends, also the one that starts again after each deletion.    *)
WalksEnd ==
  pc \in {"timeout", "find", "delete", "unlink", "sweep"}
     ~> pc \in {"loop", "select", "handled", "crashed"}

(* The cells, read along the pointers, are the list that MappingTable and  *)
(* the relay take for ctx->mappings: the first match is answered, the first*)
(* expired is swept, none is passed over, and select() waits as long as    *)
(* the list says.                                                          *)
Contents == [i \in DOMAIN chain |-> [key |-> key[chain[i]], timeout |-> timeout[chain[i]]]]
Phase ==
  CASE pc = "timeout" -> "arm"
    [] pc \in {"find", "crashed"} -> "select"
    [] pc \in {"delete", "unlink"} -> IF back = "sweep" THEN "sweep" ELSE "select"
    [] OTHER -> pc
Table == INSTANCE PendingTable WITH phase <- Phase, table <- Contents
ImplementsTable == Table!Spec

(* A mapping waits for its answer as long as it was told to: it is swept   *)
(* when the time that was put into it, read as ctx_timeout_get does, has   *)
(* come.                                                                   *)
LivesItsTime ==
  [][\A c \in Cells : back = "sweep" /\ InList(c) /\ ~ InList(c)' =>
        ToUnsigned(timeout[c]) <= clock]_vars

(* mapping_delete deletes mappings.                                        *)
NothingLost == \A c \in used : InList(c)

(* Memory lasts as long as fewer mappings are waited for than there is     *)
(* room for.                                                               *)
NeverWithoutMemory == pc # "crashed"
=============================================================================
