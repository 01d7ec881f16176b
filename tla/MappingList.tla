---------------------------- MODULE MappingList -----------------------------
(***************************************************************************)
(* ctx->mappings of src/src/framework.c as a sequence, head first, of      *)
(* records that have a field timeout: what mapping_add, mapping_delete,    *)
(* ctx_mappings_remove_expired and ctx_timeout_get do to it or find in it. *)
(* Pure functions of the list and of the clock, shared by the relay, by    *)
(* the list as it lies in memory (MappingHeap) and by the proofs.          *)
(*                                                                         *)
(* Each operator X may be preceded by faults: XFault is what a plausible   *)
(* slip would have made of it.  They are no part of the specification; the *)
(* properties are tested against them.                                     *)
(***************************************************************************)
EXTENDS Integers, Sequences, FiniteSets, SequencesExt

CONSTANT
  IdleTimeout   \* 3600: how long select() may wait when nothing is pending

ASSUME IdleAssumption == IdleTimeout \in Nat \ {0}

MappingAddFault(table, m) == Append(table, m)   \* at the tail

(* mapping_add: the new mapping becomes the head.                          *)
MappingAdd(table, m) == <<m>> \o table

MappingDeleteFault(table, i) ==   \* the elements before it go too
  SubSeq(table, i + 1, Len(table))
MappingKeptFault(table, i) == table   \* it stays

(* mapping_delete unlinks one element.                                     *)
MappingDelete(table, i) == RemoveAt(table, i)

(* ctx_mappings_remove_expired compares with <=.                           *)
Expired(m, now) == m.timeout <= now

FirstExpired(table, now, i) ==
  /\ i \in DOMAIN table
  /\ Expired(table[i], now)
  /\ \A j \in 1 .. i - 1 : ~ Expired(table[j], now)

(* ctx_timeout_get: seconds select() may sleep.  It compares with <, and   *)
(* whatever comes out as 0 is raised to 1.                                 *)
Remaining(table, now) ==
  {IdleTimeout} \cup {table[i].timeout - now : i \in DOMAIN table}

TimeoutGetFault(table, now) ==   \* mappings that have expired are passed over
  LET waits == {x \in Remaining(table, now) : x > 0}
  IN  CHOOSE x \in waits : \A y \in waits : x <= y

TimeoutGet(table, now) ==
  LET least == CHOOSE x \in Remaining(table, now) :
                 \A y \in Remaining(table, now) : x <= y
  IN  IF least <= 0 THEN 1 ELSE least
=============================================================================
