------------------------------ MODULE RpcTables ------------------------------
(***************************************************************************)
(* The fixed-size tables of lib/capn-rpc.h.  A vat keeps everything it     *)
(* knows in arrays of slots with a `used` flag, scanned from index 0: a    *)
(* claim takes the lowest free slot, a search returns the lowest match,    *)
(* and freeing clears the slot.  Here a table is a function from 0..N-1    *)
(* to records with a `used` field, and a scan is the set of indices it     *)
(* returns: one index, or none when the scan falls off the end.            *)
(***************************************************************************)
EXTENDS Integers

\* A slot after memset(&slot, 0, sizeof slot), or with `used` cleared.
Free == [used |-> 0]

\* What a scan for a member of S returns: its lowest index, or nothing.
First(S) == {i \in S : \A j \in S : i <= j}

FreeSlots(table) == {i \in DOMAIN table : table[i].used = 0}

Used(table) == {i \in DOMAIN table : table[i].used = 1}

\* The table after `slot` was written over the slots in `where`.
Put(table, where, slot) ==
  [i \in DOMAIN table |-> IF i \in where THEN slot ELSE table[i]]
==============================================================================
