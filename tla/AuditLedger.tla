----------------------------- MODULE AuditLedger -----------------------------
(***************************************************************************)
(* What the audit table promises its readers, whatever the writers do: a   *)
(* ledger that only grows, by whole transactions, in seq order, and in     *)
(* which every entry is linked to an older entry that is in the ledger.    *)
(* An entry is a record with at least the fields seq and prev; prev is the *)
(* seq of the entry whose row_hash is stored as prev_hash, 0 for the       *)
(* first entry of the chain.                                               *)
(***************************************************************************)
EXTENDS Naturals

VARIABLE ledger

Init == ledger = {}

\* The link of a new entry: it opens the chain, or it names an older entry.
Linked(e, entries) ==
    IF e.prev = 0 THEN \A old \in entries : e.seq <= old.seq
                  ELSE \E old \in entries : old.seq = e.prev /\ old.seq < e.seq

Append ==
    /\ ledger \subseteq ledger'
    /\ \A new \in ledger' \ ledger :
          /\ \A old \in ledger : old.seq < new.seq
          /\ Linked(new, ledger')

Spec == Init /\ [][Append]_ledger
==============================================================================
