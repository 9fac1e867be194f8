------------------------------- MODULE LogRing -------------------------------
(***************************************************************************)
(* The controller's event log as subscribe.rs and readlog.rs see it: a     *)
(* ring of numbered records that overwrites its oldest.  The ring is       *)
(* firmware and external; its extent, LogExtent, is the crate's.           *)
(***************************************************************************)
EXTENDS Integers, FiniteSets, FiniteSetsExt

CONSTANTS
  LastSeq,    \* u64::MAX, the position with nothing past it
  Capacity    \* external: the records the ring holds

ASSUME RingAssumption == LastSeq \in Nat \ {0} /\ Capacity \in Nat \ {0}

VARIABLES
  log,        \* the records the ring holds, by their seq
  written     \* history: every record ever written

Seqs == 1 .. LastSeq

\* LogExtent: 0 is not a position, and stands for no record (P-144).
Oldest == IF log = {} THEN 0 ELSE Min(log)
Newest == IF log = {} THEN 0 ELSE Max(log)

RingInit == log = {} /\ written = {}

\* The record the next write overwrites.
Overwritten == IF Cardinality(log) = Capacity THEN {Oldest} ELSE {}

(* A record is written.  The sequence has holes: a stored record that no   *)
(* longer passes its checksum is skipped (P-096).                          *)
Record(seq) ==
  /\ seq \in {Newest + 1, Newest + 2} \cap Seqs
  /\ log' = (log \ Overwritten) \cup {seq}
  /\ written' = written \cup {seq}
=============================================================================
