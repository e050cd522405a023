------------------------------- MODULE RaftLog -------------------------------
(***************************************************************************)
(* The replicated log of one node: internal/log/log.go.                    *)
(*                                                                         *)
(* The Go type is a slice whose element 0 is a sentinel (index 0, term 0); *)
(* here a log is the sequence of the real entries, so that position i of   *)
(* the sequence is element i of the slice and the sentinel shows only as   *)
(* the 0 that LastIndex and LastTerm return for the empty log.  An entry   *)
(* carries its own index, as in the code: that it equals its position is   *)
(* what the panic in Append guards, and an invariant of module Raft.       *)
(***************************************************************************)
EXTENDS Integers, Sequences, FiniteSets

Entry(index, term, command) ==
    [index |-> index, term |-> term, command |-> command]

\* log.New: only the sentinel.
NewLog == << >>

LastIndex(l) == Len(l)

LastTerm(l) == IF l = << >> THEN 0 ELSE l[Len(l)].term

\* The boolean result of At: the entry exists (the sentinel does not count).
Has(l, index) == index \in 1..Len(l)

\* The term At finds at an index; 0 is the zero LogEntry of a failed lookup.
TermAt(l, index) == IF Has(l, index) THEN l[index].term ELSE 0

\* Truncate drops the entries at fromIndex and above; no-op out of range.
Truncate(l, fromIndex) ==
    IF Has(l, fromIndex) THEN SubSeq(l, 1, fromIndex - 1) ELSE l

\* Entries(from, to): the half-open range, clipped to the log.
Entries(l, from, to) ==
    LET lo == IF from <= 0 THEN 1 ELSE from
        hi == IF to > Len(l) + 1 THEN Len(l) + 1 ELSE to
    IN  IF lo >= hi THEN << >> ELSE SubSeq(l, lo, hi - 1)

(***************************************************************************)
(* The first k entries, and two logs agreeing on them: the vocabulary of   *)
(* the log properties.                                                     *)
(***************************************************************************)
Prefix(l, k) == SubSeq(l, 1, k)

SamePrefix(l, m, k) ==
    /\ k <= Len(l) /\ k <= Len(m)
    /\ \A i \in 1..k : l[i] = m[i]
=============================================================================
