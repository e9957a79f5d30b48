---- MODULE MCFileRecords ----
(***************************************************************************)
(* FileRecords for TLC: identifiers, contents, rooms, nodes and threads    *)
(* are interchangeable.                                                    *)
(***************************************************************************)
EXTENDS FileRecords, TLC

Symmetry ==
    Permutations(FileIds) \cup Permutations(Shas) \cup Permutations(Rooms)
        \cup Permutations(Nodes) \cup Permutations(Workers)

CONSTANT
    MaxReports      \* reports under way at once

FewReports == Cardinality(reports) <= MaxReports

\* Bounds of the runs that are about something else.
NoDiskLoss == \A n \in Nodes : lost[n] = {}
OneCommit == Cardinality({<<n, s>> \in Nodes \X Shas : s \in Committed(n)}) <= 1
Aged == {f \in Present : files[f].late \/ files[f].ticket = "expired"}
NoAgeing == Aged = {}
Losses == {<<n, s>> \in Nodes \X Shas : s \in lost[n]}
OneMishap == Cardinality(Losses) + Cardinality(Aged) <= 1
NoBlindReads ==
    /\ \A f \in Present : files[f].blind \subseteq {"manifest"}
    /\ \A w \in Workers : workers[w].pc \in {"idle", "ticket"} \/ workers[w].blind = {}

====
