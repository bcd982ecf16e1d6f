------------------------- MODULE MCRecordingServer -------------------------
(* RecordingServer for TLC: the requests are interchangeable. *)
EXTENDS RecordingServer, TLC

RequestSymmetry == Permutations(Requests)

\* Every attempt at a part uploads the same bytes, and parts differ in size.
OneSizeEach == [n \in 1..MaxParts |-> {n}]

\* The last part is prepared twice, with different bytes.
LastPartTwice == [n \in 1..MaxParts |-> IF n = MaxParts THEN {1, 2} ELSE {1}]

\* "Deleted recordings are 404" (permissions.py:113), and 404 they stay: what was
\* deleted never gets another status. TLC finds a finish that loaded the
\* recording before the delete committed and writes its verdict after it.
DeletedIsFinal == [][status = "deleted" => status' = "deleted"]_vars
=============================================================================
