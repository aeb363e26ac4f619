--------------------------- MODULE MC_MatrixSweep ---------------------------
(* Instances of MatrixSweep for TLC: a colocated chat cell, a disagg chat    *)
(* cell and a disagg RAG cell.                                               *)
EXTENDS MatrixSweep, TLC

CONSTANTS Colo, DisaggChat, DisaggRag, Notes

PositionMC == (Colo :> 1) @@ (DisaggChat :> 2) @@ (DisaggRag :> 3)
MixMC == (Colo :> "chat") @@ (DisaggChat :> "chat") @@ (DisaggRag :> "rag")

\* The whole sweep, and the passes of the two servers.
SweepsMC == {Cells, {Colo}, {DisaggChat, DisaggRag}}
WholeMC == {Cells}

Line(runAll, keepGoing, approved, allowOverflow) ==
    [endpoint |-> TRUE, runAll |-> runAll, keepGoing |-> keepGoing,
     approved |-> approved, allowOverflow |-> allowOverflow]

OptionsMC ==
    {Line(FALSE, FALSE, TRUE, FALSE), Line(FALSE, TRUE, TRUE, FALSE),
     Line(TRUE, TRUE, TRUE, TRUE), Line(FALSE, FALSE, FALSE, TRUE),
     Line(FALSE, TRUE, TRUE, TRUE),
     [Line(FALSE, FALSE, TRUE, FALSE) EXCEPT !.endpoint = FALSE]}
ResumeMC == {Line(FALSE, FALSE, TRUE, FALSE), Line(FALSE, TRUE, TRUE, FALSE)}
RunAllMC == {Line(FALSE, FALSE, TRUE, FALSE), Line(TRUE, FALSE, TRUE, FALSE)}

EmptyDir == {[n \in Names |-> Absent]}

\* Missing and corrupt files, a cell's file renamed by mistake, and a result
\* kept under a name of no cell.
MessyDirs ==
    {f \in [Names -> {Absent, Corrupt}] : \A n \in Others : f[n] = Corrupt} \cup
    {[n \in Names |-> IF n = Colo THEN Result(DisaggRag, ok) ELSE Absent] : ok \in BOOLEAN}
      \cup
    {[n \in Names |-> IF n = Notes THEN Result(n, ok) ELSE Absent] : ok \in BOOLEAN}
      \cup
    {[n \in Names |-> IF n = Notes THEN Result(Colo, TRUE) ELSE Absent]}
=============================================================================
