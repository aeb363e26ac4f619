---------------------------- MODULE MatrixSweep -----------------------------
(***************************************************************************)
(* The resumable matrix sweep: scripts/run_matrix.py drives                *)
(* bench/runpod_matrix.py over the cells of a configuration,               *)
(* bench/cell_runner.py measures a cell and writes its JSON, and           *)
(* bench/matrix_aggregator.py writes summary.json.  bench/matrix_report.py *)
(* is the diagnostic run afterwards.                                       *)
(*                                                                         *)
(* One process runs at a time; it can die between any two of its steps,    *)
(* and the operator starts it again on the directory it left behind.  A    *)
(* measurement is abstracted to whether the cell reconciled.               *)
(***************************************************************************)
EXTENDS Integers, FiniteSets

CONSTANTS
    Cells,          \* the cell ids of the configuration
    Others,         \* further *.json names in the directory
    CellLike,       \* those that contain "__rate-", as a cell's name does
    Position,       \* order in which MatrixSpec.cells() yields them
    Mix,            \* workload mix of each cell
    TooLong,        \* cells with a prompt beyond max_model_len
    SampleCap,      \* MAX_SAMPLED_CELLS_PER_MIX
    Sweeps,         \* sets of cells the --topologies filter leaves
    Options,        \* command lines the operator uses
    Smoke,          \* cfg.smoke
    InitialFiles,   \* what the directory may hold before the first run
    MaxCrashes,     \* bound: crashes that are followed
    NoSummary

Names == Cells \cup Others

\* A file: missing, not a cell result, or the result of some cell, by a renaming
\* mistake not always of the one it is named after.
Absent == [state |-> "absent"]
Corrupt == [state |-> "corrupt"]
Result(c, ok) == [state |-> "result", cell |-> c, ok |-> ok]
Results == [state : {"result"}, cell : Names, ok : BOOLEAN]
Files == {Absent, Corrupt} \cup Results

CommandLines ==
    [endpoint : BOOLEAN,        \* is the vLLM endpoint's variable set?
     runAll : BOOLEAN, keepGoing : BOOLEAN, approved : BOOLEAN, allowOverflow : BOOLEAN]

ExitCodes ==                    \* in the order of main()
    {"no_endpoint", "overflow", "not_approved", "none_completed", "summary_failed",
     "ok", "cell_failed"}

ASSUME SweepAssumption ==
    /\ IsFiniteSet(Cells)
    /\ Others \cap Cells = {} /\ CellLike \subseteq Others
    /\ Position \in [Cells -> Nat]
    /\ \A c, d \in Cells : Position[c] = Position[d] => c = d
    /\ TooLong \subseteq Cells
    /\ SampleCap \in Nat
    /\ Sweeps \subseteq SUBSET Cells
    /\ Options \subseteq CommandLines
    /\ Smoke \in BOOLEAN
    /\ InitialFiles \subseteq [Names -> Files]
    /\ MaxCrashes \in Nat

VARIABLES
    file,       \* the *.json files, by name
    tmp,        \* *.json.tmp files left in the directory
    summary,    \* summary.json: the results it reports
    pc,         \* where the process is; "idle": none is running
    job,        \* its command line, the cells of its sweep and those it planned
    todo,       \* cells the loop of _run has not reached
    inFlight,   \* the result being written
    counts,     \* n_completed and n_failed
    exit,       \* exit code of the last process, or "crash"
    crashes

vars == <<file, tmp, summary, pc, job, todo, inFlight, counts, exit, crashes>>
disk == <<file, tmp, summary>>

NoJob == [options |-> [endpoint |-> FALSE, runAll |-> FALSE, keepGoing |-> FALSE,
                       approved |-> FALSE, allowOverflow |-> FALSE],
          sweep |-> {}, planned |-> {}]
NoCount == [completed |-> 0, failed |-> 0]
None == [state |-> "none"]

Parses(c) == file[c].state = "result"
Valid(c) == Parses(c) /\ file[c].cell = c
Mismatched(c) == Parses(c) /\ file[c].cell # c

Measured == {n \in Names : Valid(n)}

\* Types; in particular a process only ever works on the cells of its sweep.
TypeOK ==
    /\ file \in [Names -> Files]
    /\ tmp \in SUBSET (Cells \cup {"summary"})
    /\ summary = NoSummary \/ summary \in UNION {[S -> BOOLEAN] : S \in SUBSET Names}
    /\ pc \in {"idle", "cell", "write", "replace", "report", "publish"}
    /\ job \in [options : CommandLines, sweep : SUBSET Cells, planned : SUBSET Cells]
    /\ todo \subseteq job.planned /\ job.planned \subseteq job.sweep
    /\ inFlight \in Results \cup {None}
    /\ counts \in [completed : Nat, failed : Nat]
    /\ exit \in ExitCodes \cup {"none", "crash"}
    /\ crashes \in 0 .. MaxCrashes

Init ==
    /\ file \in InitialFiles
    /\ tmp = {}
    /\ summary = NoSummary
    /\ pc = "idle" /\ job = NoJob /\ todo = {} /\ inFlight = None /\ counts = NoCount
    /\ exit = "none"
    /\ crashes = 0

-----------------------------------------------------------------------------
(* Scans of the directory                                                  *)

\* Mutant: a file that is there counts as done.
PendingByName(sweep) == {c \in sweep : file[c].state = "absent"}

\* pending_cell_specs
Pending(sweep) == {c \in sweep : ~ Valid(c)}

\* The cells an invocation will go through.
Planned(options, sweep) == IF options.runAll THEN sweep ELSE Pending(sweep)

\* The planned cells of c's mix that come before it.
Earlier(c, cells) == {d \in cells : Mix[d] = Mix[c] /\ Position[d] < Position[c]}

\* Mutant: one cell of every mix too few.
SampledShort(cells) == {c \in cells : Cardinality(Earlier(c, cells)) < SampleCap - 1}

\* Cells whose prompts build_prompt_preflight looks at: the first SampleCap of
\* every mix.
Sampled(cells) == {c \in cells : Cardinality(Earlier(c, cells)) < SampleCap}

\* aggregate raises ValueError; it reads every *.json.
AggregateRaises == Measured = {} \/ \E n \in Names : Mismatched(n)

\* sweep_report exits with 0: no cell of the sweep is missing, and none of the
\* files it looks at, those named like a cell's, is corrupt or mismatched.
ReportClean(sweep) ==
    /\ sweep \subseteq Measured
    /\ \A n \in Cells \cup CellLike : file[n].state # "corrupt" /\ ~ Mismatched(n)

-----------------------------------------------------------------------------
(* The process                                                             *)

\* The process ends; what it held in memory is gone.
Ends(code) ==
    /\ pc' = "idle" /\ job' = NoJob /\ todo' = {} /\ inFlight' = None
    /\ counts' = NoCount
    /\ exit' = code

\* main() returns before any request is sent.
Refuse(options, sweep, code) ==
    /\ pc = "idle"
    /\ \/ code = "no_endpoint" /\ ~ options.endpoint
       \/ /\ code = "overflow" /\ options.endpoint
          /\ Sampled(Planned(options, sweep)) \cap TooLong # {}
          /\ ~ options.allowOverflow
       \/ /\ code = "not_approved" /\ options.endpoint
          /\ Sampled(Planned(options, sweep)) \cap TooLong = {} \/ options.allowOverflow
          /\ Planned(options, sweep) # {} /\ ~ Smoke /\ ~ options.approved
    /\ Ends(code)
    /\ UNCHANGED <<disk, crashes>>

\* The gates of main(): endpoint, context window, spend.
GatesPass(options, sweep) ==
    /\ options.endpoint
    /\ Sampled(Planned(options, sweep)) \cap TooLong = {} \/ options.allowOverflow
    /\ Planned(options, sweep) = {} \/ Smoke \/ options.approved

Launch(options, sweep) ==
    /\ pc = "idle"
    /\ GatesPass(options, sweep)
    /\ pc' = "cell"
    /\ job' = [options |-> options, sweep |-> sweep,
               planned |-> Planned(options, sweep)]
    /\ todo' = Planned(options, sweep)
    /\ exit' = "none"
    /\ UNCHANGED <<disk, inFlight, counts, crashes>>

\* The cell the loop of _run is at.
AtCell(c) ==
    /\ pc = "cell"
    /\ c \in todo
    /\ \A d \in todo : Position[c] <= Position[d]

\* Mutant: a failed cell is skipped and not counted.
SkipFailed(c) ==
    /\ todo' = IF job.options.keepGoing THEN todo \ {c} ELSE {}
    /\ pc' = "cell"
    /\ inFlight' = None
    /\ UNCHANGED counts

\* The rest of the loop after run_cell(c) raised.
CountFailed(c) ==
    /\ counts' = [counts EXCEPT !.failed = @ + 1]
    /\ todo' = IF job.options.keepGoing THEN todo \ {c} ELSE {}
    /\ pc' = "cell"
    /\ inFlight' = None

\* The rest of the loop after run_cell(c) returned a result.
CountCompleted(c, ok) ==
    /\ counts' = [counts EXCEPT !.completed = @ + 1]
    /\ todo' = IF job.options.keepGoing \/ ok THEN todo \ {c} ELSE {}
    /\ pc' = "cell"
    /\ inFlight' = None

\* run_cell finds a file that parses and returns what is in it.
LoadExisting(c) ==
    /\ AtCell(c)
    /\ Parses(c)
    /\ CountCompleted(c, file[c].ok)
    /\ UNCHANGED <<disk, job, exit, crashes>>

MustMeasure(c) == AtCell(c) /\ ~ Parses(c)

\* _execute raises before there is a result.
MeasureFails(c) ==
    /\ MustMeasure(c)
    /\ CountFailed(c)
    /\ UNCHANGED <<disk, job, exit, crashes>>

\* _execute has a result for the sink.
Measure(c, ok) ==
    /\ MustMeasure(c)
    /\ inFlight' = Result(c, ok)
    /\ pc' = "write"
    /\ UNCHANGED <<disk, job, todo, counts, exit, crashes>>

\* JsonCellSink.write: tmp.write_text
WriteTmp ==
    /\ pc = "write"
    /\ tmp' = tmp \cup {inFlight.cell}
    /\ pc' = "replace"
    /\ UNCHANGED <<file, summary, job, todo, inFlight, counts, exit, crashes>>

\* The same, when the disk refuses: part of the file may be left.
WriteTmpFails ==
    /\ pc = "write"
    /\ tmp' \in {tmp, tmp \cup {inFlight.cell}}
    /\ CountFailed(inFlight.cell)
    /\ UNCHANGED <<file, summary, job, exit, crashes>>

\* JsonCellSink.write: tmp.replace(path)
Replace ==
    /\ pc = "replace"
    /\ file' = [file EXCEPT ![inFlight.cell] = inFlight]
    /\ tmp' = tmp \ {inFlight.cell}
    /\ CountCompleted(inFlight.cell, inFlight.ok)
    /\ UNCHANGED <<summary, job, exit, crashes>>

\* _run returns its report.
LoopEnds ==
    /\ pc = "cell" /\ todo = {}
    /\ pc' = "report"
    /\ UNCHANGED <<disk, job, todo, inFlight, counts, exit, crashes>>

\* No summary: nothing completed, or aggregate raised.
NoSummaryWritten ==
    /\ pc = "report"
    /\ \/ counts.completed = 0 /\ Ends("none_completed")
       \/ counts.completed # 0 /\ AggregateRaises /\ Ends("summary_failed")
    /\ UNCHANGED <<disk, crashes>>

\* write_summary, up to its temporary file.
SummaryTmp ==
    /\ pc = "report"
    /\ counts.completed # 0 /\ ~ AggregateRaises
    /\ tmp' = tmp \cup {"summary"}
    /\ pc' = "publish"
    /\ UNCHANGED <<file, summary, job, todo, inFlight, counts, exit, crashes>>

\* Mutant: only the cells of this run's sweep are summarised.
SummaryOfSweep == [c \in Measured \cap job.sweep |-> file[c].ok]

\* What write_summary reports: the cells of the whole directory.
SummaryOf == [c \in Measured |-> file[c].ok]

SummaryReplace ==
    /\ pc = "publish"
    /\ summary' = SummaryOf
    /\ tmp' = tmp \ {"summary"}
    /\ Ends(IF counts.failed = 0 THEN "ok" ELSE "cell_failed")
    /\ UNCHANGED <<file, crashes>>

\* The pod dies.
Crash ==
    /\ pc # "idle"
    /\ crashes < MaxCrashes
    /\ crashes' = crashes + 1
    /\ Ends("crash")
    /\ UNCHANGED disk

Step ==
    \/ \E c \in Cells : LoadExisting(c) \/ MeasureFails(c)
    \/ \E c \in Cells, ok \in BOOLEAN : Measure(c, ok)
    \/ WriteTmp \/ WriteTmpFails \/ Replace
    \/ LoopEnds
    \/ NoSummaryWritten \/ SummaryTmp \/ SummaryReplace

Next ==
    \/ \E options \in Options, sweep \in Sweeps :
          \/ Launch(options, sweep)
          \/ \E code \in ExitCodes : Refuse(options, sweep, code)
    \/ Step
    \/ Crash

Spec == Init /\ [][Next]_vars

-----------------------------------------------------------------------------
(* Safety                                                                  *)

Ledger == INSTANCE SweepLedger WITH
              Cells <- Names,
              ledger <- [n \in Measured |-> file[n].ok],
              published <- summary,
              rerun <- job.options.runAll

\* The sweep is a ledger: no crash, failed write, resume or filtered pass loses,
\* repeats or replaces a result (only an explicit --run-all may replace one), and
\* a summary is what the directory held.
KeepsLedger == Ledger!LedgerSpec

\* A run that exits with 0 leaves no cell of its sweep to run, unless it stopped
\* at a cell that did not reconcile and says so in its JSON.
ZeroExitMeansDone ==
    [][ (exit' = "ok" /\ pc = "publish") =>
          \/ job.sweep \subseteq Measured
          \/ ~ job.options.keepGoing /\ \E c \in job.sweep : Valid(c) /\ ~ file[c].ok ]_vars

\* Nothing is measured that a gate should have kept back, however the sweep was
\* filtered, resumed or re-run: no cell without approval (but for a smoke), and
\* no cell whose prompts overflow the context window unless the operator allowed
\* it.  Only a cell with SampleCap planned cells of its mix before it may be
\* measured unseen: there the preflight stops looking.
MeasuresOnlyCleared ==
    [][ (inFlight' # None /\ inFlight = None) =>
          /\ Smoke \/ job.options.approved
          /\ \/ inFlight'.cell \notin TooLong
             \/ job.options.allowOverflow
             \/ Cardinality(Earlier(inFlight'.cell, job.planned)) >= SampleCap ]_vars

-----------------------------------------------------------------------------
(* Liveness                                                                *)

Resume == \E options \in Options, sweep \in Sweeps :
              /\ ~ options.runAll
              /\ \A other \in Sweeps : other \subseteq sweep
              /\ Launch(options, sweep)

Measures == \E c \in Cells, ok \in BOOLEAN : Measure(c, ok)

\* The process runs, the operator resumes the whole sweep again and again, and
\* neither the server nor the disk fails for ever.
FairSpec ==
    /\ Spec
    /\ WF_vars(Step)
    /\ SF_vars(Resume)
    /\ SF_vars(Measures)
    /\ SF_vars(WriteTmp)
    /\ SF_vars(Replace)

\* Resuming completes the sweep in spite of crashes and failures, unless a
\* renamed file hides a cell.
Completes == (\A c \in Cells : ~ Mismatched(c)) => <>[](Cells \subseteq Measured)

-----------------------------------------------------------------------------
(* What comments and help texts say                                        *)

\* "Run every cell in the matrix, regardless of existing JSON."
RunAllRemeasures ==
    [][ (job.options.runAll /\ counts'.completed > counts.completed) =>
          pc = "replace" ]_vars

\* The report "reuses aggregate so the contract stays consistent": where it finds
\* nothing wrong, aggregate does not raise.
ReportLikeAggregate ==
    \A sweep \in Sweeps \ {{}} : ReportClean(sweep) => ~ AggregateRaises

\* run_matrix "writes a summary.json next to the per-cell JSONs".
SummaryFollows ==
    (Cells \subseteq Measured) ~> (summary # NoSummary /\ Cells \subseteq DOMAIN summary)
=============================================================================
