----------------------------- MODULE SweepProofs ----------------------------
(***************************************************************************)
(* Proofs about the matrix sweep for every set of cells, every filter and  *)
(* command line, every initial directory and any number of crashes.        *)
(***************************************************************************)
EXTENDS MatrixSweep, TLAPS, FiniteSetTheorems

\* A process that holds a result is about to write it, over a file that does not
\* parse, and a process that is about to publish has something to publish.
Writing ==
    /\ pc \in {"write", "replace"} =>
          inFlight \in Results /\ inFlight.cell \in Cells /\ ~ Parses(inFlight.cell)
    /\ pc \notin {"write", "replace"} => inFlight = None
    /\ pc = "publish" => Measured # {}

IInv == TypeOK /\ Writing

\* The parts of the state that only some of the actions touch.
LEMMA Constants ==
    /\ NoJob \in [options : CommandLines, sweep : SUBSET Cells, planned : SUBSET Cells]
    /\ NoCount \in [completed : Nat, failed : Nat]
    /\ Absent \in Files /\ Corrupt \in Files /\ Results \subseteq Files
    /\ None \notin Results
    /\ \A r \in Results : r.state = "result" /\ r.cell \in Names /\ r.ok \in BOOLEAN
    /\ \A c \in Cells, ok \in BOOLEAN :
          Result(c, ok) \in Results /\ Result(c, ok).cell = c /\ Result(c, ok).ok = ok
  BY DEF NoJob, NoCount, CommandLines, Absent, Corrupt, Files, Results, None, Result, Names

\* A run plans only cells of its sweep.
LEMMA PlannedWithin ==
    ASSUME NEW options, NEW sweep
    PROVE  Planned(options, sweep) \subseteq sweep
  BY DEF Planned, Pending

\* What a file that parses holds.
LEMMA ParsedFile ==
    ASSUME file \in [Names -> Files], NEW c \in Names, Parses(c)
    PROVE  file[c] \in Results /\ file[c].ok \in BOOLEAN
  BY Constants DEF Parses, Files, Absent, Corrupt

\* Summaries are functions from sets of cells.
LEMMA SummaryType ==
    ASSUME file \in [Names -> Files]
    PROVE  SummaryOf \in UNION {[S -> BOOLEAN] : S \in SUBSET Names}
  <1>1. Measured \subseteq Names
    BY DEF Measured
  <1>2. \A c \in Measured : file[c].ok \in BOOLEAN
    BY ParsedFile DEF Measured, Valid
  <1>3. SummaryOf \in [Measured -> BOOLEAN]
    BY <1>2 DEF SummaryOf
  <1>4. QED  BY <1>1, <1>3

\* A step that leaves the directory's JSONs alone leaves the scans of them alone.
LEMMA SameFiles ==
    ASSUME file' = file
    PROVE  /\ \A c : Parses(c)' = Parses(c) /\ Valid(c)' = Valid(c)
           /\ Measured' = Measured
  BY DEF Parses, Valid, Measured

\* The invariant holds at the start.
LEMMA InitIInv == Init => IInv
  <1> SUFFICES ASSUME Init PROVE IInv
    OBVIOUS
  <1>1. TypeOK
    BY SweepAssumption, Constants DEF Init, TypeOK, NoJob
  <1>2. Writing
    BY DEF Init, Writing
  <1>3. QED  BY <1>1, <1>2 DEF IInv

\* Ending or dying leaves no trace of the process.
LEMMA EndsIInv ==
    ASSUME IInv, NEW code \in ExitCodes \cup {"crash"}, Ends(code),
           file' = file, tmp' = tmp, summary' = summary, crashes' \in 0 .. MaxCrashes
    PROVE  IInv'
  <1>2. TypeOK'
    BY Constants DEF IInv, TypeOK, Ends, NoJob
  <1>3. Writing'
    BY DEF Writing, Ends
  <1>4. QED  BY <1>2, <1>3 DEF IInv

\* CountFailed and CountCompleted leave the loop at its next cell.
LEMMA CountType ==
    ASSUME TypeOK, NEW c,
           CountFailed(c) \/ \E ok \in BOOLEAN : CountCompleted(c, ok)
    PROVE  /\ counts' \in [completed : Nat, failed : Nat]
           /\ todo' \subseteq job.planned
           /\ pc' = "cell" /\ inFlight' = None
  <1>1. counts.completed \in Nat /\ counts.failed \in Nat
    BY DEF TypeOK
  <1>2. counts' \in [completed : Nat, failed : Nat]
    BY <1>1 DEF TypeOK, CountFailed, CountCompleted
  <1>3. todo' \subseteq job.planned /\ pc' = "cell" /\ inFlight' = None
    BY DEF TypeOK, CountFailed, CountCompleted
  <1>4. QED  BY <1>2, <1>3

\* IInv is inductive.
LEMMA NextIInv == IInv /\ [Next]_vars => IInv'
  <1> SUFFICES ASSUME IInv, [Next]_vars PROVE IInv'
    OBVIOUS
  <1> USE DEF disk
  <1>1. ASSUME NEW options \in Options, NEW sweep \in Sweeps, Launch(options, sweep)
        PROVE  IInv'
    <2> DEFINE P == Planned(options, sweep)
    <2>0. /\ job' = [options |-> options, sweep |-> sweep, planned |-> P] /\ todo' = P
      BY <1>1 DEF Launch
    <2>1a. P \subseteq sweep /\ sweep \in SUBSET Cells /\ options \in CommandLines
      BY PlannedWithin, SweepAssumption
    <2> HIDE DEF P
    <2>1. job' \in [options : CommandLines, sweep : SUBSET Cells, planned : SUBSET Cells]
      BY <2>0, <2>1a
    <2>2. todo' \subseteq job'.planned /\ job'.planned \subseteq job'.sweep
      BY <2>0, <2>1a
    <2>3. TypeOK'
      BY <1>1, <2>1, <2>2 DEF Launch, IInv, TypeOK
    <2>4. Writing'
      BY <1>1 DEF Launch, IInv, Writing
    <2>5. QED  BY <2>3, <2>4 DEF IInv
  <1>2. ASSUME NEW options \in Options, NEW sweep \in Sweeps, NEW code \in ExitCodes,
               Refuse(options, sweep, code)
        PROVE  IInv'
    <2>1. Ends(code) /\ file' = file /\ tmp' = tmp /\ summary' = summary
      BY <1>2 DEF Refuse
    <2>2. crashes' \in 0 .. MaxCrashes
      BY <1>2 DEF Refuse, IInv, TypeOK
    <2>3. QED  BY <2>1, <2>2, EndsIInv
  <1>3. ASSUME NEW c \in Cells, LoadExisting(c)
        PROVE  IInv'
    <2>1. file[c].ok \in BOOLEAN
      BY <1>3, ParsedFile DEF LoadExisting, IInv, TypeOK, Names
    <2>2. /\ counts' \in [completed : Nat, failed : Nat] /\ todo' \subseteq job.planned
          /\ pc' = "cell" /\ inFlight' = None
      BY <1>3, <2>1, CountType DEF LoadExisting, IInv
    <2>3. TypeOK' /\ Writing'
      BY <1>3, <2>2 DEF LoadExisting, IInv, TypeOK, Writing
    <2>4. QED  BY <2>3 DEF IInv
  <1>4. ASSUME NEW c \in Cells, MeasureFails(c)
        PROVE  IInv'
    <2>2. /\ counts' \in [completed : Nat, failed : Nat] /\ todo' \subseteq job.planned
          /\ pc' = "cell" /\ inFlight' = None
      BY <1>4, CountType DEF MeasureFails, IInv
    <2>3. TypeOK' /\ Writing'
      BY <1>4, <2>2 DEF MeasureFails, IInv, TypeOK, Writing
    <2>4. QED  BY <2>3 DEF IInv
  <1>5. ASSUME NEW c \in Cells, NEW ok \in BOOLEAN, Measure(c, ok)
        PROVE  IInv'
    <2>1. /\ inFlight' \in Results /\ inFlight'.cell = c /\ pc' = "write"
          /\ ~ Parses(c) /\ file' = file
      BY <1>5, Constants DEF Measure, MustMeasure, Names
    <2>2. TypeOK'
      BY <1>5, <2>1 DEF Measure, IInv, TypeOK
    <2>3. Writing'
      BY <2>1 DEF Writing, Parses
    <2>4. QED  BY <2>2, <2>3 DEF IInv
  <1>6. CASE WriteTmp
    <2>1. inFlight.cell \in Cells
      BY <1>6, Constants DEF WriteTmp, IInv, Writing
    <2>2. TypeOK'
      BY <1>6, <2>1 DEF WriteTmp, IInv, TypeOK
    <2>3. Writing'
      BY <1>6 DEF WriteTmp, IInv, Writing, Parses
    <2>4. QED  BY <2>2, <2>3 DEF IInv
  <1>7. CASE WriteTmpFails
    <2>1. inFlight.cell \in Cells
      BY <1>7, Constants DEF WriteTmpFails, IInv, Writing
    <2>2. /\ counts' \in [completed : Nat, failed : Nat] /\ todo' \subseteq job.planned
          /\ pc' = "cell" /\ inFlight' = None
      BY <1>7, CountType DEF WriteTmpFails, IInv
    <2>3. TypeOK' /\ Writing'
      BY <1>7, <2>1, <2>2 DEF WriteTmpFails, IInv, TypeOK, Writing
    <2>4. QED  BY <2>3 DEF IInv
  <1>8. CASE Replace
    <2>1. /\ inFlight \in Results /\ inFlight.cell \in Cells /\ inFlight.ok \in BOOLEAN
          /\ ~ Parses(inFlight.cell)
      BY <1>8, Constants DEF Replace, IInv, Writing
    <2>2. /\ counts' \in [completed : Nat, failed : Nat] /\ todo' \subseteq job.planned
          /\ pc' = "cell" /\ inFlight' = None
      BY <1>8, <2>1, CountType DEF Replace, IInv
    <2>3. file' \in [Names -> Files]
      BY <1>8, <2>1, Constants DEF Replace, IInv, TypeOK
    <2>4. TypeOK' /\ Writing'
      BY <1>8, <2>2, <2>3 DEF Replace, IInv, TypeOK, Writing
    <2>5. QED  BY <2>4 DEF IInv
  <1>9. CASE LoopEnds
    <2>1. TypeOK' /\ Writing'
      BY <1>9 DEF LoopEnds, IInv, TypeOK, Writing
    <2>2. QED  BY <2>1 DEF IInv
  <1>10. CASE NoSummaryWritten
    <2>1. /\ Ends("none_completed") \/ Ends("summary_failed")
          /\ file' = file /\ tmp' = tmp /\ summary' = summary
      BY <1>10 DEF NoSummaryWritten
    <2>2. crashes' \in 0 .. MaxCrashes
      BY <1>10 DEF NoSummaryWritten, IInv, TypeOK
    <2>3. "none_completed" \in ExitCodes /\ "summary_failed" \in ExitCodes
      BY DEF ExitCodes
    <2>4. QED  BY <2>1, <2>2, <2>3, EndsIInv
  <1>11. CASE SummaryTmp
    <2>1. TypeOK'
      BY <1>11 DEF SummaryTmp, IInv, TypeOK
    <2>2. Writing'
      BY <1>11, SameFiles DEF SummaryTmp, AggregateRaises, IInv, Writing
    <2>3. QED  BY <2>1, <2>2 DEF IInv
  <1>12. CASE SummaryReplace
    <2>1. /\ file' = file /\ summary' = SummaryOf /\ crashes' = crashes
          /\ tmp' = tmp \ {"summary"}
      BY <1>12 DEF SummaryReplace
    <2>2. /\ pc' = "idle" /\ job' = NoJob /\ todo' = {} /\ inFlight' = None
          /\ counts' = NoCount /\ exit' \in ExitCodes
      BY <1>12 DEF SummaryReplace, Ends, ExitCodes
    <2>3. summary' \in UNION {[S -> BOOLEAN] : S \in SUBSET Names}
      BY <2>1, SummaryType DEF IInv, TypeOK
    <2>4. TypeOK'
      BY <2>1, <2>2, <2>3, Constants DEF IInv, TypeOK, NoJob
    <2>5. Writing'
      BY <2>2 DEF Writing
    <2>6. QED  BY <2>4, <2>5 DEF IInv
  <1>13. CASE Crash
    <2>1. crashes' \in 0 .. MaxCrashes
      BY <1>13, SweepAssumption DEF Crash, IInv, TypeOK
    <2>2. QED  BY <1>13, <2>1, EndsIInv DEF Crash
  <1>14. CASE UNCHANGED vars
    BY <1>14 DEF vars, IInv, TypeOK, Writing, Measured, Valid, Parses
  <1>15. QED
    BY <1>1, <1>2, <1>3, <1>4, <1>5, <1>6, <1>7, <1>8, <1>9, <1>10, <1>11, <1>12, <1>13,
       <1>14 DEF Next, Step

\* The strengthened invariant holds in every reachable state.
LEMMA SpecIInv == Spec => []IInv
  BY InitIInv, NextIInv, PTL DEF Spec

-----------------------------------------------------------------------------
(* Theorems                                                                *)

\* Every reachable state of the sweep and its directory is well typed.
THEOREM TypeCorrect == Spec => []TypeOK
  <1>1. IInv => TypeOK
    BY DEF IInv
  <1>2. QED  BY <1>1, SpecIInv, PTL

\* Writing a result records it in the ledger; no other file changes.
LEMMA ReplaceRecords ==
    ASSUME IInv, Replace
    PROVE  LET c == inFlight.cell IN
           /\ c \in Names /\ c \notin Measured /\ inFlight.ok \in BOOLEAN
           /\ Measured' = Measured \cup {c}
           /\ file'[c].ok = inFlight.ok
           /\ \A d \in Measured : file'[d] = file[d]
  <1>1. /\ inFlight \in Results /\ inFlight.cell \in Names /\ inFlight.ok \in BOOLEAN
        /\ ~ Parses(inFlight.cell) /\ inFlight.state = "result"
    BY Constants DEF Replace, IInv, Writing
  <1>2. file \in [Names -> Files]
    BY DEF IInv, TypeOK
  <1>3. \A d \in Names : file'[d] = IF d = inFlight.cell THEN inFlight ELSE file[d]
    BY <1>1, <1>2 DEF Replace
  <1>4. inFlight.cell \notin Measured
    BY <1>1 DEF Measured, Valid
  <1>5. \A d \in Measured : d \in Names /\ d # inFlight.cell
    BY <1>4 DEF Measured
  <1>6. \A d \in Names : Valid(d)' <=> d = inFlight.cell \/ Valid(d)
    BY <1>1, <1>3 DEF Valid, Parses
  <1>7. Measured' = Measured \cup {inFlight.cell}
    BY <1>1, <1>6 DEF Measured
  <1>8. QED  BY <1>1, <1>3, <1>4, <1>5, <1>7

\* The sweep implements its ledger: whatever crashes, fails, is resumed or
\* filtered, no result is lost, repeated or replaced, and every summary is the
\* ledger at the time.
THEOREM SweepKeepsLedger == Spec => KeepsLedger
  <1> DEFINE L == [c \in Measured |-> file[c].ok]
  <1>1. Init => Ledger!LedgerInit
    <2> SUFFICES ASSUME Init PROVE Ledger!LedgerInit
      OBVIOUS
    <2>1. file \in [Names -> Files]
      BY SweepAssumption DEF Init
    <2>2. L \in UNION {[S -> BOOLEAN] : S \in SUBSET Names}
      BY <2>1, SummaryType DEF SummaryOf
    <2>3. QED  BY <2>2 DEF Init, Ledger!LedgerInit, Ledger!Ledgers
  <1>2. ASSUME IInv, [Next]_vars PROVE [Ledger!LedgerNext]_(Ledger!ledgerVars)
    <2> USE <1>2
    <2>1. ASSUME file' = file, summary' = summary
          PROVE  UNCHANGED Ledger!ledgerVars
      BY <2>1 DEF Ledger!ledgerVars, Measured, Valid, Parses
    <2>2. CASE Replace
      <3>1. PICK c \in Names, ok \in BOOLEAN : c = inFlight.cell /\ ok = inFlight.ok
        BY <2>2, ReplaceRecords
      <3>2. /\ c \notin Measured /\ Measured' = Measured \cup {c} /\ file'[c].ok = ok
            /\ \A d \in Measured : file'[d] = file[d]
        BY <2>2, <3>1, ReplaceRecords
      <3>3. summary' = summary
        BY <2>2 DEF Replace
      <3>4. L' = [d \in Measured \cup {c} |-> IF d = c THEN ok ELSE file[d].ok]
        BY <3>2
      <3>5. DOMAIN L = Measured /\ \A d \in Measured : L[d] = file[d].ok
        OBVIOUS
      <3>6. Ledger!Record(c, ok)
        BY <3>2, <3>3, <3>4, <3>5 DEF Ledger!Record
      <3>7. QED  BY <3>6 DEF Ledger!LedgerNext
    <2>3. CASE SummaryReplace
      <3>1. file' = file /\ summary' = L /\ Measured # {}
        BY <2>3 DEF SummaryReplace, SummaryOf, IInv, Writing
      <3>2. L' = L
        BY <3>1 DEF Measured, Valid, Parses
      <3>3. Ledger!Publish
        BY <3>1, <3>2 DEF Ledger!Publish
      <3>4. QED  BY <3>3 DEF Ledger!LedgerNext
    <2>4. CASE UNCHANGED vars
      BY <2>1, <2>4 DEF vars
    <2>5. CASE Next /\ ~ Replace /\ ~ SummaryReplace
      <3>1. file' = file /\ summary' = summary
        BY <2>5 DEF Next, Step, Launch, Refuse, Crash, LoadExisting, MeasureFails, Measure,
           WriteTmp, WriteTmpFails, LoopEnds, NoSummaryWritten, SummaryTmp, disk
      <3>2. QED  BY <2>1, <3>1
    <2>6. QED  BY <2>2, <2>3, <2>4, <2>5
  <1>3. QED
    BY <1>1, <1>2, SpecIInv, PTL DEF Spec, KeepsLedger, Ledger!LedgerSpec

-----------------------------------------------------------------------------
(* What the loop has done and what it may still do                         *)

\* Every cell still to come has passed the gates.
Cleared ==
    /\ todo # {} => Smoke \/ job.options.approved
    /\ \A c \in todo : \/ c \notin TooLong \/ job.options.allowOverflow
                        \/ Cardinality(Earlier(c, job.planned)) >= SampleCap

\* As long as no cell has failed, the cells behind the loop have a result, or
\* the loop has stopped at one that did not reconcile.
Covered ==
    counts.failed = 0 =>
        \/ \A c \in job.sweep \ todo : Parses(c)
        \/ ~ job.options.keepGoing /\ \E c \in job.sweep : Parses(c) /\ ~ file[c].ok

LoopInv ==
    pc # "idle" =>
        /\ Cleared /\ Covered
        /\ pc \in {"write", "replace"} => inFlight.cell \in todo
        /\ pc \in {"report", "publish"} => todo = {}
        /\ pc = "publish" => \A n \in Names : ~ Mismatched(n)

\* A cell the sample leaves out has SampleCap planned cells of its mix before it.
LEMMA SampleMisses ==
    ASSUME NEW cells \in SUBSET Cells, NEW c \in cells, c \notin Sampled(cells)
    PROVE  Cardinality(Earlier(c, cells)) >= SampleCap
  <1>1. Earlier(c, cells) \in SUBSET Cells /\ IsFiniteSet(Cells) /\ SampleCap \in Nat
    BY SweepAssumption DEF Earlier
  <1>2. Cardinality(Earlier(c, cells)) \in Nat
    BY <1>1, FS_Subset, FS_CardinalityType
  <1>3. ~ (Cardinality(Earlier(c, cells)) < SampleCap)
    BY DEF Sampled
  <1>4. QED  BY <1>1, <1>2, <1>3

\* The gates of main() clear every planned cell.
LEMMA LaunchClears ==
    ASSUME TypeOK, NEW options \in Options, NEW sweep \in Sweeps, Launch(options, sweep)
    PROVE  Cleared'
  <1> DEFINE P == Planned(options, sweep)
  <1>1. /\ GatesPass(options, sweep) /\ todo' = P
        /\ job' = [options |-> options, sweep |-> sweep, planned |-> P]
    BY DEF Launch
  <1>2. job'.options = options /\ job'.planned = P
    BY <1>1
  <1>3. P \in SUBSET Cells
    BY PlannedWithin, SweepAssumption
  <1> HIDE DEF P
  <1>4. ASSUME NEW c \in P
        PROVE  \/ c \notin TooLong \/ options.allowOverflow
               \/ Cardinality(Earlier(c, P)) >= SampleCap
    <2>1. CASE c \in Sampled(P)
      BY <1>1, <2>1 DEF GatesPass, P
    <2>2. CASE c \notin Sampled(P)
      BY <1>3, <2>2, SampleMisses
    <2>3. QED  BY <2>1, <2>2
  <1>5. P # {} => Smoke \/ options.approved
    BY <1>1 DEF GatesPass, P
  <1>6. \A c : Earlier(c, job.planned)' = Earlier(c, job'.planned)
    BY DEF Earlier
  <1>7. QED  BY <1>1, <1>2, <1>4, <1>5, <1>6 DEF Cleared

\* The loop goes on or stops after the cell c.
LEMMA LoopGoesOn ==
    ASSUME IInv, LoopInv, pc # "idle", NEW c \in todo, job' = job,
           todo' \in {todo \ {c}, {}}, pc' = "cell",
           Covered'
    PROVE  LoopInv'
  BY DEF LoopInv, Cleared, Earlier

\* Every step keeps the loop's invariant.
LEMMA NextLoopInv == IInv /\ LoopInv /\ [Next]_vars => LoopInv'
  <1> SUFFICES ASSUME IInv, LoopInv, [Next]_vars PROVE LoopInv'
    OBVIOUS
  <1>0. /\ file \in [Names -> Files]
        /\ todo \subseteq job.sweep /\ job.sweep \subseteq Cells /\ job.sweep \subseteq Names
        /\ counts \in [completed : Nat, failed : Nat]
        /\ job.options.keepGoing \in BOOLEAN
    BY DEF IInv, TypeOK, CommandLines, Names
  <1>1. CASE pc' = "idle"
    BY <1>1 DEF LoopInv
  <1>2. ASSUME NEW options \in Options, NEW sweep \in Sweeps, Launch(options, sweep)
        PROVE  LoopInv'
    <2>1. Cleared'
      BY <1>2, LaunchClears DEF IInv
    <2>2. job'.sweep = sweep /\ todo' = Planned(options, sweep) /\ file' = file /\ pc' = "cell"
      BY <1>2 DEF Launch, disk
    <2>3. \A c \in sweep \ Planned(options, sweep) : Parses(c)
      BY DEF Planned, Pending, Valid
    <2>4. Covered'
      BY <2>2, <2>3 DEF Covered, Parses
    <2>5. QED  BY <2>1, <2>2, <2>4 DEF LoopInv
  <1>3. ASSUME NEW c \in Cells, LoadExisting(c)
        PROVE  LoopInv'
    <2>1. /\ pc = "cell" /\ c \in todo /\ Parses(c) /\ file' = file /\ job' = job
          /\ pc' = "cell"
          /\ todo' = (IF job.options.keepGoing \/ file[c].ok THEN todo \ {c} ELSE {})
          /\ counts' = [counts EXCEPT !.completed = @ + 1]
      BY <1>3 DEF LoadExisting, AtCell, CountCompleted, disk
    <2>2. counts'.failed = counts.failed
      BY <1>0, <2>1
    <2>3. Covered
      BY <2>1 DEF LoopInv
    <2>4. Covered'
      BY <1>0, <2>1, <2>2, <2>3 DEF Covered, Parses
    <2>5. QED  BY <2>1, <2>4, LoopGoesOn
  <1>4. ASSUME NEW c \in todo, pc # "idle", CountFailed(c), job' = job
        PROVE  LoopInv'
    <2>1. counts'.failed = counts.failed + 1 /\ counts.failed \in Nat
      BY <1>0, <1>4 DEF CountFailed
    <2>2. Covered'
      BY <2>1 DEF Covered
    <2>3. QED  BY <1>4, <2>2, LoopGoesOn DEF CountFailed
  <1>5. ASSUME NEW c \in Cells, MeasureFails(c) PROVE LoopInv'
    BY <1>4, <1>5 DEF MeasureFails, MustMeasure, AtCell
  <1>6. ASSUME NEW c \in Cells, NEW ok \in BOOLEAN, Measure(c, ok) PROVE LoopInv'
    <2>1. /\ pc = "cell" /\ pc' = "write" /\ c \in todo /\ inFlight' = Result(c, ok)
          /\ UNCHANGED <<disk, job, todo, counts>>
      BY <1>6 DEF Measure, MustMeasure, AtCell
    <2>2. inFlight'.cell = c
      BY <2>1, Constants
    <2>3. QED
      BY <2>1, <2>2 DEF LoopInv, Cleared, Covered, Parses, Earlier, disk
  <1>7. CASE WriteTmp
    BY <1>7 DEF WriteTmp, LoopInv, Cleared, Covered, Parses, Earlier
  <1>8. CASE WriteTmpFails
    <2>1. pc = "write" /\ inFlight.cell \in todo
      BY <1>8 DEF WriteTmpFails, LoopInv
    <2>2. QED  BY <1>4, <1>8, <2>1 DEF WriteTmpFails
  <1>9. CASE Replace
    <2> DEFINE c == inFlight.cell
    <2>1. /\ pc = "replace" /\ c \in todo /\ job' = job /\ pc' = "cell"
          /\ todo' = (IF job.options.keepGoing \/ inFlight.ok THEN todo \ {c} ELSE {})
          /\ counts' = [counts EXCEPT !.completed = @ + 1]
          /\ file' = [file EXCEPT ![c] = inFlight]
      BY <1>9 DEF Replace, CountCompleted, LoopInv
    <2>2. inFlight \in Results /\ ~ Parses(c) /\ inFlight.state = "result"
      BY <2>1, Constants DEF IInv, Writing
    <2>3. counts'.failed = counts.failed
      BY <1>0, <2>1
    <2>4. Covered
      BY <2>1 DEF LoopInv
    <2>5. \A d \in Names : file'[d] = IF d = c THEN inFlight ELSE file[d]
      BY <1>0, <2>1
    <2>6. Covered'
      BY <1>0, <2>1, <2>2, <2>3, <2>4, <2>5 DEF Covered, Parses
    <2>7. QED  BY <2>1, <2>6, LoopGoesOn
  <1>10. CASE LoopEnds
    BY <1>10 DEF LoopEnds, LoopInv, Cleared, Covered, Parses, Earlier, disk
  <1>11. CASE SummaryTmp
    BY <1>11 DEF SummaryTmp, AggregateRaises, LoopInv, Cleared, Covered, Parses,
                 Mismatched, Earlier
  <1>12. CASE UNCHANGED vars
    BY <1>12 DEF vars, LoopInv, Cleared, Covered, Parses, Mismatched, Earlier
  <1>13. ASSUME NoSummaryWritten \/ SummaryReplace \/ Crash PROVE pc' = "idle"
    BY <1>13 DEF NoSummaryWritten, SummaryReplace, Crash, Ends
  <1>14. ASSUME NEW options \in Options, NEW sweep \in Sweeps, NEW code \in ExitCodes,
                Refuse(options, sweep, code)
         PROVE  pc' = "idle"
    BY <1>14 DEF Refuse, Ends
  <1>15. QED
    BY <1>1, <1>2, <1>3, <1>5, <1>6, <1>7, <1>8, <1>9, <1>10, <1>11, <1>12, <1>13,
       <1>14 DEF Next, Step

\* The loop's invariant holds throughout.
LEMMA SpecLoopInv == Spec => []LoopInv
  <1>1. Init => LoopInv
    BY DEF Init, LoopInv
  <1>2. QED  BY <1>1, NextLoopInv, SpecIInv, PTL DEF Spec

\* Exit code 0 means that nothing of the sweep is left, or that the loop has
\* stopped at a result that did not reconcile, after any failures and crashes.
THEOREM ExitZeroMeansDone == Spec => ZeroExitMeansDone
  <1> DEFINE Done == (exit' = "ok" /\ pc = "publish") =>
                        \/ job.sweep \subseteq Measured
                        \/ /\ ~ job.options.keepGoing
                           /\ \E c \in job.sweep : Valid(c) /\ ~ file[c].ok
  <1>1. ASSUME IInv, LoopInv, [Next]_vars PROVE [Done]_vars
    <2> SUFFICES ASSUME exit' = "ok", pc = "publish", Next
                 PROVE  \/ job.sweep \subseteq Measured
                        \/ /\ ~ job.options.keepGoing
                           /\ \E c \in job.sweep : Valid(c) /\ ~ file[c].ok
      BY <1>1
    <2>1. SummaryReplace
      BY DEF Next, Launch, Refuse, Crash, Ends, Step, LoadExisting, MeasureFails, Measure,
             MustMeasure, AtCell, WriteTmp, WriteTmpFails, Replace, LoopEnds,
             NoSummaryWritten, SummaryTmp
    <2>2. counts.failed = 0
      BY <2>1 DEF SummaryReplace, Ends
    <2>3. /\ todo = {} /\ Covered /\ \A n \in Names : ~ Mismatched(n)
      BY <1>1 DEF LoopInv
    <2>4. job.sweep \subseteq Names
      BY <1>1 DEF IInv, TypeOK, Names
    <2>5. \A c \in Names : Parses(c) => Valid(c)
      BY <2>3 DEF Mismatched, Valid
    <2>6. QED  BY <2>2, <2>3, <2>4, <2>5 DEF Covered, Measured
  <1>2. QED
    BY <1>1, SpecIInv, SpecLoopInv, PTL DEF Spec, ZeroExitMeansDone

\* A measurement has passed the gates of main(), whatever was filtered, resumed
\* or re-run since, for any matrix and any sample of it.
THEOREM GatesGuardMeasurements == Spec => MeasuresOnlyCleared
  <1> DEFINE May == /\ Smoke \/ job.options.approved
                    /\ \/ inFlight'.cell \notin TooLong
                       \/ job.options.allowOverflow
                       \/ Cardinality(Earlier(inFlight'.cell, job.planned)) >= SampleCap
  <1>1. ASSUME IInv, LoopInv, [Next]_vars
        PROVE  [(inFlight' # None /\ inFlight = None) => May]_vars
    <2>1. ASSUME NEW c \in Cells, NEW ok \in BOOLEAN, Measure(c, ok)
          PROVE  May
      <3>1. pc = "cell" /\ c \in todo /\ inFlight'.cell = c
        BY <2>1, Constants DEF Measure, MustMeasure, AtCell
      <3>2. Cleared
        BY <1>1, <3>1 DEF LoopInv
      <3>3. QED  BY <3>1, <3>2 DEF Cleared, Earlier
    <2>2. CASE \E c \in Cells, ok \in BOOLEAN : Measure(c, ok)
      BY <2>1, <2>2
    <2>3. CASE ~ \E c \in Cells, ok \in BOOLEAN : Measure(c, ok)
      <3>1. inFlight' = inFlight \/ inFlight' = None
        BY <1>1, <2>3
        DEF vars, Next, Launch, Refuse, Crash, Step, LoadExisting, MeasureFails,
            CountCompleted, CountFailed, WriteTmp, WriteTmpFails, Replace, LoopEnds,
            NoSummaryWritten, SummaryTmp, SummaryReplace, Ends
      <3>2. QED  BY <3>1
    <2>4. QED  BY <2>2, <2>3
  <1>2. QED
    BY <1>1, SpecIInv, SpecLoopInv, PTL DEF Spec, MeasuresOnlyCleared

=============================================================================
