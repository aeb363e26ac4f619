----------------------------- MODULE KvCampaign -----------------------------
(***************************************************************************)
(* A KV-scaling campaign (bench/kv_scaling/__main__.py, measure.py,        *)
(* results.py): launches that share one campaign directory, each of which  *)
(* measures the cells of its grid it does not find on disk, fits them and  *)
(* publishes cells.csv, cells.json and summary.json.                       *)
(*                                                                         *)
(* A launch is one process.  It may be killed between any two steps and in *)
(* the middle of a write, every one of which is made in place.  What       *)
(* happens inside a cell is KvSampler's subject: here a cell yields its    *)
(* p50 bytes or raises.                                                    *)
(***************************************************************************)
EXTENDS Integers, Sequences, FiniteSetsExt

CONSTANTS
    Jobs,         \* command lines
    Configs,      \* the model config an engine of each revision ends up with
    Extra,        \* blocks a reading may hold beyond the batch's own
    Overheads,    \* values of F an engine may report
    BlockSize,
    DecodeLive,   \* tokens a request has generated at the decode reading
    Injected,     \* theory_bpt of the dry run
    FakeOverhead, \* fixed_overhead_bytes of the dry run
    Tolerance,    \* of validate_against_theory, in percent
    MinR2,        \* DRY_RUN_MIN_R2, in percent
    Fake,         \* model_revision of a dry run
    Absent,       \* no such file
    Torn,         \* a file whose write was cut short
    Written       \* a file nothing reads, whole

Revisions == DOMAIN Configs

\* The fields of config.json the theory is made of.  kvHeads is 0 when
\* num_key_value_heads is absent; width is the bytes of the dtype.
ConfigRecords ==
    [layers : Nat \ {0}, heads : Nat \ {0}, kvHeads : Nat, hidden : Nat \ {0},
     width : {1, 2, 4}]

\* A key is what read_cell_json compares beside the grid point: n_samples and
\* the model id.
JobRecords ==
    [seqs : Seq(Nat \ {0}), batches : Seq(Nat \ {0}), key : {j.key : j \in Jobs},
     rev : Revisions, dry : BOOLEAN, approved : BOOLEAN]

\* The grid in the order of the two nested loops: sequence lengths outside.
GridOf(j) ==
    [i \in 1 .. Len(j.seqs) * Len(j.batches) |->
        <<j.seqs[((i - 1) \div Len(j.batches)) + 1],
          j.batches[((i - 1) % Len(j.batches)) + 1]>>]

Points == UNION {{GridOf(j)[i] : i \in DOMAIN GridOf(j)} : j \in Jobs}

\* What a cell file holds when it is whole.
Cells == [point : Points, key : {j.key : j \in Jobs} \cup {Fake},
          rev : Revisions \cup {Fake}, bytes : Nat]

ASSUME CampaignAssumption ==
    /\ Jobs \subseteq JobRecords
    /\ \A j \in Jobs : j.seqs # <<>> /\ j.batches # <<>>
    /\ Configs \in [Revisions -> ConfigRecords]
    /\ Extra \subseteq Nat
    /\ Overheads \subseteq Nat \ {0}
    /\ BlockSize \in Nat \ {0} /\ DecodeLive \in Nat
    /\ Injected \in Nat \ {0} /\ FakeOverhead \in Nat \ {0}
    /\ Tolerance \in Nat /\ MinR2 \in Nat
    /\ Fake \notin Revisions
    /\ Cardinality({Absent, Torn, Written}) = 3
    /\ Absent \notin Cells /\ Torn \notin Cells

VARIABLES
    pc,          \* the process: idle, or the next thing it does
    job,         \* command line of the current or last launch
    exit,        \* how the last launch ended
    overhead,    \* F
    cells,       \* the list `cells`
    fresh,       \* the cell measured and not yet written
    campaign,    \* the KvScalingCampaign about to be written
    files,       \* cell_s<seq>_b<batch>.json
    preflight,   \* preflight.json
    csv, json, summary

artifacts == <<csv, json, summary>>
locals == <<overhead, cells, fresh, campaign>>
vars == <<pc, job, exit, overhead, cells, fresh, campaign, files, preflight,
          csv, json, summary>>

NoExit == -1

Init ==
    /\ pc = "idle" /\ exit = NoExit
    /\ job \in Jobs
    /\ overhead = 0 /\ cells = <<>> /\ fresh = Absent /\ campaign = Absent
    /\ files = [p \in Points |-> Absent]
    /\ preflight = Absent
    /\ csv = Absent /\ json = Absent /\ summary = Absent

-----------------------------------------------------------------------------
(* The theory, the regression and its gates                                *)

\* config_from_hf_config raises unless the heads divide the hidden size.
HasTheory(c) == c.hidden % c.heads = 0

\* A config without KV heads is an MHA config.
KvHeads(c) == IF c.kvHeads = 0 THEN c.heads ELSE c.kvHeads

\* kv_bytes_per_token: a key and a value vector per head and layer.
TheoryOf(c) == 2 * c.layers * KvHeads(c) * (c.hidden \div c.heads) * c.width

Theory(j) == TheoryOf(Configs[j.rev])

\* total_tokens: what the requests hold at the decode reading.
Tokens(p) == p[2] * (p[1] + DecodeLive)

Blocks(p) == p[2] * ((p[1] + DecodeLive + BlockSize - 1) \div BlockSize)

\* p50 bytes of a cell, of which half the readings or more hold `extra` blocks
\* beyond the batch's own.
Bytes(p, extra, bpt) == (Blocks(p) + extra) * BlockSize * bpt

\* fit_bytes_per_token: n times the centred sums over the cells, so that all
\* are integers; the slope is sxy / sxx and R^2 is sxy^2 / (sxx * syy).
Fit(cs) ==
    LET n == Len(cs)
        Sum(f(_)) == MapThenSumSet(f, 1 .. n)
        X(i) == Tokens(cs[i].point)
        Y(i) == cs[i].bytes
    IN  [sxx |-> n * Sum(LAMBDA i : X(i) * X(i)) - Sum(X) * Sum(X),
         sxy |-> n * Sum(LAMBDA i : X(i) * Y(i)) - Sum(X) * Sum(Y),
         syy |-> n * Sum(LAMBDA i : Y(i) * Y(i)) - Sum(Y) * Sum(Y)]

\* The fit exists, and the schema of RegressionFit accepts it.
Fits(f) == f.sxx # 0 /\ f.sxy >= 0

\* validate_against_theory.
Explained(f, bpt) ==
    LET off == f.sxy - bpt * f.sxx
    IN  100 * (IF off < 0 THEN - off ELSE off) <= Tolerance * bpt * f.sxx

\* check_dry_run_gate.
DryGate(f, minSeq) ==
    /\ 1000 * f.sxy >= 999 * Injected * f.sxx
    /\ f.sxy * minSeq <= Injected * (minSeq + BlockSize) * f.sxx
    /\ f.syy > 0 /\ 100 * f.sxy * f.sxy >= MinR2 * f.sxx * f.syy

\* find_knee: a KV share of one half or more means at least F bytes.  The
\* first such cell in ascending token order, or none.
Dominated(cs, f) == {i \in DOMAIN cs : cs[i].bytes >= f}

Knee(cs, f) ==
    CHOOSE i \in Dominated(cs, f) : \A k \in Dominated(cs, f) :
        \/ Tokens(cs[i].point) < Tokens(cs[k].point)
        \/ Tokens(cs[i].point) = Tokens(cs[k].point) /\ i <= k

\* KvScalingCampaign.  Its revision is that of the launch, whatever the
\* revision its cells were measured at.
CampaignOf(rev, cs, f) ==
    [rev |-> rev, cells |-> cs, knee |-> cs[Knee(cs, f)].point]

-----------------------------------------------------------------------------
(* Cell files                                                              *)

\* Mutant: any file that parses is taken.
ReadableAny(p, key) == files[p] \notin {Absent, Torn}

\* read_cell_json returns a cell.
Readable(p, key) ==
    /\ files[p] \notin {Absent, Torn}
    /\ files[p].point = p
    /\ files[p].key = key

\* Mutant: the computed fields are written too, and the file is rejected by
\* the schema when it is read.
SavedFully(cell) == Torn

\* write_cell_json.
Saved(cell) == cell

-----------------------------------------------------------------------------
(* The process                                                             *)

\* main() returns or the process is gone; its memory with it.
Exit(code) ==
    /\ pc' = "idle" /\ exit' = code
    /\ overhead' = 0 /\ cells' = <<>> /\ fresh' = Absent /\ campaign' = Absent

Launch(j) ==
    /\ pc = "idle"
    /\ pc' = IF j.dry THEN "dry" ELSE "start"
    /\ job' = j /\ exit' = NoExit
    /\ UNCHANGED <<locals, files, preflight, artifacts>>

\* What the preflight counts: all cells of the grid, those on disk too.
NCells(j) == Len(j.seqs) * Len(j.batches)

\* The preflight is written before anything is refused; then the cost gate and
\* the search for a GPU.
Start(cuda) ==
    /\ pc = "start"
    /\ preflight' = Written
    /\ IF (NCells(job) > 1 /\ ~ job.approved) \/ ~ cuda
       THEN Exit(2)
       ELSE pc' = "load" /\ UNCHANGED <<exit, locals>>
    /\ UNCHANGED <<job, files, artifacts>>

NoGpu == Start(FALSE)

\* The engine is loaded and probed and F is measured.
Load(f) ==
    /\ pc = "load" /\ HasTheory(Configs[job.rev])
    /\ pc' = "cell" /\ overhead' = f
    /\ UNCHANGED <<job, exit, cells, fresh, campaign, files, preflight, artifacts>>

LoadRaises(code) ==
    /\ pc = "load"
    /\ Exit(code)
    /\ UNCHANGED <<job, files, preflight, artifacts>>

\* No readable block pool on the engine: a RuntimeError.
ProbeFails == LoadRaises(2)

\* A config the theory cannot be computed from, an engine that disagrees on the
\* block size or the chunk budget, or an F out of range: a ValueError.
DriverFails == LoadRaises(1)

\* The grid point the loop is at.
At == GridOf(job)[Len(cells) + 1]

Looping == pc = "cell" /\ Len(cells) < Len(GridOf(job))

Reuse ==
    /\ Looping /\ Readable(At, job.key)
    /\ cells' = Append(cells, files[At])
    /\ UNCHANGED <<pc, job, exit, overhead, fresh, campaign, files, preflight, artifacts>>

\* Mutant: the file is looked at after the cell has been measured.
MeasureAlways(extra) ==
    /\ Looping
    /\ fresh' = [point |-> At, key |-> job.key, rev |-> job.rev,
                 bytes |-> Bytes(At, extra, Theory(job))]
    /\ pc' = "save"
    /\ UNCHANGED <<job, exit, overhead, cells, campaign, files, preflight, artifacts>>

Measure(extra) ==
    /\ Looping /\ ~ Readable(At, job.key)
    /\ fresh' = [point |-> At, key |-> job.key, rev |-> job.rev,
                 bytes |-> Bytes(At, extra, Theory(job))]
    /\ pc' = "save"
    /\ UNCHANGED <<job, exit, overhead, cells, campaign, files, preflight, artifacts>>

\* A gate of the sampler or the prompt builder refuses the cell, or the engine
\* fails.
CellRaises(code) ==
    /\ Looping /\ ~ Readable(At, job.key)
    /\ Exit(code)
    /\ UNCHANGED <<job, files, preflight, artifacts>>

SaveCell ==
    /\ pc = "save"
    /\ files' = [files EXCEPT ![fresh.point] = Saved(fresh)]
    /\ cells' = Append(cells, fresh)
    /\ fresh' = Absent /\ pc' = "cell"
    /\ UNCHANGED <<job, exit, overhead, campaign, preflight, artifacts>>

\* The campaign cs may be published; the writes follow.
Publish(rev, cs, f) ==
    /\ pc' = "csv" /\ campaign' = CampaignOf(rev, cs, f)
    /\ UNCHANGED <<exit, overhead, cells, fresh>>

\* _finish_campaign_artifacts: a single cell is not fitted; a campaign the
\* theory cannot explain, or without a knee, is refused.
Finish ==
    /\ pc = "cell" /\ Len(cells) = Len(GridOf(job))
    /\ IF Len(cells) < 2 THEN Exit(0)
       ELSE IF /\ Fits(Fit(cells)) /\ Explained(Fit(cells), Theory(job))
               /\ Dominated(cells, overhead) # {}
       THEN Publish(job.rev, cells, overhead)
       ELSE Exit(1)
    /\ UNCHANGED <<job, files, preflight, artifacts>>

\* run_dry_run_campaign up to its writers.  The fake pool is sized for the
\* grid, so every cell is measured.
DryRun ==
    /\ pc = "dry"
    /\ LET cs == [i \in DOMAIN GridOf(job) |->
                     [point |-> GridOf(job)[i], key |-> Fake, rev |-> Fake,
                      bytes |-> Bytes(GridOf(job)[i], 0, Injected)]]
       IN  IF /\ Len(cs) >= 2 /\ Fits(Fit(cs))
              /\ DryGate(Fit(cs), Min({job.seqs[i] : i \in DOMAIN job.seqs}))
              /\ Dominated(cs, FakeOverhead) # {}
           THEN Publish(Fake, cs, FakeOverhead)
           ELSE Exit(1)
    /\ UNCHANGED <<job, files, preflight, artifacts>>

\* write_campaign writes cells.csv, then cells.json.
WriteCsv ==
    /\ pc = "csv"
    /\ csv' = campaign /\ pc' = "json"
    /\ UNCHANGED <<job, exit, locals, files, preflight, json, summary>>

WriteJson ==
    /\ pc = "json"
    /\ json' = campaign /\ pc' = "summary"
    /\ UNCHANGED <<job, exit, locals, files, preflight, csv, summary>>

\* write_summary_json, and main() returns 0.
WriteSummary ==
    /\ pc = "summary"
    /\ summary' = campaign
    /\ Exit(0)
    /\ UNCHANGED <<job, files, preflight, csv, json>>

\* The file being written may be left torn.
Tears(writing, file) ==
    \/ UNCHANGED file
    \/ pc = writing /\ file' = Torn

TearsCell ==
    \/ UNCHANGED files
    \/ pc = "save" /\ files' = [files EXCEPT ![fresh.point] = Torn]

\* The process is killed, or one of its writes raises: no code but 1 is
\* distinguished.
Dies ==
    /\ pc # "idle"
    /\ Exit(1)
    /\ TearsCell
    /\ Tears("csv", csv) /\ Tears("json", json) /\ Tears("summary", summary)
    /\ Tears("start", preflight)
    /\ UNCHANGED job

Fails ==
    \/ NoGpu \/ ProbeFails \/ DriverFails
    \/ \E code \in {1, 2} : CellRaises(code)
    \/ Dies

Step ==
    \/ Start(TRUE)
    \/ \E f \in Overheads : Load(f)
    \/ Reuse
    \/ \E extra \in Extra : Measure(extra)
    \/ SaveCell \/ Finish \/ DryRun
    \/ WriteCsv \/ WriteJson \/ WriteSummary

SomeLaunch == \E j \in Jobs : Launch(j)

Next == SomeLaunch \/ Step \/ Fails

Spec == Init /\ [][Next]_vars

\* The process runs, and the operator launches again what has ended.
FairSpec == Spec /\ WF_vars(Step) /\ WF_vars(SomeLaunch)

-----------------------------------------------------------------------------
(* Properties                                                              *)

\* Exit code 0 of a GPU launch means that its study is on disk: every cell of
\* its grid is readable with its options, and a grid that has a slope is
\* published in all three files alike, cell by cell as in the cell files.
\* Whatever earlier launches with other grids or options left behind, torn or
\* whole, is repaired or replaced.
ZeroExitMeansPublished ==
    (pc = "idle" /\ exit = 0 /\ ~ job.dry) =>
        LET grid == GridOf(job)
        IN  /\ \A i \in DOMAIN grid :
                  /\ files[grid[i]] \in Cells
                  /\ files[grid[i]].key = job.key
            /\ Len(grid) >= 2 =>
                  /\ csv = json /\ json = summary
                  /\ json.rev = job.rev
                  /\ json.cells = [i \in DOMAIN grid |-> files[grid[i]]]

\* A cell on disk that the running launch can use is never touched: a resumed
\* launch pays only for what is missing, torn or measured with other options.
GoodCellsKept ==
    [][\A p \in Points : files'[p] # files[p] => ~ Readable(p, job'.key)]_vars

\* Resuming converges: when from some point on the same approved launch is
\* repeated and nothing fails any more, every cell of its grid ends up on disk
\* and the GPU is not used again, even if the published gates refuse the fit.
Converges ==
    \A j \in Jobs :
        /\ ~ j.dry /\ (j.approved \/ Len(GridOf(j)) = 1)
        /\ <>[](job = j)
        /\ <>[][~ Fails]_vars
        => <>[](/\ \A i \in DOMAIN GridOf(j) : Readable(GridOf(j)[i], j.key)
                /\ pc # "save")

\* docs/kv_scaling/TRD.md: "The exact model id and HF commit revision go into
\* every campaign JSON" and "if sha moved, record the new value, do not
\* silently float": the revision of cells.json is the one its cells were
\* measured at.
RevisionIsExact ==
    json \notin {Absent, Torn} =>
        \A i \in DOMAIN json.cells : json.cells[i].rev = json.rev
=============================================================================
