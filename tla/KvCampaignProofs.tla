-------------------------- MODULE KvCampaignProofs --------------------------
(***************************************************************************)
(* Proofs about a KV-scaling campaign for any command lines, any grids,    *)
(* any configs and any sequence of launches and crashes.  What the fit     *)
(* computes is left open: the proofs hold whatever the gates decide.       *)
(***************************************************************************)
EXTENDS KvCampaign, TLAPS, FiniteSetTheorems, SequenceTheorems

\* A list of cells is what the cell files hold along the grid of j.
Matches(cs, j) ==
    /\ Len(cs) <= Len(GridOf(j))
    /\ \A i \in DOMAIN cs :
          /\ cs[i] \in Cells /\ cs[i] = files[GridOf(j)[i]]
          /\ cs[i].point = GridOf(j)[i] /\ cs[i].key = j.key

Types ==
    /\ pc \in {"idle", "start", "load", "cell", "save", "dry", "csv", "json", "summary"}
    /\ job \in Jobs
    /\ cells \in Seq(Cells)
    /\ files \in [Points -> Cells \cup {Absent, Torn}]

\* What the process holds at each point.
Progress ==
    /\ pc \in {"start", "load", "cell", "save"} => ~ job.dry
    /\ pc = "dry" => job.dry
    /\ pc \in {"idle", "start", "load"} => cells = <<>>
    /\ pc \in {"cell", "save"} => Matches(cells, job)
    /\ pc = "save" =>
          /\ Len(cells) < Len(GridOf(job))
          /\ fresh \in Cells /\ fresh.point = At /\ fresh.key = job.key
          /\ ~ Readable(At, job.key)

\* What is about to be published, and what has been.
Publishing ==
    /\ pc \in {"csv", "json", "summary"} /\ ~ job.dry =>
          /\ Matches(cells, job) /\ Len(cells) = Len(GridOf(job))
          /\ campaign.cells = cells /\ campaign.rev = job.rev
    /\ pc \in {"json", "summary"} => csv = campaign
    /\ pc = "summary" => json = campaign

CampaignInv == Types /\ Progress /\ Publishing /\ ZeroExitMeansPublished

-----------------------------------------------------------------------------
(* Lemmas                                                                  *)

\* Quotient and remainder of a division by a positive integer.
LEMMA DivisionLaw ==
    ASSUME NEW n \in Int, NEW d \in Int, d > 0
    PROVE  /\ n \div d \in Int /\ n % d \in Int
           /\ n = d * (n \div d) + (n % d)
           /\ 0 <= n % d /\ n % d < d
  BY Z3

\* A positive factor cancels from an inequality.
LEMMA MulCancel ==
    ASSUME NEW a \in Int, NEW b \in Int, NEW d \in Int, d > 0, d * a < d * b
    PROVE  a < b
  BY Z3

\* A quotient of naturals is a natural number.
LEMMA DivNat ==
    ASSUME NEW n \in Nat, NEW d \in Nat \ {0}
    PROVE  n \div d \in Nat
  <1>1. n \div d \in Int /\ n = d * (n \div d) + (n % d) /\ n % d < d /\ n % d \in Int
    BY DivisionLaw
  <1> DEFINE q == n \div d
  <1>2. d * (-1) < d * q
    <2>1. d * q \in Int /\ d * (-1) = -d  BY <1>1
    <2>2. QED  BY <1>1, <2>1
  <1>3. -1 < q
    BY <1>1, <1>2, MulCancel
  <1>4. QED  BY <1>1, <1>3

\* A product of naturals is a natural number.
LEMMA MulNat ==
    ASSUME NEW a \in Nat, NEW b \in Nat
    PROVE  a * b \in Nat
  BY Z3

\* Intervals with equal bounds are equal.
LEMMA SameInterval ==
    ASSUME NEW a \in Nat, NEW b \in Nat, 1 .. a = 1 .. b
    PROVE  a = b
  <1>1. a > 0 => a \in 1 .. b
    <2>1. a > 0 => a \in 1 .. a  OBVIOUS
    <2>2. QED  BY <2>1
  <1>2. b > 0 => b \in 1 .. a
    <2>1. b > 0 => b \in 1 .. b  OBVIOUS
    <2>2. QED  BY <2>1
  <1>3. QED  BY <1>1, <1>2

\* What a command line holds.
LEMMA JobType ==
    ASSUME NEW j \in Jobs
    PROVE  /\ j.seqs \in Seq(Nat \ {0}) /\ j.batches \in Seq(Nat \ {0})
           /\ Len(j.seqs) \in Nat /\ Len(j.batches) \in Nat \ {0}
           /\ j.rev \in Revisions /\ j.key \in {k.key : k \in Jobs}
           /\ j.dry \in BOOLEAN
  <1>1. j \in JobRecords /\ j.seqs # <<>> /\ j.batches # <<>>
    BY CampaignAssumption
  <1>2. /\ j.seqs \in Seq(Nat \ {0}) /\ j.batches \in Seq(Nat \ {0})
        /\ j.rev \in Revisions /\ j.key \in {k.key : k \in Jobs} /\ j.dry \in BOOLEAN
    BY <1>1 DEF JobRecords
  <1>3. Len(j.seqs) \in Nat /\ Len(j.batches) \in Nat /\ Len(j.batches) # 0
    BY <1>1, <1>2
  <1>4. QED  BY <1>2, <1>3

\* The two nested loops stay inside the lists.
LEMMA GridType ==
    ASSUME NEW j \in Jobs
    PROVE  /\ DOMAIN GridOf(j) = 1 .. Len(GridOf(j)) /\ Len(GridOf(j)) \in Nat
           /\ Len(GridOf(j)) = NCells(j)
           /\ \A i \in DOMAIN GridOf(j) :
                 GridOf(j)[i] \in Points /\ GridOf(j)[i] \in Nat \X Nat
  <1> DEFINE S == Len(j.seqs)
             B == Len(j.batches)
             G == GridOf(j)
  <1>1. /\ j.seqs \in Seq(Nat \ {0}) /\ j.batches \in Seq(Nat \ {0})
        /\ S \in Nat /\ B \in Nat \ {0}
    BY JobType
  <1>2. G = [i \in 1 .. S * B |-> <<j.seqs[((i - 1) \div B) + 1],
                                    j.batches[((i - 1) % B) + 1]>>]
    BY DEF GridOf
  <1>3. \A i \in DOMAIN G : G[i] \in Points
    BY DEF Points
  <1> HIDE DEF S, B, G
  <1>4. S * B \in Nat
    BY <1>1, MulNat
  <1>5. ASSUME NEW i \in 1 .. S * B
        PROVE  G[i] \in Nat \X Nat
    <2> DEFINE q == (i - 1) \div B
               m == (i - 1) % B
    <2>0. i - 1 \in Nat /\ i - 1 < S * B
      BY <1>4
    <2>1. /\ q \in Int /\ m \in Int /\ i - 1 = B * q + m /\ 0 <= m /\ m < B
      BY <1>1, <2>0, DivisionLaw
    <2>2. q \in Nat
      BY <1>1, <2>0, DivNat
    <2>3. G[i] = <<j.seqs[q + 1], j.batches[m + 1]>>
      BY <1>2
    <2> HIDE DEF q, m
    <2>4. q < S
      <3>1. B * q \in Int /\ B * S \in Int /\ B * S = S * B
        BY <1>1, <2>1
      <3>2. B * q < B * S
        BY <2>0, <2>1, <3>1
      <3>3. QED  BY <1>1, <2>1, <3>2, MulCancel
    <2>5. q + 1 \in 1 .. S /\ m + 1 \in 1 .. B
      BY <1>1, <2>1, <2>2, <2>4
    <2>6. j.seqs[q + 1] \in Nat /\ j.batches[m + 1] \in Nat
      BY <1>1, <2>5 DEF S, B
    <2>7. QED  BY <2>3, <2>6
  <1>6. DOMAIN G = 1 .. S * B
    BY <1>2
  <1>7. Len(G) = S * B
    <2> DEFINE n == S * B
    <2>1. G \in [1 .. n -> Nat \X Nat]
      BY <1>2, <1>5
    <2> HIDE DEF n
    <2>2. n \in Nat  BY <1>4 DEF n
    <2>3. G \in Seq(Nat \X Nat)
      BY <2>1, <2>2, SeqDef
    <2>4. Len(G) \in Nat /\ DOMAIN G = 1 .. Len(G) /\ DOMAIN G = 1 .. n
      BY <2>1, <2>3, LenProperties
    <2>5. Len(G) = n
      BY <2>2, <2>4, SameInterval
    <2>6. QED  BY <2>5 DEF n
  <1>8. QED  BY <1>3, <1>4, <1>5, <1>6, <1>7 DEF NCells, G, S, B

\* What a sampled cell holds.
LEMMA MeasuredCell ==
    ASSUME NEW j \in Jobs, NEW p \in Points, p \in Nat \X Nat, NEW extra \in Extra
    PROVE  [point |-> p, key |-> j.key, rev |-> j.rev,
            bytes |-> Bytes(p, extra, Theory(j))] \in Cells
  <1>1. /\ BlockSize \in Nat \ {0} /\ DecodeLive \in Nat /\ extra \in Nat
        /\ p[1] \in Nat /\ p[2] \in Nat
    BY CampaignAssumption
  <1>2. Blocks(p) \in Nat
    <2> DEFINE n == p[1] + DecodeLive + BlockSize - 1
    <2>1. n \in Nat  BY <1>1
    <2>2. n \div BlockSize \in Nat
      <3> HIDE DEF n
      <3>1. QED  BY <1>1, <2>1, DivNat
    <2>3. p[2] * (n \div BlockSize) \in Nat
      <3> HIDE DEF n
      <3>1. QED  BY <1>1, <2>2, MulNat
    <2>4. QED  BY <2>3 DEF Blocks
  <1>3. Theory(j) \in Nat
    <2> DEFINE c == Configs[j.rev]
    <2>1. c \in ConfigRecords
      BY JobType, CampaignAssumption
    <2>2. /\ c.layers \in Nat /\ c.heads \in Nat \ {0} /\ c.kvHeads \in Nat
          /\ c.hidden \in Nat /\ c.width \in Nat
      BY <2>1 DEF ConfigRecords
    <2> HIDE DEF c
    <2>3. KvHeads(c) \in Nat  BY <2>2 DEF KvHeads
    <2>4. c.hidden \div c.heads \in Nat  BY <2>2, DivNat
    <2>5. 2 * c.layers \in Nat  BY <2>2
    <2>6. 2 * c.layers * KvHeads(c) \in Nat  BY <2>3, <2>5, MulNat
    <2>7. 2 * c.layers * KvHeads(c) * (c.hidden \div c.heads) \in Nat
      BY <2>4, <2>6, MulNat
    <2>8. TheoryOf(c) \in Nat
      BY <2>2, <2>7, MulNat DEF TheoryOf
    <2>9. QED  BY <2>8 DEF Theory, c
  <1>4. Bytes(p, extra, Theory(j)) \in Nat
    <2>1. Blocks(p) + extra \in Nat  BY <1>1, <1>2
    <2>2. (Blocks(p) + extra) * BlockSize \in Nat  BY <1>1, <2>1, MulNat
    <2>3. (Blocks(p) + extra) * BlockSize * Theory(j) \in Nat
      BY <1>3, <2>2, MulNat
    <2>4. QED  BY <2>3 DEF Bytes
  <1>5. j.key \in {k.key : k \in Jobs} /\ j.rev \in Revisions
    BY JobType
  <1>6. QED  BY <1>4, <1>5 DEF Cells

\* The point the loop is at.
LEMMA AtType ==
    ASSUME Types, Len(cells) < Len(GridOf(job))
    PROVE  /\ Len(cells) \in Nat /\ Len(cells) + 1 \in DOMAIN GridOf(job)
           /\ At \in Points /\ At \in Nat \X Nat
  <1>1. job \in Jobs /\ Len(cells) \in Nat
    BY DEF Types
  <1>2. Len(cells) + 1 \in DOMAIN GridOf(job)
    BY <1>1, GridType
  <1>3. QED  BY <1>1, <1>2, GridType DEF At

\* A list extended by the cell that the file of the next point holds.
LEMMA MatchesAppend ==
    ASSUME Types, Matches(cells, job), Len(cells) < Len(GridOf(job)),
           NEW c \in Cells, c.point = At, c.key = job.key,
           cells' = Append(cells, c), job' = job, files'[At] = c,
           \A i \in DOMAIN cells : files'[GridOf(job)[i]] = files[GridOf(job)[i]]
    PROVE  cells' \in Seq(Cells) /\ Matches(cells, job)'
  <1>1. cells \in Seq(Cells) /\ Len(cells) \in Nat /\ DOMAIN cells = 1 .. Len(cells)
    BY DEF Types
  <1>2. /\ cells' \in Seq(Cells) /\ Len(cells') = Len(cells) + 1
        /\ DOMAIN cells' = 1 .. (Len(cells) + 1)
        /\ \A i \in 1 .. Len(cells) : cells'[i] = cells[i]
        /\ cells'[Len(cells) + 1] = c
    BY <1>1
  <1>3. job \in Jobs /\ Len(GridOf(job)) \in Nat
    BY GridType DEF Types
  <1>4. ASSUME NEW i \in DOMAIN cells'
        PROVE  /\ cells'[i] \in Cells /\ cells'[i] = files'[GridOf(job)[i]]
               /\ cells'[i].point = GridOf(job)[i] /\ cells'[i].key = job.key
    <2>1. CASE i = Len(cells) + 1
      BY <1>2, <2>1 DEF At
    <2>2. CASE i \in 1 .. Len(cells)
      BY <1>1, <1>2, <2>2 DEF Matches
    <2>3. QED  BY <1>1, <1>2, <2>1, <2>2
  <1>5. Len(cells') <= Len(GridOf(job))
    BY <1>1, <1>2, <1>3
  <1>6. GridOf(job)' = GridOf(job)
    BY DEF GridOf
  <1>7. Matches(cells, job)'
    BY <1>4, <1>5, <1>6 DEF Matches
  <1>8. QED  BY <1>2, <1>7

\* A list of readable cells is the campaign that ZeroExitMeansPublished speaks of.
LEMMA WholeGrid ==
    ASSUME Types, Matches(cells, job), Len(cells) = Len(GridOf(job))
    PROVE  /\ \A i \in DOMAIN GridOf(job) :
                 /\ files[GridOf(job)[i]] \in Cells
                 /\ files[GridOf(job)[i]].key = job.key
           /\ cells = [i \in DOMAIN GridOf(job) |-> files[GridOf(job)[i]]]
  <1>1. cells \in Seq(Cells) /\ DOMAIN cells = 1 .. Len(cells)
    BY DEF Types
  <1>2. DOMAIN GridOf(job) = DOMAIN cells
    BY <1>1, GridType DEF Types
  <1>3. cells = [i \in DOMAIN cells |-> cells[i]]
    BY <1>1
  <1>4. \A i \in DOMAIN cells : cells[i] = files[GridOf(job)[i]]
    BY DEF Matches
  <1>5. QED  BY <1>2, <1>3, <1>4 DEF Matches

\* The process ends with a code other than 0, leaving any files behind.
LEMMA ExitKeeps ==
    ASSUME CampaignInv, NEW code, code # 0, Exit(code), job' = job,
           files' \in [Points -> Cells \cup {Absent, Torn}]
    PROVE  CampaignInv'
  BY DEF CampaignInv, Exit, Types, Progress, Publishing, ZeroExitMeansPublished

\* The cell about to be written replaces nothing that this launch could use.
LEMMA SaveIsSafe ==
    ASSUME CampaignInv, pc = "save"
    PROVE  /\ fresh \in Cells /\ fresh.point = At /\ fresh.key = job.key
           /\ At \in Points /\ Len(cells) < Len(GridOf(job))
           /\ ~ Readable(At, job.key)
           /\ \A i \in DOMAIN cells : GridOf(job)[i] # At
  <1>1. /\ fresh \in Cells /\ fresh.point = At /\ fresh.key = job.key
        /\ Len(cells) < Len(GridOf(job)) /\ ~ Readable(At, job.key)
        /\ Matches(cells, job) /\ Types
    BY DEF CampaignInv, Progress
  <1>2. At \in Points
    BY <1>1, AtType
  <1>3. ASSUME NEW i \in DOMAIN cells, GridOf(job)[i] = At PROVE FALSE
    <2>1. /\ files[At] \in Cells /\ files[At].point = At /\ files[At].key = job.key
      BY <1>1, <1>3 DEF Matches
    <2>2. QED  BY <1>1, <2>1, CampaignAssumption DEF Readable
  <1>4. QED  BY <1>1, <1>2, <1>3

\* The part of a step that matters while the files are as they were.
LEMMA SameMatches ==
    ASSUME Matches(cells, job), cells' = cells, job' = job, files' = files
    PROVE  Matches(cells, job)'
  BY DEF Matches, GridOf

\* A new launch keeps the invariant, whatever lies in the directory.
LEMMA LaunchKeeps ==
    ASSUME CampaignInv, SomeLaunch
    PROVE  CampaignInv'
  <1>1. PICK j \in Jobs : Launch(j)
    BY DEF SomeLaunch
  <1>2. /\ pc = "idle" /\ pc' = (IF j.dry THEN "dry" ELSE "start") /\ job' = j
        /\ cells' = cells /\ files' = files
    BY <1>1 DEF Launch, locals
  <1>3. cells = <<>> /\ j.dry \in BOOLEAN
    BY <1>2, JobType DEF CampaignInv, Progress
  <1>4. QED
    BY <1>2, <1>3
    DEF CampaignInv, Types, Progress, Publishing, ZeroExitMeansPublished

\* A step of the process keeps the invariant.
LEMMA StepKeeps ==
    ASSUME CampaignInv, Step
    PROVE  CampaignInv'
  <1> USE DEF CampaignInv
  <1>0. Types /\ job \in Jobs /\ files \in [Points -> Cells \cup {Absent, Torn}]
    BY DEF Types
  <1>1. CASE Start(TRUE)
    <2>1. CASE Exit(2)
      BY <1>0, <1>1, <2>1, ExitKeeps DEF Start
    <2>2. CASE pc' = "load" /\ UNCHANGED <<exit, locals>>
      BY <1>1, <2>2
      DEF Start, locals, artifacts, Types, Progress, Publishing, ZeroExitMeansPublished
    <2>3. QED  BY <1>1, <2>1, <2>2 DEF Start
  <1>2. ASSUME NEW f \in Overheads, Load(f) PROVE CampaignInv'
    <2>1. /\ pc = "load" /\ pc' = "cell" /\ job' = job /\ cells' = cells /\ files' = files
      BY <1>2 DEF Load
    <2>2. cells = <<>> /\ ~ job.dry
      BY <2>1 DEF Progress
    <2>3. Matches(cells, job)
      <3>1. Len(GridOf(job)) \in Nat  BY <1>0, GridType
      <3>2. QED  BY <2>2, <3>1 DEF Matches
    <2>4. Matches(cells, job)'
      BY <2>1, <2>3, SameMatches
    <2>5. QED
      BY <2>1, <2>2, <2>4 DEF Types, Progress, Publishing, ZeroExitMeansPublished
  <1>3. CASE Reuse
    <2>1. /\ pc = "cell" /\ Len(cells) < Len(GridOf(job)) /\ Readable(At, job.key)
          /\ cells' = Append(cells, files[At])
          /\ pc' = pc /\ job' = job /\ files' = files
      BY <1>3 DEF Reuse, Looping
    <2>2. Matches(cells, job) /\ ~ job.dry
      BY <2>1 DEF Progress
    <2>3. At \in Points
      BY <1>0, <2>1, AtType
    <2>4. files[At] \in Cells /\ files[At].point = At /\ files[At].key = job.key
      BY <1>0, <2>1, <2>3 DEF Readable
    <2>5. cells' \in Seq(Cells) /\ Matches(cells, job)'
      BY <1>0, <2>1, <2>2, <2>4, MatchesAppend
    <2>6. QED
      BY <2>1, <2>2, <2>5 DEF Types, Progress, Publishing, ZeroExitMeansPublished
  <1>4. ASSUME NEW extra \in Extra, Measure(extra) PROVE CampaignInv'
    <2> DEFINE c == [point |-> At, key |-> job.key, rev |-> job.rev,
                     bytes |-> Bytes(At, extra, Theory(job))]
    <2>1. /\ pc = "cell" /\ Len(cells) < Len(GridOf(job)) /\ ~ Readable(At, job.key)
          /\ fresh' = c /\ pc' = "save"
          /\ cells' = cells /\ job' = job /\ files' = files
      BY <1>4 DEF Measure, Looping
    <2>2. At \in Points /\ At \in Nat \X Nat
      BY <1>0, <2>1, AtType
    <2>3. c \in Cells /\ c.point = At /\ c.key = job.key
      BY <1>0, <2>2, MeasuredCell
    <2> HIDE DEF c
    <2>4. Matches(cells, job)' /\ ~ job.dry
      BY <2>1, SameMatches DEF Progress
    <2>5. At' = At /\ GridOf(job)' = GridOf(job)
      BY <2>1 DEF At, GridOf
    <2>6. ~ Readable(At, job.key)'
      BY <2>1, <2>5 DEF Readable
    <2>7. Progress'
      BY <2>1, <2>3, <2>4, <2>5, <2>6 DEF Progress
    <2>8. QED
      BY <2>1, <2>7 DEF Types, Publishing, ZeroExitMeansPublished
  <1>5. CASE SaveCell
    <2>1. /\ pc = "save" /\ files' = [files EXCEPT ![At] = fresh]
          /\ cells' = Append(cells, fresh) /\ pc' = "cell" /\ job' = job
      BY <1>5, SaveIsSafe DEF SaveCell, Saved
    <2>2. Matches(cells, job) /\ ~ job.dry
      BY <2>1 DEF Progress
    <2>3. /\ files' \in [Points -> Cells \cup {Absent, Torn}] /\ files'[At] = fresh
      BY <1>0, <2>1, SaveIsSafe
    <2>4. \A i \in DOMAIN cells : files'[GridOf(job)[i]] = files[GridOf(job)[i]]
      <3> SUFFICES ASSUME NEW i \in DOMAIN cells
                   PROVE  files'[GridOf(job)[i]] = files[GridOf(job)[i]]
        OBVIOUS
      <3>1. i \in DOMAIN GridOf(job)
        <4>1. DOMAIN cells = 1 .. Len(cells) /\ Len(cells) \in Nat
          BY <1>0 DEF Types
        <4>2. QED  BY <1>0, <2>2, <4>1, GridType DEF Matches
      <3>2. GridOf(job)[i] \in Points
        BY <1>0, <3>1, GridType
      <3>3. QED  BY <1>0, <2>1, <3>2, SaveIsSafe
    <2>5. cells' \in Seq(Cells) /\ Matches(cells, job)'
      BY <1>0, <2>1, <2>2, <2>3, <2>4, SaveIsSafe, MatchesAppend
    <2>6. QED
      BY <2>1, <2>2, <2>3, <2>5 DEF Types, Progress, Publishing, ZeroExitMeansPublished
  <1>6. ASSUME NEW rev, NEW cs, NEW f, Publish(rev, cs, f), job' = job, files' = files,
               ~ job.dry => /\ Matches(cells, job) /\ Len(cells) = Len(GridOf(job))
                            /\ rev = job.rev /\ cs = cells
        PROVE  CampaignInv'
    <2>1. pc' = "csv" /\ campaign' = CampaignOf(rev, cs, f) /\ cells' = cells
      BY <1>6 DEF Publish
    <2>2. CampaignOf(rev, cs, f).rev = rev /\ CampaignOf(rev, cs, f).cells = cs
      BY DEF CampaignOf
    <2>3. ~ job.dry => Matches(cells, job)'
      BY <1>6, <2>1, SameMatches
    <2>4. GridOf(job)' = GridOf(job)
      BY <1>6 DEF GridOf
    <2>5. QED
      BY <1>6, <2>1, <2>2, <2>3, <2>4
      DEF Types, Progress, Publishing, ZeroExitMeansPublished
  <1>7. CASE Finish
    <2>1. /\ pc = "cell" /\ Len(cells) = Len(GridOf(job)) /\ job' = job
          /\ files' = files
      BY <1>7 DEF Finish
    <2>2. Matches(cells, job) /\ ~ job.dry
      BY <2>1 DEF Progress
    <2>3. CASE Len(cells) < 2
      <3>1. Exit(0)
        BY <1>7, <2>3 DEF Finish
      <3>2. \A i \in DOMAIN GridOf(job) :
               /\ files[GridOf(job)[i]] \in Cells
               /\ files[GridOf(job)[i]].key = job.key
        BY <1>0, <2>1, <2>2, WholeGrid
      <3>3. Len(GridOf(job)) \in Nat /\ ~ (Len(GridOf(job)) >= 2)
        BY <1>0, <2>1, <2>3, GridType
      <3>4. GridOf(job)' = GridOf(job)
        BY <2>1 DEF GridOf
      <3>5. ZeroExitMeansPublished'
        BY <2>1, <3>2, <3>3, <3>4 DEF ZeroExitMeansPublished
      <3>6. QED
        BY <2>1, <3>1, <3>5 DEF Exit, Types, Progress, Publishing
    <2>4. CASE Publish(job.rev, cells, overhead)
      BY <1>6, <2>1, <2>2, <2>4
    <2>5. CASE Exit(1)
      BY <1>0, <2>1, <2>5, ExitKeeps
    <2>6. QED  BY <1>7, <2>3, <2>4, <2>5 DEF Finish
  <1>8. CASE DryRun
    <2>1. pc = "dry" /\ job' = job /\ files' = files
      BY <1>8 DEF DryRun
    <2>2. job.dry \in BOOLEAN
      BY <1>0, JobType
    <2>3. ASSUME NEW cs, Publish(Fake, cs, FakeOverhead) PROVE CampaignInv'
      BY <1>6, <2>1, <2>3 DEF Progress
    <2>4. CASE Exit(1)
      BY <1>0, <2>1, <2>4, ExitKeeps
    <2>5. QED  BY <1>8, <2>3, <2>4 DEF DryRun
  <1>9. CASE WriteCsv \/ WriteJson
    <2>1. /\ job' = job /\ cells' = cells /\ files' = files /\ campaign' = campaign
          /\ \/ pc = "csv" /\ pc' = "json" /\ csv' = campaign /\ json' = json
             \/ pc = "json" /\ pc' = "summary" /\ csv' = csv /\ json' = campaign
      BY <1>9 DEF WriteCsv, WriteJson, locals
    <2>2. GridOf(job)' = GridOf(job)
      BY <2>1 DEF GridOf
    <2>3. ~ job.dry => Matches(cells, job)'
      BY <2>1, SameMatches DEF Publishing
    <2>4. QED
      BY <2>1, <2>2, <2>3 DEF Types, Progress, Publishing, ZeroExitMeansPublished
  <1>10. CASE WriteSummary
    <2>1. /\ pc = "summary" /\ summary' = campaign /\ Exit(0) /\ job' = job
          /\ files' = files /\ csv' = csv /\ json' = json
      BY <1>10 DEF WriteSummary
    <2>2. csv = campaign /\ json = campaign
      BY <2>1 DEF Publishing
    <2>3. GridOf(job)' = GridOf(job)
      BY <2>1 DEF GridOf
    <2>4. ASSUME ~ job.dry
          PROVE  /\ \A i \in DOMAIN GridOf(job) :
                       /\ files[GridOf(job)[i]] \in Cells
                       /\ files[GridOf(job)[i]].key = job.key
                 /\ campaign.rev = job.rev
                 /\ campaign.cells = [i \in DOMAIN GridOf(job) |-> files[GridOf(job)[i]]]
      BY <1>0, <2>1, <2>4, WholeGrid DEF Publishing
    <2>5. ZeroExitMeansPublished'
      BY <2>1, <2>2, <2>3, <2>4 DEF ZeroExitMeansPublished
    <2>6. QED
      BY <2>1, <2>5 DEF Exit, Types, Progress, Publishing
  <1>11. QED
    BY <1>1, <1>2, <1>3, <1>4, <1>5, <1>7, <1>8, <1>9, <1>10 DEF Step

\* A failure or a death in mid-write keeps the invariant.
LEMMA FailureKeeps ==
    ASSUME CampaignInv, Fails
    PROVE  CampaignInv'
  <1>0. Types /\ files \in [Points -> Cells \cup {Absent, Torn}]
    BY DEF CampaignInv, Types
  <1>1. CASE NoGpu
    BY <1>0, <1>1, ExitKeeps DEF NoGpu, Start
  <1>2. CASE ProbeFails \/ DriverFails
    BY <1>0, <1>2, ExitKeeps DEF ProbeFails, DriverFails, LoadRaises
  <1>3. ASSUME NEW code \in {1, 2}, CellRaises(code) PROVE CampaignInv'
    BY <1>0, <1>3, ExitKeeps DEF CellRaises
  <1>4. CASE Dies
    <2>1. Exit(1) /\ job' = job /\ TearsCell
      BY <1>4 DEF Dies
    <2>2. files' \in [Points -> Cells \cup {Absent, Torn}]
      BY <1>0, <2>1 DEF TearsCell
    <2>3. QED  BY <2>1, <2>2, ExitKeeps
  <1>5. QED  BY <1>1, <1>2, <1>3, <1>4 DEF Fails

-----------------------------------------------------------------------------
(* Theorems                                                                *)

\* The invariant of the campaign holds throughout.
LEMMA InvariantHolds == Spec => []CampaignInv
  <1>1. Init => CampaignInv
    BY DEF Init, CampaignInv, Types, Progress, Publishing, ZeroExitMeansPublished, NoExit
  <1>2. CampaignInv /\ [Next]_vars => CampaignInv'
    <2> SUFFICES ASSUME CampaignInv, [Next]_vars PROVE CampaignInv'
      OBVIOUS
    <2>1. CASE UNCHANGED vars
      <3>1. GridOf(job)' = GridOf(job) /\ At' = At
            /\ Readable(At, job.key)' = Readable(At, job.key)
        BY <2>1 DEF vars, GridOf, At, Readable
      <3>2. Matches(cells, job)' = Matches(cells, job)
        BY <2>1, <3>1 DEF vars, Matches
      <3>3. Types' /\ Progress' /\ Publishing'
        BY <2>1, <3>1, <3>2 DEF vars, CampaignInv, Types, Progress, Publishing
      <3>4. ZeroExitMeansPublished'
        BY <2>1, <3>1 DEF vars, CampaignInv, ZeroExitMeansPublished
      <3>5. QED  BY <3>3, <3>4 DEF CampaignInv
    <2>2. QED
      BY <2>1, LaunchKeeps, StepKeeps, FailureKeeps DEF Next
  <1>3. QED  BY <1>1, <1>2, PTL DEF Spec

\* Exit code 0 of a GPU launch means that its study is on disk, for any grids
\* and options, after any history of launches and crashes.
THEOREM ExitZeroMeansPublished == Spec => []ZeroExitMeansPublished
  BY InvariantHolds, PTL DEF CampaignInv

\* No step, not even a crash in the middle of a write, touches a cell file that
\* the running launch could use.
THEOREM ResumeKeepsGoodCells == Spec => GoodCellsKept
  <1>1. CampaignInv /\ [Next]_vars =>
           [\A p \in Points : files'[p] # files[p] => ~ Readable(p, job'.key)]_vars
    <2> SUFFICES ASSUME CampaignInv, [Next]_vars,
                        NEW p \in Points, files'[p] # files[p]
                 PROVE  ~ Readable(p, job'.key)
      OBVIOUS
    <2>1. /\ pc = "save" /\ job' = job
          /\ \E c : files' = [files EXCEPT ![fresh.point] = c]
      <3>1. CASE SaveCell \/ Dies
        BY <3>1 DEF SaveCell, Dies, TearsCell
      <3>2. CASE ~ (SaveCell \/ Dies)
        BY <3>2 DEF vars, Next, SomeLaunch, Launch, Step, Start, Load, Reuse, Measure,
                    Finish, DryRun, WriteCsv, WriteJson, WriteSummary, Fails, NoGpu,
                    ProbeFails, DriverFails, LoadRaises, CellRaises
      <3>3. QED  BY <3>1, <3>2
    <2>2. files \in [Points -> Cells \cup {Absent, Torn}]
      BY DEF CampaignInv, Types
    <2>3. p = At
      BY <2>1, <2>2, SaveIsSafe
    <2>4. QED  BY <2>1, <2>3, SaveIsSafe
  <1>2. QED  BY <1>1, InvariantHolds, PTL DEF Spec, GoodCellsKept
=============================================================================
