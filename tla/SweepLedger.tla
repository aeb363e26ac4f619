---------------------------- MODULE SweepLedger -----------------------------
(***************************************************************************)
(* What a resumable benchmark sweep promises whoever pays for it: a result *)
(* once measured is never lost, whatever crashes in between; it is not     *)
(* measured again unless that was asked for; and what is published is      *)
(* exactly what was measured so far.                                       *)
(***************************************************************************)
CONSTANTS Cells, NoSummary

VARIABLES
    ledger,     \* [measured cells -> did the cell reconcile?]
    published,  \* the ledger as last summarised, or NoSummary
    rerun       \* input: was an explicit re-run of every cell asked for?

ledgerVars == <<ledger, published>>

Ledgers == UNION {[S -> BOOLEAN] : S \in SUBSET Cells}

LedgerInit == ledger \in Ledgers /\ published = NoSummary

Record(c, ok) ==
    /\ c \notin DOMAIN ledger \/ rerun
    /\ ledger' = [d \in DOMAIN ledger \cup {c} |-> IF d = c THEN ok ELSE ledger[d]]
    /\ UNCHANGED published

Publish ==
    /\ DOMAIN ledger # {}
    /\ published' = ledger
    /\ UNCHANGED ledger

LedgerNext ==
    \/ \E c \in Cells, ok \in BOOLEAN : Record(c, ok)
    \/ Publish

LedgerSpec == LedgerInit /\ [][LedgerNext]_ledgerVars
=============================================================================
