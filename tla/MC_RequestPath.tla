--------------------------- MODULE MC_RequestPath ---------------------------
(* Instances of RequestPath for TLC.                                       *)
EXTENDS RequestPath

\* Two requests arrive together, the last one after a pause.
ArrivalMC == [r \in Requests |-> IF r = N THEN 1 ELSE 0]

\* The first request asks for two tokens, the others for one.
MaxTokensMC == [r \in Requests |-> IF r = 1 THEN 2 ELSE 1]

PromptTokensMC == [r \in Requests |-> r]
=============================================================================
