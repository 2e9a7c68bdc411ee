---------------------------- MODULE PaperLedgerMC ----------------------------
(***************************************************************************)
(* Instances of PaperLedger for TLC: forecasts of one market, by one model *)
(* or by two.                                                              *)
(***************************************************************************)
EXTENDS PaperLedger, TLC

CONSTANTS t1, f1, f2, f3, m1, m2

\* Two forecasts of a market by one model.
OneTicker == f1 :> t1 @@ f2 :> t1
OneModel == f1 :> m1 @@ f2 :> m1

\* A third one by another model.
SameTicker == OneTicker @@ f3 :> t1
TwoModels == OneModel @@ f3 :> m2

\* The settings before anything is configured: one contract an order.
DefaultSizing ==
  [mode |-> "disabled", liveMax |-> 1, globalMax |-> 5, externalCap |-> Unset,
   marginCap |-> Unset, portfolioCap |-> Unset, missingExternalIsOne |-> TRUE,
   riskMode |-> "disabled"]

\* The second stage of the rollout, with one or three contracts an order.
RolloutSizing == [DefaultSizing EXCEPT !.mode = "live", !.liveMax = 3, !.externalCap = 3]
=============================================================================
