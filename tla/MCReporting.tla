---------------------------- MODULE MCReporting ----------------------------
(***************************************************************************)
(* An experiment and what is reported of experiments, one at a time: a     *)
(* behaviour starts with one of them and the others asleep.                *)
(***************************************************************************)
EXTENDS MCExperiments, Rankings, Bundles

VARIABLE about          \* what this behaviour is about

vars == <<about, expVars, stat, report, ranking, bundleVars>>

\* An experiment that is gone, and no computation that is asked for.
Unread == "nothing"
ExperimentAsleep ==
  /\ exp = [setup |-> Plain, status |-> "deleted", configs |-> {1}, retired |-> {},
            revision |-> 1, spent |-> 0, due |-> FALSE, report |-> [revision |-> 0, rows |-> {}]]
  /\ cell = [c \in Cells |-> NoRow]
  /\ ledger = [c \in Cells |-> {}]
  /\ child = [c \in Cells |-> <<>>]
  /\ box = [c \in Cells |-> "none"]
  /\ tick = [k \in Ticks |-> Idle]
  /\ reading = [on |-> FALSE, revision |-> 0, rows |-> {}]
  /\ requests = 0 /\ faults = 0

BundlesAsleep ==
  /\ matter = "nothing" /\ site = NewSite /\ export = NotBegun /\ cached = NoReport
  /\ clerk = [c \in Clerks |-> Idle2] /\ shelf = <<>>

-----------------------------------------------------------------------------
ReportingInit ==
  /\ about \in {"experiment", "statistics", "reports", "rankings", "bundles"}
  /\ IF about = "experiment" THEN Init ELSE ExperimentAsleep
  /\ IF about = "statistics" THEN StatisticsInit ELSE stat = Unread
  /\ IF about = "reports" THEN ReportsInit ELSE report = Unread
  /\ IF about = "rankings" THEN RankingsInit ELSE ranking = Unread
  /\ IF about = "bundles" THEN BundlesInit ELSE BundlesAsleep

ReportingNext ==
  /\ UNCHANGED <<about, stat, report, ranking>>
  /\ \/ about = "experiment" /\ Next /\ UNCHANGED bundleVars
     \/ about = "bundles" /\ BundlesNext /\ UNCHANGED expVars

ReportingSpec == ReportingInit /\ [][ReportingNext]_vars /\ Fairness

\* What is computed and reported says what the runs, the judges and the people did:
\* the statistics, the experiment's report, the rankings and calibrations, and what
\* is kept of them.
ReportingSound == StatisticsSound /\ ReportsSound /\ RankingsSound /\ BundlesSound
=============================================================================
