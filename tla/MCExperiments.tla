---------------------------- MODULE MCExperiments ----------------------------
EXTENDS Experiments

\* Plain and prepared cases over one shared database, with a budget.
Shared == [cases |-> {1, 2}, external |-> {2}, checked |-> {2}, lanes |-> 0, parallel |-> 2,
           budget |-> 2, initial |-> 1, requests |-> 2, faults |-> 1]

\* Two configurations, of prepared cases over one shared database.
Serialised == [Shared EXCEPT !.cases = {2}, !.initial = 2, !.checked = {}, !.faults = 0]

\* Prepared cases in two lanes, judged by a model.
Laned == [cases |-> {2}, external |-> {2}, checked |-> {}, lanes |-> 2, parallel |-> 2,
          budget |-> 0, initial |-> 2, requests |-> 1, faults |-> 0]

\* Plain cases only, two at a time.
Plain == [cases |-> {1}, external |-> {}, checked |-> {}, lanes |-> 0, parallel |-> 2,
          budget |-> 1, initial |-> 2, requests |-> 2, faults |-> 1]

AllSetups == {Shared, Serialised, Laned, Plain}
PlainOnly == {Plain}
=============================================================================
