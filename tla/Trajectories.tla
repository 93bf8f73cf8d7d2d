---------------------------- MODULE Trajectories ----------------------------
(***************************************************************************)
(* What is computed of a cleaned trace without asking a model: repetition  *)
(* (trace_loops.py), agreement with a canonical trajectory                 *)
(* (trajectory_match.py), and the text a judge is given when the trace     *)
(* does not fit its budget (trajectory.py, trace_evidence.py).             *)
(***************************************************************************)
EXTENDS Naturals, Sequences, FiniteSets, SequencesExt, FiniteSetsExt, Functions

CONSTANTS Tools,           \* names of tools
          MaxActions,      \* bound: actions of a trace in which loops are sought
          StepSizes,       \* sizes of the contents of steps
          MaxSteps,        \* bound: steps of a trace that is fitted
          Budgets          \* budgets of a judge; 0 is none

VARIABLE reading           \* what is computed in this behaviour

-----------------------------------------------------------------------------
(* trace_loops.py                                                          *)

Unrecorded == "unrecorded"

MinRepeatRun == 3
MinCycleRepeats == 3
CyclePeriods == 2..5
MaxCyclesKept == 5

\* _action_key: arguments nobody recorded are like no others.
ActionKey(steps, i) ==
  <<steps[i].attempt, steps[i].tool,
    IF steps[i].args = Unrecorded THEN <<"at", i>> ELSE <<"args", steps[i].args>>>>

LongestRun(keys) ==
  Max({0} \cup {j - i + 1 : <<i, j>> \in {p \in (DOMAIN keys) \X (DOMAIN keys) :
                                            \A k \in p[1]..p[2] : keys[k] = keys[p[1]] /\ p[1] <= p[2]}})

\* How often the block of that period at start follows itself.
Repeats(seq, start, period) ==
  Max({r \in 1..Len(seq) : /\ start + r * period - 1 <= Len(seq)
                           /\ \A k \in 0..(r * period - 1) : seq[start + k] = seq[start + (k % period)]})

\* _tandem_cycles: every period at every start; a block of one tool is no cycle.
CycleCandidates(seq) ==
  {[start |-> c[1], period |-> c[2], repeats |-> Repeats(seq, c[1], c[2])] :
     c \in {p \in (DOMAIN seq) \X CyclePeriods :
              /\ p[1] + 2 * p[2] - 1 <= Len(seq)
              /\ Cardinality({seq[k] : k \in p[1]..(p[1] + p[2] - 1)}) > 1
              /\ Repeats(seq, p[1], p[2]) >= 2}}

Span(c) == c.start..(c.start + c.period * c.repeats - 1)

\* For display: the longest first, none that overlaps one already shown.
Cycles(seq) ==
  LET Before(c, d) ==
        \/ Cardinality(Span(c)) > Cardinality(Span(d))
        \/ /\ Cardinality(Span(c)) = Cardinality(Span(d))
           /\ \/ c.start < d.start
              \/ c.start = d.start /\ c.period < d.period
  IN FoldLeft(LAMBDA shown, c :
                IF \/ Len(shown) >= MaxCyclesKept
                   \/ \E k \in DOMAIN shown : Span(shown[k]) \cap Span(c) # {}
                  THEN shown ELSE Append(shown, c),
              <<>>, SetToSortSeq(CycleCandidates(seq), Before))

MaxCycleRepeats(seq) == Max({0} \cup {c.repeats : c \in CycleCandidates(seq)})

MutSegments(steps) == {[i \in DOMAIN steps |-> steps[i].tool]}

\* A sequence that spans a retry is two sequences.
Segments(steps) ==
  {LET mine == SelectSeq(steps, LAMBDA s : s.attempt = a) IN [i \in DOMAIN mine |-> mine[i].tool] :
     a \in {steps[i].attempt : i \in DOMAIN steps}}

\* detect_loops, its score in tenths (_loop_score).
DetectLoops(steps) ==
  LET keys == [i \in DOMAIN steps |-> ActionKey(steps, i)]
      run == LongestRun(keys)
      toolRun == Max({0} \cup {LongestRun(s) : s \in Segments(steps)})
      cycle == Max({0} \cup {MaxCycleRepeats(s) : s \in Segments(steps)})
      Above(n, free, each) == IF n > free THEN (n - free) * each ELSE 0
      penalty == Min({100, Max({Above(run, 1, 20), Above(cycle, 1, 25), Above(toolRun, 3, 10)})})
  IN [actions |-> Len(steps), run |-> run, toolRun |-> toolRun, cycle |-> cycle,
      repeated |-> Cardinality({i \in DOMAIN keys : \E j \in 1..(i - 1) : keys[j] = keys[i]}),
      detected |-> run >= MinRepeatRun \/ cycle >= MinCycleRepeats,
      score |-> 100 - penalty]

-----------------------------------------------------------------------------
(* trajectory_match.py.  Nodes are 1..n, an edge is a pair of nodes; the   *)
(* edges are listed in the order of their nodes.                           *)

Before(edges, n) == {e[1] : e \in {f \in edges : f[2] = n}}

\* _topological_order: the first node in declared order of which nothing is awaited;
\* the order is short when there is a cycle.
TopologicalOrder(n, edges) ==
  FoldLeft(LAMBDA order, k :
             LET ready == {m \in (1..n) \ ToSet(order) : Before(edges, m) \subseteq ToSet(order)}
             IN IF ready = {} THEN order ELSE Append(order, Min(ready)),
           <<>>, [k \in 1..n |-> k])

\* parse_reference: a chain, or the nodes and edges of a graph; a cycle is refused.
Chain(n) == {<<i, i + 1>> : i \in 1..(n - 1)}

ParseReference(tools, edges) ==
  LET order == TopologicalOrder(Len(tools), edges)
  IN IF Len(order) < Len(tools) THEN [status |-> "error"]
     ELSE [status |-> "ok", tools |-> tools, edges |-> edges,
           linear |-> [i \in DOMAIN order |-> tools[order[i]]]]

MutUnlocked(edges, seen, node) ==
  SelectSeq([i \in 1..4 |-> i], LAMBDA m : <<node, m>> \in edges)

\* The nodes of which the last predecessor is this one.
Unlocked(edges, seen, node) ==
  SelectSeq([i \in 1..4 |-> i],
            LAMBDA m : <<node, m>> \in edges /\ Before(edges, m) \subseteq seen \cup {node})

\* dag_consistency: the actual calls drive Kahn's algorithm, a call takes the node
\* of its tool that has been available longest.
DagConsistency(actual, tools, edges) ==
  LET Count(s, t) == Cardinality({i \in DOMAIN s : s[i] = t})
      free == SelectSeq([i \in DOMAIN tools |-> i], LAMBDA m : Before(edges, m) = {})
      end == FoldLeft(LAMBDA acc, t :
               LET bucket == SelectSeq(acc.available, LAMBDA m : tools[m] = t)
               IN IF ~acc.valid \/ bucket = <<>> THEN [acc EXCEPT !.valid = FALSE]
                  ELSE [acc EXCEPT
                          !.available = SelectSeq(@, LAMBDA m : m # Head(bucket))
                                          \o Unlocked(edges, acc.taken, Head(bucket)),
                          !.taken = @ \cup {Head(bucket)}],
               [available |-> free, taken |-> {}, valid |-> TRUE], actual)
  IN /\ Len(actual) = Len(tools) /\ \A t \in Tools : Count(actual, t) = Count(tools, t)
     /\ end.valid

\* match_trajectory, the graded ratio of difflib apart.
MatchTrajectory(actual, tools, edges, mode) ==
  LET ref == ParseReference(tools, edges)
  IN IF ref.status = "error" THEN [status |-> "error", exact |-> FALSE, dag |-> FALSE, matched |-> FALSE]
     ELSE LET exact == actual = ref.linear
              dag == DagConsistency(actual, ref.tools, ref.edges)
          IN [status |-> "scored", exact |-> exact, dag |-> dag,
              matched |-> IF mode = "exact" THEN exact ELSE dag]

-----------------------------------------------------------------------------
(* fit_trace_to_budget (trajectory.py), its units scaled down.  A step is  *)
(* its kind, whether its output looks like an error, and the size of what  *)
(* may be cut; the call itself and its arguments are one unit.             *)

OutputFloor == 2
ReasoningFloor == 1
CutMarker == 1             \* what says that a content was cut
OmittedMarker == 1         \* what says that steps were left out

Class(step) == IF step.kind = "tool" /\ step.error THEN "error" ELSE step.kind

Untouched == [model |-> 0, tool |-> 0, error |-> 0, reasoning |-> 0]

Floor(class) == IF class \in {"tool", "error"} THEN OutputFloor ELSE ReasoningFloor

\* _shrink, _apply_caps: a cap of 0 leaves its class alone.
SizeUnder(policy, step) ==
  LET cap == IF Class(step) = "attempt" THEN 0 ELSE policy[Class(step)]
  IN IF cap = 0 \/ step.size <= cap THEN step.size ELSE cap + CutMarker

StepTokens(policy, step) == 1 + SizeUnder(policy, step)
Tokens(policy, steps) == SumFunction([i \in DOMAIN steps |-> StepTokens(policy, steps[i])])

Largest(steps, class) == Max({0} \cup {steps[i].size : i \in {j \in DOMAIN steps : Class(steps[j]) = class}})

\* One class is halved from the largest of its own members, down to its floor or
\* until halving buys nothing.
Spend(policy, steps, class, budget) ==
  FoldLeft(LAMBDA acc, k :
             IF acc.done \/ acc.cap <= Floor(class) \/ Tokens(acc.policy, steps) <= budget
               THEN [acc EXCEPT !.done = TRUE]
             ELSE LET cap == Max({Floor(class), acc.cap \div 2})
                      trial == [acc.policy EXCEPT ![class] = cap]
                  IN IF Tokens(trial, steps) >= Tokens(acc.policy, steps)
                       THEN [acc EXCEPT !.done = TRUE]
                       ELSE [acc EXCEPT !.cap = cap, !.policy = trial],
           [policy |-> policy, cap |-> Largest(steps, class), done |-> FALSE],
           [k \in 1..(Largest(steps, class) + 1) |-> k]).policy

\* The order in which a trace is given up.
SacrificeOrder == <<"model", "tool", "error", "reasoning">>

MutShrunk(steps, budget) ==
  FoldLeft(LAMBDA policy, class :
             IF Tokens(policy, steps) <= budget THEN policy ELSE Spend(policy, steps, class, budget),
           Untouched, <<"model", "error", "tool", "reasoning">>)

Shrunk(steps, budget) ==
  FoldLeft(LAMBDA policy, class :
             IF Tokens(policy, steps) <= budget THEN policy ELSE Spend(policy, steps, class, budget),
           Untouched, SacrificeOrder)

\* The step nearest to the middle that is neither an end nor a line between attempts.
MutMovable(steps) == 2..(Len(steps) - 1)

Movable(steps) == {i \in 2..(Len(steps) - 1) : steps[i].kind # "attempt"}

Distance(i, mid) == IF i > mid THEN i - mid ELSE mid - i

Victim(steps) ==
  LET mid == (Len(steps) \div 2) + 1
      near == {i \in Movable(steps) : \A j \in Movable(steps) : Distance(i, mid) <= Distance(j, mid)}
  IN Min(near)

TextTokens(policy, kept, omitted) ==
  Tokens(policy, kept) + (IF omitted > 0 THEN 1 + OmittedMarker ELSE 0)

MiddleDropped(policy, steps, budget) ==
  FoldLeft(LAMBDA kept, k :
             IF \/ TextTokens(policy, kept, Len(steps) - Len(kept)) <= budget
                \/ Len(kept) <= 2 \/ Movable(kept) = {}
               THEN kept ELSE RemoveAt(kept, Victim(kept)),
           steps, steps)

\* The text and the report of what it cost to make it fit.
FitTraceToBudget(steps, budget) ==
  IF budget = 0 \/ Tokens(Untouched, steps) <= budget
    THEN [kept |-> steps, policy |-> Untouched, capped |-> FALSE, shrunk |-> 0, omitted |-> 0,
          hardCut |-> 0]
  ELSE LET Report(policy, kept, size) ==
             [kept |-> kept, policy |-> policy, capped |-> TRUE,
              shrunk |-> Cardinality({i \in DOMAIN steps : SizeUnder(policy, steps[i]) # steps[i].size}),
              omitted |-> Len(steps) - Len(kept),
              hardCut |-> IF size <= budget THEN 0 ELSE size - budget]
           Middle(policy, kept) ==
             Report(policy, kept, TextTokens(policy, kept, Len(steps) - Len(kept)))
           Fit(policy) == Middle(policy, MiddleDropped(policy, steps, budget))
       IN Fit(Shrunk(steps, budget))

-----------------------------------------------------------------------------
(* trace_evidence.py                                                       *)

\* _select_steps: head and tail of the trajectory.
SelectSteps(steps, most) ==
  IF most <= 0 \/ Len(steps) <= most THEN steps
  ELSE LET head == most \div 2
       IN SubSeq(steps, 1, head) \o SubSeq(steps, Len(steps) - (most - head) + 1, Len(steps))

\* A step that says nothing is not judged.
NonEvidential(step) == step.kind # "tool" /\ step.size = 0

\* _parse_step and the failure of a call: both are records of an assessed step.
Assessed(step, answer) ==
  [step |-> step, assessed |-> ~NonEvidential(step),
   grounded |-> ~NonEvidential(step) /\ answer = "grounded",
   redundant |-> ~NonEvidential(step) /\ answer = "redundant",
   facts |-> IF ~NonEvidential(step) /\ answer = "grounded" THEN 1 ELSE 0,
   failed |-> ~NonEvidential(step) /\ answer = "fails"]

\* _build_evidence_bank: a step is judged before the facts of those ahead of it; a
\* call that fails costs its step and the walk goes on.
EvidenceBank(steps, answers) ==
  FoldLeft(LAMBDA bank, i :
             LET known == SumFunction([k \in DOMAIN bank |-> bank[k].facts])
             IN Append(bank, Assessed(steps[i], answers[i]) @@ [known |-> known]),
           <<>>, [i \in DOMAIN steps |-> i])

\* evaluate_trajectory_with_evidence: groundedness is a share of the judged steps.
EvaluateWithEvidence(all, most, answers, final) ==
  LET steps == SelectSteps(all, most)
      bank == EvidenceBank(steps, answers)
      Among(Test(_)) == Cardinality({i \in DOMAIN bank : Test(bank[i])})
      judged == Among(LAMBDA r : r.assessed)
  IN [bank |-> bank, status |-> final,
      grounded |-> Among(LAMBDA r : r.grounded), judged |-> judged,
      redundant |-> Among(LAMBDA r : r.redundant),
      calls |-> judged + 1,
      errors |-> Among(LAMBDA r : r.failed) + (IF final = "error" THEN 1 ELSE 0),
      capped |-> Len(steps) < Len(all)]

-----------------------------------------------------------------------------
(* The inputs of a behaviour                                               *)

\* Traces with at most one retry in them.
Actions == {[tool |-> t, args |-> "x"] : t \in Tools} \cup
           {[tool |-> CHOOSE t \in Tools : TRUE, args |-> Unrecorded]}

LoopReadings ==
  UNION {[actions : [1..n -> Actions], retry : 1..n] : n \in 1..MaxActions}

\* Three nodes with any edges, four with edges in the declared order.
MatchReadings ==
  UNION {[tools : [1..n -> Tools], actual : [1..n -> Tools],
          edges : SUBSET {e \in (1..n) \X (1..n) : IF n = 4 THEN e[1] < e[2] ELSE e[1] # e[2]}] :
         n \in 3..4}

Steps ==
  [kind : {"tool"}, error : BOOLEAN, size : StepSizes]
    \cup [kind : {"reasoning", "model"}, error : {FALSE}, size : StepSizes \cup {0}]
    \cup [kind : {"attempt"}, error : {FALSE}, size : {0}]

FitReadings == [steps : UNION {[1..n -> Steps] : n \in 3..MaxSteps}, budget : Budgets]

EvidenceReadings ==
  [steps : [1..3 -> {s \in Steps : s.kind # "model" /\ s.size <= Min(StepSizes)}], most : 0..3,
   answers : [1..3 -> {"grounded", "redundant", "fails"}], final : {"scored", "error"}]

TrajectoriesInit == reading \in {"loops", "match", "fit", "evidence"}

-----------------------------------------------------------------------------
(* Properties                                                              *)

\* A loop is a loop of one attempt: two attempts read together are a loop exactly
\* when one of them is, and a cycle that is shown really repeats.
LoopsWithinAttempts ==
  reading = "loops" => \A r \in LoopReadings :
    LET n == Len(r.actions)
        steps == [i \in 1..n |-> r.actions[i] @@ [attempt |-> IF i < r.retry THEN 1 ELSE 2]]
        one == SubSeq(steps, 1, r.retry - 1)
        two == SubSeq(steps, r.retry, n)
        both == DetectLoops(steps)
    IN /\ both.detected = (DetectLoops(one).detected \/ DetectLoops(two).detected)
       /\ both.score = Min({DetectLoops(one).score, DetectLoops(two).score})
       /\ both.repeated = DetectLoops(one).repeated + DetectLoops(two).repeated
       /\ both.detected /\ both.cycle < MinCycleRepeats =>
            \E i \in 1..(n - 2) : \A k \in i..(i + 2) : steps[k].args # Unrecorded
       /\ \A s \in Segments(steps) :
            LET shown == Cycles(s)
            IN /\ \A i, j \in DOMAIN shown : i < j => Span(shown[i]) \cap Span(shown[j]) = {}
               /\ shown = <<>> => MaxCycleRepeats(s) = 0
               /\ \A i \in DOMAIN shown : \A k \in Span(shown[i]) :
                    k + shown[i].period \in Span(shown[i]) => s[k] = s[k + shown[i].period]

\* The verdict on the order of calls is right: it is never given to a run that is
\* no topological order of the graph, and, where no tool stands at two nodes or
\* the graph is a chain, it is given to every run that is one.
Linearizations(tools, edges, actual) ==
  {f \in [DOMAIN actual -> DOMAIN tools] :
     /\ IsInjective(f) /\ \A i \in DOMAIN actual : tools[f[i]] = actual[i]
     /\ \A e \in edges : \E i, j \in DOMAIN actual : f[i] = e[1] /\ f[j] = e[2] /\ i < j}

OrderJudgedRight ==
  reading = "match" => \A r \in MatchReadings :
    LET verdict == MatchTrajectory(r.actual, r.tools, r.edges, "dag")
        orders == Linearizations(r.tools, r.edges, r.actual)
    IN /\ verdict.matched => orders # {}
       /\ verdict.status = "error" => orders = {}
       /\ verdict.status = "scored" /\ verdict.exact => orders # {}
       /\ r.edges = Chain(Len(r.tools)) \/ IsInjective(r.tools) =>
            (verdict.matched <=> orders # {})

\* What is given up, in which order, and that the report says so: an error's output
\* is cut only when no other output is left to be cut by half, a line between
\* attempts and both ends of the run are always there, and a text within the budget
\* from the start is whole.
FitIsSound(r, fit) ==
  LET Cut(c) == {i \in DOMAIN r.steps : /\ Class(r.steps[i]) = c
                                        /\ SizeUnder(fit.policy, r.steps[i]) < r.steps[i].size}
      Long(c) == {i \in DOMAIN r.steps :
                    /\ Class(r.steps[i]) = c
                    /\ SizeUnder(fit.policy, r.steps[i]) > 2 * (Floor(c) + CutMarker)}
      lines(s) == Cardinality({i \in DOMAIN s : s[i].kind = "attempt"})
  IN /\ Cut("error") # {} => Long("tool") = {}
     /\ Cut("reasoning") # {} => Long("tool") = {} /\ Long("error") = {}
     /\ fit.omitted > 0 => \A c \in {"model", "tool", "error", "reasoning"} : Long(c) = {}
     /\ Head(fit.kept) = Head(r.steps) /\ Last(fit.kept) = Last(r.steps)
     /\ lines(fit.kept) = lines(r.steps)
     /\ fit.shrunk + fit.omitted + fit.hardCut = 0 =>
          ~fit.capped /\ fit.kept = r.steps
     /\ fit.capped => r.budget > 0
     /\ r.budget > 0 /\ fit.hardCut = 0 =>
          TextTokens(fit.policy, fit.kept, fit.omitted) <= r.budget

TrimmedByValue ==
  reading = "fit" => \A r \in FitReadings : FitIsSound(r, FitTraceToBudget(r.steps, r.budget))

\* The evidence walk accounts for every step it chose: one record each, judged before
\* what was found ahead of it, and what was not grounded is redundant or failed.
EvidenceAccounted ==
  reading = "evidence" => \A r \in EvidenceReadings :
    LET result == EvaluateWithEvidence(r.steps, r.most, r.answers, r.final)
        spoken == Cardinality({i \in DOMAIN result.bank : ~NonEvidential(result.bank[i].step)})
    IN /\ Head(result.bank).step = Head(r.steps) \/ r.most = 1
       /\ Last(result.bank).step = Last(r.steps)
       /\ result.capped <=> Len(result.bank) < Len(r.steps)
       /\ result.calls = spoken + 1
       /\ result.judged - result.grounded - result.redundant
            = result.errors - (IF r.final = "error" THEN 1 ELSE 0)
       /\ \A i \in DOMAIN result.bank :
            result.bank[i].known = Cardinality({k \in 1..(i - 1) : result.bank[k].grounded})

TrajectoriesSound == LoopsWithinAttempts /\ OrderJudgedRight /\ TrimmedByValue /\ EvidenceAccounted
=============================================================================
