-------------------------- MODULE AttemptLifecycle --------------------------
(***************************************************************************)
(* What the attempt journal promises to the rest of the backend, with the *)
(* commands, the configuration and the delivery protocol left out: the     *)
(* attempts of one task open one after the other, only the open one gains  *)
(* evidence, and an attempt closes once, with the verdict its own last     *)
(* record states, or as "lost".                                            *)
(***************************************************************************)
EXTENDS Integers

CONSTANTS
  MaxAttempts, \* bound: how many attempts one task may see
  MaxSeq,      \* bound: the last sequence number of an attempt
  Bodies       \* event records: [id, kind, status]

VARIABLES
  owner,   \* number of the newest attempt, 0 before the first
  verdict, \* attempt -> "absent", "open" or how it closed
  log      \* attempt -> function from 0 .. n-1 to Bodies

vars == <<owner, verdict, log>>

Attempts == 1 .. MaxAttempts
Closed == {"success", "failed", "cancelled", "lost"}

Init ==
  /\ owner = 0
  /\ verdict = [a \in Attempts |-> "absent"]
  /\ log \in [Attempts -> [{} -> Bodies]]

Open(a) ==
  /\ a = owner + 1
  /\ owner # 0 => verdict[owner] \in Closed
  /\ owner' = a
  /\ verdict' = [verdict EXCEPT ![a] = "open"]
  /\ UNCHANGED log

\* The log gains records behind the ones it holds; a final record closes.
Record(a) ==
  /\ a = owner
  /\ verdict[a] = "open"
  /\ \E n \in 0 .. MaxSeq :
       /\ DOMAIN log[a] \subseteq 0 .. n - 1
       /\ \E longer \in [0 .. n -> Bodies] :
            /\ \A i \in DOMAIN log[a] : longer[i] = log[a][i]
            /\ log' = [log EXCEPT ![a] = longer]
            /\ verdict' = [verdict EXCEPT ![a] =
                             IF longer[n].kind = "run.finished"
                               THEN longer[n].status ELSE "open"]
  /\ UNCHANGED owner

Lose(a) ==
  /\ a = owner
  /\ verdict[a] = "open"
  /\ verdict' = [verdict EXCEPT ![a] = "lost"]
  /\ UNCHANGED <<owner, log>>

Next == \E a \in Attempts : Open(a) \/ Record(a) \/ Lose(a)

Spec == Init /\ [][Next]_vars
=============================================================================
