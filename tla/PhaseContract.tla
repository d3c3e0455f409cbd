--------------------------- MODULE PhaseContract ---------------------------
(***************************************************************************)
(* What one phase of the controlled TRIAD campaign promises to the loop    *)
(* that runs phases and to the analyzer that reads its files, without      *)
(* sockets, signals, timeouts or the order in which anything is waited     *)
(* for: a barrier in front of the measurement, a verdict that can be       *)
(* trusted, and an end that leaves nothing running unless the phase was    *)
(* abandoned.  TriadPhase implements it.                                   *)
(***************************************************************************)
CONSTANT Workers

VARIABLES
  stage,      \* what has become of each worker
  arrived,    \* the workers known to be ready to measure
  verdict,    \* what status.json says; "none" while it says nothing readable
  ended       \* how the phase ended

vars == <<stage, arrived, verdict, ended>>

Running(w) == stage[w] \in {"up", "measuring"}

TypeOK ==
  /\ stage \in [Workers -> {"out", "up", "measuring", "good", "bad"}]
  /\ arrived \subseteq Workers
  /\ verdict \in {"none", "ok", "failed"}
  /\ ended \in {"no", "success", "failure", "abandoned"}

Init ==
  /\ stage = [w \in Workers |-> "out"]
  /\ arrived = {}
  /\ verdict = "none"
  /\ ended = "no"

Move(w, from, to) ==
  /\ stage[w] \in from
  /\ stage' = [stage EXCEPT ![w] = to]
  /\ UNCHANGED <<arrived, verdict, ended>>

Launch(w) == ended = "no" /\ Move(w, {"out"}, "up")

Arrive(w) ==
  /\ ended = "no"
  /\ stage[w] # "out"
  /\ arrived' = arrived \union {w}
  /\ UNCHANGED <<stage, verdict, ended>>

\* The barrier: nobody measures before everybody has arrived.
Measure(w) == arrived = Workers /\ Move(w, {"up"}, "measuring")

Succeed(w) == Move(w, {"measuring"}, "good")
Break(w) == Move(w, {"up", "measuring"}, "bad")

\* "ok" needs every worker to have succeeded; "failed" needs every worker but at
\* most one to have stopped, and none to be measuring; "failed" is final.
Publish(v) ==
  /\ ended = "no"
  /\ verdict # "failed"
  /\ v = "ok" => \A w \in Workers : stage[w] = "good"
  /\ v = "failed" =>
       /\ \A w \in Workers : stage[w] # "measuring"
       /\ \A w1, w2 \in Workers : Running(w1) /\ Running(w2) => w1 = w2
  /\ verdict' = v
  /\ UNCHANGED <<stage, arrived, ended>>

\* A phase that is not abandoned ends with the matching verdict and no process.
End(e) ==
  /\ ended = "no"
  /\ e = "success" => verdict = "ok"
  /\ e = "failure" => verdict = "failed"
  /\ e # "abandoned" => \A w \in Workers : ~Running(w)
  /\ ended' = e
  /\ UNCHANGED <<stage, arrived, verdict>>

Next ==
  \/ \E w \in Workers : Launch(w) \/ Arrive(w) \/ Measure(w) \/ Succeed(w) \/ Break(w)
  \/ \E v \in {"none", "ok", "failed"} : Publish(v)
  \/ \E e \in {"success", "failure", "abandoned"} : End(e)

Spec == Init /\ [][Next]_vars
=============================================================================
