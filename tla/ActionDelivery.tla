--------------------------- MODULE ActionDelivery ---------------------------
(***************************************************************************)
(* What the outbox promises about one approved action, whatever workers,   *)
(* crashes and time-outs lie in between: the external effect happens at    *)
(* most once, the episode gets one verdict, a definite verdict only comes  *)
(* after the effect and ends it, and a provider that recognises a repeated *)
(* request never leaves the episode in doubt.                              *)
(***************************************************************************)
EXTENDS Naturals

CONSTANTS
  Actions,
  Recoverable             \* BOOLEAN: the provider recognises a repeated request

VARIABLES effects, verdict

vars == <<effects, verdict>>

Init ==
  /\ effects = [a \in Actions |-> 0]
  /\ verdict = [a \in Actions |-> "open"]

\* An action in doubt may still take effect: its request can be on the way.
Effect(a) ==
  /\ verdict[a] \in {"open", "ambiguous"}
  /\ effects[a] = 0
  /\ effects' = [effects EXCEPT ![a] = 1]
  /\ UNCHANGED verdict

Decide(a) ==
  /\ verdict[a] = "open"
  /\ effects[a] = 1
  /\ \E v \in {"succeeded", "failed"} : verdict' = [verdict EXCEPT ![a] = v]
  /\ UNCHANGED effects

\* Nobody can tell whether the effect happened.
LeaveInDoubt(a) ==
  /\ ~Recoverable
  /\ verdict[a] = "open"
  /\ verdict' = [verdict EXCEPT ![a] = "ambiguous"]
  /\ UNCHANGED effects

Next == \E a \in Actions : Effect(a) \/ Decide(a) \/ LeaveInDoubt(a)

Spec == Init /\ [][Next]_vars
=============================================================================
