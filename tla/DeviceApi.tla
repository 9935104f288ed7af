----------------------------- MODULE DeviceApi -----------------------------
(***************************************************************************)
(* What a caller of the yrm100_command_* functions may rely on: each call  *)
(* ends with a verdict, and a verdict other than "failed" is the module's  *)
(* own word on this very call.  "failed" says nothing: the module may have *)
(* done what was asked, may have refused, or may never have been asked.    *)
(***************************************************************************)
EXTENDS Naturals

CONSTANT MaxCalls  \* bound on the calls of a behaviour

VARIABLES
  call,     \* number of calls begun
  open,     \* whether the last one has not returned yet
  effect,   \* what the module did on behalf of each call
  verdict   \* what the last call returned

vars == <<call, open, effect, verdict>>

Calls == 1 .. MaxCalls

Init ==
  /\ call = 0
  /\ open = FALSE
  /\ effect = [c \in Calls |-> "none"]
  /\ verdict = "none"

Begin ==
  /\ ~ open /\ call < MaxCalls
  /\ call' = call + 1
  /\ open' = TRUE
  /\ verdict' = "none"
  /\ UNCHANGED effect

\* The module acts once for a call, at any time after it has begun.
Act(c) ==
  /\ c <= call
  /\ effect[c] = "none"
  /\ \E e \in {"done", "refused"} : effect' = [effect EXCEPT ![c] = e]
  /\ UNCHANGED <<call, open, verdict>>

Return ==
  /\ open
  /\ open' = FALSE
  /\ verdict' \in {"failed"} \cup ({effect[call]} \ {"none"})
  /\ UNCHANGED <<call, effect>>

\* A call that never reaches the module.
Reject ==
  /\ ~ open /\ call < MaxCalls
  /\ call' = call + 1
  /\ verdict' = "failed"
  /\ UNCHANGED <<open, effect>>

Next == Begin \/ (\E c \in Calls : Act(c)) \/ Return \/ Reject

Spec == Init /\ [][Next]_vars

=============================================================================
