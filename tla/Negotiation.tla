---------------------------- MODULE Negotiation ----------------------------
(***************************************************************************)
(* What a connection request promises its two sides, as if every request   *)
(* to the server took effect in one indivisible step.  A request is open   *)
(* until its source withdraws it or its target answers it; the first of    *)
(* the two to happen decides for good.  The target may change its answer.  *)
(* Contact details may be shown once the target has consented, which it    *)
(* does together with an answer and never otherwise.                       *)
(***************************************************************************)
EXTENDS Naturals

CONSTANT Request

VARIABLES
  phase,      \* phase[r]: how far the negotiation of r has come
  turn,       \* turn[r]: how many times a side has moved since r was made
  consented,  \* requests whose target has consented to show contact details
  shown       \* requests whose contact details have been shown

nvars == <<phase, turn, consented, shown>>

Phase == {"absent", "open", "withdrawn", "answered"}

Init ==
  /\ phase = [r \in Request |-> "absent"]
  /\ turn = [r \in Request |-> 0]
  /\ consented = {}
  /\ shown = {}

Make(r) ==
  /\ phase[r] = "absent"
  /\ phase' = [phase EXCEPT ![r] = "open"]
  /\ UNCHANGED <<turn, consented, shown>>

Withdraw(r) ==
  /\ phase[r] = "open"
  /\ phase' = [phase EXCEPT ![r] = "withdrawn"]
  /\ turn' = [turn EXCEPT ![r] = turn[r] + 1]
  /\ UNCHANGED <<consented, shown>>

Answer(r) ==
  /\ phase[r] \in {"open", "answered"}
  /\ phase' = [phase EXCEPT ![r] = "answered"]
  /\ turn' = [turn EXCEPT ![r] = turn[r] + 1]
  /\ consented' \in {consented, consented \cup {r}}
  /\ UNCHANGED shown

Show(r) ==
  /\ r \in consented
  /\ shown' = shown \cup {r}
  /\ UNCHANGED <<phase, turn, consented>>

Next == \E r \in Request : Make(r) \/ Withdraw(r) \/ Answer(r) \/ Show(r)

Spec == Init /\ [][Next]_nvars
=============================================================================
