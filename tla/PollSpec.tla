------------------------------ MODULE PollSpec ------------------------------
(***************************************************************************)
(* What Poll.h promises of its descriptors: each can be added, removed and *)
(* asked about by itself, and after a wait a descriptor is reported ready  *)
(* only for what it was asked about.                                       *)
(***************************************************************************)
EXTENDS Functions

CONSTANTS
  Fds,      (* the descriptors of the callers                                *)
  Control   (* no descriptor of theirs                                       *)

VARIABLES
  interest,  (* of each descriptor that was added: what wait looks for       *)
  report,    (* of the same: what isReadable and isWritable say              *)
  last       (* the call that just changed them, and on which descriptor     *)

vars == <<interest, report, last>>

Ready == {"in", "out"}

NoCall == <<"none", Control>>

Init == interest = <<>> /\ report = <<>> /\ last = NoCall

(* f's values are set in both; everybody else's stay.                      *)
With(function, f, value) ==
  [g \in DOMAIN function \cup {f} |-> IF g = f THEN value ELSE function[g]]

Add(f) ==
  /\ f \notin DOMAIN interest
  /\ last' = <<"addFd", f>>
  /\ interest' = With(interest, f, {})
  /\ report' = With(report, f, {})

Remove(f) ==
  /\ f \in DOMAIN interest
  /\ last' = <<"removeFd", f>>
  /\ interest' = Restrict(interest, DOMAIN interest \ {f})
  /\ report' = Restrict(report, DOMAIN interest \ {f})

Ask(f, call, e) ==
  /\ f \in DOMAIN interest
  /\ last' = <<call, f>>
  /\ \/ interest' = With(interest, f, interest[f] \cup {e})
     \/ interest' = With(interest, f, interest[f] \ {e})
  /\ UNCHANGED report

Wait ==
  /\ report' \in [DOMAIN interest -> SUBSET Ready]
  /\ \A f \in DOMAIN interest : report'[f] \subseteq interest[f]
  /\ last' = NoCall
  /\ UNCHANGED interest

Nothing == last' = NoCall /\ UNCHANGED <<interest, report>>

Next ==
  \/ Wait \/ Nothing
  \/ \E f \in Fds :
       \/ Add(f) \/ Remove(f)
       \/ Ask(f, "setFdReadable", "in") \/ Ask(f, "setFdWritable", "out")

Spec == Init /\ [][Next]_vars
=============================================================================
