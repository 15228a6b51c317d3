---------------------------- MODULE ProposalLife ----------------------------
(***************************************************************************)
(* What a change proposal promises, without files, requests or threads.    *)
(* It is judged once: carried out, approved for somebody to apply, or      *)
(* rejected.  What was approved is settled once: a human has applied it,   *)
(* or gives it up.  Each mishap lets one decision more be taken, no matter *)
(* how late.  What the linked issue is told has been decided before.       *)
(* ProposalManager implements this specification.                          *)
(***************************************************************************)
EXTENDS Naturals, Sequences, FiniteSets

CONSTANT Proposal

VARIABLES decisions,   \* the decisions taken, in order
          told,        \* what issues were told
          mishaps      \* how often something went wrong

vars == <<decisions, told, mishaps>>

Judgements  == {"executed", "approved", "rejected"}
Settlements == {"confirmed", "abandoned"}

\* The decisions of these kinds taken on p.
Taken(p, kinds) == {i \in DOMAIN decisions : decisions[i].sub = p /\ decisions[i].how \in kinds}

\* What must have been decided before an issue is told so.
Reasons(what) == CASE what = "APPLIED"   -> {"executed", "confirmed"}
                   [] what = "APPROVED"  -> {"approved"}
                   [] what = "REJECTED"  -> {"rejected"}
                   [] what = "ABANDONED" -> {"abandoned"}

Decide(p, how, round) ==
    /\ how \in round
    /\ Cardinality(Taken(p, round)) <= mishaps
    /\ decisions' = Append(decisions, [sub |-> p, how |-> how])
    /\ UNCHANGED told

\* The one who judges may never hear of it, which is a mishap.
Judge(p, how) ==
    /\ Decide(p, how, Judgements)
    /\ mishaps' \in {mishaps, mishaps + 1}

Settle(p, how) ==
    /\ Taken(p, {"approved"}) # {}
    /\ Decide(p, how, Settlements)
    /\ UNCHANGED mishaps

Tell(p, what) ==
    /\ Taken(p, Reasons(what)) # {}
    /\ told' = told \cup {[sub |-> p, what |-> what]}
    /\ UNCHANGED <<decisions, mishaps>>

Mishap ==
    /\ mishaps' = mishaps + 1
    /\ UNCHANGED <<decisions, told>>

Init == decisions = <<>> /\ told = {} /\ mishaps = 0

Next ==
    \/ \E p \in Proposal :
          \/ \E how \in Judgements : Judge(p, how)
          \/ \E how \in Settlements : Settle(p, how)
          \/ \E what \in {"APPLIED", "APPROVED", "REJECTED", "ABANDONED"} : Tell(p, what)
    \/ Mishap

Spec == Init /\ [][Next]_vars
=============================================================================
