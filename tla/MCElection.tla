----------------------------- MODULE MCElection -----------------------------
(***************************************************************************)
(* Three accounts, three witnesses and three committee members, each       *)
(* candidate owned by a different account.  Vote ids 0-2 are the           *)
(* witnesses', 3-5 the committee members'.  Stakes 40000 and 70000 make    *)
(* the tally exceed 2^16, so the 16-bit authority scaling drops bits.      *)
(***************************************************************************)
EXTENDS Election, TLC

CONSTANTS a1, a2, a3

MCByName == << a1, a2, a3 >>
MCIsMember == [a \in {a1, a2, a3} |-> a # a3]
MCWitnessVoteId == [w \in Witnesses |-> w - 1]
MCWitnessAccount == [w \in Witnesses |-> MCByName[w]]
MCCommitteeVoteId == [c \in 1 .. 3 |-> c + 2]
MCCommitteeAccount == (1 :> a3) @@ (2 :> a1) @@ (3 :> a2)
MCInitParams == [maxWitness |-> 2, maxCommittee |-> 2,
                 countNonMember |-> FALSE, basicFee |-> 4]
MCParamChoices == {[maxWitness |-> 0, maxCommittee |-> 2,
                    countNonMember |-> TRUE, basicFee |-> 4]}
MCInitStake == (a1 :> 70000) @@ (a2 :> 40000) @@ (a3 :> 1)
MCStakes == {0, 1, 70000}
MCVoteChoices == {{}, {0, 3}, {1, 4}, {0, 2, 5}}
MCNumChoices == {0, 2}

\* A narrower environment for three-step scenarios: stakes only fall to 1,
\* nobody sets a size opinion.
MCFewVoteChoices == {{}, {1, 4}, {0, 2, 5}}
MCFewNumChoices == {0}
MCFewStakes == {1}
=============================================================================
