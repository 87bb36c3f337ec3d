------------------------------ MODULE MCRunner ------------------------------
(***************************************************************************)
(* Instances of the runner, and what the repository says of approvals.     *)
(***************************************************************************)
EXTENDS Runner

MCOutcomes == {"SUCCESS"}

\* docs/03-domain-model.md:29, of an approval: "resolution is idempotent".
\* Answering a request again does nothing: a plan that needs a human is
\* carried out only if an approver said yes while that plan was waiting.
ResolutionIsIdempotent ==
    submissions <= 1 =>
        \A p \in sensitive : effects[p] > 0 => p \in approved
=============================================================================
