--------------------------- MODULE MCStepEngine ---------------------------
(***************************************************************************)
(* TLC instances of StepEngine.                                            *)
(***************************************************************************)
EXTENDS StepEngine

MCStep(limit, timed) ==
    [hasIf: BOOLEAN, continueOnError: BOOLEAN, limit: {limit}, timed: {timed}, checked: {TRUE}]

\* Every combination of "if" and continueOnError, but no "if" on the first step:
\* there is nothing yet it could depend on.
MCPlans == {plans \in [Indices -> MCStep(2, TRUE)] : ~plans[1].hasIf}

\* Steps without a timeout.
MCUntimedPlans == [Indices -> MCStep(2, FALSE)]

\* Everything a runner may return; none of them returns Aborted.
MCResults == Result \ {r \in Result : r.status = "Aborted"}
=============================================================================
