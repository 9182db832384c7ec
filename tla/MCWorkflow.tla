----------------------------- MODULE MCWorkflow -----------------------------
(* Instances of Workflow for TLC.                                          *)
EXTENDS Workflow, TLC

CONSTANTS a, b, c, d, e

\* Two workflows: a reader, then a writer on success and another on failure;
\* and a writer followed by an isolated node.
TwoOrder     == <<<<a, b, c>>, <<d, e>>>>
TwoDepends   == (a :> {}) @@ (b :> {a}) @@ (c :> {a}) @@ (d :> {}) @@ (e :> {d})
TwoCondition == (a :> "always") @@ (b :> "all_succeeded") @@ (c :> "any_failed")
                @@ (d :> "always") @@ (e :> "always")
TwoWrite     == (a :> "none") @@ (b :> "shared") @@ (c :> "none")
                @@ (d :> "shared") @@ (e :> "isolated")
TwoFailure   == (a :> "continue") @@ (b :> "fail-workflow") @@ (c :> "fail-workflow")
                @@ (d :> "skip-dependents") @@ (e :> "fail-workflow")

\* One workflow with two isolated nodes that do not depend on each other.
IsoOrder     == <<<<a, b>>>>
IsoDepends   == (a :> {}) @@ (b :> {})
IsoCondition == (a :> "always") @@ (b :> "always")
IsoWrite     == (a :> "isolated") @@ (b :> "isolated")
IsoFailure   == (a :> "continue") @@ (b :> "continue")
=============================================================================
