------------------------- MODULE MCWorkflowTriggers --------------------------
(* Values of WorkflowTriggers's constants for model checking.              *)
EXTENDS WorkflowTriggers, TLC

\* One step and nothing else.
StepGraph ==
  [nodes |-> <<"start", "result">>,
   edges |-> <<[from |-> "start", to |-> "result", port |-> "none"]>>]
StepKinds == "start" :> "trigger" @@ "result" :> "step"
=============================================================================
