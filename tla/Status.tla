-------------------------------- MODULE Status --------------------------------
(***************************************************************************)
(* The status word that every flow, process and step carries               *)
(* (flow/context.go).  The code packs flags into an int64; here a status   *)
(* is the set of the flags that are raised.                                *)
(*                                                                         *)
(* Every abnormal flag of the code also carries bit 31, the bit of         *)
(* "Failed", so `Has(Failed)' and `!Normal()' are the same question and    *)
(* both are answered by Normal below.                                      *)
(***************************************************************************)
Abnormal == {"Cancel", "Timeout", "Panic", "Error", "Stop", "CallbackFail",
             "Failed"}

Flag == Abnormal \cup
        {"Pause", "skip", "executed", "Recovering", "Suspend", "Success"}

\* state.Normal: no exception flag is raised.
Normal(status) == status \cap Abnormal = {}

\* runStep.needRecover: the steps a checkpoint is written for.
NeedRecover(status) ==
    \/ "CallbackFail" \in status
    \/ ~Normal(status) /\ "Cancel" \notin status
===============================================================================
