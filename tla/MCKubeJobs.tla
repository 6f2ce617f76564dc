----------------------------- MODULE MCKubeJobs -----------------------------
(***************************************************************************)
(* Constants of KubeJobs for TLC: one pending agent upgrade and three      *)
(* scans -- one with a retry left, one whose trigger_action is nil, and    *)
(* one that has used up its retries.                                       *)
(***************************************************************************)
EXTENDS KubeJobs

MCRetries == ("u1" :> 0) @@ ("s1" :> 2) @@ ("s2" :> 1) @@ ("s3" :> 3)

MCTrigger == ("u1" :> "valid") @@ ("s1" :> "valid") @@ ("s2" :> "nil")
                @@ ("s3" :> "valid")

MCWorkVal == 0..2
=============================================================================
