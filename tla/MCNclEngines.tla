---------------------------- MODULE MCNclEngines ----------------------------
(* Instances of NclEngines for TLC: the three tasks that use the engines while
   the TIP runs, each with those of its operations that meet another task's.  The
   update task verifies firmware, bmc_task_loop verifies and encrypts it, serves
   the direct commands of the BMC and exports the attestation, mctp_cmd_task
   serves the sessions and signs. *)
EXTENDS NclEngines

MCJobs ==
  [update |-> {"hash", "pka"},
   bmc    |-> {"fw", "direct", "hash", "export"},
   cmd    |-> {"session", "calc", "sign"}]
=============================================================================
