------------------------ MODULE MCProcessSupervision ------------------------
(***************************************************************************)
(* The two agents of the job: one on the prefill and one on the decode     *)
(* node, in the order main() lists them.                                   *)
(***************************************************************************)
EXTENDS ProcessSupervision

MCAgents == <<"prefill_agent", "decode_agent">>

\* Agents share no lock: the commands of one are enough.  It is the one that is
\* reset first, so that commands have longest to come late; one may be on its way
\* to the GPU while another one holds it.
MCCommands == [a \in Agents |-> IF a = "prefill_agent" THEN 1 ELSE 0]
=============================================================================
