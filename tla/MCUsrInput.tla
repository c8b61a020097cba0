----------------------------- MODULE MCUsrInput -----------------------------
(* Queues of up to two entries for TLC: commands of several kinds, an entry *)
(* that cannot be read, an empty queue and one that is none.                *)
EXTENDS UsrInput

MCCommands == {"topic_pub", "action_send_goal", "service_call", "param_set"}

MCQueues ==
    {<<>>, <<"topic", "lifecycle">>, <<"action">>, <<"service", "unknown">>}

=============================================================================
