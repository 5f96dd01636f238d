---------------------------- MODULE MCRunMessages ----------------------------
(***************************************************************************)
(* RunMessages for TLC.                                                    *)
(***************************************************************************)
EXTENDS RunMessages

CONSTANTS api, chat

\* The API listens to all, the chat has the default without approvals.
AllAndDefault ==
  [notifier \in {api, chat} |->
     IF notifier = api THEN {"started", "success", "failure", "progress", "sources"}
                       ELSE {"failure"}]
==============================================================================
