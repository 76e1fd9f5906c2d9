---------------------------- MODULE MCFeishuSidecar ----------------------------
(***************************************************************************)
(* A finite instance of FeishuSidecar: each directive by itself; one that   *)
(* runs on the loop and one that runs in a thread, in either order or with  *)
(* a message; or three messages.                                           *)
(***************************************************************************)
EXTENDS FeishuSidecar

SmallLoads ==
  {<< <<a>>, 0 >> : a \in AllActions}
    \cup {<< <<a>>, 1 >> : a \in {"send_message", "download_file"}}
    \cup {<< <<"send_message", "download_file">>, 0 >>,
          << <<"download_file", "send_message">>, 0 >>,
          << <<>>, 3 >>}

=============================================================================
