------------------------------ MODULE Threads -------------------------------
(* What the modules of the API server share: its threads.                  *)

CONSTANTS
    Client,  \* the threads of the server, one request at a time each
    None
=============================================================================
