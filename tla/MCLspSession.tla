---------------------------- MODULE MCLspSession ----------------------------
(* Two calls on one file: checks after two edits of it, or a check or a    *)
(* request beside a restart or a shutdown.                                 *)
EXTENDS LspSession, TLC

CONSTANTS k1, k2, d1, x1, x2

MCDocOf == [k \in Calls |-> d1]
MCMixes ==
    {k1 :> m[1] @@ k2 :> m[2] : m \in
        {<<"check", "check">>, <<"check", "restart">>,
         <<"navigate", "shutdown">>, <<"restart", "shutdown">>}}
MCTextOf == [k \in Calls |-> IF k = k1 THEN x1 ELSE x2]
=============================================================================
