--------------------------- MODULE MCNinjaStatus ----------------------------
(* Instances of NinjaStatus for TLC.                                       *)
EXTENDS NinjaStatus

Msg(k, x) == [kind |-> k, n |-> x]

\* A total that is too low, and two actions at once; a total below the number
\* started, an action reported finished twice, and a total the end withdraws.
MCScripts ==
    {<<Msg("total", 1), Msg("start", 1), Msg("start", 2), Msg("message", 0), Msg("finish", 1),
       Msg("end", 0)>>,
     <<Msg("total", 2), Msg("start", 1), Msg("total", 0), Msg("finish", 1), Msg("finish", 1),
       Msg("end", 0)>>}

=============================================================================
