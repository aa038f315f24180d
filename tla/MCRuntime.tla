------------------------------ MODULE MCRuntime ------------------------------
(* A bot with two plugins and two modules, and one without any that shares *)
(* its socket path; or two without any.                                    *)
EXTENDS Runtime, TLC

CONSTANTS a, b

MCPlugins == a :> <<"calendar", "notes">> @@ b :> << >>
MCModules == a :> <<"rss_announcer", "moderation">> @@ b :> << >>
MCNone == a :> << >> @@ b :> << >>

=============================================================================
