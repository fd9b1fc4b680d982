--------------------------- MODULE MCCommandMenu ---------------------------
(***************************************************************************)
(* CommandMenu for TLC: one command of each source, two of which share a   *)
(* name, and a limit that two of them fill but a long one exceeds.         *)
(***************************************************************************)
EXTENDS CommandMenu

MCOffers == {<<"core", 3>>, <<"quick", 1>>, <<"plugin", 2>>, <<"bundle", 1>>,
             <<"skill", 2>>, <<"skill", 4>>}
MCLength == 1 :> 3 @@ 2 :> 2 @@ 3 :> 3 @@ 4 :> 7
MCFirst == {{<<"core", 3>>, <<"skill", 2>>, <<"skill", 4>>, <<"quick", 1>>},
            {<<"core", 3>>, <<"skill", 4>>, <<"bundle", 1>>, <<"plugin", 2>>},
            {<<"quick", 1>>, <<"skill", 2>>, <<"plugin", 2>>}}
=============================================================================
