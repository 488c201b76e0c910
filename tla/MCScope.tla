------------------------------ MODULE MCScope ------------------------------
(***************************************************************************)
(* A small instance of Scope for TLC: /srv with a file in it, /srv/priv    *)
(* with a file in it, and /lnk, a link to /srv.  /srv, /srv/priv and the   *)
(* link come into being in any order that makes sense.                     *)
(***************************************************************************)
EXTENDS Scope

Srv   == <<"srv">>
SrvF  == <<"srv", "f">>
Priv  == <<"srv", "priv">>
PrivG == <<"srv", "priv", "g">>
Lnk   == <<"lnk">>
LnkP  == <<"lnk", "priv">>
LnkPG == <<"lnk", "priv", "g">>

MCPaths == {Srv, SrvF, Priv, PrivG, Lnk, LnkP, LnkPG}

(* The file system once the directories in made exist.                     *)
Made(made) ==
    [p \in MCPaths |->
        CASE p \in {Srv, SrvF}    -> IF Srv \in made THEN p ELSE Missing
          [] p \in {Priv, PrivG}  -> IF Priv \in made THEN p ELSE Missing
          [] p = Lnk              -> IF Lnk \in made THEN Srv ELSE Missing
          [] p = LnkP             -> IF {Lnk, Priv} \subseteq made THEN Priv ELSE Missing
          [] p = LnkPG            -> IF {Lnk, Priv} \subseteq made THEN PrivG ELSE Missing]

MCWorlds == {Made(made) : made \in {{}, {Srv}, {Srv, Priv}, {Srv, Lnk},
                                    {Srv, Priv, Lnk}}}

MCRequests == {SrvF, PrivG, LnkPG}

Policy(permissive, allow, deny) ==
    [permissive |-> permissive, allow |-> allow, deny |-> deny]

(* All but a subtree named through the link; the link but not the subtree, *)
(* and the same places twice under two names; one subtree only.            *)
MCPolicies == {Policy(TRUE, {}, {LnkP}),
               Policy(FALSE, {Lnk, Srv}, {Priv, LnkP}),
               Policy(FALSE, {Priv}, {})}
=============================================================================
