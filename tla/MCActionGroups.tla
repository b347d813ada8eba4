---------------------------- MODULE MCActionGroups ----------------------------
EXTENDS ActionGroupsProps
CONSTANTS p1, p2

\* The ordinary group, and those of the experiment.
MCActionsOf == (0 :> <<"templated">>) @@ (1 :> <<"core", "templated">>)
               @@ (2 :> <<"custom", "core">>)
=============================================================================
