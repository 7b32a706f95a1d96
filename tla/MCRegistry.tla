----------------------------- MODULE MCRegistry ------------------------------
(***************************************************************************)
(* The tables the requests of users and admins work on: endpoints,         *)
(* channels, posts, notifications, accounts.  They share no row, so one of *)
(* them is driven at a time: part says which.                              *)
(***************************************************************************)
EXTENDS EndpointRegistry, ChannelRegistry, Posts, Notifications, Accounts, TLC

VARIABLE part

registryVars == <<part, vars, chVars, postVars, noteVars, accVars>>

MCInit ==
    /\ part \in {"endpoints", "channels", "posts", "notifications", "accounts"}
    /\ Init /\ ChannelsInit /\ PostsInit /\ NotesInit /\ AccountsInit

\* Two requests of one user around a limit of two, with rows to spare so that
\* deletions make room again.
EndpointsStep == part = "endpoints" /\ Next /\ UNCHANGED <<part, chVars, postVars, noteVars, accVars>>
ChannelsStep == part = "channels" /\ ChannelsNext /\ UNCHANGED <<part, vars, postVars, noteVars, accVars>>
PostsStep == part = "posts" /\ PostsNext /\ UNCHANGED <<part, vars, chVars, noteVars, accVars>>
NotesStep == part = "notifications" /\ NotesNext /\ UNCHANGED <<part, vars, chVars, postVars, accVars>>
AccountsStep == part = "accounts" /\ AccountsNext /\ UNCHANGED <<part, vars, chVars, postVars, noteVars>>

MCNext == EndpointsStep \/ ChannelsStep \/ PostsStep \/ NotesStep \/ AccountsStep

MCSpec == MCInit /\ [][MCNext]_registryVars

\* Rows, calls and what else the parts tell apart are only compared for equality;
\* the parts share these values, so that the symmetry is of them all.
RegistrySymmetry == Permutations(Rows) \cup Permutations(Urls) \cup Permutations(Calls)

=============================================================================
