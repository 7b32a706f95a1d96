------------------------------ MODULE MCAccess -------------------------------
(***************************************************************************)
(* What stands before the handlers, and what they list: rate limits,       *)
(* permissions and pages.  The three share no state, so one of them is     *)
(* driven at a time: part says which.                                      *)
(***************************************************************************)
EXTENDS RateLimits, Seeding, Listing

VARIABLE part

accessVars == <<part, limitVars, seedVars, listVars>>

MCInit ==
    /\ part \in {"limits", "seeds", "lists"}
    /\ LimitsInit /\ SeedInit /\ ListingInit
    /\ part # "lists" => list = PostsOffset /\ order = NoOrder

LimitsStep == part = "limits" /\ LimitsNext /\ UNCHANGED <<part, seedVars, listVars>>
SeedStep == part = "seeds" /\ SeedNext /\ UNCHANGED <<part, limitVars, listVars>>
ListingStep == part = "lists" /\ ListingNext /\ UNCHANGED <<part, limitVars, seedVars>>

MCNext == LimitsStep \/ SeedStep \/ ListingStep

MCFairness ==
    /\ WF_accessVars(part = "limits" /\ Tick /\ UNCHANGED <<part, seedVars, listVars>>)
    /\ \A q \in Calls :
         WF_accessVars(part = "limits" /\ Expire(q) /\ UNCHANGED <<part, seedVars, listVars>>)

MCSpec == MCInit /\ [][MCNext]_accessVars /\ MCFairness

-----------------------------------------------------------------------------
\* The limits are 5 for the address and 3 for the e-mail in the code; what counts
\* is that they differ and that the first hit is below both.
MCLimit == [k \in Kinds |-> IF k = "resetMail" THEN 1 ELSE 2]
MCPeriod == [k \in Kinds |-> 2]
MCRequests == {RequestPasswordReset(ip, mail) : ip \in Ips, mail \in Mails}

=============================================================================
