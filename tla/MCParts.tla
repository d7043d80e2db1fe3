-------------------------------- MODULE MCParts --------------------------------
(***************************************************************************)
(* Parts that share no state, in one run without symmetry: checkouts under *)
(* return_existing, two at a time, whose charges must be answered          *)
(* (ClickPayments); the list of conversations (Inbox) and the application  *)
(* form (PartnerForm) of the clients; deciding applications and reading    *)
(* chats for moderation (Applications, ChatReview).  The initial state     *)
(* chooses which one runs; Click retries in the first only.                *)
(***************************************************************************)
EXTENDS ClickPayments, Inbox, PartnerForm, Applications, ChatReview

VARIABLE part
partVars == <<part, vars, inboxVars, formVars, appVars, chatReviewVars>>

PartsInit ==
    /\ part \in {"checkouts", "list", "form", "applications", "chats"}
    /\ Init /\ InboxInit /\ FormInit /\ ApplicationsInit /\ ChatReviewInit
    /\ part # "list" => cached = NoSnap

OfClients == <<vars, inboxVars, formVars>>
OfOffices == <<appVars, chatReviewVars>>

PartsNext ==
    /\ part' = part
    /\ \/ part = "checkouts" /\ Next /\ UNCHANGED <<inboxVars, formVars, OfOffices>>
       \/ part = "list" /\ InboxNext /\ UNCHANGED <<vars, formVars, OfOffices>>
       \/ part = "form" /\ FormNext /\ UNCHANGED <<vars, inboxVars, OfOffices>>
       \/ part = "applications" /\ ApplicationsNext /\ UNCHANGED <<OfClients, chatReviewVars>>
       \/ part = "chats" /\ ChatReviewNext /\ UNCHANGED <<OfClients, appVars>>

PartsSpec == PartsInit /\ [][PartsNext]_partVars /\ \A t \in Trans : WF_vars(ClickRetries(t))
================================================================================
