------------------------------- MODULE MCChatLife -------------------------------
(* Four parts of the app that share no state, in one run for what must happen:  *)
(* a message on its way to the server (ChatSend), after it was stored there     *)
(* (MessageLife), a screen that follows a payment (PaymentWatch) and the list   *)
(* of products (Catalogue).  The initial state chooses which one runs; the      *)
(* others stand still, and none of their fair actions is enabled.               *)
EXTENDS ChatSend, MessageLife, PaymentWatch, Catalogue

VARIABLE part
chatVars == <<part, vars, lifeVars, watchVars, catVars>>

\* The products screen when it is not opened.
CatalogueClosed ==
    /\ query = 0 /\ filter = FALSE /\ favs = FALSE /\ loading = FALSE /\ searching = FALSE
    /\ list = Listing(0, FALSE, "none") /\ typed = 0 /\ gen = 0 /\ seq = 0
    /\ task = [t \in Task |-> NoTask] /\ acts = 0

ChatInit ==
    /\ Init /\ LifeInit /\ WatchInit
    /\ part \in {"sending", "stored", "paying", "browsing"}
    /\ part # "stored" => calm /\ \A m \in LifeMsg : aged[m] /\ type[m] = "text"
    /\ IF part = "browsing" THEN CatalogueInit ELSE CatalogueClosed
    /\ part # "paying" => oneAtATime /\ screen = "plans"

ChatNext ==
    /\ part' = part
    /\ \/ part = "sending" /\ Next /\ UNCHANGED <<lifeVars, watchVars, catVars>>
       \/ part = "stored" /\ LifeNext /\ UNCHANGED <<vars, watchVars, catVars>>
       \/ part = "paying" /\ WatchNext /\ UNCHANGED <<vars, lifeVars, catVars>>
       \/ part = "browsing" /\ CatalogueNext /\ UNCHANGED <<vars, lifeVars, watchVars>>

ChatLifeSpec ==
    /\ ChatInit /\ [][ChatNext]_chatVars
    /\ Fairness /\ LifeFairness /\ WatchFairness /\ CatalogueFairness
================================================================================
