-------------------------------- MODULE Catalogue --------------------------------
(***************************************************************************)
(* The list of the products screen (products_screen.dart): loading, the    *)
(* search while the user types, the filters, the favourites and the own    *)
(* products all write the same list, each when its call is answered.  A    *)
(* load carries a generation and a search a number, and an answer that is  *)
(* not of the newest is dropped; the others have no such guard.            *)
(*                                                                         *)
(* A list is told by what was asked for: the text, whether a filter was    *)
(* set, and the endpoint.  Texts are numbers; a text is smart or not.      *)
(***************************************************************************)
EXTENDS Naturals

CONSTANTS Text,        \* what can be typed
          SmartText,   \* texts with several words, or a hint
          Task,        \* handlers running at the same time
          MaxActs      \* bound: actions of the user

ASSUME CatalogueAssumption == Text \subseteq Nat \ {0} /\ SmartText \subseteq Text

VARIABLES
    query,     \* state.query, 0 when empty
    filter,    \* is a filter set (category, country, role, the toggles)
    favs,      \* showingFavorites
    loading, searching,
    list,      \* what was asked for the list that is shown
    typed,     \* the text the debounce timer will search for, 0 without a timer
    gen, seq,  \* _loadGen, _searchSeq
    task,      \* handlers waiting for an answer
    acts       \* counter for the bound

catVars == <<query, filter, favs, loading, searching, list, typed, gen, seq, task, acts>>

NoTask == [kind |-> "none", at |-> "start", text |-> 0, filter |-> FALSE, gen |-> 0, seq |-> 0]
Listing(text, f, from) == [text |-> text, filter |-> f, from |-> from]

CatalogueInit ==
    /\ query = 0 /\ filter = FALSE /\ favs = FALSE
    /\ loading = TRUE /\ searching = FALSE
    /\ list = Listing(0, FALSE, "none") /\ typed = 0 /\ gen = 1 /\ seq = 0
    /\ task \in {[t \in Task |-> IF t = f THEN [NoTask EXCEPT !.kind = "load", !.gen = 1]
                                 ELSE NoTask] : f \in Task}
    /\ acts = 0

Acts == acts < MaxActs /\ acts' = acts + 1
Starts(t, r) == task[t] = NoTask /\ task' = [task EXCEPT ![t] = r]
Ends(t) == task' = [task EXCEPT ![t] = NoTask]

\* _load begins: a new generation, the favourites left, and without keepQuery the
\* text cleared.
Loads(t, keep) ==
    /\ gen' = gen + 1 /\ loading' = TRUE /\ favs' = FALSE
    /\ query' = IF keep THEN query ELSE 0
    /\ Starts(t, [NoTask EXCEPT !.kind = "load", !.gen = gen + 1,
                                !.text = IF keep THEN query ELSE 0])

(***************************************************************************)
(* What the user does                                                      *)
(***************************************************************************)

\* ProductsSearchChanged with a text: the timer is set anew.
Type(x) ==
    /\ Acts /\ x \in Text
    /\ query' = x /\ typed' = x /\ searching' = TRUE
    /\ UNCHANGED <<filter, favs, loading, list, gen, seq, task>>

\* Mutated form: the flag of the search that was called off is left set.
EmptyForgets(t) ==
    /\ Acts /\ typed' = 0
    /\ Loads(t, FALSE)
    /\ UNCHANGED <<filter, list, seq, searching>>

\* ProductsSearchChanged with nothing left in the field.
Empty(t) ==
    /\ Acts /\ typed' = 0 /\ searching' = FALSE
    /\ Loads(t, FALSE)
    /\ UNCHANGED <<filter, list, seq>>

\* RefreshProducts, and the way back from an own product or its form.  Either leaves
\* the favourites, the first like their button does.
Refresh(t) ==
    /\ Acts /\ \E keep \in {~favs, TRUE} : Loads(t, keep)
    /\ UNCHANGED <<filter, searching, list, typed, seq>>

\* ShowFavorites: the button shows them, or goes back to all products.
ShowFavorites(t) ==
    /\ Acts
    /\ \/ /\ favs /\ Loads(t, FALSE)
       \/ /\ ~favs /\ loading' = TRUE /\ favs' = TRUE
          /\ Starts(t, [NoTask EXCEPT !.kind = "favs"])
          /\ UNCHANGED <<query, gen>>
    /\ UNCHANGED <<filter, searching, list, typed, seq>>

\* After an own product was changed, deleted or paid for.
LoadMine(t) ==
    /\ Acts /\ loading' = TRUE /\ favs' = FALSE
    /\ Starts(t, [NoTask EXCEPT !.kind = "mine"])
    /\ UNCHANGED <<query, filter, searching, list, typed, gen, seq>>

\* A filter is set or taken off, by a chip, the sheet, a banner or the map, and the
\* list asked for again; the banner of recommended products leaves the text out.
SetFilter(t, on) ==
    /\ Acts /\ filter' = on /\ searching' = TRUE
    /\ \E text \in {query} \cup (IF on THEN {0} ELSE {}) :
          Starts(t, [NoTask EXCEPT !.kind = "filter", !.text = text, !.filter = on])
    /\ UNCHANGED <<query, favs, loading, list, typed, gen, seq>>

(***************************************************************************)
(* Timers and answers                                                      *)
(***************************************************************************)

Searching(text, t) ==
    [task[t] EXCEPT !.at = IF text \in SmartText THEN "smart" ELSE "plain",
                    !.text = text, !.filter = filter, !.seq = seq + 1]

\* 450 ms after the last key: _runSmartSearch.
Debounce(t) ==
    /\ typed # 0 /\ task[t] = NoTask
    /\ typed' = 0 /\ seq' = seq + 1
    /\ task' = [task EXCEPT ![t] = [Searching(typed, t) EXCEPT !.kind = "search"]]
    /\ UNCHANGED <<query, filter, favs, loading, searching, list, gen, acts>>

\* The slots of the top row came (or not): the load goes on with the search for the
\* text, or the list, unless a newer load has begun.
TopAnswered(t) ==
    /\ task[t].kind = "load" /\ task[t].at = "start"
    /\ \/ task[t].gen # gen /\ Ends(t) /\ seq' = seq
       \/ /\ task[t].gen = gen /\ task[t].text = 0 /\ seq' = seq
          /\ task' = [task EXCEPT ![t].at = "list", ![t].filter = filter]
       \/ /\ task[t].gen = gen /\ task[t].text # 0 /\ seq' = seq + 1
          /\ task' = [task EXCEPT ![t] = Searching(task[t].text, t)]
    /\ UNCHANGED <<query, filter, favs, loading, searching, list, typed, gen, acts>>

\* What follows the answer that a handler waited for: a typed search ends its
\* progress bar, a load that is still the newest its own.
Flags(t) ==
    /\ searching' = IF task[t].kind \in {"search", "filter"} THEN FALSE ELSE searching
    /\ loading' = IF \/ task[t].kind = "load" /\ task[t].gen = gen
                     \/ task[t].kind \in {"favs", "mine"}
                  THEN FALSE ELSE loading

Finish(t) == Ends(t) /\ Flags(t)

\* A load is answered.
ListAnswered(t) ==
    /\ task[t].kind = "load" /\ task[t].at = "list"
    /\ Finish(t)
    /\ \/ list' = list
       \/ task[t].gen = gen /\ list' = Listing(0, task[t].filter, "list")
    /\ UNCHANGED <<query, filter, favs, typed, gen, seq, acts>>

\* A search is answered: dropped when a newer one has begun.  A smart one sets the
\* filters to what it understood; when it fails the plain one is asked, which nobody
\* waits for.
SearchAnswered(t) ==
    /\ task[t].at \in {"smart", "plain"}
    /\ \/ task[t].seq # seq /\ Finish(t) /\ UNCHANGED <<list, filter>>
       \/ /\ task[t].seq = seq /\ task[t].at = "plain" /\ Finish(t)
          /\ list' \in {list, Listing(task[t].text, task[t].filter, "list")}
          /\ filter' = filter
       \/ /\ task[t].seq = seq /\ task[t].at = "smart" /\ Finish(t)
          /\ list' = Listing(task[t].text, FALSE, "smart")
          /\ filter' \in BOOLEAN
       \/ /\ task[t].seq = seq /\ task[t].at = "smart" /\ Flags(t)
          /\ task' = [task EXCEPT ![t].kind = "fallback", ![t].at = "plain", ![t].filter = filter]
          /\ UNCHANGED <<list, filter>>
    /\ UNCHANGED <<query, favs, typed, gen, seq, acts>>

\* A filtered list is answered.
FilterAnswered(t) ==
    /\ task[t].kind = "filter" /\ Finish(t)
    /\ list' \in {list, Listing(task[t].text, task[t].filter, "list")}
    /\ UNCHANGED <<query, filter, favs, typed, gen, seq, acts>>

\* The favourites, or the own products, come or fail: then the list is empty.
OwnAnswered(t) ==
    /\ task[t].kind \in {"favs", "mine"} /\ Finish(t)
    /\ \/ list' = Listing(0, FALSE, task[t].kind) /\ favs' = favs
       \/ list' = Listing(0, FALSE, "none") /\ favs' = (favs /\ task[t].kind # "favs")
    /\ UNCHANGED <<query, filter, typed, gen, seq, acts>>

Answers(t) == \/ TopAnswered(t) \/ ListAnswered(t) \/ SearchAnswered(t)
              \/ FilterAnswered(t) \/ OwnAnswered(t)

CatalogueNext ==
    \/ \E x \in Text : Type(x)
    \/ \E t \in Task : \/ Empty(t) \/ Refresh(t) \/ ShowFavorites(t) \/ LoadMine(t)
                       \/ \E on \in BOOLEAN : SetFilter(t, on)
                       \/ Debounce(t) \/ Answers(t)

\* Every call is answered or times out, and the debounce timer rings.
CatalogueFairness ==
    /\ \A t \in Task : WF_catVars(Answers(t))
    /\ WF_catVars(\E t \in Task : Debounce(t))

CatalogueSpec == CatalogueInit /\ [][CatalogueNext]_catVars /\ CatalogueFairness

(***************************************************************************)
(* Properties                                                              *)
(***************************************************************************)

CatalogueTypeOK ==
    /\ query \in Text \cup {0} /\ typed \in Text \cup {0}
    /\ {filter, favs, loading, searching} \subseteq BOOLEAN
    /\ list.from \in {"none", "list", "smart", "favs", "mine"}
    /\ \A t \in Task : task[t].kind \in {"none", "load", "search", "filter", "favs", "mine", "fallback"}

\* However searches, loads, filters and favourites overtake each other, are called
\* off or fail: the screen does not show progress for ever.
ProgressEnds == (loading ~> ~loading) /\ (searching ~> ~searching)
=================================================================================
