------------------------------ MODULE Delivery ------------------------------
(***************************************************************************)
(* What sending a message promises, whatever becomes of the network, the   *)
(* app and the backend's requests: what the user sent off reaches the chat *)
(* at most once, and the device keeps it, in hand or on disk, until the    *)
(* chat holds it or the user knows.  What was only in hand when the app    *)
(* ended is the one thing nobody knows about.                              *)
(***************************************************************************)
EXTENDS Naturals

CONSTANT Message

VARIABLES
    given,     \* messages the user sent off
    hand,      \* those the app is busy with, in memory only
    shelf,     \* those kept on disk
    copies,    \* how often the chat holds each
    known,     \* those the user was told had failed, or took back
    cut        \* those that were in hand when the app ended

vars == <<given, hand, shelf, copies, known, cut>>

Init ==
    /\ given = {} /\ hand = {} /\ shelf = {} /\ known = {} /\ cut = {}
    /\ copies = [m \in Message |-> 0]

\* The user sends m off: it is taken in hand, put on disk, or handed back with a word.
Give(m) ==
    /\ m \notin given
    /\ given' = given \cup {m}
    /\ \/ hand' = hand \cup {m} /\ UNCHANGED <<shelf, known>>
       \/ shelf' = shelf \cup {m} /\ UNCHANGED <<hand, known>>
       \/ known' = known \cup {m} /\ UNCHANGED <<hand, shelf>>
    /\ UNCHANGED <<copies, cut>>

\* The chat gets it, whether or not the device still keeps it.
Arrive(m) ==
    /\ m \in given
    /\ copies[m] = 0
    /\ copies' = [copies EXCEPT ![m] = 1]
    /\ UNCHANGED <<given, hand, shelf, known, cut>>

\* The device goes on: what it had in hand it may put on disk; what it lets go the
\* chat holds or the user knows.
GoOn ==
    /\ hand' \subseteq hand /\ shelf' \subseteq shelf \cup hand
    /\ known \subseteq known' /\ cut \subseteq cut' /\ known' \cup cut' \subseteq given
    /\ \A m \in shelf \ shelf' : copies[m] > 0 \/ m \in known'
    /\ \A m \in hand \ hand' : copies[m] > 0 \/ m \in shelf' \cup known' \cup cut'
    /\ UNCHANGED <<given, copies>>

Next ==
    \/ GoOn
    \/ \E m \in Message : Give(m) \/ Arrive(m)

Spec == Init /\ [][Next]_vars

\* Nothing is lost and nothing comes twice.
Accounted ==
    /\ \A m \in Message : copies[m] <= 1
    /\ \A m \in given : copies[m] > 0 \/ m \in hand \cup shelf \cup known \cup cut
=============================================================================
