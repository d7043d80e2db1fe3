------------------------------ MODULE MCServices ------------------------------
(* Checking instances of the services that share no state, in one run: the     *)
(* initial state chooses which of them runs, and the others stand still.       *)
EXTENDS Numbers, Plans, Sessions, Groups, Friends, Verification, TLC

VARIABLE part
vars == <<part, numbersVars, plansVars, sessionVars, groupVars, friendVars, verificationVars>>

\* The services share the values for users, devices and payments, and for handlers.
Symmetry == Permutations(NumberUser) \cup Permutations(NumberReq) \cup Permutations(FreeNumber)

\* Numbers and groups that nobody uses: every account is purged, the group is gone.
NumbersStill ==
    /\ row = [n \in NumberSet |-> NoRow] /\ userNumber = [u \in NumberUser |-> NoOne]
    /\ cooling = {} /\ granted = [p \in NumberPayment |-> 0]
    /\ numPay = [p \in NumberPayment |-> [status |-> "absent", user |-> NoOne, num |-> NoOne]]
    /\ numReq = [r \in NumberReq |-> NoReq] /\ serial = FALSE /\ numOps = 0

GroupStill ==
    /\ role = [u \in GroupUser |-> "none"] /\ creator = CHOOSE u \in GroupUser : TRUE
    /\ groupOpen = FALSE /\ inviteOn = FALSE /\ super = FALSE
    /\ gReq = [q \in GroupReq |-> NoGroupReq] /\ oneByOne = FALSE /\ groupOps = 0

Init ==
    /\ part \in {"numbers", "plans", "sessions", "groups", "friends", "verification"}
    /\ IF part = "numbers" THEN NumbersInit ELSE NumbersStill
    /\ PlansInit
    /\ SessionsInit
    /\ IF part = "groups" THEN GroupInit ELSE GroupStill
    /\ FriendInit /\ (part # "friends" => ~patient)
    /\ VerificationInit /\ (part # "verification" => ~oneAdmin)

Next ==
    /\ part' = part
    /\ \/ /\ part = "numbers" /\ NumbersNext
          /\ UNCHANGED <<plansVars, sessionVars, groupVars, friendVars, verificationVars>>
       \/ /\ part = "plans" /\ PlansNext
          /\ UNCHANGED <<numbersVars, sessionVars, groupVars, friendVars, verificationVars>>
       \/ /\ part = "sessions" /\ SessionsNext
          /\ UNCHANGED <<numbersVars, plansVars, groupVars, friendVars, verificationVars>>
       \/ /\ part = "groups" /\ GroupNext
          /\ UNCHANGED <<numbersVars, plansVars, sessionVars, friendVars, verificationVars>>
       \/ /\ part = "friends" /\ FriendNext
          /\ UNCHANGED <<numbersVars, plansVars, sessionVars, groupVars, verificationVars>>
       \/ /\ part = "verification" /\ VerificationNext
          /\ UNCHANGED <<numbersVars, plansVars, sessionVars, groupVars, friendVars>>

Spec == Init /\ [][Next]_vars
================================================================================
