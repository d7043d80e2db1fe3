--------------------------------- MODULE Groups ---------------------------------
(***************************************************************************)
(* One group chat (services/group_admin.py, create_group_chat of           *)
(* services/chats.py): who is in it, with which role, who is named as its  *)
(* creator, its invite link and its member limit.                          *)
(*                                                                         *)
(* A request loads the participant rows it needs and checks them, then     *)
(* writes.  Nothing is locked.  SQLAlchemy writes what differs from what   *)
(* was loaded, an update of a row deleted meanwhile raises, and a user has *)
(* one row per group.                                                      *)
(***************************************************************************)
EXTENDS Naturals, FiniteSets

CONSTANTS GroupUser,
          GroupReq,      \* requests open at the same time
          GroupLimit,    \* member_limit of a group that is not super
          MaxGroupOps,   \* bound: requests
          NoMember

ASSUME GroupAssumption == NoMember \notin GroupUser /\ GroupLimit \in Nat

VARIABLES
    role,       \* chat_participants: the role of each user, or none
    creator,    \* chats.created_by
    groupOpen,  \* the chats row exists
    inviteOn,   \* invite_enabled, with a token
    super,      \* is_super
    gReq,       \* open requests
    oneByOne,   \* does each user wait for an answer before the next request
    groupOps    \* counter for the bound

groupVars == <<role, creator, groupOpen, inviteOn, super, gReq, oneByOne, groupOps>>

Role == {"member", "admin", "owner"}
Staff == {"admin", "owner"}
NoGroupReq == [op |-> "none", by |-> NoMember, on |-> NoMember, creator |-> NoMember,
               was |-> "none", stale |-> FALSE]

\* create_group_chat: one owner, the others members.
GroupInit ==
    /\ \E u \in GroupUser, others \in SUBSET GroupUser :
          /\ u \notin others /\ others # {} /\ Cardinality(others) < GroupLimit
          /\ creator = u
          /\ role = [v \in GroupUser |-> IF v = u THEN "owner"
                                         ELSE IF v \in others THEN "member" ELSE "none"]
    /\ groupOpen = TRUE
    /\ inviteOn = TRUE
    /\ super = FALSE
    /\ gReq = [q \in GroupReq |-> NoGroupReq]
    /\ oneByOne \in BOOLEAN
    /\ groupOps = 0

InGroup == {u \in GroupUser : role[u] # "none"}

(***************************************************************************)
(* What a request loads and checks                                         *)
(***************************************************************************)

\* User u acts on user v, whose row was loaded.
GroupLoad(q, op, u, v) ==
    /\ gReq[q].op = "none"
    /\ groupOpen
    /\ groupOps < MaxGroupOps
    /\ oneByOne => \A r \in GroupReq : gReq[r].by # u
    /\ gReq' = [gReq EXCEPT ![q] = [op |-> op, by |-> u, on |-> v, creator |-> creator,
                                    was |-> role[v], stale |-> FALSE]]
    /\ groupOps' = groupOps + 1
    /\ UNCHANGED <<role, creator, groupOpen, inviteOn, super, oneByOne>>

RoomFor == super \/ Cardinality(InGroup) < GroupLimit

\* add_members, one user at a time: any member may, below the limit.
AddLoad(q, u, v) ==
    /\ role[u] # "none" /\ role[v] = "none" /\ RoomFor
    /\ GroupLoad(q, "add", u, v)

\* join_by_token: the link is enabled and the group not full.
JoinLoad(q, u) ==
    /\ role[u] = "none" /\ inviteOn /\ RoomFor
    /\ GroupLoad(q, "add", u, u)

\* remove_member: by the owner or an admin; never the owner, and an admin
\* removes no admin.
RemoveLoad(q, u, v) ==
    /\ role[u] \in Staff /\ u # v
    /\ role[v] \in {"member", "admin"}
    /\ ~(role[u] = "admin" /\ role[v] = "admin")
    /\ GroupLoad(q, "remove", u, v)

\* leave_group: everybody but the owner.
LeaveLoad(q, u) ==
    /\ role[u] \in {"member", "admin"}
    /\ GroupLoad(q, "remove", u, u)

\* Mutated form: an admin may hand the group over as well.
TransferLoadByStaff(q, u, v) ==
    /\ role[u] \in Staff /\ u # v /\ role[v] # "none"
    /\ GroupLoad(q, "transfer", u, v)

\* transfer_ownership, promote_admin, demote_admin and delete_group: the owner.
TransferLoad(q, u, v) ==
    /\ role[u] = "owner" /\ u # v /\ role[v] # "none"
    /\ GroupLoad(q, "transfer", u, v)

PromoteLoad(q, u, v) ==
    /\ role[u] = "owner" /\ role[v] \in {"member", "admin"}
    /\ GroupLoad(q, "promote", u, v)

DemoteLoad(q, u, v) ==
    /\ role[u] = "owner" /\ role[v] = "admin"
    /\ GroupLoad(q, "demote", u, v)

DeleteLoad(q, u) ==
    /\ role[u] = "owner"
    /\ GroupLoad(q, "delete", u, u)

(***************************************************************************)
(* What it writes                                                          *)
(***************************************************************************)

\* Request q is over; the rows of the users in S are gone for the others.
GroupDone(q, S) ==
    gReq' = [r \in GroupReq |->
        IF r = q THEN NoGroupReq
        ELSE [gReq[r] EXCEPT !.stale = @ \/ (gReq[r].on \in S /\ gReq[r].was # "none")
                                         \/ (gReq[r].op = "transfer" /\ gReq[r].by \in S)]]

\* An error answer, or a row that is gone or there already: rolled back.
GroupFails(q) ==
    /\ gReq[q].op # "none"
    /\ GroupDone(q, {})
    /\ UNCHANGED <<role, creator, groupOpen, inviteOn, super, oneByOne, groupOps>>

AddMember(q) ==
    LET r == gReq[q] IN
    /\ r.op = "add"
    /\ groupOpen /\ role[r.on] = "none"
    /\ role' = [role EXCEPT ![r.on] = "member"]
    /\ GroupDone(q, {})
    /\ UNCHANGED <<creator, groupOpen, inviteOn, super, oneByOne, groupOps>>

\* The row that was loaded goes, whatever role it has by now; deleting a row
\* that is gone only warns.
RemoveMember(q) ==
    LET r == gReq[q] IN
    /\ r.op = "remove"
    /\ IF r.stale THEN UNCHANGED role /\ GroupDone(q, {})
       ELSE role' = [role EXCEPT ![r.on] = "none"] /\ GroupDone(q, {r.on})
    /\ UNCHANGED <<creator, groupOpen, inviteOn, super, oneByOne, groupOps>>

\* Mutated form: the old owner keeps the role.
TransferKeepsOwner(q) ==
    LET r == gReq[q] IN
    /\ r.op = "transfer"
    /\ ~r.stale
    /\ role' = [role EXCEPT ![r.on] = "owner"]
    /\ creator' = IF r.creator = r.on THEN creator ELSE r.on
    /\ GroupDone(q, {})
    /\ UNCHANGED <<groupOpen, inviteOn, super, oneByOne, groupOps>>

Transfer(q) ==
    LET r == gReq[q] IN
    /\ r.op = "transfer"
    /\ ~r.stale
    /\ role' = [role EXCEPT ![r.by] = "admin", ![r.on] = IF r.was = "owner" THEN @ ELSE "owner"]
    /\ creator' = IF r.creator = r.on THEN creator ELSE r.on
    /\ GroupDone(q, {})
    /\ UNCHANGED <<groupOpen, inviteOn, super, oneByOne, groupOps>>

\* promote_admin and demote_admin write the role unless the row had it.
SetRole(q) ==
    LET r == gReq[q]
        new == IF r.op = "promote" THEN "admin" ELSE "member" IN
    /\ r.op \in {"promote", "demote"}
    /\ r.stale => r.was = new
    /\ role' = IF r.was = new THEN role ELSE [role EXCEPT ![r.on] = new]
    /\ GroupDone(q, {})
    /\ UNCHANGED <<creator, groupOpen, inviteOn, super, oneByOne, groupOps>>

\* The participant rows go with the chat.
DeleteGroup(q) ==
    /\ gReq[q].op = "delete"
    /\ groupOpen' = FALSE
    /\ role' = [u \in GroupUser |-> "none"]
    /\ GroupDone(q, GroupUser)
    /\ UNCHANGED <<creator, inviteOn, super, oneByOne, groupOps>>

\* get_invite or regenerate_invite, and disable_invite, by the staff.
SetInvite(u, on) ==
    /\ role[u] \in Staff
    /\ inviteOn # on
    /\ inviteOn' = on
    /\ UNCHANGED <<role, creator, groupOpen, super, gReq, oneByOne, groupOps>>

\* mark_chat_super, when a member's payment succeeds.
MarkSuper ==
    /\ groupOpen /\ ~super
    /\ super' = TRUE
    /\ UNCHANGED <<role, creator, groupOpen, inviteOn, gReq, oneByOne, groupOps>>

GroupNext ==
    \/ \E q \in GroupReq, u, v \in GroupUser : AddLoad(q, u, v)
    \/ \E q \in GroupReq, u \in GroupUser : JoinLoad(q, u)
    \/ \E q \in GroupReq, u, v \in GroupUser : RemoveLoad(q, u, v)
    \/ \E q \in GroupReq, u \in GroupUser : LeaveLoad(q, u)
    \/ \E q \in GroupReq, u, v \in GroupUser : TransferLoad(q, u, v)
    \/ \E q \in GroupReq, u, v \in GroupUser : PromoteLoad(q, u, v)
    \/ \E q \in GroupReq, u, v \in GroupUser : DemoteLoad(q, u, v)
    \/ \E q \in GroupReq, u \in GroupUser : DeleteLoad(q, u)
    \/ \E q \in GroupReq : GroupFails(q)
    \/ \E q \in GroupReq : AddMember(q)
    \/ \E q \in GroupReq : RemoveMember(q)
    \/ \E q \in GroupReq : Transfer(q)
    \/ \E q \in GroupReq : SetRole(q)
    \/ \E q \in GroupReq : DeleteGroup(q)
    \/ \E u \in GroupUser, on \in BOOLEAN : SetInvite(u, on)
    \/ MarkSuper

GroupSpec == GroupInit /\ [][GroupNext]_groupVars

(***************************************************************************)
(* Properties                                                              *)
(***************************************************************************)

GroupTypeOK ==
    /\ role \in [GroupUser -> Role \cup {"none"}]
    /\ creator \in GroupUser
    /\ groupOpen \in BOOLEAN /\ inviteOn \in BOOLEAN /\ super \in BOOLEAN
    /\ \A q \in GroupReq :
          /\ gReq[q].op \in {"none", "add", "remove", "transfer", "promote", "demote", "delete"}
          /\ gReq[q].by \in GroupUser \cup {NoMember}
          /\ gReq[q].on \in GroupUser \cup {NoMember}

\* While each user waits for an answer before the next request, a group has at
\* most one owner, and created_by names that user, whatever transfers,
\* promotions, removals, departures and joins overlap.
OneOwner ==
    oneByOne => \A u \in GroupUser : role[u] = "owner" => u = creator
================================================================================
