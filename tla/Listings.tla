-------------------------------- MODULE Listings --------------------------------
(***************************************************************************)
(* Marketplace listings (services/products.py, services/                   *)
(* product_moderation.py, the pin of api/v1/admin.py): the life of a       *)
(* product of one seller through moderation, and the TOP slots, which are  *)
(* paid by the week, extended, queued when all are taken, expired by a     *)
(* cron job and pinned by hand by an admin.  Each action is a committed    *)
(* transaction; top_pinned_until is kept as the number of weeks left.      *)
(***************************************************************************)
EXTENDS Naturals, FiniteSets, Sequences, SequencesExt

CONSTANTS Product, TopPayment, NoProduct,
          TopSlots,      \* PRODUCT_TOP_SLOTS
          StrikeLimit,   \* rejections until the seller may not submit
          MaxAdminPins,  \* bound: pins by hand
          MaxEdits       \* bound: edits and moderations

ASSUME ListingAssumption ==
    TopSlots \in Nat \ {0} /\ StrikeLimit \in Nat \ {0} /\ NoProduct \notin Product

VARIABLES
    top,         \* the products table and the product_top_requests table
    approved,    \* products whose present content an admin has approved
    strikes,     \* product_reject_strikes of the seller
    restricted,  \* whether listing_restricted_until is ahead
    topPay,      \* payments of kind product_top
    pins, edits  \* counters for the bounds

listingVars == <<top, approved, strikes, restricted, topPay, pins, edits>>

ListingStatus == {"absent", "draft", "pending", "published", "rejected", "archived"}

\* Nobody has submitted anything; one seller owns every product.
ListingInit ==
    /\ top = [status |-> [p \in Product |-> "absent"],
              pinned |-> {},                          \* is_top_pinned
              weeks  |-> [p \in Product |-> 0],       \* until top_pinned_until
              queue  |-> <<>>,                        \* queued requests, oldest paid_at first
              active |-> {}]                          \* products with an active request
    /\ approved = {}
    /\ strikes = 0
    /\ restricted = FALSE
    /\ topPay = [y \in TopPayment |-> [status |-> "absent", product |-> NoProduct,
                                       mode |-> "boost"]]
    /\ pins = 0
    /\ edits = 0

(***************************************************************************)
(* The TOP slots: count, activate, extend, expire, promote                 *)
(***************************************************************************)

InTop(t) == {p \in t.pinned : t.weeks[p] > 0}
SlotFree(t) == Cardinality(InTop(t)) < TopSlots
Queued(t) == ToSet(t.queue)

\* is_top_pinned = False: top_pinned_until has no reader then.
Unpinned(t, S) ==
    [t EXCEPT !.pinned = @ \ S,
              !.weeks = [p \in Product |-> IF p \in S THEN 0 ELSE @[p]]]

\* _activate_top_slot: a week from now, whatever was left; the product is
\* published whatever its status.
Activate(t, p) ==
    [t EXCEPT !.pinned = @ \cup {p}, !.weeks[p] = 1, !.status[p] = "published",
              !.active = @ \cup {p}]

\* _extend_top_slot: a week more, without a look at the slots.
Extend(t, p) ==
    [t EXCEPT !.pinned = @ \cup {p},
              !.weeks[p] = (IF p \in t.pinned THEN @ ELSE 0) + 1,
              !.status[p] = "published",
              !.active = @ \cup {p}]

\* One round of promote_top_queue's loop for p, the oldest of the queue.
PromoteOne(t, p) ==
    IF ~SlotFree(t) THEN t
    ELSE LET rest == [t EXCEPT !.queue = Tail(@)] IN
         IF t.status[p] = "archived" THEN rest ELSE Activate(rest, p)

\* promote_top_queue: while a slot is free, the queue in the order of payment.
Promoted(t) ==
    LET after[k \in 0..Len(t.queue)] ==
            IF k = 0 THEN t ELSE PromoteOne(after[k - 1], t.queue[k])
    IN after[Len(t.queue)]

\* Mutated form: the job takes the pins off and leaves the queue alone.
ExpiredOnly(t) ==
    LET out == {p \in t.pinned : t.weeks[p] = 0} IN
    [Unpinned(t, out) EXCEPT !.active = @ \ out]

\* expire_stale_top_pins: pins that ran out come off, then the queue moves up.
Expired(t) ==
    LET out == {p \in t.pinned : t.weeks[p] = 0} IN
    Promoted([Unpinned(t, out) EXCEPT !.active = @ \ out])

(***************************************************************************)
(* The seller: submit, edit, archive                                       *)
(***************************************************************************)

Edit == edits < MaxEdits /\ edits' = edits + 1

\* create_product: a "published" from the client becomes "pending".
CreateListing(p, st) ==
    /\ top.status[p] = "absent"
    /\ ~restricted
    /\ top' = [top EXCEPT !.status[p] = st]
    /\ UNCHANGED <<approved, strikes, restricted, topPay, pins, edits>>

\* update_product: the content of a published product that changes goes back
\* to moderation unless the seller asks for another status.
NewStatus(p, content, asked) ==
    IF asked # "same" THEN asked
    ELSE IF content /\ top.status[p] = "published" THEN "pending"
    ELSE top.status[p]

\* Mutated form: the pin stays on what goes to moderation.
EditKeepsPin(p, content, asked) ==
    LET st == NewStatus(p, content, asked) IN
    /\ top.status[p] # "absent"
    /\ Edit
    /\ top' = [top EXCEPT !.status[p] = st]
    /\ approved' = IF content THEN approved \ {p} ELSE approved
    /\ UNCHANGED <<strikes, restricted, topPay, pins>>

\* update_product with or without new content, and with the status asked for.
\* Going to moderation or back to draft takes the pin off; archiving does not.
EditListing(p, content, asked) ==
    LET st == NewStatus(p, content, asked)
        set == asked # "same" \/ st # top.status[p] IN
    /\ top.status[p] # "absent"
    /\ Edit
    /\ set /\ st = "pending" => ~restricted
    /\ top' = LET t == [top EXCEPT !.status[p] = st] IN
              IF set /\ st \in {"pending", "draft"} THEN Unpinned(t, {p}) ELSE t
    /\ approved' = IF content THEN approved \ {p} ELSE approved
    /\ UNCHANGED <<strikes, restricted, topPay, pins>>

\* archive_product: only the status; the pin stays and keeps its slot.
SellerArchive(p) ==
    /\ top.status[p] \notin {"absent", "archived"}
    /\ top' = [top EXCEPT !.status[p] = "archived"]
    /\ UNCHANGED <<approved, strikes, restricted, topPay, pins, edits>>

(***************************************************************************)
(* The admins: moderate, archive, pin                                      *)
(***************************************************************************)

Moderatable(p) == top.status[p] \in {"pending", "rejected", "draft", "published"}

\* moderate_product, approving: published, one strike forgiven.
Approve(p) ==
    /\ Moderatable(p)
    /\ Edit
    /\ top' = [top EXCEPT !.status[p] = "published"]
    /\ approved' = approved \cup {p}
    /\ strikes' = IF strikes > 0 THEN strikes - 1 ELSE 0
    /\ UNCHANGED <<restricted, topPay, pins>>

\* moderate_product, rejecting: the pin comes off, a strike is counted, and at
\* the limit the seller may not submit for a while.
Reject(p) ==
    /\ Moderatable(p)
    /\ Edit
    /\ top' = Unpinned([top EXCEPT !.status[p] = "rejected"], {p})
    /\ strikes' = IF strikes + 1 >= StrikeLimit THEN 0 ELSE strikes + 1
    /\ restricted' = (restricted \/ strikes + 1 >= StrikeLimit)
    /\ UNCHANGED <<approved, topPay, pins>>

RestrictionEnds ==
    /\ restricted
    /\ restricted' = FALSE
    /\ UNCHANGED <<top, approved, strikes, topPay, pins, edits>>

AdminArchive(p) ==
    /\ top.status[p] # "absent"
    /\ top' = Unpinned([top EXCEPT !.status[p] = "archived"], {p})
    /\ UNCHANGED <<approved, strikes, restricted, topPay, pins, edits>>

\* A pin by hand: a published product, and a free slot unless it is pinned.
AdminPin(p) ==
    /\ pins < MaxAdminPins
    /\ top.status[p] = "published"
    /\ p \in top.pinned \/ SlotFree(top)
    /\ top' = [top EXCEPT !.pinned = @ \cup {p}, !.weeks[p] = 1]
    /\ pins' = pins + 1
    /\ UNCHANGED <<approved, strikes, restricted, topPay, edits>>

AdminUnpin(p) ==
    /\ p \in top.pinned
    /\ top' = Promoted(Unpinned(top, {p}))
    /\ UNCHANGED <<approved, strikes, restricted, topPay, pins, edits>>

(***************************************************************************)
(* Paying for TOP                                                          *)
(***************************************************************************)

\* prepare_product_top_checkout: expire first, then a published product that
\* is not queued; what is in TOP, or has an active request, is an extension.
PrepareTop(y, p) ==
    LET t == Expired(top) IN
    /\ topPay[y].status = "absent"
    /\ t.status[p] = "published"
    /\ p \in InTop(t) \cup t.active \/ p \notin Queued(t)
    /\ top' = t
    /\ topPay' = [topPay EXCEPT ![y] =
          [status |-> "pending", product |-> p,
           mode |-> IF p \in InTop(t) \cup t.active THEN "extend" ELSE "boost"]]
    /\ UNCHANGED <<approved, strikes, restricted, pins, edits>>

\* A payment for a product that waits already: it goes to the back.
Requeued(t, p) ==
    LET at == CHOOSE i \in DOMAIN t.queue : t.queue[i] = p IN
    Promoted([t EXCEPT !.queue = Append(RemoveAt(@, at), p)])

\* A first payment: queued, and activated at once when a slot is free.
Entered(t, p) ==
    IF SlotFree(t) THEN Activate(t, p) ELSE [t EXCEPT !.queue = Append(@, p)]

\* Mutated form: an extension is refused its slot when all are taken.
BoughtStrict(t, p, mode) ==
    IF ~SlotFree(t) /\ p \notin InTop(t) THEN t
    ELSE IF mode = "extend" \/ p \in InTop(t) \cup t.active THEN Extend(t, p)
    ELSE IF p \in Queued(t) THEN Requeued(t, p)
    ELSE Entered(t, p)

\* What activate_product_top_from_payment does after expiring.
Bought(t, p, mode) ==
    IF mode = "extend" \/ p \in InTop(t) \cup t.active THEN Extend(t, p)
    ELSE IF p \in Queued(t) THEN Requeued(t, p)
    ELSE Entered(t, p)

\* The payment succeeds and is fulfilled in one transaction.
SettleTop(y) ==
    /\ topPay[y].status = "pending"
    /\ top' = Bought(Expired(top), topPay[y].product, topPay[y].mode)
    /\ topPay' = [topPay EXCEPT ![y].status = "paid"]
    /\ UNCHANGED <<approved, strikes, restricted, pins, edits>>

\* expire_stale_top_pins_job, every five minutes.
ExpireJob ==
    /\ Expired(top) # top
    /\ top' = Expired(top)
    /\ UNCHANGED <<approved, strikes, restricted, topPay, pins, edits>>

\* A week passes.
Week ==
    /\ InTop(top) # {}
    /\ top' = [top EXCEPT !.weeks = [p \in Product |-> IF @[p] > 0 THEN @[p] - 1 ELSE 0]]
    /\ UNCHANGED <<approved, strikes, restricted, topPay, pins, edits>>

ListingNext ==
    \/ \E p \in Product, st \in {"draft", "pending"} : CreateListing(p, st)
    \/ \E p \in Product, content \in BOOLEAN,
          asked \in {"same", "draft", "pending", "archived"} : EditListing(p, content, asked)
    \/ \E p \in Product : SellerArchive(p)
    \/ \E p \in Product : Approve(p)
    \/ \E p \in Product : Reject(p)
    \/ RestrictionEnds
    \/ \E p \in Product : AdminArchive(p)
    \/ \E p \in Product : AdminPin(p)
    \/ \E p \in Product : AdminUnpin(p)
    \/ \E y \in TopPayment, p \in Product : PrepareTop(y, p)
    \/ \E y \in TopPayment : SettleTop(y)
    \/ ExpireJob
    \/ Week

\* Time passes, and the cron job runs every five minutes.
ListingFairness == WF_listingVars(Week) /\ WF_listingVars(ExpireJob)

ListingSpec == ListingInit /\ [][ListingNext]_listingVars /\ ListingFairness

(***************************************************************************)
(* Properties                                                              *)
(***************************************************************************)

ListingTypeOK ==
    /\ top.status \in [Product -> ListingStatus]
    /\ top.pinned \subseteq Product
    /\ top.weeks \in [Product -> Nat]
    /\ top.queue \in Seq(Product)
    /\ top.active \subseteq Product
    /\ approved \subseteq Product
    /\ strikes \in 0..(StrikeLimit - 1)
    /\ restricted \in BOOLEAN
    /\ topPay \in [TopPayment -> [status : {"absent", "pending", "paid"},
                                  product : Product \cup {NoProduct},
                                  mode : {"boost", "extend"}]]

\* What waits for moderation, was rejected or is a draft holds no TOP slot:
\* every path out of "published" but the archive takes the pin off.
PinnedIsListed ==
    \A p \in top.pinned : top.status[p] \in {"published", "archived"}

\* A paid week is on TOP or in the queue when its payment settles, whatever
\* happened to the product and to the slots since the checkout.
PaidTopDelivered ==
    [][\A y \in TopPayment :
          topPay[y].status = "pending" /\ topPay'[y].status = "paid"
          => topPay[y].product \in InTop(top') \cup Queued(top')]_listingVars

\* Whoever is queued leaves the queue: pins run out and the job promotes.
QueueServed ==
    \A p \in Product : (p \in Queued(top)) ~> (p \notin Queued(top))

\* "Mijoz published yuborsa -> pending (admin tasdiqlamaguncha e'lon emas)":
\* nothing is published that no admin has approved as it is.
PublishedIsApproved ==
    \A p \in Product : top.status[p] = "published" => p \in approved
================================================================================
