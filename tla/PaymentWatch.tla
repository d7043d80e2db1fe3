------------------------------ MODULE PaymentWatch ------------------------------
(***************************************************************************)
(* How a screen follows a payment that is made in the browser: the         *)
(* checkout, the timer that asks the backend every three seconds, the poll *)
(* when the app comes back, and the messages.  Four screens do it, with    *)
(* small differences: numbers_screen.dart, subscription_screen.dart,       *)
(* products_screen.dart and product_info_bottom_sheet.dart (here "plans",  *)
(* too, since the two are alike).  The fields of the screen are not tied   *)
(* to a payment, so a late callback acts on whichever is followed now.     *)
(***************************************************************************)
EXTENDS Naturals

CONSTANTS Buy,        \* payments, each made by one checkout of the screen
          MaxTries,   \* attempts of a timer (40)
          MaxTaps,    \* bound: returns to the app and taps on "check"
          NoBuy

ASSUME WatchAssumption == NoBuy \notin Buy /\ MaxTries \in Nat \ {0}

VARIABLES
    screen,    \* which of the screens it is
    alive,     \* the screen has not been disposed of
    status,    \* the status of each payment in the backend
    buying,    \* checkouts between their first call and their end
    pending,   \* _pendingPaymentId
    pollTimer, \* the payment whose checkout started the running timer
    tries,     \* attempts of each timer
    polls,     \* calls of getPayment not answered yet
    polling,   \* _polling
    taps,      \* counter for the bound
    heard,      \* payments the user got a message about
    oneAtATime     \* does the user make one payment at a time

watchVars == <<screen, alive, status, buying, pending, pollTimer, tries, polls, polling, taps,
               heard, oneAtATime>>

\* A flag keeps a second checkout out (purchasing, checkoutInFlight, _topBusy), but
\* not on the products screen; a flag keeps a second poll out, but not on the
\* numbers screen.
OneCheckout == screen # "products"
OnePoll == screen # "numbers"

WatchInit ==
    /\ screen \in {"numbers", "plans", "products"} /\ alive = TRUE /\ oneAtATime \in BOOLEAN
    /\ status = [p \in Buy |-> "absent"]
    /\ buying = {} /\ pending = NoBuy /\ pollTimer = NoBuy
    /\ tries = [p \in Buy |-> 0]
    /\ polls = {} /\ polling = FALSE /\ taps = 0 /\ heard = {}

\* A checkout creates the payment; the sheet that asks for a confirmation is shown.
Checkout(p) ==
    /\ alive /\ status[p] = "absent"
    /\ OneCheckout => buying = {}
    /\ oneAtATime => buying = {} /\ pending = NoBuy
    /\ buying' = buying \cup {p}
    /\ status' = [status EXCEPT ![p] = "pending"]
    /\ UNCHANGED <<screen, alive, pending, pollTimer, tries, polls, polling, taps, heard, oneAtATime>>

\* It was refused, not confirmed, or came without a link: nothing is followed.
CheckoutEnds(p) ==
    /\ p \in buying /\ buying' = buying \ {p}
    /\ UNCHANGED <<screen, alive, status, pending, pollTimer, tries, polls, polling, taps, heard, oneAtATime>>

\* The browser is opened and the payment followed, by a timer in place of the last
\* one.  Whether the screen is still there is not asked.
Follow(p) ==
    /\ p \in buying /\ buying' = buying \ {p}
    /\ pending' = p /\ pollTimer' = p /\ tries' = [tries EXCEPT ![p] = 0]
    /\ UNCHANGED <<screen, alive, status, polls, polling, taps, heard, oneAtATime>>

\* A webhook settles the payment, or it fails or expires.
Settled(p) ==
    /\ status[p] = "pending" /\ status' = [status EXCEPT ![p] = "over"]
    /\ UNCHANGED <<screen, alive, buying, pending, pollTimer, tries, polls, polling, taps, heard, oneAtATime>>

Asks(owner, n) ==
    /\ polls' = polls \cup {[owner |-> owner, about |-> pending, n |-> n]}
    /\ polling' = OnePoll

\* Three seconds pass.  Without a payment to ask for the timer ends.  Bound: one
\* attempt past the last, which only a screen without OnePoll makes.
Fires ==
    /\ pollTimer # NoBuy /\ ~polling /\ tries[pollTimer] <= MaxTries
    /\ tries' = [tries EXCEPT ![pollTimer] = @ + 1]
    /\ IF pending = NoBuy
       THEN pollTimer' = NoBuy /\ UNCHANGED <<polls, polling>>
       ELSE pollTimer' = pollTimer /\ Asks(pollTimer, tries[pollTimer] + 1)
    /\ UNCHANGED <<screen, alive, status, buying, pending, taps, heard, oneAtATime>>

\* The app comes back from the browser, or the user taps "check".
Resumes ==
    /\ alive /\ pending # NoBuy /\ ~polling
    /\ ~\E q \in polls : q.owner = NoBuy
    /\ taps < MaxTaps /\ taps' = taps + 1
    /\ Asks(NoBuy, 0)
    /\ UNCHANGED <<screen, alive, status, buying, pending, pollTimer, tries, heard, oneAtATime>>

\* The answer says that it is over: the user is told and nothing is followed.
PollResolves(q) ==
    /\ q \in polls /\ status[q.about] # "pending"
    /\ polls' = polls \ {q} /\ polling' = FALSE
    /\ heard' = heard \cup {q.about}
    /\ pending' = NoBuy /\ pollTimer' = NoBuy
    /\ UNCHANGED <<screen, alive, status, buying, tries, taps, oneAtATime>>

LastTry(q) == q.owner # NoBuy /\ tries[q.owner] >= MaxTries

\* Mutated form: the flag is not cleared when the call fails.
PollLeavesOpenKept(q) ==
    /\ q \in polls
    /\ polls' = polls \ {q} /\ polling' = polling
    /\ IF LastTry(q)
       THEN heard' = heard \cup {q.about} /\ pending' = NoBuy /\ pollTimer' = NoBuy
       ELSE UNCHANGED <<heard, pending, pollTimer>>
    /\ UNCHANGED <<screen, alive, status, buying, tries, taps, oneAtATime>>

\* The call failed, or the payment was open when the backend looked.  The callback
\* of a timer that has tried often enough tells the user to look later.
PollLeavesOpen(q) ==
    /\ q \in polls
    /\ polls' = polls \ {q} /\ polling' = FALSE
    /\ IF LastTry(q)
       THEN heard' = heard \cup {q.about} /\ pending' = NoBuy /\ pollTimer' = NoBuy
       ELSE UNCHANGED <<heard, pending, pollTimer>>
    /\ UNCHANGED <<screen, alive, status, buying, tries, taps, oneAtATime>>

\* The user leaves; calls on their way still come back.
LeaveScreen ==
    /\ alive /\ alive' = FALSE /\ pending' = NoBuy /\ pollTimer' = NoBuy
    /\ UNCHANGED <<screen, status, buying, tries, polls, polling, taps, heard, oneAtATime>>

PollAnswered == \E q \in polls : PollResolves(q) \/ PollLeavesOpen(q)

WatchNext ==
    \/ \E p \in Buy : Checkout(p) \/ CheckoutEnds(p) \/ Follow(p) \/ Settled(p)
    \/ Fires \/ Resumes \/ PollAnswered \/ LeaveScreen

\* The timer runs, and every call is answered or times out.
WatchFairness == WF_watchVars(Fires) /\ WF_watchVars(PollAnswered)

WatchSpec == WatchInit /\ [][WatchNext]_watchVars /\ WatchFairness

(***************************************************************************)
(* Properties                                                              *)
(***************************************************************************)

WatchTypeOK ==
    /\ buying \subseteq Buy /\ heard \subseteq Buy
    /\ status \in [Buy -> {"absent", "pending", "over"}]
    /\ pending \in Buy \cup {NoBuy} /\ pollTimer \in Buy \cup {NoBuy}
    /\ tries \in [Buy -> 0 .. MaxTries + 1] /\ taps \in 0 .. MaxTaps
    /\ polls \subseteq [owner : Buy \cup {NoBuy}, about : Buy, n : 0 .. MaxTries + 1]

\* Who pays and stays on the screen hears about the payment: paid, failed, or look
\* later, however calls of the timer, of the return to the app and of the button
\* overlap and fail.  For a user who makes one payment at a time, on the screens
\* that ask one question at a time.
PaymentTold ==
    \A p \in Buy : (oneAtATime /\ screen # "numbers" /\ alive /\ pending = p)
                   ~> (p \in heard \/ ~alive)
=================================================================================
