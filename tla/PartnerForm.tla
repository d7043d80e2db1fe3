------------------------------- MODULE PartnerForm -------------------------------
(***************************************************************************)
(* The form of a partner application (landing/partner-apply): four steps,  *)
(* product cards drawn from state.products and read back from the page,    *)
(* files uploaded in the background, a draft in localStorage, and one      *)
(* submission.  An image is pushed to state.products[idx] when its upload  *)
(* answers; a video is set on the object that stood there when it started, *)
(* which reading the page replaces.                                        *)
(***************************************************************************)
EXTENDS Naturals, Sequences, SequencesExt, FiniteSets

CONSTANTS MaxCards,    \* bound: product cards the visitor makes
          MaxTexts,    \* bound: texts typed into a card
          MaxUploads   \* bound: files chosen

ASSUME FormAssumption == MaxCards \in Nat \ {0} /\ MaxTexts \in Nat /\ MaxUploads \in Nat

VARIABLES
    prods,     \* state.products: the card's number (history), text, images and video (with
               \* the number of the card they were chosen for)
    cards,     \* the texts on the page; <<>> before the cards are first drawn
    uploads,   \* uploads in flight
    step, nexts,        \* the step shown; clicks of Next that wait for the e-mail check
    fields,    \* are the fields of steps 0 and 1 valid
    draft,     \* state.products in localStorage
    submitted,      \* no, sending, done
    payload,   \* the submission
    typed,     \* history: the text last typed into a card, unless an upload's end undid it
    shifted,   \* history: a card was removed while an upload ran
    made, chosen   \* counters for the bounds

formVars == <<prods, cards, uploads, step, nexts, fields, draft, submitted, payload, typed,
              shifted, made, chosen>>

NoDraft == <<>>
Blank(id) == [id |-> id, text |-> 0, images |-> {}, video |-> 0]
Texts(ps) == [i \in 1..Len(ps) |-> ps[i].text]

FormInit ==
    /\ prods = <<Blank(1)>> /\ cards = <<>> /\ uploads = {}
    /\ step = 0 /\ nexts = 0
    /\ fields = [s \in {0, 1} |-> FALSE]
    /\ draft = NoDraft /\ submitted = "no" /\ payload = <<>>
    /\ typed = [id \in 1..MaxCards |-> 0]
    /\ shifted = FALSE /\ made = 1 /\ chosen = 0

\* readProductsFromDom: new objects, with the texts of the page and the files of the old ones.
ReadCards == [i \in 1..Len(cards) |-> [prods[i] EXCEPT !.text = cards[i]]]
ObjectsReplaced == {[u EXCEPT !.stale = TRUE] : u \in uploads}

\* The texts the state holds, for the history.
TypedIn(ps) == [id \in 1..MaxCards |->
    IF \E p \in ToSet(ps) : p.id = id THEN (CHOOSE p \in ToSet(ps) : p.id = id).text ELSE typed[id]]

\* renderProducts
Drawn(ps) == prods' = ps /\ cards' = Texts(ps)

\* Only the submit button is disabled while the submission runs.
Filling == submitted # "done"

TypeText(i) ==
    /\ Filling /\ step = 2 /\ i \in 1..Len(cards) /\ cards[i] < MaxTexts
    /\ cards' = [cards EXCEPT ![i] = @ + 1]
    /\ typed' = [typed EXCEPT ![prods[i].id] = cards[i] + 1]
    /\ UNCHANGED <<prods, uploads, step, nexts, fields, draft, submitted, payload, shifted, made, chosen>>

TypeField(s) ==
    /\ Filling /\ step = s
    /\ fields' = [fields EXCEPT ![s] = ~@]
    /\ UNCHANGED <<prods, cards, uploads, step, nexts, draft, submitted, payload, typed, shifted, made, chosen>>

\* Mutated form: a card is added to what was drawn last.
AddProductUnread ==
    /\ Filling /\ step = 2 /\ made < MaxCards
    /\ made' = made + 1
    /\ Drawn(Append(prods, Blank(made + 1)))
    /\ draft' = Append(prods, Blank(made + 1))
    /\ UNCHANGED <<uploads, step, nexts, fields, submitted, payload, typed, shifted, chosen>>

AddProduct ==
    /\ Filling /\ step = 2 /\ made < MaxCards
    /\ made' = made + 1
    /\ Drawn(Append(ReadCards, Blank(made + 1)))
    /\ draft' = Append(ReadCards, Blank(made + 1))
    /\ uploads' = ObjectsReplaced
    /\ UNCHANGED <<step, nexts, fields, submitted, payload, typed, shifted, chosen>>

\* The last card removed leaves a blank one.
RemoveProduct(i) ==
    /\ Filling /\ step = 2 /\ i \in 1..Len(cards)
    /\ Len(cards) > 1 \/ made < MaxCards
    /\ LET left == IF Len(cards) > 1 THEN RemoveAt(ReadCards, i) ELSE <<Blank(made + 1)>> IN
       Drawn(left) /\ draft' = left
    /\ made' = IF Len(cards) > 1 THEN made ELSE made + 1
    /\ uploads' = ObjectsReplaced
    /\ shifted' = (shifted \/ uploads # {})
    /\ UNCHANGED <<step, nexts, fields, submitted, payload, typed, chosen>>

\* The cross on a file of card i.
RemoveFile(i, kind) ==
    /\ Filling /\ step = 2 /\ i \in 1..Len(cards)
    /\ IF kind = "image" THEN prods[i].images # {} ELSE prods[i].video # 0
    /\ \E left \in SUBSET prods[i].images :
          /\ kind = "image" => Cardinality(left) + 1 = Cardinality(prods[i].images)
          /\ LET p == IF kind = "image" THEN [ReadCards[i] EXCEPT !.images = left]
                      ELSE [ReadCards[i] EXCEPT !.video = 0] IN
             Drawn([ReadCards EXCEPT ![i] = p]) /\ draft' = [ReadCards EXCEPT ![i] = p]
    /\ uploads' = ObjectsReplaced
    /\ UNCHANGED <<step, nexts, fields, submitted, payload, typed, shifted, made, chosen>>

\* The language buttons draw the cards anew.
SwitchLang ==
    /\ Filling /\ step = 2
    /\ Drawn(ReadCards)
    /\ uploads' = ObjectsReplaced
    /\ UNCHANGED <<step, nexts, fields, draft, submitted, payload, typed, shifted, made, chosen>>

\* The file inputs of card i.
ChooseFile(i, kind) ==
    /\ Filling /\ step = 2 /\ i \in 1..Len(cards) /\ chosen < MaxUploads
    /\ chosen' = chosen + 1
    /\ prods' = ReadCards
    /\ uploads' = ObjectsReplaced \cup
          {[n |-> chosen + 1, kind |-> kind, at |-> i, card |-> prods[i].id, stale |-> FALSE]}
    /\ UNCHANGED <<cards, step, nexts, fields, draft, submitted, payload, typed, shifted, made>>

\* The product an upload's answer is written to; none, if the object is no longer the
\* state's or the index is gone.
Target(u) == IF u.at > Len(prods) \/ (u.kind = "video" /\ u.stale) THEN 0 ELSE u.at

UploadAnswered(u) ==
    LET i == Target(u)
        kept == IF i = 0 THEN prods
                ELSE IF u.kind = "image" THEN [prods EXCEPT ![i].images = @ \cup {<<u.n, u.card>>}]
                ELSE [prods EXCEPT ![i].video = u.card] IN
    /\ uploads' = uploads \ {u}
    /\ Drawn(kept)
    /\ draft' = kept
    /\ typed' = TypedIn(kept)
    /\ UNCHANGED <<step, nexts, fields, submitted, payload, shifted, made, chosen>>

\* A failed video leaves the page; a failed image is followed by a drawing all the same.
UploadFails(u) ==
    /\ uploads' = uploads \ {u}
    /\ IF u.kind = "image"
       THEN Drawn(prods) /\ draft' = prods /\ typed' = TypedIn(prods)
       ELSE UNCHANGED <<prods, cards, draft, typed>>
    /\ UNCHANGED <<step, nexts, fields, submitted, payload, shifted, made, chosen>>

ProductsValid == cards # <<>> /\ \A i \in 1..Len(cards) : cards[i] # 0

\* showStep: the third step draws the cards, the fourth reads them.
ShowStep(n) ==
    /\ step' = n
    /\ CASE n = 2 -> /\ cards' = Texts(IF step = 2 \/ step = 3 THEN ReadCards ELSE prods)
                     /\ prods' = IF step = 2 \/ step = 3 THEN ReadCards ELSE prods
         [] n = 3 \/ (n < 2 /\ step = 2) -> prods' = ReadCards /\ cards' = cards
         [] OTHER -> UNCHANGED <<prods, cards>>
    /\ uploads' = IF step \in {2, 3} \/ n = 3 THEN ObjectsReplaced ELSE uploads
    /\ draft' = prods'

\* Next validates the step it is clicked on; on the first it waits for the e-mail check.
ClickNext ==
    /\ Filling /\ step < 3
    /\ IF step = 2 THEN ProductsValid ELSE fields[step]
    /\ IF step = 0
       THEN /\ nexts < 2 /\ nexts' = nexts + 1
            /\ UNCHANGED <<step, prods, cards, uploads, draft>>
       ELSE ShowStep(step + 1) /\ UNCHANGED nexts
    /\ UNCHANGED <<fields, submitted, payload, typed, shifted, made, chosen>>

\* The check answered: free, and the next step of the one shown by then.
EmailChecked ==
    /\ Filling /\ nexts > 0
    /\ nexts' = nexts - 1
    /\ ShowStep(IF step < 3 THEN step + 1 ELSE 3)
    /\ UNCHANGED <<fields, submitted, payload, typed, shifted, made, chosen>>

EmailTaken ==
    /\ Filling /\ nexts > 0
    /\ nexts' = nexts - 1
    /\ UNCHANGED <<prods, cards, uploads, step, fields, draft, submitted, payload, typed, shifted, made, chosen>>

ClickPrev ==
    /\ Filling /\ step > 0
    /\ ShowStep(step - 1)
    /\ UNCHANGED <<nexts, fields, submitted, payload, typed, shifted, made, chosen>>

\* submitAll validates every step again.
AllValid == fields[0] /\ fields[1] /\ ProductsValid

SubmitForm ==
    /\ submitted = "no" /\ step = 3 /\ AllValid
    /\ submitted' = "sending"
    /\ prods' = ReadCards /\ uploads' = ObjectsReplaced
    /\ payload' = ReadCards
    /\ UNCHANGED <<cards, step, nexts, fields, draft, typed, shifted, made, chosen>>

\* Refused, or the answer lost: the form stays.
SubmitFails ==
    /\ submitted = "sending"
    /\ submitted' = "no"
    /\ UNCHANGED <<prods, cards, uploads, step, nexts, fields, draft, payload, typed, shifted, made, chosen>>

SubmitDone ==
    /\ submitted = "sending"
    /\ submitted' = "done" /\ draft' = NoDraft
    /\ UNCHANGED <<prods, cards, uploads, step, nexts, fields, payload, typed, shifted, made, chosen>>

\* The page is loaded again: the draft, on the first step; uploads are lost.
Reload ==
    /\ submitted # "done"
    /\ prods' = IF draft = NoDraft THEN <<Blank(1)>> ELSE draft
    /\ cards' = <<>> /\ uploads' = {} /\ step' = 0 /\ nexts' = 0 /\ submitted' = "no"
    /\ fields' \in [{0, 1} -> BOOLEAN]
    /\ typed' = TypedIn(prods')
    /\ UNCHANGED <<draft, payload, shifted, made, chosen>>

FormNext ==
    \/ \E i \in 1..MaxCards : TypeText(i)
    \/ \E s \in {0, 1} : TypeField(s)
    \/ AddProduct
    \/ \E i \in 1..MaxCards : RemoveProduct(i)
    \/ \E i \in 1..MaxCards, kind \in {"image", "video"} : RemoveFile(i, kind)
    \/ SwitchLang
    \/ \E i \in 1..MaxCards, kind \in {"image", "video"} : ChooseFile(i, kind)
    \/ \E u \in uploads : UploadAnswered(u)
    \/ \E u \in uploads : UploadFails(u)
    \/ ClickNext \/ EmailChecked \/ EmailTaken \/ ClickPrev
    \/ SubmitForm \/ SubmitFails \/ SubmitDone
    \/ Reload

FormSpec == FormInit /\ [][FormNext]_formVars

(***************************************************************************)
(* Properties                                                              *)
(***************************************************************************)

\* What the visitor typed into a card stays there through every redrawing and
\* every step back and forth (the end of an upload excepted: it draws what was
\* read before), and a file stands under the product it was chosen for unless a
\* card was removed while an upload ran: indices, objects and the page's cards
\* never drift apart.
FormKeeps ==
    /\ cards # <<>> =>
          /\ Len(cards) = Len(prods)
          /\ \A i \in 1..Len(cards) : cards[i] = typed[prods[i].id]
    /\ ~shifted => \A p \in ToSet(prods) \cup ToSet(payload) :
          (\A f \in p.images : f[2] = p.id) /\ p.video \in {0, p.id}
================================================================================
