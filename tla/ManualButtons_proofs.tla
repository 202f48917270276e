------------------------ MODULE ManualButtons_proofs ------------------------
(***************************************************************************)
(* Proofs about the widget of manual runs: its flags tell the truth, and   *)
(* every run it sends is one the user saw, for any number of leads, of     *)
(* requests, pages and windows.                                            *)
(*                                                                         *)
(* The inductive invariant adds to the flags how requests are numbered and *)
(* named: an element drawn now has a new number, so no earlier request can *)
(* be taken for one of its own.                                            *)
(***************************************************************************)
EXTENDS ManualButtons, TLAPS

\* Requests that are not sent yet are None, and numbers are given out in order.
Numbered ==
  /\ \A i \in 1..MaxCalls : i > sent => calls[i] = None
  /\ \A i \in 1..MaxCalls : calls[i] # None => calls[i].of <= drawn
  /\ modal # None => modal.id <= drawn

\* Buttons are shown for the lead whose card is open.
ButtonsFit ==
  block # None =>
    /\ block.id <= drawn
    /\ block.list = "buttons" => page \in Leads /\ block.lead = page

\* A window whose run had success is gone.
NoSuccess ==
  modal # None =>
    \A k \in 1..MaxCalls :
      calls[k] # None /\ calls[k].kind = "bulk" /\ calls[k].of = modal.id => calls[k].state # "done"

ListsHaveLeads ==
  \A i \in 1..MaxCalls : calls[i] # None /\ calls[i].kind = "list" => calls[i].lead \in Leads

IInv == TypeOK /\ Numbered /\ ButtonsFit /\ NoSuccess /\ ListsHaveLeads /\ FlagsAreHeld

-----------------------------------------------------------------------------
(* Constants and types                                                      *)

LEMMA Limits == MaxCalls \in Nat /\ MaxPages \in Nat /\ MaxRetries \in Nat /\ MaxSelected \in Nat
BY ButtonsAssumption

LEMMA NoneApart ==
  None \notin Leads /\ None \notin Blocks /\ None \notin Windows /\ None \notin Boxes /\ None \notin Call
BY ButtonsAssumption

\* What TypeOK says of the requests and of the numbers.
LEMMA CallTypes ==
  ASSUME TypeOK
  PROVE  /\ calls \in [1..MaxCalls -> {None} \cup Call] /\ sent \in 0..MaxCalls /\ drawn \in Nat
         /\ \A i \in 1..MaxCalls : calls[i] # None => calls[i] \in Call /\ calls[i].of \in Nat
         /\ modal # None => modal \in Windows /\ modal.id \in Nat
<1>1. calls \in [1..MaxCalls -> {None} \cup Call] /\ sent \in 0..MaxCalls /\ drawn \in Nat
  BY DEF TypeOK
<1>2. \A i \in 1..MaxCalls : calls[i] # None => calls[i] \in Call
  BY <1>1
<1>3. modal # None => modal \in Windows
  BY DEF TypeOK
<1> QED BY <1>1, <1>2, <1>3 DEF Call, Windows

\* What TypeOK says of the block.
LEMMA BlockTypes ==
  ASSUME TypeOK, block # None
  PROVE  block \in Blocks /\ block.id \in Nat /\ block.lead \in Leads \cup {None}
<1>1. block \in Blocks
  BY DEF TypeOK
<1> QED BY <1>1 DEF Blocks

-----------------------------------------------------------------------------
(* A request is sent                                                        *)

\* The next place, which was free, holds the request.
Added(kind, of, lead, entities) ==
  /\ sent + 1 \in 1..MaxCalls /\ sent' = sent + 1 /\ calls[sent + 1] = None
  /\ calls' \in [1..MaxCalls -> {None} \cup Call] /\ sent' \in 0..MaxCalls
  /\ calls'[sent + 1] = [kind |-> kind, of |-> of, lead |-> lead,
                         entities |-> entities, state |-> "out"]
  /\ \A i \in 1..MaxCalls : i # sent + 1 => calls'[i] = calls[i]
  /\ calls'[sent + 1] # None

\* A request is added at the next place.
LEMMA RequestAdds ==
  ASSUME TypeOK, Numbered, NEW kind \in Kinds, NEW of \in Nat, NEW lead \in Leads \cup {None},
         NEW entities \in SUBSET Entities, Request(kind, of, lead, entities)
  PROVE  Added(kind, of, lead, entities)
<1> DEFINE c == [kind |-> kind, of |-> of, lead |-> lead, entities |-> entities, state |-> "out"]
<1>1. sent < MaxCalls /\ sent' = sent + 1 /\ calls' = [calls EXCEPT ![sent + 1] = c]
  BY DEF Request
<1>2. sent + 1 \in 1..MaxCalls /\ sent' \in 0..MaxCalls
  BY <1>1, CallTypes, Limits
<1>3. calls[sent + 1] = None
  BY <1>2, CallTypes DEF Numbered
<1>4. c \in Call
  BY DEF Call
<1>5. c # None
  BY <1>4, NoneApart
<1> HIDE DEF c
<1>6. /\ calls' \in [1..MaxCalls -> {None} \cup Call] /\ calls'[sent + 1] = c
      /\ \A i \in 1..MaxCalls : i # sent + 1 => calls'[i] = calls[i]
  BY <1>1, <1>2, <1>4, CallTypes
<1> QED BY <1>1, <1>2, <1>3, <1>5, <1>6 DEF Added, c

\* Only the requests of its kind that are out change, by itself.
LEMMA RequestUnsettled ==
  ASSUME TypeOK, Numbered, NEW kind \in Kinds, NEW of \in Nat, NEW lead \in Leads \cup {None},
         NEW entities \in SUBSET Entities, Request(kind, of, lead, entities)
  PROVE  /\ \A k : sent + 1 \notin Unsettled(k)
         /\ \A k : k # kind => Unsettled(k)' = Unsettled(k)
         /\ Unsettled(kind)' = Unsettled(kind) \cup {sent + 1}
<1>0. Added(kind, of, lead, entities)
  BY RequestAdds
<1>1. \A k : sent + 1 \notin Unsettled(k)
  BY <1>0 DEF Added, Unsettled
<1>2. calls'[sent + 1].kind = kind /\ calls'[sent + 1].state = "out"
  BY <1>0 DEF Added
<1>3. ASSUME NEW k PROVE \A i \in 1..MaxCalls : i # sent + 1 => (i \in Unsettled(k)' <=> i \in Unsettled(k))
  BY <1>0 DEF Added, Unsettled
<1>4. ASSUME NEW k PROVE sent + 1 \in Unsettled(k)' <=> k = kind
  BY <1>0, <1>2 DEF Added, Unsettled
<1>5. ASSUME NEW k PROVE Unsettled(k) \subseteq 1..MaxCalls /\ Unsettled(k)' \subseteq 1..MaxCalls
  BY DEF Unsettled
<1>6. ASSUME NEW k, k # kind PROVE Unsettled(k)' = Unsettled(k)
  BY <1>1, <1>3, <1>4, <1>5, <1>6
<1>7. Unsettled(kind)' = Unsettled(kind) \cup {sent + 1}
  BY <1>0, <1>3, <1>4, <1>5 DEF Added
<1> QED BY <1>1, <1>6, <1>7

\* The numbers stay in order, and what is asked for a list has a lead.
LEMMA RequestKeeps ==
  ASSUME TypeOK, Numbered, ListsHaveLeads, NEW kind \in Kinds, NEW of \in Nat,
         NEW lead \in Leads \cup {None}, NEW entities \in SUBSET Entities,
         Request(kind, of, lead, entities), drawn' \in Nat, drawn <= drawn', of <= drawn',
         kind = "list" => lead \in Leads
  PROVE  /\ \A i \in 1..MaxCalls : i > sent' => calls'[i] = None
         /\ \A i \in 1..MaxCalls : calls'[i] # None => calls'[i].of <= drawn'
         /\ ListsHaveLeads'
<1>0. Added(kind, of, lead, entities)
  BY RequestAdds
<1>1. /\ calls'[sent + 1].kind = kind /\ calls'[sent + 1].of = of /\ calls'[sent + 1].lead = lead
      /\ sent' = sent + 1 /\ sent \in Nat /\ drawn \in Nat
  BY <1>0, CallTypes, Limits DEF Added
<1>2. \A i \in 1..MaxCalls : i > sent' => calls'[i] = None
  BY <1>0, <1>1 DEF Added, Numbered
<1>3. \A i \in 1..MaxCalls : calls'[i] # None => calls'[i].of <= drawn'
  <2> SUFFICES ASSUME NEW i \in 1..MaxCalls, calls'[i] # None PROVE calls'[i].of <= drawn'
    OBVIOUS
  <2>1. CASE i = sent + 1
    BY <1>1, <2>1
  <2>2. CASE i # sent + 1
    <3>1. calls'[i] = calls[i] /\ calls[i] # None
      BY <1>0, <2>2 DEF Added
    <3>2. calls[i].of \in Nat /\ calls[i].of <= drawn
      BY <3>1, CallTypes DEF Numbered
    <3> QED BY <1>1, <3>1, <3>2
  <2> QED BY <2>1, <2>2
<1>4. ListsHaveLeads'
  BY <1>0, <1>1 DEF Added, ListsHaveLeads
<1> QED BY <1>2, <1>3, <1>4

-----------------------------------------------------------------------------
(* Steps by what they do to the requests                                    *)

\* What a step leaves true of the requests, their flags and the window.
Net == /\ Numbered' /\ NoSuccess' /\ ListsHaveLeads' /\ FlagsAreHeld'
       /\ calls' \in [1..MaxCalls -> {None} \cup Call] /\ sent' \in 0..MaxCalls

\* The window stays, goes, or gives way to a new one that runs nothing.
WindowRests ==
  \/ modal' = modal
  \/ modal # None /\ modal' \in Windows /\ modal'.id = modal.id /\ modal'.running = modal.running
  \/ modal' = None
  \/ modal' \in Windows /\ drawn < modal'.id /\ modal'.id <= drawn' /\ ~modal'.running

\* If no run is sent, what is known of the window's requests stays true.
LEMMA WindowKept ==
  ASSUME IInv, WindowRests, drawn' \in Nat, drawn <= drawn',
         Unsettled("bulk")' = Unsettled("bulk"),
         \A i \in 1..MaxCalls : calls'[i] # None /\ calls'[i].kind = "bulk" =>
           calls[i] # None /\ calls'[i] = calls[i]
  PROVE  /\ modal' # None => modal'.id <= drawn'
         /\ NoSuccess'
         /\ modal' # None =>
              /\ AtMostOne({i \in Unsettled("bulk") : calls[i].of = modal.id})'
              /\ (modal.running <=> {i \in Unsettled("bulk") : calls[i].of = modal.id} # {})'
<1> USE DEF IInv
<1>1. \A i \in 1..MaxCalls : calls[i] # None => calls[i].of \in Nat /\ calls[i].of <= drawn
  BY CallTypes DEF Numbered
<1>2. drawn \in Nat /\ (modal # None => modal.id \in Nat /\ modal.id <= drawn)
  BY CallTypes DEF Numbered
<1>3. \A i \in Unsettled("bulk") : calls'[i] = calls[i] /\ calls[i] # None /\ i \in 1..MaxCalls
  <2>1. \A i \in Unsettled("bulk")' : i \in 1..MaxCalls /\ calls'[i] # None /\ calls'[i].kind = "bulk"
    BY DEF Unsettled
  <2> QED BY <2>1
<1>4. {i \in Unsettled("bulk") : calls[i].of = modal.id}'
        = {i \in Unsettled("bulk") : calls[i].of = modal'.id}
  BY <1>3
<1>5. CASE \/ modal' = modal
           \/ modal # None /\ modal' \in Windows /\ modal'.id = modal.id /\ modal'.running = modal.running
  <2>1. modal' # None => modal # None /\ modal'.id = modal.id /\ modal'.running = modal.running
    BY <1>5
  <2>2. NoSuccess'
    BY <2>1 DEF NoSuccess
  <2>3. modal' # None => modal'.id <= drawn'
    BY <1>2, <2>1
  <2> QED BY <1>4, <2>1, <2>2, <2>3 DEF FlagsAreHeld, AtMostOne
<1>6. CASE modal' = None
  BY <1>6 DEF NoSuccess
<1>7. CASE modal' \in Windows /\ drawn < modal'.id /\ modal'.id <= drawn' /\ ~modal'.running
  <2>1. modal'.id \in Nat
    BY <1>7 DEF Windows
  <2>2. {i \in Unsettled("bulk") : calls[i].of = modal'.id} = {}
    BY <1>1, <1>2, <1>3, <1>7, <2>1
  <2>3. NoSuccess'
    BY <1>1, <1>2, <1>7, <2>1 DEF NoSuccess
  <2> QED BY <1>4, <1>7, <2>2, <2>3 DEF AtMostOne
<1> QED BY <1>5, <1>6, <1>7 DEF WindowRests

\* A step that leaves requests and flags alone.
LEMMA QuietKeeps ==
  ASSUME IInv, UNCHANGED <<netVars, listLoading, runPending>>, WindowRests,
         drawn' \in Nat, drawn <= drawn'
  PROVE  Net
<1> USE DEF IInv
<1>1. calls' = calls /\ sent' = sent /\ listLoading' = listLoading /\ runPending' = runPending
  BY DEF netVars
<1>2. \A k : Unsettled(k)' = Unsettled(k)
  BY <1>1 DEF Unsettled
<1>3. /\ modal' # None => modal'.id <= drawn'
      /\ NoSuccess'
      /\ modal' # None =>
           /\ AtMostOne({i \in Unsettled("bulk") : calls[i].of = modal.id})'
           /\ (modal.running <=> {i \in Unsettled("bulk") : calls[i].of = modal.id} # {})'
  BY <1>1, <1>2, WindowKept
<1>4. Numbered'
  <2>1. \A i \in 1..MaxCalls : calls[i] # None => calls[i].of \in Nat /\ calls[i].of <= drawn
    BY CallTypes DEF Numbered
  <2>2. drawn \in Nat
    BY CallTypes
  <2> QED BY <1>1, <1>3, <2>1, <2>2 DEF Numbered
<1>5. FlagsAreHeld'
  BY <1>1, <1>2, <1>3 DEF FlagsAreHeld, AtMostOne
<1>6. ListsHaveLeads' /\ calls' \in [1..MaxCalls -> {None} \cup Call] /\ sent' \in 0..MaxCalls
  BY <1>1, CallTypes DEF ListsHaveLeads
<1> QED BY <1>3, <1>4, <1>5, <1>6 DEF Net

\* A step that sends a request that is no run of a window, raising its flag if
\* it has one.
LEMMA SendKeeps ==
  ASSUME IInv, NEW kind \in Kinds, kind # "bulk", NEW of \in Nat, NEW lead \in Leads \cup {None},
         Request(kind, of, lead, {}), WindowRests, drawn' \in Nat, drawn <= drawn', of <= drawn',
         kind = "list" => lead \in Leads /\ ~listLoading /\ listLoading',
         kind # "list" => listLoading' = listLoading,
         kind = "run" => ~runPending /\ runPending',
         kind # "run" => runPending' = runPending
  PROVE  Net
<1> USE DEF IInv
<1>1. {} \in SUBSET Entities
  OBVIOUS
<1>2. Added(kind, of, lead, {})
  BY <1>1, RequestAdds
<1>3. /\ \A k : k # kind => Unsettled(k)' = Unsettled(k)
      /\ Unsettled(kind)' = Unsettled(kind) \cup {sent + 1}
  BY <1>1, RequestUnsettled
<1>4. /\ \A i \in 1..MaxCalls : i > sent' => calls'[i] = None
      /\ \A i \in 1..MaxCalls : calls'[i] # None => calls'[i].of <= drawn'
      /\ ListsHaveLeads'
  BY <1>1, RequestKeeps
<1>5. \A i \in 1..MaxCalls : calls'[i] # None /\ calls'[i].kind = "bulk" =>
        calls[i] # None /\ calls'[i] = calls[i]
  <2>1. calls'[sent + 1].kind # "bulk"
    BY <1>2 DEF Added
  <2> QED BY <1>2, <2>1 DEF Added
<1>6. /\ modal' # None => modal'.id <= drawn'
      /\ NoSuccess'
      /\ modal' # None =>
           /\ AtMostOne({i \in Unsettled("bulk") : calls[i].of = modal.id})'
           /\ (modal.running <=> {i \in Unsettled("bulk") : calls[i].of = modal.id} # {})'
  BY <1>3, <1>5, WindowKept
<1>7. AtMostOne(Unsettled("list"))' /\ (listLoading <=> Unsettled("list") # {})'
  <2>1. CASE kind = "list"
    BY <1>3, <2>1 DEF FlagsAreHeld, AtMostOne
  <2>2. CASE kind # "list"
    BY <1>3, <2>2 DEF FlagsAreHeld, AtMostOne
  <2> QED BY <2>1, <2>2
<1>8. AtMostOne(Unsettled("run"))' /\ (runPending <=> Unsettled("run") # {})'
  <2>1. CASE kind = "run"
    BY <1>3, <2>1 DEF FlagsAreHeld, AtMostOne
  <2>2. CASE kind # "run"
    BY <1>3, <2>2 DEF FlagsAreHeld, AtMostOne
  <2> QED BY <2>1, <2>2
<1>9. FlagsAreHeld'
  BY <1>6, <1>7, <1>8 DEF FlagsAreHeld
<1>10. Numbered'
  BY <1>4, <1>6 DEF Numbered
<1> QED BY <1>2, <1>4, <1>6, <1>9, <1>10 DEF Added, Net

-----------------------------------------------------------------------------
(* One step per action                                                      *)

LEMMA InitInv == Init => IInv
<1> SUFFICES ASSUME Init PROVE IInv
  OBVIOUS
<1>1. TypeOK
  <2>1. calls \in [1..MaxCalls -> {None} \cup Call] /\ sent \in 0..MaxCalls
    BY Limits DEF Init
  <2> QED BY <2>1 DEF Init, TypeOK
<1>2. \A k : Unsettled(k) = {}
  BY DEF Init, Unsettled
<1>3. FlagsAreHeld
  BY <1>2 DEF Init, FlagsAreHeld, AtMostOne
<1>4. Numbered /\ ButtonsFit /\ NoSuccess /\ ListsHaveLeads
  BY DEF Init, Numbered, ButtonsFit, NoSuccess, ListsHaveLeads
<1> QED BY <1>1, <1>3, <1>4 DEF IInv

\* A new element's number is larger than those given before.
LEMMA NewNumber ==
  ASSUME TypeOK, New
  PROVE  drawn' \in Nat /\ drawn' = drawn + 1 /\ drawn < drawn' /\ drawn <= drawn'
  BY CallTypes DEF New

\* A step that leaves the page and its block alone.
LEMMA BlockKept ==
  ASSUME TypeOK, ButtonsFit, UNCHANGED <<page, block>>, drawn' \in Nat, drawn <= drawn'
  PROVE  ButtonsFit'
<1>1. drawn \in Nat
  BY CallTypes
<1>2. block # None => block.id <= drawn'
  BY <1>1, BlockTypes DEF ButtonsFit
<1> QED BY <1>2 DEF ButtonsFit

\* The pages that amoCRM opens and removes.
LEMMA AmoSteps == ASSUME IInv, Amo PROVE IInv'
<1> USE DEF pageVars, cardVars, dpVars, IInv, Net, WindowRests
<1>1. CASE Draw
  <2>1. Net
    BY <1>1, NewNumber, QuietKeeps DEF Draw
  <2>2. block' = [id |-> drawn', list |-> "loading", lead |-> None, disabled |-> FALSE]
    BY <1>1 DEF Draw
  <2>3. block' \in Blocks /\ block'.list # "buttons" /\ block'.id <= drawn'
    BY <1>1, <2>2, NewNumber DEF Draw, Blocks, Contents
  <2>4. TypeOK'
    BY <1>1, <2>1, <2>3, NewNumber DEF Draw, TypeOK
  <2> QED BY <2>1, <2>3, <2>4 DEF ButtonsFit
<1>2. CASE Leave
  <2>1. Net
    BY <1>2, CallTypes, QuietKeeps DEF Leave
  <2>2. TypeOK'
    BY <1>2, <2>1 DEF Leave, TypeOK
  <2> QED BY <1>2, <2>1, <2>2 DEF Leave, ButtonsFit
<1>3. ASSUME NEW p \in Pages, Enter(p) PROVE IInv'
  <2>1. Net
    <3>1. New /\ UNCHANGED <<netVars, listLoading, runPending, modal>>
      BY <1>3 DEF Enter
    <3> QED BY <3>1, NewNumber, QuietKeeps
  <2>2. due' \in Nat /\ dpRetries' \in Nat /\ dpDue' \in Nat
    BY <1>3 DEF Enter, TypeOK
  <2>3. TypeOK'
    BY <1>3, <2>1, <2>2, NewNumber DEF Enter, TypeOK
  <2> QED BY <1>3, <2>1, <2>3 DEF Enter, ButtonsFit
<1>4. ASSUME NEW l \in Leads, SaveLead(l) PROVE IInv'
  <2>1. Net
    <3>1. drawn' = drawn /\ UNCHANGED <<netVars, listLoading, runPending, modal>>
      BY <1>4 DEF SaveLead
    <3> QED BY <3>1, CallTypes, QuietKeeps
  <2>2. TypeOK'
    BY <1>4, <2>1 DEF SaveLead, TypeOK, Pages, Cards
  <2>3. ButtonsFit'
    BY <1>4, ButtonsAssumption DEF SaveLead, ButtonsFit
  <2> QED BY <2>1, <2>2, <2>3
<1> QED BY <1>1, <1>2, <1>3, <1>4 DEF Amo

\* A load of the card's list, whether a timer or the focus asks for it.
LEMMA LoadSteps ==
  ASSUME IInv, NEW left \in Nat, LoadButtons(left), UNCHANGED <<pageVars, runPending, modal, dpVars>>
  PROVE  IInv'
<1> USE DEF pageVars, dpVars, IInv, Net, WindowRests
<1>1. drawn' \in Nat /\ drawn' = drawn /\ drawn <= drawn' /\ runPending' = runPending /\ modal' = modal
  BY CallTypes
<1>2. due' \in Nat /\ retries' \in Nat /\ listLoading' \in BOOLEAN
  <2>1. due' \in {left, left + 1} /\ retries' \in {retries, retries + 1}
        /\ listLoading' \in {listLoading, TRUE}
    BY DEF LoadButtons
  <2>2. retries \in Nat /\ listLoading \in BOOLEAN
    BY DEF TypeOK
  <2>3. left + 1 \in Nat /\ retries + 1 \in Nat
    BY <2>2
  <2>4. listLoading' \in BOOLEAN
    BY <2>1, <2>2, Zenon
  <2> QED BY <2>1, <2>2, <2>3, <2>4
<1>3. /\ block' \in {None} \cup Blocks /\ ButtonsFit'
  <2>1. CASE block # None /\ block' = [block EXCEPT !.list = "message"]
    <3>1. block' \in Blocks /\ block'.list = "message" /\ block'.id = block.id
      BY <2>1 DEF TypeOK, Blocks, Contents
    <3> QED BY <1>1, <2>1, <3>1 DEF ButtonsFit
  <2>2. CASE block' = block
    BY <1>1, <2>2 DEF ButtonsFit, TypeOK
  <2> QED BY <2>1, <2>2 DEF LoadButtons
<1>4. Net
  <2>1. CASE UNCHANGED <<netVars, listLoading>>
    BY <1>1, <2>1, QuietKeeps
  <2>2. CASE /\ Loadable /\ block # None /\ LeadId # None
             /\ Request("list", block.id, LeadId, {}) /\ listLoading' = TRUE
    <3>1. block \in Blocks
      BY <2>2 DEF TypeOK
    <3>2. block.id \in Nat /\ block.id <= drawn
      BY <2>2, <3>1 DEF Blocks, ButtonsFit
    <3>3. LeadId \in Leads /\ "list" \in Kinds /\ ~listLoading
      BY <2>2 DEF LeadId, Loadable, Kinds
    <3> QED BY <1>1, <2>2, <3>2, <3>3, SendKeeps
  <2> QED BY <2>1, <2>2 DEF LoadButtons
<1>5. TypeOK'
  BY <1>1, <1>2, <1>3, <1>4 DEF TypeOK
<1> QED BY <1>3, <1>4, <1>5

\* The timers.
LEMMA TimerSteps == ASSUME IInv, Timers PROVE IInv'
<1> USE DEF IInv, Net, WindowRests
<1>1. CASE TimerFires
  <2>1. due - 1 \in Nat
    BY <1>1 DEF TimerFires, TypeOK
  <2> QED BY <1>1, <2>1, LoadSteps DEF TimerFires
<1>2. CASE RenderDpSettings
  <2>1. page' = page /\ destroyed' = destroyed /\ bound' = bound /\ modal' = modal /\ field' = field
        /\ block' = block /\ due' = due /\ retries' = retries /\ listLoading' = listLoading
        /\ runPending' = runPending
    BY <1>2 DEF RenderDpSettings, cardVars
  <2>2. CASE UNCHANGED <<drawn, box, netVars>>
    <3>1. Net
      BY <2>1, <2>2, CallTypes, QuietKeeps
    <3>2. dpRetries' \in Nat /\ dpDue' \in Nat
      BY <1>2 DEF RenderDpSettings, TypeOK
    <3>3. TypeOK'
      BY <2>1, <2>2, <3>1, <3>2 DEF TypeOK
    <3> QED BY <2>1, <2>2, <3>1, <3>3 DEF ButtonsFit
  <2>3. CASE /\ dpDue' = dpDue - 1 /\ New /\ box' = [id |-> drawn', select |-> "loading"]
             /\ Request("pipeline", drawn', None, {}) /\ UNCHANGED dpRetries
    <3>1. "pipeline" \in Kinds
      BY DEF Kinds
    <3>2. Net
      BY <2>1, <2>3, <3>1, NewNumber, SendKeeps
    <3>3. box' \in Boxes
      BY <2>3, NewNumber DEF Boxes, Contents
    <3>4. dpRetries' \in Nat /\ dpDue' \in Nat
      BY <1>2, <2>3 DEF RenderDpSettings, TypeOK
    <3>5. TypeOK'
      BY <2>1, <2>3, <3>2, <3>3, <3>4, NewNumber DEF TypeOK
    <3>6. ButtonsFit'
      BY <2>1, <2>3, NewNumber, BlockKept
    <3> QED BY <3>2, <3>5, <3>6
  <2> QED BY <1>2, <2>2, <2>3 DEF RenderDpSettings
<1> QED BY <1>1, <1>2 DEF Timers

\* What the user does in the card and in the settings.
LEMMA CardSteps == ASSUME IInv, RunWorkflow \/ Focus \/ Refresh \/ \E w \in Choices : Choose(w) PROVE IInv'
<1> USE DEF pageVars, cardVars, dpVars, IInv, Net, WindowRests
<1>1. CASE Focus
  <2>1. due \in Nat
    BY DEF TypeOK
  <2> QED BY <1>1, <2>1, LoadSteps DEF Focus
<1>2. CASE RunWorkflow
  <2>1. /\ block # None /\ block.list = "buttons" /\ ~runPending /\ runPending' = TRUE
        /\ Request("run", block.id, LeadId, {}) /\ block' = [block EXCEPT !.disabled = TRUE]
        /\ listLoading' = listLoading /\ modal' = modal /\ drawn' = drawn /\ page' = page
    BY <1>2 DEF RunWorkflow
  <2>2. block \in Blocks /\ block.id \in Nat /\ block.id <= drawn /\ drawn \in Nat
    BY <2>1, BlockTypes, CallTypes DEF ButtonsFit
  <2>3. LeadId \in Leads \cup {None} /\ "run" \in Kinds
    BY DEF LeadId, Kinds
  <2>4. Net
    <3>1. /\ Request("run", block.id, LeadId, {}) /\ ~runPending /\ runPending' /\ modal' = modal
          /\ listLoading' = listLoading /\ drawn' \in Nat /\ drawn <= drawn' /\ block.id <= drawn'
      BY <2>1, <2>2
    <3> QED BY <2>2, <2>3, <3>1, SendKeeps
  <2>5. block' \in Blocks /\ block'.id = block.id /\ block'.list = block.list /\ block'.lead = block.lead
    BY <2>1, <2>2 DEF Blocks
  <2>6. TypeOK'
    BY <1>2, <2>4, <2>5 DEF RunWorkflow, TypeOK
  <2>7. ButtonsFit'
    BY <2>1, <2>2, <2>5 DEF ButtonsFit
  <2> QED BY <2>4, <2>6, <2>7
<1>3. CASE Refresh
  <2>1. /\ New /\ Request("pipeline", drawn', None, {}) /\ modal' = modal /\ listLoading' = listLoading
        /\ runPending' = runPending /\ page' = page /\ block' = block
        /\ box' = [id |-> drawn', select |-> "loading"] /\ dpRetries' = 0
    BY <1>3 DEF Refresh
  <2>2. "pipeline" \in Kinds /\ drawn' \in Nat /\ drawn <= drawn' /\ drawn' <= drawn'
    BY <2>1, NewNumber DEF Kinds
  <2>3. Net
    <3>1. Request("pipeline", drawn', None, {}) /\ modal' = modal /\ listLoading' = listLoading
          /\ runPending' = runPending
      BY <2>1
    <3> QED BY <2>2, <3>1, SendKeeps
  <2>4. box' \in Boxes
    BY <2>1, NewNumber DEF Boxes, Contents
  <2>5. TypeOK'
    BY <1>3, <2>1, <2>3, <2>4, NewNumber DEF Refresh, TypeOK
  <2>6. ButtonsFit'
    BY <2>1, NewNumber, BlockKept
  <2> QED BY <2>3, <2>5, <2>6
<1>4. ASSUME NEW w \in Choices, Choose(w) PROVE IInv'
  <2>1. page' = page /\ block' = block /\ drawn' = drawn /\ UNCHANGED <<netVars, listLoading, runPending, modal>>
    BY <1>4 DEF Choose
  <2>2. Net
    BY <2>1, CallTypes, QuietKeeps
  <2>3. TypeOK'
    BY <1>4, <2>2 DEF Choose, TypeOK
  <2>4. ButtonsFit'
    BY <2>1 DEF ButtonsFit
  <2> QED BY <2>2, <2>3, <2>4
<1> QED BY <1>1, <1>2, <1>3, <1>4

\* The window of a list: a new one has no request, a run makes it a running one.
LEMMA WindowSteps ==
  ASSUME IInv, CloseBulkModal \/ RunBulkWorkflow \/ \E S \in SUBSET Entities : OpenBulkModal(S)
  PROVE  IInv'
<1> USE DEF pageVars, cardVars, dpVars, IInv, Net, WindowRests
<1>1. CASE CloseBulkModal
  <2>1. modal' = None /\ UNCHANGED <<pageVars, cardVars, dpVars, netVars>>
    BY <1>1 DEF CloseBulkModal
  <2>2. FlagsAreHeld' /\ Numbered' /\ NoSuccess' /\ ListsHaveLeads'
    BY <2>1 DEF FlagsAreHeld, Numbered, NoSuccess, ListsHaveLeads, Unsettled, netVars
  <2>3. TypeOK' /\ ButtonsFit'
    BY <2>1 DEF TypeOK, ButtonsFit, netVars
  <2> QED BY <2>2, <2>3
<1>2. ASSUME NEW S \in SUBSET Entities, OpenBulkModal(S) PROVE IInv'
  <2>1. /\ New /\ UNCHANGED <<page, destroyed, bound, cardVars, dpVars>>
        /\ modal' = [id |-> drawn', entities |-> IF Allowed(S) THEN S ELSE {},
                     content |-> IF Allowed(S) THEN "loading" ELSE "message",
                     running |-> FALSE, disabled |-> FALSE]
        /\ \/ UNCHANGED netVars
           \/ Request("bulk list", drawn', None, {})
    BY <1>2 DEF OpenBulkModal
  <2>2. modal' \in Windows /\ modal'.id = drawn' /\ ~modal'.running
    BY <2>1, NewNumber DEF Windows, Contents
  <2>3. drawn' \in Nat /\ drawn <= drawn' /\ drawn < drawn' /\ drawn' <= drawn' /\ "bulk list" \in Kinds
    <3>1. New
      BY <2>1
    <3> QED BY <3>1, NewNumber DEF Kinds
  <2>4. Net
    <3>1. CASE UNCHANGED netVars
      BY <2>1, <2>2, <2>3, <3>1, QuietKeeps
    <3>2. CASE Request("bulk list", drawn', None, {})
      BY <2>1, <2>2, <2>3, <3>2, SendKeeps
    <3> QED BY <2>1, <3>1, <3>2
  <2>5. TypeOK'
    BY <2>1, <2>2, <2>3, <2>4 DEF TypeOK
  <2>6. ButtonsFit'
    BY <2>1, <2>3, BlockKept
  <2> QED BY <2>4, <2>5, <2>6
<1>3. CASE RunBulkWorkflow
  <2>1. modal # None /\ modal \in Windows /\ ~modal.running /\ modal.id \in Nat /\ modal.id <= drawn
        /\ drawn \in Nat /\ UNCHANGED <<pageVars, cardVars, dpVars>>
    BY <1>3, CallTypes DEF RunBulkWorkflow, Chosen, Numbered
  <2>2. CASE modal' = BulkMessage(modal) /\ UNCHANGED netVars
    <3>1. modal' \in Windows /\ modal'.id = modal.id /\ modal'.running = modal.running
      BY <2>1, <2>2 DEF BulkMessage, Windows, Contents
    <3>2. Net
      BY <2>1, <2>2, <3>1, QuietKeeps
    <3>3. TypeOK' /\ ButtonsFit'
      BY <2>1, <2>2, <3>1, <3>2 DEF TypeOK, ButtonsFit
    <3> QED BY <3>2, <3>3
  <2>3. CASE /\ Request("bulk", modal.id, None, modal.entities)
             /\ modal' = [modal EXCEPT !.running = TRUE, !.disabled = TRUE]
    <3>1. /\ modal' \in Windows /\ modal'.id = modal.id /\ modal'.running /\ modal' # None
          /\ modal.entities \in SUBSET Entities /\ "bulk" \in Kinds
      <4>1. modal' \in Windows /\ modal'.id = modal.id /\ modal'.running = TRUE
            /\ modal.entities \in SUBSET Entities
        BY <2>1, <2>3 DEF Windows
      <4> QED BY <4>1, NoneApart DEF Kinds
    <3>2. Added("bulk", modal.id, None, modal.entities)
      BY <2>1, <2>3, <3>1, RequestAdds
    <3>3. /\ \A k : k # "bulk" => Unsettled(k)' = Unsettled(k)
          /\ Unsettled("bulk")' = Unsettled("bulk") \cup {sent + 1}
          /\ sent + 1 \notin Unsettled("bulk")
      BY <2>1, <2>3, <3>1, RequestUnsettled
    <3>4. /\ \A i \in 1..MaxCalls : i > sent' => calls'[i] = None
          /\ \A i \in 1..MaxCalls : calls'[i] # None => calls'[i].of <= drawn'
          /\ ListsHaveLeads'
      BY <2>1, <2>3, <3>1, RequestKeeps
    <3>5. {i \in Unsettled("bulk") : calls[i].of = modal.id}' = {sent + 1}
      <4>1. {i \in Unsettled("bulk") : calls[i].of = modal.id} = {}
        BY <2>1 DEF FlagsAreHeld
      <4>2. calls'[sent + 1].of = modal'.id
        BY <3>1, <3>2 DEF Added
      <4>3. \A i \in Unsettled("bulk") : calls'[i] = calls[i]
        BY <3>2, <3>3 DEF Added, Unsettled
      <4> QED BY <3>1, <3>3, <4>1, <4>2, <4>3
    <3>6. FlagsAreHeld'
      BY <2>1, <3>1, <3>3, <3>5 DEF FlagsAreHeld, AtMostOne
    <3>7. NoSuccess'
      BY <2>1, <3>1, <3>2 DEF NoSuccess, Added
    <3>8. TypeOK' /\ ButtonsFit' /\ Numbered'
      BY <2>1, <3>1, <3>2, <3>4 DEF TypeOK, ButtonsFit, Numbered, Added
    <3> QED BY <3>4, <3>6, <3>7, <3>8
  <2> QED BY <1>3, <2>2, <2>3 DEF RunBulkWorkflow
<1> QED BY <1>1, <1>2, <1>3

-----------------------------------------------------------------------------
(* A request ends                                                           *)

Settled == {"late", "done", "failed"}

\* It is out no more, and nothing else of the requests changes.
LEMMA SettleChanges ==
  ASSUME TypeOK, NEW i \in 1..MaxCalls, Waiting(i), NEW s \in Settled,
         calls' = [calls EXCEPT ![i].state = s]
  PROVE  /\ calls' \in [1..MaxCalls -> {None} \cup Call]
         /\ calls'[i] = [calls[i] EXCEPT !.state = s]
         /\ \A k \in 1..MaxCalls : k # i => calls'[k] = calls[k]
         /\ \A k \in 1..MaxCalls : (calls'[k] = None <=> calls[k] = None)
         /\ \A k \in 1..MaxCalls : calls[k] # None =>
              calls'[k].kind = calls[k].kind /\ calls'[k].of = calls[k].of /\ calls'[k].lead = calls[k].lead
         /\ \A kind : Unsettled(kind)' = Unsettled(kind) \ {i}
         /\ \A kind : i \in Unsettled(kind) <=> calls[i].kind = kind
<1>1. calls[i] \in Call /\ calls[i] # None /\ calls[i].state = "out"
  BY CallTypes DEF Waiting
<1> DEFINE c == [calls[i] EXCEPT !.state = s]
<1>2. c \in Call /\ c.kind = calls[i].kind /\ c.of = calls[i].of /\ c.lead = calls[i].lead /\ c.state = s
  BY <1>1 DEF Call, Settled
<1>3. c # None
  BY <1>2, NoneApart
<1>4. calls' = [calls EXCEPT ![i] = c]
  OBVIOUS
<1> HIDE DEF c
<1>5. /\ calls' \in [1..MaxCalls -> {None} \cup Call] /\ calls'[i] = c
      /\ \A k \in 1..MaxCalls : k # i => calls'[k] = calls[k]
  BY <1>2, <1>4, CallTypes
<1>6. s # "out"
  BY DEF Settled
<1>7. ASSUME NEW kind PROVE Unsettled(kind)' = Unsettled(kind) \ {i}
  BY <1>2, <1>5, <1>6 DEF Unsettled
<1>8. \A kind : i \in Unsettled(kind) <=> calls[i].kind = kind
  BY <1>1 DEF Unsettled
<1>9. \A k \in 1..MaxCalls : calls[k] # None =>
        calls'[k].kind = calls[k].kind /\ calls'[k].of = calls[k].of /\ calls'[k].lead = calls[k].lead
  BY <1>2, <1>5
<1>10. \A k \in 1..MaxCalls : (calls'[k] = None <=> calls[k] = None)
  BY <1>1, <1>3, <1>5
<1> QED BY <1>5, <1>7, <1>8, <1>9, <1>10 DEF c

\* Its handler lowers the flag that was raised for it; a window that had success
\* is gone.
LEMMA SettleSteps ==
  ASSUME IInv, NEW i \in 1..MaxCalls, Waiting(i), NEW s \in Settled,
         NEW result \in {"buttons", "empty", "message"}, s = "done" => result = "buttons",
         calls' = [calls EXCEPT ![i].state = s], Handled(calls[i], result), Rests
  PROVE  IInv'
<1> USE DEF IInv, Rests, pageVars
<1> DEFINE c == calls[i]
<1>1. c \in Call /\ c # None /\ c.kind \in Kinds /\ c.of \in Nat /\ c.lead \in Leads \cup {None}
  <2>1. c \in Call /\ c # None
    BY CallTypes DEF Waiting
  <2> QED BY <2>1 DEF Call
<1>2. /\ calls' \in [1..MaxCalls -> {None} \cup Call]
      /\ calls'[i] = [calls[i] EXCEPT !.state = s]
      /\ \A k \in 1..MaxCalls : k # i => calls'[k] = calls[k]
      /\ \A k \in 1..MaxCalls : (calls'[k] = None <=> calls[k] = None)
      /\ \A k \in 1..MaxCalls : calls[k] # None =>
           calls'[k].kind = calls[k].kind /\ calls'[k].of = calls[k].of /\ calls'[k].lead = calls[k].lead
      /\ \A kind : Unsettled(kind)' = Unsettled(kind) \ {i}
      /\ \A kind : i \in Unsettled(kind) <=> calls[i].kind = kind
  BY SettleChanges
<1>3. ListsHaveLeads'
  BY <1>2 DEF ListsHaveLeads
<1>4. /\ modal' # None => modal # None /\ modal' \in Windows /\ modal'.id = modal.id
      /\ modal' # None /\ ~(c.kind = "bulk" /\ c.of = modal.id) => modal'.running = modal.running
      /\ modal' # None /\ c.kind = "bulk" /\ c.of = modal.id => ~modal'.running /\ s # "done"
  <2>1. modal = None \/ modal \in Windows
    BY DEF TypeOK
  <2>2. CASE c.kind \notin {"bulk list", "bulk"}
    <3>1. modal' = modal
      BY <2>2 DEF Handled, Listed, Ran, Offered
    <3> QED BY <2>1, <2>2, <3>1
  <2>3. CASE c.kind = "bulk list"
    <3>1. modal' = IF modal # None /\ result = "buttons"
                   THEN [modal EXCEPT !.content = "buttons", !.disabled = FALSE]
                   ELSE BulkMessage(modal)
      BY <2>3 DEF Handled, BulkListed
    <3>2. CASE modal = None
      <4>1. modal' = None
        BY <3>1, <3>2 DEF BulkMessage
      <4> QED BY <4>1
    <3>3. CASE modal # None /\ result = "buttons"
      <4>1. modal' = [modal EXCEPT !.content = "buttons", !.disabled = FALSE]
        BY <3>1, <3>3
      <4> QED BY <2>1, <2>3, <3>3, <4>1 DEF Windows, Contents
    <3>4. CASE modal # None /\ result # "buttons"
      <4>1. modal' = BulkMessage(modal)
        BY <3>1, <3>4
      <4> QED BY <2>1, <2>3, <3>4, <4>1 DEF BulkMessage, Windows, Contents
    <3> QED BY <3>2, <3>3, <3>4
  <2>4. CASE c.kind = "bulk"
    <3>1. BulkRan(c, result)
      BY <2>4 DEF Handled
    <3>2. CASE modal = None \/ result = "buttons"
      BY <3>1, <3>2 DEF BulkRan
    <3>3. CASE modal # None /\ result # "buttons" /\ modal.id = c.of
      <4>1. modal' = [BulkMessage(modal) EXCEPT !.running = FALSE, !.disabled = FALSE]
        BY <3>1, <3>3 DEF BulkRan
      <4> QED BY <2>1, <2>4, <3>3, <4>1 DEF BulkMessage, Windows, Contents
    <3>4. CASE modal # None /\ result # "buttons" /\ modal.id # c.of
      <4>1. modal' = BulkMessage(modal)
        BY <3>1, <3>4 DEF BulkRan
      <4> QED BY <2>1, <3>4, <4>1 DEF BulkMessage, Windows, Contents
    <3> QED BY <3>2, <3>3, <3>4
  <2> QED BY <2>2, <2>3, <2>4
<1>5. block' \in {None} \cup Blocks /\ ButtonsFit'
  <2>1. page' = page /\ drawn' = drawn
    OBVIOUS
  <2>2. CASE block' = block
    BY <2>1, <2>2 DEF TypeOK, ButtonsFit
  <2>3. CASE /\ c.kind = "list" /\ LeadId = c.lead /\ block # None
             /\ block' = [block EXCEPT !.list = result, !.lead = c.lead, !.disabled = FALSE]
    <3>1. c.lead \in Leads /\ page = c.lead
      <4>1. c.lead \in Leads
        BY <1>1, <2>3 DEF ListsHaveLeads
      <4> QED BY <2>3, <4>1, NoneApart DEF LeadId
    <3>2. block \in Blocks /\ block.id <= drawn
      BY <2>3, BlockTypes DEF ButtonsFit
    <3>3. block' \in Blocks /\ block'.id = block.id /\ block'.lead = c.lead
      BY <1>1, <2>3, <3>2 DEF Blocks, Contents
    <3> QED BY <2>1, <3>1, <3>2, <3>3 DEF ButtonsFit
  <2>4. CASE block # None /\ block' = [block EXCEPT !.disabled = FALSE]
    <3>1. block \in Blocks
      BY <2>4, BlockTypes
    <3>2. block' \in Blocks /\ block'.id = block.id /\ block'.list = block.list /\ block'.lead = block.lead
      BY <2>4, <3>1 DEF Blocks
    <3> QED BY <2>1, <2>4, <3>2 DEF ButtonsFit
  <2> QED BY <2>2, <2>3, <2>4 DEF Handled, Listed, Ran, BulkListed, BulkRan, Offered
<1>6. /\ listLoading' \in BOOLEAN /\ runPending' \in BOOLEAN
      /\ listLoading' <=> listLoading /\ c.kind # "list"
      /\ runPending' <=> runPending /\ c.kind # "run"
  <2>1. listLoading \in BOOLEAN /\ runPending \in BOOLEAN
    BY DEF TypeOK
  <2>2. CASE c.kind = "list"
    <3>1. listLoading' = FALSE /\ runPending' = runPending
      BY <2>2 DEF Handled, Listed
    <3>2. c.kind # "run"
      BY <2>2
    <3> QED BY <2>1, <2>2, <3>1, <3>2, Zenon
  <2>3. CASE c.kind = "run"
    <3>1. listLoading' = listLoading /\ runPending' = FALSE
      BY <2>3 DEF Handled, Ran
    <3>2. c.kind # "list"
      BY <2>3
    <3> QED BY <2>1, <2>3, <3>1, <3>2, Zenon
  <2>4. CASE c.kind \notin {"list", "run"}
    <3>1. UNCHANGED <<listLoading, runPending>>
      BY <2>4 DEF Handled, BulkListed, BulkRan, Offered
    <3> QED BY <2>1, <2>4, <3>1
  <2> QED BY <2>2, <2>3, <2>4
<1>7. box' \in {None} \cup Boxes
  <2>1. CASE box' = box
    BY <2>1 DEF TypeOK
  <2>2. CASE box # None /\ box' = [box EXCEPT !.select = result]
    <3>1. box \in Boxes
      BY <2>2 DEF TypeOK
    <3> QED BY <2>2, <3>1 DEF Boxes, Contents
  <2> QED BY <2>1, <2>2 DEF Handled, Listed, Ran, BulkListed, BulkRan, Offered
<1>8. Numbered'
  BY <1>2, <1>4 DEF Numbered
<1>9. NoSuccess'
  <2> SUFFICES ASSUME modal' # None, NEW k \in 1..MaxCalls, calls'[k] # None,
                      calls'[k].kind = "bulk", calls'[k].of = modal'.id
               PROVE  calls'[k].state # "done"
    BY DEF NoSuccess
  <2>1. modal # None /\ modal'.id = modal.id /\ calls[k] # None /\ calls[k].kind = "bulk"
        /\ calls[k].of = modal.id
    BY <1>2, <1>4
  <2>2. CASE k = i
    <3>1. calls'[k].state = s
      BY <1>1, <1>2, <2>2 DEF Call
    <3> QED BY <1>4, <2>1, <2>2, <3>1
  <2>3. CASE k # i
    BY <1>2, <2>1, <2>3 DEF NoSuccess
  <2> QED BY <2>2, <2>3
<1>10. FlagsAreHeld'
  <2>1. AtMostOne(Unsettled("list"))' /\ (listLoading <=> Unsettled("list") # {})'
    BY <1>2, <1>6 DEF FlagsAreHeld, AtMostOne
  <2>2. AtMostOne(Unsettled("run"))' /\ (runPending <=> Unsettled("run") # {})'
    BY <1>2, <1>6 DEF FlagsAreHeld, AtMostOne
  <2>3. ASSUME modal' # None
        PROVE  /\ AtMostOne({k \in Unsettled("bulk") : calls[k].of = modal.id})'
               /\ (modal.running <=> {k \in Unsettled("bulk") : calls[k].of = modal.id} # {})'
    <3> DEFINE mine == {k \in Unsettled("bulk") : calls[k].of = modal.id}
    <3>1. modal # None /\ modal'.id = modal.id
      BY <1>4, <2>3
    <3>2. \A k \in Unsettled("bulk") : k \in 1..MaxCalls /\ calls[k] # None
      BY DEF Unsettled
    <3>3. mine' = mine \ {i}
      BY <1>2, <3>1, <3>2
    <3>4. AtMostOne(mine) /\ (modal.running <=> mine # {})
      BY <3>1 DEF FlagsAreHeld
    <3>5. i \in mine <=> c.kind = "bulk" /\ c.of = modal.id
      BY <1>2
    <3>6. AtMostOne(mine')
      BY <3>3, <3>4 DEF AtMostOne
    <3>7. CASE i \in mine
      BY <1>4, <2>3, <3>3, <3>4, <3>5, <3>6, <3>7 DEF AtMostOne
    <3>8. CASE i \notin mine
      BY <1>4, <2>3, <3>3, <3>4, <3>5, <3>6, <3>8 DEF AtMostOne
    <3> QED BY <3>7, <3>8
  <2> QED BY <2>1, <2>2, <2>3 DEF FlagsAreHeld
<1>11. TypeOK'
  BY <1>2, <1>4, <1>5, <1>6, <1>7 DEF TypeOK
<1> QED BY <1>3, <1>5, <1>8, <1>9, <1>10, <1>11

LEMMA CallSteps == ASSUME IInv, Calls PROVE IInv'
<1>1. PICK i \in 1..MaxCalls :
        TimesOut(i) \/ \E result \in {"buttons", "empty", "message"} : Answer(i, result)
  BY DEF Calls
<1>2. CASE TimesOut(i)
  <2>1. Waiting(i) /\ calls' = [calls EXCEPT ![i].state = "late"] /\ Handled(calls[i], "message") /\ Rests
    BY <1>2 DEF TimesOut
  <2>2. "late" \in Settled
    BY DEF Settled
  <2> QED BY <2>1, <2>2, SettleSteps
<1>3. ASSUME NEW result \in {"buttons", "empty", "message"}, Answer(i, result) PROVE IInv'
  <2> DEFINE s == IF result = "buttons" THEN "done" ELSE "failed"
  <2>1. Waiting(i) /\ calls' = [calls EXCEPT ![i].state = s] /\ Handled(calls[i], result) /\ Rests
    BY <1>3 DEF Answer
  <2>2. s \in Settled /\ (s = "done" => result = "buttons")
    BY DEF Settled
  <2> HIDE DEF s
  <2> QED BY <2>1, <2>2, SettleSteps
<1> QED BY <1>1, <1>2, <1>3

-----------------------------------------------------------------------------
(* The theorems                                                             *)

LEMMA NextInv == IInv /\ [Next]_vars => IInv'
<1> SUFFICES ASSUME IInv, [Next]_vars PROVE IInv'
  OBVIOUS
<1>1. CASE Amo
  BY <1>1, AmoSteps
<1>2. CASE User
  BY <1>2, CardSteps, WindowSteps DEF User
<1>3. CASE Timers
  BY <1>3, TimerSteps
<1>4. CASE Calls
  BY <1>4, CallSteps
<1>5. CASE UNCHANGED vars
  BY <1>5 DEF vars, pageVars, cardVars, bulkVars, dpVars, netVars, IInv, TypeOK, Numbered,
              ButtonsFit, NoSuccess, ListsHaveLeads, FlagsAreHeld, AtMostOne, Unsettled
<1> QED BY <1>1, <1>2, <1>3, <1>4, <1>5 DEF Next

\* Every reachable state satisfies the inductive invariant.
THEOREM InvHolds == Spec => []IInv
<1>1. Init => IInv
  BY InitInv
<1>2. IInv /\ [Next]_vars => IInv'
  BY NextInv
<1> QED BY <1>1, <1>2, PTL DEF Spec

\* The variables keep their types for any leads, elements, requests and pages.
THEOREM TypeCorrect == Spec => []TypeOK
<1>1. IInv => TypeOK
  BY DEF IInv
<1> QED BY <1>1, InvHolds, PTL

\* A flag is up exactly while the one request it stands for is unsettled, so no
\* card and no window stays blocked behind a request that has ended
\* (script.js: listLoading, runPending, the window's running).
THEOREM FlagsHeld == Spec => []FlagsAreHeld
<1>1. IInv => FlagsAreHeld
  BY DEF IInv
<1> QED BY <1>1, InvHolds, PTL

-----------------------------------------------------------------------------
(* What is run                                                              *)

\* What RunsAreMeant says of a step.
Meant ==
  \A i \in 1..MaxCalls :
    calls[i] = None /\ calls'[i] # None =>
      /\ calls'[i].kind = "run" =>
           /\ Unsettled("run") = {} /\ calls'[i].lead # None
           /\ block # None /\ block.lead = calls'[i].lead /\ block.id = calls'[i].of
      /\ calls'[i].kind = "bulk" =>
           /\ modal # None /\ calls'[i].of = modal.id /\ calls'[i].entities = modal.entities
           /\ Allowed(calls'[i].entities)
           /\ \A k \in 1..MaxCalls :
                calls[k] # None /\ calls[k].kind = "bulk" /\ calls[k].of = calls'[i].of =>
                  calls[k].state \in {"failed", "late"}

\* A request that asks for a list runs nothing.
LEMMA ListsMean ==
  ASSUME IInv, NEW kind \in Kinds, kind \notin {"run", "bulk"}, NEW of \in Nat,
         NEW lead \in Leads \cup {None}, Request(kind, of, lead, {})
  PROVE  Meant
<1>1. Added(kind, of, lead, {})
  BY RequestAdds DEF IInv
<1>2. calls'[sent + 1].kind = kind
  BY <1>1 DEF Added
<1> QED BY <1>1, <1>2 DEF Added, Meant

LEMMA LoadMeans == ASSUME IInv, NEW left \in Nat, LoadButtons(left) PROVE Meant
<1>1. CASE UNCHANGED netVars
  BY <1>1 DEF Meant, netVars
<1>2. CASE block # None /\ LeadId # None /\ Request("list", block.id, LeadId, {})
  <2>1. block.id \in Nat /\ LeadId \in Leads \cup {None} /\ "list" \in Kinds
    BY <1>2, BlockTypes DEF IInv, LeadId, Kinds
  <2> QED BY <1>2, <2>1, ListsMean
<1> QED BY <1>1, <1>2 DEF LoadButtons

\* A card's run goes to the lead whose buttons are shown.
LEMMA RunMeans == ASSUME IInv, RunWorkflow PROVE Meant
<1> USE DEF IInv
<1>1. block # None /\ block.list = "buttons" /\ ~runPending /\ Request("run", block.id, LeadId, {})
  BY DEF RunWorkflow
<1>2. block.id \in Nat /\ LeadId \in Leads \cup {None} /\ "run" \in Kinds
  BY <1>1, BlockTypes DEF LeadId, Kinds
<1>3. Added("run", block.id, LeadId, {})
  BY <1>1, <1>2, RequestAdds
<1>4. page \in Leads /\ block.lead = page /\ LeadId = page /\ LeadId # None
  BY <1>1, NoneApart DEF ButtonsFit, LeadId
<1>5. Unsettled("run") = {}
  BY <1>1 DEF FlagsAreHeld
<1>6. calls'[sent + 1].kind = "run" /\ calls'[sent + 1].of = block.id /\ calls'[sent + 1].lead = LeadId
  BY <1>3 DEF Added
<1> QED BY <1>1, <1>3, <1>4, <1>5, <1>6 DEF Added, Meant

\* A window's run carries its selection, and every run before it failed or was
\* given up.
LEMMA BulkMeans == ASSUME IInv, RunBulkWorkflow PROVE Meant
<1> USE DEF IInv
<1>1. CASE UNCHANGED netVars
  BY <1>1 DEF Meant, netVars
<1>2. CASE Allowed(modal.entities) /\ Request("bulk", modal.id, None, modal.entities)
  <2>1. modal # None /\ modal \in Windows /\ ~modal.running /\ modal.id \in Nat
    BY CallTypes DEF RunBulkWorkflow, Chosen
  <2>2. modal.entities \in SUBSET Entities /\ "bulk" \in Kinds
    BY <2>1 DEF Windows, Kinds
  <2>3. Added("bulk", modal.id, None, modal.entities)
    BY <1>2, <2>1, <2>2, RequestAdds
  <2>4. /\ calls'[sent + 1].kind = "bulk" /\ calls'[sent + 1].of = modal.id
        /\ calls'[sent + 1].entities = modal.entities
    BY <2>3 DEF Added
  <2>5. ASSUME NEW k \in 1..MaxCalls, calls[k] # None, calls[k].kind = "bulk", calls[k].of = modal.id
        PROVE  calls[k].state \in {"failed", "late"}
    <3>1. calls[k].state \in {"out", "late", "done", "failed"}
      BY <2>5, CallTypes DEF Call
    <3>2. calls[k].state # "done"
      BY <2>1, <2>5 DEF NoSuccess
    <3>3. calls[k].state # "out"
      <4>1. {j \in Unsettled("bulk") : calls[j].of = modal.id} = {}
        BY <2>1 DEF FlagsAreHeld
      <4> QED BY <2>5, <4>1 DEF Unsettled
    <3> QED BY <3>1, <3>2, <3>3
  <2> QED BY <1>2, <2>1, <2>3, <2>4, <2>5 DEF Added, Meant
<1> QED BY <1>1, <1>2 DEF RunBulkWorkflow

LEMMA NextMeans == IInv /\ [Next]_vars => [Meant]_vars
<1> SUFFICES ASSUME IInv, Next PROVE Meant
  OBVIOUS
<1>1. CASE Amo \/ CloseBulkModal \/ \E w \in Choices : Choose(w)
  <2>1. calls' = calls
    BY <1>1 DEF Amo, Draw, Leave, Enter, SaveLead, CloseBulkModal, Choose, netVars
  <2> QED BY <2>1 DEF Meant
<1>2. CASE Focus \/ TimerFires
  <2>1. due \in Nat /\ (due > 0 => due - 1 \in Nat)
    BY DEF IInv, TypeOK
  <2> QED BY <1>2, <2>1, LoadMeans DEF Focus, TimerFires
<1>3. CASE Refresh \/ RenderDpSettings \/ \E S \in SUBSET Entities : OpenBulkModal(S)
  <2>1. \/ calls' = calls
        \/ New /\ Request("pipeline", drawn', None, {})
        \/ New /\ Request("bulk list", drawn', None, {})
    BY <1>3 DEF Refresh, RenderDpSettings, OpenBulkModal, netVars
  <2>2. New => drawn' \in Nat
    BY NewNumber DEF IInv
  <2>3. "pipeline" \in Kinds /\ "bulk list" \in Kinds
    BY DEF Kinds
  <2>4. CASE calls' = calls
    BY <2>4 DEF Meant
  <2> QED BY <2>1, <2>2, <2>3, <2>4, ListsMean
<1>4. CASE Calls
  <2>1. PICK i \in 1..MaxCalls, s \in Settled :
          Waiting(i) /\ calls' = [calls EXCEPT ![i].state = s]
    BY <1>4 DEF Calls, TimesOut, Answer, Settled
  <2>2. \A k \in 1..MaxCalls : (calls'[k] = None <=> calls[k] = None)
    BY <2>1, SettleChanges DEF IInv
  <2> QED BY <2>2 DEF Meant
<1> QED BY <1>1, <1>2, <1>3, <1>4, RunMeans, BulkMeans DEF Next, User, Timers

\* Every run is one the user saw: the card's goes to the lead whose buttons were
\* shown while no other is out, the window's carries its own allowed selection
\* and follows no success (script.js: runWorkflow, runBulkWorkflow).
THEOREM RunsMeant == Spec => RunsAreMeant
<1>1. IInv /\ [Next]_vars => [Meant]_vars
  BY NextMeans
<1>2. [][Meant]_vars => RunsAreMeant
  BY DEF RunsAreMeant, Meant
<1> QED BY <1>1, <1>2, InvHolds, PTL DEF Spec
=============================================================================
