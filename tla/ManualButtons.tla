--------------------------- MODULE ManualButtons ---------------------------
(***************************************************************************)
(* The amoCRM widget that runs workflows by hand                           *)
(* (public/amocrm/workflows/manual-buttons/script.js): the buttons in the  *)
(* card of a lead, the window that runs a workflow for selected elements   *)
(* of a list, and the choice of a workflow in the Digital Pipeline.        *)
(*                                                                         *)
(* One page is open at a time; amoCRM draws and removes it and calls the   *)
(* widget back.  Requests are answered late, out of order or not at all; a *)
(* timer of ten seconds ends the wait for each.  What is captured by a     *)
(* handler, an element of the page or the window it was made for, is named *)
(* by a number: writing to an element that is gone does nothing visible.   *)
(* A hidden widget holds no buttons, so hiding and showing is left out.    *)
(* amoCRM offers render_template and draws the block anew with each card;  *)
(* how mount does without it, where a block that is there stays, is not    *)
(* modelled.                                                               *)
(***************************************************************************)
EXTENDS Naturals, FiniteSets

CONSTANTS Leads, Entities,  \* leads with cards, elements that a list selects
          MaxSelected,      \* 250
          Choices,          \* workflows of the Digital Pipeline
          None,
          MaxRetries,       \* LOAD_RETRIES 10, dpRetries 20
          MaxCalls,         \* bound on the requests
          MaxPages          \* bound on the pages, windows and boxes drawn

Cards == Leads \cup {"new card"}
Pages == Cards \cup {"list", "pipeline"}

\* What a list, a window or a choice holds.
Contents == {"loading", "buttons", "empty", "message"}
Blocks   == [id : Nat, list : Contents, lead : Leads \cup {None}, disabled : BOOLEAN]
Windows  == [id : Nat, entities : SUBSET Entities, content : Contents,
             running : BOOLEAN, disabled : BOOLEAN]
Boxes    == [id : Nat, select : Contents]

\* A request, made for a lead or for selected elements by the element `of`.
Kinds == {"list", "run", "bulk list", "bulk", "pipeline"}
Call  == [kind : Kinds, of : Nat, lead : Leads \cup {None}, entities : SUBSET Entities,
          state : {"out", "late", "done", "failed"}]

ASSUME ButtonsAssumption ==
  /\ MaxSelected \in Nat \ {0} /\ MaxRetries \in Nat /\ MaxCalls \in Nat /\ MaxPages \in Nat
  /\ None \notin Leads \cup Entities \cup Choices \cup Blocks \cup Windows \cup Boxes \cup Call
  /\ Leads \cap {"new card", "list", "pipeline"} = {}

VARIABLES
  page, drawn,        \* the page that is open; elements drawn so far
  destroyed, bound,   \* the widget's flag; whether its event handlers are set
  block, due, retries,      \* the block of buttons, timers of loadButtons, LOAD_RETRIES
  listLoading, runPending,
  modal,              \* the window of a list
  box, field,         \* the choice drawn in the pipeline's settings and the stored one
  dpRetries, dpDue,
  calls, sent         \* the requests and how many were sent

pageVars == <<page, drawn, destroyed, bound>>
cardVars == <<block, due, retries, listLoading, runPending>>
bulkVars == modal
dpVars   == <<box, field, dpRetries, dpDue>>
netVars  == <<calls, sent>>
vars == <<pageVars, cardVars, bulkVars, dpVars, netVars>>

\* Only the card of a saved lead has an id.
LeadId == IF page \in Leads THEN page ELSE None

Init ==
  /\ page = None /\ drawn = 0 /\ destroyed = FALSE /\ bound = FALSE
  /\ block = None /\ due = 0 /\ retries = 0 /\ listLoading = FALSE /\ runPending = FALSE
  /\ modal = None /\ box = None /\ field \in Choices \cup {None} /\ dpRetries = 0 /\ dpDue = 0
  /\ calls = [i \in 1..MaxCalls |-> None] /\ sent = 0

New == drawn < MaxPages /\ drawn' = drawn + 1

\* A request is sent; its timer runs.
Request(kind, of, lead, entities) ==
  /\ sent < MaxCalls
  /\ sent' = sent + 1
  /\ calls' = [calls EXCEPT ![sent + 1] =
                 [kind |-> kind, of |-> of, lead |-> lead, entities |-> entities, state |-> "out"]]

-----------------------------------------------------------------------------
(* amoCRM opens pages and calls the widget.                                 *)

\* render and bind_actions; in a card the block is mounted and a load planned.
Enter(p) ==
  /\ New /\ page' = p /\ destroyed' = FALSE /\ bound' = TRUE
  /\ retries' = 0 /\ block' = None /\ box' = None
  /\ due' = IF p \in Cards THEN due + 1 ELSE due
  /\ dpRetries' = IF p = "pipeline" THEN 0 ELSE dpRetries
  /\ dpDue' = IF p = "pipeline" THEN dpDue + 1 ELSE dpDue
  /\ UNCHANGED <<listLoading, runPending, modal, field, netVars>>

\* What render_template was given appears in the card; the last card's block is
\* gone with it (Enter).
Draw ==
  /\ page \in Cards /\ block = None /\ New
  /\ block' = [id |-> drawn', list |-> "loading", lead |-> None, disabled |-> FALSE]
  /\ UNCHANGED <<page, destroyed, bound, due, retries, listLoading, runPending,
                 modal, dpVars, netVars>>

\* A new lead is saved without another page.
SaveLead(l) ==
  /\ page = "new card" /\ page' = l
  /\ UNCHANGED <<drawn, destroyed, bound, cardVars, modal, dpVars, netVars>>

Leave ==
  /\ page # None
  /\ page' = None /\ destroyed' = TRUE /\ bound' = FALSE /\ block' = None /\ box' = None
  /\ UNCHANGED <<drawn, due, retries, listLoading, runPending, modal, field, dpRetries, dpDue,
                 netVars>>

-----------------------------------------------------------------------------
(* The card.                                                                *)

Loadable == ~destroyed /\ ~listLoading /\ ~runPending /\ page \in Cards

\* `left` timers are left. A block that is not drawn yet is looked for again.
LoadButtons(left) ==
  \/ ~Loadable /\ due' = left /\ UNCHANGED <<block, retries, listLoading, netVars>>
  \/ /\ Loadable /\ block = None
     /\ IF retries < MaxRetries THEN retries' = retries + 1 /\ due' = left + 1
                                ELSE due' = left /\ UNCHANGED retries
     /\ UNCHANGED <<block, listLoading, netVars>>
  \/ /\ Loadable /\ block # None /\ LeadId = None
     /\ block' = [block EXCEPT !.list = "message"] /\ due' = left
     /\ UNCHANGED <<retries, listLoading, netVars>>
  \/ /\ Loadable /\ block # None /\ LeadId # None
     /\ Request("list", block.id, LeadId, {}) /\ listLoading' = TRUE /\ due' = left
     /\ UNCHANGED <<block, retries>>

TimerFires ==
  /\ due > 0 /\ LoadButtons(due - 1)
  /\ UNCHANGED <<pageVars, runPending, modal, dpVars>>

\* The window is focused or seen again, two seconds after the last load.
Focus ==
  /\ bound /\ LoadButtons(due)
  /\ UNCHANGED <<pageVars, runPending, modal, dpVars>>

\* An answer changes the block it was asked for, if the lead's card is still open.
Listed(c, result) ==
  /\ listLoading' = FALSE
  /\ block' = IF ~destroyed /\ LeadId = c.lead /\ block # None /\ block.id = c.of
              THEN [block EXCEPT !.list = result, !.lead = c.lead, !.disabled = FALSE]
              ELSE block
  /\ UNCHANGED <<runPending, modal, box>>

\* A click on an enabled button; it looks up the lead of the card now.
RunWorkflow ==
  /\ bound /\ block # None /\ block.list = "buttons" /\ ~block.disabled
  /\ ~runPending
  /\ Request("run", block.id, LeadId, {})
  /\ runPending' = TRUE /\ block' = [block EXCEPT !.disabled = TRUE]
  /\ UNCHANGED <<pageVars, due, retries, listLoading, modal, dpVars>>

\* finish: the buttons of the run's block are enabled again, whatever came.
Ran(c) ==
  /\ runPending' = FALSE
  /\ block' = IF block # None /\ block.id = c.of THEN [block EXCEPT !.disabled = FALSE] ELSE block
  /\ UNCHANGED <<listLoading, modal, box>>

-----------------------------------------------------------------------------
(* The window of a list.                                                    *)

Allowed(S) == S # {} /\ Cardinality(S) <= MaxSelected

\* It replaces the one before. A selection that is not allowed counts as none.
OpenBulkModal(S) ==
  /\ page = "list" /\ New
  /\ modal' = [id |-> drawn', entities |-> IF Allowed(S) THEN S ELSE {},
               content |-> IF Allowed(S) THEN "loading" ELSE "message",
               running |-> FALSE, disabled |-> FALSE]
  /\ IF Allowed(S) THEN Request("bulk list", drawn', None, {}) ELSE UNCHANGED netVars
  /\ UNCHANGED <<page, destroyed, bound, cardVars, dpVars>>

CloseBulkModal ==
  /\ bound /\ modal # None /\ modal' = None
  /\ UNCHANGED <<pageVars, cardVars, dpVars, netVars>>

BulkMessage(m) == IF m = None THEN None ELSE [m EXCEPT !.content = "message"]

\* The list is written to the window that is open now.
BulkListed(result) ==
  /\ modal' = IF modal # None /\ result = "buttons"
              THEN [modal EXCEPT !.content = "buttons", !.disabled = FALSE]
              ELSE BulkMessage(modal)
  /\ UNCHANGED <<listLoading, runPending, block, box>>

Chosen == bound /\ modal # None /\ modal.content = "buttons" /\ ~modal.disabled /\ ~modal.running

\* Fault: the window's selection is not looked at again.
RunBulkUnchecked ==
  /\ Chosen
  /\ Request("bulk", modal.id, None, modal.entities)
  /\ modal' = [modal EXCEPT !.running = TRUE, !.disabled = TRUE]
  /\ UNCHANGED <<pageVars, cardVars, dpVars>>

RunBulkWorkflow ==
  /\ Chosen
  /\ IF Allowed(modal.entities)
     THEN /\ Request("bulk", modal.id, None, modal.entities)
          /\ modal' = [modal EXCEPT !.running = TRUE, !.disabled = TRUE]
     ELSE modal' = BulkMessage(modal) /\ UNCHANGED netVars
  /\ UNCHANGED <<pageVars, cardVars, dpVars>>

\* Success closes the window that is open now; a failure is told there, and the
\* window of the run may run again.
BulkRan(c, result) ==
  /\ modal' = CASE modal = None \/ result = "buttons" -> None
                [] modal # None /\ result # "buttons" /\ modal.id = c.of ->
                     [BulkMessage(modal) EXCEPT !.running = FALSE, !.disabled = FALSE]
                [] OTHER -> BulkMessage(modal)
  /\ UNCHANGED <<listLoading, runPending, block, box>>

-----------------------------------------------------------------------------
(* The settings of the Digital Pipeline.                                    *)

\* dpSettings plans it; the input may not be there yet.
RenderDpSettings ==
  /\ dpDue > 0
  /\ \/ destroyed /\ dpDue' = dpDue - 1 /\ UNCHANGED <<drawn, box, dpRetries, netVars>>
     \/ /\ ~destroyed
        /\ IF dpRetries < MaxRetries THEN dpRetries' = dpRetries + 1 /\ UNCHANGED dpDue
                                     ELSE dpDue' = dpDue - 1 /\ UNCHANGED dpRetries
        /\ UNCHANGED <<drawn, box, netVars>>
     \/ /\ ~destroyed /\ page = "pipeline" /\ box # None /\ dpDue' = dpDue - 1
        /\ UNCHANGED <<drawn, box, dpRetries, netVars>>
     \/ /\ ~destroyed /\ page = "pipeline" /\ box = None /\ dpDue' = dpDue - 1
        /\ New /\ box' = [id |-> drawn', select |-> "loading"]
        /\ Request("pipeline", drawn', None, {}) /\ UNCHANGED dpRetries
  /\ UNCHANGED <<page, destroyed, bound, cardVars, modal, field>>

Refresh ==
  /\ box # None /\ New /\ dpRetries' = 0
  /\ box' = [id |-> drawn', select |-> "loading"]
  /\ Request("pipeline", drawn', None, {})
  /\ UNCHANGED <<page, destroyed, bound, cardVars, modal, field, dpDue>>

Offered(c, result) ==
  /\ box' = IF box # None /\ box.id = c.of THEN [box EXCEPT !.select = result] ELSE box
  /\ UNCHANGED <<listLoading, runPending, block, modal>>

Choose(w) ==
  /\ box # None /\ box.select = "buttons" /\ field' = w
  /\ UNCHANGED <<pageVars, cardVars, modal, box, dpRetries, dpDue, netVars>>

-----------------------------------------------------------------------------
(* Requests end once: with an answer, an error or the timer.                *)

\* Fault: an answer behind the timer is taken too.
WaitingOrLate(i) == calls[i] # None /\ calls[i].state \in {"out", "late"}

Waiting(i) == calls[i] # None /\ calls[i].state = "out"

\* What the handlers do: a list, nothing to list, or a refusal or error.
Handled(c, result) ==
  \/ c.kind = "list" /\ Listed(c, result)
  \/ c.kind = "run" /\ Ran(c)
  \/ c.kind = "bulk list" /\ BulkListed(result)
  \/ c.kind = "bulk" /\ BulkRan(c, result)
  \/ c.kind = "pipeline" /\ Offered(c, result)

Rests == UNCHANGED <<pageVars, due, retries, field, dpRetries, dpDue, sent>>

Answer(i, result) ==
  /\ Waiting(i) /\ calls' = [calls EXCEPT ![i].state = IF result = "buttons" THEN "done" ELSE "failed"]
  /\ Handled(calls[i], result) /\ Rests

TimesOut(i) ==
  /\ Waiting(i) /\ calls' = [calls EXCEPT ![i].state = "late"]
  /\ Handled(calls[i], "message") /\ Rests

-----------------------------------------------------------------------------
Amo  == Draw \/ Leave \/ (\E p \in Pages : Enter(p)) \/ (\E l \in Leads : SaveLead(l))
User == Focus \/ RunWorkflow \/ (\E S \in SUBSET Entities : OpenBulkModal(S)) \/ CloseBulkModal
        \/ RunBulkWorkflow \/ Refresh \/ \E w \in Choices : Choose(w)
Timers == TimerFires \/ RenderDpSettings
Calls  == \E i \in 1..MaxCalls :
            TimesOut(i) \/ \E result \in {"buttons", "empty", "message"} : Answer(i, result)

Next == Amo \/ User \/ Timers \/ Calls
Spec == Init /\ [][Next]_vars

-----------------------------------------------------------------------------
TypeOK ==
  /\ page \in Pages \cup {None} /\ drawn \in Nat /\ destroyed \in BOOLEAN /\ bound \in BOOLEAN
  /\ block \in {None} \cup Blocks /\ modal \in {None} \cup Windows /\ box \in {None} \cup Boxes
  /\ due \in Nat /\ retries \in Nat /\ listLoading \in BOOLEAN /\ runPending \in BOOLEAN
  /\ field \in Choices \cup {None} /\ dpRetries \in Nat /\ dpDue \in Nat
  /\ calls \in [1..MaxCalls -> {None} \cup Call] /\ sent \in 0..MaxCalls

Unsettled(kind) == {i \in 1..MaxCalls : calls[i] # None /\ calls[i].kind = kind /\ calls[i].state = "out"}
AtMostOne(S) == \A i, j \in S : i = j

\* The flags tell the truth: a list is loading, a run is pending, the window's
\* run is going on exactly while one request for it is unsettled. So nothing
\* stays blocked behind a request that has ended, and nobody starts a second
\* load or run beside the first (script.js: listLoading, runPending, running).
FlagsAreHeld ==
  /\ AtMostOne(Unsettled("list")) /\ (listLoading <=> Unsettled("list") # {})
  /\ AtMostOne(Unsettled("run")) /\ (runPending <=> Unsettled("run") # {})
  /\ modal # None =>
       LET mine == {i \in Unsettled("bulk") : calls[i].of = modal.id}
       IN AtMostOne(mine) /\ (modal.running <=> mine # {})

\* A run is what the user saw: a card's run goes to the lead whose list the drawn
\* block shows, while no other is out; a window's run carries its own selection, some
\* elements and not too many, and a window that has had success runs no more
\* (runWorkflow, runBulkWorkflow).
RunsAreMeant ==
  [][\A i \in 1..MaxCalls :
       calls[i] = None /\ calls'[i] # None =>
         LET c == calls'[i]
         IN /\ c.kind = "run" =>
                 /\ Unsettled("run") = {} /\ c.lead # None
                 /\ block # None /\ block.lead = c.lead /\ block.id = c.of
            /\ c.kind = "bulk" =>
                 /\ modal # None /\ c.of = modal.id /\ c.entities = modal.entities
                 /\ Allowed(c.entities)
                 /\ \A k \in 1..MaxCalls :
                      calls[k] # None /\ calls[k].kind = "bulk" /\ calls[k].of = c.of =>
                        calls[k].state \in {"failed", "late"}]_vars
=============================================================================
