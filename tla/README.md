# Verification of clever-web

TLA+ models of clever-web (`src/application`, Laravel): the exports and monitors
of its back end, the editor of workflows that runs in the browser, and the
widget that runs workflows from amoCRM. TLC configurations check them on small
instances, TLAPS proofs for all. Paths below are relative to
`src/application/app/` unless they start with `src/`; `js/` stands for
`src/application/resources/js/`.

## The system

clever-web connects amoCRM accounts with other services ("widgets"). Work
arrives as webhooks and HTTP calls, is saved in SQL tables, and is carried out
by queue workers (Horizon) and scheduled console commands that call amoCRM's
HTTP API. Nothing spans the database and amoCRM atomically, so every export has
to live with lost responses, retries, killed workers and webhooks in any order.

The workflows themselves are drawn in the browser. Two editors share one graph
model: the browser editor keeps the whole document on the client and saves it
against a version; the workbench of the panel keeps a draft in the page's
deferred state. Here it is events, not processes, that interleave: answers,
timers and animation frames come between the user's gestures, and copies of the
document are held by undo stacks, forms, gestures and requests.

| part | state it keeps | operations | what is hard |
|---|---|---|---|
| YClients export (`Jobs/YClients`, `Services/YClients`, `Console/Commands/YClients`) | rows of `yclients_records` (attributes, status, lead id), a lease lock per row, create receipts, a transport counter per job | webhook, job delivery, `failed()`, send-record, update-entities, re-exports queued or inline | lost POST responses, duplicate rows, killed workers, expiring leases, `pending` overwritten by `success` |
| Finder, control of replies (`Services/Finder`) | conversations (waiting since, next check, cycle, attempts), stored messages, recorded actions | ingest, check, deliver, enable/disable, clean-up of interrupted actions | reordered webhooks, reply against executor, killed executors, outages of the scheduler |
| amoCRM request throttle (`Services/amoCRM`) | Redis keys: when a slot is free, until when the account pauses | acquire, cooldown, attempts of transport and SDK | many processes, one budget; sleepers; expiring keys; lost answers |
| Browser editor (`js/workflow-browser-editor.mjs`, `workflow-browser-document.mjs`, `Services/Workflows/WorkflowBrowserDocument.php`) | the document, its baseline and version, undo and redo, pending and chained renames; the stored rows | typing, import, save, rename of a node in the background, duplicate, delete | answers that find another document than they were asked for; other windows; lost answers |
| Graph and canvas (`js/app.js`, `workflow-browser-document.mjs`) | connections, places of cards, selection, clipboard, gestures of each pointer | connect, insert, remove, copy, paste, drag, align, undo | cycles, removal that bridges, several pointers, placements a frame later |
| Workbench (`js/workflow-editor-draft.mjs`, `workflow-local-inspector.mjs`, `app.js`) | draft, starts, the dock, the form with copies of settings and names | edit, rename, insert, copy, remove, promote a start, apply, cancel | the draft changes under the form; nodes clicked while the dock is loading |
| Manual buttons (`src/application/public/amocrm/workflows/manual-buttons/script.js`) | the card's block, the list's window, the pipeline's settings, flags and requests | list, run, run for a selection, choose | answers after the timer or for another card; elements that are gone |
| amoCRM client (`Services/amoCRM/Client.php`) | OAuth tokens of an account | request, refresh | single-use refresh tokens, several workers |
| Distribution (`Services/Distribution`) | transactions (events), a cursor per queue | webhook, job, strategies | duplicate events, crash between save and dispatch, cursor advanced by failed attempts |
| SQNS, Vetmanager (`Services/Sqns`, `Services/Vetmanager`) | visits, locks per client or visit | webhook job, sync job | export without receipts |
| Subscriptions (`Services/Billing`) | subscriptions and the mirrored legacy row | trial, expiry, manual change | two records of one fact |
| Workflow engine (`Workflows`, `Services/Workflows`) | runs and their steps | start, resume, loop, fail stuck runs | a live run taken for a dead one |
| Excel import, Tilda, installation, panel, monitoring | own rows | one job or form each | little: no protocol between processes |

The parts meet at the queue (a webhook dispatches a job), at the database rows,
at the subscription check (`WidgetSubscriptionAccessService::canUse`, asked by
Finder, Distribution and others) and at amoCRM, where all of them write.

## Plan

The order in which the models were written, the most consequential first; all
but the last line is done.

1. `CreateOnce`, `YcRecordSync` and its proofs: the export with the most
   elaborate protocol.
2. `FinderMonitor` and its proofs: waits, overdue actions and replies.
3. `AmoThrottle` and its proofs: the two Redis scripts, bounded waits, the pause.
4. `BrowserEditor` and its proofs: the document against its server.
5. `WorkflowGraph`, which `NodeCanvas` and `Workbench` extend: the graph's
   operations once, under gestures and under the draft with its form; proofs for
   the graph, the canvas and the workbench.
6. `ManualButtons` and its proofs.
7. What would come next: `WorkingTime` against a definition that counts working
   seconds, the distribution's cursor, the life of a workflow run.

## Modules

| module | models | checked by |
|---|---|---|
| `CreateOnce` | abstract: under a key one remote entity is created, and the receipt learns only that one | `YcQueue` through `Receipt`, `LeadsCreatedOnce` |
| `YcRecordSync` | `RecordSend`, `SendRecord`, `UpdateEntities`, `EntityCreateGuard`, `RecordSyncLock`, `Leads`, webhook and re-exports | `YcQueue`, `YcRows`, `YcShared` |
| `MCYcRecordSync` | instances for TLC | |
| `YcRecordSync_proofs` | theorems about `YcRecordSync` | tlapm |
| `FinderMonitor` | `Monitor`, `ActionExecutor`, `MonitoringState`, `finder:check` | `FinderDeliver`, `FinderOrder`, `FinderLapse` |
| `MCFinderMonitor` | instances for TLC, a working-time calendar | |
| `FinderMonitor_proofs` | theorems about `FinderMonitor` | tlapm |
| `AmoThrottle` | `AmoCrmRequestThrottle`, `AmoCrmHttpTransport`, `ThrottledQueryCollection` | `AmoLimits` |
| `MCAmoThrottle` | two senders and a token exchange | |
| `AmoThrottle_proofs` | theorems about `AmoThrottle` | tlapm |
| `BrowserEditor` | the browser editor's document, its undo, saves and renames, and the versioned store | `BrowserSaves` |
| `WorkflowGraph` | operations on a workflow's graph and the check of its loops | through the two below |
| `NodeCanvas` | the canvas: gestures, clipboard, library, undo, frames | `CanvasGestures` |
| `Workbench` | the draft, the dock and the form | `WorkbenchDraft`, `WorkbenchRemoval` |
| `ManualButtons` | the widget's card, window and settings, its requests and timers | `ManualButtons` |
| `MCBrowserEditor`, `MCNodeCanvas`, `MCWorkbench`, `MCManualButtons` | instances for TLC | |
| `WorkflowGraph_proofs` | lemmas about the operations on graphs, reachability, finite sequences | tlapm |
| `NodeCanvas_proofs` | theorems about `NodeCanvas` | tlapm |
| `Workbench_proofs` | theorems about `Workbench` | tlapm |
| `ManualButtons_proofs` | theorems about `ManualButtons` | tlapm |
| `BrowserEditor_proofs` | theorems about `BrowserEditor` | tlapm |

Definitions whose comment begins with "Fault:" are plausible bugs of the
operation that follows them; no specification uses them. `PROJECT.json` pairs
each with the property that catches it.

### YcRecordSync

State: the rows (`ver`, `gone`, `status`, `leadId`), the leases (`lock`), the
receipts (`rstate`, `rlead`, `noteClaims`), amoCRM (`lstate`, `lappt`,
`lstatus`, `lfields`, `notes`), and for each delivery its place in the code
(`pc`) and its memory (`seen`, `work`). One action is one database statement or
one remote call with what the code does before the next; between two actions
anything else may happen, so a record read by `Load` may be stale when
`Adopt`, `Link` or `Fields` use it. A remote write and its response are apart:
`PostAccepted` creates the lead and then nondeterministically goes on to `ack`
(answered), `transport` (lost) or `error`.

The stages follow the code: `send` (lock check, read) -> `resolve` (own lead,
receipt, double, exact match, free lead, or create) -> `adopt` | `create`,
`post`, `ack` | `reject` -> `link` -> `note`, `notepost` -> `entities` ->
`fields` -> `finish`; failures pass through `transport` or `error`.

Abstractions:
- an appointment's attributes are a version number that every webhook
  increases; rows of one appointment with the same number carry the same
  attributes;
- the contact is resolved; its failures are failures of `Load` (`Fails`);
- the repeats inside `AmoTransportRetry` and the conflict retries are one step
  whose outcome is the last attempt's;
- whether an open lead matches the pipeline, and which unlinked lead comes
  first, is amoCRM's choice, hence nondeterministic;
- `record_id`s of different companies differ (the free-lead search does not
  compare the company);
- a webhook's fill and save is one step;
- `RecordSend::$maxExceptions` (4) is left out: a delivery ends by its tries only
  (`MaxTries`), where the fourth exception ends the code's earlier. The end itself,
  `failed()`, is the same.

### FinderMonitor

Every transaction in the code locks the setting's row, so each is one action.
The loop of `ingest` is unrolled: one event is one step, in any order, which
includes the order the code sorts a batch into. Messages with the same chat,
direction and second are identified (the code treats the second one as having
no effect). Time is counted in ticks; `Deadline` is a constant with the
assumption that working time passes no faster than the clock, and
`MCFinderMonitor` gives it a calendar with closed ticks. The limit of attempts
does not change during a run, so the branch of `check` for a lowered limit is
not reached. `GiveUp` (one hour) fires only for an action whose executor is
dead: a live one is bounded by HTTP timeouts of seconds.

### AmoThrottle

State: the three Redis keys of one account, each a value and the time it
expires (`integrationKey`, `accountKey`, `cooldownKey`), and for every process
its stage in a call (`pc`), the number of the request, the deadline of its wait
and its timer. A Redis script is atomic, hence one action; between two steps of
a caller any time may pass. `Admit` is the script that answers 0, `Refuse` the
one that answers a wait; `AdmitFails` and `CooldownFails` are the exceptions of
`evaluate`, with and without the script having run. `Answer` is every response
but a 429, and none at all: whether amoCRM carried the request out is open.
`Reject` is a 429; the transport knows its `Retry-After`, the SDK does not, and
a token exchange records no pause. `lastAdmitted`, `lastAny`, `pausedUntil` and
`executed` are history: they do not expire and no action reads them.

Redis' clock and the processes' monotonic clocks are taken for one. A restart of
Redis that loses the keys is not modelled.

### BrowserEditor

State: `value` (the document), `saved` (the baseline), the stacks of undo with
the open group of typing, `version`, the request that is out (`put`, `patch`),
the rename that waits for its timer (`renamePending`), the chain of renames
(`renames`, `renameTask`) and the saves that wait for it (`waits`), and the
server's rows (`srv`). A document's fields other than node names are one value,
`body`, which tells who wrote it last: this editor (a number per edit) or
another window. The code between two awaits is one action: `StartSave` is
`saveDocument` up to its first wait, `SaveGoesOn` what follows it. Promises that
are settled go on before the next event (`Idle`). A request is carried out or
refused by the server, and its answer is given or lost; a lost one is
`CallFailed`, after which the server may have written. Undo by time (600 ms) is
the user's choice of continuing a group or not. Of more than `UndoLimit` (50)
documents the oldest leaves the stack (`Pushed`); undo and redo move documents
between the two stacks, so together they keep the limit.

### WorkflowGraph, NodeCanvas

A graph is a set of nodes and of triples source, port, target. An identifier
keeps its kind; the code gives random ones, so one that was used is not given
again. `Insert`, `Without`, `Paste` are `add`, `remove`, `paste` of
`BrowserWorkflowDocument`; `Feedback` and `Controlled` are the check of loops in
`workflow-editor-draft.mjs` by which the canvas tells returns from cycles.

`NodeCanvas` keeps for each gesture the pointer that holds it, as the code does,
and one connection being drawn, which no pointer holds. A place is 0 or 1: two
are enough to tell a card that was moved from one that was not, and addition is
modulo 2. `SaveNodeLayout` writes the places shown into the document through the
editor's adapter, one step of undo for each part that differs (`Through`). An
operation of several stages, such as a Delete of several nodes, pushes a document
for each; `Capped` keeps the latest `UndoLimit` (50). The code cuts the stack with
every push, the model once after the last, which leaves the same documents.
`InsertNode` is `add` together with its `$nextTick` callback
(`js/workflow-browser-editor.mjs:363`), which runs before the next event.
`frames` are the callbacks left for the next animation frame. Panning and edge
routes are gestures without an effect on the document.

### Workbench

`Change` is `WorkflowEditorDraft.mutate` with the render it ends in, where the
form synchronizes with its node. A node's settings are a text, a reference by
name and a field that only the form adds (`own`; the defaults of `open`, which
`cleanConfig` takes away again). The dock has its `current`, `target` and
`desired` nodes, its title, and whether the code of its widgets has been loaded.
`Resume` is what follows the wait in `flushInspector`.

### ManualButtons

Elements of the page are numbered as they are drawn; a handler that has captured
one names it by number, and finds nothing if it is gone. `Request` notes what a
request was made for; it ends once, by an answer or by its timer, and an answer
behind the timer does nothing (`Waiting`). When the last load was is left open,
so a focus may always load. The visibility of the card's block and the theme are
left out, and what amoCRM's list gives is a set of elements. amoCRM is taken to
offer `render_template` and to draw the block anew with each card: `mount`'s way
without it (`script.js:323-324`), where a block that is there stays, is not
modelled. That a card's run goes to the lead its block shows rests on this.

## Runs

| run | instance | shows |
|---|---|---|
| `YcQueue` | 1 row, 2 jobs, 2 leads, fairness | exclusion of workers, no lost update, outcomes only by the worker or after it, notes once; refinement of `CreateOnce`; a pending row gets an outcome |
| `YcRows` | 2 rows of 1 appointment and a row of another of the same client, record id mapped, a job and an inline run | types; one lead at most for an appointment; receipts stay truthful |
| `YcShared` | 2 appointments of 1 client | **violated**: two appointments share a lead |
| `FinderDeliver` | 1 chat, 2 messages, 2 executors, lapses, closed tick | due, spaced, cancelled by replies, carried out once |
| `FinderOrder` | 1 chat, 3 messages, 1 executor, closed tick, fairness | wait from the first unanswered message; noticed; actions end; reply reported |
| `AmoLimits` | 2 senders of 1 integration (HTTP, SDK), 1 token exchange of another | types; requests spaced per integration and account; recorded pauses hold; nothing carried out twice; nobody gets stuck |
| `BrowserSaves` | 2 rows (a workflow or a new one, and its copy), 2 nodes, a stack of 2 documents, 2 edits, 1 save, copy or deletion, 1 write of another window, fairness | "saved" is stored; answers leave what was typed; nothing unseen is overwritten; renames settle |
| `CanvasGestures` | a start, a loop with a body, 2 more identifiers (a loop, a node), 2 pointers, a stack of 2 documents, 3 inputs | connections join nodes; shown is stored; gestures are held; insertions keep cycles under their loops' control; a change is undone by as many steps as nodes it added or removed, or by two, as long as these nodes are within the limit of the stack |
| `WorkbenchDraft` | a start, a loop, a condition, an action that refers to it, 2 more identifiers, 2 changes | types; every cycle passes a loop; the form is the title's and is stored; references follow names |
| `WorkbenchRemoval` | two loops that share a node of their bodies, 1 change | **violated**: a removal makes a cycle that no loop controls |
| `ManualButtons` | 2 leads, 2 elements of which 1 may be run at once, 4 requests, 4 elements drawn, 1 repeated look | flags stand for requests; runs are meant |
| `FinderLapse` | 1 chat, lapses | **violated**: a reply during a lapse does not stop the repetitions |

Why the bounds are enough: the hazards of the export need two deliveries of one
row, or two rows of one appointment, or two appointments of one client, and at
most one loss plus one retry each (`MaxTries`, `MaxTransport` 1 or 2 instead of
50 and 4: the code compares them with `>=` only). Finder's need a question, a
reply and a second question, two attempts (the second is the first that
`AttemptsSpaced` speaks of), two executors. The exact values are in the `.cfg`
files. `AmoLimits` needs two callers that contend for one integration's slot and
a third that contends for the account's only, a `Retry-After` longer than the
first fallback (so that a shorter pause comes second), keys that expire while
calls go on, and all three attempts; calls start in the first three ticks, and
from there the clock runs until the last sleeper is awake.

`BrowserSaves`: a rename, a save behind it and a copy of the document are the
longest chains of promises; each needs one edit to tell contents apart, and a
second one that comes between request and answer. `CanvasGestures`: an input is
a press, a change, a copy or an opening of the library; moves, releases, frames
and undos are free. Three inputs are two gestures at once and a change between
them, or a copy and two pastes. The graph holds a loop with its body because
bridging, returns and cycles need one, and a second loop to nest. A stack of two
documents is soon full; changes of two nodes just fit into it, and a removal of
three does not. For any other limit the theorem speaks.
`WorkbenchDraft`: two changes by the user are, for instance, a rename and a
removal, with any clicks, loading, apply and cancel between. `ManualButtons`:
every flag needs two requests of a kind, of which the first is given up; a run
needs the list before it, hence four.

`CHECK_DEADLOCK FALSE` in the export's and Finder's runs because all deliveries
may be over and the clock is bounded, and in the front end's because the user's
changes are bounded; `AmoLimits` checks deadlock.

### Fairness

`YcRecordSync!Fairness`: dispatch, queue, the workers' steps and the end of
leases are weakly fair: Horizon keeps its processes running, Laravel hands a
reserved job out again after `retry_after` (960 s), the lease ends after 900 s.
Webhooks, crashes, re-exports, managers and the migration owe nothing; before
the migration deliveries are only deferred, until their tries end.
`PendingSettles` excepts a row whose web worker died before the dispatch: it
stays pending, and the code promises nothing else.

`FinderMonitor!Fairness`: the clock, `check` for every conversation (the
scheduler starts `finder:check` each minute), the delivery of pending actions,
live executors and the clean-up. Chats, webhooks, crashes and switches owe
nothing.

`BrowserEditor!Fairness`: timers fire, settled promises go on, and every request
ends, as `fetch` ends with an answer or an error. The user owes nothing.
`NodeCanvas`, `Workbench` and `ManualButtons` have no liveness property: nothing
in them must happen but what the user asks for.

### Findings

- `YcShared`: the search for a free lead (`SendRecord.php:171`) looks at saved
  links only. While the lead of one appointment has been posted and its id not
  yet saved, the export of another appointment of the same client links it too.
- `FinderLapse`: `Monitor.php:36` drops webhooks while the access has lapsed
  and leaves the wait as it is; when the access returns in time, the next
  overdue action begins although the reply came. `src/docs/finder.md:18` says
  that a reply stops the repetitions.
- `WorkbenchRemoval`: `removeCanvasAction` (`js/app.js:843`) joins what led to a
  node to what stood behind it and validates nothing. If the node lies in the
  bodies of two loops, of which the outer one leads to the inner one, its removal
  makes the inner loop lead back to the outer one by "each", which is no return:
  `js/workflow-editor-draft.mjs:3-4` permits "a loop's own return and explicit done
  continuation" only, and the server, which the comment at 843 means to match,
  refuses the removal (`HasWorkflowConnections.php:147-152`). Every later change of
  the draft is then refused. That each cycle still passes a loop is proved
  (`CyclesPassLoops`).

### Observations

Met while modelling the front end. They are disagreements of the code with what
a user may expect, not with a written promise, unless one is named; the models
do what the code does.

Browser editor: a session of the debugger is kept after a real run of a single
node, so that the next start of the flow with real calls asks no confirmation
(`js/workflow-browser-editor.mjs:583`). What is typed while the document is being
duplicated is lost (526). Undo behind the first save of a new document restores
an empty id, so the next save makes a second workflow. Two renames of nodes
behind one save carry the same version, and the second is refused as a conflict.
A rename answered after a duplication moves the copy's version. Renaming another
node while a save is out drops the request for the first one; its name goes with
the next whole save (`js/workflow-browser-editor.mjs:235-238`).

Graph: a removal may bridge both branches of a condition to one node, after which
`validateDraftGraph` refuses every later change of the draft
(`js/workflow-editor-draft.mjs:18`); a loop inserted between two connected nodes
of another loop's body closes an uncontrolled cycle
(`js/workflow-browser-document.mjs:290`), which is why `InsertionsKeepControl`
excepts a loop that is put between two nodes.

Canvas: undo restores places but not edge routes; the placement of an inserted
node puts all cards back where they were when the palette was opened; a
connection chosen for insertion outlives the Escape that closes the library;
a pointer released on an input without having moved leaves its drag of cards
active; each step of an area's drag, and each pasted node, is an undo step of
its own. So one Delete, or one paste, of more than 50 nodes pushes the document
before it off the stack (`js/workflow-browser-document.mjs:182`), and undo does not
come back to it: `ChangesCanBeUndone` excepts exactly this.

Workbench: `flush` writes nothing when the form is again as it was opened
(`js/workflow-local-inspector.mjs:192`), so a text typed and then typed back,
or a Cancel, leaves the intermediate text in the draft; `FormIsStored` excepts
exactly this. `src/application/tests/JavaScript/workflow-local-inspector.test.mjs:57`
covers Cancel with a type whose form adds a field, where the two differ. Removing the main start when the next one has its
type keeps the removed start's settings in the open form, and the next keystroke
writes them over the new main start (305-309); `FormIsStored` speaks of actions.

Manual buttons: a load asked for while a request of another card is out is not
made up for (`script.js:411`), and the new card stays empty until it is focused. The
success of a run closes whichever window is open (762), and its failure is told
in it. After the timer of ten seconds a second click runs the workflow again
although the first request may still be carried out (339).

## Proofs

`YcRecordSync_proofs` proves, for any rows, appointments, deliveries, leads and
bounds that satisfy `ConstantsAssumption`:

- `TypeCorrect`: `[]TypeOK`. `TypeOK` is not inductive: `Acknowledge` stores
  `work[p]` as a lead. `TypeInv` adds that a delivery in a stage that uses its
  lead has one.
- `OneWorkerPerRow`: `[]WorkersExclusive`, from `LockHeld`: a queued delivery in
  its section owns the lease. The lease leaves an owner only when it is dead
  (`LockExpires`) or ends its section.
- `LeadCreatedOnce`, `ReceiptIsTruthful`: from `LeadInv`. Only one delivery at a
  time stands between the claim of a receipt and its outcome
  (`ClaimExclusive`), the receipt is open and no lead exists then
  (`ClaimedFresh`), a receipt that may be claimed stands for no lead, present
  or being acknowledged (`ClosedIsFree`), and what is acknowledged is the
  appointment's own (`AckNamesItsLead`). The locks are not needed: the receipts
  protect also duplicate rows and inline runs that outlive their lease.
- `ReceiptsImplementCreateOnce`: `Spec => LeadsCreatedOnce`, the refinement
  mapping `made` (leads by the appointment they are named after) and `known`
  (the receipts' remote ids). The steps that are neither a creation nor an
  acknowledgement leave both alone.
- `NoteSentOnce`: from `NoteInv`, the same argument for note receipts.
- `OutcomeIsItsWorkers`: the action property `OutcomeFromItsWorker`, where no
  re-export runs inline (`Clis = {}`): such a run outlives its lease and then
  writes its outcome under whoever has the row. Who writes has the row's lock or
  finds it free (`OutcomeOwner`), so nobody else works (`LockHeld`).
- `SuccessMeansCurrent`: `[]SuccessIsCurrent` for one row and any number of queued
  deliveries (`Alone`); with several appointments `YcShared` shows that a lead may
  be shared, and then shows one of them only. `CurrentInv`: unless a delivery is
  still owed, the one that works has missed no webhook, and has brought the lead
  as far as its stage says (`Advanced`); it may finish with what is outdated
  because each webhook leaves a delivery behind that is owed until it has worked
  itself. `WorkerKeeps` reduces a worker's step to what its stage says.

Most actions change nothing an invariant reads; the lemmas `OtherActionsQuiet`
and `OtherActionsNoteQuiet` say so once, action by action.

`FinderMonitor_proofs` proves, for any chats, messages, executors and bounds that
satisfy `ConstantsAssumption`, and any calendar that satisfies
`DeadlineAssumption` (working time passes no faster than the clock). `IInv` has
four parts, each of which uses the ones before it:

- `TypeCorrect`: `[]TypeOK`. `TypeOK` is not inductive: `Perform` posts the task
  an executor remembers, so the executor must be known to have one.
- `PostedOnce`: `[]AtMostOnePost`, from `ExecInv`: no two executors hold one
  action, what is posted had begun, and what is about to be posted had not been.
- `ActionsAreDue`, `ActionsAreSpaced`: `[]OverdueIsDue`, `[]AttemptsSpaced`, from
  `WaitInv`. The recorded actions do not tell when the next one comes, the
  conversation's next check does: it lies an interval behind each attempt of the
  wait (`NextIsSpaced`), and is not earlier than the attempt it leads to is due
  (`NextIsDue`). `WaitKept` shows once that a step which satisfies `WaitKeeps`
  keeps both; each operation is then shown to satisfy it, among them the one
  that is hard, a question that arrives behind a later one and moves the
  beginning of the wait back.
- `RepliesFollow`: `[]ReplyFollowsOverdue`, with `RepliedActions`.
- `NothingAfterReply`: the action property `NoOverdueOnceAnswered`. It rests on
  `MsgInv`: `lastOutgoing` is no earlier than any stored reply (`LastKnown`), and a wait is
  for a stored message that comes after it (`WaitFollows`).
- `WaitBeginsFirst`: `[]PendingIsFirstUnanswered`, with the assumption that the
  setting and the access do not lapse (`~MayLapse`); `FinderLapse` shows what
  happens otherwise. `FirstInv` says that `lastOutgoing` is a stored reply and
  that no stored message behind it is earlier than the wait.
- `RepliesAreReported`: `[]ReplyIsReported`, with `~MayLapse` and the option of
  reporting replies. `Reported` counts actions that are being carried out as well:
  the reply may come before or after their end.

`AmoThrottle_proofs` proves, for any callers, integrations, intervals and pauses:

- `TypeCorrect` and `NeverReplayed` (`[]NoReplay`), from the invariant below.
- `RequestsAreSpaced` and `PausesAreKept`: the action properties
  `AdmissionsSpaced` and `PausesHold`. They rest on `KeysRemember`: each key's
  value is at least the time the history gives it to guard, and the key does not
  expire before that value. So a key that the script reads as free, because its
  time has come or because it is gone, guards nothing any more (`FreeIsOver`),
  and a recorded pause is never shortened (`RecordKeeps`). `OnlyAdmitAdmits`
  says that a request begins in no other step than the script's.

`ManualButtons_proofs` proves, for any leads, elements, requests, pages and
windows that satisfy `ButtonsAssumption`:

- `TypeCorrect` and `FlagsHeld` (`[]FlagsAreHeld`), from the inductive `IInv`.
  `FlagsAreHeld` is not inductive: a window drawn later must not find a request
  of its own among those sent before. `Numbered` says so: no request names an
  element that is not drawn yet. `RequestUnsettled` and `SettleChanges` say once
  what sending and ending a request do to the sets of unsettled ones, and
  `QuietKeeps`, `SendKeeps` and `SettleSteps` that the flags follow.
- `RunsMeant`: the action property `RunsAreMeant`. It rests on `ButtonsFit`
  (buttons are shown for the lead whose card is open, as its block is drawn with it) and `NoSuccess` (a window
  whose run had success is gone).

`WorkflowGraph_proofs` holds what the other two rest on, for any finite set of
nodes:

- Each operation gives a graph, and keeps `Joined` (`InsertJoins`, `WithoutJoins`,
  `PasteJoins`, ...): connections join nodes of the graph and leave from ports that
  exist. Two new nodes of a paste may not coincide, which `Renamings` provides.
- `WithoutLoopFree`: a removal makes no cycle around all loops (`LoopFree`), as a
  bridge stands for a way over a node that is no loop. `ControlledLoopFree` ties
  this to `Controlled`.
- `ReachLeast`: `Reach` gives the least set around its argument that connections do
  not leave. Its recursion is well defined because a function that gives that set
  satisfies it; that every such function does is seen at a largest set where it
  would not (`LargestSet`). Induction as a rule takes an operator as a parameter,
  which the provers cannot instantiate; a least counterexample (`LeastNumber`,
  `SmallestSet`) does the same work.
- `ControlledOnward`: `Controlled`, which asks `Feedback` which "done" lead back, says
  the same as that the connections other than returns and "done" have no cycle: in
  a smallest set with a cycle, a "done" either lies on it, and then reaches its own
  loop, or can be left out with all it reaches.
- `InsertControlled`: putting a node in keeps `Controlled`, unless it is a loop
  between two nodes. The bodies of loops only grow (`PlacedReturns`), so what was a
  return is one; a connection that is divided passes its place in a cycle, or its
  being a return, on to its second half.

`NodeCanvas_proofs` proves, for any first graph of any nodes whose connections join
nodes, and any pointers, the following from one inductive invariant, `IInv`:
documents on the stack and on the screen are well formed and own no fresh
identifier (`DocInv`), cards are at places (`PlaceInv`), the clipboard is a graph of
its own (`ClipInv`), frames, pulled connections and offers hold what they may later
apply (`FrameInv`, `OfferInv`), and gestures hold distinct pointers that are down
(`HoldInv`, `AloneInv`). None of the properties is inductive without the rest: an
undo, a frame or a release applies what an earlier step has stored.

- `EdgesJoin`: `[]EdgesJoinNodes`; `ShownStored`: `[]ShownIsStored`; `GesturesHeld`:
  `[]GesturesAreHeld`; `TypeCorrect`: `[]TypeOK` (no run checks it, for the proof
  does).
- `ChangesUndoable`: the action property `ChangesCanBeUndone`, from what `Through`
  does with each list of stages (`ThroughKeeps`), for every limit of the stack: what
  is pushed first stays within it as long as the stages are no more (`CappedParts`).
  A deletion's list is a recursive function over the selected nodes; `DeletionsSteps`
  and `DeletionsGood` say of it what the proof needs. Deletions, pastes and the layout
  have no more stages than they change nodes, or two (`Few`).
- `InsertionsControlled`: the action property `InsertionsKeepControl`, by
  `InsertControlled`; `FlagsStep` says that the library closes in no other steps
  than `Closes`.

`Workbench_proofs` proves, for any graph of any nodes:

- `TitleHolds`: `[]TitleIsForms`. The title changes when a node is asked for, the
  form when the dock is ready, and the draft may lose the node in between.
  `Waits` closes the gap: while the dock waits its title is that of the node
  asked for last, and no second node is asked for without a first. `Alive` says
  that the form's node exists, so that looking at it again keeps it.
- `JoinsHold`: connections join nodes of the draft, if those of the first one do.
  Every change but a removal is refused by `Valid` if it breaks that; a removal,
  which nothing checks, keeps it by what it does (`WithoutJoins`).
- `CyclesPassLoops`: `[]CyclesHaveLoops`, the part of the check of loops that
  removals keep (`WithoutLoopFree`).
- `TypeCorrect`, `FormStored`, `RefsFollowNames`: `[]TypeOK`, `[]FormIsStored` and the
  action property `RefsFollow`, from `DInv`: the list of further starts names the
  graph's, the form's node exists and has the type the form was opened for, and the
  names the form knows are those of the draft, so that a rename reaches the draft,
  the form and the copy behind Cancel alike.

`BrowserEditor_proofs` proves, for any rows, nodes, imports and bounds that satisfy
`EditorAssumption` and `NoneAssumption` (`None` is no record), the following from
one inductive invariant, `IInv`. Its idea: a version that the editor knows, or that
is on its way to it, stands for one content of one row, as long as a row has it
(`Stands`). The server gives out each version once, so a later write, whoever
makes it, can take the row away from the version but not give it another content
(`OnwardKeeps`).

- `TypeCorrect`: `[]TypeOK`, the limit of the stacks included. `Types` is stronger: nothing of another window is in
  the editor (`Mine`), for it takes content only from answers to its own writes.
- `SavedIsStored`: `[]CleanMeansStored`. `Baseline` says that the known version
  stands for `saved`, and a document that is shown as saved equals it. `PutKnown`
  and `PatchKnown` say the same of answers that have not arrived.
- `RivalsKept`: `RivalsSurvive`. The version a request carries was that of a row
  which another window had not written last (`Seen`), so a request that finds its
  version current overwrites nothing foreign (`CurrentIsMine`).
- `TypingKept`: `TypingSurvives`. `PutFits`: as long as the revision is that of the
  request, what was sent is what the document has, and the answer brings it back.

`WriteGives` says once what a write does to the rows, and `EditedKeeps`,
`MaySaveKeeps` and `ServerKeeps` that an edit, a beginning request and a step of
the server keep the invariant; each operation is then shown to be one of these.

Only model-checked: liveness (`PendingSettles`, `WaitIsNoticed`, `ActionsEnd`,
`RenamesSettle`), which is out of the prover's reach; Finder's order of waits and its
reports while the access lapses, which `FinderLapse` shows to fail; and that of
several rows each shows its last webhook, as `YcShared` shows that two appointments
may come to share a lead.

## Not modelled

`PROJECT.json` lists every part with its status. Left out: forms and pages that
Livewire renders on the server, API authentication, monitoring and backups,
deployment, maintenance commands that read and report, and of the back end
distribution, SQNS and Vetmanager, subscriptions and the workflow engine, whose
executor's base class `src/` does not contain. Of the front end: the debugger
and the view of an execution (they show what the server returns), the fields'
suggestions and expressions, geometry and zoom, the settings forms of the other
widgets. Within the modelled parts: the conversion of mapped fields, texts,
contact search, validation of payloads, and the scheduler's own mutex.
