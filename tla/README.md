# mimux in TLA+

mimux is a self-hosted web mail client: a Go process that keeps its state in one
SQLite file, talks to IMAP and SMTP servers on behalf of its user's accounts,
and serves a web interface, a JSON API, an MCP server and webhooks. This
directory models the parts of it whose correctness depends on the order in which
things happen, checks them on small instances with TLC and proves the most
important results for instances of any size with TLAPS.

## Inventory

| Component | State it keeps | Operations | Talks to | What is hard |
|---|---|---|---|---|
| Outbox and sending (`store/outbox.go`, `mail/scheduler.go`, `mail/smtp.go`, `server/compose.go`, `server/outgoing.go`) | `outbox` rows with a status; the scheduler's copy of the due rows; requests in progress | send now / later / scheduled, undo, cancel, retry, delete, claim, settle, recovery at start | drafts, SMTP, toasts | a message sent twice or never; a crash between the acceptance and the UPDATE; stale pages |
| Webhook engine (`pro/webhooks.go`, `pro/api_webhooks.go`, `store/webhooks.go`) | endpoints, delivery rows, running drains | fire, queue, drain, attempt, replay, test, pause, resume, PATCH, delete | event hub, licence gate, receivers, SMTP | overlapping drains, whole-row writes from stale copies, starvation |
| Drafts (`mail/drafts.go`, `store/drafts.go`, `server/compose.go`) | `drafts` rows, their mailbox copies, the `messages` rows of those copies | save, push, sweep, drop, adopt | account worker, folder sync, IMAP | a save racing a push, a push cut short, a push inside a push |
| Folder sync (`mail/sync.go`) | `messages`, the folder's UIDVALIDITY and MODSEQ, the expunge baseline | one pass per folder: select, fetch, yield, flags, deep pass, expunge | account worker, IMAP, rules, hub | mail and deletions arriving during a pass |
| Account worker (`mail/imap.go`) | a connection, a queue of 64 commands, wake and nudge tokens, the sweep's resume point | connect, session, drain, yield, sweep, idle | everything that uses IMAP | commands that outlive their callers, reconnects |
| Flags (`mail/actions.go`) | `is_read`, `seen_dirty`, `is_starred` | mark read, star, push what is owed | worker, sync | toggles racing a push |
| Moves with undo (`server/mail.go`) | `pending_move`, timers in memory | move, undo, fire | worker | a second move or a restart during the grace |
| Event hub, notifier (`mail/hub.go`, `mail/notifier.go`) | subscriber buffers, the current batch | broadcast, subscribe, flush | everything | slow subscribers, debouncing |
| Body cache and warmer (`mail/warm.go`, `store/bodies.go`) | `message_bodies`, an LRU | warm, prune, read | worker | the prune's window |
| Licence gate (`pro/licence.go`), API tokens and CLI login (`server/cliauth.go`, `pro/login.go`), account service (`account/`) | trial stamp, tickets, licences, claimed payment events | check, approve, exchange, issue, renew, lapse | - | events twice or out of order |
| Read state in the browser (`web/static/js/app.js`, `readChanges`) | overrides with what they replaced, POST queues, list requests in flight | mark one or a whole row, undo, roll back, reconcile | the server's flags, the event stream, the list | a choice against lists and events that are older than it |
| Message list (`app.js` over htmx; `/events` of `server/server.go`) | the list, one request and one waiting, the "Syncing..." spinner | refresh, folder click, stream events, reconnect | event hub | answers out of order, events dropped |
| Rows and pages (`app.js`; `listPage` of `store/messages.go`) | the rows, the sentinel's cursor, the selection carried over a swap | infinite scroll, select, archive, undo | list, moves | a folder that changes between its pages |
| Reading pane (`app.js` over htmx) | the pane, its requests and their timers, the history and its copies | open, close, back, forward, reload | list | late answers, copies of a page that come back |
| PDF preview (`app.js`) | placeholders, a queue, two drawings, the canvases kept | open, close, scroll | pdf.js | cancelling, evicting, reopening while it loads |
| Compose window and its text (`app.js`, `partials/compose.html`) | the form, its files, dirty state, the save under way; format, identity, signature | type, attach, save, close, send; convert, choose From, toggle the signature | drafts, outbox, `mail.ConvertBody` | answers that act on whatever window is open |
| Gestures (`app.js`) | the touch, the double-tap timer, the last click, the swipe's pane | tap, double tap, long press, swipe, drag, double click | list, pane | a press that counts twice |
| Key bindings (`app.js`; `store/keybindings.go`) | bindings, the boxes of the form, a recording, a pending prefix | record, reset, save, dispatch | everything a key does | a recorder and a dispatcher that must agree |
| Push device (`app.js`, `sw.js`, `server/push.go`, `mail/notify.go`) | the browser's subscription, its row, tabs, what is on its way | enable, disable, sign out, post, show | notifier, the push service | tabs that disagree, a sign-out of several steps |
| Search, rules, threads, portable export, AI, translation, rendering | little or none | pure functions or one statement each | - | - |

What makes the parts modelled so far correct: a send is accepted at most once for each time
it was asked for, and no text disappears without a trace; a receiver is asked as
often as the ladder says before its endpoint is switched off, and a due delivery
is attempted; a draft's mailbox copy is the text the row holds whenever the row
says so, and a push never removes anything but the draft's own old copies; a move takes the message
it was asked for, and an undone one none; what
sync has stored is what the mailbox holds, once a cycle has passed. In the browser:
what the user chose last is what is shown and what the server ends up with; no late
answer takes newer mail, another message or another window's text off the screen;
one press is one deed; a browser that signed out hears of no mail.

## Modules

Each module's header says what it abstracts. In all of them one SQL statement is
one step (the SQLite handle has one connection) and one exchange with a server is
one step, so requests, goroutines, other clients and crashes interleave between
any two of them. History variables (asked, delivered, posts, mails, marks, want,
missed, rest, tangled, left, wish, unseen, crossed, owed, excused, touched, aim and others,
each marked in its module) record what a property has to know and never guard an action.

### SendOnce, Outbox, Outbox_proofs, OutboxIds

`SendOnce` is the abstract promise: a send is tried only when asked for, every ask
buys at most one acceptance, a closed send is never tried again. `Outbox` is the
code. Its state is the `outbox` row of each press of Send (`row`, `due`), the
drafts, the browser windows, the stage of each POST (`post`, `undo`) and the
scheduler (`pc`, `cur`, `batch`).

| Actions | Code |
|---|---|
| `ComposeEnqueue`, `ComposeSendNow`, `SendNow*`, `ComposeDone`, `ComposeEnqueueFails` | `handleCompose` and its two ways out, `preserveComposeFailure`, `dropDraft` |
| `UndoRead`, `UndoCancels`, `UndoTooLate`, `UndoRestores` | `handleOutboxUndo`, statement by statement |
| `HandleCancel`, `HandleRetry`, `HandleDelete` | the Outgoing page; Delete may come from a page older than a retry |
| `Recover`, `ReadDue`, `Claim`, `ClaimLost`, `SmtpAccepts`, `Settle`, `SettleLost` | `runScheduler` (a failed `RecoverSending` is logged and the loop goes on), `dispatchDue`, `ClaimOutbox`, `MarkOutboxSent`, `MarkOutboxFailed`, `RecoverSending` |
| `BecomesDue`, `Crash`, `Boot` | `send_at` passes, the process dies and is started again |

In `Outbox` a row is named by the press that made it. `OutboxIds` extends it with
the ids SQLite hands out (no AUTOINCREMENT: the id of a deleted last row comes
back) and with the steps of those who still hold such an id. The theorems about
`Outbox` hold as long as no id is given out again under somebody who still holds
it; what goes wrong otherwise is the run `outbox_ids`.

### Webhooks

State: endpoint columns (`there`, `on`, `given`, `mailed`), delivery rows (`row`,
`of`, `last`), the event being fired (`fan`), one settings or API request between
its read and its write (`edit`), and for each drain where it stands and what it
has copied (`wpc`, `batch`, `job`).

| Actions | Code |
|---|---|
| `Fire`, `Queue`, `TestWebhook`, `Replay`, `TimerFires` | `fire`, `queue`, `EnqueueWebhookDelivery` with its prune, the test and replay handlers, `next_attempt_at` |
| `Drain`, `DrainNothing`, `Skip` (off, deleted or unreadable), `Post`, `Accepted`, `Gone`, `Refused`, `Disable`, `NotifyFailure` | `drain`, `DueWebhookDeliveries`, `attempt`, `AutoDisableWebhookEndpoint`, `notifyFailure`; the loop's drain and those of `sendSoon` run at the same time |
| `EditRead`, `EditWrite`, `CreateWebhook`, `DeleteWebhook` | the settings page and the JSON API; `UpdateWebhookEndpoint` writes back the whole row it was given |
| `LicenceTurns`, `DayPasses`, `Restart` | the licence gate's verdict, `FailureEmailDue`, a restart |

Both webhook tables use AUTOINCREMENT, so ids are never given out again here.

### DraftPush

State: the `drafts` row with its mailbox location, Message-ID and dirty flag, the
save or drop in progress, and per account the queued commands, the stack of pushes
in progress, the mailbox and the `messages` rows of it. Pushes form a stack because
the folder sync inside a push serves the queue (`yield`), so a push can run in the
middle of a push.

| Actions | Code |
|---|---|
| `UpsertDraft`, `KeepAndPublish`, `DropRead`, `DropDelete` | `handleComposeDraft`, `keepDraftAttachments`, `publishDraft`, `dropDraft` |
| `Take`, `PushDirtyDrafts` | the account worker taking a command, `pushDirtyDrafts` at the start of a cycle |
| `BuildDraft`, `AppendCopy`, `DropOld`, `Sweep`, `Clear` | `pushDraft` between its exchanges with store and server: `SetDraftMessageID`, APPEND, `dropRevision`, `sweepDraftSiblings`, `ClearDraftDirty` |
| `AppendRefused`, `DropRefused` | `pushDraft` told no by a server whose connection lives: to the APPEND it gives up, to the removal of the old copy it logs and goes on |
| `Tick`, `ConnLost`, `Restart` | the second of `updated_at`, a broken connection, a restart |

Assumed: the Drafts mailboxes of all accounts have the same name (the usual case,
and the one in which a wrong account does harm). Message-IDs are random in the code:
here one names its draft and the account and UIDNEXT it was minted at, so no two drafts share one.

### FolderSync

State: the mailbox with UIDs, `\Seen` and MODSEQs, the server's UIDVALIDITY, UIDNEXT
and HIGHESTMODSEQ, the `messages` rows with `is_read` and `seen_dirty`, the stored
UIDVALIDITY and MODSEQ, the sweep's memory (`count`, `deepOk`), the pass in progress
and the `SetRead` commands under way.

| Actions | Code |
|---|---|
| `Arrive`, `Expunge`, `FlagElsewhere` | other clients and the mail server (external) |
| `MarkRead`, `RunRead`, `SettleRead`, `GiveUp` | `Manager.SetRead`: the row, the queued STORE, `ClearSeenDirty`, and the caller that gives up while the command still runs |
| `Begin`, `PushSeen`, `PushedSeen` | the start of a cycle: the queue, then `pushSeen` of what is owed |
| `Select`, `Fetch`, `FetchFlagChanges`, `BackfillWindow`, `Reconcile`, `Finish` | `syncFolder` from SELECT to the stored MODSEQ and baseline; the queue is served at the three yields |
| `DeepPassDue`, `ConnLost`, `Restart`, `Renumber` | `folderDeepPassInterval`, a broken connection, a restart, a new UIDVALIDITY |

### PendingMove

State: the mailboxes of one account (`box`, `next`, `caps`), the `messages` rows with
their folder, UID and `pending_move`, the grace timers with their place in the map
`s.pending`, and the `moveTo` goroutines with the commands they queued. A move (`ask`)
carries the row's id, folder and UID as they were when the button was pressed.

| Actions | Code |
|---|---|
| `HandleMove`, `ApiMove` | `handleMove` and `handleMoveToFolder` with the grace, `moveFolder` and `moveSpecial` without |
| `HandleUndoMove`, `UndoTooLate` | `handleUndoMove`, `cancelPendingMove` |
| `TimerFires`, `TimerRuns` | the timer of `schedulePendingMove`; undo can come between the two |
| `RunMove`, `RunCopy`, `RunExpunge`, `SettleMove` | `moveTo`: MOVE, or COPY and EXPUNGE, then `SetMessageLocation` or `DeleteMessage` |
| `FetchNew`, `Backfill`, `ReconcileExpunged` | what the folders' passes do to rows in the middle of a move |
| `Arrive`, `GiveUp`, `ConnLost`, `Restart` | new mail, a caller whose time is up, a broken connection, a restart |

Here ids are handed out as SQLite does: `messages` has no AUTOINCREMENT, and a timer
or a command may still hold the id of a row that is gone.

### ReadState

One conversation in one tab. State: the database (`stored`, `joined`, the background
pushes whose event is still to come), the row on screen (`here`, `shown`, `row`), the
overrides with the older changes their failure brings back (`chain`), the POSTs, the
toast's undo, the list requests in flight and the events on the stream.

| Actions | Code |
|---|---|
| `PressOne`, `PressWhole`, `Undo` | `markRead` from a key, a menu, a double click; the toast's Undo |
| `PostStored`, `PostAnswered`, `PostFails` | `persistRead` and its queue by row id, `handleMarkRead`, the roll-back |
| `PushDone`, `EventArrives`, `OtherWrites` | `Manager.SetRead`'s event, the `read-state` listener, another tab |
| `Refresh`, `Navigate`, `RenderBg`, `RenderNav`, `BgArrives`, `NavArrives`, `Join` | `htmx:beforeSwap` and `afterSwap` of the list: a background list older than a choice is thrown away, any other retires the overrides settled when it left and is overlaid with the rest |

### Page and its parts

`Page` is one page of the browser. Nine modules stand for the parts of its script that
keep state across requests, timers and callbacks. They share no variable: each sees the
rest of the page under its own abstraction (to `MessageList` a list is the mail
it was rendered with, to `ListRows` its rows, to `Gestures` a generation of elements).
Their steps therefore commute, and a behaviour of `Page` moves one part (`which`), while the
others rest in one fixed initial state (`Usual` bindings, `SomeAddress`). That keeps the
suite at one run for all of them; it shows nothing about two parts at once that
the parts do not show alone. `ReadState` has a run of its own.

`Sorted` holds what the rows, the preview and the signatures need of ordered sets: the elements
in ascending or descending order (a page of a list) and the part of a sequence at some of its places
(the queue without what is drawn, a text without a signature). Each element is named by
its rank rather than by recursion, so that facts about sequences of any length can be proved.

| Part | State | Actions | Code |
|---|---|---|---|
| `MessageList` | the database's mail, the stream and its backlog, the list, its request and the one waiting, the folder click's, the spinner's two flags | `SyncStarts`, `Store`, `Announce`, `SyncEnds`, `Receive`, `KeepAlive`, `StreamBreaks`, `Reconnect`, `Shown`, `FolderClick`, `Mark`, `Render*`, `*Arrives`, `*Fails` | `lossyBuffer` of `mail/hub.go`, `handleEvents`, `setSyncing`, `smAwaitList`, the list's `htmx:` listeners |
| `ListRows` | the folder, the rows, the sentinel's cursor, highlighted rows, the stashed selection, requests and moves | `AskList`, `RenderList`, `ListArrives`, `ListSettles`, `RenderPage`, `PageArrives`, `PageSettles`, `SelectRow`, `Archive`, `StoreMove`, `MoveAnswered`, `RowRemoved`, `UndoMove` | `listPage`, `selBefore`, `moveSelected`, the removal of repeated rows; a swap and its settling are two steps |
| `ReadingPane` | the pane, its requests and timers, the history, htmx's copies | `Open`, `WaitedLong`, `Answer`, `ErrorStatus`, `NoAnswer`, `Close`, `Travel`, `Reload` | `readingWaits`, `closeReadingPane`, the `htmx:history*` listeners |
| `PdfPreview` | previews opened, pages in view, the queue, two drawings, the canvases | `Open`, `Close`, `Loaded`, `LoadFails`, `Enter`, `Leave`, `Got`, `Drawn`, `DrawFails` | `startPDFPreview` (`pump`, `evict`, the observer), `stopPDFPreview`, `previewAttachment` |
| `Compose` | the open window, saves and the send under way, the drafts and messages on the server | `AskWindow`, `WindowArrives`, `Type`, `Pick`, `RemoveFile`, `Close`, `Guard*`, `Save`, `StoreSave`, `SaveAnswered`, `SaveFails`, `Send`, `StoreSend`, `RefuseSend`, `SendAnswered`, `SendFails` | `closeCompose`, `onDraftSaved`, `submitCompose`, `onComposeResponse`, `handleComposeDraft`, `handleComposeSend` |
| `ComposeBody` | the format chosen and the one written in, the signature's, the identity, the text as words and signatures, the conversion under way | `ChooseFrom`, `ToggleSignature`, `Write`, `WriteInside`, `ChooseFormat`, `KeepFormat`, `Converted`, `ConvertFails`, `SendFails` | `applyComposeSig`, `removeComposeSig`, the format switch, `mail.ConvertBody` (external) |
| `Gestures` | the press, the swiped row and its pane, the held tap and its timers, the last click | `PressDown`, `Move`, `LongPress`, `TouchLost`, `TouchEnd`, `MouseUp`, `MouseLeaves`, `ListReplaced`, `Held` | the touch, mouse and `dblclick` listeners, `settle`, `endDrag`, the double-tap window |
| `Keybindings` | bindings loaded, boxes, the recording, the pending prefix | `Begin`, `Record`, `Escape`, `Reset`, `ResetAll`, `Submit`, `Press` (of Shift too), `Forgotten` | `beginKeyRecording`, the recorder's `keydown`, `resetKeybinding`, the `keydown` dispatcher |
| `PushDevice` | permission, subscription, the devices' rows, session, tabs, the sign-out, posts and what the push service holds | `Look`, `Enable`, `Subscribe`, `StoreSub`, `Disable`, `StoreDrop`, `PressSignOut`, `Leave*`, `PressAgain`, `SignIn`, `RemoveDevice`, `Notify`, `Post`, `Push`, `NotificationClick`, `Expire` | the notifications switch, the held-back sign-out form, `sw.js`, `handlePushSubscribe`, `notifyPush` |

## Runs

| Run | Kind | Shows |
|---|---|---|
| `outbox` | pass | two windows, two sends, one retry, one crash or failed statement. `AtMostOncePerAsk`, `NoSilentLoss`, the refinement of `SendOnce`, and under fairness that a due row is handled and "sending" is left, unless a send hangs or the recovery of a start failed |
| `outbox_ids` | violation | a retried row deleted from a stale page while the scheduler's batch still holds it gives its id to the next message: the claim takes that row, the deleted text is sent and the new message is marked sent unsent |
| `webhooks` | pass | two settings, told apart by `setting` in `MCWebhooks`. "race": one endpoint, two rows, the engine's drain against one of the API, a replay, an edit, no fault. "queue": two endpoints, one drain, an edit, a restart or failed statement. `GivenUpIsOff`, `LadderIsClimbed`, `OneMailPerDrain`; and `DueIsAttempted`, unless older rows of paused endpoints fill the batch |
| `webhooks_mails` | violation | `OneMailADay`: the engine's drain and one of the API post the same row, both read the endpoint before either has stamped it, and its owner gets two mails that day |
| `webhooks_starved` | violation | such rows hold up an active endpoint's fresh delivery for ever |
| `draft_push` | pass | one draft, two saves, its drop, nested pushes, one restart or broken connection, with and without UIDPLUS: `CleanIsPublished`, `NeverAHole`, `OneName`, `DroppedIsGone`, `DirtyIsPushed` |
| `draft_moved` | violation | a draft whose From account changed has its old UID removed from the new account's mailbox |
| `folder_sync` | pass | two messages, a window of one, one edit by another client, one click, one fault, with and without CONDSTORE: `RowsAreTheirs`, `IntentSurvives`, `MirrorSettles` |
| `moves` | pass | an inbox and an archive, two messages, two moves, their undo, the passes over both folders, one fault, with and without MOVE and UIDPLUS: `RowsAreTheirs`, `PendingIsOwed`, `UndoIsFinal`, `OneMoveIsSafe`, `Settles` |
| `moves_twice` | violation | a message moved again before its first move has reached the server: the second command moves another message |
| `read_state` | pass | a conversation of two messages, two choices or undos, POSTs refused or unanswered, two lists, events, another tab's write: `OverridesAreShown`, `LastPressWins`, `AtRestShowsStored` |
| `page` | pass | the nine parts of the page, each on its own: `ListNeverGoesBack` and `StatusArrives` (list), `PagesAreExact` and `MovesTheSelected` (rows), `ListIsNotCovered` and `WaitIsExplained` (pane), `PreviewIsTrue` (PDF), `SentLeavesNoDraft` (window), `TextIsAsChosen` (text), `NoPressTwice` (gestures), `EveryBindingIsReached` (keys), `SignedOutIsSilent` (push device) |

Deadlock is not checked: every module's bounds on sends, rows, saves or faults let
the system come to rest, as the program does when nobody uses it.

### What the properties leave out

Each exception is a behaviour of the code, met while checking:

- `NoSilentLoss`: an undo the process dies in between the cancel and the restored
  draft (`cut`). The row stays "cancelled", the text is in no draft.
- `SendingSettles`: a row whose outcome could not be written (`unmarked`) waits for
  the next start, as do the rows of a start whose recovery failed; a send that hangs keeps
  its row (`[]Held(s)`), and in `DueIsHandled` every row behind it.
- `DueIsAttempted`: `Blocked`, see `webhooks_starved`.
- `StatusArrives`: a stream that EventSource has given up, until somebody shows the tab.
- `CleanIsPublished` and `NeverAHole` speak of runs in which no draft has changed accounts
  (`Stayed`): a draft that did can have another draft's copy removed, as `draft_moved`
  shows. `OneName` leaves out only the moved drafts themselves.
- `CleanIsPublished`: two saves within a second ("hurried": `updated_at` has that
  resolution and `ClearDraftDirty` compares it); the files of a draft a push of which was cut short, because files join a draft without
  moving `updated_at`. `DroppedIsGone`: a push that ran during the drop ("raced"), one
  that ran inside another, and cut ones; see `DroppedEverywhere` below.
- `IntentSurvives`: messages another client flagged since, messages toggled again
  while the last push was under way, renumbered mailboxes (`syncUIDValidity` deletes the
  rows and with them the choices not pushed yet).
- `MirrorSettles`: flags in `missed`. A flag change a pass meets while a choice is
  owed is passed over and its MODSEQ stored; and a first pass cut short before a
  MODSEQ is stored makes the next one store a newer MODSEQ without ever having asked
  for the changes in between. Both flags stay wrong until they change again.
- `RowsAreTheirs`, `OneMoveIsSafe`, `PendingIsOwed` and `Settles` leave out `tangled`
  messages: those whose row was moved while another move of it was under way (see
  `moves_twice`), or whose row's id was given out again under a timer or a command.
- `PendingIsOwed` and `Settles` allow for rows in `left`, which stay pending for good:
  a restart during the grace (the timer is gone, the row stays in the target folder);
  archive, trash or spam pressed in that folder itself (`moveTo` returns at once); an undo or a failed move whose
  UPDATE the unique index refuses, because the source's sync stored the message again
  (new mail is looked for above `MAX(uid)`, and a moved row no longer counts there).
- `OneMailPerDrain` allows a mail for each drain that can run at a time, because the one a
  day that the code promises is not kept: see `webhooks_mails`.
- `UndoIsFinal`: what the message's own move would have done is never done. A tangled
  command of another message, whose UID has come to name this one, can still take it.
- `LastPressWins`: a message that had POSTs under two row ids at once (`crossed`), as
  happens when mail joins the conversation between two presses; and a choice another tab
  overruled. `AtRestShowsStored`: rows left behind by another tab's write that
  announced nothing, by an event ignored under a pending choice or overtaken by a failed
  one, or by a POST obeyed without an answer (`unseen`), until they agree again; and an Undo
  pressed while the row is off the screen: `markRead` has no row to ask then and takes the
  message for read (`app.js:2363-2364`), so that if its POST fails the row falls back to
  "read" over a database that says unread, until the next list.
- `PagesAreExact`: conversations that got mail, lost some or became unread since the list was
  rendered (`touched`). Page one shows the unread ones from below, so a later page leaves
  them out, and one marked unread in between is on neither.
- `MovesTheSelected`: a key pressed between a swap and its settling, when the row chosen
  and the stashed one are both highlighted; and a selected message no list shows any more.
- `PreviewIsTrue`: pages whose drawing failed or that were evicted from a crowd of visible
  ones (`excused`), and pages two drawings had at once (`twice`).
- `SentLeavesNoDraft`: a lost answer; a save and the send, or two windows, overlapping.
- `TextIsAsChosen`: words written inside a signature of rich text, or while a conversion
  was under way (`swallowed`); a format chosen before the last one arrived, and a
  conversion that failed; an identity chosen under a conversion (`overlaps`).
- `NoPressTwice`: a long press that then moves sideways opens the menu and swipes. A double
  click of the mouse opens the message with each of its clicks and runs the double action on
  top, as `app.js:2612-2613` says; the property asks for two clicks in one list. The browser may pair
  clicks on rows that a refresh replaced in between, so that the second row's only click brings the
  action with it.
- `EveryBindingIsReached`: sequences whose second key needs Shift and whose first does not
  (`ShiftBetween`); see `ShiftIsNoKey` below.
- `SignedOutIsSilent`: the sign-out's own request fails, Sign out is pressed twice, or another
  tab subscribes meanwhile (`disturbed`).

### Divergences kept as definitions

These are statements of the repository's docs, comments or tests that the code does not
keep. They stand in the modules as definitions, next to a property that states what
holds. To see the counterexample, add the definition to the configuration named, or,
for a part of `Page`, check the part's own `Spec` with the constants given.

| Definition | Says | Source of the statement | What the code does | Where |
|---|---|---|---|---|
| `DraftPush!DroppedEverywhere` | dropping a draft clears its copy for other clients too | comment of `dropDraft`, `server/compose.go` | a push under way during the drop appends a copy nobody removes | `DraftPush.cfg` |
| `FolderSync!DeletionsNoticed` | a deletion is noticed by the next pass | `mail/sync.go:140-141` | the baseline is the opening SELECT's count: mail that arrives during a pass hides a deletion until the deep pass | `FolderSync.cfg` |
| `ReadState!UndoPersistsLast` | "Undo updates immediately but persists after the original write" | `app_triage_test.mjs` | queues go by row id: mail that joins in between gives the later choice a queue of its own, and the earlier POST can arrive last | `ReadState.cfg` |
| `MessageList!SpinnerKeepsItsPromise` | the spinner "never vanishes ahead of the mail it was promising" | `app.js`, above `mimuxSyncing` | an answer thrown away because a message was marked meanwhile settles the debt, and nothing was refreshed | the list's constants of `Page.cfg` |
| `ReadingPane!SkeletonIsExplained` | an unexplained skeleton is "the one thing this hint exists to prevent" | `app.js:124-128` | a request that ends without an answer clears its timer and leaves the skeleton | `Messages = {1, 2}`, `MaxOpens = 3`, `MaxTurns = 2` |
| `PdfPreview!CanvasesAreBounded` | "old canvases are evicted" | `app.js:1279-1281` | a drawing that is cancelled leaves its canvas in place, in no list | `Pages = {1, 2, 3, 4}` |
| `Compose!FilesGoOnce` | "the send attaches exactly what the compose window shows" | `server/compose.go:893-894` | Send pressed while a save is under way: the draft has the picked files by then, and the window posts them again | two windows, one edit, file, send and fault, two saves |
| `Compose!CleanLosesNothing` | "untouched: replacing it loses nothing" | `app.js`, on a window that is not dirty | a message refused for its form comes back as a clean window whose text no draft has | the same |
| `ComposeBody!OneSignature` | the signature can be "cleanly replaced" | `app.js:3251-3252` | a reopened draft's signature is plain text to the script: ticking Signature adds a second one | the text's constants of `Page.cfg` |
| `Keybindings!BoxesShowBindings` | every box not being recorded shows a binding | the form saves what the boxes show | Reset pressed during a recording ends it and leaves the recorded box its prompt | the keys' constants of `Page.cfg` |
| `Keybindings!ShiftIsNoKey` | every binding the form posts runs its own action when typed, and no other | "A second sequence key is always consumed. Falling through to its direct binding could archive/delete mail after a mistyped go-to shortcut", `app.js:3587-3588` | the recorder passes Shift over (`app.js:70`), the dispatcher takes its keydown for the second key: "g I" or "g ?" is recorded and stored, typing it never runs it, and the I or ? falls through to what it is bound to alone | the keys' constants of `Page.cfg`, in an initial state |

Smaller ones met while modelling, each an exception or a reachable state of a module:

- `ListRows`: a reply that arrives renames the row of the selected conversation, so the selection
  falls back to its place in the list, although `app.js:739-741` says "Same message if
  it's still there"; `e` then moves another conversation. A row chosen before a swap
  has settled leaves two rows highlighted.
- `PushDevice`: a failed or repeated sign-out leaves the subscription live
  (`app.js:335-338`); a failed enable leaves the switch on "on" without a row; pushes that
  are reordered leave the older message's notification standing.
- `Gestures`: a pane is left behind when a touch ends without `touchend`, and a second finger
  starts over on another row. A drag of the mouse that swiped is not undone when its click makes
  a double click: nothing but the single click is eaten (`suppressClick`).
- `PdfPreview`: a page that two drawings had can be evicted after the first of them and counts as
  finished.
- `Compose`: an old window's late save acts on the new one; a guard's save that fails leaves
  the window closing at its next save; `items.splice(0, n)` drops the first files, not the
  ones the save took, when one was removed meanwhile.
- `ComposeBody`: words typed while a conversion is under way, or inside a rich-text signature,
  are lost with what replaces them; an identity chosen meanwhile brings the other one's signature back; a
  refused or failed conversion posts the text under a format it is not in.
- Streamed search results are appended to whichever tab's list is open, and the answers
  of the unread badge (`app.js:633-676`) are taken in the order they arrive; both are seen in the
  code and not modelled.

### Steps the models merge or leave out

Cases of modelled handlers that have no step of their own:

- `Outbox.Press`: a form that does not validate and a forwarded message that cannot be read are
  one refusal; both leave form, draft and outbox as they were.
- `DraftPush`: a save begins only when the save before it of that draft is done. The compose window sees to
  that for its own saves; two windows on one draft are left out. A refusal in the middle of a sweep, of a queued drop, or of
  the UID EXPUNGE after a STORE that was accepted (`mail/drafts.go:467-469`) is not told from a
  broken connection.
- `PendingMove.ReconcileExpunged`: what the deep pass read of the mailbox and the rows it deletes for
  it are one step; `FolderSync` has the yields. An archive or undo between the two is
  therefore not among the behaviours of `moves`. Restarts during the grace leave the row in `left`, for which `PendingIsOwed`
  promises nothing: the code has no other answer to them.
- `ReadingPane`: closing drops `t` and `src` of the address and keeps its other parameters
  (`978-984`), which no history entry of the model has.
- `ListRows.ListArrives`: htmx carries classes from the old rows to the new ones until it settles; the model has
  the highlighted rows after the swap only.
- `PdfPreview`: a page that leaves the view and then fails to load (`getPage`) changes nothing the model sees.
- `PushDevice`: the service worker's look for a visible window (`sw.js:63-65`) and the notification are one
  step, since it shows one in either case; Sign out is pressed in one tab at a time.
- `Gestures` takes presses outside a row's own buttons and links. `Keybindings` has no Caps Lock and no key held
  down until it repeats.

### Bounds

The hazards listed are races of one actor that works from a copy with one other
writer, so two of each thing that can race make them happen: two
sends (one row's id can pass to the other), two asks (a retry), two drains, two rows,
a ladder of two rungs (the last rung and one before it), two saves (the save during
a push), two messages with a window of one (one message the window skips). One
fault at any point stands for a crash, a lost connection or a failed statement; runs
with a second fault were too large to keep. Ladder, batch and retention are small for the same
reason: only reaching them matters. `FolderSync` renumbers a mailbox once (`server.v` is
1 or 2). The proofs do without the bounds.

In the browser two requests that can overtake each other, a timer and one
failure make the listed races happen: two rows, two tabs, two windows, two messages to
open (a third open finds both earlier ones under way), three pages and one canvas
kept (one more than is kept, and one to evict), three identities of which two have a signature, four
conversations in pages of two with one arrival. Keys have two direct actions and
one sequence over three keys, of which one needs Shift: every conflict of the recorder (taken,
a prefix, a second key) is among them, and so is a sequence cut in two by Shift. The names `Max*` in each module head say what they bound.

### Fairness

- `Outbox`: weak fairness of the scheduler's own steps (recovery, reading the due rows,
  claiming: a ticker wakes it) and of starting a dead process again. None of users,
  the clock or crashes, and none of `Conversation`, the steps that wait for the SMTP
  and IMAP servers: the send sets no deadline, and `store/outbox.go:181-182` says that a
  send that hangs stays "sending" until the next restart. So `SendingSettles` and
  `DueIsHandled` name that exception, `[]Held(s)` and `[](pc \in {"smtp", "taken"})`:
  the row being sent stays where it is, and so do all the due rows behind it.
- `Webhooks`: weak fairness of each drain: goroutines run, a POST ends within
  `webhookTimeout`.
- `DraftPush`: weak fairness of each account's worker; reconnecting is its loop.
- `PendingMove`: weak fairness of timers, worker and returning goroutines taken
  together: some enabled step of theirs is taken. Every such step that changes
  something uses up a timer, a command or a difference between rows and mailbox.
- `Page`: weak fairness, where the list is the part that moves, of the server's announcements
  and the end of its syncs, the stream's delivery, its keep-alive ticker and its reconnecting,
  and of the answers to the list's own requests and to folder clicks (`Announce`,
  `SyncEnds`, `Receive`, `KeepAlive`, `Reconnect`, `Render*`, `*Arrives`). Passes, losses
  and the user's acts are not fair: `StatusArrives` holds because the keep-alive
  restates a status that was dropped. `Reconnect` is the browser's own retry after a
  dropped connection. It is not enabled on a closed stream, which "will never retry on
  its own" (`app.js:594-596`): only showing the tab (`Shown`, not fair) connects again, so
  `StatusArrives` excepts a stream that stays closed.
- `FolderSync`: weak fairness of the worker, of the goroutine that returns from a
  STORE, and of the deep interval running out. None of clients or faults, whose
  number is bounded: `MirrorSettles` says what holds once they are done.

## Proofs

`Outbox_proofs` proves for any number of windows, presses, retries and faults:

| Theorem | States |
|---|---|
| `TypeCorrect` | `Spec => []TypeOK`; inductive as it stands |
| `AtMostOnce` | `Spec => []AtMostOncePerAsk` |
| `Refinement` | `Spec => ImplementsSendOnce` |
| `NothingIsLostSilently` | `Spec => []NoSilentLoss` |

The assumptions are those of `Outbox`: there is a window, the bounds are naturals,
a send may be asked for at least once. None of the bounds has to be finite or small.

`AtMostOncePerAsk` is not inductive: from a state in which a row is both queued and
being sent, a second acceptance follows. `IInv` adds three facts to the type
invariant. `Fresh`: a send not pressed yet has left no trace anywhere. `Alone`: a
send is in the request's hands or in the scheduler's and never in both, and what the
scheduler holds reads "sending" or has been deleted. `Credit`: acceptances plus the
try that is still possible never exceed the asks. `IInvStep` shows every action keeps
them, action by action.

`Refinement` maps a send to the phase its holder is in (`PhaseOf`: the goroutine that
talks to SMTP decides before the row does). `StepRefines` shows that every action
moves one send to one new phase (`PhaseMoves`) or none (`PhaseStays`), and a crash
is the abstract `Interrupt`.

`NothingIsLostSilently` needs `Handover` as well: a POST that is about to drop its
draft has its text in a row or at the server already. `KeptStays` shows that what
keeps a window's text goes on keeping it unless an undo gives it back.

`Refinement` is the project's one refinement: `Abstract == INSTANCE SendOnce WITH ...`
in `Outbox`, and `ImplementsSendOnce == Abstract!Spec` is also a property of the run `outbox`.

`Webhooks_proofs`, for any number of endpoints (at least one), deliveries, drains, rungs, replays,
edits and faults:

| Theorem | States |
|---|---|
| `TypeCorrect` | `Spec => []TypeOK` |
| `StaysOff` | `Spec => []GivenUpIsOff` |
| `EveryRung` | `Spec => []LadderIsClimbed` |
| `FewMails` | `Spec => []OneMailPerDrain` |

`TypeInv` adds to the types that a drain that picks or posts has something to work on (`Busy`),
for which `OldestIsSome` shows that a batch of due rows is never empty. `GivenUpIsOff` holds of
endpoints, but an edit writes back a copy: `Off` adds that a copy with the stamp is off
(`CopyIsOff`) and that ids not used yet are blank (`NewIsBlank`).
`LadderIsClimbed` compares an auto-disable with the POSTs made, while drains save a
count over each other's: `Climbing` adds that no row, no copy in a batch and no job at
work counts more attempts than there were POSTs (`RowsCount`, `CopiesCount`, `JobsCount`). A save
from a stale copy then only lowers the count.
`OneMailPerDrain` bounds the mails of a day, which says nothing of a drain that is about to send
one: `MailsCounted` counts those beside the mails sent (`Owing`: at a delivery of the
endpoint, and found the mail due when they began), and adds that no mail was sent while the
endpoint has no stamp. Together they are never more than the drains there are. `Given` (ids in
use were handed out) is what keeps a new endpoint or delivery from inheriting either count.

`FolderSync_proofs`, for any window and any number of messages, clicks and faults:

| Theorem | States |
|---|---|
| `NeverAnothers` | `Spec => []RowsAreTheirs` |
| `ChoiceSurvives` | `Spec => []IntentSurvives` |

`SyncInv` has four parts. `BoxInv`: UIDs are below UIDNEXT and name one message each. `FolderInv`:
the stored UIDVALIDITY is not ahead of the server's, and without one there are no
rows. `PassInv`: a pass beyond its SELECT works under the server's numbering. `RowsInv`: while
the numbering is the same, a row's UID has been given out, which is what makes a UID
handed out later harmless. `Ranks` shows that a renumbered mailbox again numbers each message
once, from the cardinalities of finite sets. `Rests` and `Keeps` carry the invariant over
the steps that number nothing and store no new row, which are most of them.

`IntentSurvives` needs to know what every command and push still under way will do to the
choice. `Base` is what the argument rests on: `SyncInv`, the types of flags and commands
(`TypedInv`), one row for each UID and message (`OneRow`), nothing reaped that the mailbox still has
(`Reaped`), a push that owes what rows still say (`OwedInv`), and a choice that counts has its row
under the present numbering (`ChosenInv`). `KeptInv` then says of every row with a choice
that the row shows it, and the mailbox too unless the row is dirty (`Agrees`); that its command, of
which there is one, says the same (`Commands`); and that a push of an older choice is
followed by a command still to land, while the row stays dirty (`Pushes`). The last part is the
heart of it: `ClearSeenDirty` compares the flag it pushed with the row's, so a late push of
the old choice clears nothing.

`DraftPush_proofs`, for any accounts, drafts, saves and faults, provided "none" and "elsewhere"
are no account's or draft's name (`SetsAssumption`):

| Theorem | States |
|---|---|
| `NamedOnce` | `Spec => []OneName` |
| `NoHole` | `Spec => []NeverAHole` |
| `CleanMeansPublished` | `Spec => []CleanIsPublished` |
| `DroppedForGood` | `Spec => []DroppedIsGone` |

`OneName` speaks of copies; a copy takes its Message-ID from the push that appends it,
and a push read the row some time before. `NameInv` therefore says of every push in progress that
it carries the row's Message-ID, and that past the build the row has one. The stamp
of a first push is the step that could break it for the pushes around it: `Stacked`
(under the top push, pushes have yielded, so they are past the build) shows that there are none,
and `HomeInv` that there are none on another worker either, because a draft that never
changed accounts has left traces in its own only. `Carries` is the argument for
every other step of a worker: each push afterwards was one before, under the same Message-ID, or has
just read the row. `Numbered` (UIDs below UIDNEXT, one for each copy) is what the types of a
sweep's UID rest on.

`NeverAHole` is about copies, and three kinds of step remove one: a push that drops its old
UID, its sweep, and a queued drop. `MintInv` (a Message-ID names its draft), `OwnInv` (the
UIDs that rows, drops and pushes hold on to are those of their own draft's copies) and
`SeenInv` (a sync that has yielded has listed every copy but the newest) say what such a step can
reach; `HeadInv` says what the push on top was told by the server. On them `KeptInv` says that a draft was
never published (`Unpublished`), or has a newest copy that no push in progress will take away
(`Safe`): the pushes that wait to sweep keep that UID, or wait for one that sweeps before them.

`CleanIsPublished` adds what that copy holds. `DueInv`: once the row is clean, or a push that
will say so has sent its text off, the copy has the row's text (`Bodied`), because a push carries the
text of the save whose time it carries (`Timely`). `FilesInv`: it has the row's files, or a push is
queued or has begun that will read them (`WithFiles`).

`DroppedIsGone` holds whatever changed accounts, so it cannot use `OwnInv`: `ItsInv` says
the same of the UIDs with the mailbox they belong to, `SeenOnce` that a listed UID has one
Message-ID. `GoneInv` then speaks of drafts to which nothing happened that the property names
(`Calm`): while there is a row one copy and one push at most exist (`OneCopy`), and once it is gone no
push is in progress and what is left has a drop queued for it (`NoTrace`).

`PendingMove_proofs`, for any folders and any number of messages, moves and faults:

| Theorem | States |
|---|---|
| `TypeCorrect` | `Spec => []TypeOK` |
| `RowsShowTheirs` | `Spec => []RowsAreTheirs` |
| `PendingEnds` | `Spec => []PendingIsOwed` |
| `MovesTakeTheirOwn` | `Spec => OneMoveIsSafe` |
| `UndoStays` | `Spec => UndoIsFinal` |

All five follow from `MoveInv`. `BoxTyped`, `RowsTyped` and `MovesTyped` are the types, with UIDs below
UIDNEXT and ids that are unique among the rows there are. `NamesInv`: a row, a move asked for and a move that
is done name their message by a UID that was given out and that no other message has, or the message
is tangled; this is what lets a UID written down at the button still be right after the grace.
`SameInv`: the row a move's id leads to is the one that was moved. `ApartInv`: a row has one
move under way, or its message is tangled. `RestInv`: a message at rest has none. `PendingIsOwed` is
inductive with them. A copy of a message gets the UID its folder hands out next;
`Places` and `Largest` are the facts about finite sets which say that this is above all others.

`ReadState_proofs`, for any finite conversation and any number of presses, events and lists:

| Theorem | States |
|---|---|
| `ReadTypes` | `Spec => []TypeOK` |
| `ChoicesStayShown` | `Spec => []OverridesAreShown` |
| `LastIsStored` | `Spec => []LastPressWins` |
| `RestIsTrue` | `Spec => []AtRestShowsStored` |

`IntentInv` ties the overrides to the POSTs: a change is pending exactly while its POST is unfinished
(`PendingPosts`), the POSTs about a message are in one queue (`OneKey`, `StoredFirst`), and the last of
them is of the newest change (`NewestInv`). `WishInv` is `LastPressWins` for a choice still on its way:
the last POST carries it, or has written it. `RequestInv` says which overrides a list may retire:
those that had settled when it left, as long as no press came since.
`RestIsTrue` needs more, because a failure puts back what a chain of changes replaced. `Base` of a chain
is what the row would show if every POST still under way failed. `ClaimInv` has three parts: the last event on
the stream tells what the database holds (`WireClaim`); with no event to come and a choice under way, the
base does (`PendingClaim`); with no choice either, so does what the row shows or is about
to show (`RestClaim`). The lemmas `SettledIs`, `FailedIs`, `KeptIs` and `TakenBackIs` compute what an
answer or a failure does to a chain, from `RemoveAt` and `SubSeq`.

`Page_proofs` and `Screen_proofs` are about `Page`. A theorem about a part is proved of the part's own
steps and carried over: a behaviour of the page is one of its device (`DeviceMoves`), its keys
(`KeyMoves`), its gestures (`GestureMoves`), its list (`ListMoves`) and so on, since the steps
of the other parts leave a part's variables alone.

| Theorem | Part | States |
|---|---|---|
| `Silent` | push device | `Spec => []SignedOutIsSilent` |
| `Reached` | keys | `Spec => []EveryBindingIsReached` |
| `OncePerPress` | gestures | `Spec => []NoPressTwice` |
| `NeverBack` | list | `Spec => ListNeverGoesBack` |
| `SpinnerSettles` | list | `Spec => []List!SpinnerHasAReason` |
| `NotCovered` | reading pane | `Spec => []ListIsNotCovered` |
| `WaitExplained` | reading pane | `Spec => []WaitIsExplained` |
| `NoDraftLeft` | compose window | `Spec => []SentLeavesNoDraft` |
| `EveryRowOnce` | rows | `Spec => []PagesAreExact` |
| `TheSelectedIsMoved` | rows | `Spec => []MovesTheSelected` |
| `VisiblePagesAreServed` | preview | `Spec => []PreviewIsTrue` |
| `WordsStay` | its text | `Spec => [](Body!WordsAreKept /\ Body!FormatsAgree)` |
| `TextStaysAsChosen` | its text and signatures | `Spec => []TextIsAsChosen` |
| `PageTypes` | all | `Spec => [](TypeOK /\ EveryPartTyped)` |

They hold for any values of the constants that `PartsAssumption` allows.

- Push device, for any number of tabs (at least one), endpoints, messages and failures. `DeviceInv`
  adds three facts to the types. `Kept`: the push service holds nothing for a browser without a
  subscription. `Leaving`: how far the sign-out has come says what it has taken down so
  far. `Quiet`: once signed out and undisturbed, the subscription has no row, nothing is held and no
  post to it is under way.
- Keys, for any actions and keys, provided a printable key is one character and no action is
  called "none", the script's word for no recording, and Shift is none of the printable keys. `KeyInv` has three parts. `BoxesInv`: without its
  recording the form shows bindings of which none is in another's way (`Good`). `DefaultInv`: so do
  the defaults. `RecordingInv`: the box being recorded shows a prompt or half a binding, and the keys kept
  fall short of one. `Taken` shows that a binding that clashes with none of the others may
  take its place among them, `Blanked` that a box may lose its binding; every step of the recorder is one
  of the two. `GoodIsReached` shows that bindings none in another's way are told apart by
  the dispatcher, when Shift does not go down between the keys of one.
- Gestures, for any rows, presses, lists and ways they meet. A press that is still down may
  yet become a tap or a swipe, so `NoPressTwice` alone does not survive its end. `Budget` counts it beside
  what presses have come to: one claim on its row (`Claim`), and none for a tap once it
  opened the menu (`TapClaim`). `PressInv` says the row that would be swiped is the one pressed and only a
  finger opens the menu; `HeldInv`, that the first tap a second one would take back is still held,
  without which a double tap would count three. `Lifted` is the argument for every end of a press;
  `OneMore` and `OneGone` count held taps. Double clicks have an invariant of their own (`Clicks`):
  the last click, as long as it may be paired, is one that no double click of its row has used (`Spare`).
- List. `ListInv` is its types with `InOrder`, an answer under way is between the list on screen and the mail
  there is, so that no order of answers takes the list back, and `Debts`, which is the spinner's reason
  itself.
- Reading pane. `PaneInv` adds to the types and the two properties that a copy in the history
  waits for nobody (`CopiesAreNobodys`: a skeleton is saved without its request) and names no request still
  to be made (`CopiesAreOld`), which is what keeps a copy that comes back from being taken for
  the skeleton of a later message.
- Compose window. `WindowInv`: types; a window to come has left no trace (`Untraced`); a window being sent
  is locked while it is on screen (`IsLocked`); and `Stories`, for windows with no lost answer that
  nothing crossed: whatever may still write the window's draft knows the row it has (`Knows`), so there is
  one row, and once the message is out nothing is left that could write one (`Finished`).
- Its text. `BodyInv`: the text in the window and the one a conversion would bring hold every word
  written but those in something's way (`Complete`), and a conversion, if one is under way, is to the
  format that is chosen (`Agreed`). `SigningKeepsWords` is the fact about signatures: neither taking one
  out nor putting one in touches a word.
- Rows, for any folder, page size, arrivals and deeds. `RowsInv` is the types with five facts.
  `OnceEach`: rows are repeated only between a page's swap and its settling. `NoneMissing`: the
  rows on screen, the refresh that was rendered and the page under way each leave out only a conversation that
  was touched or one below the cursor (`Covered`, `Below`); with no cursor left, that is the
  property. `GoneIsTouched` and `Aimed` (nothing but the selected row is highlighted, and the row a
  swap stashed is that one) carry the second property. What a page holds comes
  from `DescendingLists`, and what the removal of repeated rows leaves from lemmas about `Sorted!At`.
- Preview, for any pages, canvases, previews and scrolls. `PdfInv`: the drawings
  (`Drawings`) are `Held`, what is being drawn or is finished has its canvas and no page has two jobs, and
  `Served`, a page in view is on a canvas, in the queue or a job's; and `TasksOwn`, a page's task is
  the job that draws it, without which a page that leaves the view could cancel another's. `SettleFacts`
  is the argument: every callback ends in an eviction, a cut of the queue and a start of idle
  workers, and the cut drops only what a worker took, what is finished and what is out of view.
- Signatures, for any identities, words and choices. `TextInv`: what the script remembers of a
  textarea, and every marked block, is of the identity the message is from (`SigsAreOfFrom`); and
  of the signatures that stand in the text, and in the one a conversion brings, all but at
  most one came with the text (`FewStand`). `SignedFacts` and `AsTextFacts` compute what signing and
  converting make of a text.
- Types. The parts' `TypeOK` bound counts, and a bound is not inductive without what was
  spent. `WindowBounds`: a text is no longer than the edits that were made, a window has no more files
  than were picked, and saves, sends and drafts carry texts and files of windows (`FormIn`,
  `SaveIn`, `SendIn`, `LineIn`). `OpensAreFew` is the same for the pane, `HandUsed` for the keys; `NumberLeft`
  finds a number for the next held tap among those the taps held leave; `StreamTyped` has the
  backlog within its buffer, whose oldest event goes when it is full (`Handed`). `PageTypes`
  puts the parts' types together: `TypeOK` asks that of the part that moves, `EveryPartTyped`
  also of those that rest.

Only model-checked:

- Liveness (`DueIsHandled`, `SendingSettles`, `DueIsAttempted`, `DirtyIsPushed`, `MirrorSettles`, `Settles`,
  `StatusArrives`): the prover does not handle fairness. Every invariant and every action property
  of a passing run is a theorem.
- That the bounds let the interesting cases happen, and the five violations: those are what the
  runs show and a proof cannot.

## Plan

Done: `SendOnce`, `Outbox`, `OutboxIds`, `Webhooks`, `DraftPush`, `FolderSync` (which
took in the read flag's write-through), `PendingMove`, `ReadState`, `Page` with its nine
parts; a theorem for every safety property the runs check, type invariants among them.

Left, most important first:

1. `Worker`: the queue, wake and nudge tokens and the budgeted sweep over several
   folders; the modules above assume of it that commands run one at a time and, inside
   a pass, only at its yields.
2. `Hub`: durable subscribers and the notifier's batches.
3. `AccountService`, `CliLogin`: payment events to licences, the one-time ticket of
   the CLI login, the licence gate's grace.
4. `BodyCache`: the warmer's window and its prune. `Threads`: threads and their unread
   counts, as an algorithm against a reference definition.

## Not modelled

- Rendering, templates, themes, menus, the sidebar, the contact editor, recipient completion,
  zooming, the settings page's signature editor, the public site's script: pure functions or
  single statements, with no order of steps to get wrong.
- Search parsing, rule matching, AI and translation, sessions and CSRF, the portable export and the
  thin front ends (API, MCP, CLI), for the same reason.
- Streamed search results and the service worker's offline cache: they keep no state another
  part relies on.
- pdf.js is vendored; `PdfPreview` models what the script uses of it. htmx likewise: what it
  does to requests, swaps and its history copies is modelled where the script's listeners
  depend on it.
- IMAP and SMTP servers, other clients, the push service and the browser's touch and history
  are the environment: their steps are actions marked external.
- Operations of modelled components that are left out are named in `PROJECT.json`, component by
  component. Hazards seen and not among those listed there: the prune after an insert, which
  can drop pending deliveries; the removal of one attached file, which saves again the whole row it read; two opens
  of the same foreign draft, which adopt it twice; payment events delivered twice; a process that dies
  in the middle of an undo (`cut` in `Outbox`); a failed way back of a move and a backfill above
  `MAX(uid)` (`left` in `PendingMove`); a first pass cut short and merged by the next
  (`missed` in `FolderSync`).
