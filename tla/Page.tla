-------------------------------- MODULE Page --------------------------------
(***************************************************************************)
(* One page of the browser (web/static/js/app.js): the parts of its script  *)
(* that keep state across requests, timers and callbacks. Each is a module  *)
(* of its own and shares no variable with the others, so their steps        *)
(* commute: a behaviour moves one part, which the initial state picks, and  *)
(* the others rest. What two modules would both touch, the spinner over the *)
(* list, the pane or the window, is in one of them.                         *)
(***************************************************************************)

CONSTANTS
  MaxMail, MaxPasses, MaxLoss, MaxAsk, Backlog,                        \* MessageList
  Messages, MaxOpens, MaxTurns,                                        \* ReadingPane
  Pages, MaxCanvases, MaxPreviews, MaxScrolls,                         \* PdfPreview
  MaxForms, MaxEdits, MaxFiles, MaxSaves, MaxSends, MaxFaults,         \* Compose
  Rows, Swipes, DoubleTap, MaxPresses, MaxRenders,                     \* Gestures
  Direct, Sequenced, KeySet, Shifted, MaxHands,                        \* Keybindings
  Threads, Start, MaxArrivals, Limit, MaxDeeds,                        \* ListRows
  Tabs, MaxEndpoints, MaxPushes, MaxClicks, MaxFailures,               \* PushDevice
  Addresses, Linked, MaxWords, MaxChoices                              \* ComposeBody

VARIABLES
  which,     \* the part that moves
  mail, syncing, news, stream, events, list, spin, told, await, fetch, again, click,
  limits, owed, broken,
  pane, opens, entries, pos, hpath, cache, turns,
  loads, preview, holder, vis, queue, jobs, tasks, rendered, canvas, excused, twice, scrolls,
  form, opening, closing, sending, attach, saves, waiting, send, drafts, sent, left, lost, crossed,
  render, press, swRow, axis, toward, swPane, pending, timers, clicked, tally,
  default, boxes, before, recording, keys, live, first, hands,
  folder, unread, rows, cursor, marked, stash, settling, refresh, page, moves, shown, spare,
  aim, touched, asked, astray,
  perm, sub, made, devices, session, tab, leave, posts, notified, held, note, opened, chances,
  disturbed, leaked,
  mode, wrote, sigMode, from, skipped, sigText, text, convert, another, written, choices,
  swallowed, brought, overlaps

List     == INSTANCE MessageList
Pane     == INSTANCE ReadingPane
Pdf      == INSTANCE PdfPreview
Window   == INSTANCE Compose
Gesture  == INSTANCE Gestures
Key      == INSTANCE Keybindings
Row      == INSTANCE ListRows
Device   == INSTANCE PushDevice
Body     == INSTANCE ComposeBody

\* What each part asks of its constants.
ASSUME PartsAssumption ==
  /\ List!ListAssumption /\ Pane!PaneAssumption /\ Pdf!PdfAssumption
  /\ Window!ComposeAssumption /\ Gesture!GestureAssumption /\ Key!KeysAssumption
  /\ Row!RowsAssumption /\ Device!DeviceAssumption /\ Body!BodyAssumption

Parts == {"list", "pane", "pdf", "window", "gesture", "key", "rows", "device", "body"}

listPart    == <<mail, syncing, news, stream, events, list, spin, told, await, fetch, again,
                 click, limits, owed, broken>>
panePart    == <<pane, opens, entries, pos, hpath, cache, turns>>
pdfPart     == <<loads, preview, holder, vis, queue, jobs, tasks, rendered, canvas, excused,
                 twice, scrolls>>
windowPart  == <<form, opening, closing, sending, attach, saves, waiting, send, drafts, sent,
                 left, lost, crossed>>
gesturePart == <<render, press, swRow, axis, toward, swPane, pending, timers, clicked, tally>>
keyPart     == <<default, boxes, before, recording, keys, live, first, hands>>
rowsPart    == <<folder, unread, rows, cursor, marked, stash, settling, refresh, page, moves,
                 shown, spare, aim, touched, asked, astray>>
devicePart  == <<perm, sub, made, devices, session, tab, leave, posts, notified, held, note,
                 opened, chances, disturbed, leaked>>
bodyPart    == <<mode, wrote, sigMode, from, skipped, sigText, text, convert, another, written,
                 choices, swallowed, brought, overlaps>>

pageVars == <<which, listPart, panePart, pdfPart, windowPart, gesturePart, keyPart, rowsPart,
              devicePart, bodyPart>>

\* Where the other parts move: any one valid set of bindings, and one identity.
Usual == CHOOSE bs \in Key!Sets : TRUE
SomeAddress == CHOOSE f \in Addresses : TRUE

Init ==
  /\ which \in Parts
  /\ which # "list" => syncing = FALSE
  /\ which # "key" => live = Usual /\ default = Usual
  /\ which # "rows" => unread = {1}
  /\ which # "device" => perm = "granted"
  /\ which # "body" => mode = "plain" /\ from = SomeAddress /\ written = 0 /\ skipped = FALSE
  /\ List!Init /\ Pane!Init /\ Pdf!Init /\ Window!Init /\ Gesture!Init /\ Key!Init
  /\ Row!Init /\ Device!Init /\ Body!Init

Next ==
  /\ UNCHANGED which
  /\ \/ /\ which = "list" /\ List!Next
        /\ UNCHANGED <<panePart, pdfPart, windowPart, gesturePart,
                       keyPart, rowsPart, devicePart, bodyPart>>
     \/ /\ which = "pane" /\ Pane!Next
        /\ UNCHANGED <<listPart, pdfPart, windowPart, gesturePart,
                       keyPart, rowsPart, devicePart, bodyPart>>
     \/ /\ which = "pdf" /\ Pdf!Next
        /\ UNCHANGED <<listPart, panePart, windowPart, gesturePart,
                       keyPart, rowsPart, devicePart, bodyPart>>
     \/ /\ which = "window" /\ Window!Next
        /\ UNCHANGED <<listPart, panePart, pdfPart, gesturePart,
                       keyPart, rowsPart, devicePart, bodyPart>>
     \/ /\ which = "gesture" /\ Gesture!Next
        /\ UNCHANGED <<listPart, panePart, pdfPart, windowPart,
                       keyPart, rowsPart, devicePart, bodyPart>>
     \/ /\ which = "key" /\ Key!Next
        /\ UNCHANGED <<listPart, panePart, pdfPart, windowPart,
                       gesturePart, rowsPart, devicePart, bodyPart>>
     \/ /\ which = "rows" /\ Row!Next
        /\ UNCHANGED <<listPart, panePart, pdfPart, windowPart,
                       gesturePart, keyPart, devicePart, bodyPart>>
     \/ /\ which = "device" /\ Device!Next
        /\ UNCHANGED <<listPart, panePart, pdfPart, windowPart,
                       gesturePart, keyPart, rowsPart, bodyPart>>
     \/ /\ which = "body" /\ Body!Next
        /\ UNCHANGED <<listPart, panePart, pdfPart, windowPart,
                       gesturePart, keyPart, rowsPart, devicePart>>

\* The list's fairness is owed where the list is the part that moves.
ListStep(A) ==
  which = "list" /\ A /\ UNCHANGED <<which, panePart, pdfPart, windowPart, gesturePart, keyPart,
                                     rowsPart, devicePart, bodyPart>>
Fairness ==
  /\ WF_pageVars(ListStep(List!Announce)) /\ WF_pageVars(ListStep(List!SyncEnds))
  /\ WF_pageVars(ListStep(List!Receive))
  /\ WF_pageVars(ListStep(List!KeepAlive)) /\ WF_pageVars(ListStep(List!Reconnect))
  /\ WF_pageVars(ListStep(List!RenderFetch)) /\ WF_pageVars(ListStep(List!FetchArrives))
  /\ WF_pageVars(ListStep(List!RenderClick)) /\ WF_pageVars(ListStep(List!ClickArrives))

Spec == Init /\ [][Next]_pageVars /\ Fairness

-----------------------------------------------------------------------------
\* The types of the part that moves (the others rest in one of the states they start
\* from), and that the list's spinner is never on without a reason.
TypeOK ==
  /\ List!SpinnerHasAReason
  /\ which \in Parts
  /\ which = "list" => List!TypeOK
  /\ which = "pane" => Pane!TypeOK
  /\ which = "pdf" => Pdf!TypeOK
  /\ which = "window" => Window!TypeOK
  /\ which = "gesture" => Gesture!TypeOK
  /\ which = "key" => Key!TypeOK
  /\ which = "rows" => Row!TypeOK
  /\ which = "device" => Device!TypeOK
  /\ which = "body" => Body!TypeOK

\* The list on screen is never replaced by one rendered with less mail.
ListNeverGoesBack == List!ListNeverGoesBack

\* The browser ends up knowing whether a sync runs, whatever was dropped, unless its
\* stream is closed for good.
StatusArrives == List!StatusArrives

\* With the last page on screen, every conversation is there, and there once.
PagesAreExact == Row!PagesAreExact

\* A key moves the message the user selected, whatever was swapped in since.
MovesTheSelected == Row!MovesTheSelected

\* At the list's address nothing an earlier page left covers it.
ListIsNotCovered == Pane!ListIsNotCovered

\* A request that is still on its way behind the skeleton says what it waits for.
WaitIsExplained == Pane!WaitIsExplained

\* A page of the document in view has its drawing, or one is on its way; and an
\* error the preview shows is that of the preview on screen.
PreviewIsTrue == Pdf!VisibleIsServed /\ Pdf!ErrorIsItsOwn

\* A window makes one draft, and the message that went out leaves none.
SentLeavesNoDraft == Window!OneDraftEach /\ Window!SentLeavesNoDraft

\* No press of a finger or of the mouse is spent twice on a row, the mouse's double
\* click apart, which comes on top of the two clicks it is made of.
NoPressTwice == Gesture!NoPressTwice

\* A browser that signed out is told of no mail.
SignedOutIsSilent == Device!SignedOutIsSilent

\* No format, identity or signature the user chooses loses a word that was written;
\* at rest the text goes out under the format it is in; and the signature in place is
\* that of the identity it is from.
TextIsAsChosen == Body!WordsAreKept /\ Body!FormatsAgree /\ Body!SignatureIsOfFrom

\* Every binding the settings page would post runs its action when typed, unless Shift goes
\* down between its keys.
EveryBindingIsReached == Key!EveryBindingIsReached
=============================================================================
