----------------------------- MODULE PdfPreview -----------------------------
(***************************************************************************)
(* The preview of a PDF attachment (startPDFPreview, stopPDFPreview and     *)
(* previewAttachment of web/static/js/app.js). Pages are placeholders until *)
(* they come near the viewport; two at a time are then drawn on canvases,   *)
(* and beyond MaxCanvases finished ones the oldest out of view is evicted.  *)
(* Closing and opening again starts a new preview while the one before may  *)
(* still be loading; what a closed preview draws reaches nothing.           *)
(***************************************************************************)
EXTENDS Naturals, SequencesExt

CONSTANTS
  Pages,        \* the pages of the document: numbers
  MaxCanvases,  \* MAX_CANVASES
  MaxPreviews,  \* bound: times the preview is opened
  MaxScrolls    \* bound: times a page comes into view or leaves it

PdfAssumption ==
  /\ Pages \subseteq Nat \ {0} /\ MaxCanvases \in Nat \ {0}
  /\ MaxPreviews \in Nat /\ MaxScrolls \in Nat

VARIABLES
  loads,     \* the previews opened so far: [at, cancelled]
  preview,   \* holder._pdfPreview: the number of the current one, 0 for none
  holder,    \* what the panel shows
  vis,       \* pages in view
  queue,     \* state.queue, and with it state.queued
  jobs,      \* the two drawings under way: [page, at, cancelled]
  tasks,     \* state.renderTasks: the job whose task a page's entry holds, or 0
  rendered,  \* state.rendered, in its order
  canvas,    \* pages whose placeholder a canvas replaced
  excused,   \* history: pages in view that failed, or were evicted from a crowd
  twice,     \* history: pages two jobs had at once
  scrolls    \* what is left of MaxScrolls

drawVars == <<vis, queue, jobs, tasks, rendered, canvas, excused, twice>>
pdfVars  == <<loads, preview, holder, drawVars, scrolls>>

Workers == 1..2
Idle == [page |-> 0, at |-> "idle", cancelled |-> FALSE]

Init ==
  /\ loads = <<>> /\ preview = 0 /\ holder = "closed"
  /\ vis = {} /\ queue = <<>> /\ jobs = [w \in Workers |-> Idle]
  /\ tasks = [p \in Pages |-> 0] /\ rendered = <<>> /\ canvas = {} /\ excused = {} /\ twice = {}
  /\ scrolls = MaxScrolls

NothingDrawn ==
  /\ vis' = {} /\ queue' = <<>> /\ jobs' = [w \in Workers |-> Idle]
  /\ tasks' = [p \in Pages |-> 0] /\ rendered' = <<>> /\ canvas' = {} /\ excused' = {} /\ twice' = {}

-----------------------------------------------------------------------------
(* Opening, loading and closing *)

Open ==
  /\ preview = 0 /\ Len(loads) < MaxPreviews
  /\ loads' = Append(loads, [at |-> "loading", cancelled |-> FALSE])
  /\ preview' = Len(loads) + 1 /\ holder' = "busy"
  /\ UNCHANGED <<drawVars, scrolls>>

\* stopPDFPreview: the button again, or htmx removes the message.
Close ==
  /\ preview # 0
  /\ loads' = [loads EXCEPT ![preview].cancelled = TRUE]
  /\ preview' = 0 /\ holder' = "closed"
  /\ NothingDrawn
  /\ UNCHANGED scrolls

\* The document is there: all its placeholders, if the preview still is.
Loaded(n) ==
  /\ loads[n].at = "loading"
  /\ loads' = [loads EXCEPT ![n].at = "loaded"]
  /\ holder' = IF loads[n].cancelled THEN holder ELSE "pages"
  /\ UNCHANGED <<preview, drawVars, scrolls>>

\* Faulty: a late rejection is taken for the current preview's.
Obsolete_never(n) == FALSE

\* Whose rejection says nothing about what the panel shows.
Obsolete(n) == preview # n \/ loads[n].cancelled

\* The download or the parsing fails; closing destroys it, which fails too.
LoadFails(n) ==
  /\ loads[n].at = "loading"
  /\ loads' = [loads EXCEPT ![n].at = "failed"]
  /\ holder' = IF Obsolete(n) THEN holder ELSE "error"
  /\ UNCHANGED <<preview, drawVars, scrolls>>

-----------------------------------------------------------------------------
(* Drawing *)

\* Faulty: the oldest goes, in view or not.
Victim_oldest(ren) == 1

\* The place of the oldest out of view, else of the oldest.
Victim(ren) ==
  LET away == SelectInSeq(ren, LAMBDA p : p \notin vis')
  IN IF away = 0 THEN 1 ELSE away

\* How many of S come before x.
Turn(S, x) == Cardinality({y \in S : y < x})

\* evict and pump, after every callback: the rendered pages ren, the queue q and
\* the jobs js are brought within their limits.
Settle(ren, q, js, cvs, exc) ==
  LET over == Len(ren) > MaxCanvases
      out  == IF over THEN {ren[Victim(ren)]} ELSE {}
      ren2 == IF over THEN RemoveAt(ren, Victim(ren)) ELSE ren
      want == {i \in DOMAIN q : q[i] \in vis' /\ ~Contains(ren2, q[i])}
      free == {w \in Workers : js[w].at = "idle"}
      For(w) == {i \in want : w \in free /\ Turn(want, i) = Turn(free, w)}
      cut  == IF Cardinality(want) < Cardinality(free) THEN Len(q)
              ELSE Max({0} \cup UNION {For(w) : w \in Workers})
  IN /\ rendered' = ren2
     /\ queue' = SubSeq(q, cut + 1, Len(q))
     /\ jobs' = [w \in Workers |->
          IF For(w) = {} THEN js[w]
          ELSE [page |-> q[CHOOSE i \in For(w) : TRUE], at |-> "getting", cancelled |-> FALSE]]
     /\ twice' = twice \cup {p \in Pages : \A w \in Workers : jobs'[w].page = p}
     /\ canvas' = cvs \ out
     /\ excused' = exc \cup (IF Cardinality(vis') > MaxCanvases THEN out \cap vis' ELSE {})

Scroll == holder = "pages" /\ scrolls > 0 /\ scrolls' = scrolls - 1

\* A page comes into view: it waits its turn unless it is finished or waiting.
Enter(p) ==
  /\ Scroll /\ p \notin vis
  /\ vis' = vis \cup {p}
  /\ Settle(rendered, IF Contains(rendered, p) \/ Contains(queue, p) THEN queue ELSE Append(queue, p),
            jobs, canvas, excused)
  /\ UNCHANGED <<loads, preview, holder, tasks>>

\* A page leaves: the task it has an entry for is cancelled.
Leave(p) ==
  /\ Scroll /\ p \in vis
  /\ vis' = vis \ {p}
  /\ Settle(rendered, queue,
            [w \in Workers |-> [jobs[w] EXCEPT !.cancelled = @ \/ tasks[p] = w]],
            canvas, excused \ {p})
  /\ UNCHANGED <<loads, preview, holder, tasks>>

Finished(w) == [jobs EXCEPT ![w] = Idle]

\* getPage has answered: the page has gone out of view, or a canvas takes the
\* placeholder's place and the drawing begins.
Got(w) ==
  /\ jobs[w].at = "getting"
  /\ vis' = vis
  /\ IF jobs[w].page \in vis
       THEN /\ jobs' = [jobs EXCEPT ![w].at = "drawing"]
            /\ canvas' = canvas \cup {jobs[w].page}
            /\ tasks' = [tasks EXCEPT ![jobs[w].page] = w]
            /\ UNCHANGED <<queue, rendered, excused, twice>>
       ELSE Settle(rendered, queue, Finished(w), canvas, excused) /\ UNCHANGED tasks
  /\ UNCHANGED <<loads, preview, holder, scrolls>>

\* The page is finished, and its entry deleted, whichever job's it was.
Drawn(w) ==
  /\ jobs[w].at = "drawing" /\ ~jobs[w].cancelled
  /\ vis' = vis
  /\ tasks' = [tasks EXCEPT ![jobs[w].page] = 0]
  /\ Settle(IF Contains(rendered, jobs[w].page) THEN rendered ELSE Append(rendered, jobs[w].page),
            queue, Finished(w), canvas, excused)
  /\ UNCHANGED <<loads, preview, holder, scrolls>>

\* Cancelled, or the page is broken: the canvas stays where it is.
DrawFails(w) ==
  /\ jobs[w].at # "idle"
  /\ jobs[w].at = "getting" => jobs[w].page \in vis
  /\ vis' = vis
  /\ tasks' = [tasks EXCEPT ![jobs[w].page] = 0]
  /\ Settle(rendered, queue, Finished(w), canvas,
            IF jobs[w].cancelled THEN excused ELSE excused \cup {jobs[w].page})
  /\ UNCHANGED <<loads, preview, holder, scrolls>>

Next ==
  \/ Open \/ Close
  \/ \E n \in DOMAIN loads : Loaded(n) \/ LoadFails(n)
  \/ \E p \in Pages : Enter(p) \/ Leave(p)
  \/ \E w \in Workers : Got(w) \/ Drawn(w) \/ DrawFails(w)

Spec == Init /\ [][Next]_pdfVars

-----------------------------------------------------------------------------
TypeOK ==
  /\ loads \in Seq([at : {"loading", "loaded", "failed"}, cancelled : BOOLEAN])
  /\ preview \in 0..Len(loads) /\ holder \in {"closed", "busy", "pages", "error"}
  /\ vis \subseteq Pages /\ canvas \subseteq Pages /\ excused \subseteq Pages /\ twice \subseteq Pages
  /\ queue \in Seq(Pages) /\ IsInjective(queue)
  /\ rendered \in Seq(Pages) /\ IsInjective(rendered) /\ Len(rendered) <= MaxCanvases
  /\ jobs \in [Workers -> [page : Pages \cup {0}, at : {"idle", "getting", "drawing"}, cancelled : BOOLEAN]]
  /\ tasks \in [Pages -> 0..2]

\* A page in view is finished, being drawn or waiting for its turn, unless its
\* drawing failed or more pages are in view than canvases are kept. (A page that
\* scrolled out and in while it was drawn has two jobs, and can be evicted between
\* their ends: it then counts as finished with nothing to see.)
VisibleIsServed ==
  \A p \in vis \ (excused \cup twice) :
    p \in canvas \/ Contains(queue, p) \/ \E w \in Workers : jobs[w].page = p

\* The error shown is that of the preview shown.
ErrorIsItsOwn == holder = "error" => preview # 0 /\ loads[preview].at = "failed"

\* "old canvases are evicted" (app.js, startPDFPreview): there are at most the
\* finished ones and those being drawn. The code breaks this one with four pages
\* (README, Divergences kept as definitions).
CanvasesAreBounded == Cardinality(canvas) <= MaxCanvases + Cardinality(Workers)
=============================================================================
