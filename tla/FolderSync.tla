----------------------------- MODULE FolderSync -----------------------------
(***************************************************************************)
(* One folder: the mailbox on the server, the messages rows kept of it, the  *)
(* worker's passes over it, and the read flag going both ways.              *)
(*                                                                          *)
(* Every exchange with the server is one step, so mail arrives, is deleted   *)
(* and is flagged by other clients in the middle of a pass.  The queue is    *)
(* served where the pass yields.  Rules, labels, stars and the structure of  *)
(* messages are left out.  A message is the number of its arrival; its UID   *)
(* is the same until the mailbox is renumbered.                             *)
(***************************************************************************)
EXTENDS Integers, FiniteSets, FiniteSetsExt

CONSTANTS
  Window,      \* MaxMessagesPerSync
  MaxMail,     \* bound: messages that ever arrive
  MaxEdits,    \* bound: deletions and flag changes by other clients
  MaxToggles,  \* bound: read / unread clicks
  MaxFaults    \* bound: restarts, lost connections, abandoned commands

ASSUME WindowAssumption == Window \in Nat \ {0}
ASSUME BoundsAssumption == MaxMail \in Nat \ {0} /\ {MaxEdits, MaxToggles, MaxFaults} \subseteq Nat

VARIABLES
  box,      \* messages on the server: UID, message, \Seen, the MODSEQ of its last change
  server,   \* UIDVALIDITY, UIDNEXT, HIGHESTMODSEQ, CONDSTORE
  mail,     \* messages that arrived so far
  rows,     \* messages rows: UID, message, is_read, seen_dirty
  folder,   \* folders row: uidvalidity, highestmodseq
  count,    \* sweep.counts: the expunge baseline
  deepOk,   \* sweep.deep: the last deep pass is recent
  pass,     \* the pass in progress
  reads,    \* SetRead goroutines: queued, landed, or abandoned by their caller
  want,     \* history: what the user last chose ({chosen}), of messages nothing else interfered with
  missed,   \* history: messages of which a flag change has been passed over
  used      \* edits, toggles and faults so far

history == <<want, missed>>
memory == <<count, deepOk, pass>>
vars == <<box, server, mail, rows, folder, memory, reads, history, used>>

\* "connect": no connection yet; "idle": between the cycles of one.
NoPass(pc) == [pc |-> pc, n |-> 0, mod |-> 0, first |-> FALSE, deep |-> FALSE, start |-> 0,
               fetched |-> 0, owed |-> {}, gone |-> {}, left |-> {}]

Init ==
  /\ box \in {{}, {[uid |-> 1, m |-> 1, seen |-> FALSE, mod |-> 1]}}
  /\ mail = Cardinality(box)
  /\ server \in [v : {1}, next : {mail + 1}, mod : {1}, cond : BOOLEAN]
  /\ rows = {} /\ folder = [v |-> 0, mod |-> 0]
  /\ count = 0 /\ deepOk = FALSE /\ pass = NoPass("connect")
  /\ reads = {} /\ want = [m \in 1..MaxMail |-> {}] /\ missed = {}
  /\ used = [edits |-> 0, toggles |-> 0, faults |-> 0]

Use(what, max) == used[what] < max /\ used' = [used EXCEPT ![what] = @ + 1]
Uids(S) == {x.uid : x \in S}
At(pc) == pass.pc = pc
Goto(pc) == pass' = [pass EXCEPT !.pc = pc]

-----------------------------------------------------------------------------
(* The server and its other clients *)

Arrive ==
  /\ mail < MaxMail /\ mail' = mail + 1
  /\ box' = box \cup {[uid |-> server.next, m |-> mail', seen |-> FALSE, mod |-> server.mod + 1]}
  /\ server' = [server EXCEPT !.next = @ + 1, !.mod = @ + 1]
  /\ UNCHANGED <<rows, folder, memory, reads, history, used>>

Expunge == \E c \in box :
  /\ Use("edits", MaxEdits)
  /\ box' = box \ {c}
  /\ UNCHANGED <<server, mail, rows, folder, memory, reads, history>>

\* STORE +/-FLAGS (\Seen) of UID u.
Store(u, seen) == LET hit == {c \in box : c.uid = u /\ c.seen # seen} IN
  /\ box' = (box \ hit) \cup {[c EXCEPT !.seen = seen, !.mod = server.mod + 1] : c \in hit}
  /\ server' = [server EXCEPT !.mod = IF hit = {} THEN @ ELSE @ + 1]

FlagElsewhere == \E c \in box :
  /\ Use("edits", MaxEdits)
  /\ Store(c.uid, ~c.seen)
  /\ want' = [want EXCEPT ![c.m] = {}]
  /\ UNCHANGED <<mail, rows, folder, memory, reads, missed>>

-----------------------------------------------------------------------------
(* The user marks messages read and unread *)

\* SetRead in the store, then a goroutine that brings it to the server.
MarkRead == \E r \in rows :
  /\ Use("toggles", MaxToggles)
  /\ rows' = (rows \ {r}) \cup {[r EXCEPT !.read = ~@, !.dirty = TRUE]}
  /\ reads' = reads \cup {[uid |-> r.uid, v |-> folder.v, read |-> ~r.read, at |-> "queued", n |-> used.toggles]}
  /\ want' = [want EXCEPT ![r.m] = IF folder.v # server.v \/ \E c \in reads : c.uid = r.uid THEN {} ELSE {~r.read}]
  /\ UNCHANGED <<box, server, mail, folder, memory, missed>>

ClearSeenDirty(v, u, read) ==
  {[r EXCEPT !.dirty = @ /\ ~(folder.v = v /\ r.uid = u /\ r.read = read)] : r \in rows}

\* The worker runs a queued command; its caller may have given up on it.
RunRead == \E c \in reads :
  /\ pass.pc \in {"idle", "yield", "heal", "reap"} /\ c.at # "landed"
  /\ Store(c.uid, c.read)
  /\ reads' = (reads \ {c}) \cup (IF c.at = "queued" THEN {[c EXCEPT !.at = "landed"]} ELSE {})
  /\ UNCHANGED <<mail, rows, folder, memory, history, used>>

SettleRead == \E c \in reads :
  /\ c.at = "landed" /\ reads' = reads \ {c}
  /\ rows' = ClearSeenDirty(c.v, c.uid, c.read)
  /\ UNCHANGED <<box, server, mail, folder, memory, history, used>>

GiveUp == \E c \in reads :
  /\ c.at = "queued" /\ Use("faults", MaxFaults)
  /\ reads' = (reads \ {c}) \cup {[c EXCEPT !.at = "abandoned"]}
  /\ UNCHANGED <<box, server, mail, rows, folder, memory, history>>

-----------------------------------------------------------------------------
(* A pass *)

DirtySeen == {r \in rows : r.dirty}

\* A cycle drains the queue and pushes the flags still owed; the first pass of a
\* connection does neither.
Begin ==
  /\ At("idle") /\ \A c \in reads : c.at = "landed"
  /\ pass' = [NoPass("push") EXCEPT !.owed = DirtySeen]
  /\ UNCHANGED <<box, server, mail, rows, folder, count, deepOk, reads, history, used>>

PushSeen == LET r == CHOOSE x \in pass.owed : \A y \in pass.owed : x.uid <= y.uid IN
  /\ At("push") /\ pass.owed # {}
  /\ Store(r.uid, r.read)
  /\ Goto("pushed")
  /\ UNCHANGED <<mail, rows, folder, count, deepOk, reads, history, used>>

PushedSeen == LET r == CHOOSE x \in pass.owed : \A y \in pass.owed : x.uid <= y.uid IN
  /\ At("pushed")
  /\ rows' = ClearSeenDirty(folder.v, r.uid, r.read)
  /\ pass' = [pass EXCEPT !.pc = "push", !.owed = @ \ {r}]
  /\ UNCHANGED <<box, server, mail, folder, count, deepOk, reads, history, used>>

\* Faulty: the rows of the old numbering stay.
SyncUIDValidity_kept(reset) == rows

SyncUIDValidity(reset) == IF reset THEN {} ELSE rows

\* The UID of the Window-th newest message.
WindowStart == IF box = {} THEN server.next
               ELSE Min({c.uid : c \in {x \in box : Cardinality({y \in box : y.uid > x.uid}) < Window}})

\* Faulty: only a first pass is deep.
DeepDue_never == FALSE

DeepDue == ~deepOk

\* SELECT: the snapshot the pass works with.
Select ==
  /\ (At("push") /\ pass.owed = {}) \/ At("connect")
  /\ LET reset == folder.v # 0 /\ folder.v # server.v
         kept == SyncUIDValidity(reset)
         first == kept = {} \/ reset IN
       /\ rows' = kept
       /\ folder' = [v |-> server.v, mod |-> IF reset THEN 0 ELSE folder.mod]
       /\ count' = IF reset THEN 0 ELSE count
       /\ pass' = [NoPass("fetch") EXCEPT !.n = Cardinality(box), !.mod = server.mod,
                    !.first = first, !.deep = first \/ DeepDue, !.left = Uids(kept) \ Uids(box),
                    !.start = IF first THEN WindowStart ELSE Max(Uids(kept)) + 1]
  /\ UNCHANGED <<box, server, mail, deepOk, reads, history, used>>

\* Faulty: the flags of a message fetched again replace a choice not pushed yet.
UpsertMessage_flags(r, c) == [r EXCEPT !.read = c.seen]

UpsertMessage(r, c) == [r EXCEPT !.read = IF r.dirty THEN r.read ELSE c.seen]

\* The rows after the messages in S were fetched.
FetchSet(S) ==
  {r \in rows : r.uid \notin Uids(S)}
  \cup {UpsertMessage(r, CHOOSE c \in S : c.uid = r.uid) : r \in {x \in rows : x.uid \in Uids(S)}}
  \cup {[uid |-> c.uid, m |-> c.m, read |-> c.seen, dirty |-> FALSE] : c \in {x \in S : x.uid \notin Uids(rows)}}

\* start:*, which always holds the newest message.
Fetch ==
  /\ At("fetch")
  /\ LET S == {c \in box : c.uid >= pass.start \/ \A y \in box : y.uid <= c.uid} IN
       /\ rows' = FetchSet(S)
       /\ pass' = [pass EXCEPT !.pc = "yield", !.start = 0, !.fetched = Cardinality(Uids(S) \ Uids(rows))]
  /\ UNCHANGED <<box, server, mail, folder, count, deepOk, reads, history, used>>

ExpungesLikely(arrivals, now) == count # 0 /\ count + arrivals > now

AfterFlags == IF pass.deep /\ ~pass.first THEN "backfill"
              ELSE IF pass.deep \/ ExpungesLikely(pass.fetched, pass.n) THEN "reconcile" ELSE "finish"

\* SetReadFromServer for what changed since the stored MODSEQ.
FlagsFromServer ==
  IF ~server.cond \/ pass.first \/ folder.mod = 0 THEN rows
  ELSE LET changed == {c \in box : c.mod > folder.mod} IN
       {r \in rows : r.uid \notin Uids(changed)}
       \cup {UpsertMessage(r, CHOOSE c \in changed : c.uid = r.uid) : r \in {x \in rows : x.uid \in Uids(changed)}}

FetchFlagChanges ==
  /\ At("yield")
  /\ rows' = FlagsFromServer
  /\ missed' = missed \cup {r.m : r \in {x \in rows : x.dirty}}
  /\ Goto(AfterFlags)
  /\ UNCHANGED <<box, server, mail, folder, count, deepOk, reads, want, used>>

\* The Window newest of the first n messages.
BackfillWindow == LET seq == {c \in box : Cardinality({y \in box : y.uid <= c.uid}) <= pass.n} IN
  /\ At("backfill")
  /\ rows' = FetchSet({c \in seq : Cardinality({y \in seq : y.uid > c.uid}) < Window /\ c.uid \notin Uids(rows)})
  /\ Goto("heal")
  /\ UNCHANGED <<box, server, mail, folder, count, deepOk, reads, history, used>>

Reconcile ==
  /\ At("heal") \/ At("reconcile")
  /\ pass' = [pass EXCEPT !.pc = "reap", !.gone = Uids(rows) \ Uids(box)]
  /\ UNCHANGED <<box, server, mail, rows, folder, count, deepOk, reads, history, used>>

\* The baseline and the MODSEQ are those of the opening SELECT.
Finish ==
  /\ At("reap") \/ At("finish")
  /\ rows' = {r \in rows : r.uid \notin pass.gone}
  /\ count' = pass.n
  /\ folder' = [folder EXCEPT !.mod = IF server.cond THEN pass.mod ELSE @]
  /\ deepOk' = (deepOk \/ pass.deep)
  /\ pass' = NoPass("idle")
  /\ UNCHANGED <<box, server, mail, reads, history, used>>

\* folderDeepPassInterval is over.
DeepPassDue ==
  /\ deepOk /\ deepOk' = FALSE
  /\ UNCHANGED <<box, server, mail, rows, folder, count, pass, reads, history, used>>

-----------------------------------------------------------------------------
(* Failures *)

\* A first pass that does not get to store a MODSEQ.
CutShort == missed' = missed \cup (IF folder.mod = 0 THEN {r.m : r \in rows} ELSE {})

\* The pass ends, and commands already taken from the queue fail.
ConnLost == \E lost \in SUBSET {c \in reads : c.at # "landed"} :
  /\ ~At("connect") /\ Use("faults", MaxFaults)
  /\ pass' = NoPass("connect") /\ reads' = reads \ lost
  /\ CutShort
  /\ UNCHANGED <<box, server, mail, rows, folder, count, deepOk, want>>

Restart ==
  /\ Use("faults", MaxFaults)
  /\ pass' = NoPass("connect") /\ count' = 0 /\ deepOk' = FALSE /\ reads' = {}
  /\ CutShort
  /\ UNCHANGED <<box, server, mail, rows, folder, want>>

\* The mailbox is made anew while the account is disconnected: new UIDVALIDITY, UIDs
\* from 1 on.
Renumber == LET rank(c) == Cardinality({y \in box : y.uid <= c.uid}) IN
  /\ server.v = 1 /\ Use("faults", MaxFaults)
  /\ box' = {[c EXCEPT !.uid = rank(c), !.mod = 1] : c \in box}
  /\ server' = [server EXCEPT !.v = 2, !.next = Cardinality(box) + 1, !.mod = 1]
  /\ want' = [m \in 1..MaxMail |-> {}]
  /\ pass' = NoPass("connect")
  /\ UNCHANGED <<mail, rows, folder, count, deepOk, reads, missed>>

-----------------------------------------------------------------------------

Elsewhere == Arrive \/ Expunge \/ FlagElsewhere
Worker == RunRead \/ Begin \/ PushSeen \/ PushedSeen \/ Select \/ Fetch \/ FetchFlagChanges \/ BackfillWindow
          \/ Reconcile \/ Finish
Faults == GiveUp \/ ConnLost \/ Restart \/ Renumber

Next == Elsewhere \/ MarkRead \/ SettleRead \/ Worker \/ DeepPassDue \/ Faults

Spec == Init /\ [][Next]_vars

\* The worker runs, goroutines return and the interval runs out.
FairSpec == Spec /\ WF_vars(Worker) /\ WF_vars(SettleRead) /\ WF_vars(DeepPassDue)

-----------------------------------------------------------------------------

TypeOK ==
  /\ \A c \in box : c.uid \in 1..(server.next - 1) /\ c.m \in 1..mail /\ c.mod \in 1..server.mod
  /\ folder.v \in {0, 1, 2} /\ folder.v <= server.v
  /\ \A r, s \in rows : r.uid = s.uid => r = s
  /\ count \in 0..MaxMail /\ deepOk \in BOOLEAN /\ missed \subseteq 1..MaxMail
  /\ reads \subseteq [uid : 1..MaxMail, v : {1, 2}, read : BOOLEAN, at : {"queued", "landed", "abandoned"},
                      n : 0..MaxToggles]
  /\ want \in [1..MaxMail -> SUBSET BOOLEAN]

\* A row never shows one message under the UID of another.
RowsAreTheirs == folder.v = server.v =>
  \A r \in rows : \A c \in box : r.uid = c.uid <=> r.m = c.m

\* A read or unread the user chose stays what the row says, and a row that owes no push
\* has brought it to the server: through passes, failed pushes, retries and restarts.
\* Left out are messages that another client flagged since, that were toggled again while
\* the last push was under way, and mailboxes that were renumbered since.
IntentSurvives == \A r \in rows : \A chosen \in want[r.m] :
  /\ r.read = chosen
  /\ r.dirty \/ \A c \in box : c.m = r.m => c.seen = chosen

\* What the store holds once passes have caught up: the newest messages, none that the
\* server no longer has and, with CONDSTORE, the server's flags.  Passed over are the
\* flags of a message while a choice of the user's is owed, and all those that change
\* before a first pass that is cut short would have stored its MODSEQ.
Newest == {c \in box : Cardinality({y \in box : y.uid > c.uid}) < Window}
Mirrored ==
  /\ folder.v = server.v
  /\ Uids(Newest) \subseteq Uids(rows) /\ Uids(rows) \subseteq Uids(box)
  /\ server.cond => \A r \in rows : \A c \in box : c.uid = r.uid /\ r.m \notin missed => c.seen = r.read

\* Once clients and faults are done, every read flag that was owed gets pushed and the
\* store comes to mirror the mailbox.
MirrorSettles == <>[](Mirrored /\ DirtySeen = {})

\* A deletion is noticed by the first pass whose SELECT comes after it.
\* The code breaks this one (README, Divergences kept as definitions).
DeletionsNoticed == [][(At("reap") \/ At("finish")) /\ pass'.pc = "idle" =>
  pass.left \cap Uids(rows') = {}]_vars

=============================================================================
