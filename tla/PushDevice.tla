----------------------------- MODULE PushDevice -----------------------------
(***************************************************************************)
(* One browser's push subscription: the switch of Settings -> Notifications *)
(* and the sign-out (web/static/js/app.js), the service worker that shows   *)
(* what is pushed (web/static/js/sw.js), and the server that keeps the row  *)
(* of the device and posts to it (server/push.go, mail/notify.go). The tabs *)
(* of the browser share its one subscription and its session; each step of  *)
(* a tab ends where the script awaits an answer.                            *)
(***************************************************************************)
EXTENDS Integers, FiniteSets

CONSTANTS
  Tabs,         \* the tabs of the browser
  MaxEndpoints, \* bound: subscriptions made
  MaxPushes,    \* bound: messages that are notified
  MaxClicks,    \* bound: presses of the switch and of Sign out
  MaxFailures   \* bound: requests lost, subscriptions refused or expired

DeviceAssumption ==
  /\ Tabs # {}
  /\ {MaxEndpoints, MaxPushes, MaxClicks, MaxFailures} \subseteq Nat

VARIABLES
  perm,      \* Notification.permission
  sub,       \* getSubscription: the live endpoint, 0 for none
  made,      \* endpoints the push service gave out
  devices,   \* push_subs: the endpoints of this browser the server holds
  session,   \* whether the browser is signed in
  tab,       \* of a tab: [ui, job, at, ep]; ui "gone" is the login page
  leave,     \* the sign-out under way: [at, by, ep]
  posts,     \* notifyPush: [msg, ep] still to be posted
  notified,  \* messages notified
  held,      \* what the push service keeps for sub, 0 for nothing
  note,      \* the notification on screen, 0 for none
  opened,    \* the message a window was sent to, 0 for none
  chances,   \* what is left of the bounds: [clicks, failures]
  disturbed, \* history: the last sign-out was not left to run its course
  leaked     \* history: messages shown on a browser that had signed out

deviceVars == <<perm, sub, made, devices, session, tab, leave, posts, notified, held, note,
                opened, chances, disturbed, leaked>>

Idle(ui) == [ui |-> ui, job |-> "idle", at |-> "none", ep |-> 0]
NoLeave  == CHOOSE l \in [at : {"none"}, by : Tabs, ep : {0}] : TRUE

Use(what) == chances[what] > 0 /\ chances' = [chances EXCEPT ![what] = @ - 1]

Init ==
  /\ perm \in {"default", "granted"}
  /\ sub = 0 /\ made = 0 /\ devices = {} /\ session = TRUE
  /\ tab = [t \in Tabs |-> Idle("checking")] /\ leave = NoLeave
  /\ posts = {} /\ notified = 0 /\ held = 0 /\ note = 0 /\ opened = 0
  /\ chances = [clicks |-> MaxClicks, failures |-> MaxFailures]
  /\ disturbed = FALSE /\ leaked = {}

mailVars == <<posts, notified, held, note, opened, leaked>>

\* sub.unsubscribe(): the push service forgets the endpoint and what it kept for it.
Unsubscribe(ep) ==
  /\ sub'  = IF sub = ep THEN 0 ELSE sub
  /\ held' = IF sub = ep THEN 0 ELSE held

-----------------------------------------------------------------------------
(* The switch (pushUI) *)

\* refresh(): what the browser holds, never what the server does.
Shown == IF perm = "denied" THEN "denied" ELSE IF sub # 0 THEN "on" ELSE "off"

Look(t) ==
  /\ tab[t].ui = "checking"
  /\ tab' = [tab EXCEPT ![t].ui = Shown]
  /\ UNCHANGED <<perm, sub, made, devices, session, leave, mailVars, chances, disturbed>>

\* enable(): asked first, inside the press; a refusal ends it.
Enable(t) ==
  /\ tab[t].ui = "off" /\ tab[t].job = "idle" /\ Use("clicks")
  /\ perm' \in IF perm = "default" THEN {"default", "granted", "denied"} ELSE {perm}
  /\ \/ perm' = "granted" /\ tab' = [tab EXCEPT ![t].job = "enable", ![t].at = "allowed"]
     \/ perm' = "denied"  /\ tab' = [tab EXCEPT ![t] = Idle("denied")]
     \/ perm' = "default" /\ tab' = [tab EXCEPT ![t] = Idle("off")]
  /\ UNCHANGED <<sub, made, devices, session, leave, mailVars, disturbed>>

\* pushManager.subscribe: the subscription there is, else a new one.
Subscribe(t) ==
  /\ tab[t].job = "enable" /\ tab[t].at = "allowed"
  /\ \/ sub # 0 /\ UNCHANGED <<sub, made>>
     \/ sub = 0 /\ made < MaxEndpoints /\ made' = made + 1 /\ sub' = made'
  /\ tab' = [tab EXCEPT ![t].at = "posted", ![t].ep = sub']
  /\ disturbed' = (disturbed \/ leave.at # "none")
  /\ UNCHANGED <<perm, devices, session, leave, mailVars, chances>>

\* handlePushSubscribe, behind the session.
StoreSub(t) ==
  /\ tab[t].job = "enable" /\ tab[t].at = "posted"
  /\ tab' = [tab EXCEPT ![t].at = IF session THEN "stored" ELSE "refused"]
  /\ devices' = IF session THEN devices \cup {tab[t].ep} ELSE devices
  /\ UNCHANGED <<perm, sub, made, session, leave, mailVars, chances, disturbed>>

Enabled(t) ==
  /\ tab[t].job = "enable" /\ tab[t].at = "stored"
  /\ tab' = [tab EXCEPT ![t] = Idle("on")]
  /\ UNCHANGED <<perm, sub, made, devices, session, leave, mailVars, chances, disturbed>>

\* Refused, or without an answer: back to what the browser holds, which is "on"
\* once there is a subscription, whether or not the server has its row.
EnableFails(t) ==
  /\ tab[t].job = "enable"
  /\ \/ tab[t].at = "refused" /\ UNCHANGED chances
     \/ tab[t].at # "refused" /\ Use("failures")
  /\ tab' = [tab EXCEPT ![t] = Idle(Shown)]
  /\ UNCHANGED <<perm, sub, made, devices, session, leave, mailVars, disturbed>>

\* disable(): of the subscription there is now; without one there is nothing to do.
Disable(t) ==
  /\ tab[t].ui = "on" /\ tab[t].job = "idle" /\ Use("clicks")
  /\ tab' = [tab EXCEPT ![t] =
       IF sub = 0 THEN Idle("off")
       ELSE [@ EXCEPT !.job = "disable", !.at = "posted", !.ep = sub]]
  /\ UNCHANGED <<perm, sub, made, devices, session, leave, mailVars, disturbed>>

\* handlePushUnsubscribe, behind the session.
StoreDrop(t) ==
  /\ tab[t].job = "disable" /\ tab[t].at = "posted"
  /\ tab' = [tab EXCEPT ![t].at = IF session THEN "stored" ELSE "refused"]
  /\ devices' = IF session THEN devices \ {tab[t].ep} ELSE devices
  /\ UNCHANGED <<perm, sub, made, session, leave, mailVars, chances, disturbed>>

\* The server first, the browser's own subscription after its answer.
Disabled(t) ==
  /\ tab[t].job = "disable" /\ tab[t].at = "stored"
  /\ Unsubscribe(tab[t].ep)
  /\ tab' = [tab EXCEPT ![t] = Idle("off")]
  /\ UNCHANGED <<perm, made, devices, session, leave, posts, notified, note, opened, leaked,
                 chances, disturbed>>

DisableFails(t) ==
  /\ tab[t].job = "disable"
  /\ \/ tab[t].at = "refused" /\ UNCHANGED chances
     \/ tab[t].at # "refused" /\ Use("failures")
  /\ tab' = [tab EXCEPT ![t] = Idle("on")]
  /\ UNCHANGED <<perm, sub, made, devices, session, leave, mailVars, disturbed>>

\* The Remove button of the device list: the row goes, the subscription stays.
RemoveDevice(ep) ==
  /\ session /\ ep \in devices /\ Use("clicks")
  /\ devices' = devices \ {ep}
  /\ UNCHANGED <<perm, sub, made, session, tab, leave, mailVars, disturbed>>

-----------------------------------------------------------------------------
(* Signing out *)

\* The submit is held back, once for a form.
PressSignOut(t) ==
  /\ tab[t].ui # "gone" /\ leave.at = "none" /\ Use("clicks")
  /\ leave' = [at |-> "asked", by |-> t, ep |-> 0]
  /\ UNCHANGED <<perm, sub, made, devices, session, tab, mailVars, disturbed>>

\* Faulty: the tab goes by the state of its switch.
LeftBehind_asShown(t) == IF tab[t].ui = "on" THEN sub ELSE 0

\* getSubscription: the browser's, whichever tab made it and whatever this one shows.
LeftBehind(t) == sub

LeaveLooks ==
  /\ leave.at = "asked"
  /\ LET ep == LeftBehind(leave.by)
     IN leave' = [leave EXCEPT !.ep = ep, !.at = IF ep = 0 THEN "submit" ELSE "posted"]
  /\ UNCHANGED <<perm, sub, made, devices, session, tab, mailVars, chances, disturbed>>

LeaveDrops ==
  /\ leave.at = "posted"
  /\ leave' = [leave EXCEPT !.at = IF session THEN "stored" ELSE "refused"]
  /\ devices' = IF session THEN devices \ {leave.ep} ELSE devices
  /\ UNCHANGED <<perm, sub, made, session, tab, mailVars, chances, disturbed>>

LeaveAnswered ==
  /\ leave.at = "stored"
  /\ Unsubscribe(leave.ep)
  /\ leave' = [leave EXCEPT !.at = "submit"]
  /\ UNCHANGED <<perm, made, devices, session, tab, posts, notified, note, opened, leaked,
                 chances, disturbed>>

\* An error is swallowed: the form is submitted, the subscription stays.
LeaveFails ==
  /\ \/ leave.at = "refused" /\ UNCHANGED chances
     \/ leave.at \in {"posted", "stored"} /\ Use("failures")
  /\ leave' = [leave EXCEPT !.at = "submit"]
  /\ disturbed' = TRUE
  /\ UNCHANGED <<perm, sub, made, devices, session, tab, mailVars>>

\* handleLogout; the tab is the login page and its script is gone.
SignedOut ==
  /\ session' = FALSE
  /\ tab' = [tab EXCEPT ![leave.by] = Idle("gone")]
  /\ leave' = NoLeave

LeaveSubmits ==
  /\ leave.at = "submit" /\ SignedOut
  /\ UNCHANGED <<perm, sub, made, devices, mailVars, chances, disturbed>>

\* Pressed once more, the form goes at once (pushCleared is set).
PressAgain ==
  /\ leave.at # "none" /\ Use("clicks") /\ SignedOut
  /\ disturbed' = TRUE
  /\ UNCHANGED <<perm, sub, made, devices, mailVars>>

\* The login page leads to the app again; other tabs are as they were.
SignIn ==
  /\ ~session /\ session' = TRUE
  /\ tab' = [t \in Tabs |-> IF tab[t].ui = "gone" THEN Idle("checking") ELSE tab[t]]
  /\ disturbed' = (leave.at # "none")
  /\ UNCHANGED <<perm, sub, made, devices, leave, mailVars, chances>>

-----------------------------------------------------------------------------
(* A message is notified, delivered and clicked *)

\* notifyPush, in a goroutine of its message: the devices as they are listed.
Notify ==
  /\ notified < MaxPushes /\ notified' = notified + 1
  /\ posts' = posts \cup [msg : {notified'}, ep : devices]
  /\ UNCHANGED <<perm, sub, made, devices, session, tab, leave, held, note, opened, leaked,
                 chances, disturbed>>

\* The push service keeps the last one posted for its Topic; a dead endpoint's
\* answer, 404 or 410, drops the row.
Post(p) ==
  /\ p \in posts /\ posts' = posts \ {p}
  /\ held'    = IF p.ep = sub THEN p.msg ELSE held
  /\ devices' = IF p.ep = sub THEN devices ELSE devices \ {p.ep}
  /\ UNCHANGED <<perm, sub, made, session, tab, leave, notified, note, opened, leaked, chances,
                 disturbed>>

\* sw.js, push: always shown, in place of the one with its tag.
Push ==
  /\ held # 0 /\ held' = 0 /\ note' = held
  /\ leaked' = IF session \/ disturbed THEN leaked ELSE leaked \cup {held}
  /\ UNCHANGED <<perm, sub, made, devices, session, tab, leave, posts, notified, opened, chances,
                 disturbed>>

\* sw.js, notificationclick: closed, and a window goes to its message.
NotificationClick ==
  /\ note # 0 /\ opened' = note /\ note' = 0
  /\ UNCHANGED <<perm, sub, made, devices, session, tab, leave, posts, notified, held, leaked,
                 chances, disturbed>>

\* The browser or the push service drops the subscription on its own.
Expire ==
  /\ sub # 0 /\ Use("failures") /\ Unsubscribe(sub)
  /\ UNCHANGED <<perm, made, devices, session, tab, leave, posts, notified, note, opened, leaked,
                 disturbed>>

Next ==
  \/ \E t \in Tabs : \/ Look(t) \/ Enable(t) \/ Subscribe(t) \/ StoreSub(t) \/ Enabled(t)
                     \/ EnableFails(t) \/ Disable(t) \/ StoreDrop(t) \/ Disabled(t)
                     \/ DisableFails(t) \/ PressSignOut(t)
  \/ \E ep \in devices : RemoveDevice(ep)
  \/ LeaveLooks \/ LeaveDrops \/ LeaveAnswered \/ LeaveFails \/ LeaveSubmits \/ PressAgain \/ SignIn
  \/ Notify \/ (\E p \in posts : Post(p)) \/ Push \/ NotificationClick \/ Expire

Spec == Init /\ [][Next]_deviceVars

-----------------------------------------------------------------------------
BrowserOK ==
  /\ perm \in {"default", "granted", "denied"} /\ session \in BOOLEAN /\ disturbed \in BOOLEAN
  /\ made \in 0..MaxEndpoints /\ sub \in 0..made /\ devices \subseteq 1..made
TabsOK ==
  tab \in [Tabs -> [ui  : {"checking", "denied", "off", "on", "gone"},
                   job : {"idle", "enable", "disable"},
                   at  : {"none", "allowed", "posted", "stored", "refused"},
                   ep  : 0..made]]
LeaveOK ==
  leave \in [at : {"none", "asked", "posted", "stored", "refused", "submit"},
            by : Tabs, ep : 0..made]
MailOK ==
  /\ notified \in 0..MaxPushes /\ posts \subseteq [msg : 1..notified, ep : 1..made]
  /\ held \in 0..notified /\ note \in 0..notified /\ opened \in 0..notified
  /\ leaked \subseteq 1..notified
ChancesOK == chances \in [clicks : 0..MaxClicks, failures : 0..MaxFailures]

TypeOK == BrowserOK /\ TabsOK /\ LeaveOK /\ MailOK /\ ChancesOK

\* A browser that signed out is told of no mail: whichever tab switched the
\* notifications on, whatever other tabs still had on the way, and whatever the push
\* service kept for it. Not promised when the sign-out's own request fails, when Sign
\* out is pressed again before it is done, or when another tab subscribes meanwhile.
SignedOutIsSilent == leaked = {}
=============================================================================
