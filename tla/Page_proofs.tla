----------------------------- MODULE Page_proofs -----------------------------
(***************************************************************************)
(* Theorems about Page, part by part: here the push device, the keys, the   *)
(* gestures, the rows of the list and the preview of a document; the others *)
(* are in Screen_proofs. A behaviour of Page is one of each of its parts,   *)
(* since a step that is another part's leaves this part's variables alone:  *)
(* what is proved of a part's own behaviours, under that part's assumption, *)
(* holds of the page.                                                       *)
(***************************************************************************)
EXTENDS Page, Sorted, FiniteSetTheorems, SequenceTheorems, WellFoundedInduction, TLAPS

-----------------------------------------------------------------------------
(* The device: PushDevice *)

\* Seen from the device, the page's steps are the device's or none.
LEMMA DeviceMoves == Spec => Device!Spec
<1>1. Init => Device!Init
  BY DEF Init
<1>2. [Next]_pageVars => [Device!Next]_Device!deviceVars
  BY DEF Next, pageVars, devicePart, Device!deviceVars
<1> QED
  BY <1>1, <1>2, PTL DEF Spec, Device!Spec


-----------------------------------------------------------------------------
(* Types *)

\* A tab whose POST of a subscription is under way holds one that was made.
Carries == \A t \in Tabs : tab[t].job = "enable" /\ tab[t].at = "posted" => tab[t].ep # 0

DeviceTypeInv == Device!TypeOK /\ Carries

LEMMA NoLeaveType == ASSUME Tabs # {} PROVE Device!NoLeave \in [at : {"none"}, by : Tabs, ep : {0}]
<1>1. PICK t \in Tabs : TRUE
  OBVIOUS
<1>2. [at |-> "none", by |-> t, ep |-> 0] \in [at : {"none"}, by : Tabs, ep : {0}]
  BY <1>1
<1> QED
  BY <1>2 DEF Device!NoLeave

LEMMA DeviceTypeInit == ASSUME Device!DeviceAssumption, Device!Init PROVE DeviceTypeInv
<1>1. leave \in [at : {"none"}, by : Tabs, ep : {0}]
  BY NoLeaveType DEF Device!DeviceAssumption, Device!Init
<1>2. Device!LeaveOK
  BY <1>1 DEF Device!LeaveOK, Device!Init
<1>3. Device!TabsOK /\ Carries
  <2>1. tab = [t \in Tabs |-> Device!Idle("checking")] /\ made = 0
    BY DEF Device!Init
  <2>2. Device!Idle("checking") = [ui |-> "checking", job |-> "idle", at |-> "none", ep |-> 0]
    BY DEF Device!Idle
  <2> QED
    BY <2>1, <2>2 DEF Device!TabsOK, Carries
<1>4. Device!BrowserOK
  <2>1. perm \in {"default", "granted", "denied"}
    BY DEF Device!Init
  <2>2. sub = 0 /\ made = 0 /\ devices = {} /\ session \in BOOLEAN /\ disturbed \in BOOLEAN
    BY DEF Device!Init
  <2> QED
    BY <2>1, <2>2 DEF Device!BrowserOK, Device!DeviceAssumption
<1>5. Device!MailOK
  BY DEF Device!MailOK, Device!Init, Device!DeviceAssumption
<1>6. Device!ChancesOK
  BY DEF Device!ChancesOK, Device!Init, Device!DeviceAssumption
<1> QED
  BY <1>2, <1>3, <1>4, <1>5, <1>6 DEF DeviceTypeInv, Device!TypeOK

\* A press or a failure leaves the bounds in their range.
LEMMA Using == ASSUME Device!DeviceAssumption, Device!ChancesOK,
                      Device!Use("clicks") \/ Device!Use("failures") \/ UNCHANGED chances
               PROVE Device!ChancesOK'
  BY DEF Device!DeviceAssumption, Device!ChancesOK, Device!Use

\* The browser and its subscription keep their types.
LEMMA BrowserStep ==
  ASSUME Device!DeviceAssumption, DeviceTypeInv, [Device!Next]_Device!deviceVars
  PROVE Device!BrowserOK'
<1> USE DEF Device!DeviceAssumption, DeviceTypeInv, Device!TypeOK, Device!BrowserOK, Carries,
   Device!mailVars
<1>0. \A t \in Tabs : tab[t].ep \in 0..made
  BY DEF Device!TabsOK
<1>00. \A p \in posts : p.ep \in 1..made
  BY DEF Device!MailOK
<1>1. ASSUME NEW t \in Tabs, Device!Look(t) PROVE Device!BrowserOK'
  BY <1>1, <1>0, <1>00 DEF Device!Look, Device!Shown
<1>2. ASSUME NEW t \in Tabs, Device!Enable(t) PROVE Device!BrowserOK'
  BY <1>2, <1>0, <1>00 DEF Device!Enable, Device!Idle
<1>3. ASSUME NEW t \in Tabs, Device!Subscribe(t) PROVE Device!BrowserOK'
  BY <1>3, <1>0, <1>00 DEF Device!Subscribe
<1>4. ASSUME NEW t \in Tabs, Device!StoreSub(t) PROVE Device!BrowserOK'
  BY <1>4, <1>0, <1>00 DEF Device!StoreSub
<1>5. ASSUME NEW t \in Tabs, Device!Enabled(t) PROVE Device!BrowserOK'
  BY <1>5, <1>0, <1>00 DEF Device!Enabled, Device!Idle
<1>6. ASSUME NEW t \in Tabs, Device!EnableFails(t) PROVE Device!BrowserOK'
  BY <1>6, <1>0, <1>00 DEF Device!EnableFails, Device!Shown, Device!Idle
<1>7. ASSUME NEW t \in Tabs, Device!Disable(t) PROVE Device!BrowserOK'
  BY <1>7, <1>0, <1>00 DEF Device!Disable, Device!Idle
<1>8. ASSUME NEW t \in Tabs, Device!StoreDrop(t) PROVE Device!BrowserOK'
  BY <1>8, <1>0, <1>00 DEF Device!StoreDrop
<1>9. ASSUME NEW t \in Tabs, Device!Disabled(t) PROVE Device!BrowserOK'
  BY <1>9, <1>0, <1>00 DEF Device!Disabled, Device!Unsubscribe, Device!Idle
<1>10. ASSUME NEW t \in Tabs, Device!DisableFails(t) PROVE Device!BrowserOK'
  BY <1>10, <1>0, <1>00 DEF Device!DisableFails, Device!Idle
<1>11. ASSUME NEW t \in Tabs, Device!PressSignOut(t) PROVE Device!BrowserOK'
  BY <1>11, <1>0, <1>00 DEF Device!PressSignOut
<1>12. ASSUME NEW ep \in devices, Device!RemoveDevice(ep) PROVE Device!BrowserOK'
  BY <1>12, <1>0, <1>00 DEF Device!RemoveDevice
<1>13. CASE Device!LeaveLooks
  BY <1>13, <1>0, <1>00 DEF Device!LeaveLooks, Device!LeftBehind
<1>14. CASE Device!LeaveDrops
  BY <1>14, <1>0, <1>00 DEF Device!LeaveDrops
<1>15. CASE Device!LeaveAnswered
  BY <1>15, <1>0, <1>00 DEF Device!LeaveAnswered, Device!Unsubscribe
<1>16. CASE Device!LeaveFails
  BY <1>16, <1>0, <1>00 DEF Device!LeaveFails
<1>17. CASE Device!LeaveSubmits
  BY <1>17, <1>0, <1>00 DEF Device!LeaveSubmits, Device!SignedOut, Device!Idle
<1>18. CASE Device!PressAgain
  BY <1>18, <1>0, <1>00 DEF Device!PressAgain, Device!SignedOut, Device!Idle
<1>19. CASE Device!SignIn
  BY <1>19, <1>0, <1>00 DEF Device!SignIn, Device!Idle
<1>20. CASE Device!Notify
  BY <1>20, <1>0, <1>00 DEF Device!Notify
<1>21. ASSUME NEW p \in posts, Device!Post(p) PROVE Device!BrowserOK'
  BY <1>21, <1>0, <1>00 DEF Device!Post
<1>22. CASE Device!Push
  BY <1>22, <1>0, <1>00 DEF Device!Push
<1>23. CASE Device!NotificationClick
  BY <1>23, <1>0, <1>00 DEF Device!NotificationClick
<1>24. CASE Device!Expire
  BY <1>24, <1>0, <1>00 DEF Device!Expire, Device!Unsubscribe
<1>25. CASE UNCHANGED Device!deviceVars
  BY <1>25, <1>0, <1>00 DEF Device!deviceVars
<1> QED
  BY <1>1, <1>2, <1>3, <1>4, <1>5, <1>6, <1>7, <1>8, <1>9, <1>10, <1>11, <1>12, <1>13, <1>14,
     <1>15, <1>16, <1>17, <1>18, <1>19, <1>20, <1>21, <1>22, <1>23, <1>24, <1>25 DEF Device!Next

\* So do the tabs.
LEMMA TabStep ==
  ASSUME Device!DeviceAssumption, DeviceTypeInv, [Device!Next]_Device!deviceVars
  PROVE Device!TabsOK' /\ Carries'
<1> USE DEF Device!DeviceAssumption, DeviceTypeInv, Device!TypeOK, Device!BrowserOK, Device!TabsOK,
   Carries, Device!mailVars
<1>1. ASSUME NEW t \in Tabs, Device!Look(t) PROVE Device!TabsOK' /\ Carries'
  BY <1>1 DEF Device!Look, Device!Shown
<1>2. ASSUME NEW t \in Tabs, Device!Enable(t) PROVE Device!TabsOK' /\ Carries'
  <2>1. made' = made
    BY <1>2 DEF Device!Enable
  <2>2. CASE tab' = [tab EXCEPT ![t].job = "enable", ![t].at = "allowed"]
    <3>1. Device!TabsOK'
      <4>1. tab' = [tab EXCEPT ![t] = [tab[t] EXCEPT !.job = "enable", !.at = "allowed"]]
        BY <2>2
      <4>2. [tab[t] EXCEPT !.job = "enable", !.at = "allowed"]
              \in [ui  : {"checking", "denied", "off", "on", "gone"},
                  job : {"idle", "enable", "disable"},
                  at  : {"none", "allowed", "posted", "stored", "refused"},
                  ep  : 0..made]
        <5>1. tab[t] \in [ui  : {"checking", "denied", "off", "on", "gone"},
                          job : {"idle", "enable", "disable"},
                          at  : {"none", "allowed", "posted", "stored", "refused"},
                          ep  : 0..made]
          OBVIOUS
        <5> QED
          BY <5>1
      <4> QED
        BY <2>1, <4>1, <4>2
    <3>2. Carries'
      <4>1. tab'[t].at = "allowed"
        BY <2>2
      <4>2. \A u \in Tabs : u # t => tab'[u] = tab[u]
        BY <2>2
      <4> QED
        BY <4>1, <4>2
    <3> QED
      BY <3>1, <3>2
  <2>3. CASE \E ui \in {"denied", "off"} : tab' = [tab EXCEPT ![t] = Device!Idle(ui)]
    BY <2>1, <2>3 DEF Device!Idle
  <2> QED
    BY <1>2, <2>2, <2>3 DEF Device!Enable
<1>3. ASSUME NEW t \in Tabs, Device!Subscribe(t) PROVE Device!TabsOK' /\ Carries'
  <2>1. made' \in Nat /\ made <= made' /\ sub' \in 0..made' /\ sub' # 0
    BY <1>3 DEF Device!Subscribe
  <2>2. tab' = [tab EXCEPT ![t].at = "posted", ![t].ep = sub']
    BY <1>3 DEF Device!Subscribe
  <2>3. tab \in [Tabs -> [ui  : {"checking", "denied", "off", "on", "gone"},
                         job : {"idle", "enable", "disable"},
                         at  : {"none", "allowed", "posted", "stored", "refused"},
                         ep  : 0..made']]
    BY <2>1
  <2>4. Device!TabsOK'
    BY <2>1, <2>2, <2>3
  <2>5. Carries'
    BY <2>1, <2>2
  <2> QED
    BY <2>4, <2>5
<1>4. ASSUME NEW t \in Tabs, Device!StoreSub(t) PROVE Device!TabsOK' /\ Carries'
  BY <1>4 DEF Device!StoreSub
<1>5. ASSUME NEW t \in Tabs, Device!Enabled(t) PROVE Device!TabsOK' /\ Carries'
  BY <1>5 DEF Device!Enabled, Device!Idle
<1>6. ASSUME NEW t \in Tabs, Device!EnableFails(t) PROVE Device!TabsOK' /\ Carries'
  BY <1>6 DEF Device!EnableFails, Device!Shown, Device!Idle
<1>7. ASSUME NEW t \in Tabs, Device!Disable(t) PROVE Device!TabsOK' /\ Carries'
  BY <1>7 DEF Device!Disable, Device!Idle
<1>8. ASSUME NEW t \in Tabs, Device!StoreDrop(t) PROVE Device!TabsOK' /\ Carries'
  BY <1>8 DEF Device!StoreDrop
<1>9. ASSUME NEW t \in Tabs, Device!Disabled(t) PROVE Device!TabsOK' /\ Carries'
  BY <1>9 DEF Device!Disabled, Device!Unsubscribe, Device!Idle
<1>10. ASSUME NEW t \in Tabs, Device!DisableFails(t) PROVE Device!TabsOK' /\ Carries'
  BY <1>10 DEF Device!DisableFails, Device!Idle
<1>11. ASSUME NEW t \in Tabs, Device!PressSignOut(t) PROVE Device!TabsOK' /\ Carries'
  BY <1>11 DEF Device!PressSignOut
<1>12. ASSUME NEW ep \in devices, Device!RemoveDevice(ep) PROVE Device!TabsOK' /\ Carries'
  BY <1>12 DEF Device!RemoveDevice
<1>13. CASE Device!LeaveLooks
  BY <1>13 DEF Device!LeaveLooks, Device!LeftBehind
<1>14. CASE Device!LeaveDrops
  BY <1>14 DEF Device!LeaveDrops
<1>15. CASE Device!LeaveAnswered
  BY <1>15 DEF Device!LeaveAnswered, Device!Unsubscribe
<1>16. CASE Device!LeaveFails
  BY <1>16 DEF Device!LeaveFails
<1>17. CASE Device!LeaveSubmits
  <2>1. leave.by \in Tabs /\ tab' = [tab EXCEPT ![leave.by] = Device!Idle("gone")] /\ made' = made
    BY <1>17 DEF Device!LeaveSubmits, Device!SignedOut, Device!LeaveOK
  <2> QED
    BY <2>1 DEF Device!Idle
<1>18. CASE Device!PressAgain
  <2>1. leave.by \in Tabs /\ tab' = [tab EXCEPT ![leave.by] = Device!Idle("gone")] /\ made' = made
    BY <1>18 DEF Device!PressAgain, Device!SignedOut, Device!LeaveOK
  <2> QED
    BY <2>1 DEF Device!Idle
<1>19. CASE Device!SignIn
  BY <1>19 DEF Device!SignIn, Device!Idle
<1>20. CASE Device!Notify
  BY <1>20 DEF Device!Notify
<1>21. ASSUME NEW p \in posts, Device!Post(p) PROVE Device!TabsOK' /\ Carries'
  BY <1>21 DEF Device!Post
<1>22. CASE Device!Push
  BY <1>22 DEF Device!Push
<1>23. CASE Device!NotificationClick
  BY <1>23 DEF Device!NotificationClick
<1>24. CASE Device!Expire
  BY <1>24 DEF Device!Expire, Device!Unsubscribe
<1>25. CASE UNCHANGED Device!deviceVars
  BY <1>25 DEF Device!deviceVars
<1> QED
  BY <1>1, <1>2, <1>3, <1>4, <1>5, <1>6, <1>7, <1>8, <1>9, <1>10, <1>11, <1>12, <1>13, <1>14,
     <1>15, <1>16, <1>17, <1>18, <1>19, <1>20, <1>21, <1>22, <1>23, <1>24, <1>25 DEF Device!Next

\* And the sign-out.
LEMMA LeaveStep ==
  ASSUME Device!DeviceAssumption, DeviceTypeInv, [Device!Next]_Device!deviceVars
  PROVE Device!LeaveOK'
<1> USE DEF DeviceTypeInv, Device!TypeOK, Device!BrowserOK, Device!LeaveOK, Device!mailVars
<1>1. ASSUME NEW t \in Tabs, Device!Look(t) PROVE Device!LeaveOK'
  BY <1>1, NoLeaveType DEF Device!Look, Device!Shown
<1>2. ASSUME NEW t \in Tabs, Device!Enable(t) PROVE Device!LeaveOK'
  BY <1>2, NoLeaveType DEF Device!Enable, Device!Idle
<1>3. ASSUME NEW t \in Tabs, Device!Subscribe(t) PROVE Device!LeaveOK'
  BY <1>3, NoLeaveType DEF Device!Subscribe
<1>4. ASSUME NEW t \in Tabs, Device!StoreSub(t) PROVE Device!LeaveOK'
  BY <1>4, NoLeaveType DEF Device!StoreSub
<1>5. ASSUME NEW t \in Tabs, Device!Enabled(t) PROVE Device!LeaveOK'
  BY <1>5, NoLeaveType DEF Device!Enabled, Device!Idle
<1>6. ASSUME NEW t \in Tabs, Device!EnableFails(t) PROVE Device!LeaveOK'
  BY <1>6, NoLeaveType DEF Device!EnableFails, Device!Shown, Device!Idle
<1>7. ASSUME NEW t \in Tabs, Device!Disable(t) PROVE Device!LeaveOK'
  BY <1>7, NoLeaveType DEF Device!Disable, Device!Idle
<1>8. ASSUME NEW t \in Tabs, Device!StoreDrop(t) PROVE Device!LeaveOK'
  BY <1>8, NoLeaveType DEF Device!StoreDrop
<1>9. ASSUME NEW t \in Tabs, Device!Disabled(t) PROVE Device!LeaveOK'
  BY <1>9, NoLeaveType DEF Device!Disabled, Device!Unsubscribe, Device!Idle
<1>10. ASSUME NEW t \in Tabs, Device!DisableFails(t) PROVE Device!LeaveOK'
  BY <1>10, NoLeaveType DEF Device!DisableFails, Device!Idle
<1>11. ASSUME NEW t \in Tabs, Device!PressSignOut(t) PROVE Device!LeaveOK'
  BY <1>11, NoLeaveType DEF Device!PressSignOut
<1>12. ASSUME NEW ep \in devices, Device!RemoveDevice(ep) PROVE Device!LeaveOK'
  BY <1>12, NoLeaveType DEF Device!RemoveDevice
<1>13. CASE Device!LeaveLooks
  BY <1>13, NoLeaveType DEF Device!LeaveLooks, Device!LeftBehind
<1>14. CASE Device!LeaveDrops
  BY <1>14, NoLeaveType DEF Device!LeaveDrops
<1>15. CASE Device!LeaveAnswered
  BY <1>15, NoLeaveType DEF Device!LeaveAnswered, Device!Unsubscribe
<1>16. CASE Device!LeaveFails
  BY <1>16, NoLeaveType DEF Device!LeaveFails
<1>17. CASE Device!LeaveSubmits
  BY <1>17, NoLeaveType DEF Device!LeaveSubmits, Device!SignedOut, Device!Idle
<1>18. CASE Device!PressAgain
  BY <1>18, NoLeaveType DEF Device!PressAgain, Device!SignedOut, Device!Idle
<1>19. CASE Device!SignIn
  BY <1>19, NoLeaveType DEF Device!SignIn, Device!Idle
<1>20. CASE Device!Notify
  BY <1>20, NoLeaveType DEF Device!Notify
<1>21. ASSUME NEW p \in posts, Device!Post(p) PROVE Device!LeaveOK'
  BY <1>21, NoLeaveType DEF Device!Post
<1>22. CASE Device!Push
  BY <1>22, NoLeaveType DEF Device!Push
<1>23. CASE Device!NotificationClick
  BY <1>23, NoLeaveType DEF Device!NotificationClick
<1>24. CASE Device!Expire
  BY <1>24, NoLeaveType DEF Device!Expire, Device!Unsubscribe
<1>25. CASE UNCHANGED Device!deviceVars
  BY <1>25, NoLeaveType DEF Device!deviceVars
<1> QED
  BY <1>1, <1>2, <1>3, <1>4, <1>5, <1>6, <1>7, <1>8, <1>9, <1>10, <1>11, <1>12, <1>13, <1>14,
     <1>15, <1>16, <1>17, <1>18, <1>19, <1>20, <1>21, <1>22, <1>23, <1>24, <1>25 DEF Device!Next

\* And what is pushed.
LEMMA MailStep ==
  ASSUME Device!DeviceAssumption, DeviceTypeInv, [Device!Next]_Device!deviceVars
  PROVE Device!MailOK'
<1> USE DEF Device!DeviceAssumption, DeviceTypeInv, Device!TypeOK, Device!BrowserOK, Device!MailOK,
   Device!mailVars
<1>1. ASSUME NEW t \in Tabs, Device!Look(t) PROVE Device!MailOK'
  BY <1>1 DEF Device!Look, Device!Shown
<1>2. ASSUME NEW t \in Tabs, Device!Enable(t) PROVE Device!MailOK'
  BY <1>2 DEF Device!Enable, Device!Idle
<1>3. ASSUME NEW t \in Tabs, Device!Subscribe(t) PROVE Device!MailOK'
  BY <1>3 DEF Device!Subscribe
<1>4. ASSUME NEW t \in Tabs, Device!StoreSub(t) PROVE Device!MailOK'
  BY <1>4 DEF Device!StoreSub
<1>5. ASSUME NEW t \in Tabs, Device!Enabled(t) PROVE Device!MailOK'
  BY <1>5 DEF Device!Enabled, Device!Idle
<1>6. ASSUME NEW t \in Tabs, Device!EnableFails(t) PROVE Device!MailOK'
  BY <1>6 DEF Device!EnableFails, Device!Shown, Device!Idle
<1>7. ASSUME NEW t \in Tabs, Device!Disable(t) PROVE Device!MailOK'
  BY <1>7 DEF Device!Disable, Device!Idle
<1>8. ASSUME NEW t \in Tabs, Device!StoreDrop(t) PROVE Device!MailOK'
  BY <1>8 DEF Device!StoreDrop
<1>9. ASSUME NEW t \in Tabs, Device!Disabled(t) PROVE Device!MailOK'
  BY <1>9 DEF Device!Disabled, Device!Unsubscribe, Device!Idle
<1>10. ASSUME NEW t \in Tabs, Device!DisableFails(t) PROVE Device!MailOK'
  BY <1>10 DEF Device!DisableFails, Device!Idle
<1>11. ASSUME NEW t \in Tabs, Device!PressSignOut(t) PROVE Device!MailOK'
  BY <1>11 DEF Device!PressSignOut
<1>12. ASSUME NEW ep \in devices, Device!RemoveDevice(ep) PROVE Device!MailOK'
  BY <1>12 DEF Device!RemoveDevice
<1>13. CASE Device!LeaveLooks
  BY <1>13 DEF Device!LeaveLooks, Device!LeftBehind
<1>14. CASE Device!LeaveDrops
  BY <1>14 DEF Device!LeaveDrops
<1>15. CASE Device!LeaveAnswered
  BY <1>15 DEF Device!LeaveAnswered, Device!Unsubscribe
<1>16. CASE Device!LeaveFails
  BY <1>16 DEF Device!LeaveFails
<1>17. CASE Device!LeaveSubmits
  BY <1>17 DEF Device!LeaveSubmits, Device!SignedOut, Device!Idle
<1>18. CASE Device!PressAgain
  BY <1>18 DEF Device!PressAgain, Device!SignedOut, Device!Idle
<1>19. CASE Device!SignIn
  BY <1>19 DEF Device!SignIn, Device!Idle
<1>20. CASE Device!Notify
  <2>1. notified' = notified + 1 /\ notified' \in 0..MaxPushes /\ made' = made
    BY <1>20 DEF Device!Notify
  <2>2. [msg : {notified'}, ep : devices] \subseteq [msg : 1..notified', ep : 1..made]
    <3>1. {notified'} \subseteq 1..notified' /\ devices \subseteq 1..made
      BY <2>1
    <3> QED
      BY <3>1
  <2>3. [msg : 1..notified, ep : 1..made] \subseteq [msg : 1..notified', ep : 1..made]
    BY <2>1
  <2>4. posts' \subseteq [msg : 1..notified', ep : 1..made']
    BY <1>20, <2>1, <2>2, <2>3 DEF Device!Notify
  <2> QED
    BY <1>20, <2>1, <2>4 DEF Device!Notify
<1>21. ASSUME NEW p \in posts, Device!Post(p) PROVE Device!MailOK'
  BY <1>21 DEF Device!Post
<1>22. CASE Device!Push
  BY <1>22 DEF Device!Push
<1>23. CASE Device!NotificationClick
  BY <1>23 DEF Device!NotificationClick
<1>24. CASE Device!Expire
  BY <1>24 DEF Device!Expire, Device!Unsubscribe
<1>25. CASE UNCHANGED Device!deviceVars
  BY <1>25 DEF Device!deviceVars
<1> QED
  BY <1>1, <1>2, <1>3, <1>4, <1>5, <1>6, <1>7, <1>8, <1>9, <1>10, <1>11, <1>12, <1>13, <1>14,
     <1>15, <1>16, <1>17, <1>18, <1>19, <1>20, <1>21, <1>22, <1>23, <1>24, <1>25 DEF Device!Next

LEMMA ChancesStep ==
  ASSUME Device!DeviceAssumption, DeviceTypeInv, [Device!Next]_Device!deviceVars
  PROVE Device!ChancesOK'
<1> USE DEF DeviceTypeInv, Device!TypeOK
<1>1. Device!Use("clicks") \/ Device!Use("failures") \/ UNCHANGED chances
  BY DEF Device!Next, Device!deviceVars, Device!Look, Device!Enable, Device!Subscribe,
     Device!StoreSub, Device!Enabled, Device!EnableFails, Device!Disable,
     Device!StoreDrop, Device!Disabled, Device!DisableFails, Device!PressSignOut,
     Device!RemoveDevice, Device!LeaveLooks, Device!LeaveDrops,
     Device!LeaveAnswered, Device!LeaveFails, Device!LeaveSubmits, Device!PressAgain,
     Device!SignIn, Device!Notify, Device!Post, Device!Push,
     Device!NotificationClick, Device!Expire
<1> QED
  BY <1>1, Using

LEMMA DeviceTypeStep ==
  ASSUME Device!DeviceAssumption, DeviceTypeInv, [Device!Next]_Device!deviceVars
  PROVE DeviceTypeInv'
  BY BrowserStep, TabStep, LeaveStep, MailStep, ChancesStep DEF DeviceTypeInv, Device!TypeOK

\* Every reachable state is well typed.
LEMMA DeviceTypes == ASSUME Device!DeviceAssumption PROVE Device!Spec => []Device!TypeOK
<1>1. Device!Init => DeviceTypeInv
  BY DeviceTypeInit
<1>2. DeviceTypeInv /\ [Device!Next]_Device!deviceVars => DeviceTypeInv'
  BY DeviceTypeStep
<1>3. DeviceTypeInv => Device!TypeOK
  BY DEF DeviceTypeInv
<1> QED
  BY <1>1, <1>2, <1>3, PTL DEF Device!Spec

-----------------------------------------------------------------------------
(* A browser that signed out is told of no mail *)

\* The push service keeps nothing without a subscription to keep it for.
Kept == sub = 0 => held = 0

\* A sign-out left to run its course has dropped the subscription by the time the
\* form is submitted, and until then knows the only one there is.
Leaving ==
  ~disturbed => /\ leave.at = "submit" => sub = 0
                /\ leave.at \in {"posted", "stored"} => sub \in {0, leave.ep}

\* Signed out, a subscription another tab makes is one the server does not know:
\* no row of it, no post to it, nothing kept.
Quiet == ~session /\ ~disturbed => sub \notin devices /\ held = 0 /\ \A p \in posts : p.ep # sub

Silence == Kept /\ Leaving /\ Quiet /\ Device!SignedOutIsSilent

DeviceInv == DeviceTypeInv /\ Silence

LEMMA SilenceInit == ASSUME Device!DeviceAssumption, Device!Init PROVE Silence
<1>1. leave.at = "none"
  BY NoLeaveType DEF Device!DeviceAssumption, Device!Init
<1> QED
  BY <1>1 DEF Silence, Kept, Leaving, Quiet, Device!SignedOutIsSilent, Device!Init

\* The numbers the steps compare.
LEMMA Endpoints == ASSUME DeviceTypeInv
                   PROVE  /\ made \in Nat /\ sub \in 0..made
                          /\ \A ep \in devices : ep \in Nat /\ 1 <= ep /\ ep <= made
                          /\ \A p \in posts : p.ep \in Nat /\ 1 <= p.ep /\ p.ep <= made
<1>1. made \in Nat /\ sub \in 0..made /\ devices \subseteq 1..made
  BY DEF DeviceTypeInv, Device!TypeOK, Device!BrowserOK
<1>2. \A p \in posts : p.ep \in 1..made
  BY DEF DeviceTypeInv, Device!TypeOK, Device!MailOK
<1> QED
  BY <1>1, <1>2

\* What only the switch's own state or the permission changes leaves the silence alone.
LEMMA SilenceRests ==
  ASSUME Silence, UNCHANGED <<sub, devices, session, leave, posts, held, disturbed, leaked>>
  PROVE  Silence'
  BY DEF Silence, Kept, Leaving, Quiet, Device!SignedOutIsSilent

\* So does a row of the server that goes.
LEMMA SilenceLosesRows ==
  ASSUME Silence, devices' \subseteq devices, posts' \subseteq posts,
         UNCHANGED <<sub, session, leave, held, disturbed, leaked>>
  PROVE  Silence'
  BY DEF Silence, Kept, Leaving, Quiet, Device!SignedOutIsSilent

\* Dropping a subscription drops what is kept for it, and 0 is nobody's endpoint.
LEMMA SilenceUnsubscribed ==
  ASSUME DeviceTypeInv, Silence, NEW ep, Device!Unsubscribe(ep),
         UNCHANGED <<devices, session, posts, disturbed, leaked>>
  PROVE  Kept' /\ Quiet' /\ Device!SignedOutIsSilent' /\ sub' \in {0, sub}
<1>1. sub' \in {0, sub} /\ held' \in {0, held} /\ (sub' = sub => held' = held \/ held' = 0)
  BY DEF Device!Unsubscribe
<1>2. 0 \notin devices /\ \A p \in posts : p.ep # 0
  BY Endpoints
<1>3. Kept'
  BY DEF Silence, Kept, Device!Unsubscribe
<1>4. Quiet'
  BY <1>1, <1>2 DEF Silence, Quiet
<1> QED
  BY <1>1, <1>3, <1>4 DEF Silence, Device!SignedOutIsSilent

LEMMA SilenceStep ==
  ASSUME Device!DeviceAssumption, DeviceInv, [Device!Next]_Device!deviceVars
  PROVE Silence'
<1> USE DEF DeviceInv, Device!mailVars
<1>1. ASSUME NEW t \in Tabs, Device!Look(t) \/ Device!Enable(t) \/ Device!Enabled(t)
                             \/ Device!EnableFails(t) \/ Device!Disable(t)
                             \/ Device!DisableFails(t)
      PROVE Silence'
  BY <1>1, SilenceRests DEF Device!Look, Device!Enable, Device!Enabled, Device!EnableFails,
     Device!Disable, Device!DisableFails
<1>2. ASSUME NEW t \in Tabs, Device!Subscribe(t) PROVE Silence'
  <2>1. UNCHANGED <<devices, session, leave, posts, held, leaked>>
        /\ disturbed' = (disturbed \/ leave.at # "none")
    BY <1>2 DEF Device!Subscribe
  <2>2. CASE sub' = sub
    BY <2>1, <2>2 DEF Silence, Kept, Leaving, Quiet, Device!SignedOutIsSilent
  <2>3. CASE sub = 0 /\ sub' = made + 1
    <3>1. sub' \notin devices /\ sub' # 0 /\ \A p \in posts : p.ep # sub'
      BY <2>3, Endpoints
    <3> QED
      BY <2>1, <2>3, <3>1 DEF Silence, Kept, Leaving, Quiet, Device!SignedOutIsSilent
  <2> QED
    BY <1>2, <2>2, <2>3 DEF Device!Subscribe
<1>3. ASSUME NEW t \in Tabs, Device!StoreSub(t) PROVE Silence'
  <2>1. UNCHANGED <<sub, session, leave, posts, held, disturbed, leaked>>
        /\ (~session => devices' = devices)
    BY <1>3 DEF Device!StoreSub
  <2> QED
    BY <2>1 DEF Silence, Kept, Leaving, Quiet, Device!SignedOutIsSilent
<1>4. ASSUME NEW t \in Tabs, Device!StoreDrop(t) PROVE Silence'
  BY <1>4, SilenceLosesRows DEF Device!StoreDrop
<1>5. ASSUME NEW t \in Tabs, Device!Disabled(t) PROVE Silence'
  <2>1. /\ Device!Unsubscribe(tab[t].ep)
        /\ UNCHANGED <<devices, session, leave, posts, disturbed, leaked>>
    BY <1>5 DEF Device!Disabled
  <2>2. Kept' /\ Quiet' /\ Device!SignedOutIsSilent' /\ sub' \in {0, sub}
    BY <2>1, SilenceUnsubscribed
  <2> QED
    BY <2>1, <2>2 DEF Silence, Leaving
<1>6. ASSUME NEW t \in Tabs, Device!PressSignOut(t) PROVE Silence'
  <2>1. leave'.at = "asked" /\ UNCHANGED <<sub, devices, session, posts, held, disturbed, leaked>>
    BY <1>6 DEF Device!PressSignOut
  <2> QED
    BY <2>1 DEF Silence, Kept, Leaving, Quiet, Device!SignedOutIsSilent
<1>7. ASSUME NEW ep \in devices, Device!RemoveDevice(ep) PROVE Silence'
  BY <1>7, SilenceLosesRows DEF Device!RemoveDevice
<1>8. CASE Device!LeaveLooks
  <2>1. leave'.ep = sub /\ leave'.at = (IF sub = 0 THEN "submit" ELSE "posted")
    BY <1>8 DEF Device!LeaveLooks, Device!LeftBehind, DeviceTypeInv, Device!TypeOK, Device!LeaveOK
  <2>2. UNCHANGED <<sub, devices, session, posts, held, disturbed, leaked>>
    BY <1>8 DEF Device!LeaveLooks
  <2> QED
    BY <2>1, <2>2 DEF Silence, Kept, Leaving, Quiet, Device!SignedOutIsSilent
<1>9. CASE Device!LeaveDrops
  <2>1. leave.at = "posted" /\ leave'.ep = leave.ep /\ leave'.at \in {"stored", "refused"}
        /\ devices' \subseteq devices
    BY <1>9 DEF Device!LeaveDrops, DeviceTypeInv, Device!TypeOK, Device!LeaveOK
  <2>2. UNCHANGED <<sub, session, posts, held, disturbed, leaked>>
    BY <1>9 DEF Device!LeaveDrops
  <2> QED
    BY <2>1, <2>2 DEF Silence, Kept, Leaving, Quiet, Device!SignedOutIsSilent
<1>10. CASE Device!LeaveAnswered
  <2>1. leave.at = "stored" /\ Device!Unsubscribe(leave.ep)
        /\ UNCHANGED <<devices, session, posts, disturbed, leaked>>
    BY <1>10 DEF Device!LeaveAnswered
  <2>2. leave'.at = "submit"
    BY <1>10 DEF Device!LeaveAnswered, DeviceTypeInv, Device!TypeOK, Device!LeaveOK
  <2>3. Kept' /\ Quiet' /\ Device!SignedOutIsSilent'
    BY <2>1, SilenceUnsubscribed
  <2>4. ~disturbed => sub' = 0
    BY <2>1 DEF Silence, Leaving, Device!Unsubscribe
  <2> QED
    BY <2>1, <2>2, <2>3, <2>4 DEF Silence, Leaving
<1>11. CASE Device!LeaveFails
  BY <1>11 DEF Device!LeaveFails, Silence, Kept, Leaving, Quiet, Device!SignedOutIsSilent
<1>12. CASE Device!LeaveSubmits
  <2>1. leave'.at = "none" /\ leave.at = "submit"
    BY <1>12, NoLeaveType DEF Device!LeaveSubmits, Device!SignedOut, Device!DeviceAssumption
  <2>2. UNCHANGED <<sub, devices, posts, held, disturbed, leaked>>
    BY <1>12 DEF Device!LeaveSubmits
  <2>3. ~disturbed => sub = 0 /\ held = 0
    BY <2>1 DEF Silence, Leaving, Kept
  <2>4. 0 \notin devices /\ \A p \in posts : p.ep # 0
    BY Endpoints
  <2> QED
    BY <2>1, <2>2, <2>3, <2>4 DEF Silence, Kept, Leaving, Quiet, Device!SignedOutIsSilent
<1>13. CASE Device!PressAgain
  BY <1>13 DEF Device!PressAgain, Device!SignedOut, Silence, Kept, Leaving, Quiet,
     Device!SignedOutIsSilent
<1>14. CASE Device!SignIn
  BY <1>14 DEF Device!SignIn, Silence, Kept, Leaving, Quiet, Device!SignedOutIsSilent
<1>15. CASE Device!Notify
  <2>1. \A p \in posts' : p \in posts \/ p.ep \in devices
    BY <1>15 DEF Device!Notify
  <2>2. UNCHANGED <<sub, devices, session, leave, held, disturbed, leaked>>
    BY <1>15 DEF Device!Notify
  <2> QED
    BY <2>1, <2>2 DEF Silence, Kept, Leaving, Quiet, Device!SignedOutIsSilent
<1>16. ASSUME NEW p \in posts, Device!Post(p) PROVE Silence'
  <2>1. UNCHANGED <<sub, session, leave, disturbed, leaked>> /\ posts' \subseteq posts
        /\ devices' \subseteq devices /\ (p.ep # sub => held' = held) /\ p.ep # 0
    BY <1>16, Endpoints DEF Device!Post
  <2> QED
    BY <2>1 DEF Silence, Kept, Leaving, Quiet, Device!SignedOutIsSilent
<1>17. CASE Device!Push
  BY <1>17 DEF Device!Push, Silence, Kept, Leaving, Quiet, Device!SignedOutIsSilent
<1>18. CASE Device!NotificationClick
  BY <1>18, SilenceRests DEF Device!NotificationClick
<1>19. CASE Device!Expire
  <2>1. Device!Unsubscribe(sub) /\ UNCHANGED <<devices, session, leave, posts, disturbed, leaked>>
    BY <1>19 DEF Device!Expire
  <2>2. Kept' /\ Quiet' /\ Device!SignedOutIsSilent' /\ sub' \in {0, sub}
    BY <2>1, SilenceUnsubscribed
  <2> QED
    BY <2>1, <2>2 DEF Silence, Leaving
<1>20. CASE UNCHANGED Device!deviceVars
  BY <1>20, SilenceRests DEF Device!deviceVars
<1> QED
  BY <1>1, <1>2, <1>3, <1>4, <1>5, <1>6, <1>7, <1>8, <1>9, <1>10, <1>11, <1>12, <1>13, <1>14,
     <1>15, <1>16, <1>17, <1>18, <1>19, <1>20 DEF Device!Next

\* A browser that signed out is told of no mail (app.js, "Signing out removes the
\* subscription"), for any number of tabs, subscriptions, messages and presses.
LEMMA DeviceSilent == ASSUME Device!DeviceAssumption PROVE Device!Spec => []Device!SignedOutIsSilent
<1>1. Device!Init => DeviceInv
  BY DeviceTypeInit, SilenceInit DEF DeviceInv
<1>2. DeviceInv /\ [Device!Next]_Device!deviceVars => DeviceInv'
  BY DeviceTypeStep, SilenceStep DEF DeviceInv
<1>3. DeviceInv => Device!SignedOutIsSilent
  BY DEF DeviceInv, Silence
<1> QED
  BY <1>1, <1>2, <1>3, PTL DEF Device!Spec

\* A browser that signed out is told of no mail (app.js, the submit listener of the
\* sign-out form), whatever the other parts of its pages do.
THEOREM Silent == Spec => []SignedOutIsSilent
<1>1. Device!DeviceAssumption
  BY PartsAssumption
<1>2. Device!Spec => []Device!SignedOutIsSilent
  BY <1>1, DeviceSilent
<1>3. Device!SignedOutIsSilent <=> SignedOutIsSilent
  BY Zenon DEF SignedOutIsSilent
<1> QED
  BY <1>2, <1>3, DeviceMoves, PTL

-----------------------------------------------------------------------------
(* The key bindings: Keybindings *)

\* Seen from the key bindings, the page's steps are theirs or none.
LEMMA KeyMoves == Spec => Key!Spec
<1>1. Init => Key!Init
  BY DEF Init
<1>2. [Next]_pageVars => [Key!Next]_Key!keyVars
  BY DEF Next, pageVars, keyPart, Key!keyVars
<1> QED
  BY <1>1, <1>2, PTL DEF Spec, Key!Spec


-----------------------------------------------------------------------------
(* Bindings *)

Halves == {Key!Then(k) : k \in KeySet}
Shows == Key!Bindings \cup {Key!Prompt} \cup Halves

LEMMA OneKey == ASSUME NEW v \in Key!Singles
                PROVE  Len(v) = 1 /\ v[1] \in KeySet /\ v = <<v[1]>>
  BY DEF Key!Singles

LEMMA TwoKeys == ASSUME NEW v \in Key!Pairs
                 PROVE  Len(v) = 2 /\ v[1] \in KeySet /\ v[2] \in KeySet /\ v = <<v[1], v[2]>>
  BY DEF Key!Pairs

LEMMA Lengths == ASSUME NEW v \in Key!Bindings PROVE Len(v) \in {1, 2}
  BY OneKey, TwoKeys DEF Key!Bindings

\* What a box shows in the middle of a recording is no binding.
LEMMA NoBinding ==
  ASSUME Key!KeysAssumption, NEW v \in {Key!Prompt} \cup Halves
  PROVE v \notin Key!Bindings
<1>1. CASE v = Key!Prompt
  <2>1. Len(v) = 3
    BY <1>1 DEF Key!Prompt
  <2> QED
    BY <2>1, Lengths
<1>2. CASE v \in Halves
  <2>1. Len(v) = 2 /\ v[2] = "then"
    BY <1>2 DEF Halves, Key!Then
  <2>2. v \notin Key!Singles
    BY <2>1, OneKey
  <2>3. v \notin Key!Pairs
    BY <2>1, TwoKeys DEF Key!KeysAssumption
  <2> QED
    BY <2>2, <2>3 DEF Key!Bindings
<1> QED
  BY <1>1, <1>2

LEMMA TwoInTurn == ASSUME NEW l \in KeySet, NEW k \in KeySet PROVE Append(<<l>>, k) = <<l, k>>
<1>1. <<l>> \in Seq(KeySet) /\ Len(<<l>>) = 1 /\ <<l>>[1] = l
  OBVIOUS
<1>2. Append(<<l>>, k) \in Seq(KeySet) /\ Len(Append(<<l>>, k)) = 2
      /\ Append(<<l>>, k)[1] = l /\ Append(<<l>>, k)[2] = k
  BY <1>1
<1>3. <<l, k>> \in Seq(KeySet) /\ Len(<<l, k>>) = 2 /\ <<l, k>>[1] = l /\ <<l, k>>[2] = k
  OBVIOUS
<1>4. \A i \in 1..2 : Append(<<l>>, k)[i] = <<l, k>>[i]
  BY <1>2, <1>3
<1> QED
  BY <1>2, <1>3, <1>4, SeqEqual

LEMMA ConflictIsMutual == ASSUME NEW v \in Key!Bindings, NEW w \in Key!Bindings, Key!Conflict(v, w)
                          PROVE  Key!Conflict(w, v)
  BY Lengths DEF Key!Conflict

-----------------------------------------------------------------------------
(* Sets of bindings *)

\* Each action has one of its shape or none, and no two are in each other's way.
Good(bs) ==
  /\ bs \in [Key!Actions -> Shows]
  /\ \A a \in Key!Actions : bs[a] \in Key!Bindings => bs[a] \in Key!Shape(a)
  /\ \A a, b \in Key!Actions :
       a # b /\ bs[a] \in Key!Bindings /\ bs[b] \in Key!Bindings => ~Key!Conflict(bs[a], bs[b])

LEMMA ValidIsGood == ASSUME Key!KeysAssumption, NEW bs \in Key!Sets
                     PROVE  Good(bs) /\ \A a \in Key!Actions : bs[a] \in Key!Shape(a)
<1>1. bs \in [Key!Actions -> Shows] /\ \A a \in Key!Actions : bs[a] \in Key!Shape(a)
  BY DEF Key!Sets, Shows, Key!Valid
<1>2. ASSUME NEW a \in Key!Actions, NEW b \in Key!Actions, a # b PROVE ~Key!Conflict(bs[a], bs[b])
  <2>1. bs[a] # bs[b]
    BY <1>2 DEF Key!Sets, Key!Valid
  <2>2. SUFFICES ASSUME Len(bs[a]) + Len(bs[b]) = 3, bs[a][1] = bs[b][1] PROVE FALSE
    BY <2>1 DEF Key!Conflict
  <2>3. CASE a \in Direct /\ b \in Sequenced
    BY <2>2, <2>3 DEF Key!Sets, Key!Valid
  <2>4. CASE b \in Direct /\ a \in Sequenced
    BY <2>2, <2>4 DEF Key!Sets, Key!Valid
  <2>5. CASE a \in Direct /\ b \in Direct
    <3>1. Len(bs[a]) = 1 /\ Len(bs[b]) = 1
      BY <1>1, <2>5, OneKey DEF Key!Shape
    <3> QED
      BY <2>2, <3>1
  <2>6. CASE a \in Sequenced /\ b \in Sequenced
    <3>1. Len(bs[a]) = 2 /\ Len(bs[b]) = 2
      BY <1>1, <2>6, TwoKeys DEF Key!Shape, Key!KeysAssumption
    <3> QED
      BY <2>2, <3>1
  <2> QED
    BY <2>3, <2>4, <2>5, <2>6 DEF Key!Actions
<1> QED
  BY <1>1, <1>2 DEF Good

\* A binding that clashes with none of the others may take its place among them.
LEMMA Taken ==
  ASSUME Key!KeysAssumption, NEW bs, Good(bs), NEW a \in Key!Actions, NEW v \in Key!Shape(a),
         ~Key!Clashes(bs, a, v)
  PROVE  Good([bs EXCEPT ![a] = v])
<1> DEFINE new == [bs EXCEPT ![a] = v]
<1>1. v \in Key!Bindings
  BY DEF Key!Shape, Key!Bindings
<1>2. new \in [Key!Actions -> Shows] /\ new[a] = v /\ \A b \in Key!Actions \ {a} : new[b] = bs[b]
  BY <1>1 DEF Good, Shows
<1> HIDE DEF new
<1>3. \A b \in Key!Actions : new[b] \in Key!Bindings => new[b] \in Key!Shape(b)
  BY <1>2 DEF Good
<1>4. ASSUME NEW b \in Key!Actions, NEW c \in Key!Actions, b # c,
             new[b] \in Key!Bindings, new[c] \in Key!Bindings
      PROVE  ~Key!Conflict(new[b], new[c])
  <2>1. CASE b = a
    BY <1>2, <1>4, <2>1 DEF Key!Clashes
  <2>2. CASE c = a
    <3>1. ~Key!Conflict(v, bs[b]) /\ new[b] = bs[b] /\ new[c] = v
      BY <1>2, <1>4, <2>2 DEF Key!Clashes
    <3> QED
      BY <1>1, <1>4, <3>1, ConflictIsMutual
  <2>3. CASE b # a /\ c # a
    BY <1>2, <1>4, <2>3 DEF Good
  <2> QED
    BY <2>1, <2>2, <2>3
<1>5. Good(new)
  BY <1>2, <1>3, <1>4 DEF Good
<1> QED
  BY <1>5 DEF new

\* A box that shows no binding is in nobody's way.
LEMMA Blanked == ASSUME Key!KeysAssumption, NEW bs, Good(bs), NEW a \in Key!Actions,
                        NEW v \in {Key!Prompt} \cup Halves
                 PROVE  Good([bs EXCEPT ![a] = v])
<1> DEFINE new == [bs EXCEPT ![a] = v]
<1>1. v \notin Key!Bindings
  BY NoBinding
<1>2. new \in [Key!Actions -> Shows] /\ new[a] = v /\ \A b \in Key!Actions \ {a} : new[b] = bs[b]
  BY DEF Good, Shows
<1> HIDE DEF new
<1>3. \A b \in Key!Actions : new[b] \in Key!Bindings => b # a /\ new[b] = bs[b]
  BY <1>1, <1>2
<1>4. Good(new)
  BY <1>2, <1>3 DEF Good
<1> QED
  BY <1>4 DEF new

\* The dispatcher reaches each of them: the prefix of a pair is nobody's key and waits for
\* the second, a single key is nobody's prefix.
LEMMA GoodIsReached ==
  ASSUME Key!KeysAssumption, NEW bs, Good(bs), \A b \in Key!Actions : bs[b] \in Key!Bindings,
         NEW a \in Key!Actions, ~Key!ShiftBetween(bs[a])
  PROVE  Key!Typed(bs, bs[a]) = {a}
<1> DEFINE v == bs[a]
<1>1. \A b \in Key!Actions : b # a => bs[b] # v /\ ~(Len(bs[b]) + Len(v) = 3 /\ bs[b][1] = v[1])
  BY DEF Good, Key!Conflict
<1>2. CASE v \in Key!Singles
  <2>1. Len(v) = 1 /\ Len(v) # 2 /\ v[1] \in KeySet /\ v = <<v[1]>>
    BY <1>2, OneKey
  <2>2. v[1] \notin Key!Prefixes(bs)
    <3>1. ASSUME NEW b \in Key!Actions, Len(bs[b]) = 2 PROVE bs[b][1] # v[1]
      <4>1. b # a
        BY <2>1, <3>1
      <4>2. Len(bs[b]) + Len(v) = 3
        BY <2>1, <3>1
      <4> HIDE DEF v
      <4> QED
        BY <1>1, <4>1, <4>2, Zenon
    <3> QED
      BY <3>1 DEF Key!Prefixes
  <2>3. {b \in Key!Actions : bs[b] = <<v[1]>>} = {a}
    BY <1>1, <2>1
  <2> HIDE DEF v
  <2>4. Key!Runs(bs, "", v[1]) = {a}
    BY <2>2, <2>3, Zenon DEF Key!Runs
  <2>5. Key!Typed(bs, v) = {a} \cup {}
    BY <2>1, <2>4, Zenon DEF Key!Typed
  <2> QED
    BY <2>5 DEF v
<1>3. CASE v \in Key!Pairs
  <2>1. Len(v) = 2 /\ v[1] \in KeySet /\ v = <<v[1], v[2]>>
    BY <1>3, TwoKeys
  <2>2. v[1] # ""
    BY <2>1 DEF Key!KeysAssumption
  <2>3. {b \in Key!Actions : bs[b] = <<v[1], v[2]>>} = {a}
    <3>1. \A b \in Key!Actions : bs[b] = <<v[1], v[2]>> <=> b = a
      <4>1. \A b \in Key!Actions : bs[b] = v <=> b = a
        BY <1>1
      <4> HIDE DEF v
      <4> QED
        BY <2>1, <4>1, Zenon
    <3> QED
      BY <3>1
  <2>4. Key!Runs(bs, v[1], v[2]) = {a}
    BY <2>2, <2>3 DEF Key!Runs
  <2>5. v[1] \in Key!Prefixes(bs)
    BY <2>1 DEF Key!Prefixes
  <2> HIDE DEF v
  <2>6. Key!Runs(bs, "", v[1]) = {} /\ Key!After(bs, "", v[1]) = v[1]
    BY <2>5, Zenon DEF Key!Runs, Key!After
  <2>7. ~Key!ShiftBetween(v)
    BY Zenon DEF v
  <2>8. Key!Typed(bs, v) = {} \cup {a}
    BY <2>1, <2>4, <2>6, <2>7, Zenon DEF Key!Typed
  <2> QED
    BY <2>8 DEF v
<1>4. v \in Key!Singles \/ v \in Key!Pairs
  BY DEF Key!Bindings
<1> QED
  BY <1>2, <1>3, <1>4

-----------------------------------------------------------------------------
(* The recorder *)

\* Without its recording the form shows bindings none of which is in another's way;
\* the box being recorded shows none, and its keys fall short of one.
BoxesInv ==
  /\ boxes \in [Key!Actions -> Shows] /\ before \in [Key!Actions -> Shows]
  /\ Good(Key!Restored)
DefaultInv == Good(default) /\ \A a \in Key!Actions : default[a] \in Key!Shape(a)
RecordingInv ==
  /\ recording \in Key!Actions \cup {"none"}
  /\ recording # "none" =>
       /\ boxes[recording] \in {Key!Prompt} \cup Halves
       /\ keys = <<>> \/ (recording \in Sequenced /\ \E k \in KeySet : keys = <<k>>)

KeyInv == BoxesInv /\ DefaultInv /\ RecordingInv

LEMMA KeyInit == ASSUME Key!KeysAssumption, Key!Init PROVE KeyInv
<1>1. Good(default) /\ Good(live) /\ \A a \in Key!Actions : default[a] \in Key!Shape(a)
  BY ValidIsGood DEF Key!Init
<1>2. Key!Restored = live /\ boxes = live /\ before = live /\ recording = "none"
  BY DEF Key!Init, Key!Restored
<1> QED
  BY <1>1, <1>2 DEF KeyInv, BoxesInv, DefaultInv, RecordingInv, Good

\* The boxes as they stand, the one being recorded among them.
LEMMA BoxesAreGood == ASSUME Key!KeysAssumption, KeyInv PROVE Good(boxes)
<1>1. CASE recording = "none"
  BY <1>1 DEF KeyInv, BoxesInv, Key!Restored
<1>2. CASE recording # "none"
  <2>1. recording \in Key!Actions /\ boxes[recording] \in {Key!Prompt} \cup Halves
    BY <1>2 DEF KeyInv, RecordingInv
  <2>2. boxes = [Key!Restored EXCEPT ![recording] = boxes[recording]]
    BY <1>2, <2>1 DEF Key!Restored, KeyInv, BoxesInv
  <2>3. Good([Key!Restored EXCEPT ![recording] = boxes[recording]])
    BY <2>1, Blanked DEF KeyInv, BoxesInv
  <2> QED
    BY <2>2, <2>3
<1> QED
  BY <1>1, <1>2

\* Steps that end a recording, or find none, with good boxes.
LEMMA Rested == ASSUME KeyInv, recording' = "none", Good(boxes'),
                       before' \in [Key!Actions -> Shows], UNCHANGED default
                PROVE  KeyInv'
<1>1. Key!Restored' = boxes'
  BY DEF Key!Restored
<1>2. Good(Key!Restored)' /\ (boxes \in [Key!Actions -> Shows])'
  BY <1>1 DEF Good
<1> QED
  BY <1>2 DEF KeyInv, BoxesInv, DefaultInv, RecordingInv, Good

LEMMA BeginStep ==
  ASSUME Key!KeysAssumption, KeyInv, NEW a \in Key!Actions, Key!Begin(a)
  PROVE KeyInv'
<1>1. Key!Restored \in [Key!Actions -> Shows]
  BY DEF KeyInv, BoxesInv, Good
<1>2. /\ boxes' = [Key!Restored EXCEPT ![a] = Key!Prompt]
      /\ before' = [before EXCEPT ![a] = Key!Restored[a]]
      /\ recording' = a /\ keys' = <<>> /\ default' = default
  BY DEF Key!Begin
<1>3. a # "none"
  BY DEF Key!KeysAssumption, Key!Actions
<1>4. boxes' \in [Key!Actions -> Shows] /\ before' \in [Key!Actions -> Shows]
      /\ boxes'[a] = Key!Prompt
      /\ before'[a] = Key!Restored[a]
  BY <1>1, <1>2 DEF KeyInv, BoxesInv, Shows
<1>5. [boxes' EXCEPT ![a] = before'[a]] = Key!Restored
  BY <1>1, <1>2, <1>4
<1>6. Key!Restored' = Key!Restored
  BY <1>2, <1>3, <1>5 DEF Key!Restored
<1>7. BoxesInv'
  BY <1>4, <1>6 DEF KeyInv, BoxesInv, Good
<1>8. DefaultInv'
  BY <1>2 DEF KeyInv, DefaultInv, Good
<1>9. RecordingInv'
  <2>1. recording' \in Key!Actions /\ boxes'[recording'] \in {Key!Prompt} /\ keys' = <<>>
    BY <1>2, <1>4
  <2> QED
    BY <2>1, Zenon DEF RecordingInv
<1> QED
  BY <1>7, <1>8, <1>9 DEF KeyInv

LEMMA ResetStep ==
  ASSUME Key!KeysAssumption, KeyInv, NEW a \in Key!Actions, Key!Reset(a)
  PROVE KeyInv'
<1>1. default[a] \in Key!Shape(a) /\ ~Key!Clashes(boxes, a, default[a])
      /\ boxes' = [boxes EXCEPT ![a] = default[a]]
      /\ recording' = "none" /\ UNCHANGED <<before, default>>
  BY DEF Key!Reset, KeyInv, DefaultInv
<1>2. Good(boxes')
  BY <1>1, BoxesAreGood, Taken
<1> QED
  BY <1>1, <1>2, Rested DEF KeyInv, BoxesInv

LEMMA RecordStep == ASSUME Key!KeysAssumption, KeyInv, NEW k \in KeySet, Key!Record(k) PROVE KeyInv'
<1> DEFINE a == recording
           v == Append(keys, k)
<1>1. /\ a \in Key!Actions /\ a # "none" /\ UNCHANGED <<before, default>>
      /\ keys = <<>> \/ (a \in Sequenced /\ \E l \in KeySet : keys = <<l>>)
  BY DEF Key!Record, KeyInv, RecordingInv
<1>2. CASE a \in Sequenced /\ Len(v) = 1
  <2>1. boxes' = [boxes EXCEPT ![a] = Key!Then(k)] /\ keys' = v /\ recording' = a
    BY <1>2 DEF Key!Record
  <2>2. keys' = <<k>>
    <3>1. CASE keys = <<>>
      BY <2>1, <3>1
    <3>2. ASSUME NEW l \in KeySet, keys = <<l>> PROVE FALSE
      <4>1. v = <<l, k>>
        BY <3>2, TwoInTurn
      <4> QED
        BY <1>2, <4>1
    <3> QED
      BY <1>1, <3>1, <3>2
  <2>3. boxes' \in [Key!Actions -> Shows] /\ boxes'[a] \in Halves
    BY <1>1, <2>1 DEF KeyInv, BoxesInv, Shows, Halves
  <2>4. [boxes' EXCEPT ![a] = before[a]] = [boxes EXCEPT ![a] = before[a]]
    BY <1>1, <2>1 DEF KeyInv, BoxesInv
  <2>5. Key!Restored' = Key!Restored
    BY <1>1, <2>1, <2>4 DEF Key!Restored
  <2>6. BoxesInv' /\ DefaultInv'
    BY <1>1, <2>3, <2>5 DEF KeyInv, BoxesInv, DefaultInv, Good
  <2>7. RecordingInv'
    <3>1. recording' \in Key!Actions /\ recording' \in Sequenced /\ boxes'[recording'] \in Halves
      BY <1>1, <1>2, <2>1, <2>3
    <3> HIDE DEF a, v
    <3> QED
      BY <2>2, <3>1 DEF RecordingInv
  <2> QED
    BY <2>6, <2>7 DEF KeyInv
<1>3. CASE ~(a \in Sequenced /\ Len(v) = 1)
  <2>1. /\ keys' = <<>>
        /\ IF Key!Clashes(boxes, a, v)
             THEN boxes' = [boxes EXCEPT ![a] = Key!Prompt] /\ recording' = a
             ELSE boxes' = [boxes EXCEPT ![a] = v] /\ recording' = "none"
    BY <1>3 DEF Key!Record
  <2>2. v \in Key!Shape(a)
    <3>1. CASE keys = <<>>
      <4>1. v = <<k>> /\ Len(v) = 1
        BY <3>1
      <4>2. a \in Direct
        BY <1>1, <1>3, <4>1 DEF Key!Actions
      <4> QED
        BY <4>1, <4>2 DEF Key!Shape, Key!Singles
    <3>2. CASE a \in Sequenced /\ \E l \in KeySet : keys = <<l>>
      <4>1. PICK l \in KeySet : keys = <<l>>
        BY <3>2
      <4>2. v = <<l, k>>
        BY <4>1, TwoInTurn
      <4>3. a \notin Direct
        BY <3>2 DEF Key!KeysAssumption
      <4> QED
        BY <4>2, <4>3 DEF Key!Shape, Key!Pairs
    <3> QED
      BY <1>1, <3>1, <3>2
  <2>3. CASE Key!Clashes(boxes, a, v)
    <3>1. boxes' = [boxes EXCEPT ![a] = Key!Prompt] /\ recording' = a
      BY <2>1, <2>3
    <3>2. boxes' \in [Key!Actions -> Shows] /\ boxes'[a] = Key!Prompt
      BY <1>1, <3>1 DEF KeyInv, BoxesInv, Shows
    <3>3. [boxes' EXCEPT ![a] = before[a]] = [boxes EXCEPT ![a] = before[a]]
      BY <1>1, <3>1 DEF KeyInv, BoxesInv
    <3>4. Key!Restored' = Key!Restored
      BY <1>1, <3>1, <3>3 DEF Key!Restored
    <3>5. BoxesInv' /\ DefaultInv'
      BY <1>1, <3>2, <3>4 DEF KeyInv, BoxesInv, DefaultInv, Good
    <3>6. RecordingInv'
      <4>1. recording' \in Key!Actions /\ boxes'[recording'] \in {Key!Prompt} /\ keys' = <<>>
        BY <1>1, <2>1, <3>1, <3>2
      <4> QED
        BY <4>1, Zenon DEF RecordingInv
    <3> QED
      BY <3>5, <3>6 DEF KeyInv
  <2>4. CASE ~Key!Clashes(boxes, a, v)
    <3>1. Good(boxes') /\ recording' = "none"
      BY <1>1, <2>1, <2>2, <2>4, BoxesAreGood, Taken
    <3> QED
      BY <1>1, <3>1, Rested DEF KeyInv, BoxesInv
  <2> QED
    BY <2>3, <2>4
<1> QED
  BY <1>2, <1>3

LEMMA KeyStep == ASSUME Key!KeysAssumption, KeyInv, [Key!Next]_Key!keyVars PROVE KeyInv'
<1>1. CASE \E a \in Key!Actions : Key!Begin(a) \/ Key!Reset(a)
  BY <1>1, BeginStep, ResetStep
<1>2. CASE Key!ResetAll
  BY <1>2, Rested DEF Key!ResetAll, KeyInv, BoxesInv, DefaultInv
<1>3. CASE Key!Escape
  BY <1>3, Rested DEF Key!Escape, KeyInv, BoxesInv
<1>4. CASE Key!Submit
  <2>1. boxes' = Key!Restored /\ recording' = "none" /\ default' = default
        /\ (before' = boxes' \/ before' = before)
    BY <1>4 DEF Key!Submit
  <2>2. Good(boxes') /\ before' \in [Key!Actions -> Shows]
    BY <2>1 DEF KeyInv, BoxesInv, Good
  <2> QED
    BY <2>1, <2>2, Rested
<1>5. CASE \E k \in KeySet : Key!Record(k)
  BY <1>5, RecordStep
<1>6. CASE (\E k \in KeySet \cup {"Shift"} : Key!Press(k)) \/ Key!Forgotten \/ UNCHANGED Key!keyVars
  <2>1. UNCHANGED <<default, boxes, before, recording, keys>>
    BY <1>6 DEF Key!Press, Key!Forgotten, Key!keyVars
  <2> QED
    BY <2>1 DEF KeyInv, BoxesInv, DefaultInv, RecordingInv, Good, Key!Restored
<1> QED
  BY <1>1, <1>2, <1>3, <1>4, <1>5, <1>6 DEF Key!Next

\* Whatever is recorded, left half recorded, reset and saved, the bindings the form would
\* post are all reached by the dispatcher, unless Shift goes down between their keys, for any
\* actions and keys (the recorder and bindingConflict against the keydown handler).
LEMMA KeyReached == ASSUME Key!KeysAssumption PROVE Key!Spec => []Key!EveryBindingIsReached
<1>1. Key!Init => KeyInv
  BY KeyInit
<1>2. KeyInv /\ [Key!Next]_Key!keyVars => KeyInv'
  BY KeyStep
<1>3. KeyInv => Key!EveryBindingIsReached
  <2> SUFFICES ASSUME KeyInv, \A a \in Key!Actions : Key!Restored[a] \in Key!Bindings
               PROVE  Key!EveryBindingIsReached
    BY DEF Key!EveryBindingIsReached
  <2>1. Good(Key!Restored)
    BY DEF KeyInv, BoxesInv
  <2> QED
    BY <2>1, GoodIsReached, Zenon DEF Key!EveryBindingIsReached
<1> QED
  BY <1>1, <1>2, <1>3, PTL DEF Key!Spec

-----------------------------------------------------------------------------

\* Every binding the settings page would post runs its action when typed, and no other, unless
\* Shift goes down between its keys (app.js, the recorder and the keydown handler), whatever
\* the other parts of the page do.
THEOREM Reached == Spec => []EveryBindingIsReached
<1>1. Key!KeysAssumption
  BY PartsAssumption
<1>2. Key!Spec => []Key!EveryBindingIsReached
  BY <1>1, KeyReached
<1>3. Key!EveryBindingIsReached <=> EveryBindingIsReached
  BY Zenon DEF EveryBindingIsReached
<1> QED
  BY <1>2, <1>3, KeyMoves, PTL

-----------------------------------------------------------------------------
(* The row gestures: Gestures *)

\* Seen from the gestures, the page's steps are theirs or none.
LEMMA GestureMoves == Spec => Gesture!Spec
<1>1. Init => Gesture!Init
  BY DEF Init
<1>2. [Next]_pageVars => [Gesture!Next]_Gesture!gestureVars
  BY DEF Next, pageVars, gesturePart, Gesture!gestureVars
<1> QED
  BY <1>1, <1>2, PTL DEF Spec, Gesture!Spec


\* The instance brings its own copy of the library's count; they agree.
LEMMA SameCount == \A S : Gesture!Cardinality(S) = Cardinality(S)
  BY Zenon DEF Gesture!Cardinality, Cardinality


-----------------------------------------------------------------------------
(* The invariant *)

HeldOn(r) == {t \in timers : t.on[1] = r}
Taps(r) == tally.opened[r] + 2 * tally.doubled[r] + Cardinality(HeldOn(r))
Claim(r) == IF press.by # "none" /\ press.on[1] = r THEN 1 ELSE 0
TapClaim(r) == IF press.by # "none" /\ press.on[1] = r /\ ~press.ctx THEN 1 ELSE 0

TallyType == tally \in [Gesture!Deeds -> [Rows -> Nat]]

\* A press is on a row, and what it would swipe is that row; only a finger opens
\* the menu.
PressInv ==
  /\ press \in [by : {"none", "touch", "mouse"}, on : Gesture!Elements,
                ctx : BOOLEAN, scroll : BOOLEAN]
  /\ press.by # "none" => press.on \in Rows \X (0..MaxRenders)
  /\ press.by # "none" /\ axis # "v" => swRow = press.on
  /\ press.by = "mouse" => ~press.ctx

\* The tap a second one would take back is still held.
HeldInv ==
  /\ IsFiniteSet(timers)
  /\ pending.on # Gesture!NoRow => \E t \in timers : t.id = pending.timer /\ t.on = pending.on

BudgetOf(r) ==
  /\ Taps(r) + tally.swiped[r] + Claim(r) <= tally.begun[r]
  /\ Taps(r) + tally.menu[r] + TapClaim(r) <= tally.begun[r]
Budget == \A r \in Rows : BudgetOf(r)

GestureInv == render \in 0..MaxRenders /\ TallyType /\ PressInv /\ HeldInv /\ Budget

-----------------------------------------------------------------------------
(* Counting *)

\* What a step does not count stays.
LEMMA Uncounted ==
  ASSUME NEW deeds, NEW el, Gesture!Did(deeds, el), NEW e \in Gesture!Deeds, e \notin deeds
  PROVE  tally'[e] = tally[e]
<1> DEFINE f == [d \in Gesture!Deeds |->
                  IF d \in deeds THEN [tally[d] EXCEPT ![el[1]] = tally[d][el[1]] + 1] ELSE tally[d]]
<1>1. tally' = f
  BY DEF Gesture!Did
<1>2. f[e] = tally[e]
  OBVIOUS
<1> HIDE DEF f
<1> QED
  BY <1>1, <1>2

LEMMA Counted ==
  ASSUME TallyType, NEW deeds, NEW el, el[1] \in Rows, Gesture!Did(deeds, el)
  PROVE  /\ TallyType'
         /\ \A d \in Gesture!Deeds :
              d \in deeds => /\ tally'[d][el[1]] = tally[d][el[1]] + 1
                            /\ \A r \in Rows : r # el[1] => tally'[d][r] = tally[d][r]
         /\ \A e \in Gesture!Deeds \ deeds : tally'[e] = tally[e]
<1>1. ASSUME NEW d \in Gesture!Deeds
      PROVE  /\ tally[d] \in [Rows -> Nat]
             /\ [tally[d] EXCEPT ![el[1]] = tally[d][el[1]] + 1] \in [Rows -> Nat]
  <2>1. tally[d] \in [Rows -> Nat]
    BY DEF TallyType
  <2> QED
    BY <2>1
<1>2. \A d \in Gesture!Deeds :
        tally'[d] = IF d \in deeds THEN [tally[d] EXCEPT ![el[1]] = tally[d][el[1]] + 1] ELSE tally[d]
  BY DEF Gesture!Did
<1>3. TallyType'
  <2>1. tally' = [d \in Gesture!Deeds |-> tally'[d]]
    BY DEF Gesture!Did
  <2>2. \A d \in Gesture!Deeds : tally'[d] \in [Rows -> Nat]
    BY <1>1, <1>2
  <2> QED
    BY <2>1, <2>2 DEF TallyType
<1> QED
  BY <1>1, <1>2, <1>3

LEMMA HeldIsCounted ==
  ASSUME IsFiniteSet(timers), NEW r
  PROVE  IsFiniteSet(HeldOn(r)) /\ Cardinality(HeldOn(r)) \in Nat
<1>1. HeldOn(r) \subseteq timers
  BY DEF HeldOn
<1> QED
  BY <1>1, FS_Subset, FS_CardinalityType

LEMMA FewerHeld ==
  ASSUME IsFiniteSet(timers), timers' \subseteq timers, NEW r
  PROVE  Cardinality(HeldOn(r)') <= Cardinality(HeldOn(r)) /\ Cardinality(HeldOn(r)') \in Nat
<1>1. HeldOn(r)' \subseteq HeldOn(r)
  BY DEF HeldOn
<1> QED
  BY <1>1, HeldIsCounted, FS_Subset, FS_CardinalityType

LEMMA OneGone ==
  ASSUME IsFiniteSet(timers), timers' \subseteq timers, NEW t \in timers \ timers'
  PROVE  Cardinality(HeldOn(t.on[1])') <= Cardinality(HeldOn(t.on[1])) - 1
<1> DEFINE s == HeldOn(t.on[1])
<1>1. t \in s /\ s' \subseteq s \ {t}
  BY DEF HeldOn
<1>2. IsFiniteSet(s) /\ Cardinality(s) \in Nat
  BY HeldIsCounted
<1> HIDE DEF s
<1>3. IsFiniteSet(s \ {t}) /\ Cardinality(s \ {t}) = Cardinality(s) - 1
  BY <1>1, <1>2, FS_RemoveElement
<1>4. Cardinality(s') <= Cardinality(s \ {t})
  BY <1>1, <1>3, FS_Subset
<1> QED
  BY <1>2, <1>3, <1>4 DEF s

LEMMA OneMore ==
  ASSUME IsFiniteSet(timers), NEW t, timers' = timers \cup {t}, NEW r
  PROVE  /\ IsFiniteSet(timers')
         /\ Cardinality(HeldOn(r)') \in Nat
         /\ Cardinality(HeldOn(r)') <= Cardinality(HeldOn(r)) + 1
         /\ r # t.on[1] => HeldOn(r)' = HeldOn(r)
<1>1. IsFiniteSet(HeldOn(r)) /\ Cardinality(HeldOn(r)) \in Nat
  BY HeldIsCounted
<1>2. IsFiniteSet(timers')
  BY FS_AddElement
<1>3. CASE t.on[1] = r
  <2>1. HeldOn(r)' = HeldOn(r) \cup {t}
    BY <1>3 DEF HeldOn
  <2>2. \/ Cardinality(HeldOn(r)') = Cardinality(HeldOn(r))
        \/ Cardinality(HeldOn(r)') = Cardinality(HeldOn(r)) + 1
    BY <1>1, <2>1, FS_AddElement
  <2> QED
    BY <1>1, <1>2, <1>3, <2>2
<1>4. CASE t.on[1] # r
  <2>1. HeldOn(r)' = HeldOn(r)
    BY <1>4 DEF HeldOn
  <2> QED
    BY <1>1, <1>2, <2>1
<1> QED
  BY <1>3, <1>4

-----------------------------------------------------------------------------
(* The steps *)

LEMMA GestureInit == ASSUME Gesture!GestureAssumption, Gesture!Init PROVE GestureInv
<1>1. TallyType /\ PressInv /\ render \in 0..MaxRenders
  BY DEF Gesture!Init, TallyType, PressInv, Gesture!NoPress, Gesture!Elements,
     Gesture!GestureAssumption
<1>2. HeldInv
  BY FS_EmptySet DEF Gesture!Init, HeldInv, Gesture!NotPending
<1>3. ASSUME NEW r \in Rows PROVE Taps(r) = 0 /\ Claim(r) = 0 /\ TapClaim(r) = 0
                                  /\ tally.swiped[r] = 0 /\ tally.menu[r] = 0 /\ tally.begun[r] = 0
  <2>1. HeldOn(r) = {}
    BY DEF HeldOn, Gesture!Init
  <2> QED
    BY <2>1, FS_EmptySet DEF Gesture!Init, Taps, Claim, TapClaim, Gesture!NoPress, Gesture!Deeds
<1> QED
  BY <1>1, <1>2, <1>3 DEF GestureInv, Budget, BudgetOf

\* The claims and counts of a row are numbers.
LEMMA Numbers ==
  ASSUME TallyType, HeldInv, NEW r \in Rows
  PROVE  /\ \A d \in Gesture!Deeds : tally[d][r] \in Nat
         /\ Cardinality(HeldOn(r)) \in Nat /\ Taps(r) \in Nat
         /\ Claim(r) \in 0..1 /\ TapClaim(r) \in 0..1 /\ TapClaim(r) <= Claim(r)
<1>1. \A d \in Gesture!Deeds : tally[d][r] \in Nat
  BY DEF TallyType
<1>2. Cardinality(HeldOn(r)) \in Nat
  BY HeldIsCounted DEF HeldInv
<1> QED
  BY <1>1, <1>2 DEF Taps, Claim, TapClaim, Gesture!Deeds

\* A press begins: one more claim, and one more begun.
LEMMA DownStep ==
  ASSUME Gesture!GestureAssumption, GestureInv, NEW r \in Rows, NEW by \in {"touch", "mouse"},
         Gesture!PressDown(r, by)
  PROVE  GestureInv'
<1>1. Gesture!Did({"begun"}, <<r, render>>) /\ <<r, render>>[1] = r /\ press.by = "none"
      /\ UNCHANGED <<render, pending, timers>>
  BY DEF Gesture!PressDown
<1>2. /\ TallyType'
      /\ tally'.begun[r] = tally.begun[r] + 1
      /\ \A s \in Rows : s # r => tally'.begun[s] = tally.begun[s]
      /\ \A e \in Gesture!Deeds \ {"begun"} : tally'[e] = tally[e]
  BY <1>1, Counted DEF GestureInv, Gesture!Deeds
<1>3. press'.by = by /\ press'.on = <<r, render>> /\ ~press'.ctx /\ swRow' = press'.on
  BY DEF Gesture!PressDown
<1>4. PressInv'
  BY DEF Gesture!PressDown, PressInv, GestureInv, Gesture!Elements
<1>5. HeldInv'
  BY <1>1 DEF HeldInv, GestureInv
<1>6. ASSUME NEW s \in Rows PROVE BudgetOf(s)'
  <2>1. HeldOn(s)' = HeldOn(s)
    BY <1>1 DEF HeldOn
  <2>2. Taps(s)' = Taps(s) /\ tally'.swiped[s] = tally.swiped[s] /\ tally'.menu[s] = tally.menu[s]
    BY <1>2, <2>1 DEF Taps, Gesture!Deeds
  <2>3. /\ Claim(s) = 0 /\ TapClaim(s) = 0
        /\ Claim(s)' = (IF s = r THEN 1 ELSE 0) /\ TapClaim(s)' = (IF s = r THEN 1 ELSE 0)
    BY <1>1, <1>3 DEF Claim, TapClaim
  <2>4. /\ Taps(s) \in Nat /\ \A d \in Gesture!Deeds : tally[d][s] \in Nat
    BY Numbers DEF GestureInv
  <2> QED
    BY <1>2, <2>2, <2>3, <2>4 DEF BudgetOf, Budget, GestureInv, Gesture!Deeds
<1> QED
  BY <1>1, <1>2, <1>4, <1>5, <1>6 DEF GestureInv, Budget

\* A press that ends may come to what it claimed and no more.
LEMMA Lifted ==
  ASSUME GestureInv, press' = Gesture!NoPress, render' = render, tally'.begun = tally.begun,
         TallyType', HeldInv',
         \A r \in Rows :
           /\ Taps(r)' + tally'.swiped[r] <= Taps(r) + tally.swiped[r] + Claim(r)
           /\ Taps(r)' + tally'.menu[r] <= Taps(r) + tally.menu[r] + TapClaim(r)
  PROVE  GestureInv'
<1>1. PressInv'
  BY DEF PressInv, Gesture!NoPress, Gesture!Elements
<1>2. ASSUME NEW r \in Rows PROVE BudgetOf(r)'
  <2>1. Claim(r)' = 0 /\ TapClaim(r)' = 0
    BY DEF Claim, TapClaim, Gesture!NoPress
  <2>2. BudgetOf(r)
    BY DEF GestureInv, Budget
  <2>3. /\ Taps(r) \in Nat /\ Taps(r)' \in Nat
        /\ \A d \in Gesture!Deeds : tally[d][r] \in Nat /\ tally'[d][r] \in Nat
        /\ Claim(r) \in 0..1 /\ TapClaim(r) \in 0..1
    <3>1. (Taps(r) \in Nat)' /\ \A d \in Gesture!Deeds : tally'[d][r] \in Nat
      <4>1. \A d \in Gesture!Deeds : tally'[d][r] \in Nat
        BY DEF TallyType
      <4>2. IsFiniteSet(timers')
        BY DEF HeldInv
      <4>3. HeldOn(r)' \subseteq timers'
        BY DEF HeldOn
      <4>4. Cardinality(HeldOn(r)') \in Nat
        BY <4>2, <4>3, FS_Subset, FS_CardinalityType
      <4> QED
        BY <4>1, <4>4 DEF Taps, Gesture!Deeds
    <3> QED
      BY <3>1, Numbers DEF GestureInv
  <2> QED
    BY <2>1, <2>2, <2>3 DEF BudgetOf, Gesture!Deeds
<1> QED
  BY <1>1, <1>2 DEF GestureInv, Budget

\* Nothing came of it that counts against the press.
LEMMA QuietStep ==
  ASSUME GestureInv, press' = Gesture!NoPress, UNCHANGED <<render, pending, timers>>,
         TallyType', \A e \in Gesture!Deeds \ {"clicked", "again"} : tally'[e] = tally[e]
  PROVE  GestureInv'
<1>1. HeldInv'
  BY DEF GestureInv, HeldInv
<1>2. ASSUME NEW r \in Rows
      PROVE  /\ Taps(r)' + tally'.swiped[r] <= Taps(r) + tally.swiped[r] + Claim(r)
             /\ Taps(r)' + tally'.menu[r] <= Taps(r) + tally.menu[r] + TapClaim(r)
  <2>1. Taps(r)' = Taps(r) /\ tally'.swiped = tally.swiped /\ tally'.menu = tally.menu
    BY DEF Taps, HeldOn, Gesture!Deeds
  <2> QED
    BY <2>1, Numbers DEF GestureInv, Gesture!Deeds
<1> QED
  BY <1>1, <1>2, Lifted DEF Gesture!Deeds

\* The press swiped its row.
LEMMA SwipedStep ==
  ASSUME Gesture!GestureAssumption, GestureInv, press.by # "none", press' = Gesture!NoPress,
         NEW deeds \in SUBSET {"swiped", "clicked", "again"}, "swiped" \in deeds,
         Gesture!Did(deeds, press.on), UNCHANGED <<render, pending, timers>>
  PROVE  GestureInv'
<1> DEFINE p == press.on[1]
<1>1. p \in Rows
  BY DEF GestureInv, PressInv
<1>2. /\ TallyType'
      /\ tally'.swiped[p] = tally.swiped[p] + 1
      /\ \A s \in Rows : s # p => tally'.swiped[s] = tally.swiped[s]
      /\ \A e \in Gesture!Deeds \ {"swiped", "clicked", "again"} : tally'[e] = tally[e]
  BY <1>1, Counted DEF GestureInv, Gesture!Deeds
<1>3. HeldInv'
  BY DEF HeldInv, GestureInv
<1>4. ASSUME NEW r \in Rows
      PROVE  /\ Taps(r)' + tally'.swiped[r] <= Taps(r) + tally.swiped[r] + Claim(r)
             /\ Taps(r)' + tally'.menu[r] <= Taps(r) + tally.menu[r] + TapClaim(r)
  <2>1. Taps(r)' = Taps(r) /\ tally'.menu[r] = tally.menu[r]
    BY <1>2 DEF Taps, HeldOn, Gesture!Deeds
  <2>2. /\ Taps(r) \in Nat /\ (\A d \in Gesture!Deeds : tally[d][r] \in Nat)
        /\ Claim(r) \in 0..1 /\ TapClaim(r) \in 0..1 /\ (r = p => Claim(r) = 1)
    BY Numbers DEF GestureInv, Claim
  <2> QED
    BY <1>2, <2>1, <2>2 DEF Gesture!Deeds
<1> QED
  BY <1>2, <1>3, <1>4, Lifted DEF Gesture!Deeds

\* The press opened its row.
LEMMA OpenedStep ==
  ASSUME GestureInv, press.by # "none", ~press.ctx, press' = Gesture!NoPress,
         NEW deeds \in SUBSET {"opened", "clicked", "again"}, "opened" \in deeds,
         Gesture!Did(deeds, press.on), UNCHANGED <<render, pending, timers>>
  PROVE  GestureInv'
<1> DEFINE p == press.on[1]
<1>1. p \in Rows
  BY DEF GestureInv, PressInv
<1>2. /\ TallyType'
      /\ tally'.opened[p] = tally.opened[p] + 1
      /\ \A s \in Rows : s # p => tally'.opened[s] = tally.opened[s]
      /\ \A e \in Gesture!Deeds \ {"opened", "clicked", "again"} : tally'[e] = tally[e]
  BY <1>1, Counted DEF GestureInv, Gesture!Deeds
<1>3. HeldInv'
  BY DEF HeldInv, GestureInv
<1>4. ASSUME NEW r \in Rows
      PROVE  /\ Taps(r)' + tally'.swiped[r] <= Taps(r) + tally.swiped[r] + Claim(r)
             /\ Taps(r)' + tally'.menu[r] <= Taps(r) + tally.menu[r] + TapClaim(r)
  <2>1. /\ Taps(r) \in Nat /\ (\A d \in Gesture!Deeds : tally[d][r] \in Nat)
        /\ Cardinality(HeldOn(r)) \in Nat
        /\ Claim(r) \in 0..1 /\ TapClaim(r) \in 0..1
        /\ (r = p => Claim(r) = 1 /\ TapClaim(r) = 1)
    BY Numbers DEF GestureInv, Claim, TapClaim
  <2>2. Taps(r)' = IF r = p THEN Taps(r) + 1 ELSE Taps(r)
    <3>1. HeldOn(r)' = HeldOn(r)
      BY DEF HeldOn
    <3> QED
      BY <1>2, <2>1, <3>1 DEF Taps, Gesture!Deeds
  <2>3. tally'.swiped[r] = tally.swiped[r] /\ tally'.menu[r] = tally.menu[r]
    BY <1>2 DEF Gesture!Deeds
  <2> QED
    BY <2>1, <2>2, <2>3 DEF Gesture!Deeds
<1> QED
  BY <1>2, <1>3, <1>4, Lifted DEF Gesture!Deeds

\* The press was a first tap, which is held.
LEMMA FirstTapStep ==
  ASSUME GestureInv, press.by # "none", ~press.ctx, press' = Gesture!NoPress,
         Gesture!FirstTap(press.on), UNCHANGED render
  PROVE  GestureInv'
<1> DEFINE p == press.on[1]
<1>1. PICK t : /\ timers' = timers \cup {t} /\ t.on = press.on
               /\ pending' = [on |-> press.on, timer |-> t.id] /\ tally' = tally
  <2> DEFINE id == CHOOSE n \in 1..(Gesture!Cardinality(timers) + 1) : \A u \in timers : u.id # n
  <2>1. /\ timers' = timers \cup {[id |-> id, on |-> press.on]}
        /\ pending' = [on |-> press.on, timer |-> id] /\ tally' = tally
    BY Zenon DEF Gesture!FirstTap
  <2> HIDE DEF id
  <2> QED
    BY <2>1
<1>2. IsFiniteSet(timers')
  BY <1>1, OneMore DEF GestureInv, HeldInv
<1>3. HeldInv'
  BY <1>1, <1>2 DEF HeldInv
<1>4. TallyType' /\ tally'.begun = tally.begun
  BY <1>1 DEF GestureInv, TallyType
<1>5. ASSUME NEW r \in Rows
      PROVE  /\ Taps(r)' + tally'.swiped[r] <= Taps(r) + tally.swiped[r] + Claim(r)
             /\ Taps(r)' + tally'.menu[r] <= Taps(r) + tally.menu[r] + TapClaim(r)
  <2>1. /\ (\A d \in Gesture!Deeds : tally[d][r] \in Nat)
        /\ Cardinality(HeldOn(r)) \in Nat
        /\ Claim(r) \in 0..1 /\ TapClaim(r) \in 0..1
        /\ (r = p => Claim(r) = 1 /\ TapClaim(r) = 1)
    BY Numbers DEF GestureInv, Claim, TapClaim
  <2>2. /\ Cardinality(HeldOn(r)') \in Nat
        /\ Cardinality(HeldOn(r)') <= Cardinality(HeldOn(r)) + 1
        /\ (r # p => Cardinality(HeldOn(r)') = Cardinality(HeldOn(r)))
    BY <1>1, OneMore DEF GestureInv, HeldInv
  <2> QED
    BY <1>1, <2>1, <2>2 DEF Taps, Gesture!Deeds
<1> QED
  BY <1>3, <1>4, <1>5, Lifted

\* The press was a second tap: the first is given back, and both count.
LEMMA SecondTapStep ==
  ASSUME GestureInv, press.by # "none", ~press.ctx, press' = Gesture!NoPress,
         press.on # Gesture!NoRow, pending.on = press.on, Gesture!SecondTap(press.on),
         UNCHANGED render
  PROVE  GestureInv'
<1> DEFINE p == press.on[1]
<1>1. p \in Rows /\ Gesture!Did({"doubled"}, press.on) /\ timers' \subseteq timers
      /\ pending' = Gesture!NotPending
  BY DEF GestureInv, PressInv, Gesture!SecondTap
<1>2. /\ TallyType'
      /\ tally'.doubled[p] = tally.doubled[p] + 1
      /\ \A s \in Rows : s # p => tally'.doubled[s] = tally.doubled[s]
      /\ \A e \in Gesture!Deeds \ {"doubled"} : tally'[e] = tally[e]
  BY <1>1, Counted DEF GestureInv, Gesture!Deeds
<1>3. HeldInv'
  BY <1>1, FS_Subset DEF HeldInv, GestureInv, Gesture!NotPending
<1>4. PICK t \in timers : t.id = pending.timer /\ t.on = press.on
  BY DEF GestureInv, HeldInv
<1>5. t \in timers \ timers'
  BY <1>4 DEF Gesture!SecondTap
<1>6. ASSUME NEW r \in Rows
      PROVE  /\ Taps(r)' + tally'.swiped[r] <= Taps(r) + tally.swiped[r] + Claim(r)
             /\ Taps(r)' + tally'.menu[r] <= Taps(r) + tally.menu[r] + TapClaim(r)
  <2>1. /\ (\A d \in Gesture!Deeds : tally[d][r] \in Nat)
        /\ Cardinality(HeldOn(r)) \in Nat
        /\ Claim(r) \in 0..1 /\ TapClaim(r) \in 0..1
        /\ (r = p => Claim(r) = 1 /\ TapClaim(r) = 1)
    BY Numbers DEF GestureInv, Claim, TapClaim
  <2>2. /\ Cardinality(HeldOn(r)') \in Nat
        /\ Cardinality(HeldOn(r)') <= Cardinality(HeldOn(r))
    BY <1>1, FewerHeld DEF GestureInv, HeldInv
  <2>3. r = p => Cardinality(HeldOn(r)') <= Cardinality(HeldOn(r)) - 1
    BY <1>1, <1>4, <1>5, OneGone DEF GestureInv, HeldInv
  <2> QED
    BY <1>2, <2>1, <2>2, <2>3 DEF Taps, Gesture!Deeds
<1> QED
  BY <1>2, <1>3, <1>6, Lifted DEF Gesture!Deeds

\* What a swipe would move is what the press is on.
LEMMA SwipesItsOwn ==
  ASSUME GestureInv, press.by # "none", Gesture!Swiping
  PROVE  swRow = press.on
  BY DEF GestureInv, PressInv, Gesture!Swiping

LEMMA TouchEndStep ==
  ASSUME Gesture!GestureAssumption, GestureInv, Gesture!TouchEnd
  PROVE GestureInv'
<1>1. /\ press.by # "none" /\ press.on # Gesture!NoRow
      /\ press' = Gesture!NoPress /\ UNCHANGED render
  BY DEF Gesture!TouchEnd, Gesture!Attached
<1>2. CASE UNCHANGED <<pending, timers, tally>>
  BY <1>1, <1>2, QuietStep DEF GestureInv, TallyType
<1>3. CASE Gesture!SwipeEnds(TRUE) /\ UNCHANGED <<pending, timers>> /\ tally' # tally
  <2>1. Gesture!Did({"swiped"}, press.on)
    BY <1>1, <1>3, SwipesItsOwn DEF Gesture!SwipeEnds
  <2> QED
    BY <1>1, <1>3, <2>1, SwipedStep
<1>4. CASE ~Gesture!NoTap /\ Gesture!Tap(press.on)
  <2>1. ~press.ctx
    BY <1>4 DEF Gesture!NoTap
  <2>2. CASE Gesture!Did({"opened"}, press.on) /\ UNCHANGED <<pending, timers>>
    BY <1>1, <2>1, <2>2, OpenedStep
  <2>3. CASE pending.on = press.on /\ Gesture!SecondTap(press.on)
    BY <1>1, <2>1, <2>3, SecondTapStep
  <2>4. CASE Gesture!FirstTap(press.on)
    BY <1>1, <2>1, <2>4, FirstTapStep
  <2> QED
    BY <1>4, <2>2, <2>3, <2>4, Zenon DEF Gesture!Tap
<1> QED
  BY <1>2, <1>3, <1>4, Zenon DEF Gesture!TouchEnd

LEMMA MouseLeavesStep ==
  ASSUME Gesture!GestureAssumption, GestureInv, Gesture!MouseLeaves
  PROVE GestureInv'
<1>1. press' = Gesture!NoPress /\ UNCHANGED <<render, pending, timers, tally>>
  BY DEF Gesture!MouseLeaves, Gesture!SwipeEnds
<1> QED
  BY <1>1, QuietStep DEF GestureInv, TallyType

\* What a mouse press comes to when it is let go.
LEMMA MouseUpStep ==
  ASSUME Gesture!GestureAssumption, GestureInv, Gesture!MouseUp
  PROVE GestureInv'
<1>1. press.by = "mouse" /\ press.by # "none" /\ ~press.ctx /\ press' = Gesture!NoPress
      /\ UNCHANGED <<render, pending, timers>>
  BY DEF Gesture!MouseUp, GestureInv, PressInv
<1>2. PICK deeds \in SUBSET {"swiped", "clicked", "opened", "again"} :
        /\ "swiped" \in deeds => Gesture!Swiping
        /\ "opened" \in deeds => ~Gesture!Swiping
        /\ Gesture!Did(deeds, press.on)
  BY Zenon DEF Gesture!MouseUp
<1>3. press.on[1] \in Rows
  BY <1>1 DEF GestureInv, PressInv
<1>4. CASE "swiped" \in deeds
  <2>1. deeds \in SUBSET {"swiped", "clicked", "again"}
    BY <1>2, <1>4
  <2> QED
    BY <1>1, <1>2, <1>4, <2>1, SwipedStep
<1>5. CASE "swiped" \notin deeds /\ "opened" \in deeds
  <2>1. deeds \in SUBSET {"opened", "clicked", "again"}
    BY <1>5
  <2> QED
    BY <1>1, <1>2, <1>5, <2>1, OpenedStep
<1>6. CASE "swiped" \notin deeds /\ "opened" \notin deeds
  <2>1. deeds \subseteq {"clicked", "again"}
    BY <1>6
  <2>2. TallyType' /\ \A e \in Gesture!Deeds \ deeds : tally'[e] = tally[e]
    BY <1>2, <1>3, Counted DEF GestureInv
  <2> QED
    BY <1>1, <2>1, <2>2, QuietStep
<1> QED
  BY <1>4, <1>5, <1>6

\* A held tap turns into one that opened, or into nothing.
LEMMA HeldStep == ASSUME GestureInv, NEW t \in timers, Gesture!Held(t) PROVE GestureInv'
<1>1. /\ timers' = timers \ {t} /\ pending' = Gesture!NotPending
      /\ UNCHANGED <<render, press, swRow, axis>>
      /\ Gesture!Did({"opened"}, t.on) \/ UNCHANGED tally
  BY DEF Gesture!Held
<1>2. timers' \subseteq timers /\ t \in timers \ timers'
  BY <1>1
<1>3. HeldInv'
  BY <1>1, <1>2, FS_Subset DEF GestureInv, HeldInv, Gesture!NotPending
<1>4. PressInv'
  BY <1>1 DEF GestureInv, PressInv
<1>5. /\ TallyType'
      /\ \A e \in Gesture!Deeds \ {"opened"} : tally'[e] = tally[e]
      /\ \A r \in Rows : tally'.opened[r] <= tally.opened[r] + (IF r = t.on[1] THEN 1 ELSE 0)
  <2>1. CASE UNCHANGED tally
    BY <2>1 DEF GestureInv, TallyType, Gesture!Deeds
  <2>2. CASE Gesture!Did({"opened"}, t.on) /\ t.on[1] \in Rows
    <3>1. /\ TallyType'
          /\ tally'.opened[t.on[1]] = tally.opened[t.on[1]] + 1
          /\ \A s \in Rows : s # t.on[1] => tally'.opened[s] = tally.opened[s]
          /\ \A e \in Gesture!Deeds \ {"opened"} : tally'[e] = tally[e]
      BY <2>2, Counted DEF GestureInv, Gesture!Deeds
    <3>2. \A r \in Rows : tally.opened[r] \in Nat
      BY DEF GestureInv, TallyType, Gesture!Deeds
    <3> QED
      BY <3>1, <3>2
  <2>3. CASE Gesture!Did({"opened"}, t.on) /\ t.on[1] \notin Rows
    <3>1. tally' = tally
      <4>1. tally.opened \in [Rows -> Nat]
        BY DEF GestureInv, TallyType, Gesture!Deeds
      <4>2. [tally.opened EXCEPT ![t.on[1]] = tally.opened[t.on[1]] + 1] = tally.opened
        BY <2>3, <4>1
      <4>3. \A e \in Gesture!Deeds : tally'[e] = tally[e]
        BY <2>3, <4>2 DEF Gesture!Did
      <4>4. tally' = [e \in Gesture!Deeds |-> tally'[e]] /\ tally = [e \in Gesture!Deeds |-> tally[e]]
        BY <2>3 DEF Gesture!Did, GestureInv, TallyType
      <4> QED
        BY <4>3, <4>4
    <3> QED
      BY <3>1 DEF GestureInv, TallyType, Gesture!Deeds
  <2> QED
    BY <1>1, <2>1, <2>2, <2>3
<1>6. ASSUME NEW r \in Rows PROVE BudgetOf(r)'
  <2>1. /\ (\A d \in Gesture!Deeds : tally[d][r] \in Nat) /\ Cardinality(HeldOn(r)) \in Nat
        /\ Claim(r) \in 0..1 /\ TapClaim(r) \in 0..1
    BY Numbers DEF GestureInv
  <2>2. Claim(r)' = Claim(r) /\ TapClaim(r)' = TapClaim(r)
    BY <1>1 DEF Claim, TapClaim
  <2>3. /\ Cardinality(HeldOn(r)') \in Nat
        /\ Cardinality(HeldOn(r)') <= Cardinality(HeldOn(r))
                                         - (IF r = t.on[1] THEN 1 ELSE 0)
    BY <1>2, <2>1, FewerHeld, OneGone DEF GestureInv, HeldInv
  <2>4. tally'.opened[r] \in Nat
    BY <1>5 DEF TallyType, Gesture!Deeds
  <2> QED
    BY <1>5, <2>1, <2>2, <2>3, <2>4 DEF GestureInv, Budget, BudgetOf, Taps, Gesture!Deeds
<1> QED
  BY <1>1, <1>3, <1>4, <1>5, <1>6 DEF GestureInv, Budget

LEMMA LongPressStep ==
  ASSUME Gesture!GestureAssumption, GestureInv, Gesture!LongPress
  PROVE GestureInv'
<1> DEFINE p == press.on[1]
<1>1. /\ press.by = "touch" /\ ~press.ctx /\ p \in Rows
      /\ press' = [press EXCEPT !.ctx = TRUE] /\ Gesture!Did({"menu"}, press.on)
      /\ UNCHANGED <<render, swRow, axis, pending, timers>>
  BY DEF Gesture!LongPress, GestureInv, PressInv
<1>2. /\ TallyType'
      /\ tally'.menu[p] = tally.menu[p] + 1
      /\ \A s \in Rows : s # p => tally'.menu[s] = tally.menu[s]
      /\ \A e \in Gesture!Deeds \ {"menu"} : tally'[e] = tally[e]
  BY <1>1, Counted DEF GestureInv, Gesture!Deeds
<1>3. PressInv'
  BY <1>1 DEF GestureInv, PressInv
<1>4. HeldInv'
  BY <1>1 DEF GestureInv, HeldInv
<1>5. ASSUME NEW r \in Rows PROVE BudgetOf(r)'
  <2>1. /\ (\A d \in Gesture!Deeds : tally[d][r] \in Nat) /\ Taps(r) \in Nat
        /\ Claim(r)' = Claim(r) /\ Claim(r) \in 0..1
        /\ TapClaim(r)' = 0 /\ TapClaim(r) = (IF r = p THEN 1 ELSE 0)
    BY <1>1, Numbers DEF GestureInv, PressInv, Claim, TapClaim
  <2>2. Taps(r)' = Taps(r)
    BY <1>1, <1>2 DEF Taps, HeldOn, Gesture!Deeds
  <2> QED
    BY <1>2, <2>1, <2>2 DEF GestureInv, Budget, BudgetOf, Gesture!Deeds
<1> QED
  BY <1>1, <1>2, <1>3, <1>4, <1>5 DEF GestureInv, Budget

\* Steps that neither begin nor end a press.
LEMMA PressStays ==
  ASSUME GestureInv, UNCHANGED <<press, pending, timers, tally>>, render' \in 0..MaxRenders,
         axis' # "v" => axis # "v" /\ swRow' = swRow
  PROVE  GestureInv'
<1>1. TallyType' /\ HeldInv' /\ PressInv'
  BY DEF GestureInv, TallyType, HeldInv, PressInv
<1>2. Budget'
  BY DEF GestureInv, Budget, BudgetOf, Taps, HeldOn, Claim, TapClaim
<1> QED
  BY <1>1, <1>2 DEF GestureInv

LEMMA GestureStep ==
  ASSUME Gesture!GestureAssumption, GestureInv, [Gesture!Next]_Gesture!gestureVars
  PROVE GestureInv'
<1>1. CASE \E r \in Rows : Gesture!PressDown(r, "touch") \/ Gesture!PressDown(r, "mouse")
  BY <1>1, DownStep
<1>2. CASE \E dir \in {"left", "right"} : Gesture!Move(dir)
  <2>1. /\ UNCHANGED <<press, pending, timers, tally, render>>
        /\ axis' # "v" => axis # "v" /\ swRow' = swRow
    BY <1>2 DEF Gesture!Move
  <2> QED
    BY <2>1, PressStays DEF GestureInv
<1>3. CASE Gesture!LongPress
  BY <1>3, LongPressStep
<1>4. CASE Gesture!TouchLost
  BY <1>4, QuietStep DEF Gesture!TouchLost, GestureInv, TallyType
<1>5. CASE Gesture!TouchEnd
  BY <1>5, TouchEndStep
<1>6. CASE Gesture!MouseUp \/ Gesture!MouseLeaves
  BY <1>6, MouseUpStep, MouseLeavesStep
<1>7. CASE Gesture!ListReplaced
  BY <1>7, PressStays DEF Gesture!ListReplaced, GestureInv, Gesture!GestureAssumption
<1>8. CASE \E t \in timers : Gesture!Held(t)
  BY <1>8, HeldStep
<1>9. CASE UNCHANGED Gesture!gestureVars
  BY <1>9, PressStays DEF Gesture!gestureVars, GestureInv
<1> QED
  BY <1>1, <1>2, <1>3, <1>4, <1>5, <1>6, <1>7, <1>8, <1>9, Zenon DEF Gesture!Next

-----------------------------------------------------------------------------
(* The mouse's double click *)

\* A click that the next may still make a double one.
Spare(r) == IF clicked = <<r, 0>> THEN 1 ELSE 0

ClicksOf(r) ==
  /\ tally.again[r] <= tally.clicked[r]
  /\ tally.clicked[r] + Claim(r) <= tally.begun[r]
  /\ render = 0 => 2 * tally.again[r] + Spare(r) <= tally.clicked[r]
Clicks ==
  /\ clicked \in (Rows \X (0..render)) \cup {Gesture!NoRow}
  /\ \A r \in Rows : ClicksOf(r)

LEMMA ClicksInit == ASSUME Gesture!GestureAssumption, Gesture!Init PROVE Clicks
<1>1. clicked = Gesture!NoRow
  BY DEF Gesture!Init
<1>2. ASSUME NEW r \in Rows PROVE ClicksOf(r)
  <2>1. tally.again[r] = 0 /\ tally.clicked[r] = 0 /\ tally.begun[r] = 0
    BY DEF Gesture!Init, Gesture!Deeds
  <2>2. Claim(r) = 0
    BY DEF Gesture!Init, Claim, Gesture!NoPress
  <2>3. Spare(r) = 0
    BY <1>1 DEF Spare, Gesture!NoRow, Gesture!GestureAssumption
  <2> QED
    BY <2>1, <2>2, <2>3 DEF ClicksOf
<1> QED
  BY <1>1, <1>2 DEF Clicks

\* Steps that neither click nor take a press away from the count.
NoClick ==
  /\ tally'.clicked = tally.clicked /\ tally'.again = tally.again
  /\ clicked' \in {clicked, Gesture!NoRow}
  /\ \A r \in Rows : tally'.begun[r] \in Nat /\ Claim(r)' + tally.begun[r] <= Claim(r) + tally'.begun[r]

LEMMA ClicksStay ==
  ASSUME Gesture!GestureAssumption, GestureInv, Clicks, NoClick, render' \in Nat, render <= render'
  PROVE  Clicks'
<1>1. render \in Nat
  BY DEF GestureInv, Gesture!GestureAssumption
<1>2. clicked' \in (Rows \X (0..render')) \cup {Gesture!NoRow}
  <2>1. 0..render \subseteq 0..render'
    BY <1>1
  <2> QED
    BY <2>1 DEF Clicks, NoClick
<1>3. ASSUME NEW r \in Rows PROVE ClicksOf(r)'
  <2>1. \A d \in Gesture!Deeds : tally[d][r] \in Nat
    BY Numbers DEF GestureInv
  <2>2. Spare(r)' <= Spare(r) /\ Spare(r) \in 0..1 /\ Spare(r)' \in 0..1
    BY DEF Spare, NoClick, Gesture!NoRow, Gesture!GestureAssumption
  <2>3. Claim(r) \in 0..1 /\ Claim(r)' \in 0..1
    BY DEF Claim
  <2>4. render' = 0 => render = 0
    BY <1>1
  <2>5. ClicksOf(r)
    BY DEF Clicks
  <2>6. /\ tally'.clicked[r] = tally.clicked[r] /\ tally'.again[r] = tally.again[r]
        /\ tally'.begun[r] \in Nat /\ Claim(r)' + tally.begun[r] <= Claim(r) + tally'.begun[r]
    BY DEF NoClick
  <2>7. tally.clicked[r] \in Nat /\ tally.again[r] \in Nat /\ tally.begun[r] \in Nat
    BY <2>1 DEF Gesture!Deeds
  <2> QED
    BY <2>2, <2>3, <2>4, <2>5, <2>6, <2>7 DEF ClicksOf
<1> QED
  BY <1>2, <1>3 DEF Clicks

\* A press that goes on as it is, or ends, and counts none of it.
LEMMA NoClickIs ==
  ASSUME GestureInv, press' \in {press, Gesture!NoPress} \/ (press'.by = press.by /\ press'.on = press.on),
         clicked' \in {clicked, Gesture!NoRow},
         \A e \in {"begun", "clicked", "again"} : tally'[e] = tally[e]
  PROVE  NoClick
<1>1. ASSUME NEW r \in Rows PROVE Claim(r)' <= Claim(r) /\ Claim(r)' \in 0..1 /\ Claim(r) \in 0..1
                                   /\ tally.begun[r] \in Nat
  <2>1. tally.begun[r] \in Nat
    BY Numbers DEF GestureInv, Gesture!Deeds
  <2>2. Gesture!NoPress.by = "none"
    BY DEF Gesture!NoPress
  <2> QED
    BY <2>1, <2>2 DEF Claim
<1>2. tally'.begun = tally.begun /\ tally'.clicked = tally.clicked /\ tally'.again = tally.again
  OBVIOUS
<1> QED
  BY <1>1, <1>2 DEF NoClick

LEMMA ClickedStep ==
  ASSUME Gesture!GestureAssumption, GestureInv, Clicks, Gesture!MouseUp
  PROVE  Clicks'
<1> DEFINE p == press.on[1]
<1>1. press.by = "mouse" /\ press' = Gesture!NoPress /\ render' = render /\ render \in Nat
  BY DEF Gesture!MouseUp, GestureInv, Gesture!GestureAssumption
<1>2. PICK deeds \in SUBSET {"swiped", "clicked", "opened", "again"} :
        /\ "clicked" \in deeds => Gesture!Attached(press.on)
        /\ "again" \in deeds => "clicked" \in deeds /\ Gesture!Pairs
        /\ Gesture!Did(deeds, press.on)
        /\ clicked' = IF "clicked" \in deeds /\ "again" \notin deeds THEN press.on ELSE Gesture!NoRow
  BY Zenon DEF Gesture!MouseUp
<1>3. press.on \in Rows \X (0..MaxRenders) /\ p \in Rows /\ press.on = <<p, press.on[2]>>
  BY <1>1 DEF GestureInv, PressInv
<1>4. /\ TallyType'
      /\ \A d \in Gesture!Deeds :
           d \in deeds => /\ tally'[d][p] = tally[d][p] + 1
                         /\ \A r \in Rows : r # p => tally'[d][r] = tally[d][r]
      /\ \A e \in Gesture!Deeds \ deeds : tally'[e] = tally[e]
  BY <1>2, <1>3, Counted DEF GestureInv
<1>5. "clicked" \in deeds => press.on = <<p, render>>
  BY <1>2, <1>3 DEF Gesture!Attached
<1>6. clicked' \in (Rows \X (0..render')) \cup {Gesture!NoRow}
  <2>1. render \in 0..render
    BY <1>1
  <2>2. "clicked" \in deeds => press.on \in Rows \X (0..render')
    BY <1>1, <1>3, <1>5, <2>1
  <2> QED
    BY <1>2, <2>2
<1>7. ASSUME NEW r \in Rows PROVE ClicksOf(r)'
  <2>1. /\ tally.clicked[r] \in Nat /\ tally.again[r] \in Nat /\ tally.begun[r] \in Nat
        /\ tally'.begun[r] = tally.begun[r]
    <3>1. \A d \in Gesture!Deeds : tally[d][r] \in Nat
      BY Numbers DEF GestureInv
    <3>2. tally'.begun = tally.begun
      BY <1>2, <1>4 DEF Gesture!Deeds
    <3> QED
      BY <3>1, <3>2 DEF Gesture!Deeds
  <2>2. Claim(r)' = 0 /\ Claim(r) \in 0..1 /\ (r = p => Claim(r) = 1)
    BY <1>1 DEF Claim, Gesture!NoPress
  <2>3. ClicksOf(r)
    BY DEF Clicks
  <2>4. tally'.clicked[r] = tally.clicked[r] + (IF r = p /\ "clicked" \in deeds THEN 1 ELSE 0)
    BY <1>4, <2>1 DEF Gesture!Deeds
  <2>5. tally'.again[r] = tally.again[r] + (IF r = p /\ "again" \in deeds THEN 1 ELSE 0)
    BY <1>4, <2>1 DEF Gesture!Deeds
  <2>6. Spare(r) \in 0..1
        /\ Spare(r)' <= (IF r = p /\ "clicked" \in deeds /\ "again" \notin deeds THEN 1 ELSE 0)
        /\ Spare(r)' \in 0..1
    <3>1. Gesture!NoRow # <<r, 0>>
      BY DEF Gesture!NoRow, Gesture!GestureAssumption
    <3>2. press.on = <<r, 0>> => r = p
      OBVIOUS
    <3> QED
      BY <1>2, <3>1, <3>2 DEF Spare
  <2>7. render = 0 /\ r = p /\ "again" \in deeds => Spare(r) = 1
    <3>1. SUFFICES ASSUME render = 0, r = p, "again" \in deeds PROVE clicked = <<r, 0>>
      BY DEF Spare
    <3>2. Gesture!Pairs /\ press.on = <<r, 0>>
      BY <1>2, <1>5, <3>1
    <3>3. clicked # Gesture!NoRow /\ (clicked = press.on \/ clicked[2] # 0)
      BY <3>1, <3>2 DEF Gesture!Pairs
    <3>4. clicked \in Rows \X (0..0)
      BY <3>1, <3>3 DEF Clicks
    <3>5. clicked[2] = 0
      BY <3>4
    <3> QED
      BY <3>2, <3>3, <3>5
  <2>8. "again" \in deeds => "clicked" \in deeds
    BY <1>2
  <2>9. tally'.again[r] <= tally'.clicked[r]
    BY <2>1, <2>3, <2>4, <2>5, <2>8 DEF ClicksOf
  <2>10. tally'.clicked[r] + Claim(r)' <= tally'.begun[r]
    BY <2>1, <2>2, <2>3, <2>4 DEF ClicksOf
  <2>11. render' = 0 => 2 * tally'.again[r] + Spare(r)' <= tally'.clicked[r]
    BY <1>1, <2>1, <2>3, <2>4, <2>5, <2>6, <2>7, <2>8 DEF ClicksOf
  <2> QED
    BY <2>9, <2>10, <2>11 DEF ClicksOf
<1> QED
  BY <1>6, <1>7 DEF Clicks

LEMMA ClicksStep ==
  ASSUME Gesture!GestureAssumption, GestureInv, Clicks, [Gesture!Next]_Gesture!gestureVars
  PROVE  Clicks'
<1>1. render \in Nat
  BY DEF GestureInv, Gesture!GestureAssumption
<1>2. CASE Gesture!MouseUp
  BY <1>2, ClickedStep
<1>3. ASSUME NEW r \in Rows, NEW by \in {"touch", "mouse"}, Gesture!PressDown(r, by) PROVE Clicks'
  <2>1. /\ Gesture!Did({"begun"}, <<r, render>>) /\ press.by = "none" /\ press'.on = <<r, render>>
        /\ UNCHANGED <<render, clicked>>
    BY <1>3 DEF Gesture!PressDown
  <2>2. /\ TallyType'
        /\ tally'.begun[r] = tally.begun[r] + 1
        /\ \A s \in Rows : s # r => tally'.begun[s] = tally.begun[s]
        /\ tally'.clicked = tally.clicked /\ tally'.again = tally.again
    BY <2>1, Counted DEF GestureInv, Gesture!Deeds
  <2>3. ASSUME NEW s \in Rows
        PROVE  tally'.begun[s] \in Nat /\ Claim(s)' + tally.begun[s] <= Claim(s) + tally'.begun[s]
    <3>1. Claim(s) = 0 /\ Claim(s)' <= (IF s = r THEN 1 ELSE 0) /\ Claim(s)' \in 0..1
      BY <2>1 DEF Claim
    <3>2. tally.begun[s] \in Nat
      BY Numbers DEF GestureInv, Gesture!Deeds
    <3> QED
      BY <2>2, <3>1, <3>2
  <2>4. NoClick
    BY <2>1, <2>2, <2>3 DEF NoClick
  <2> QED
    BY <1>1, <2>1, <2>4, ClicksStay
<1>4. CASE \/ \E dir \in {"left", "right"} : Gesture!Move(dir)
           \/ Gesture!LongPress \/ Gesture!TouchLost \/ Gesture!TouchEnd \/ Gesture!MouseLeaves
           \/ Gesture!ListReplaced \/ (\E t \in timers : Gesture!Held(t)) \/ UNCHANGED Gesture!gestureVars
  <2>1. /\ press' \in {press, Gesture!NoPress} \/ (press'.by = press.by /\ press'.on = press.on)
        /\ clicked' \in {clicked, Gesture!NoRow}
        /\ render' = render \/ render' = render + 1
    BY <1>4 DEF Gesture!Move, Gesture!LongPress, Gesture!TouchLost, Gesture!TouchEnd,
       Gesture!MouseLeaves, Gesture!ListReplaced, Gesture!Held, Gesture!gestureVars, GestureInv, PressInv
  <2>2. \/ tally' = tally
        \/ \E deeds \in SUBSET {"menu", "swiped", "opened", "doubled"}, el \in {press.on, swRow} \cup {t.on : t \in timers} :
             Gesture!Did(deeds, el)
    <3>1. CASE \/ \E dir \in {"left", "right"} : Gesture!Move(dir)
               \/ Gesture!TouchLost \/ Gesture!ListReplaced \/ UNCHANGED Gesture!gestureVars
      BY <3>1 DEF Gesture!Move, Gesture!TouchLost, Gesture!ListReplaced, Gesture!gestureVars
    <3>2. CASE Gesture!LongPress
      BY <3>2 DEF Gesture!LongPress
    <3>3. CASE Gesture!MouseLeaves
      BY <3>3 DEF Gesture!MouseLeaves, Gesture!SwipeEnds
    <3>4. CASE \E t \in timers : Gesture!Held(t)
      <4>1. PICK t \in timers : Gesture!Held(t)
        BY <3>4
      <4>2. Gesture!Did({"opened"}, t.on) \/ tally' = tally
        BY <4>1 DEF Gesture!Held
      <4> QED
        BY <4>2
    <3>5. CASE Gesture!TouchEnd
      <4>1. \/ tally' = tally \/ Gesture!Did({"swiped"}, swRow)
            \/ Gesture!Did({"opened"}, press.on) \/ Gesture!Did({"doubled"}, press.on)
        BY <3>5, Zenon DEF Gesture!TouchEnd, Gesture!SwipeEnds, Gesture!Tap, Gesture!FirstTap, Gesture!SecondTap
      <4> QED
        BY <4>1
    <3> QED
      BY <1>4, <3>1, <3>2, <3>3, <3>4, <3>5
  <2>3. \A e \in {"begun", "clicked", "again"} : tally'[e] = tally[e]
    <3>1. CASE tally' = tally
      BY <3>1
    <3>2. ASSUME NEW deeds \in SUBSET {"menu", "swiped", "opened", "doubled"}, NEW el, Gesture!Did(deeds, el)
          PROVE  \A e \in {"begun", "clicked", "again"} : tally'[e] = tally[e]
      <4>1. "begun" \in Gesture!Deeds /\ "begun" \notin deeds
        BY DEF Gesture!Deeds
      <4>2. "clicked" \in Gesture!Deeds /\ "clicked" \notin deeds
        BY DEF Gesture!Deeds
      <4>3. "again" \in Gesture!Deeds /\ "again" \notin deeds
        BY DEF Gesture!Deeds
      <4>4. ASSUME NEW e \in Gesture!Deeds, e \notin deeds PROVE tally'[e] = tally[e]
        BY <3>2, <4>4, Uncounted
      <4> QED
        BY <4>1, <4>2, <4>3, <4>4
    <3> QED
      BY <2>2, <3>1, <3>2
  <2>4. NoClick
    BY <2>1, <2>3, NoClickIs
  <2>5. render' \in Nat /\ render <= render'
    BY <1>1, <2>1
  <2> QED
    BY <2>4, <2>5, ClicksStay
<1> QED
  BY <1>2, <1>3, <1>4, Zenon DEF Gesture!Next

\* No press is spent twice (app.js, the row gestures): two taps and a swipe, however they
\* meet timers, refreshes and lost touches; and a double click takes its clicks.
LEMMA GestureOncePerPress ==
  ASSUME Gesture!GestureAssumption PROVE Gesture!Spec => []Gesture!NoPressTwice
<1>1. Gesture!Init => GestureInv /\ Clicks
  BY GestureInit, ClicksInit
<1>2. GestureInv /\ Clicks /\ [Gesture!Next]_Gesture!gestureVars => GestureInv' /\ Clicks'
  BY GestureStep, ClicksStep
<1>3. GestureInv /\ Clicks => Gesture!NoPressTwice
  <2> SUFFICES ASSUME GestureInv, Clicks, NEW r \in Rows
               PROVE  /\ Taps(r) + tally.swiped[r] <= tally.begun[r]
                      /\ Taps(r) + tally.menu[r] <= tally.begun[r]
                      /\ tally.again[r] <= tally.clicked[r] /\ tally.clicked[r] <= tally.begun[r]
                      /\ render = 0 => 2 * tally.again[r] <= tally.clicked[r]
    BY SameCount DEF Gesture!NoPressTwice, Taps, HeldOn
  <2>1. BudgetOf(r) /\ ClicksOf(r)
    BY DEF GestureInv, Budget, Clicks
  <2>2. Spare(r) \in 0..1
    BY DEF Spare
  <2> QED
    BY <2>1, <2>2, Numbers DEF GestureInv, BudgetOf, ClicksOf, Gesture!Deeds
<1> QED
  BY <1>1, <1>2, <1>3, PTL DEF Gesture!Spec
-----------------------------------------------------------------------------

\* No press is spent twice on a row, and a double click is run on top of two clicks of its
\* row, or of one where a list came between (app.js, the row gestures), whatever the other
\* parts of the page do.
THEOREM OncePerPress == Spec => []NoPressTwice
<1>1. Gesture!GestureAssumption
  BY PartsAssumption
<1>2. Gesture!Spec => []Gesture!NoPressTwice
  BY <1>1, GestureOncePerPress
<1>3. Gesture!NoPressTwice <=> NoPressTwice
  BY Zenon DEF NoPressTwice
<1> QED
  BY <1>2, <1>3, GestureMoves, PTL

-----------------------------------------------------------------------------
(* Sets of numbers in order: Sorted *)

\* Every element has the rank its place in the order gives it, and every rank an element.
LEMMA Ranked ==
  ASSUME NEW S \in SUBSET Nat, IsFiniteSet(S), NEW f,
         f \in [S -> Nat], \A x \in S : f[x] \in 1..Cardinality(S),
         \A x, z \in S : x < z => f[x] # f[z]
  PROVE  \A k \in 1..Cardinality(S) : \E x \in S : f[x] = k
<1>1. Cardinality(S) \in Nat
  BY FS_CardinalityType
<1>2. IsFiniteSet(1..Cardinality(S)) /\ Cardinality(1..Cardinality(S)) = Cardinality(S)
  BY <1>1, FS_Interval
<1>3. \A x, z \in S : f[x] = f[z] => x = z
  OBVIOUS
<1>4. f \in Injection(S, 1..Cardinality(S))
  BY <1>3 DEF Injection, IsInjective
<1>5. f \in Surjection(S, 1..Cardinality(S))
  BY <1>2, <1>4, FS_Injection
<1> QED
  BY <1>5 DEF Surjection

\* What a sequence of the elements of S in some order is.
Lists(s, S) ==
  /\ s \in Seq(S) /\ Len(s) = Cardinality(S)
  /\ \A x \in S : \E k \in DOMAIN s : s[k] = x
  /\ \A k, l \in DOMAIN s : s[k] = s[l] => k = l

LEMMA RankedLists ==
  ASSUME NEW S, IsFiniteSet(S), NEW f \in [S -> Nat], NEW s \in [1..Cardinality(S) -> S],
         \A x \in S : f[x] \in 1..Cardinality(S),
         \A x, z \in S : f[x] = f[z] => x = z,
         \A k \in 1..Cardinality(S) : f[s[k]] = k
  PROVE  Lists(s, S)
<1>1. Cardinality(S) \in Nat
  BY FS_CardinalityType
<1>2. DOMAIN s = 1..Cardinality(S)
  OBVIOUS
<1>3. s \in Seq(S)
  BY <1>1
<1>4. Len(s) = Cardinality(S)
  BY <1>1, <1>2, <1>3
<1>5. \A x \in S : s[f[x]] = x
  OBVIOUS
<1>6. \A x \in S : \E k \in DOMAIN s : s[k] = x
  BY <1>2, <1>5
<1>7. \A k, l \in DOMAIN s : s[k] = s[l] => k = l
  BY <1>2
<1> QED
  BY <1>3, <1>4, <1>6, <1>7 DEF Lists

LEMMA AscendingLists ==
  ASSUME NEW S \in SUBSET Nat, IsFiniteSet(S) PROVE Lists(Ascending(S), S)
<1> DEFINE Upto(x) == {y \in S : y <= x}
           f == [x \in S |-> Cardinality(Upto(x))]
<1>1. ASSUME NEW x \in S PROVE IsFiniteSet(Upto(x)) /\ Cardinality(Upto(x)) \in 1..Cardinality(S)
  <2>1. Upto(x) \in SUBSET S /\ x \in Upto(x)
    OBVIOUS
  <2>2. IsFiniteSet(Upto(x)) /\ Cardinality(Upto(x)) <= Cardinality(S)
    BY <2>1, FS_Subset
  <2>3. Cardinality(Upto(x)) \in Nat /\ Cardinality(S) \in Nat /\ Cardinality(Upto(x)) # 0
    <3> HIDE DEF Upto
    <3> QED
      BY <2>1, <2>2, FS_CardinalityType, FS_EmptySet
  <2> QED
    BY <2>2, <2>3
<1>2. ASSUME NEW x \in S, NEW z \in S, x < z PROVE f[x] # f[z]
  <2>0. x \in Nat /\ z \in Nat /\ \A y \in S : y \in Nat
    OBVIOUS
  <2>a. z <= z /\ ~(z <= x) /\ \A y \in S : y <= x => y <= z
    BY <1>2, <2>0
  <2>1. Upto(x) \in SUBSET Upto(z) /\ z \in Upto(z) /\ z \notin Upto(x)
    BY <2>a
  <2>2. Cardinality(Upto(x)) # Cardinality(Upto(z))
    <3> HIDE DEF Upto, f
    <3> QED
      BY <1>1, <2>1, FS_Subset
  <2> QED
    BY <2>2
<1>3. f \in [S -> Nat] /\ \A x \in S : f[x] \in 1..Cardinality(S)
  <2>1. \A x \in S : Cardinality(Upto(x)) \in 1..Cardinality(S)
    BY <1>1
  <2> HIDE DEF Upto
  <2> QED
    BY <2>1
<1>4. \A k \in 1..Cardinality(S) : \E x \in S : f[x] = k
  <2> HIDE DEF f
  <2> QED
    BY <1>2, <1>3, Ranked
<1>5. \A k \in 1..Cardinality(S) : \E x \in S : Cardinality(Upto(x)) = k
  <2> HIDE DEF Upto
  <2> QED
    BY <1>4
<1>6. \A k \in 1..Cardinality(S) : Ascending(S)[k] \in S /\ Cardinality(Upto(Ascending(S)[k])) = k
  BY <1>5 DEF Ascending
<1>7. Ascending(S) \in [1..Cardinality(S) -> S]
  BY <1>6, Zenon DEF Ascending
<1>8. \A k \in 1..Cardinality(S) : f[Ascending(S)[k]] = k
  <2> HIDE DEF Upto
  <2> QED
    BY <1>6
<1>9. \A x, z \in S : f[x] = f[z] => x = z
  <2>1. \A x, z \in S : x < z => f[x] # f[z]
    BY <1>2
  <2> HIDE DEF f
  <2> QED
    BY <2>1
<1> HIDE DEF f
<1> QED
  BY <1>3, <1>7, <1>8, <1>9, RankedLists

LEMMA DescendingLists ==
  ASSUME NEW S \in SUBSET Nat, IsFiniteSet(S)
  PROVE  /\ Lists(Descending(S), S)
         /\ \A k \in 1..Cardinality(S) :
              Descending(S)[k] \in S /\ Cardinality({y \in S : y >= Descending(S)[k]}) = k
<1> DEFINE From(x) == {y \in S : y >= x}
           f == [x \in S |-> Cardinality(From(x))]
<1>1. ASSUME NEW x \in S PROVE IsFiniteSet(From(x)) /\ Cardinality(From(x)) \in 1..Cardinality(S)
  <2>1. From(x) \in SUBSET S /\ x \in From(x)
    OBVIOUS
  <2>2. IsFiniteSet(From(x)) /\ Cardinality(From(x)) <= Cardinality(S)
    BY <2>1, FS_Subset
  <2>3. Cardinality(From(x)) \in Nat /\ Cardinality(S) \in Nat /\ Cardinality(From(x)) # 0
    <3> HIDE DEF From
    <3> QED
      BY <2>1, <2>2, FS_CardinalityType, FS_EmptySet
  <2> QED
    BY <2>2, <2>3
<1>2. ASSUME NEW x \in S, NEW z \in S, x < z PROVE f[x] # f[z]
  <2>0. x \in Nat /\ z \in Nat /\ \A y \in S : y \in Nat
    OBVIOUS
  <2>a. x >= x /\ ~(x >= z) /\ \A y \in S : y >= z => y >= x
    BY <1>2, <2>0
  <2>1. From(z) \in SUBSET From(x) /\ x \in From(x) /\ x \notin From(z)
    BY <2>a
  <2>2. Cardinality(From(x)) # Cardinality(From(z))
    <3> HIDE DEF From, f
    <3> QED
      BY <1>1, <2>1, FS_Subset
  <2> QED
    BY <2>2
<1>3. f \in [S -> Nat] /\ \A x \in S : f[x] \in 1..Cardinality(S)
  <2>1. \A x \in S : Cardinality(From(x)) \in 1..Cardinality(S)
    BY <1>1
  <2> HIDE DEF From
  <2> QED
    BY <2>1
<1>4. \A k \in 1..Cardinality(S) : \E x \in S : f[x] = k
  <2> HIDE DEF f
  <2> QED
    BY <1>2, <1>3, Ranked
<1>5. \A k \in 1..Cardinality(S) : \E x \in S : Cardinality(From(x)) = k
  <2> HIDE DEF From
  <2> QED
    BY <1>4
<1>6. \A k \in 1..Cardinality(S) : Descending(S)[k] \in S /\ Cardinality(From(Descending(S)[k])) = k
  BY <1>5 DEF Descending
<1>7. Descending(S) \in [1..Cardinality(S) -> S]
  BY <1>6, Zenon DEF Descending
<1>8. \A k \in 1..Cardinality(S) : f[Descending(S)[k]] = k
  <2> HIDE DEF From
  <2> QED
    BY <1>6
<1>9. \A x, z \in S : f[x] = f[z] => x = z
  <2>1. \A x, z \in S : x < z => f[x] # f[z]
    BY <1>2
  <2> HIDE DEF f
  <2> QED
    BY <2>1
<1>10. Lists(Descending(S), S)
  <2> HIDE DEF f
  <2> QED
    BY <1>3, <1>7, <1>8, <1>9, RankedLists
<1> QED
  BY <1>6, <1>10

\* The elements of s at the places I: none of them is lost, and no other is there.
LEMMA AtPlaces ==
  ASSUME NEW X, NEW s \in Seq(X), NEW I \in SUBSET DOMAIN s
  PROVE  /\ At(s, I) \in Seq(X) /\ Len(At(s, I)) = Cardinality(I) /\ DOMAIN At(s, I) = 1..Cardinality(I)
         /\ \A k \in DOMAIN At(s, I) : \E i \in I : At(s, I)[k] = s[i]
         /\ \A i \in I : \E k \in DOMAIN At(s, I) : At(s, I)[k] = s[i]
         /\ (\A i, j \in I : s[i] = s[j] => i = j) =>
              \A k, l \in DOMAIN At(s, I) : At(s, I)[k] = At(s, I)[l] => k = l
<1> DEFINE a == Ascending(I)
<1>1. DOMAIN s = 1..Len(s) /\ Len(s) \in Nat
  OBVIOUS
<1>2. IsFiniteSet(I) /\ I \in SUBSET Nat
  <2>1. IsFiniteSet(1..Len(s)) /\ I \in SUBSET (1..Len(s))
    BY <1>1, FS_Interval
  <2> QED
    BY <2>1, FS_Subset
<1>3. Lists(a, I)
  BY <1>2, AscendingLists
<1>4. Cardinality(I) \in Nat
  BY <1>2, FS_CardinalityType
<1>5. a \in Seq(I) /\ Len(a) = Cardinality(I) /\ DOMAIN a = 1..Cardinality(I)
  BY <1>3 DEF Lists
<1>6. At(s, I) = [k \in 1..Cardinality(I) |-> s[a[k]]]
  BY DEF At
<1> HIDE DEF a
<1>7. \A k \in 1..Cardinality(I) : a[k] \in I /\ At(s, I)[k] = s[a[k]] /\ s[a[k]] \in X
  BY <1>5, <1>6
<1>8. At(s, I) \in [1..Cardinality(I) -> X]
  BY <1>6, <1>7
<1>9. At(s, I) \in Seq(X) /\ Len(At(s, I)) = Cardinality(I) /\ DOMAIN At(s, I) = 1..Cardinality(I)
  BY <1>4, <1>8
<1>10. \A i \in I : \E k \in DOMAIN At(s, I) : At(s, I)[k] = s[i]
  BY <1>3, <1>5, <1>7, <1>9 DEF Lists
<1>11. ASSUME \A i, j \in I : s[i] = s[j] => i = j
       PROVE  \A k, l \in DOMAIN At(s, I) : At(s, I)[k] = At(s, I)[l] => k = l
  BY <1>3, <1>5, <1>7, <1>9, <1>11 DEF Lists
<1> QED
  BY <1>7, <1>9, <1>10, <1>11

\* The parts bring copies of these operators, and of the library's count.
LEMMA RowCount == \A S : Row!Cardinality(S) = Cardinality(S)
  BY Zenon DEF Row!Cardinality, Cardinality
LEMMA RowDescending == \A S : Row!Descending(S) = Descending(S)
  BY Zenon DEF Row!Descending, Descending, Row!Cardinality, Cardinality
LEMMA RowAt == \A s, I : Row!At(s, I) = At(s, I)
  BY Zenon DEF Row!At, At, Row!Ascending, Ascending, Row!Cardinality, Cardinality

\* The sequence without its place i has the other elements, and none twice that s had once.
Dropped(s, i) == SubSeq(s, 1, i - 1) \o SubSeq(s, i + 1, Len(s))

\* Each place of r has one of its own in s, other than i.
Among(r, s, i) == \E f \in Injection(DOMAIN r, DOMAIN s \ {i}) : \A j \in DOMAIN r : r[j] = s[f[j]]

LEMMA Without ==
  ASSUME NEW X, NEW s \in Seq(X), NEW i \in DOMAIN s, NEW r, r = Dropped(s, i)
  PROVE  /\ r \in Seq(X)
         /\ \A j \in DOMAIN r : \E k \in DOMAIN s \ {i} : r[j] = s[k]
         /\ \A k \in DOMAIN s \ {i} : \E j \in DOMAIN r : r[j] = s[k]
         /\ \A j, l \in DOMAIN r : j # l => \E k, m \in DOMAIN s \ {i} : k # m /\ r[j] = s[k] /\ r[l] = s[m]
         /\ Among(r, s, i)
<1>1. i \in 1..Len(s) /\ Len(s) \in Nat /\ \A j \in 1..Len(s) : s[j] \in X
  OBVIOUS
<1>2. \A j \in 1..i - 1 : s[j] \in X
  BY <1>1
<1>3. \A j \in i + 1..Len(s) : s[j] \in X
  BY <1>1
<1>4. PICK a : a = SubSeq(s, 1, i - 1)
  OBVIOUS
<1>5. PICK b : b = SubSeq(s, i + 1, Len(s))
  OBVIOUS
<1>6. a \in Seq(X) /\ Len(a) = i - 1 /\ \A j \in 1..i - 1 : a[j] = s[j]
  BY <1>1, <1>2, <1>4, SubSeqProperties
<1>7. b \in Seq(X) /\ Len(b) = Len(s) - i /\ \A j \in 1..Len(s) - i : b[j] = s[i + j]
  BY <1>1, <1>3, <1>5, SubSeqProperties
<1>8. r = a \o b
  BY <1>4, <1>5 DEF Dropped
<1>9. /\ a \o b \in Seq(X) /\ Len(a \o b) = Len(a) + Len(b)
      /\ \A j \in 1..Len(a) + Len(b) : (a \o b)[j] = IF j <= Len(a) THEN a[j] ELSE b[j - Len(a)]
  BY <1>6, <1>7, ConcatProperties
<1>10. /\ r \in Seq(X) /\ Len(r) = Len(s) - 1
       /\ \A j \in 1..Len(s) - 1 : r[j] = IF j <= i - 1 THEN a[j] ELSE b[j - (i - 1)]
  <2>1. Len(a) + Len(b) = Len(s) - 1
    BY <1>1, <1>6, <1>7
  <2> QED
    BY <1>6, <1>8, <1>9, <2>1
<1>11. DOMAIN r = 1..(Len(s) - 1)
  BY <1>10
<1>12. ASSUME NEW j \in 1..Len(s) - 1 PROVE r[j] = IF j < i THEN s[j] ELSE s[j + 1]
  <2>1. CASE j < i
    BY <1>1, <1>6, <1>10, <2>1
  <2>2. CASE ~(j < i)
    <3>0. j \in Nat /\ i \in Nat /\ ~(j <= i - 1) /\ j <= Len(s) - 1
      BY <1>1, <2>2
    <3>1. r[j] = b[j - (i - 1)]
      BY <1>10, <3>0
    <3>2. PICK n \in Nat : n = Len(s)
      BY <1>1
    <3>3. j - (i - 1) \in 1..n - i /\ i + (j - (i - 1)) = j + 1
      BY <2>2, <3>0, <3>2
    <3> QED
      BY <1>7, <2>2, <3>1, <3>2, <3>3
  <2> QED
    BY <2>1, <2>2
<1> DEFINE back(j) == IF j < i THEN j ELSE j + 1
<1>13. PICK n : n = Len(s)
  OBVIOUS
<1>14. n \in Nat /\ DOMAIN s = 1..n /\ i \in 1..n /\ DOMAIN r = 1..(n - 1)
  BY <1>1, <1>11, <1>13
<1>15. \A j \in 1..(n - 1) : back(j) \in (1..n) \ {i}
  BY <1>14
<1>16. \A j \in DOMAIN r : back(j) \in DOMAIN s \ {i} /\ r[j] = s[back(j)]
  BY <1>11, <1>12, <1>14, <1>15
<1>17. \A j, l \in 1..(n - 1) : j # l => back(j) # back(l)
  BY <1>14
<1>18. \A k \in DOMAIN s \ {i} : \E j \in DOMAIN r : r[j] = s[k]
  <2> SUFFICES ASSUME NEW k \in DOMAIN s \ {i} PROVE \E j \in DOMAIN r : r[j] = s[k]
    OBVIOUS
  <2>1. CASE k < i
    <3>1. k \in DOMAIN r /\ r[k] = s[k]
      BY <1>11, <1>12, <1>14, <2>1
    <3> QED
      BY <3>1
  <2>2. CASE ~(k < i)
    <3>1. k - 1 \in DOMAIN r /\ ~(k - 1 < i) /\ (k - 1) + 1 = k
      BY <1>14, <2>2
    <3>2. r[k - 1] = s[k]
      BY <1>11, <1>12, <3>1
    <3> QED
      BY <3>1, <3>2
  <2> QED
    BY <2>1, <2>2
<1>19. \A j, l \in DOMAIN r : j # l => \E k, m \in DOMAIN s \ {i} : k # m /\ r[j] = s[k] /\ r[l] = s[m]
  <2> SUFFICES ASSUME NEW j \in DOMAIN r, NEW l \in DOMAIN r, j # l
               PROVE  \E k, m \in DOMAIN s \ {i} : k # m /\ r[j] = s[k] /\ r[l] = s[m]
    OBVIOUS
  <2>1. back(j) # back(l)
    BY <1>14, <1>17
  <2>2. back(j) \in DOMAIN s \ {i} /\ back(l) \in DOMAIN s \ {i} /\ r[j] = s[back(j)] /\ r[l] = s[back(l)]
    BY <1>16
  <2> HIDE DEF back
  <2> QED
    BY <2>1, <2>2
<1>20. \A j \in DOMAIN r : \E k \in DOMAIN s \ {i} : r[j] = s[k]
  <2> HIDE DEF back
  <2> QED
    BY <1>16
<1>21. \E f \in Injection(DOMAIN r, DOMAIN s \ {i}) : \A j \in DOMAIN r : r[j] = s[f[j]]
  <2> DEFINE f == [j \in DOMAIN r |-> back(j)]
  <2>1. f \in [DOMAIN r -> DOMAIN s \ {i}] /\ \A j \in DOMAIN r : r[j] = s[f[j]]
    <3> HIDE DEF back
    <3> QED
      BY <1>16
  <2>2. \A j, l \in DOMAIN r : f[j] = f[l] => j = l
    <3> HIDE DEF back
    <3> QED
      BY <1>14, <1>17
  <2>3. f \in Injection(DOMAIN r, DOMAIN s \ {i})
    <3> HIDE DEF f
    <3> QED
      BY <2>1, <2>2 DEF Injection, IsInjective
  <2> HIDE DEF f
  <2> QED
    BY <2>1, <2>3
<1>22. Among(r, s, i)
  BY <1>21 DEF Among
<1> QED
  BY <1>10, <1>11, <1>12, <1>18, <1>19, <1>20, <1>22

LEMMA Smallest == ASSUME NEW S \in SUBSET Nat, S # {}
                  PROVE  \E x \in S : \A y \in S : x <= y
<1>1. PICK x \in S : \A y \in S : ~(<<y, x>> \in OpToRel(<, Nat))
  BY NatLessThanWellFounded, WFMin
<1>2. \A y \in S : ~(y < x)
  BY <1>1 DEF OpToRel
<1> QED
  BY <1>2

-----------------------------------------------------------------------------
(* The rows of the list: ListRows *)

\* Seen from the rows, the page's steps are theirs or none.
LEMMA RowsMove == Spec => Row!Spec
<1>1. Init => Row!Init
  BY DEF Init
<1>2. [Next]_pageVars => [Row!Next]_Row!rowVars
  BY DEF Next, pageVars, rowsPart, Row!rowVars
<1> QED
  BY <1>1, <1>2, PTL DEF Spec, Row!Spec

Elements(s) == {s[i] : i \in DOMAIN s}
Once(s) == \A i, j \in DOMAIN s : s[i] = s[j] => i = j
RowType == [id : Row!Ids, going : BOOLEAN]

-----------------------------------------------------------------------------
(* What a page shows *)

LEMMA IdsAreNumbers ==
  ASSUME Row!RowsAssumption
  PROVE  /\ Row!Ids \in SUBSET (Nat \ {0}) /\ IsFiniteSet(Row!Ids)
         /\ Limit \in Nat \ {0} /\ Threads \in Nat \ {0} /\ Start \in Nat /\ MaxArrivals \in Nat /\ MaxDeeds \in Nat
<1>1. Limit \in Nat \ {0} /\ Threads \in Nat \ {0} /\ Start \in Nat /\ MaxArrivals \in Nat /\ MaxDeeds \in Nat
  BY DEF Row!RowsAssumption
<1>2. Row!Ids = 1..(Start + MaxArrivals)
  BY DEF Row!Ids
<1>3. IsFiniteSet(Row!Ids)
  BY <1>1, <1>2, FS_Interval
<1> QED
  BY <1>1, <1>2, <1>3

\* The newest are some of them when there are any; the others are older than all of them.
LEMMA NewestFacts ==
  ASSUME Row!RowsAssumption, NEW S \in SUBSET Row!Ids
  PROVE  /\ Row!Newest(S) \in SUBSET S
         /\ S # {} => Row!Newest(S) # {}
         /\ \A k \in S \ Row!Newest(S) : \A t \in Row!Newest(S) : k < t
<1> DEFINE From(x) == {n \in S : n >= x}
<1>1. S \in SUBSET Nat /\ IsFiniteSet(S) /\ Limit \in Nat \ {0}
  BY IdsAreNumbers, FS_Subset
<1>2. \A x : IsFiniteSet(From(x)) /\ Cardinality(From(x)) \in Nat
  <2> SUFFICES ASSUME NEW x PROVE IsFiniteSet(From(x)) /\ Cardinality(From(x)) \in Nat
    OBVIOUS
  <2>1. From(x) \in SUBSET S
    OBVIOUS
  <2> HIDE DEF From
  <2> QED
    BY <1>1, <2>1, FS_Subset, FS_CardinalityType
<1>3. Row!Newest(S) = {k \in S : Cardinality(From(k)) <= Limit}
  BY RowCount DEF Row!Newest
<1>4. ASSUME S # {} PROVE Row!Newest(S) # {}
  <2>1. Cardinality(S) \in Nat /\ Cardinality(S) # 0
    BY <1>1, <1>4, FS_CardinalityType, FS_EmptySet
  <2>2. Descending(S)[1] \in S /\ Cardinality(From(Descending(S)[1])) = 1
    BY <1>1, <2>1, DescendingLists
  <2>3. 1 <= Limit
    BY <1>1
  <2> QED
    BY <1>3, <2>2, <2>3
<1>5. ASSUME NEW k \in S \ Row!Newest(S), NEW t \in Row!Newest(S) PROVE k < t
  <2>1. t \in S /\ Cardinality(From(t)) <= Limit /\ ~(Cardinality(From(k)) <= Limit)
    BY <1>3
  <2>2. k \in Nat /\ t \in Nat /\ \A n \in S : n \in Nat
    BY <1>1, <2>1
  <2>3. SUFFICES ASSUME ~(k < t) PROVE FALSE
    OBVIOUS
  <2>4. \A n \in S : n >= k => n >= t
    BY <2>2, <2>3
  <2>5. From(k) \in SUBSET From(t)
    BY <2>4
  <2>6. Cardinality(From(k)) <= Cardinality(From(t))
    <3> HIDE DEF From
    <3> QED
      BY <1>2, <2>5, FS_Subset
  <2> HIDE DEF From
  <2> QED
    BY <1>1, <1>2, <2>1, <2>6
<1>6. Row!Newest(S) \in SUBSET S
  BY <1>3
<1> QED
  BY <1>4, <1>5, <1>6

\* A page shows what it is to show, once, and its cursor is above what is left.
LEMMA CutFacts ==
  ASSUME Row!RowsAssumption, NEW S \in SUBSET Row!Ids, NEW shows \in SUBSET S,
         Row!Newest(S) \subseteq shows, NEW p, p = Row!Cut(shows, Row!Newest(S), S)
  PROVE  /\ p = [rows |-> p.rows, next |-> p.next]
         /\ p.rows \in Seq(Row!Ids) /\ p.next \in Row!Ids \cup {0} /\ Once(p.rows)
         /\ Elements(p.rows) = shows
         /\ \A k \in S \ shows : p.next # 0 /\ k < p.next
<1> DEFINE top == Row!Newest(S)
<1>1. S \in SUBSET Nat /\ IsFiniteSet(shows) /\ shows \in SUBSET Nat /\ 0 \notin Row!Ids
  BY IdsAreNumbers, FS_Subset
<1>2. p = [rows |-> Descending(shows), next |-> IF shows = S THEN 0 ELSE Row!Min(top)]
  BY RowDescending DEF Row!Cut
<1>3. Lists(p.rows, shows)
  BY <1>1, <1>2, DescendingLists
<1>4. p.rows \in Seq(Row!Ids)
  BY <1>3, SeqMonotonic DEF Lists
<1>5. Elements(p.rows) = shows
  <2>1. \A k \in DOMAIN p.rows : p.rows[k] \in shows
    BY <1>3 DEF Lists
  <2> QED
    BY <1>3, <2>1 DEF Lists, Elements
<1>6. Once(p.rows)
  BY <1>3, Zenon DEF Lists, Once
<1>7. CASE shows = S
  BY <1>2, <1>4, <1>5, <1>6, <1>7
<1>8. CASE shows # S
  <2>1. top \in SUBSET S /\ top # {} /\ \A k \in S \ top : \A t \in top : k < t
    <3>1. S # {}
      BY <1>8
    <3> QED
      BY <3>1, NewestFacts
  <2>2. Row!Min(top) \in top
    <3>1. \E x \in top : \A y \in top : x <= y
      <4> HIDE DEF top
      <4> QED
        BY <1>1, <2>1, Smallest
    <3> QED
      BY <3>1 DEF Row!Min
  <2>3. p.next = Row!Min(top)
    BY <1>2, <1>8
  <2>4. p.next \in Row!Ids /\ p.next # 0
    BY <1>1, <2>1, <2>2, <2>3
  <2>5. \A k \in S \ shows : k < p.next
    BY <2>1, <2>2, <2>3
  <2> HIDE DEF top
  <2> QED
    BY <1>2, <1>4, <1>5, <1>6, <2>4, <2>5
<1> QED
  BY <1>7, <1>8

-----------------------------------------------------------------------------
(* The invariant *)

\* Not in the list but below where its next page begins.
Below(k, next) == next # 0 /\ k < next /\ ~Row!IsUnread(k)

\* Every conversation but those of T is one of ids, or is still to come.
Covered(ids, next, T) ==
  \A k \in Row!Keys(folder) : Row!Conv(k) \notin T => k \in ids \/ Below(k, next)

RowsTyped ==
  /\ Row!TypeOK
  /\ refresh \in [at : {"none", "sent", "rendered"}, rows : Seq(Row!Ids), next : Row!Ids \cup {0}]
  /\ page \in [out : BOOLEAN, rows : Seq(Row!Ids), next : Row!Ids \cup {0}]
  /\ spare \in [arrivals : 0..MaxArrivals, deeds : 0..MaxDeeds]
  /\ aim \in Row!Ids \cup {0} /\ shown \in Nat

\* Rows are repeated only between a page and its settling.
OnceEach ==
  /\ "page" \notin settling => \A i, j \in DOMAIN rows : rows[i].id = rows[j].id => i = j
  /\ refresh.at = "rendered" => Once(refresh.rows)

\* The rows on screen, the list that was rendered and the page under way each leave
\* out only what is touched or below their cursor.
NoneMissing ==
  /\ Covered(Row!IdsOf(rows), cursor, touched)
  /\ refresh.at = "rendered" => Covered(Elements(refresh.rows), refresh.next, asked)
  /\ page.out => Covered(Row!IdsOf(rows) \cup Elements(page.rows), page.next, touched)

\* A row that goes, or is about to, is of a conversation that was touched.
GoneIsTouched ==
  /\ \A i \in DOMAIN rows : rows[i].going => Row!Conv(rows[i].id) \in touched
  /\ \A n \in DOMAIN moves : moves[n].at = "stored" /\ moves[n].list = shown =>
       Row!Conv(moves[n].id) \in touched

\* Nothing but the row the user selected is highlighted, or will be after a swap.
Aimed ==
  aim # 0 =>
    /\ marked \subseteq {aim} /\ aim \in Row!IdsOf(rows)
    /\ "list" \in settling => stash.i = 0 \/ stash.id = aim

RowsInv == RowsTyped /\ OnceEach /\ NoneMissing /\ GoneIsTouched /\ Aimed /\ Row!MovesTheSelected

\* Page one leaves out only what is below its cursor, for now.
LEMMA PageOneFacts ==
  ASSUME Row!RowsAssumption, folder \subseteq Row!Ids
  PROVE  /\ Row!PageOne = [rows |-> Row!PageOne.rows, next |-> Row!PageOne.next]
         /\ Row!PageOne.rows \in Seq(Row!Ids) /\ Row!PageOne.next \in Row!Ids \cup {0}
         /\ Once(Row!PageOne.rows)
         /\ \A k \in Row!Keys(folder) : k \in Elements(Row!PageOne.rows) \/ Below(k, Row!PageOne.next)
<1> DEFINE all == Row!Keys(folder)
           shows == Row!Newest(all) \cup {k \in all : Row!IsUnread(k)}
<1>1. all \in SUBSET Row!Ids
  BY DEF Row!Keys
<1>2. Row!Newest(all) \in SUBSET all
  <2> HIDE DEF all
  <2> QED
    BY <1>1, NewestFacts
<1>3. shows \in SUBSET all /\ Row!Newest(all) \subseteq shows
  BY <1>2
<1>4. PICK p : p = Row!PageOne
  OBVIOUS
<1>5. p = Row!Cut(shows, Row!Newest(all), all)
  BY <1>4, Zenon DEF Row!PageOne
<1>6. \A k \in all \ shows : ~Row!IsUnread(k)
  OBVIOUS
<1> HIDE DEF all, shows
<1>7. /\ p = [rows |-> p.rows, next |-> p.next]
      /\ p.rows \in Seq(Row!Ids) /\ p.next \in Row!Ids \cup {0} /\ Once(p.rows)
      /\ Elements(p.rows) = shows
      /\ \A k \in all \ shows : p.next # 0 /\ k < p.next
  BY <1>1, <1>3, <1>5, CutFacts
<1>8. \A k \in all : k \in Elements(p.rows) \/ Below(k, p.next)
  BY <1>6, <1>7 DEF Below
<1> QED
  BY <1>4, <1>7, <1>8 DEF all

\* And a later page what is below its own cursor, of what was below the one before.
LEMMA PageAfterFacts ==
  ASSUME Row!RowsAssumption, folder \subseteq Row!Ids, NEW top, NEW p, p = Row!PageAfter(top)
  PROVE  /\ p = [rows |-> p.rows, next |-> p.next]
         /\ p.rows \in Seq(Row!Ids) /\ p.next \in Row!Ids \cup {0}
         /\ \A k \in Row!Keys(folder) : Below(k, top) => k \in Elements(p.rows) \/ Below(k, p.next)
<1> DEFINE below == {k \in Row!Keys(folder) : k < top /\ ~Row!IsUnread(k)}
<1>1. below \in SUBSET Row!Ids
  BY DEF Row!Keys
<1>2. p = Row!Cut(Row!Newest(below), Row!Newest(below), below)
  BY Zenon DEF Row!PageAfter
<1>3. \A k \in Row!Keys(folder) : Below(k, top) => k \in below /\ ~Row!IsUnread(k)
  BY DEF Below
<1> HIDE DEF below
<1>4. Row!Newest(below) \in SUBSET below
  BY <1>1, NewestFacts
<1>5. PICK shows : shows = Row!Newest(below)
  OBVIOUS
<1>6. /\ p = [rows |-> p.rows, next |-> p.next]
      /\ p.rows \in Seq(Row!Ids) /\ p.next \in Row!Ids \cup {0}
      /\ Elements(p.rows) = shows
      /\ \A k \in below \ shows : p.next # 0 /\ k < p.next
  BY <1>1, <1>2, <1>4, <1>5, CutFacts
<1> QED
  BY <1>3, <1>6 DEF Below

\* Rows made of ids are of those ids, and stay.
Fresh(s) == [i \in DOMAIN s |-> Row!Row(s[i])]

LEMMA FreshRows ==
  ASSUME NEW s \in Seq(Row!Ids), NEW r, r = Fresh(s)
  PROVE  /\ r \in Seq(RowType) /\ DOMAIN r = DOMAIN s /\ Len(r) = Len(s)
         /\ \A i \in DOMAIN r : r[i].id = s[i] /\ ~r[i].going
         /\ Row!IdsOf(r) = Elements(s)
<1>1. DOMAIN s = 1..Len(s) /\ Len(s) \in Nat
  OBVIOUS
<1>2. \A i \in DOMAIN s : s[i] \in Row!Ids
  OBVIOUS
<1>3. DOMAIN r = DOMAIN s /\ \A i \in DOMAIN s : r[i] = [id |-> s[i], going |-> FALSE]
  BY DEF Row!Row, Fresh
<1>4. ASSUME NEW i \in DOMAIN s PROVE r[i] \in RowType /\ r[i].id = s[i] /\ ~r[i].going
  <2>1. PICK x \in Row!Ids : x = s[i]
    BY <1>2
  <2>2. PICK no \in BOOLEAN : no = FALSE
    OBVIOUS
  <2>3. [id |-> x, going |-> no] \in RowType
    BY DEF RowType
  <2>4. r[i] = [id |-> x, going |-> no]
    BY <1>3, <2>1, <2>2
  <2> QED
    BY <2>1, <2>2, <2>3, <2>4
<1>5. r \in [1..Len(s) -> RowType]
  BY <1>1, <1>4 DEF Fresh
<1>6. r \in Seq(RowType) /\ Len(r) = Len(s)
  BY <1>1, <1>5
<1>7. Row!IdsOf(r) = Elements(s)
  BY <1>3, <1>4 DEF Row!IdsOf, Elements
<1> QED
  BY <1>3, <1>4, <1>6, <1>7

-----------------------------------------------------------------------------
(* The folder's steps *)

\* What happens to other conversations leaves the keys of one as they are.
LEMMA Elsewhere ==
  ASSUME NEW C, \A m : Row!Conv(m) \notin C => (m \in folder' <=> m \in folder) /\ (m \in unread' => m \in unread)
  PROVE  \A k \in Row!Keys(folder)' : Row!Conv(k) \notin C =>
           /\ k \in Row!Keys(folder)
           /\ \A next : Below(k, next) => Below(k, next)'
<1> SUFFICES ASSUME NEW k \in Row!Keys(folder)', Row!Conv(k) \notin C
             PROVE  /\ k \in Row!Keys(folder)
                    /\ \A next : Below(k, next) => Below(k, next)'
  OBVIOUS
<1>1. k \in folder' /\ \A n \in folder' : Row!Conv(n) = Row!Conv(k) => n <= k
  BY DEF Row!Keys
<1>2. \A n \in folder : Row!Conv(n) = Row!Conv(k) => n \in folder'
  OBVIOUS
<1>3. k \in Row!Keys(folder)
  BY <1>1, <1>2 DEF Row!Keys
<1>4. Row!IsUnread(k)' => Row!IsUnread(k)
  BY DEF Row!IsUnread
<1>5. \A next : Below(k, next) => Below(k, next)'
  BY <1>4 DEF Below
<1> QED
  BY <1>3, <1>5

LEMMA FolderSteps ==
  ASSUME OnceEach, NoneMissing, GoneIsTouched, Aimed, Row!MovesTheSelected,
         NEW C, \A m : Row!Conv(m) \notin C => (m \in folder' <=> m \in folder) /\ (m \in unread' => m \in unread),
         touched \cup C \subseteq touched', asked \cup C \subseteq asked',
         UNCHANGED <<rows, cursor, marked, stash, settling, page, shown, aim, astray>>,
         refresh' = refresh \/ refresh'.at # "rendered",
         \A n \in DOMAIN moves' : moves'[n].at = "stored" =>
           Row!Conv(moves'[n].id) \in C \/ (n \in DOMAIN moves /\ moves'[n] = moves[n])
  PROVE  OnceEach' /\ NoneMissing' /\ GoneIsTouched' /\ Aimed' /\ Row!MovesTheSelected'
<1>1. OnceEach'
  BY DEF OnceEach, Once
<1>2. \A k \in Row!Keys(folder)' : Row!Conv(k) \notin C =>
        k \in Row!Keys(folder) /\ \A next : Below(k, next) => Below(k, next)'
  BY Elsewhere
<1>3. /\ \A k \in Row!Keys(folder) : Row!Conv(k) \notin touched => k \in Row!IdsOf(rows) \/ Below(k, cursor)
      /\ refresh.at = "rendered" => \A k \in Row!Keys(folder) : Row!Conv(k) \notin asked =>
           k \in Elements(refresh.rows) \/ Below(k, refresh.next)
      /\ page.out => \A k \in Row!Keys(folder) : Row!Conv(k) \notin touched =>
           k \in Row!IdsOf(rows) \cup Elements(page.rows) \/ Below(k, page.next)
  BY Zenon DEF NoneMissing, Covered
<1>4. ASSUME NEW k \in Row!Keys(folder)', Row!Conv(k) \notin touched'
      PROVE  k \in Row!IdsOf(rows) \/ Below(k, cursor)'
  <2>1. PICK next : next = cursor
    OBVIOUS
  <2>2. Below(k, next) => Below(k, next)'
    BY <1>2, <1>4
  <2>3. Below(k, cursor) => Below(k, cursor)'
    BY <2>1, <2>2 DEF Below
  <2> QED
    BY <1>2, <1>3, <1>4, <2>3
<1>5. ASSUME NEW k \in Row!Keys(folder)', Row!Conv(k) \notin asked', refresh'.at = "rendered"
      PROVE  k \in Elements(refresh.rows) \/ Below(k, refresh.next)'
  <2>1. PICK next : next = refresh.next
    OBVIOUS
  <2>2. Below(k, next) => Below(k, next)'
    BY <1>2, <1>5
  <2>3. refresh' = refresh
    BY <1>5
  <2>4. Below(k, refresh.next) => Below(k, refresh.next)'
    BY <2>1, <2>2, <2>3 DEF Below
  <2> QED
    BY <1>2, <1>3, <1>5, <2>3, <2>4
<1>6. ASSUME NEW k \in Row!Keys(folder)', Row!Conv(k) \notin touched', page.out
      PROVE  k \in Row!IdsOf(rows) \cup Elements(page.rows) \/ Below(k, page.next)'
  <2>1. PICK next : next = page.next
    OBVIOUS
  <2>2. Below(k, next) => Below(k, next)'
    BY <1>2, <1>6
  <2>3. Below(k, page.next) => Below(k, page.next)'
    BY <2>1, <2>2 DEF Below
  <2> QED
    BY <1>2, <1>3, <1>6, <2>3
<1>7. NoneMissing'
  <2>1. Row!IdsOf(rows)' = Row!IdsOf(rows) /\ Elements(page.rows)' = Elements(page.rows)
    BY DEF Row!IdsOf, Elements
  <2>2. refresh'.at = "rendered" => Elements(refresh.rows)' = Elements(refresh.rows)
    BY DEF Elements
  <2>3. Covered(Row!IdsOf(rows), cursor, touched)'
    BY <1>4, <2>1 DEF Covered
  <2>4. (refresh.at = "rendered")' => Covered(Elements(refresh.rows), refresh.next, asked)'
    BY <1>5, <2>2 DEF Covered
  <2>5. page'.out => Covered(Row!IdsOf(rows) \cup Elements(page.rows), page.next, touched)'
    BY <1>6, <2>1 DEF Covered
  <2> QED
    BY <2>3, <2>4, <2>5 DEF NoneMissing
<1>8. GoneIsTouched'
  BY DEF GoneIsTouched
<1>9. Aimed' /\ Row!MovesTheSelected'
  BY DEF Aimed, Row!MovesTheSelected, Row!IdsOf
<1> QED
  BY <1>1, <1>7, <1>8, <1>9

LEMMA Spends == ASSUME Row!RowsAssumption, RowsTyped, NEW what \in {"arrivals", "deeds"}, Row!Take(what)
                PROVE  /\ spare' \in [arrivals : 0..MaxArrivals, deeds : 0..MaxDeeds]
                       /\ spare[what] > 0
<1>1. PICK b \in Nat, c \in Nat : b = MaxArrivals /\ c = MaxDeeds
  BY IdsAreNumbers
<1>2. spare \in [arrivals : 0..b, deeds : 0..c] /\ spare[what] > 0
      /\ spare' = [spare EXCEPT ![what] = spare[what] - 1]
  BY <1>1 DEF RowsTyped, Row!Take
<1>3. spare' \in [arrivals : 0..b, deeds : 0..c]
  <2>0. PICK n \in Int : n = spare[what] - 1
    BY <1>2
  <2>1. CASE what = "arrivals"
    <3>1. n \in 0..b /\ spare' = [spare EXCEPT !["arrivals"] = n]
      BY <1>2, <2>0, <2>1
    <3> QED
      BY <1>2, <3>1
  <2>2. CASE what = "deeds"
    <3>1. n \in 0..c /\ spare' = [spare EXCEPT !["deeds"] = n]
      BY <1>2, <2>0, <2>2
    <3> QED
      BY <1>2, <3>1
  <2> QED
    BY <2>1, <2>2
<1> QED
  BY <1>1, <1>2, <1>3

LEMMA ArriveStep == ASSUME Row!RowsAssumption, RowsInv, Row!Arrive PROVE RowsInv'
<1> DEFINE m == Start + MaxArrivals - spare.arrivals + 1
<1>1. /\ folder' = folder \cup {m} /\ unread' = unread \cup {m}
      /\ touched' = touched \cup {Row!Conv(m)} /\ asked' = asked \cup {Row!Conv(m)}
      /\ UNCHANGED <<rows, cursor, marked, stash, settling, refresh, page, moves, shown, aim, astray>>
  BY DEF Row!Arrive, Row!Touch, Row!browserVars
<1>2. spare' \in [arrivals : 0..MaxArrivals, deeds : 0..MaxDeeds] /\ spare.arrivals > 0
  <2>1. Row!Take("arrivals") /\ RowsTyped
    BY DEF Row!Arrive, RowsInv
  <2> QED
    BY <2>1, Spends
<1>3. m \in Row!Ids
  <2>1. spare.arrivals \in 0..MaxArrivals
    BY DEF RowsInv, RowsTyped
  <2> QED
    BY <1>2, <2>1, IdsAreNumbers DEF Row!Ids
<1> HIDE DEF m
<1>4. RowsTyped'
  <2>1. Row!TypeOK'
    BY <1>1, <1>3 DEF RowsInv, RowsTyped, Row!TypeOK
  <2> QED
    BY <1>1, <1>2, <2>1 DEF RowsInv, RowsTyped
<1>5. \A n : Row!Conv(n) \notin {Row!Conv(m)} => (n \in folder' <=> n \in folder) /\ (n \in unread' => n \in unread)
  BY <1>1
<1>6. OnceEach' /\ NoneMissing' /\ GoneIsTouched' /\ Aimed' /\ Row!MovesTheSelected'
  <2>1. PICK C : C = {Row!Conv(m)}
    OBVIOUS
  <2>2. \A n : Row!Conv(n) \notin C => (n \in folder' <=> n \in folder) /\ (n \in unread' => n \in unread)
    BY <1>5, <2>1
  <2> QED
    BY <1>1, <2>1, <2>2, FolderSteps DEF RowsInv
<1> QED
  BY <1>4, <1>6 DEF RowsInv

LEMMA MarkStep == ASSUME Row!RowsAssumption, RowsInv, NEW m \in folder, Row!MarkConversation(m) PROVE RowsInv'
<1> DEFINE all == {n \in folder : Row!Conv(n) = Row!Conv(m)}
<1>1. /\ folder' = folder
      /\ UNCHANGED <<rows, cursor, marked, stash, settling, refresh, page, moves, shown, aim, astray>>
  BY DEF Row!MarkConversation, Row!browserVars
<1>2. \/ unread' = unread \ all /\ touched' = touched /\ asked' = asked
      \/ unread' = unread \cup all /\ touched' = touched \cup {Row!Conv(m)} /\ asked' = asked \cup {Row!Conv(m)}
  BY Zenon DEF Row!MarkConversation, Row!Touch
<1>3. spare' \in [arrivals : 0..MaxArrivals, deeds : 0..MaxDeeds]
  <2>1. Row!Take("deeds") /\ RowsTyped
    BY DEF Row!MarkConversation, RowsInv
  <2> QED
    BY <2>1, Spends
<1>4. RowsTyped'
  <2>1. unread' \subseteq folder
    BY <1>2 DEF RowsInv, RowsTyped, Row!TypeOK
  <2> HIDE DEF all
  <2>2. Row!TypeOK'
    BY <1>1, <2>1 DEF RowsInv, RowsTyped, Row!TypeOK
  <2> QED
    BY <1>1, <1>3, <2>2 DEF RowsInv, RowsTyped
<1>6. OnceEach' /\ NoneMissing' /\ GoneIsTouched' /\ Aimed' /\ Row!MovesTheSelected'
  <2>1. CASE unread' = unread \ all /\ touched' = touched /\ asked' = asked
    <3>1. PICK C : C = {}
      OBVIOUS
    <3>2. \A n : Row!Conv(n) \notin C => (n \in folder' <=> n \in folder) /\ (n \in unread' => n \in unread)
      BY <1>1, <2>1
    <3> HIDE DEF all
    <3> QED
      BY <1>1, <2>1, <3>1, <3>2, FolderSteps DEF RowsInv
  <2>2. CASE unread' = unread \cup all /\ touched' = touched \cup {Row!Conv(m)} /\ asked' = asked \cup {Row!Conv(m)}
    <3>1. PICK C : C = {Row!Conv(m)}
      OBVIOUS
    <3>2. \A n : Row!Conv(n) \notin C => (n \in folder' <=> n \in folder) /\ (n \in unread' => n \in unread)
      BY <1>1, <2>2, <3>1
    <3> HIDE DEF all
    <3> QED
      BY <1>1, <2>2, <3>1, <3>2, FolderSteps DEF RowsInv
  <2> QED
    BY <1>2, <2>1, <2>2
<1> QED
  BY <1>4, <1>6 DEF RowsInv

MoveType == [id : Row!Ids, at : {"sent", "stored", "done"}, list : 0..shown]

LEMMA StoreMoveStep == ASSUME Row!RowsAssumption, RowsInv, NEW n \in DOMAIN moves, Row!StoreMove(n) PROVE RowsInv'
<1>1. moves \in Seq(MoveType) /\ shown \in Nat
  BY DEF RowsInv, RowsTyped, Row!TypeOK, MoveType
<1>a. moves[n] \in MoveType
  BY <1>1
<1>2. PICK m \in Row!Ids : m = moves[n].id
  BY <1>a DEF MoveType
<1>3. /\ folder' = folder \ {m} /\ unread' = unread \ {m}
      /\ touched' = touched \cup {Row!Conv(m)} /\ asked' = asked \cup {Row!Conv(m)}
      /\ UNCHANGED <<rows, cursor, marked, stash, settling, refresh, page, shown, spare, aim, astray>>
  BY <1>2 DEF Row!StoreMove, Row!Touch
<1>4. PICK v : v = [moves[n] EXCEPT !.at = "stored"]
  OBVIOUS
<1>5. v \in MoveType /\ v.id = m /\ moves' = [moves EXCEPT ![n] = v]
  <2>1. v \in MoveType /\ v.id = m
    BY <1>a, <1>2, <1>4 DEF MoveType
  <2>2. moves' = [moves EXCEPT ![n] = v]
    BY <1>4 DEF Row!StoreMove
  <2> QED
    BY <2>1, <2>2
<1>6. moves' \in Seq(MoveType) /\ DOMAIN moves' = DOMAIN moves
      /\ \A k \in DOMAIN moves : moves'[k] = IF k = n THEN v ELSE moves[k]
  BY <1>1, <1>5, ExceptSeq
<1>7. RowsTyped'
  <2>1. moves' \in Seq([id : Row!Ids, at : {"sent", "stored", "done"}, list : 0..shown'])
    BY <1>3, <1>6 DEF MoveType
  <2>2. Row!TypeOK'
    BY <1>3, <2>1 DEF RowsInv, RowsTyped, Row!TypeOK
  <2> QED
    BY <1>3, <2>2 DEF RowsInv, RowsTyped
<1>8. \A k \in DOMAIN moves' : Row!Conv(moves'[k].id) = Row!Conv(m) \/ (k \in DOMAIN moves /\ moves'[k] = moves[k])
  BY <1>5, <1>6
<1>9. PICK C : C = {Row!Conv(m)}
  OBVIOUS
<1>10. \A k : Row!Conv(k) \notin C => (k \in folder' <=> k \in folder) /\ (k \in unread' => k \in unread)
  BY <1>3, <1>9
<1>11. OnceEach' /\ NoneMissing' /\ GoneIsTouched' /\ Aimed' /\ Row!MovesTheSelected'
  BY <1>3, <1>8, <1>9, <1>10, FolderSteps DEF RowsInv
<1> QED
  BY <1>7, <1>11 DEF RowsInv

LEMMA UndoStep == ASSUME Row!RowsAssumption, RowsInv, NEW n \in DOMAIN moves, Row!UndoMove(n) PROVE RowsInv'
<1>1. moves \in Seq(MoveType) /\ shown \in Nat
  BY DEF RowsInv, RowsTyped, Row!TypeOK, MoveType
<1>a. moves[n] \in MoveType
  BY <1>1
<1>2. PICK m \in Row!Ids : m = moves[n].id
  BY <1>a DEF MoveType
<1>3. /\ folder' = folder \cup {m}
      /\ touched' = touched \cup {Row!Conv(m)} /\ asked' = asked \cup {Row!Conv(m)}
      /\ UNCHANGED <<unread, rows, cursor, marked, stash, settling, page, moves, shown, aim, astray>>
  BY <1>2 DEF Row!UndoMove, Row!Touch
<1>4. refresh' = refresh \/ (refresh'.at = "sent" /\ refresh' \in [at : {"none", "sent", "rendered"}, rows : Seq(Row!Ids), next : Row!Ids \cup {0}])
  <2>1. PICK no : no = Row!NoList
    OBVIOUS
  <2>2. no = [at |-> "none", rows |-> <<>>, next |-> 0] /\ <<>> \in Seq(Row!Ids)
    BY <2>1 DEF Row!NoList
  <2>3. [no EXCEPT !.at = "sent"] = [at |-> "sent", rows |-> <<>>, next |-> 0]
    BY <2>2
  <2> QED
    BY <2>1, <2>2, <2>3 DEF Row!UndoMove
<1>5. spare' \in [arrivals : 0..MaxArrivals, deeds : 0..MaxDeeds]
  <2>1. Row!Take("deeds") /\ RowsTyped
    BY DEF Row!UndoMove, RowsInv
  <2> QED
    BY <2>1, Spends
<1>6. RowsTyped'
  <2>1. refresh' \in [at : {"none", "sent", "rendered"}, rows : Seq(Row!Ids), next : Row!Ids \cup {0}]
    BY <1>4 DEF RowsInv, RowsTyped
  <2>2. refresh'.at \in {"none", "sent", "rendered"}
    BY <2>1
  <2>3. Row!TypeOK'
    BY <1>3, <2>2 DEF RowsInv, RowsTyped, Row!TypeOK
  <2> QED
    BY <1>3, <1>5, <2>1, <2>3 DEF RowsInv, RowsTyped
<1>7. PICK C : C = {Row!Conv(m)}
  OBVIOUS
<1>8. \A k : Row!Conv(k) \notin C => (k \in folder' <=> k \in folder) /\ (k \in unread' => k \in unread)
  BY <1>3, <1>7
<1>9. refresh' = refresh \/ refresh'.at # "rendered"
  BY <1>4
<1>10. OnceEach' /\ NoneMissing' /\ GoneIsTouched' /\ Aimed' /\ Row!MovesTheSelected'
  BY <1>3, <1>7, <1>8, <1>9, FolderSteps DEF RowsInv
<1> QED
  BY <1>6, <1>10 DEF RowsInv

-----------------------------------------------------------------------------
(* The browser's steps *)

\* What the folder holds and what was rendered of it stay as they are.
LEMMA SameCover ==
  ASSUME NoneMissing, UNCHANGED <<folder, unread, rows, cursor, page, touched>>,
         refresh'.at = "rendered" => refresh' = refresh /\ asked' = asked
  PROVE  NoneMissing'
<1>1. \A ids, next, T : Covered(ids, next, T) => Covered(ids, next, T)'
  BY DEF Covered, Below, Row!Keys, Row!IsUnread
<1>2. PICK a, b, c : a = Row!IdsOf(rows) /\ b = Row!IdsOf(rows) \cup Elements(page.rows) /\ c = Elements(refresh.rows)
  OBVIOUS
<1>3. Row!IdsOf(rows)' = a /\ (Row!IdsOf(rows) \cup Elements(page.rows))' = b
  BY <1>2 DEF Row!IdsOf, Elements
<1>4. PICK n, p, T : n = cursor /\ p = page.next /\ T = touched
  OBVIOUS
<1>5. Covered(a, n, T) /\ (page.out => Covered(b, p, T))
  BY <1>2, <1>4, Zenon DEF NoneMissing
<1>6. Covered(a, n, T)' /\ (page.out => Covered(b, p, T)')
  BY <1>1, <1>5
<1>7. Covered(Row!IdsOf(rows), cursor, touched)' /\ (page'.out => Covered(Row!IdsOf(rows) \cup Elements(page.rows), page.next, touched)')
  BY <1>3, <1>4, <1>6 DEF Covered, Below
<1>8. ASSUME refresh'.at = "rendered" PROVE Covered(Elements(refresh.rows), refresh.next, asked)'
  <2>1. PICK k, U : k = refresh.next /\ U = asked
    OBVIOUS
  <2>2. Covered(c, k, U)
    BY <1>2, <1>8, <2>1, Zenon DEF NoneMissing
  <2>3. Covered(c, k, U)'
    BY <1>1, <2>2
  <2>4. Elements(refresh.rows)' = c
    BY <1>2, <1>8 DEF Elements
  <2> QED
    BY <1>8, <2>1, <2>3, <2>4 DEF Covered, Below
<1> QED
  BY <1>7, <1>8 DEF NoneMissing

LEMMA AskListStep == ASSUME Row!RowsAssumption, RowsInv, Row!AskList PROVE RowsInv'
<1>1. UNCHANGED <<folder, unread, rows, cursor, marked, stash, settling, page, moves, shown, aim, touched, asked, astray>>
  BY DEF Row!AskList
<1>2. spare' \in [arrivals : 0..MaxArrivals, deeds : 0..MaxDeeds]
  <2>1. Row!Take("deeds") /\ RowsTyped
    BY DEF Row!AskList, RowsInv
  <2> QED
    BY <2>1, Spends
<1>3. refresh'.at = "sent" /\ refresh' \in [at : {"none", "sent", "rendered"}, rows : Seq(Row!Ids), next : Row!Ids \cup {0}]
  <2>1. PICK no : no = Row!NoList
    OBVIOUS
  <2>2. no = [at |-> "none", rows |-> <<>>, next |-> 0] /\ <<>> \in Seq(Row!Ids)
    BY <2>1 DEF Row!NoList
  <2>3. [no EXCEPT !.at = "sent"] = [at |-> "sent", rows |-> <<>>, next |-> 0]
    BY <2>2
  <2> QED
    BY <2>1, <2>2, <2>3 DEF Row!AskList
<1>4. RowsTyped'
  <2>1. Row!TypeOK'
    BY <1>1, <1>3 DEF RowsInv, RowsTyped, Row!TypeOK
  <2> QED
    BY <1>1, <1>2, <1>3, <2>1 DEF RowsInv, RowsTyped
<1>5. OnceEach' /\ GoneIsTouched' /\ Aimed' /\ Row!MovesTheSelected'
  BY <1>1, <1>3 DEF RowsInv, OnceEach, GoneIsTouched, Aimed, Row!MovesTheSelected, Row!IdsOf
<1>6. NoneMissing'
  BY <1>1, <1>3, SameCover DEF RowsInv
<1> QED
  BY <1>4, <1>5, <1>6 DEF RowsInv

LEMMA RenderListStep == ASSUME Row!RowsAssumption, RowsInv, Row!RenderList PROVE RowsInv'
<1>1. UNCHANGED <<folder, unread, rows, cursor, marked, stash, settling, page, moves, shown, spare, aim, touched, astray>>
  BY DEF Row!RenderList
<1>2. PICK p : p = Row!PageOne
  OBVIOUS
<1>3. /\ p.rows \in Seq(Row!Ids) /\ p.next \in Row!Ids \cup {0} /\ Once(p.rows)
      /\ \A k \in Row!Keys(folder) : k \in Elements(p.rows) \/ Below(k, p.next)
  <2>1. folder \subseteq Row!Ids
    BY DEF RowsInv, RowsTyped, Row!TypeOK
  <2> QED
    BY <1>2, <2>1, PageOneFacts
<1>4. refresh' = [at |-> "rendered", rows |-> p.rows, next |-> p.next]
  BY <1>2 DEF Row!RenderList
<1>5. RowsTyped'
  <2>1. Row!TypeOK'
    BY <1>1, <1>4 DEF RowsInv, RowsTyped, Row!TypeOK
  <2> QED
    BY <1>1, <1>3, <1>4, <2>1 DEF RowsInv, RowsTyped
<1>6. OnceEach' /\ GoneIsTouched' /\ Aimed' /\ Row!MovesTheSelected'
  BY <1>1, <1>3, <1>4 DEF RowsInv, OnceEach, GoneIsTouched, Aimed, Row!MovesTheSelected, Row!IdsOf
<1>7. NoneMissing'
  <2>1. Covered(Row!IdsOf(rows), cursor, touched) /\ (page.out => Covered(Row!IdsOf(rows) \cup Elements(page.rows), page.next, touched))
    BY DEF RowsInv, NoneMissing
  <2>2. Covered(Row!IdsOf(rows), cursor, touched)' /\ (page'.out => Covered(Row!IdsOf(rows) \cup Elements(page.rows), page.next, touched)')
    BY <1>1, <2>1 DEF Covered, Below, Row!Keys, Row!IsUnread, Row!IdsOf, Elements
  <2>3. Elements(refresh.rows)' = Elements(p.rows)
    BY <1>4 DEF Elements
  <2>4. \A k \in Row!Keys(folder)' : k \in Elements(p.rows) \/ Below(k, refresh.next)'
    BY <1>1, <1>3, <1>4 DEF Below, Row!Keys, Row!IsUnread
  <2>5. Covered(Elements(refresh.rows), refresh.next, asked)'
    BY <2>3, <2>4 DEF Covered
  <2> QED
    BY <2>2, <2>5 DEF NoneMissing
<1> QED
  BY <1>5, <1>6, <1>7 DEF RowsInv

\* The selected row is one that is highlighted.
LEMMA SelectedFacts ==
  ASSUME RowsTyped
  PROVE  /\ Row!Selected \in Nat
         /\ Row!Selected # 0 => Row!Selected \in DOMAIN rows /\ rows[Row!Selected].id \in marked
<1>1. rows \in Seq(RowType)
  BY DEF RowsTyped, Row!TypeOK, RowType
<1> DEFINE I == {i \in 1..Len(rows) : rows[i].id \in marked}
<1>2. DOMAIN rows = 1..Len(rows) /\ Len(rows) \in Nat
  BY <1>1
<1>3. I \in SUBSET Nat
  BY <1>2
<1>4. CASE \E i \in DOMAIN rows : rows[i].id \in marked
  <2>1. I # {}
    BY <1>2, <1>4
  <2>2. Row!Selected = Row!Min(I)
    BY <1>4, <2>1 DEF Row!Selected, Row!SelectInSeq
  <2>3. Row!Min(I) \in I
    <3>1. \E x \in I : \A y \in I : x <= y
      <4> HIDE DEF I
      <4> QED
        BY <1>3, <2>1, Smallest
    <3> QED
      BY <3>1 DEF Row!Min
  <2> QED
    BY <1>2, <1>3, <2>2, <2>3
<1>5. CASE ~\E i \in DOMAIN rows : rows[i].id \in marked
  BY <1>5 DEF Row!Selected
<1> QED
  BY <1>4, <1>5

LEMMA ListArrivesStep == ASSUME Row!RowsAssumption, RowsInv, Row!ListArrives PROVE RowsInv'
<1>1. /\ UNCHANGED <<folder, unread, moves, spare, asked, astray>>
      /\ refresh.at = "rendered" /\ cursor' = refresh.next /\ marked' = {} /\ page' = Row!NoPage
      /\ refresh' = Row!NoList /\ shown' = shown + 1 /\ settling' = settling \cup {"list"} /\ touched' = asked
      /\ stash' = [id |-> IF Row!Selected = 0 THEN 0 ELSE rows[Row!Selected].id, i |-> Row!Selected]
      /\ rows' = [i \in DOMAIN refresh.rows |-> Row!Row(refresh.rows[i])]
  BY DEF Row!ListArrives
<1>2. refresh.rows \in Seq(Row!Ids) /\ refresh.next \in Row!Ids \cup {0} /\ Once(refresh.rows)
  BY <1>1 DEF RowsInv, RowsTyped, OnceEach
<1>3. /\ rows' \in Seq(RowType) /\ DOMAIN rows' = DOMAIN refresh.rows
      /\ \A i \in DOMAIN rows' : rows'[i].id = refresh.rows[i] /\ ~rows'[i].going
      /\ Row!IdsOf(rows)' = Elements(refresh.rows)
  <2>1. PICK s : s = refresh.rows
    OBVIOUS
  <2>2. PICK r : r = rows'
    OBVIOUS
  <2>3. r = Fresh(s)
    BY <1>1, <2>1, <2>2 DEF Fresh
  <2>4. /\ r \in Seq(RowType) /\ DOMAIN r = DOMAIN s
        /\ \A i \in DOMAIN r : r[i].id = s[i] /\ ~r[i].going
        /\ Row!IdsOf(r) = Elements(s)
    BY <1>2, <2>1, <2>3, FreshRows
  <2> QED
    BY <2>1, <2>2, <2>4 DEF Row!IdsOf
<1>4. refresh' = [at |-> "none", rows |-> <<>>, next |-> 0] /\ page' = [out |-> FALSE, rows |-> <<>>, next |-> 0]
  BY <1>1 DEF Row!NoList, Row!NoPage
<1>5. /\ Row!Selected \in Nat
      /\ Row!Selected # 0 => Row!Selected \in DOMAIN rows /\ rows[Row!Selected].id \in marked
  BY SelectedFacts DEF RowsInv
<1>6. stash' \in [id : Row!Ids \cup {0}, i : Nat] /\ (stash'.i # 0 => stash'.id \in marked)
  <2>0. marked \subseteq Row!Ids
    BY DEF RowsInv, RowsTyped, Row!TypeOK
  <2>1. CASE Row!Selected = 0
    <3>1. stash' = [id |-> 0, i |-> 0]
      BY <1>1, <2>1
    <3> QED
      BY <3>1
  <2>2. CASE Row!Selected # 0
    <3>1. PICK x \in marked : x = rows[Row!Selected].id
      BY <1>5, <2>2
    <3>2. stash' = [id |-> x, i |-> Row!Selected]
      BY <1>1, <2>2, <3>1
    <3> QED
      BY <1>5, <2>0, <3>2
  <2> QED
    BY <2>1, <2>2
<1>7. aim' \in {0, aim} /\ (aim' # 0 => aim' \in Elements(refresh.rows))
  BY DEF Row!ListArrives, Elements
<1>8. RowsTyped'
  <2>1. moves' \in Seq([id : Row!Ids, at : {"sent", "stored", "done"}, list : 0..shown']) /\ shown' \in Nat
    <3>1. MoveType \subseteq [id : Row!Ids, at : {"sent", "stored", "done"}, list : 0..shown'] /\ shown' \in Nat
      BY <1>1 DEF MoveType, RowsInv, RowsTyped
    <3>2. moves \in Seq(MoveType)
      BY DEF RowsInv, RowsTyped, Row!TypeOK, MoveType
    <3>3. moves \in Seq([id : Row!Ids, at : {"sent", "stored", "done"}, list : 0..shown'])
      BY <3>1, <3>2, SeqMonotonic
    <3> QED
      BY <1>1, <3>1, <3>3
  <2>2. Row!TypeOK'
    BY <1>1, <1>2, <1>3, <1>4, <1>6, <2>1 DEF RowsInv, RowsTyped, Row!TypeOK, RowType
  <2>3. refresh' \in [at : {"none", "sent", "rendered"}, rows : Seq(Row!Ids), next : Row!Ids \cup {0}]
    BY <1>4
  <2>4. page' \in [out : BOOLEAN, rows : Seq(Row!Ids), next : Row!Ids \cup {0}]
    BY <1>4
  <2> QED
    BY <1>1, <1>7, <2>1, <2>2, <2>3, <2>4 DEF RowsInv, RowsTyped
<1>9. OnceEach'
  BY <1>2, <1>3, <1>4 DEF OnceEach, Once
<1>10. NoneMissing'
  <2>1. Covered(Elements(refresh.rows), refresh.next, asked)
    BY <1>1 DEF RowsInv, NoneMissing
  <2>2. \A k \in Row!Keys(folder)' : Row!Conv(k) \notin asked => k \in Elements(refresh.rows) \/ Below(k, cursor)'
    BY <1>1, <2>1 DEF Covered, Below, Row!Keys, Row!IsUnread
  <2>3. Covered(Row!IdsOf(rows), cursor, touched)'
    BY <1>1, <1>3, <2>2 DEF Covered
  <2> QED
    BY <1>4, <2>3 DEF NoneMissing
<1>11. GoneIsTouched'
  <2>1. \A n \in DOMAIN moves : moves[n].list # shown'
    <3>0. moves \in Seq(MoveType)
      BY DEF RowsInv, RowsTyped, Row!TypeOK, MoveType
    <3>a. \A n \in DOMAIN moves : moves[n] \in MoveType
      BY <3>0
    <3>1. \A n \in DOMAIN moves : moves[n].list \in 0..shown
      BY <3>a DEF MoveType
    <3>2. shown \in Nat
      BY DEF RowsInv, RowsTyped
    <3> QED
      BY <1>1, <3>1, <3>2
  <2> QED
    BY <1>1, <1>3, <2>1 DEF GoneIsTouched
<1>12. Aimed'
  <2>1. aim # 0 => marked \subseteq {aim}
    BY DEF RowsInv, Aimed
  <2> QED
    BY <1>1, <1>3, <1>6, <1>7, <2>1 DEF Aimed
<1>13. Row!MovesTheSelected'
  BY <1>1 DEF RowsInv, Row!MovesTheSelected
<1> QED
  BY <1>8, <1>9, <1>10, <1>11, <1>12, <1>13 DEF RowsInv

LEMMA ListSettlesStep == ASSUME Row!RowsAssumption, RowsInv, Row!ListSettles PROVE RowsInv'
<1>1. /\ UNCHANGED <<folder, unread, rows, cursor, refresh, page, moves, shown, spare, aim, touched, asked, astray>>
      /\ settling' = settling \ {"list"} /\ stash' = Row!NoStash /\ marked' = marked \cup ({Row!Heir} \ {0})
      /\ "list" \in settling
  BY DEF Row!ListSettles
<1>2. /\ Row!Heir \in Row!Ids \cup {0}
      /\ aim # 0 => Row!Heir \in {0, aim}
  <2>1. /\ rows \in Seq(RowType) /\ stash \in [id : Row!Ids \cup {0}, i : Nat]
    BY DEF RowsInv, RowsTyped, Row!TypeOK, RowType
  <2>a. \A i \in DOMAIN rows : rows[i] \in RowType
    BY <2>1
  <2>2. \A i \in DOMAIN rows : rows[i].id \in Row!Ids
    BY <2>a DEF RowType
  <2>3. CASE stash.i = 0 \/ rows = <<>>
    BY <2>3 DEF Row!Heir
  <2>4. CASE ~(stash.i = 0 \/ rows = <<>>) /\ stash.id \in Row!IdsOf(rows)
    <3>1. Row!Heir = stash.id
      BY <2>4 DEF Row!Heir
    <3>2. stash.id \in Row!Ids
      BY <2>2, <2>4 DEF Row!IdsOf
    <3> QED
      BY <1>1, <2>4, <3>1, <3>2 DEF RowsInv, Aimed
  <2>5. CASE ~(stash.i = 0 \/ rows = <<>>) /\ stash.id \notin Row!IdsOf(rows)
    <3>1. PICK n \in Nat : n = stash.i /\ n # 0
      BY <2>1, <2>5
    <3>2. Row!Heir = rows[IF n < Len(rows) THEN n ELSE Len(rows)].id
      BY <2>5, <3>1 DEF Row!Heir
    <3>3. Len(rows) \in Nat /\ Len(rows) # 0 /\ DOMAIN rows = 1..Len(rows)
      BY <2>1, <2>5
    <3>4. (IF n < Len(rows) THEN n ELSE Len(rows)) \in DOMAIN rows
      BY <3>1, <3>3
    <3>5. aim = 0
      BY <1>1, <2>5 DEF RowsInv, Aimed
    <3> QED
      BY <2>2, <3>2, <3>4, <3>5
  <2> QED
    BY <2>3, <2>4, <2>5
<1>3. stash' = [id |-> 0, i |-> 0]
  BY <1>1 DEF Row!NoStash
<1>4. RowsTyped'
  <2>1. marked' \subseteq Row!Ids
    BY <1>1, <1>2 DEF RowsInv, RowsTyped, Row!TypeOK
  <2>2. stash' \in [id : Row!Ids \cup {0}, i : Nat]
    BY <1>3
  <2>3. Row!TypeOK'
    BY <1>1, <2>1, <2>2 DEF RowsInv, RowsTyped, Row!TypeOK
  <2> QED
    BY <1>1, <2>3 DEF RowsInv, RowsTyped
<1>5. OnceEach' /\ GoneIsTouched' /\ Row!MovesTheSelected'
  BY <1>1 DEF RowsInv, OnceEach, GoneIsTouched, Row!MovesTheSelected
<1>6. Aimed'
  BY <1>1, <1>2 DEF RowsInv, Aimed, Row!IdsOf
<1>7. NoneMissing'
  BY <1>1, SameCover DEF RowsInv
<1> QED
  BY <1>4, <1>5, <1>6, <1>7 DEF RowsInv

LEMMA RenderPageStep == ASSUME Row!RowsAssumption, RowsInv, Row!RenderPage PROVE RowsInv'
<1>1. UNCHANGED <<folder, unread, rows, cursor, marked, stash, settling, refresh, moves, shown, spare, aim, touched, asked, astray>>
  BY DEF Row!RenderPage
<1>2. PICK p : p = Row!PageAfter(cursor)
  OBVIOUS
<1>3. page' = [out |-> TRUE, rows |-> p.rows, next |-> p.next]
  BY <1>2, Zenon DEF Row!RenderPage
<1>4. /\ p.rows \in Seq(Row!Ids) /\ p.next \in Row!Ids \cup {0}
      /\ \A k \in Row!Keys(folder) : Below(k, cursor) => k \in Elements(p.rows) \/ Below(k, p.next)
  <2>1. folder \subseteq Row!Ids
    BY DEF RowsInv, RowsTyped, Row!TypeOK
  <2> QED
    BY <1>2, <2>1, PageAfterFacts
<1>5. RowsTyped'
  <2>1. Row!TypeOK'
    BY <1>1 DEF RowsInv, RowsTyped, Row!TypeOK
  <2>2. page' \in [out : BOOLEAN, rows : Seq(Row!Ids), next : Row!Ids \cup {0}]
    BY <1>3, <1>4
  <2> QED
    BY <1>1, <2>1, <2>2 DEF RowsInv, RowsTyped
<1>6. OnceEach' /\ GoneIsTouched' /\ Aimed' /\ Row!MovesTheSelected'
  BY <1>1 DEF RowsInv, OnceEach, GoneIsTouched, Aimed, Row!MovesTheSelected, Row!IdsOf
<1>7. NoneMissing'
  <2>1. Covered(Row!IdsOf(rows), cursor, touched) /\ (refresh.at = "rendered" => Covered(Elements(refresh.rows), refresh.next, asked))
    BY DEF RowsInv, NoneMissing
  <2>2. Covered(Row!IdsOf(rows), cursor, touched)' /\ ((refresh.at = "rendered")' => Covered(Elements(refresh.rows), refresh.next, asked)')
    BY <1>1, <2>1 DEF Covered, Below, Row!Keys, Row!IsUnread, Row!IdsOf, Elements
  <2>3. \A k \in Row!Keys(folder) : Row!Conv(k) \notin touched =>
          k \in Row!IdsOf(rows) \/ k \in Elements(p.rows) \/ Below(k, p.next)
    BY <1>4, <2>1 DEF Covered
  <2>4. \A k \in Row!Keys(folder)' : Row!Conv(k) \notin touched' =>
          k \in Row!IdsOf(rows) \/ k \in Elements(p.rows) \/ Below(k, page.next)'
    BY <1>1, <1>3, <2>3 DEF Below, Row!Keys, Row!IsUnread
  <2>5. Elements(page.rows)' = Elements(p.rows) /\ Row!IdsOf(rows)' = Row!IdsOf(rows)
    BY <1>1, <1>3 DEF Elements, Row!IdsOf
  <2>6. Covered(Row!IdsOf(rows) \cup Elements(page.rows), page.next, touched)'
    BY <2>4, <2>5 DEF Covered
  <2> QED
    BY <2>2, <2>6 DEF NoneMissing
<1> QED
  BY <1>5, <1>6, <1>7 DEF RowsInv

LEMMA RowsAreTyped == ASSUME RowsTyped
                      PROVE  /\ rows \in Seq(RowType) /\ DOMAIN rows = 1..Len(rows) /\ Len(rows) \in Nat
                             /\ \A i \in DOMAIN rows : rows[i] \in RowType /\ rows[i].id \in Row!Ids /\ rows[i].going \in BOOLEAN
<1>1. rows \in Seq(RowType)
  BY DEF RowsTyped, Row!TypeOK, RowType
<1>2. DOMAIN rows = 1..Len(rows) /\ Len(rows) \in Nat /\ \A i \in DOMAIN rows : rows[i] \in RowType
  BY <1>1
<1> QED
  BY <1>1, <1>2 DEF RowType

\* Other rows in the place of these: of the same conversations, or of fewer that are
\* untouched.
LEMMA OtherRows ==
  ASSUME NoneMissing, UNCHANGED <<folder, unread, cursor, page, touched, refresh, asked>>,
         \A k \in Row!IdsOf(rows) : k \in Row!IdsOf(rows)' \/ Row!Conv(k) \in touched
  PROVE  NoneMissing'
<1>1. Covered(Row!IdsOf(rows), cursor, touched)'
  BY DEF NoneMissing, Covered, Below, Row!Keys, Row!IsUnread
<1>2. Elements(page.rows)' = Elements(page.rows) /\ Elements(refresh.rows)' = Elements(refresh.rows)
  BY DEF Elements
<1>3. refresh.at = "rendered" => Covered(Elements(refresh.rows), refresh.next, asked)'
  BY <1>2 DEF NoneMissing, Covered, Below, Row!Keys, Row!IsUnread
<1>4. page.out => Covered(Row!IdsOf(rows) \cup Elements(page.rows), page.next, touched)'
  BY <1>2 DEF NoneMissing, Covered, Below, Row!Keys, Row!IsUnread
<1> QED
  BY <1>1, <1>3, <1>4 DEF NoneMissing

LEMMA PageArrivesStep == ASSUME Row!RowsAssumption, RowsInv, Row!PageArrives PROVE RowsInv'
<1>1. /\ UNCHANGED <<folder, unread, marked, stash, refresh, moves, shown, spare, aim, touched, asked, astray>>
      /\ page.out /\ cursor' = page.next /\ page' = Row!NoPage /\ settling' = settling \cup {"page"}
  BY DEF Row!PageArrives
<1>2. page' = [out |-> FALSE, rows |-> <<>>, next |-> 0]
  BY <1>1 DEF Row!NoPage
<1>3. page.rows \in Seq(Row!Ids) /\ page.next \in Row!Ids \cup {0}
  BY DEF RowsInv, RowsTyped
<1>4. /\ rows \in Seq(RowType) /\ DOMAIN rows = 1..Len(rows) /\ Len(rows) \in Nat
  BY RowsAreTyped DEF RowsInv
<1>5. PICK r : r = [i \in DOMAIN page.rows |-> Row!Row(page.rows[i])]
  OBVIOUS
<1>6. /\ r \in Seq(RowType) /\ \A i \in DOMAIN r : ~r[i].going
      /\ Row!IdsOf(r) = Elements(page.rows)
  <2>1. PICK s \in Seq(Row!Ids) : s = page.rows
    BY <1>3
  <2>2. r = Fresh(s)
    BY <1>5, <2>1 DEF Fresh
  <2>3. /\ r \in Seq(RowType) /\ \A i \in DOMAIN r : ~r[i].going
        /\ Row!IdsOf(r) = Elements(s)
    <3>1. /\ r \in Seq(RowType) /\ DOMAIN r = DOMAIN s /\ Len(r) = Len(s)
          /\ \A i \in DOMAIN r : r[i].id = s[i] /\ ~r[i].going
          /\ Row!IdsOf(r) = Elements(s)
      BY <2>1, <2>2, FreshRows
    <3> QED
      BY <3>1
  <2> QED
    BY <2>1, <2>3
<1>7. rows' = rows \o r
  BY <1>5 DEF Row!PageArrives
<1>8. /\ rows' \in Seq(RowType) /\ Len(rows') = Len(rows) + Len(r)
      /\ \A i \in 1..Len(rows) + Len(r) : rows'[i] = IF i <= Len(rows) THEN rows[i] ELSE r[i - Len(rows)]
  BY <1>4, <1>6, <1>7, ConcatProperties
<1>9. DOMAIN r = 1..Len(r) /\ Len(r) \in Nat /\ DOMAIN rows' = 1..Len(rows) + Len(r)
  BY <1>4, <1>6, <1>8
<1>10. \A i \in DOMAIN rows' : (\E j \in DOMAIN rows : rows'[i] = rows[j]) \/ (\E j \in DOMAIN r : rows'[i] = r[j])
  <2> SUFFICES ASSUME NEW i \in DOMAIN rows'
               PROVE  (\E j \in DOMAIN rows : rows'[i] = rows[j]) \/ (\E j \in DOMAIN r : rows'[i] = r[j])
    OBVIOUS
  <2>1. CASE i <= Len(rows)
    <3>1. i \in DOMAIN rows /\ rows'[i] = rows[i]
      BY <1>4, <1>8, <1>9, <2>1
    <3> QED
      BY <3>1
  <2>2. CASE ~(i <= Len(rows))
    <3>1. i - Len(rows) \in DOMAIN r /\ rows'[i] = r[i - Len(rows)]
      BY <1>4, <1>8, <1>9, <2>2
    <3> QED
      BY <3>1
  <2> QED
    BY <2>1, <2>2
<1>11. (\A j \in DOMAIN rows : \E i \in DOMAIN rows' : rows'[i] = rows[j]) /\ (\A j \in DOMAIN r : \E i \in DOMAIN rows' : rows'[i] = r[j])
  <2>1. ASSUME NEW j \in DOMAIN rows PROVE \E i \in DOMAIN rows' : rows'[i] = rows[j]
    <3>1. j \in DOMAIN rows' /\ rows'[j] = rows[j]
      BY <1>4, <1>8, <1>9
    <3> QED
      BY <3>1
  <2>2. ASSUME NEW j \in DOMAIN r PROVE \E i \in DOMAIN rows' : rows'[i] = r[j]
    <3>1. j + Len(rows) \in DOMAIN rows' /\ ~(j + Len(rows) <= Len(rows)) /\ (j + Len(rows)) - Len(rows) = j
      BY <1>4, <1>9
    <3>2. rows'[j + Len(rows)] = r[j]
      BY <1>8, <1>9, <3>1
    <3> QED
      BY <3>1, <3>2
  <2> QED
    BY <2>1, <2>2
<1>12. Row!IdsOf(rows)' = Row!IdsOf(rows) \cup Elements(page.rows)
  BY <1>6, <1>10, <1>11 DEF Row!IdsOf
<1>13. RowsTyped'
  <2>1. page' \in [out : BOOLEAN, rows : Seq(Row!Ids), next : Row!Ids \cup {0}]
    BY <1>2
  <2>2. Row!TypeOK'
    BY <1>1, <1>3, <1>8 DEF RowsInv, RowsTyped, Row!TypeOK, RowType
  <2> QED
    BY <1>1, <2>1, <2>2 DEF RowsInv, RowsTyped
<1>14. OnceEach'
  BY <1>1 DEF RowsInv, OnceEach
<1>15. GoneIsTouched'
  <2>1. \A j \in DOMAIN rows : rows[j].going => Row!Conv(rows[j].id) \in touched
    BY DEF RowsInv, GoneIsTouched
  <2>2. \A i \in DOMAIN rows' : rows'[i].going => Row!Conv(rows'[i].id) \in touched
    BY <1>6, <1>10, <2>1
  <2> QED
    BY <1>1, <2>2 DEF RowsInv, GoneIsTouched
<1>16. Aimed'
  BY <1>1, <1>12 DEF RowsInv, Aimed
<1>17. NoneMissing'
  <2>1. Covered(Row!IdsOf(rows) \cup Elements(page.rows), page.next, touched) /\ (refresh.at = "rendered" => Covered(Elements(refresh.rows), refresh.next, asked))
    BY <1>1 DEF RowsInv, NoneMissing
  <2>2. (refresh.at = "rendered")' => Covered(Elements(refresh.rows), refresh.next, asked)'
    BY <1>1, <2>1 DEF Covered, Below, Row!Keys, Row!IsUnread, Elements
  <2>3. Covered(Row!IdsOf(rows), cursor, touched)'
    BY <1>1, <1>12, <2>1 DEF Covered, Below, Row!Keys, Row!IsUnread
  <2> QED
    BY <1>2, <2>2, <2>3 DEF NoneMissing
<1>18. Row!MovesTheSelected'
  BY <1>1 DEF RowsInv, Row!MovesTheSelected
<1> QED
  BY <1>13, <1>14, <1>15, <1>16, <1>17, <1>18 DEF RowsInv

LEMMA PageSettlesStep == ASSUME Row!RowsAssumption, RowsInv, Row!PageSettles PROVE RowsInv'
<1> DEFINE Late(i) == \E j \in 1..i-1 : rows[j].id = rows[i].id
           kept == {i \in DOMAIN rows : ~Late(i)}
<1>1. /\ UNCHANGED <<folder, unread, cursor, marked, stash, refresh, page, moves, shown, spare, aim, touched, asked, astray>>
      /\ settling' = settling \ {"page"}
  BY DEF Row!PageSettles
<1>2. rows' = At(rows, kept)
  BY RowAt, Zenon DEF Row!PageSettles
<1>3. /\ rows \in Seq(RowType) /\ DOMAIN rows = 1..Len(rows) /\ Len(rows) \in Nat
      /\ \A i \in DOMAIN rows : rows[i] \in RowType
  BY RowsAreTyped DEF RowsInv
<1>4. \A i, j \in kept : rows[i].id = rows[j].id => i = j
  <2> SUFFICES ASSUME NEW i \in kept, NEW j \in kept, rows[i].id = rows[j].id, i # j PROVE FALSE
    OBVIOUS
  <2>1. i \in Nat /\ j \in Nat /\ i >= 1 /\ j >= 1
    BY <1>3
  <2>2. i \in 1..j-1 \/ j \in 1..i-1
    BY <2>1
  <2> QED
    BY <2>2
<1>5. \A i \in DOMAIN rows : \E j \in kept : rows[j].id = rows[i].id
  <2> SUFFICES ASSUME NEW i \in DOMAIN rows PROVE \E j \in kept : rows[j].id = rows[i].id
    OBVIOUS
  <2> DEFINE same == {j \in DOMAIN rows : rows[j].id = rows[i].id}
  <2>1. same \in SUBSET Nat /\ i \in same
    BY <1>3
  <2>2. PICK x \in same : \A y \in same : x <= y
    <3> HIDE DEF same
    <3> QED
      BY <2>1, Smallest
  <2>3. x \in DOMAIN rows /\ rows[x].id = rows[i].id
    OBVIOUS
  <2>4. ~Late(x)
    <3> SUFFICES ASSUME NEW j \in 1..x-1, rows[j].id = rows[x].id PROVE FALSE
      OBVIOUS
    <3>1. x \in 1..Len(rows) /\ j \in Nat /\ j >= 1 /\ j <= x - 1
      BY <1>3, <2>3
    <3>2. j \in DOMAIN rows /\ ~(x <= j)
      BY <1>3, <3>1
    <3> QED
      BY <2>2, <2>3, <3>2
  <2> QED
    BY <2>3, <2>4
<1>6. kept \in SUBSET DOMAIN rows
  OBVIOUS
<1> HIDE DEF kept
<1>7. /\ rows' \in Seq(RowType)
      /\ \A k \in DOMAIN rows' : \E i \in kept : rows'[k] = rows[i]
      /\ \A i \in kept : \E k \in DOMAIN rows' : rows'[k] = rows[i]
      /\ (\A i, j \in kept : rows[i] = rows[j] => i = j) => \A k, l \in DOMAIN rows' : rows'[k] = rows'[l] => k = l
  <2>1. PICK s \in Seq(RowType) : s = rows
    BY <1>3
  <2>2. PICK I \in SUBSET DOMAIN s : I = kept
    BY <1>6, <2>1
  <2>3. PICK X : X = RowType
    OBVIOUS
  <2>4. PICK r : r = At(s, I)
    OBVIOUS
  <2>5. /\ r \in Seq(X)
        /\ \A k \in DOMAIN r : \E i \in I : r[k] = s[i]
        /\ \A i \in I : \E k \in DOMAIN r : r[k] = s[i]
        /\ (\A i, j \in I : s[i] = s[j] => i = j) => \A k, l \in DOMAIN r : r[k] = r[l] => k = l
    BY <2>3, <2>4, AtPlaces
  <2>6. rows' = r
    BY <1>2, <2>1, <2>2, <2>4
  <2> QED
    BY <2>1, <2>2, <2>3, <2>5, <2>6
<1>8. \A k, l \in DOMAIN rows' : rows'[k].id = rows'[l].id => k = l
  <2>1. \A k, l \in DOMAIN rows' : rows'[k] = rows'[l] => k = l
    <3>1. \A i, j \in kept : rows[i] = rows[j] => i = j
      BY <1>4
    <3> QED
      BY <1>7, <3>1
  <2> SUFFICES ASSUME NEW k \in DOMAIN rows', NEW l \in DOMAIN rows', rows'[k].id = rows'[l].id PROVE k = l
    OBVIOUS
  <2>2. PICK i \in kept : rows'[k] = rows[i]
    BY <1>7
  <2>3. PICK j \in kept : rows'[l] = rows[j]
    BY <1>7
  <2>4. i = j
    BY <1>4, <2>2, <2>3
  <2> QED
    BY <2>1, <2>2, <2>3, <2>4
<1>9. Row!IdsOf(rows)' = Row!IdsOf(rows)
  <2>1. ASSUME NEW k \in DOMAIN rows' PROVE \E i \in DOMAIN rows : rows'[k].id = rows[i].id
    <3>1. PICK i \in kept : rows'[k] = rows[i]
      BY <1>7
    <3> QED
      BY <1>6, <3>1
  <2>2. ASSUME NEW i \in DOMAIN rows PROVE \E k \in DOMAIN rows' : rows'[k].id = rows[i].id
    <3>1. PICK j \in kept : rows[j].id = rows[i].id
      BY <1>5
    <3>2. PICK k \in DOMAIN rows' : rows'[k] = rows[j]
      BY <1>7
    <3> QED
      BY <3>1, <3>2
  <2> QED
    BY <2>1, <2>2 DEF Row!IdsOf
<1>10. RowsTyped'
  <2>1. Row!TypeOK'
    BY <1>1, <1>7 DEF RowsInv, RowsTyped, Row!TypeOK, RowType
  <2> QED
    BY <1>1, <2>1 DEF RowsInv, RowsTyped
<1>11. OnceEach'
  BY <1>1, <1>8 DEF RowsInv, OnceEach
<1>12. GoneIsTouched'
  BY <1>1, <1>6, <1>7 DEF RowsInv, GoneIsTouched
<1>13. Aimed' /\ Row!MovesTheSelected'
  BY <1>1, <1>9 DEF RowsInv, Aimed, Row!MovesTheSelected
<1>14. NoneMissing'
  BY <1>1, <1>9, OtherRows DEF RowsInv
<1> QED
  BY <1>10, <1>11, <1>12, <1>13, <1>14 DEF RowsInv

LEMMA PageFailsStep == ASSUME Row!RowsAssumption, RowsInv, Row!PageFails PROVE RowsInv'
<1>1. /\ UNCHANGED <<folder, unread, rows, cursor, marked, stash, settling, refresh, moves, shown, aim, touched, asked, astray>>
      /\ page' = [out |-> FALSE, rows |-> <<>>, next |-> 0]
  BY DEF Row!PageFails, Row!NoPage
<1>2. spare' \in [arrivals : 0..MaxArrivals, deeds : 0..MaxDeeds]
  <2>1. Row!Take("deeds") /\ RowsTyped
    BY DEF Row!PageFails, RowsInv
  <2> QED
    BY <2>1, Spends
<1>3. RowsTyped'
  <2>1. page' \in [out : BOOLEAN, rows : Seq(Row!Ids), next : Row!Ids \cup {0}]
    BY <1>1
  <2>2. Row!TypeOK'
    BY <1>1 DEF RowsInv, RowsTyped, Row!TypeOK
  <2> QED
    BY <1>1, <1>2, <2>1, <2>2 DEF RowsInv, RowsTyped
<1>4. OnceEach' /\ GoneIsTouched' /\ Aimed' /\ Row!MovesTheSelected'
  BY <1>1 DEF RowsInv, OnceEach, GoneIsTouched, Aimed, Row!MovesTheSelected, Row!IdsOf
<1>5. NoneMissing'
  BY <1>1 DEF RowsInv, NoneMissing, Covered, Below, Row!Keys, Row!IsUnread, Row!IdsOf, Elements
<1> QED
  BY <1>3, <1>4, <1>5 DEF RowsInv

-----------------------------------------------------------------------------
(* Selecting and moving *)

LEMMA SelectRowStep == ASSUME Row!RowsAssumption, RowsInv, NEW i \in DOMAIN rows, Row!SelectRow(i) PROVE RowsInv'
<1>1. /\ UNCHANGED <<folder, unread, rows, cursor, stash, settling, refresh, page, moves, shown, touched, asked, astray>>
      /\ marked' = {rows[i].id} /\ aim' = IF "list" \in settling THEN 0 ELSE rows[i].id
  BY DEF Row!SelectRow
<1>2. rows[i].id \in Row!Ids /\ rows[i].id \in Row!IdsOf(rows)
  BY RowsAreTyped DEF RowsInv, Row!IdsOf
<1>3. RowsTyped'
  <2>1. spare' \in [arrivals : 0..MaxArrivals, deeds : 0..MaxDeeds]
    <3>1. Row!Take("deeds") /\ RowsTyped
      BY DEF Row!SelectRow, RowsInv
    <3> QED
      BY <3>1, Spends
  <2>2. Row!TypeOK'
    BY <1>1, <1>2 DEF RowsInv, RowsTyped, Row!TypeOK
  <2> QED
    BY <1>1, <1>2, <2>1, <2>2 DEF RowsInv, RowsTyped
<1>4. OnceEach' /\ GoneIsTouched' /\ Row!MovesTheSelected'
  BY <1>1 DEF RowsInv, OnceEach, GoneIsTouched, Row!MovesTheSelected
<1>5. Aimed'
  BY <1>1, <1>2 DEF Aimed, Row!IdsOf
<1>6. NoneMissing'
  BY <1>1, SameCover DEF RowsInv
<1> QED
  BY <1>3, <1>4, <1>5, <1>6 DEF RowsInv

\* What is archived is the selected row: the aimed one, while there is one.
LEMMA ArchiveStep == ASSUME Row!RowsAssumption, RowsInv, Row!Archive PROVE RowsInv'
<1>1. /\ UNCHANGED <<folder, unread, rows, cursor, marked, stash, settling, refresh, page, shown, aim, touched, asked>>
      /\ Row!Selected # 0
      /\ moves' = Append(moves, [id |-> rows[Row!Selected].id, at |-> "sent", list |-> shown])
      /\ astray' = (astray \/ (aim # 0 /\ rows[Row!Selected].id # aim))
  BY DEF Row!Archive
<1>2. PICK x \in Row!Ids : x = rows[Row!Selected].id /\ x \in marked
  <2>1. Row!Selected \in DOMAIN rows /\ rows[Row!Selected].id \in marked
    BY <1>1, SelectedFacts DEF RowsInv
  <2> QED
    BY <2>1 DEF RowsInv, RowsTyped, Row!TypeOK
<1>3. aim # 0 => x = aim
  BY <1>2 DEF RowsInv, Aimed
<1>4. ~astray'
  <2>1. ~astray
    BY DEF RowsInv, Row!MovesTheSelected
  <2> QED
    BY <1>1, <1>2, <1>3, <2>1, Zenon
<1>5. PICK s : s = "sent"
  OBVIOUS
<1>6. PICK v \in MoveType : v = [id |-> x, at |-> s, list |-> shown]
  <2>1. shown \in 0..shown
    BY DEF RowsInv, RowsTyped
  <2>2. s \in {"sent", "stored", "done"}
    BY <1>5
  <2> QED
    BY <2>1, <2>2 DEF MoveType
<1>7. v.at = "sent" /\ moves' = Append(moves, v)
  BY <1>1, <1>2, <1>5, <1>6
<1>8. moves \in Seq(MoveType)
  BY DEF RowsInv, RowsTyped, Row!TypeOK, MoveType
<1>9. /\ moves' \in Seq(MoveType)
      /\ \A n \in DOMAIN moves' : (n \in DOMAIN moves /\ moves'[n] = moves[n]) \/ moves'[n] = v
  <2>1. PICK m \in Seq(MoveType) : m = moves
    BY <1>8
  <2>2. /\ Append(m, v) \in Seq(MoveType) /\ Len(Append(m, v)) = Len(m) + 1
        /\ \A n \in 1..Len(m) : Append(m, v)[n] = m[n]
        /\ Append(m, v)[Len(m) + 1] = v
    BY AppendProperties
  <2>3. Len(m) \in Nat /\ DOMAIN m = 1..Len(m) /\ DOMAIN Append(m, v) = 1..Len(m) + 1
    BY <2>2
  <2>4. \A n \in DOMAIN Append(m, v) : n \in DOMAIN m \/ n = Len(m) + 1
    BY <2>3
  <2> QED
    BY <1>7, <2>1, <2>2, <2>3, <2>4
<1>10. RowsTyped'
  <2>1. spare' \in [arrivals : 0..MaxArrivals, deeds : 0..MaxDeeds]
    <3>1. Row!Take("deeds") /\ RowsTyped
      BY DEF Row!Archive, RowsInv
    <3> QED
      BY <3>1, Spends
  <2>2. Row!TypeOK'
    BY <1>1, <1>9 DEF RowsInv, RowsTyped, Row!TypeOK, MoveType
  <2> QED
    BY <1>1, <2>1, <2>2 DEF RowsInv, RowsTyped
<1>11. GoneIsTouched'
  BY <1>1, <1>7, <1>9 DEF RowsInv, GoneIsTouched
<1>12. OnceEach' /\ Aimed'
  BY <1>1 DEF RowsInv, OnceEach, Aimed, Row!IdsOf
<1>13. NoneMissing'
  BY <1>1, SameCover DEF RowsInv
<1>14. Row!MovesTheSelected'
  BY <1>4 DEF Row!MovesTheSelected
<1> QED
  BY <1>10, <1>11, <1>12, <1>13, <1>14 DEF RowsInv

\* A move that goes on: of the same row and from the same list.
LEMMA MoveGoesOn ==
  ASSUME RowsTyped, NEW n \in DOMAIN moves, NEW a \in {"sent", "stored", "done"},
         moves' = [moves EXCEPT ![n].at = a]
  PROVE  /\ moves' \in Seq(MoveType) /\ DOMAIN moves' = DOMAIN moves
         /\ \A k \in DOMAIN moves : /\ moves[k] \in MoveType
                                    /\ moves'[k].id = moves[k].id /\ moves'[k].list = moves[k].list
                                    /\ moves'[k].at = IF k = n THEN a ELSE moves[k].at
<1>1. moves \in Seq(MoveType)
  BY DEF RowsTyped, Row!TypeOK, MoveType
<1>2. PICK m \in Seq(MoveType) : m = moves
  BY <1>1
<1>3. DOMAIN m = 1..Len(m) /\ Len(m) \in Nat /\ \A k \in DOMAIN m : m[k] \in MoveType
  BY <1>2
<1>4. PICK v \in MoveType : v = m[n] /\ n \in DOMAIN m
  BY <1>2, <1>3
<1>5. PICK w : w = [id |-> v.id, at |-> a, list |-> v.list]
  OBVIOUS
<1>6. v = [id |-> v.id, at |-> v.at, list |-> v.list]
  BY DEF MoveType
<1>7. w \in MoveType
  BY <1>5 DEF MoveType
<1>8. [v EXCEPT !.at = a] = w
  BY <1>5, <1>6
<1>9. moves' = [m EXCEPT ![n] = w]
  BY <1>2, <1>4, <1>8
<1>10. moves' \in [1..Len(m) -> MoveType]
  BY <1>3, <1>7, <1>9
<1>11. moves' \in Seq(MoveType) /\ DOMAIN moves' = DOMAIN m
  <2>1. PICK f \in [1..Len(m) -> MoveType] : f = moves'
    BY <1>10
  <2>2. PICK X : X = MoveType
    OBVIOUS
  <2>3. f \in Seq(X) /\ DOMAIN f = 1..Len(m)
    BY ONLY <1>3, <2>1, <2>2
  <2> QED
    BY <1>3, <2>1, <2>2, <2>3
<1>12. \A k \in DOMAIN m : moves'[k] = IF k = n THEN w ELSE m[k]
  BY <1>9
<1> QED
  BY <1>2, <1>3, <1>4, <1>5, <1>11, <1>12

LEMMA MoveAnsweredStep == ASSUME Row!RowsAssumption, RowsInv, NEW n \in DOMAIN moves, Row!MoveAnswered(n) PROVE RowsInv'
<1>1. /\ UNCHANGED <<folder, unread, cursor, marked, stash, settling, refresh, page, shown, spare, aim, touched, asked, astray>>
      /\ moves[n].at = "stored" /\ moves' = [moves EXCEPT ![n].at = "done"]
      /\ rows' = IF moves[n].list # shown THEN rows
                 ELSE [i \in DOMAIN rows |-> [rows[i] EXCEPT !.going = @ \/ rows[i].id = moves[n].id]]
  BY DEF Row!MoveAnswered
<1>2. /\ moves' \in Seq(MoveType) /\ DOMAIN moves' = DOMAIN moves
      /\ \A k \in DOMAIN moves : /\ moves[k] \in MoveType
                                 /\ moves'[k].id = moves[k].id /\ moves'[k].list = moves[k].list
                                 /\ moves'[k].at = IF k = n THEN "done" ELSE moves[k].at
  BY <1>1, MoveGoesOn DEF RowsInv
<1>3. /\ rows \in Seq(RowType) /\ DOMAIN rows = 1..Len(rows) /\ Len(rows) \in Nat
      /\ \A i \in DOMAIN rows : rows[i] \in RowType /\ rows[i].id \in Row!Ids /\ rows[i].going \in BOOLEAN
  BY RowsAreTyped DEF RowsInv
<1>4. /\ rows' \in Seq(RowType) /\ DOMAIN rows' = DOMAIN rows
      /\ \A i \in DOMAIN rows : /\ rows'[i].id = rows[i].id
                                /\ rows'[i].going => rows[i].going \/ (moves[n].list = shown /\ rows[i].id = moves[n].id)
  <2>1. CASE moves[n].list # shown
    <3>1. rows' = rows
      BY <1>1, <2>1
    <3> QED
      BY <1>3, <3>1
  <2>2. CASE moves[n].list = shown
    <3>1. rows' = [i \in DOMAIN rows |-> [rows[i] EXCEPT !.going = @ \/ rows[i].id = moves[n].id]]
      BY <1>1, <2>2
    <3>2. ASSUME NEW i \in DOMAIN rows
          PROVE  rows'[i] \in RowType /\ rows'[i].id = rows[i].id
                 /\ (rows'[i].going => rows[i].going \/ rows[i].id = moves[n].id)
      <4>1. PICK r \in RowType : r = rows[i]
        BY <1>3
      <4>2. PICK g \in BOOLEAN : g = (r.going \/ r.id = moves[n].id)
        OBVIOUS
      <4>3. rows'[i] = [r EXCEPT !.going = g]
        BY <3>1, <4>1, <4>2
      <4>4. r = [id |-> r.id, going |-> r.going] /\ r.id \in Row!Ids
        BY DEF RowType
      <4>5. rows'[i] = [id |-> r.id, going |-> g]
        BY <4>3, <4>4
      <4>6. rows'[i] \in RowType
        BY <4>4, <4>5 DEF RowType
      <4>7. rows'[i].id = r.id /\ rows'[i].going = g
        BY <4>5
      <4> QED
        BY <4>1, <4>2, <4>6, <4>7
    <3>3. DOMAIN rows' = DOMAIN rows
      BY <3>1
    <3>4. rows' \in [1..Len(rows) -> RowType]
      BY <1>3, <3>1, <3>2
    <3> QED
      BY <1>3, <2>2, <3>2, <3>3, <3>4
  <2> QED
    BY <2>1, <2>2
<1>5. Row!IdsOf(rows)' = Row!IdsOf(rows)
  BY <1>4 DEF Row!IdsOf
<1>6. RowsTyped'
  <2>1. Row!TypeOK'
    BY <1>1, <1>2, <1>4 DEF RowsInv, RowsTyped, Row!TypeOK, MoveType, RowType
  <2> QED
    BY <1>1, <2>1 DEF RowsInv, RowsTyped
<1>7. OnceEach'
  BY <1>1, <1>4 DEF RowsInv, OnceEach
<1>8. GoneIsTouched'
  <2>1. moves[n].list = shown => Row!Conv(moves[n].id) \in touched
    BY <1>1 DEF RowsInv, GoneIsTouched
  <2>2. \A i \in DOMAIN rows : rows[i].going => Row!Conv(rows[i].id) \in touched
    BY DEF RowsInv, GoneIsTouched
  <2>3. \A i \in DOMAIN rows' : rows'[i].going => Row!Conv(rows'[i].id) \in touched
    BY <1>4, <2>1, <2>2
  <2>4. \A k \in DOMAIN moves' : moves'[k].at = "stored" /\ moves'[k].list = shown => Row!Conv(moves'[k].id) \in touched
    BY <1>2 DEF RowsInv, GoneIsTouched
  <2> QED
    BY <1>1, <2>3, <2>4 DEF GoneIsTouched
<1>9. Aimed' /\ Row!MovesTheSelected'
  BY <1>1, <1>5 DEF RowsInv, Aimed, Row!MovesTheSelected
<1>10. NoneMissing'
  BY <1>1, <1>5, OtherRows DEF RowsInv
<1> QED
  BY <1>6, <1>7, <1>8, <1>9, <1>10 DEF RowsInv

LEMMA MoveFailsStep == ASSUME Row!RowsAssumption, RowsInv, NEW n \in DOMAIN moves, Row!MoveFails(n) PROVE RowsInv'
<1>1. /\ UNCHANGED <<folder, unread, rows, cursor, marked, stash, settling, refresh, page, shown, aim, touched, asked, astray>>
      /\ moves' = [moves EXCEPT ![n].at = "done"]
  BY DEF Row!MoveFails
<1>2. /\ moves' \in Seq(MoveType) /\ DOMAIN moves' = DOMAIN moves
      /\ \A k \in DOMAIN moves : /\ moves[k] \in MoveType
                                 /\ moves'[k].id = moves[k].id /\ moves'[k].list = moves[k].list
                                 /\ moves'[k].at = IF k = n THEN "done" ELSE moves[k].at
  BY <1>1, MoveGoesOn DEF RowsInv
<1>3. RowsTyped'
  <2>1. spare' \in [arrivals : 0..MaxArrivals, deeds : 0..MaxDeeds]
    <3>1. Row!Take("deeds") /\ RowsTyped
      BY DEF Row!MoveFails, RowsInv
    <3> QED
      BY <3>1, Spends
  <2>2. Row!TypeOK'
    BY <1>1, <1>2 DEF RowsInv, RowsTyped, Row!TypeOK, MoveType
  <2> QED
    BY <1>1, <2>1, <2>2 DEF RowsInv, RowsTyped
<1>4. GoneIsTouched'
  BY <1>1, <1>2 DEF RowsInv, GoneIsTouched
<1>5. OnceEach' /\ Aimed' /\ Row!MovesTheSelected'
  BY <1>1 DEF RowsInv, OnceEach, Aimed, Row!MovesTheSelected, Row!IdsOf
<1>6. NoneMissing'
  BY <1>1, SameCover DEF RowsInv
<1> QED
  BY <1>3, <1>4, <1>5, <1>6 DEF RowsInv

LEMMA RowRemovedStep == ASSUME Row!RowsAssumption, RowsInv, NEW i \in DOMAIN rows, Row!RowRemoved(i) PROVE RowsInv'
<1>1. /\ UNCHANGED <<folder, unread, cursor, stash, settling, refresh, page, moves, shown, spare, touched, asked, astray>>
      /\ rows[i].going /\ rows' = Row!RemoveAt(rows, i)
      /\ marked' = marked \ {rows[i].id} /\ aim' = IF aim = rows[i].id THEN 0 ELSE aim
  BY DEF Row!RowRemoved
<1>2. /\ rows \in Seq(RowType) /\ DOMAIN rows = 1..Len(rows) /\ Len(rows) \in Nat
      /\ \A k \in DOMAIN rows : rows[k] \in RowType /\ rows[k].id \in Row!Ids /\ rows[k].going \in BOOLEAN
  BY RowsAreTyped DEF RowsInv
<1>3. /\ rows' \in Seq(RowType)
      /\ \A j \in DOMAIN rows' : \E k \in DOMAIN rows \ {i} : rows'[j] = rows[k]
      /\ \A k \in DOMAIN rows \ {i} : \E j \in DOMAIN rows' : rows'[j] = rows[k]
      /\ \A j, l \in DOMAIN rows' : j # l => \E k, m \in DOMAIN rows \ {i} : k # m /\ rows'[j] = rows[k] /\ rows'[l] = rows[m]
  <2>1. PICK s \in Seq(RowType) : s = rows
    BY <1>2
  <2>2. PICK r : r = Dropped(s, i)
    OBVIOUS
  <2>3. i \in DOMAIN s
    BY <2>1
  <2>4. /\ r \in Seq(RowType)
        /\ \A j \in DOMAIN r : \E k \in DOMAIN s \ {i} : r[j] = s[k]
        /\ \A k \in DOMAIN s \ {i} : \E j \in DOMAIN r : r[j] = s[k]
        /\ \A j, l \in DOMAIN r : j # l => \E k, m \in DOMAIN s \ {i} : k # m /\ r[j] = s[k] /\ r[l] = s[m]
    <3>1. PICK X : X = RowType
      OBVIOUS
    <3>2. s \in Seq(X)
      BY <2>1, <3>1
    <3> HIDE <2>1, <3>1
    <3>3. r \in Seq(X)
      BY <2>2, <2>3, <3>2, Without
    <3>4. \A j \in DOMAIN r : \E k \in DOMAIN s \ {i} : r[j] = s[k]
      BY <2>2, <2>3, <3>2, Without
    <3>5. \A k \in DOMAIN s \ {i} : \E j \in DOMAIN r : r[j] = s[k]
      BY <2>2, <2>3, <3>2, Without
    <3>6. \A j, l \in DOMAIN r : j # l => \E k, m \in DOMAIN s \ {i} : k # m /\ r[j] = s[k] /\ r[l] = s[m]
      BY <2>2, <2>3, <3>2, Without
    <3> QED
      BY <3>1, <3>3, <3>4, <3>5, <3>6
  <2>5. rows' = r
    BY <1>1, <2>1, <2>2 DEF Row!RemoveAt, Dropped
  <2> QED
    BY <2>1, <2>4, <2>5
<1>4. \A x \in Row!IdsOf(rows) : x \in Row!IdsOf(rows)' \/ x = rows[i].id
  <2> SUFFICES ASSUME NEW k \in DOMAIN rows, k # i PROVE rows[k].id \in Row!IdsOf(rows)'
    BY DEF Row!IdsOf
  <2>1. PICK j \in DOMAIN rows' : rows'[j] = rows[k]
    BY <1>3
  <2> QED
    BY <2>1 DEF Row!IdsOf
<1>5. RowsTyped'
  <2>1. Row!TypeOK'
    BY <1>1, <1>3 DEF RowsInv, RowsTyped, Row!TypeOK, RowType
  <2> QED
    BY <1>1, <2>1 DEF RowsInv, RowsTyped
<1>6. OnceEach'
  <2>1. ASSUME "page" \notin settling, NEW j \in DOMAIN rows', NEW l \in DOMAIN rows', rows'[j].id = rows'[l].id
        PROVE  j = l
    <3>1. \A k, m \in DOMAIN rows : rows[k].id = rows[m].id => k = m
      BY <2>1 DEF RowsInv, OnceEach
    <3> SUFFICES ASSUME j # l PROVE FALSE
      OBVIOUS
    <3>2. PICK k \in DOMAIN rows, m \in DOMAIN rows : k # m /\ rows'[j] = rows[k] /\ rows'[l] = rows[m]
      BY <1>3
    <3> QED
      BY <2>1, <3>1, <3>2
  <2> QED
    BY <1>1, <2>1 DEF RowsInv, OnceEach
<1>7. GoneIsTouched'
  <2>1. \A k \in DOMAIN rows : rows[k].going => Row!Conv(rows[k].id) \in touched
    BY DEF RowsInv, GoneIsTouched
  <2>2. \A j \in DOMAIN rows' : rows'[j].going => Row!Conv(rows'[j].id) \in touched
    <3> SUFFICES ASSUME NEW j \in DOMAIN rows', rows'[j].going PROVE Row!Conv(rows'[j].id) \in touched
      OBVIOUS
    <3>1. PICK k \in DOMAIN rows : rows'[j] = rows[k]
      BY <1>3
    <3> QED
      BY <2>1, <3>1
  <2> QED
    BY <1>1, <2>2 DEF RowsInv, GoneIsTouched
<1>8. Aimed'
  BY <1>1, <1>4 DEF RowsInv, Aimed
<1>9. NoneMissing'
  <2>1. Row!Conv(rows[i].id) \in touched
    BY <1>1 DEF RowsInv, GoneIsTouched
  <2> QED
    BY <1>1, <1>4, <2>1, OtherRows DEF RowsInv
<1>10. Row!MovesTheSelected'
  BY <1>1 DEF RowsInv, Row!MovesTheSelected
<1> QED
  BY <1>5, <1>6, <1>7, <1>8, <1>9, <1>10 DEF RowsInv

-----------------------------------------------------------------------------
(* The theorems *)

LEMMA RowsInit == ASSUME Row!RowsAssumption, Row!Init PROVE RowsInv
<1>1. /\ folder = 1..Start
      /\ rows = [i \in DOMAIN Row!PageOne.rows |-> Row!Row(Row!PageOne.rows[i])] /\ cursor = Row!PageOne.next
      /\ marked = {} /\ stash = Row!NoStash /\ settling = {}
      /\ refresh = Row!NoList /\ page = Row!NoPage /\ moves = <<>> /\ shown = 0
      /\ spare = [arrivals |-> MaxArrivals, deeds |-> MaxDeeds]
      /\ aim = 0 /\ touched = {} /\ asked = {} /\ astray = FALSE
  BY DEF Row!Init
<1>2. unread \subseteq folder
  BY DEF Row!Init
<1>3. folder \subseteq Row!Ids
  BY <1>1, IdsAreNumbers DEF Row!Ids
<1>4. PICK p : p = Row!PageOne
  OBVIOUS
<1>5. /\ p.rows \in Seq(Row!Ids) /\ p.next \in Row!Ids \cup {0} /\ Once(p.rows)
      /\ \A k \in Row!Keys(folder) : k \in Elements(p.rows) \/ Below(k, p.next)
  BY <1>3, <1>4, PageOneFacts
<1>6. PICK s \in Seq(Row!Ids) : s = p.rows
  BY <1>5
<1>7. PICK r : r = rows
  OBVIOUS
<1>8. r = Fresh(s)
  BY <1>1, <1>4, <1>6, <1>7 DEF Fresh
<1>9. /\ r \in Seq(RowType) /\ DOMAIN r = DOMAIN s /\ Len(r) = Len(s)
      /\ \A i \in DOMAIN r : r[i].id = s[i] /\ ~r[i].going
      /\ Row!IdsOf(r) = Elements(s)
  BY ONLY <1>6, <1>8, FreshRows
<1>10. refresh = [at |-> "none", rows |-> <<>>, next |-> 0] /\ page = [out |-> FALSE, rows |-> <<>>, next |-> 0]
       /\ stash = [id |-> 0, i |-> 0]
  BY <1>1 DEF Row!NoList, Row!NoPage, Row!NoStash
<1>11. RowsTyped
  <2>1. stash \in [id : Row!Ids \cup {0}, i : Nat] /\ refresh.at \in {"none", "sent", "rendered"}
    BY <1>10
  <2>2. refresh \in [at : {"none", "sent", "rendered"}, rows : Seq(Row!Ids), next : Row!Ids \cup {0}]
    BY <1>10
  <2>3. page \in [out : BOOLEAN, rows : Seq(Row!Ids), next : Row!Ids \cup {0}]
    BY <1>10
  <2>4. spare \in [arrivals : 0..MaxArrivals, deeds : 0..MaxDeeds]
    <3>1. PICK b \in Nat, c \in Nat : b = MaxArrivals /\ c = MaxDeeds
      BY IdsAreNumbers
    <3>2. b \in 0..b /\ c \in 0..c
      OBVIOUS
    <3> QED
      BY <1>1, <3>1, <3>2
  <2>5. moves \in Seq([id : Row!Ids, at : {"sent", "stored", "done"}, list : 0..shown])
    BY <1>1
  <2>6. cursor \in Row!Ids \cup {0}
    BY <1>1, <1>4, <1>5
  <2>7. rows \in Seq([id : Row!Ids, going : BOOLEAN])
    BY <1>7, <1>9 DEF RowType
  <2>8. Row!TypeOK
    BY <1>1, <1>2, <1>3, <2>1, <2>5, <2>6, <2>7 DEF Row!TypeOK
  <2> QED
    BY <1>1, <2>2, <2>3, <2>4, <2>8 DEF RowsTyped
<1>12. OnceEach
  <2>1. \A i, j \in DOMAIN rows : rows[i].id = rows[j].id => i = j
    BY <1>5, <1>6, <1>7, <1>9 DEF Once
  <2> QED
    BY <1>10, <2>1 DEF OnceEach
<1>13. NoneMissing
  <2>1. Covered(Row!IdsOf(rows), cursor, touched)
    BY <1>1, <1>4, <1>5, <1>6, <1>7, <1>9 DEF Covered
  <2> QED
    BY <1>10, <2>1 DEF NoneMissing
<1>14. GoneIsTouched
  <2>1. \A i \in DOMAIN rows : ~rows[i].going
    BY <1>7, <1>9
  <2>2. DOMAIN moves = {}
    BY <1>1
  <2> QED
    BY <2>1, <2>2 DEF GoneIsTouched
<1>15. Aimed /\ Row!MovesTheSelected
  BY <1>1 DEF Aimed, Row!MovesTheSelected
<1> QED
  BY <1>11, <1>12, <1>13, <1>14, <1>15 DEF RowsInv

LEMMA RowsStep == ASSUME Row!RowsAssumption, RowsInv, [Row!Next]_(Row!rowVars) PROVE RowsInv'
<1>1. CASE UNCHANGED Row!rowVars
  <2>1. UNCHANGED <<folder, unread, rows, cursor, marked, stash, settling, refresh, page, moves, shown, spare, aim, touched, asked, astray>>
    BY <1>1 DEF Row!rowVars
  <2>2. RowsTyped'
    BY <2>1 DEF RowsInv, RowsTyped, Row!TypeOK
  <2>3. OnceEach' /\ GoneIsTouched' /\ Aimed' /\ Row!MovesTheSelected'
    BY <2>1 DEF RowsInv, OnceEach, GoneIsTouched, Aimed, Row!MovesTheSelected, Row!IdsOf
  <2>4. NoneMissing'
    BY <2>1, SameCover DEF RowsInv
  <2> QED
    BY <2>2, <2>3, <2>4 DEF RowsInv
<1>2. CASE Row!Next
  BY <1>2, ArriveStep, MarkStep, AskListStep, RenderListStep, ListArrivesStep, ListSettlesStep, RenderPageStep,
     PageArrivesStep, PageSettlesStep, PageFailsStep, SelectRowStep, RowRemovedStep, ArchiveStep, StoreMoveStep,
     MoveAnsweredStep, MoveFailsStep, UndoStep, Zenon DEF Row!Next
<1> QED
  BY <1>1, <1>2

LEMMA RowsHold == Spec => []RowsInv
<1>1. Row!RowsAssumption
  BY PartsAssumption
<1>2. Row!Init => RowsInv
  BY <1>1, RowsInit
<1>3. RowsInv /\ [Row!Next]_(Row!rowVars) => RowsInv'
  BY <1>1, RowsStep
<1>4. Row!Spec => []RowsInv
  BY <1>2, <1>3, PTL DEF Row!Spec
<1> QED
  BY <1>4, RowsMove, PTL

\* THEOREM: once the last page of the list is on screen and has settled, every
\* conversation of the folder is in it, and in it once, whatever was archived, read or
\* pushed down between its pages: what a later page leaves to page one is only what got
\* mail, lost some or became unread since page one was rendered.
THEOREM EveryRowOnce == Spec => []PagesAreExact
<1>1. RowsInv => Row!PagesAreExact
  <2> SUFFICES ASSUME RowsInv PROVE Row!PagesAreExact
    OBVIOUS
  <2>1. settling = {} => \A i, j \in DOMAIN rows : rows[i].id = rows[j].id => i = j
    BY DEF RowsInv, OnceEach
  <2>2. cursor = 0 => \A k \in Row!Keys(folder) : Row!Conv(k) \notin touched => k \in Row!IdsOf(rows)
    BY DEF RowsInv, NoneMissing, Covered, Below
  <2> QED
    BY <2>1, <2>2 DEF Row!PagesAreExact
<1>2. Row!PagesAreExact => PagesAreExact
  BY Zenon DEF PagesAreExact, Row!PagesAreExact
<1> QED
  BY <1>1, <1>2, RowsHold, PTL

\* THEOREM: a key that moves the selected message moves the one the user selected, for
\* as long as a list shows it, whatever lists and pages arrived in between: nothing else
\* is highlighted, and the row a swap stashed is that one.
THEOREM TheSelectedIsMoved == Spec => []MovesTheSelected
<1>1. RowsInv => Row!MovesTheSelected
  BY DEF RowsInv
<1>2. Row!MovesTheSelected => MovesTheSelected
  BY Zenon DEF MovesTheSelected, Row!MovesTheSelected
<1> QED
  BY <1>1, <1>2, RowsHold, PTL

-----------------------------------------------------------------------------
(* The preview of a document: PdfPreview *)

\* Seen from the preview, the page's steps are its own or none.
LEMMA PdfMoves == Spec => Pdf!Spec
<1>1. Init => Pdf!Init
  BY DEF Init
<1>2. [Next]_pageVars => [Pdf!Next]_Pdf!pdfVars
  BY DEF Next, pageVars, pdfPart, Pdf!pdfVars, Pdf!drawVars
<1> QED
  BY <1>1, <1>2, PTL DEF Spec, Pdf!Spec

LEMMA Largest == ASSUME NEW S \in SUBSET Nat, S # {}, NEW n \in Nat, \A x \in S : x <= n
                 PROVE  \E x \in S : \A y \in S : x >= y
<1> DEFINE T == {n - x : x \in S}
<1>1. T \in SUBSET Nat /\ T # {}
  <2>1. \A x \in S : n - x \in Nat
    OBVIOUS
  <2>2. PICK x \in S : TRUE
    OBVIOUS
  <2>3. n - x \in T
    OBVIOUS
  <2> QED
    BY <2>1, <2>3
<1>2. PICK t \in T : \A u \in T : t <= u
  <2> HIDE DEF T
  <2> QED
    BY <1>1, Smallest
<1>3. PICK x \in S : t = n - x
  OBVIOUS
<1>4. ASSUME NEW y \in S PROVE x >= y
  <2>1. n - y \in T
    OBVIOUS
  <2>2. n - x <= n - y
    BY <1>2, <1>3, <2>1
  <2> QED
    BY <2>2
<1> QED
  BY <1>4

\* How many of S come before x: a rank that grows with x.
Before(S, x) == Cardinality({y \in S : y < x})

LEMMA PdfTurn == \A S, x : Pdf!Turn(S, x) = Before(S, x)
  BY Zenon DEF Pdf!Turn, Before, Pdf!Cardinality, Cardinality
LEMMA PdfCount == \A S : Pdf!Cardinality(S) = Cardinality(S)
  BY Zenon DEF Pdf!Cardinality, Cardinality

LEMMA BeforeGrows ==
  ASSUME NEW S \in SUBSET Nat, IsFiniteSet(S)
  PROVE  /\ \A x \in Nat : Before(S, x) \in Nat
         /\ \A x \in S : Before(S, x) < Cardinality(S)
         /\ \A x, z \in S : x < z => Before(S, x) < Before(S, z)
<1> DEFINE Less(x) == {y \in S : y < x}
<1>1. ASSUME NEW x \in Nat PROVE IsFiniteSet(Less(x)) /\ Cardinality(Less(x)) \in Nat
  <2>1. Less(x) \in SUBSET S
    OBVIOUS
  <2> HIDE DEF Less
  <2> QED
    BY <2>1, FS_Subset, FS_CardinalityType
<1>2. ASSUME NEW x \in S PROVE Cardinality(Less(x)) < Cardinality(S)
  <2>1. Less(x) \in SUBSET S /\ x \notin Less(x)
    OBVIOUS
  <2> HIDE DEF Less
  <2>2. Less(x) # S
    BY <2>1
  <2>3. Cardinality(Less(x)) <= Cardinality(S) /\ Cardinality(Less(x)) # Cardinality(S)
    BY <2>1, <2>2, FS_Subset
  <2> QED
    BY <1>1, <2>3, FS_CardinalityType
<1>3. ASSUME NEW x \in S, NEW z \in S, x < z PROVE Cardinality(Less(x)) < Cardinality(Less(z))
  <2>0. \A y \in S : y < x => y < z
    BY <1>3
  <2>a. ~(x < x)
    OBVIOUS
  <2>1. Less(x) \in SUBSET Less(z) /\ x \notin Less(x) /\ x \in Less(z)
    BY <1>3, <2>0, <2>a
  <2>2. IsFiniteSet(Less(z)) /\ Cardinality(Less(z)) \in Nat /\ Cardinality(Less(x)) \in Nat
    BY <1>1
  <2> HIDE DEF Less
  <2>3. Less(x) # Less(z)
    BY <2>1
  <2>4. Cardinality(Less(x)) <= Cardinality(Less(z)) /\ Cardinality(Less(x)) # Cardinality(Less(z))
    BY <2>1, <2>2, <2>3, FS_Subset
  <2> QED
    BY <2>2, <2>4
<1> QED
  BY <1>1, <1>2, <1>3 DEF Before

\* Of two workers, the ranks of those that are free.
LEMMA TwoRanks ==
  ASSUME NEW F \in SUBSET {1, 2}
  PROVE  /\ Cardinality(F) \in 0..2
         /\ 1 \in F => Before(F, 1) = 0
         /\ 2 \in F => Before(F, 2) = IF 1 \in F THEN 1 ELSE 0
         /\ Cardinality(F) = 2 => 1 \in F
         /\ Cardinality(F) = 0 => F = {}
<1>1. Cardinality({1}) = 1 /\ Cardinality({}) = 0 /\ Cardinality({2}) = 1 /\ IsFiniteSet({1})
  BY FS_EmptySet, FS_Singleton
<1>2. IsFiniteSet({1, 2}) /\ Cardinality({1, 2}) = 2
  <2>1. {1, 2} = {1} \cup {2} /\ 2 \notin {1}
    OBVIOUS
  <2> QED
    BY <1>1, <2>1, FS_AddElement
<1>3. F = {} \/ F = {1} \/ F = {2} \/ F = {1, 2}
  <2>1. CASE 1 \in F /\ 2 \in F
    BY <2>1
  <2>2. CASE 1 \in F /\ 2 \notin F
    BY <2>2
  <2>3. CASE 1 \notin F /\ 2 \in F
    BY <2>3
  <2>4. CASE 1 \notin F /\ 2 \notin F
    BY <2>4
  <2> QED
    BY <2>1, <2>2, <2>3, <2>4
<1>4. {y \in F : y < 1} = {}
  <2>1. \A y \in F : ~(y < 1)
    OBVIOUS
  <2> QED
    BY <2>1
<1>5. {y \in F : y < 2} = IF 1 \in F THEN {1} ELSE {}
  <2>1. \A y \in F : y < 2 <=> y = 1
    OBVIOUS
  <2>2. CASE 1 \in F
    BY <2>1, <2>2
  <2>3. CASE 1 \notin F
    BY <2>1, <2>3
  <2> QED
    BY <2>2, <2>3
<1>6. Before(F, 1) = 0 /\ Before(F, 2) = IF 1 \in F THEN 1 ELSE 0
  BY <1>1, <1>4, <1>5 DEF Before
<1>7. Cardinality(F) \in 0..2 /\ (Cardinality(F) = 2 => 1 \in F) /\ (Cardinality(F) = 0 => F = {})
  <2>1. CASE F = {}
    BY <1>1, <2>1
  <2>2. CASE F = {1}
    BY <1>1, <2>2
  <2>3. CASE F = {2}
    BY <1>1, <2>3
  <2>4. CASE F = {1, 2}
    BY <1>2, <2>4
  <2> QED
    BY <1>3, <2>1, <2>2, <2>3, <2>4
<1> QED
  BY <1>6, <1>7

\* Of the places wanted, in their order, each free worker takes one; up to the last one
\* taken (or to the end, when there are workers left) every place is taken.
Takes(want, F, w) == {i \in want : w \in F /\ Before(want, i) = Before(F, w)}
LastTaken(n, want, F) ==
  IF Cardinality(want) < Cardinality(F) THEN n ELSE Pdf!Max({0} \cup Takes(want, F, 1) \cup Takes(want, F, 2))

EachTaken(n, want, F) ==
  /\ LastTaken(n, want, F) \in 0..n
  /\ \A i \in want : i <= LastTaken(n, want, F) => i \in Takes(want, F, 1) \/ i \in Takes(want, F, 2)
  /\ \A i, j \in Takes(want, F, 1) : i = j
  /\ \A i, j \in Takes(want, F, 2) : i = j

LEMMA WantedAreTaken ==
  ASSUME NEW n \in Nat, NEW want \in SUBSET (1..n), NEW F \in SUBSET {1, 2}
  PROVE  EachTaken(n, want, F)
<1>x. PICK A : A = Takes(want, F, 1)
  OBVIOUS
<1>y. PICK B : B = Takes(want, F, 2)
  OBVIOUS
<1>z. PICK cut : cut = LastTaken(n, want, F)
  OBVIOUS
<1>a. /\ A = {i \in want : 1 \in F /\ Before(want, i) = Before(F, 1)}
      /\ B = {i \in want : 2 \in F /\ Before(want, i) = Before(F, 2)}
  BY <1>x, <1>y DEF Takes
<1>b. cut = IF Cardinality(want) < Cardinality(F) THEN n ELSE Pdf!Max({0} \cup A \cup B)
  BY <1>x, <1>y, <1>z DEF LastTaken
<1> SUFFICES /\ cut \in 0..n
             /\ \A i \in want : i <= cut => i \in A \/ i \in B
             /\ \A i, j \in A : i = j
             /\ \A i, j \in B : i = j
  BY <1>x, <1>y, <1>z, Zenon DEF EachTaken
<1> USE <1>a
<1>1. want \in SUBSET Nat /\ IsFiniteSet(want)
  <2>1. IsFiniteSet(1..n) /\ n \in Int /\ 1 \in Int
    BY FS_Interval
  <2>2. PICK I : I = 1..n
    OBVIOUS
  <2>3. IsFiniteSet(I) /\ want \in SUBSET I
    BY <2>1, <2>2
  <2>4. IsFiniteSet(want)
    BY <2>3, FS_Subset
  <2> QED
    BY <2>4
<1>2. /\ \A x \in want : Before(want, x) \in Nat /\ Before(want, x) < Cardinality(want)
      /\ \A x, z \in want : x < z => Before(want, x) < Before(want, z)
      /\ Cardinality(want) \in Nat
  BY <1>1, BeforeGrows, FS_CardinalityType
<1>3. \A x, z \in want : Before(want, x) = Before(want, z) => x = z
  <2> SUFFICES ASSUME NEW x \in want, NEW z \in want, Before(want, x) = Before(want, z), x # z PROVE FALSE
    OBVIOUS
  <2>1. x < z \/ z < x
    BY <1>1
  <2> QED
    BY <1>2, <2>1
<1>4. (\A i, j \in A : i = j) /\ (\A i, j \in B : i = j)
  BY <1>3
<1>5. /\ Cardinality(F) \in 0..2
      /\ 1 \in F => Before(F, 1) = 0
      /\ 2 \in F => Before(F, 2) = IF 1 \in F THEN 1 ELSE 0
      /\ Cardinality(F) = 2 => 1 \in F
      /\ Cardinality(F) = 0 => F = {}
  BY TwoRanks
<1>6. CASE Cardinality(want) < Cardinality(F)
  <2>1. cut = n
    BY <1>b, <1>6
  <2>2. ASSUME NEW i \in want PROVE i \in A
    <3>1. Before(want, i) \in Nat /\ Before(want, i) < Cardinality(want)
      BY <1>2
    <3>2. Cardinality(F) = 2 /\ Before(want, i) = 0
      BY <1>2, <1>5, <1>6, <3>1
    <3> QED
      BY <1>5, <3>2
  <2> QED
    BY <1>4, <2>1, <2>2
<1>7. CASE ~(Cardinality(want) < Cardinality(F))
  <2> DEFINE S == {0} \cup A \cup B
  <2>1. S \in SUBSET Nat /\ S # {} /\ \A x \in S : x <= n
    <3>1. \A x \in want : x \in Nat /\ x <= n
      OBVIOUS
    <3>2. A \subseteq want /\ B \subseteq want
      OBVIOUS
    <3>3. 0 <= n
      OBVIOUS
    <3>4. \A x \in S : x = 0 \/ x \in want
      BY <3>2
    <3>5. \A x \in S : x \in Nat /\ x <= n
      BY <3>1, <3>3, <3>4
    <3>6. 0 \in S
      OBVIOUS
    <3> HIDE DEF S
    <3> QED
      BY <3>5, <3>6
  <2>2. \E x \in S : \A y \in S : x >= y
    <3> HIDE DEF S
    <3> QED
      BY <2>1, Largest
  <2>3. cut = Pdf!Max(S)
    BY <1>b, <1>7
  <2>4. cut \in S /\ \A y \in S : cut >= y
    <3> HIDE DEF S
    <3> QED
      BY <2>2, <2>3 DEF Pdf!Max
  <2>5. ASSUME NEW i \in want, i <= cut PROVE i \in A \/ i \in B
    <3>1. i >= 1 /\ cut # 0
      BY <2>4, <2>5
    <3>2. cut \in want /\ ((1 \in F /\ Before(want, cut) = Before(F, 1)) \/ (2 \in F /\ Before(want, cut) = Before(F, 2)))
      BY <2>4, <3>1
    <3>3. Before(want, i) <= Before(want, cut)
      <4>1. CASE i = cut
        BY <1>2, <3>2, <4>1
      <4>2. CASE i < cut
        BY <1>2, <3>2, <4>2
      <4> QED
        BY <1>1, <2>5, <3>2, <4>1, <4>2
    <3>4. Before(want, i) \in Nat
      BY <1>2
    <3> QED
      BY <1>5, <3>2, <3>3, <3>4
  <2> QED
    BY <1>4, <2>1, <2>4, <2>5
<1> QED
  BY <1>6, <1>7

LEMMA DroppedLength == ASSUME NEW X, NEW s \in Seq(X), NEW i \in DOMAIN s
                       PROVE  Len(Dropped(s, i)) = Len(s) - 1
<1>1. i \in 1..Len(s) /\ Len(s) \in Nat /\ \A j \in 1..Len(s) : s[j] \in X
  OBVIOUS
<1>2. \A j \in 1..i - 1 : s[j] \in X
  BY <1>1
<1>3. \A j \in i + 1..Len(s) : s[j] \in X
  BY <1>1
<1>4. PICK a : a = SubSeq(s, 1, i - 1)
  OBVIOUS
<1>5. PICK b : b = SubSeq(s, i + 1, Len(s))
  OBVIOUS
<1>6. a \in Seq(X) /\ Len(a) = i - 1
  BY <1>1, <1>2, <1>4, SubSeqProperties
<1>7. b \in Seq(X) /\ Len(b) = Len(s) - i
  BY <1>1, <1>3, <1>5, SubSeqProperties
<1>8. Len(a \o b) = Len(a) + Len(b)
  BY <1>6, <1>7, ConcatProperties
<1>9. Len(a) + Len(b) = Len(s) - 1
  BY <1>1, <1>6, <1>7
<1> QED
  BY <1>4, <1>5, <1>8, <1>9 DEF Dropped

\* A sequence that holds nothing twice, in a set of so many, is as short.
LEMMA OnceFits ==
  ASSUME NEW V, IsFiniteSet(V), NEW s \in Seq(V), Once(s)
  PROVE  Len(s) <= Cardinality(V)
<1>1. PICK n \in Nat : n = Len(s) /\ DOMAIN s = 1..n /\ s \in [1..n -> V]
  OBVIOUS
<1>2. s \in Injection(1..n, V)
  <2>1. \A a, b \in DOMAIN s : s[a] = s[b] => a = b
    BY DEF Once
  <2> QED
    BY <1>1, <2>1 DEF Injection, IsInjective
<1>3. IsFiniteSet(1..n) /\ Cardinality(1..n) = n
  BY FS_Interval
<1>4. Cardinality(1..n) <= Cardinality(V)
  <2>1. PICK I : I = 1..n
    OBVIOUS
  <2>2. Cardinality(I) <= Cardinality(V)
    BY <1>2, <2>1, FS_Injection
  <2> QED
    BY <2>1, <2>2
<1> QED
  BY <1>1, <1>3, <1>4

\* The oldest out of view is evicted; one in view only where all are, and more than are
\* kept.
Evicted(ren, out, ren2, V) ==
  /\ ren2 \in Seq(Pages) /\ Once(ren2) /\ Len(ren2) <= MaxCanvases
  /\ out \subseteq Elements(ren)
  /\ \A p : p \in Elements(ren2) <=> p \in Elements(ren) /\ p \notin out
  /\ \A p \in out : p \in V => Cardinality(V) > MaxCanvases

\* The page that Settle evicts, and what is left; v is the place of its victim.
OutOf(ren, v)  == IF Len(ren) > MaxCanvases THEN {ren[v]} ELSE {}
LeftOf(ren, v) == IF Len(ren) > MaxCanvases THEN Dropped(ren, v) ELSE ren

LEMMA EvictFacts ==
  ASSUME Pdf!PdfAssumption, NEW ren \in Seq(Pages), Once(ren), Len(ren) <= MaxCanvases + 1,
         IsFiniteSet(vis'), NEW v, v = Pdf!Victim(ren),
         NEW out, out = OutOf(ren, v), NEW ren2, ren2 = LeftOf(ren, v)
  PROVE  Evicted(ren, out, ren2, vis')
<1>1. MaxCanvases \in Nat \ {0} /\ Len(ren) \in Nat /\ DOMAIN ren = 1..Len(ren)
  BY DEF Pdf!PdfAssumption
<1>2. CASE ~(Len(ren) > MaxCanvases)
  <2>1. out = {} /\ ren2 = ren /\ Len(ren) <= MaxCanvases
    BY <1>1, <1>2 DEF OutOf, LeftOf
  <2> QED
    BY <2>1 DEF Evicted
<1>3. CASE Len(ren) > MaxCanvases
  <2> DEFINE I == {i \in 1..Len(ren) : ren[i] \notin vis'}
  <2>1. v = Pdf!Victim(ren)
    OBVIOUS
  <2>2. I # {} => Pdf!Min(I) \in I
    <3> SUFFICES ASSUME I # {} PROVE Pdf!Min(I) \in I
      OBVIOUS
    <3>1. I \in SUBSET Nat
      OBVIOUS
    <3>2. \E x \in I : \A y \in I : x <= y
      <4> HIDE DEF I
      <4> QED
        BY <3>1, Smallest
    <3> HIDE DEF I
    <3> QED
      BY <3>2 DEF Pdf!Min
  <2>3. I # {} => v \in I
    <3> SUFFICES ASSUME I # {} PROVE v \in I
      OBVIOUS
    <3>1. PICK m : m = Pdf!Min(I)
      OBVIOUS
    <3>2. m \in I /\ m # 0
      BY <2>2, <3>1
    <3>3. v = IF m = 0 THEN 1 ELSE m
      BY <2>1, <3>1 DEF Pdf!Victim, Pdf!SelectInSeq
    <3> QED
      BY <3>2, <3>3
  <2>4. I = {} => v = 1
    BY <2>1 DEF Pdf!Victim, Pdf!SelectInSeq
  <2>5. v \in DOMAIN ren /\ (ren[v] \in vis' => \A i \in DOMAIN ren : ren[i] \in vis')
    <3>1. CASE I = {}
      BY <1>1, <1>3, <2>4, <3>1
    <3>2. CASE I # {}
      BY <1>1, <2>3, <3>2
    <3> QED
      BY <3>1, <3>2
  <2>6. out = {ren[v]} /\ ren2 = Dropped(ren, v)
    BY <1>3 DEF OutOf, LeftOf
  <2>7. /\ ren2 \in Seq(Pages)
        /\ \A j \in DOMAIN ren2 : \E k \in DOMAIN ren \ {v} : ren2[j] = ren[k]
        /\ \A k \in DOMAIN ren \ {v} : \E j \in DOMAIN ren2 : ren2[j] = ren[k]
        /\ \A j, l \in DOMAIN ren2 : j # l => \E k, m \in DOMAIN ren \ {v} : k # m /\ ren2[j] = ren[k] /\ ren2[l] = ren[m]
    <3>1. PICK X : X = Pages
      OBVIOUS
    <3>2. ren \in Seq(X)
      BY <3>1
    <3> HIDE <3>1
    <3>3. ren2 \in Seq(X)
      BY <2>5, <2>6, <3>2, Without
    <3>4. \A j \in DOMAIN ren2 : \E k \in DOMAIN ren \ {v} : ren2[j] = ren[k]
      BY <2>5, <2>6, <3>2, Without
    <3>5. \A k \in DOMAIN ren \ {v} : \E j \in DOMAIN ren2 : ren2[j] = ren[k]
      BY <2>5, <2>6, <3>2, Without
    <3>6. \A j, l \in DOMAIN ren2 : j # l => \E k, m \in DOMAIN ren \ {v} : k # m /\ ren2[j] = ren[k] /\ ren2[l] = ren[m]
      BY <2>5, <2>6, <3>2, Without
    <3> QED
      BY <3>1, <3>3, <3>4, <3>5, <3>6
  <2>8. Len(ren2) = Len(ren) - 1
    BY <2>5, <2>6, DroppedLength
  <2>9. Once(ren2)
    BY <2>7 DEF Once
  <2>10. \A p : p \in Elements(ren2) <=> p \in Elements(ren) /\ p \notin out
    <3>1. ASSUME NEW j \in DOMAIN ren2 PROVE ren2[j] \in Elements(ren) /\ ren2[j] \notin out
      <4>1. PICK k \in DOMAIN ren \ {v} : ren2[j] = ren[k]
        BY <2>7
      <4>2. ren[k] # ren[v]
        BY <2>5, <4>1 DEF Once
      <4> QED
        BY <2>6, <4>1, <4>2 DEF Elements
    <3>2. ASSUME NEW k \in DOMAIN ren, ren[k] \notin out PROVE ren[k] \in Elements(ren2)
      <4>1. k # v
        BY <2>6, <3>2
      <4>2. PICK j \in DOMAIN ren2 : ren2[j] = ren[k]
        BY <2>7, <4>1
      <4> QED
        BY <4>2 DEF Elements
    <3> QED
      BY <3>1, <3>2 DEF Elements
  <2>11. ASSUME ren[v] \in vis' PROVE Cardinality(vis') > MaxCanvases
    <3>1. \A i \in 1..Len(ren) : ren[i] \in vis'
      BY <1>1, <2>5, <2>11
    <3>2. PICK V : V = vis'
      OBVIOUS
    <3>3. ren \in Seq(V)
      BY <1>1, <3>1, <3>2
    <3>4. IsFiniteSet(V)
      BY <3>2
    <3>5. Len(ren) <= Cardinality(V) /\ Cardinality(V) \in Nat
      BY <3>3, <3>4, OnceFits, FS_CardinalityType
    <3> QED
      BY <1>1, <1>3, <3>2, <3>5
  <2>12. out \subseteq Elements(ren)
    BY <2>5, <2>6 DEF Elements
  <2>13. \A p \in out : p \in vis' => Cardinality(vis') > MaxCanvases
    BY <2>6, <2>11
  <2>14. Len(ren2) <= MaxCanvases
    <3>1. PICK m \in Nat, n \in Nat : m = MaxCanvases /\ n = Len(ren) /\ n <= m + 1
      BY <1>1
    <3>2. n - 1 <= m
      BY <3>1
    <3> QED
      BY <2>8, <3>1, <3>2
  <2> QED
    BY <2>7, <2>9, <2>10, <2>12, <2>13, <2>14 DEF Evicted
<1> QED
  BY <1>2, <1>3

LEMMA WorkersAre == Pdf!Workers = {1, 2}
  BY DEF Pdf!Workers

JobType == [page : Pages \cup {0}, at : {"idle", "getting", "drawing"}, cancelled : BOOLEAN]

\* An idle worker has no page, and only a drawing can be cancelled.
JobsTyped(js) ==
  /\ js \in [Pdf!Workers -> JobType]
  /\ \A w \in Pdf!Workers : (js[w].at = "idle" <=> js[w].page = 0) /\ (js[w].cancelled => js[w].at = "drawing")

\* What is drawn or finished has its canvas, and no two jobs have a page, nor one that is
\* finished: unless two had it at once.
Held(js, ren, cvs, tw) ==
  /\ \A w \in Pdf!Workers : js[w].at = "drawing" => js[w].page \in cvs \cup tw
  /\ \A v, w \in Pdf!Workers : v # w /\ js[v].page = js[w].page => js[v].page \in tw \cup {0}
  /\ \A p \in Elements(ren) : p \in cvs \cup tw /\ \A w \in Pdf!Workers : js[w].page = p => p \in tw

Served(V, cvs, q, js, exc, tw) ==
  \A p \in V \ (exc \cup tw) : p \in cvs \/ p \in Elements(q) \/ \E w \in Pdf!Workers : js[w].page = p

\* The jobs js2 that js become: those that were idle may have got a place that was wanted,
\* and every such place up to the cut is some job's.
Pumped(q, want, js, cut, js2) ==
  /\ cut \in 0..Len(q)
  /\ JobsTyped(js2)
  /\ \A w \in Pdf!Workers : js2[w] = js[w] \/ (js[w].at = "idle" /\ js2[w].at = "getting" /\ \E i \in want : js2[w].page = q[i])
  /\ \A i \in want : i <= cut => \E w \in Pdf!Workers : js2[w].page = q[i]

\* The workers that are free.
FreeOf(js) == {w \in Pdf!Workers : js[w].at = "idle"}

\* The jobs js2 that js become when the workers take the places A and B.
Started(q, js, A, B, js2) ==
  /\ DOMAIN js2 = Pdf!Workers /\ js2 = [w \in Pdf!Workers |-> js2[w]]
  /\ js2[1] = IF A = {} THEN js[1] ELSE [page |-> q[CHOOSE i \in A : TRUE], at |-> "getting", cancelled |-> FALSE]
  /\ js2[2] = IF B = {} THEN js[2] ELSE [page |-> q[CHOOSE i \in B : TRUE], at |-> "getting", cancelled |-> FALSE]

\* What Settle does: the free workers take the first pages of the queue that are in view
\* and not finished.
LEMMA PumpFacts ==
  ASSUME Pdf!PdfAssumption, NEW q \in Seq(Pages), Once(q), NEW js, JobsTyped(js), NEW want \in SUBSET DOMAIN q,
         NEW F, F = FreeOf(js),
         NEW A, A = Takes(want, F, 1), NEW B, B = Takes(want, F, 2),
         NEW cut, cut = LastTaken(Len(q), want, F),
         NEW js2, Started(q, js, A, B, js2)
  PROVE  Pumped(q, want, js, cut, js2)
<1>0. /\ DOMAIN js2 = Pdf!Workers /\ js2 = [w \in Pdf!Workers |-> js2[w]]
      /\ js2[1] = IF A = {} THEN js[1] ELSE [page |-> q[CHOOSE i \in A : TRUE], at |-> "getting", cancelled |-> FALSE]
      /\ js2[2] = IF B = {} THEN js[2] ELSE [page |-> q[CHOOSE i \in B : TRUE], at |-> "getting", cancelled |-> FALSE]
  BY Zenon DEF Started
<1> USE <1>0
<1>1. Len(q) \in Nat /\ DOMAIN q = 1..Len(q) /\ \A i \in DOMAIN q : q[i] \in Pages
  OBVIOUS
<1>2. Pdf!Workers = {1, 2}
  BY WorkersAre
<1>3. F \in SUBSET {1, 2}
  BY <1>2 DEF FreeOf
<1>4. /\ cut \in 0..Len(q)
      /\ \A i \in want : i <= cut => i \in A \/ i \in B
      /\ \A i, j \in A : i = j
      /\ \A i, j \in B : i = j
  <2>1. PICK n \in Nat : n = Len(q)
    BY <1>1
  <2>2. want \in SUBSET (1..n)
    BY <1>1, <2>1
  <2>3. cut = LastTaken(n, want, F)
    BY <2>1
  <2>4. /\ LastTaken(n, want, F) \in 0..n
        /\ \A i \in want : i <= LastTaken(n, want, F) => i \in Takes(want, F, 1) \/ i \in Takes(want, F, 2)
        /\ \A i, j \in Takes(want, F, 1) : i = j
        /\ \A i, j \in Takes(want, F, 2) : i = j
    <3>1. EachTaken(n, want, F)
      BY <1>3, <2>2, WantedAreTaken
    <3> QED
      BY <3>1, Zenon DEF EachTaken
  <2> QED
    BY <2>1, <2>3, <2>4
<1>5. (A = {} => js2[1] = js[1]) /\ (B = {} => js2[2] = js[2])
  OBVIOUS
<1>6. ASSUME NEW i \in A
      PROVE  /\ js[1].at = "idle" /\ js2[1].at = "getting" /\ js2[1].page = q[i] /\ i \in want /\ ~js2[1].cancelled
             /\ js2[1] \in JobType
  <2>1. (CHOOSE j \in A : TRUE) \in A
    BY <1>6
  <2>2. (CHOOSE j \in A : TRUE) = i
    BY <1>4, <2>1
  <2>3. js2[1] = [page |-> q[i], at |-> "getting", cancelled |-> FALSE]
    BY <1>6, <2>2
  <2>4. i \in want /\ 1 \in F
    BY DEF Takes
  <2>5. PICK no \in BOOLEAN : no = FALSE
    OBVIOUS
  <2>6. js2[1] = [page |-> q[i], at |-> "getting", cancelled |-> no] /\ q[i] \in Pages
    BY <1>1, <2>3, <2>4, <2>5
  <2>7. js2[1] \in JobType /\ js2[1].page = q[i] /\ js2[1].at = "getting" /\ js2[1].cancelled = no
    BY <2>6 DEF JobType
  <2> QED
    BY <2>4, <2>5, <2>7 DEF FreeOf
<1>7. ASSUME NEW i \in B
      PROVE  /\ js[2].at = "idle" /\ js2[2].at = "getting" /\ js2[2].page = q[i] /\ i \in want /\ ~js2[2].cancelled
             /\ js2[2] \in JobType
  <2>1. (CHOOSE j \in B : TRUE) \in B
    BY <1>7
  <2>2. (CHOOSE j \in B : TRUE) = i
    BY <1>4, <2>1
  <2>3. js2[2] = [page |-> q[i], at |-> "getting", cancelled |-> FALSE]
    BY <1>7, <2>2
  <2>4. i \in want /\ 2 \in F
    BY DEF Takes
  <2>5. PICK no \in BOOLEAN : no = FALSE
    OBVIOUS
  <2>6. js2[2] = [page |-> q[i], at |-> "getting", cancelled |-> no] /\ q[i] \in Pages
    BY <1>1, <2>3, <2>4, <2>5
  <2>7. js2[2] \in JobType /\ js2[2].page = q[i] /\ js2[2].at = "getting" /\ js2[2].cancelled = no
    BY <2>6 DEF JobType
  <2> QED
    BY <2>4, <2>5, <2>7 DEF FreeOf
<1>8. \A w \in Pdf!Workers :
        js2[w] = js[w] \/ (/\ js[w].at = "idle" /\ js2[w].at = "getting" /\ ~js2[w].cancelled /\ js2[w] \in JobType
                           /\ \E i \in want : js2[w].page = q[i])
  <2>1. js2[1] = js[1] \/ (/\ js[1].at = "idle" /\ js2[1].at = "getting" /\ ~js2[1].cancelled /\ js2[1] \in JobType
                           /\ \E i \in want : js2[1].page = q[i])
    BY <1>5, <1>6
  <2>2. js2[2] = js[2] \/ (/\ js[2].at = "idle" /\ js2[2].at = "getting" /\ ~js2[2].cancelled /\ js2[2] \in JobType
                           /\ \E i \in want : js2[2].page = q[i])
    BY <1>5, <1>7
  <2> QED
    BY <1>2, <2>1, <2>2
<1>9. JobsTyped(js2)
  <2>1. ASSUME NEW w \in Pdf!Workers
        PROVE  js2[w] \in JobType /\ (js2[w].at = "idle" <=> js2[w].page = 0) /\ (js2[w].cancelled => js2[w].at = "drawing")
    <3>1. CASE js2[w] = js[w]
      BY <3>1 DEF JobsTyped
    <3>2. CASE js2[w] # js[w]
      <4>1. PICK i \in want : js2[w].page = q[i]
        BY <1>8, <3>2
      <4>2. js2[w].page \in Pages /\ 0 \notin Pages
        BY <1>1, <4>1 DEF Pdf!PdfAssumption
      <4> QED
        BY <1>8, <3>2, <4>2
    <3> QED
      BY <3>1, <3>2
  <2>2. js2 \in [Pdf!Workers -> JobType]
    BY <2>1
  <2> QED
    BY <2>1, <2>2 DEF JobsTyped
<1>10. \A i \in want : i <= cut => \E w \in Pdf!Workers : js2[w].page = q[i]
  BY <1>2, <1>4, <1>6, <1>7
<1> QED
  BY <1>4, <1>8, <1>9, <1>10 DEF Pumped

\* What holds of the drawings after each step, of the parts as they are then.
Drawings(ren, q, js, cvs, exc, tw, V) ==
  /\ ren \in Seq(Pages) /\ Once(ren) /\ Len(ren) <= MaxCanvases
  /\ q \in Seq(Pages) /\ Once(q) /\ JobsTyped(js)
  /\ cvs \subseteq Pages /\ exc \subseteq Pages /\ tw \subseteq Pages
  /\ Held(js, ren, cvs, tw) /\ Served(V, cvs, q, js, exc, tw)

Settled(q, js, cvs, exc, out, ren2, A, B, cut) ==
  /\ rendered' = ren2 /\ queue' = SubSeq(q, cut + 1, Len(q)) /\ canvas' = cvs \ out
  /\ twice' = twice \cup {p \in Pages : \A w \in Pdf!Workers : jobs'[w].page = p}
  /\ excused' = exc \cup (IF Cardinality(vis') > MaxCanvases THEN out \cap vis' ELSE {})
  /\ Started(q, js, A, B, jobs')

\* The places of the queue that are wanted.
Wanted(q, ren2, V) == {i \in DOMAIN q : q[i] \in V /\ ~Pdf!Contains(ren2, q[i])}

LEMMA SettleUnfolds ==
  ASSUME NEW ren, NEW q, NEW js, NEW cvs, NEW exc, Pdf!Settle(ren, q, js, cvs, exc), NEW v, v = Pdf!Victim(ren),
         NEW out, out = OutOf(ren, v), NEW ren2, ren2 = LeftOf(ren, v),
         NEW want, want = Wanted(q, ren2, vis'), NEW F, F = FreeOf(js),
         NEW A, A = Takes(want, F, 1), NEW B, B = Takes(want, F, 2), NEW cut, cut = LastTaken(Len(q), want, F)
  PROVE  Settled(q, js, cvs, exc, out, ren2, A, B, cut)
<1> DEFINE over == Len(ren) > MaxCanvases
           out0 == IF over THEN {ren[Pdf!Victim(ren)]} ELSE {}
           ren20 == IF over THEN Pdf!RemoveAt(ren, Pdf!Victim(ren)) ELSE ren
           want0 == {i \in DOMAIN q : q[i] \in vis' /\ ~Pdf!Contains(ren20, q[i])}
           free0 == {w \in Pdf!Workers : js[w].at = "idle"}
           For(w) == {i \in want0 : w \in free0 /\ Pdf!Turn(want0, i) = Pdf!Turn(free0, w)}
           cut0 == IF Pdf!Cardinality(want0) < Pdf!Cardinality(free0) THEN Len(q)
                   ELSE Pdf!Max({0} \cup UNION {For(w) : w \in Pdf!Workers})
<1>1. /\ rendered' = ren20
      /\ queue' = SubSeq(q, cut0 + 1, Len(q))
      /\ jobs' = [w \in Pdf!Workers |->
           IF For(w) = {} THEN js[w]
           ELSE [page |-> q[CHOOSE i \in For(w) : TRUE], at |-> "getting", cancelled |-> FALSE]]
      /\ twice' = twice \cup {p \in Pages : \A w \in Pdf!Workers : jobs'[w].page = p}
      /\ canvas' = cvs \ out0
      /\ excused' = exc \cup (IF Pdf!Cardinality(vis') > MaxCanvases THEN out0 \cap vis' ELSE {})
  BY Zenon DEF Pdf!Settle
<1>2. ren20 = ren2 /\ out0 = out /\ want0 = want /\ free0 = F
  BY Zenon DEF OutOf, LeftOf, Pdf!RemoveAt, Dropped, Wanted, FreeOf
<1>3. For(1) = A /\ For(2) = B
  <2>1. \A w : For(w) = {i \in want : w \in F /\ Before(want, i) = Before(F, w)}
    <3> HIDE DEF want0, free0
    <3> QED
      BY <1>2, PdfTurn
  <2> HIDE DEF For
  <2> QED
    BY <2>1 DEF Takes
<1>4. UNION {For(w) : w \in Pdf!Workers} = A \cup B
  <2> HIDE DEF For
  <2> QED
    BY <1>3, WorkersAre
<1>5. cut0 = cut
  <2>1. PICK U : U = UNION {For(w) : w \in Pdf!Workers}
    OBVIOUS
  <2>2. {0} \cup U = {0} \cup Takes(want, F, 1) \cup Takes(want, F, 2)
    BY <1>4, <2>1
  <2>3. cut0 = IF Cardinality(want) < Cardinality(F) THEN Len(q) ELSE Pdf!Max({0} \cup U)
    <3> HIDE DEF want0, free0, For
    <3> QED
      BY <1>2, <2>1, PdfCount
  <2> QED
    BY <2>2, <2>3, Zenon DEF LastTaken
<1>6. /\ DOMAIN jobs' = Pdf!Workers /\ jobs' = [w \in Pdf!Workers |-> jobs'[w]]
      /\ \A w \in Pdf!Workers : jobs'[w] = IF For(w) = {} THEN js[w]
           ELSE [page |-> q[CHOOSE i \in For(w) : TRUE], at |-> "getting", cancelled |-> FALSE]
  <2> HIDE DEF For
  <2> QED
    BY <1>1
<1>7. 1 \in Pdf!Workers /\ 2 \in Pdf!Workers
  BY WorkersAre
<1>8. /\ jobs'[1] = IF A = {} THEN js[1] ELSE [page |-> q[CHOOSE i \in A : TRUE], at |-> "getting", cancelled |-> FALSE]
      /\ jobs'[2] = IF B = {} THEN js[2] ELSE [page |-> q[CHOOSE i \in B : TRUE], at |-> "getting", cancelled |-> FALSE]
  <2> HIDE DEF For
  <2>1. /\ jobs'[1] = IF For(1) = {} THEN js[1] ELSE [page |-> q[CHOOSE i \in For(1) : TRUE], at |-> "getting", cancelled |-> FALSE]
        /\ jobs'[2] = IF For(2) = {} THEN js[2] ELSE [page |-> q[CHOOSE i \in For(2) : TRUE], at |-> "getting", cancelled |-> FALSE]
    BY <1>6, <1>7, Zenon
  <2> QED
    BY <1>3, <2>1, Zenon
<1>9. excused' = exc \cup (IF Cardinality(vis') > MaxCanvases THEN out \cap vis' ELSE {})
  <2> HIDE DEF out0
  <2> QED
    BY <1>1, <1>2, PdfCount
<1>10. rendered' = ren2 /\ queue' = SubSeq(q, cut + 1, Len(q)) /\ canvas' = cvs \ out
  <2> HIDE DEF out0, ren20, cut0
  <2> QED
    BY <1>1, <1>2, <1>5
<1>11. Started(q, js, A, B, jobs')
  BY <1>6, <1>8, Zenon DEF Started
<1> QED
  BY <1>1, <1>9, <1>10, <1>11, Zenon DEF Settled

LEMMA SettleFacts ==
  ASSUME Pdf!PdfAssumption, NEW ren \in Seq(Pages), Once(ren), Len(ren) <= MaxCanvases + 1,
         NEW q \in Seq(Pages), Once(q), NEW js, JobsTyped(js), NEW cvs \in SUBSET Pages, NEW exc \in SUBSET Pages,
         twice \subseteq Pages, Held(js, ren, cvs, twice), vis' \subseteq Pages, IsFiniteSet(vis'),
         Served(vis', cvs, q, js, exc, twice), Pdf!Settle(ren, q, js, cvs, exc)
  PROVE  /\ Drawings(rendered', queue', jobs', canvas', excused', twice', vis')
         /\ \A w \in Pdf!Workers : js[w].at # "idle" => jobs'[w] = js[w]
<1>v. PICK v : v = Pdf!Victim(ren)
  OBVIOUS
<1>a. PICK out : out = OutOf(ren, v)
  OBVIOUS
<1>b. PICK ren2 : ren2 = LeftOf(ren, v)
  OBVIOUS
<1>c. PICK want : want = Wanted(q, ren2, vis')
  OBVIOUS
<1>d. PICK F : F = FreeOf(js)
  OBVIOUS
<1>e. PICK A : A = Takes(want, F, 1)
  OBVIOUS
<1>f. PICK B : B = Takes(want, F, 2)
  OBVIOUS
<1>g. PICK cut : cut = LastTaken(Len(q), want, F)
  OBVIOUS
<1>0. Settled(q, js, cvs, exc, out, ren2, A, B, cut)
  BY <1>v, <1>a, <1>b, <1>c, <1>d, <1>e, <1>f, <1>g, SettleUnfolds
<1>1. /\ rendered' = ren2 /\ queue' = SubSeq(q, cut + 1, Len(q)) /\ canvas' = cvs \ out
      /\ twice' = twice \cup {p \in Pages : \A w \in Pdf!Workers : jobs'[w].page = p}
      /\ excused' = exc \cup (IF Cardinality(vis') > MaxCanvases THEN out \cap vis' ELSE {})
      /\ Started(q, js, A, B, jobs')
  BY <1>0, Zenon DEF Settled
<1>z. Evicted(ren, out, ren2, vis')
  BY <1>v, <1>a, <1>b, EvictFacts
<1>2. /\ ren2 \in Seq(Pages) /\ Once(ren2) /\ Len(ren2) <= MaxCanvases
      /\ out \subseteq Elements(ren)
      /\ \A p : p \in Elements(ren2) <=> p \in Elements(ren) /\ p \notin out
      /\ \A p \in out : p \in vis' => Cardinality(vis') > MaxCanvases
  BY <1>z, Zenon DEF Evicted
<1>3. PICK js2 : js2 = jobs'
  OBVIOUS
<1>4. Pumped(q, want, js, cut, js2)
  <2>1. want \in SUBSET DOMAIN q
    BY <1>c DEF Wanted
  <2>2. Started(q, js, A, B, js2)
    BY <1>1, <1>3
  <2> QED
    BY <1>d, <1>e, <1>f, <1>g, <2>1, <2>2, PumpFacts
<1>5. /\ cut \in 0..Len(q) /\ Len(q) \in Nat /\ DOMAIN q = 1..Len(q)
      /\ JobsTyped(js2)
      /\ \A w \in Pdf!Workers : js2[w] = js[w] \/ (js[w].at = "idle" /\ js2[w].at = "getting" /\ \E i \in want : js2[w].page = q[i])
      /\ \A i \in want : i <= cut => \E w \in Pdf!Workers : js2[w].page = q[i]
  BY <1>4 DEF Pumped
<1>6. \A i \in DOMAIN q : i \in want <=> q[i] \in vis' /\ q[i] \notin Elements(ren2)
  BY <1>2, <1>c DEF Pdf!Contains, Elements, Wanted
<1>7. /\ queue' \in Seq(Pages) /\ Once(queue')
      /\ \A i \in DOMAIN q : i > cut => q[i] \in Elements(queue')
  <2>1. PICK r : r = SubSeq(q, cut + 1, Len(q))
    OBVIOUS
  <2>2. PICK n \in Nat : n = Len(q)
    BY <1>5
  <2>3. \A i \in cut + 1..n : q[i] \in Pages
    BY <1>5, <2>2
  <2>4. r \in Seq(Pages) /\ Len(r) = n - cut /\ \A i \in 1..n - cut : r[i] = q[cut + i]
    <3>1. PICK m \in Nat : m = cut + 1 /\ m >= 1 /\ m <= n + 1 /\ cut = m - 1
      BY <1>5, <2>2
    <3>2. r = SubSeq(q, m, n) /\ \A i \in m..n : q[i] \in Pages
      BY <2>1, <2>2, <2>3, <3>1
    <3>a. PICK X : X = Pages
      OBVIOUS
    <3>b. \A i \in m..n : q[i] \in X
      BY <3>2, <3>a
    <3>c. SubSeq(q, m, n) \in Seq(X) /\ Len(SubSeq(q, m, n)) = IF m <= n THEN n - m + 1 ELSE 0
      BY ONLY <3>b, m \in Nat, n \in Nat, SubSeqProperties
    <3>3. r \in Seq(Pages) /\ Len(r) = IF m <= n THEN n - m + 1 ELSE 0
      BY <3>2, <3>a, <3>c
    <3>d. \A i \in 1..n - m + 1 : SubSeq(q, m, n)[i] = q[m + i - 1]
      BY ONLY <3>b, m \in Nat, n \in Nat, SubSeqProperties
    <3>4. \A i \in 1..n - m + 1 : r[i] = q[m + i - 1]
      <4>1. PICK s : s = SubSeq(q, m, n)
        OBVIOUS
      <4>2. \A i \in 1..n - m + 1 : s[i] = q[m + i - 1]
        BY <3>d, <4>1
      <4>3. r = s
        BY <3>2, <4>1
      <4> QED
        BY <4>2, <4>3
    <3> QED
      BY <3>1, <3>3, <3>4
  <2>5. DOMAIN r = 1..n - cut
    BY <1>5, <2>2, <2>4
  <2>6. Once(r)
    <3> SUFFICES ASSUME NEW i \in DOMAIN r, NEW j \in DOMAIN r, r[i] = r[j] PROVE i = j
      BY DEF Once
    <3>1. cut + i \in DOMAIN q /\ cut + j \in DOMAIN q /\ i \in Nat /\ j \in Nat
      BY <1>5, <2>2, <2>5
    <3>2. q[cut + i] = q[cut + j]
      BY <2>4, <2>5
    <3>3. cut + i = cut + j
      BY <3>1, <3>2 DEF Once
    <3> QED
      BY <1>5, <3>1, <3>3
  <2>7. ASSUME NEW i \in DOMAIN q, i > cut PROVE q[i] \in Elements(r)
    <3>1. i - cut \in DOMAIN r /\ cut + (i - cut) = i
      BY <1>5, <2>2, <2>5, <2>7
    <3>2. r[i - cut] = q[i]
      BY <2>4, <2>5, <3>1
    <3> QED
      BY <3>1, <3>2 DEF Elements
  <2>8. queue' = r
    BY <1>1, <2>1
  <2> QED
    BY <2>4, <2>6, <2>7, <2>8
<1>8. canvas' \subseteq Pages /\ excused' \subseteq Pages /\ twice' \subseteq Pages /\ twice \subseteq twice' /\ exc \subseteq excused'
  <2>1. out \subseteq Pages
    BY <1>2 DEF Elements
  <2> QED
    BY <1>1, <2>1
<1>9. \A w \in Pdf!Workers : js[w].at # "idle" => js2[w] = js[w]
  BY <1>5
<1>10. Held(js2, ren2, canvas', twice')
  <2>1. ASSUME NEW w \in Pdf!Workers, js2[w].at = "drawing" PROVE js2[w].page \in canvas' \cup twice'
    <3>1. js2[w] = js[w]
      BY <1>5, <2>1
    <3>2. js[w].page \in cvs \cup twice
      BY <2>1, <3>1 DEF Held
    <3>3. js[w].page \in out => js[w].page \in twice
      BY <1>2 DEF Held
    <3> QED
      BY <1>1, <1>8, <3>1, <3>2, <3>3
  <2>2. ASSUME NEW z \in Pdf!Workers, NEW w \in Pdf!Workers, z # w, js2[z].page = js2[w].page PROVE js2[z].page \in twice' \cup {0}
    <3>1. js2[z].page \in Pages \cup {0}
      BY <1>5 DEF JobsTyped, JobType
    <3>2. \A u \in Pdf!Workers : js2[u].page = js2[z].page
      BY <2>2, WorkersAre
    <3> QED
      BY <1>1, <1>3, <3>1, <3>2
  <2>3. ASSUME NEW p \in Elements(ren2) PROVE p \in canvas' \cup twice' /\ \A w \in Pdf!Workers : js2[w].page = p => p \in twice'
    <3>1. p \in cvs \cup twice /\ p \notin out /\ \A w \in Pdf!Workers : js[w].page = p => p \in twice
      BY <1>2 DEF Held
    <3>2. ASSUME NEW w \in Pdf!Workers, js2[w].page = p PROVE p \in twice
      <4>1. CASE js2[w] = js[w]
        BY <3>1, <3>2, <4>1
      <4>2. CASE js2[w] # js[w]
        <5>1. PICK i \in want : js2[w].page = q[i]
          BY <1>5, <4>2
        <5> QED
          BY <1>c, <1>6, <3>2, <5>1 DEF Wanted
      <4> QED
        BY <4>1, <4>2
    <3> QED
      BY <1>1, <1>8, <3>1, <3>2
  <2> QED
    BY <2>1, <2>2, <2>3 DEF Held
<1>11. Served(vis', canvas', queue', js2, excused', twice')
  <2> SUFFICES ASSUME NEW p \in vis', p \notin excused', p \notin twice'
               PROVE  p \in canvas' \/ p \in Elements(queue') \/ \E w \in Pdf!Workers : js2[w].page = p
    BY DEF Served
  <2>1. p \notin exc /\ p \notin twice
    BY <1>8
  <2>2. p \in cvs => p \in canvas'
    <3> SUFFICES ASSUME p \in out PROVE FALSE
      BY <1>1
    <3>1. Cardinality(vis') > MaxCanvases
      BY <1>2
    <3> QED
      BY <1>1, <3>1
  <2>3. CASE p \in cvs
    BY <2>2, <2>3
  <2>4. CASE p \in Elements(q)
    <3>1. PICK i \in DOMAIN q : p = q[i]
      BY <2>4 DEF Elements
    <3>2. CASE i > cut
      BY <1>7, <3>1, <3>2
    <3>3. CASE i <= cut /\ i \in want
      BY <1>5, <3>1, <3>3
    <3>4. CASE i \notin want
      <4>1. p \in Elements(ren2)
        BY <1>6, <3>1, <3>4
      <4> QED
        BY <1>10, <4>1 DEF Held
    <3> QED
      BY <1>5, <3>2, <3>3, <3>4
  <2>5. CASE \E w \in Pdf!Workers : js[w].page = p
    <3>1. PICK w \in Pdf!Workers : js[w].page = p
      BY <2>5
    <3>2. p # 0
      BY DEF Pdf!PdfAssumption
    <3>3. js[w].at # "idle"
      BY <3>1, <3>2 DEF JobsTyped
    <3> QED
      BY <1>9, <3>1, <3>3
  <2> QED
    BY <2>1, <2>3, <2>4, <2>5 DEF Served
<1>12. Drawings(ren2, queue', js2, canvas', excused', twice', vis')
  BY <1>2, <1>5, <1>7, <1>8, <1>10, <1>11 DEF Drawings
<1> QED
  BY <1>1, <1>3, <1>9, <1>12

-----------------------------------------------------------------------------
(* The preview's invariant *)

LoadType == [at : {"loading", "loaded", "failed"}, cancelled : BOOLEAN]

LoadsTyped ==
  loads \in Seq(LoadType) /\ preview \in 0..Len(loads) /\ holder \in {"closed", "busy", "pages", "error"}

\* A page's entry holds the job that draws it.
TasksOwn(ts, js) ==
  /\ ts \in [Pages -> 0..2]
  /\ \A p \in Pages : ts[p] # 0 => js[ts[p]].page = p /\ js[ts[p]].at = "drawing"

PdfInv ==
  /\ LoadsTyped /\ Pdf!ErrorIsItsOwn
  /\ vis \subseteq Pages /\ IsFiniteSet(vis)
  /\ Drawings(rendered, queue, jobs, canvas, excused, twice, vis)
  /\ TasksOwn(tasks, jobs)

\* What a callback hands to Settle: one finished page more than are kept, at most.
Ready(ren, q, js, cvs, exc, V) ==
  /\ ren \in Seq(Pages) /\ Once(ren) /\ Len(ren) <= MaxCanvases + 1
  /\ q \in Seq(Pages) /\ Once(q) /\ JobsTyped(js)
  /\ cvs \subseteq Pages /\ exc \subseteq Pages
  /\ Held(js, ren, cvs, twice) /\ Served(V, cvs, q, js, exc, twice)

LEMMA SettleStep ==
  ASSUME Pdf!PdfAssumption, PdfInv, UNCHANGED <<loads, preview, holder>>, vis' \subseteq Pages, IsFiniteSet(vis'),
         NEW ren, NEW q, NEW js, NEW cvs, NEW exc, Ready(ren, q, js, cvs, exc, vis'), TasksOwn(tasks', js),
         Pdf!Settle(ren, q, js, cvs, exc)
  PROVE  PdfInv'
<1>1. twice \subseteq Pages
  BY DEF PdfInv, Drawings
<1>2. /\ Drawings(rendered', queue', jobs', canvas', excused', twice', vis')
      /\ \A w \in Pdf!Workers : js[w].at # "idle" => jobs'[w] = js[w]
  BY <1>1, SettleFacts DEF Ready
<1>3. TasksOwn(tasks', jobs')
  <2>1. ASSUME NEW p \in Pages, tasks'[p] # 0 PROVE jobs'[tasks'[p]].page = p /\ jobs'[tasks'[p]].at = "drawing"
    <3>1. tasks'[p] \in Pdf!Workers
      BY <2>1, WorkersAre DEF TasksOwn
    <3>2. js[tasks'[p]].page = p /\ js[tasks'[p]].at = "drawing"
      BY <2>1 DEF TasksOwn
    <3> QED
      BY <1>2, <3>1, <3>2
  <2> QED
    BY <2>1 DEF TasksOwn
<1>4. LoadsTyped' /\ Pdf!ErrorIsItsOwn'
  BY DEF PdfInv, LoadsTyped, Pdf!ErrorIsItsOwn
<1> QED
  BY <1>2, <1>3, <1>4 DEF PdfInv

Longer(s, x, r) == Once(r) /\ Len(r) = Len(s) + 1 /\ Elements(r) = Elements(s) \cup {x}

LEMMA OnceMore ==
  ASSUME NEW X, NEW s \in Seq(X), Once(s), NEW x \in X, x \notin Elements(s), NEW r, r = Append(s, x)
  PROVE  r \in Seq(X) /\ Longer(s, x, r)
<1>1. /\ r \in Seq(X) /\ Len(r) = Len(s) + 1
      /\ \A i \in 1..Len(s) : r[i] = s[i]
      /\ r[Len(s) + 1] = x
  BY AppendProperties
<1>2. Len(s) \in Nat /\ DOMAIN s = 1..Len(s) /\ DOMAIN r = 1..Len(s) + 1
  BY <1>1
<1>3. \A i \in DOMAIN r : i \in DOMAIN s \/ i = Len(s) + 1
  BY <1>2
<1>4. \A i \in DOMAIN s : i \in DOMAIN r /\ r[i] = s[i] /\ r[i] # x
  BY <1>1, <1>2 DEF Elements
<1>5. Once(r)
  BY <1>1, <1>3, <1>4 DEF Once
<1>6. Len(s) + 1 \in DOMAIN r
  BY <1>2
<1>7. Elements(r) = Elements(s) \cup {x}
  BY <1>1, <1>3, <1>4, <1>6 DEF Elements
<1> QED
  BY <1>1, <1>5, <1>7 DEF Longer

LEMMA HoldsIt == ASSUME NEW X, NEW s \in Seq(X), NEW x PROVE Pdf!Contains(s, x) <=> x \in Elements(s)
<1>1. DOMAIN s = 1..Len(s)
  OBVIOUS
<1> QED
  BY <1>1 DEF Pdf!Contains, Elements

-----------------------------------------------------------------------------
(* Its steps *)

LEMMA OpenStep == ASSUME Pdf!PdfAssumption, PdfInv, Pdf!Open PROVE PdfInv'
<1>1. /\ loads' = Append(loads, [at |-> "loading", cancelled |-> FALSE]) /\ preview' = Len(loads) + 1 /\ holder' = "busy"
      /\ UNCHANGED <<vis, queue, jobs, tasks, rendered, canvas, excused, twice>>
  BY DEF Pdf!Open, Pdf!drawVars
<1>2. LoadsTyped'
  <2>1. loads \in Seq(LoadType)
    BY DEF PdfInv, LoadsTyped
  <2>2. PICK v \in LoadType : v = [at |-> "loading", cancelled |-> FALSE]
    <3>1. PICK no \in BOOLEAN : no = FALSE
      OBVIOUS
    <3>2. [at |-> "loading", cancelled |-> no] \in LoadType
      BY DEF LoadType
    <3> QED
      BY <3>1, <3>2
  <2>3. loads' = Append(loads, v)
    BY <1>1, <2>2
  <2>4. loads' \in Seq(LoadType) /\ Len(loads') = Len(loads) + 1 /\ Len(loads) \in Nat
    BY <2>1, <2>3
  <2>5. preview' \in 0..Len(loads')
    BY <1>1, <2>4
  <2> QED
    BY <1>1, <2>4, <2>5 DEF LoadsTyped
<1>3. Pdf!ErrorIsItsOwn'
  BY <1>1 DEF Pdf!ErrorIsItsOwn
<1> QED
  BY <1>1, <1>2, <1>3 DEF PdfInv

\* Nothing is drawn: at first, and when the preview is closed.
LEMMA NothingHolds ==
  ASSUME Pdf!PdfAssumption, NEW js, js = [w \in Pdf!Workers |-> Pdf!Idle], NEW ts, ts = [p \in Pages |-> 0]
  PROVE  Drawings(<<>>, <<>>, js, {}, {}, {}, {}) /\ TasksOwn(ts, js)
<1>1. JobsTyped(js)
  <2>1. Pdf!Idle = [page |-> 0, at |-> "idle", cancelled |-> FALSE]
    BY DEF Pdf!Idle
  <2>2. PICK no \in BOOLEAN : no = FALSE
    OBVIOUS
  <2>3. PICK idle : idle = [page |-> 0, at |-> "idle", cancelled |-> no]
    OBVIOUS
  <2>4. idle \in JobType /\ idle.at = "idle" /\ idle.page = 0 /\ idle.cancelled = no
    BY <2>3 DEF JobType
  <2>5. js = [w \in Pdf!Workers |-> idle]
    BY <2>1, <2>2, <2>3
  <2> QED
    BY <2>2, <2>4, <2>5 DEF JobsTyped
<1>2. \A w \in Pdf!Workers : js[w].page = 0 /\ js[w].at = "idle"
  BY DEF Pdf!Idle
<1>3. Held(js, <<>>, {}, {})
  BY <1>2 DEF Held, Elements
<1>4. Once(<<>>) /\ Len(<<>>) <= MaxCanvases /\ <<>> \in Seq(Pages)
  BY DEF Once, Pdf!PdfAssumption
<1>5. Served({}, {}, <<>>, js, {}, {})
  BY DEF Served
<1>6. TasksOwn(ts, js)
  BY DEF TasksOwn
<1> QED
  BY <1>1, <1>3, <1>4, <1>5, <1>6 DEF Drawings

LEMMA CloseStep == ASSUME Pdf!PdfAssumption, PdfInv, Pdf!Close PROVE PdfInv'
<1>1. /\ preview # 0 /\ loads' = [loads EXCEPT ![preview].cancelled = TRUE] /\ preview' = 0 /\ holder' = "closed"
      /\ vis' = {} /\ queue' = <<>> /\ jobs' = [w \in Pdf!Workers |-> Pdf!Idle]
      /\ tasks' = [p \in Pages |-> 0] /\ rendered' = <<>> /\ canvas' = {} /\ excused' = {} /\ twice' = {}
  BY DEF Pdf!Close, Pdf!NothingDrawn
<1>2. LoadsTyped'
  <2>1. PICK s \in Seq(LoadType) : s = loads
    BY DEF PdfInv, LoadsTyped
  <2>2. DOMAIN s = 1..Len(s) /\ Len(s) \in Nat /\ \A i \in DOMAIN s : s[i] \in LoadType
    OBVIOUS
  <2>3. PICK n \in DOMAIN s : n = preview
    BY <1>1, <2>1, <2>2 DEF PdfInv, LoadsTyped
  <2>4. PICK yes \in BOOLEAN : yes = TRUE
    OBVIOUS
  <2>5. PICK l \in LoadType : l = s[n]
    BY <2>2
  <2>6. [l EXCEPT !.cancelled = yes] \in LoadType
    BY DEF LoadType
  <2>7. loads' = [s EXCEPT ![n] = [l EXCEPT !.cancelled = yes]]
    BY <1>1, <2>1, <2>3, <2>4, <2>5
  <2>8. loads' \in Seq(LoadType) /\ Len(loads') = Len(s)
    BY <2>6, <2>7
  <2> QED
    BY <1>1, <2>2, <2>8 DEF LoadsTyped
<1>3. Pdf!ErrorIsItsOwn'
  BY <1>1 DEF Pdf!ErrorIsItsOwn
<1>4. Drawings(rendered', queue', jobs', canvas', excused', twice', vis') /\ TasksOwn(tasks', jobs')
  BY <1>1, NothingHolds
<1>5. vis' \subseteq Pages /\ IsFiniteSet(vis')
  BY <1>1, FS_EmptySet
<1> QED
  BY <1>2, <1>3, <1>4, <1>5 DEF PdfInv

\* A load that ends leaves the others as they are.
LEMMA LoadGoesOn ==
  ASSUME PdfInv, NEW n \in DOMAIN loads, NEW a \in {"loading", "loaded", "failed"}, loads' = [loads EXCEPT ![n].at = a],
         preview' = preview, holder' \in {"closed", "busy", "pages", "error"}
  PROVE  LoadsTyped' /\ loads'[n].at = a /\ \A k \in DOMAIN loads \ {n} : loads'[k] = loads[k]
<1>1. PICK s \in Seq(LoadType) : s = loads
  BY DEF PdfInv, LoadsTyped
<1>2. DOMAIN s = 1..Len(s) /\ Len(s) \in Nat /\ \A i \in DOMAIN s : s[i] \in LoadType
  OBVIOUS
<1>3. PICK l \in LoadType : l = s[n]
  BY <1>1, <1>2
<1>4. PICK m : m = [l EXCEPT !.at = a]
  OBVIOUS
<1>5. m \in LoadType /\ m.at = a
  BY <1>4 DEF LoadType
<1>6. loads' = [s EXCEPT ![n] = m] /\ n \in DOMAIN s
  BY <1>1, <1>3, <1>4
<1>7. loads' \in Seq(LoadType) /\ Len(loads') = Len(s) /\ loads'[n] = m /\ \A k \in DOMAIN s \ {n} : loads'[k] = s[k]
  <2>1. loads' \in [1..Len(s) -> LoadType]
    BY <1>2, <1>5, <1>6
  <2>2. PICK f \in [1..Len(s) -> LoadType] : f = loads'
    BY <2>1
  <2>3. PICK X : X = LoadType
    OBVIOUS
  <2>4. f \in Seq(X) /\ Len(f) = Len(s)
    BY ONLY <1>2, <2>2, <2>3
  <2>5. loads'[n] = m /\ \A k \in DOMAIN s \ {n} : loads'[k] = s[k]
    BY <1>6
  <2> QED
    BY <2>2, <2>3, <2>4, <2>5
<1>8. LoadsTyped'
  BY <1>1, <1>7 DEF PdfInv, LoadsTyped
<1> QED
  BY <1>1, <1>5, <1>7, <1>8

LEMMA LoadedStep == ASSUME Pdf!PdfAssumption, PdfInv, NEW n \in DOMAIN loads, Pdf!Loaded(n) PROVE PdfInv'
<1>1. /\ loads[n].at = "loading" /\ loads' = [loads EXCEPT ![n].at = "loaded"] /\ holder' = IF loads[n].cancelled THEN holder ELSE "pages"
      /\ UNCHANGED <<preview, vis, queue, jobs, tasks, rendered, canvas, excused, twice>>
  BY DEF Pdf!Loaded, Pdf!drawVars
<1>2. holder' \in {"closed", "busy", "pages", "error"}
  BY <1>1 DEF PdfInv, LoadsTyped
<1>3. LoadsTyped' /\ loads'[n].at = "loaded" /\ \A k \in DOMAIN loads \ {n} : loads'[k] = loads[k]
  BY <1>1, <1>2, LoadGoesOn
<1>4. Pdf!ErrorIsItsOwn'
  <2> SUFFICES ASSUME holder' = "error" PROVE preview # 0 /\ loads'[preview].at = "failed"
    BY <1>1 DEF Pdf!ErrorIsItsOwn
  <2>1. holder = "error" /\ preview # 0 /\ loads[preview].at = "failed"
    BY <1>1 DEF PdfInv, Pdf!ErrorIsItsOwn
  <2>2. preview \in DOMAIN loads \ {n}
    BY <1>1, <2>1 DEF PdfInv, LoadsTyped
  <2> QED
    BY <1>3, <2>1, <2>2
<1> QED
  BY <1>1, <1>3, <1>4 DEF PdfInv

\* A rejection is shown when it is the current preview's: another's leaves the holder.
LEMMA LoadFailsStep == ASSUME Pdf!PdfAssumption, PdfInv, NEW n \in DOMAIN loads, Pdf!LoadFails(n) PROVE PdfInv'
<1>1. /\ loads[n].at = "loading" /\ loads' = [loads EXCEPT ![n].at = "failed"]
      /\ holder' = IF preview # n \/ loads[n].cancelled THEN holder ELSE "error"
      /\ UNCHANGED <<preview, vis, queue, jobs, tasks, rendered, canvas, excused, twice>>
  BY DEF Pdf!LoadFails, Pdf!drawVars, Pdf!Obsolete
<1>2. holder' \in {"closed", "busy", "pages", "error"}
  BY <1>1 DEF PdfInv, LoadsTyped
<1>3. LoadsTyped' /\ loads'[n].at = "failed" /\ \A k \in DOMAIN loads \ {n} : loads'[k] = loads[k]
  BY <1>1, <1>2, LoadGoesOn
<1>4. Pdf!ErrorIsItsOwn'
  <2> SUFFICES ASSUME holder' = "error" PROVE preview # 0 /\ loads'[preview].at = "failed"
    BY <1>1 DEF Pdf!ErrorIsItsOwn
  <2>1. CASE preview = n
    <3>1. preview # 0
      BY <2>1 DEF PdfInv, LoadsTyped
    <3> QED
      BY <1>3, <2>1, <3>1
  <2>2. CASE preview # n
    <3>1. holder = "error" /\ preview # 0 /\ loads[preview].at = "failed"
      BY <1>1, <2>2 DEF PdfInv, Pdf!ErrorIsItsOwn
    <3>2. preview \in DOMAIN loads \ {n}
      BY <2>2, <3>1 DEF PdfInv, LoadsTyped
    <3> QED
      BY <1>3, <3>1, <3>2
  <2> QED
    BY <2>1, <2>2
<1> QED
  BY <1>1, <1>3, <1>4 DEF PdfInv

LEMMA ScrollInStep == ASSUME Pdf!PdfAssumption, PdfInv, NEW p \in Pages, Pdf!Enter(p) PROVE PdfInv'
<1>1. PICK q : q = IF Pdf!Contains(rendered, p) \/ Pdf!Contains(queue, p) THEN queue ELSE Append(queue, p)
  OBVIOUS
<1>2. /\ vis' = vis \cup {p} /\ UNCHANGED <<loads, preview, holder, tasks>>
      /\ Pdf!Settle(rendered, q, jobs, canvas, excused)
  BY <1>1, Zenon DEF Pdf!Enter
<1>3. Drawings(rendered, queue, jobs, canvas, excused, twice, vis) /\ TasksOwn(tasks, jobs) /\ IsFiniteSet(vis) /\ vis \subseteq Pages
  BY DEF PdfInv
<1>4. vis' \subseteq Pages /\ IsFiniteSet(vis')
  BY <1>2, <1>3, FS_AddElement
<1>5. rendered \in Seq(Pages) /\ queue \in Seq(Pages) /\ Once(queue)
  BY <1>3 DEF Drawings
<1>6. (Pdf!Contains(rendered, p) <=> p \in Elements(rendered)) /\ (Pdf!Contains(queue, p) <=> p \in Elements(queue))
  BY <1>5, HoldsIt
<1>7. /\ q \in Seq(Pages) /\ Once(q) /\ Elements(queue) \subseteq Elements(q)
      /\ p \in Elements(q) \/ p \in Elements(rendered)
  <2>1. CASE p \in Elements(rendered) \/ p \in Elements(queue)
    BY <1>1, <1>5, <1>6, <2>1
  <2>2. CASE ~(p \in Elements(rendered) \/ p \in Elements(queue))
    <3>1. q = Append(queue, p)
      BY <1>1, <1>6, <2>2
    <3>2. PICK X : X = Pages
      OBVIOUS
    <3>3. PICK s : s = queue
      OBVIOUS
    <3>4. q \in Seq(X) /\ Longer(s, p, q)
      BY <1>5, <2>2, <3>1, <3>2, <3>3, OnceMore
    <3> QED
      BY <3>2, <3>3, <3>4 DEF Longer
  <2> QED
    BY <2>1, <2>2
<1>8. Served(vis', canvas, q, jobs, excused, twice)
  <2>1. p \in Elements(rendered) => p \in canvas \cup twice
    BY <1>3 DEF Drawings, Held
  <2> QED
    BY <1>2, <1>3, <1>7, <2>1 DEF Drawings, Served
<1>9. Len(rendered) <= MaxCanvases + 1
  BY <1>3, <1>5 DEF Drawings, Pdf!PdfAssumption
<1>10. Ready(rendered, q, jobs, canvas, excused, vis')
  BY <1>3, <1>5, <1>7, <1>8, <1>9 DEF Drawings, Ready
<1> QED
  BY <1>2, <1>3, <1>4, <1>10, SettleStep

LEMMA ScrollOutStep == ASSUME Pdf!PdfAssumption, PdfInv, NEW p \in Pages, Pdf!Leave(p) PROVE PdfInv'
<1>1. PICK js : js = [w \in Pdf!Workers |-> [jobs[w] EXCEPT !.cancelled = @ \/ tasks[p] = w]]
  OBVIOUS
<1>0. PICK exc : exc = excused \ {p}
  OBVIOUS
<1>2. /\ vis' = vis \ {p} /\ UNCHANGED <<loads, preview, holder, tasks>>
      /\ Pdf!Settle(rendered, queue, js, canvas, exc)
  BY <1>0, <1>1, Zenon DEF Pdf!Leave
<1>3. Drawings(rendered, queue, jobs, canvas, excused, twice, vis) /\ TasksOwn(tasks, jobs) /\ IsFiniteSet(vis) /\ vis \subseteq Pages
  BY DEF PdfInv
<1>4. vis' \subseteq Pages /\ IsFiniteSet(vis')
  BY <1>2, <1>3, FS_RemoveElement
<1>5. JobsTyped(jobs) /\ rendered \in Seq(Pages)
  BY <1>3 DEF Drawings
<1>6. ASSUME NEW w \in Pdf!Workers
      PROVE  /\ js[w] \in JobType /\ js[w].page = jobs[w].page /\ js[w].at = jobs[w].at
             /\ js[w].cancelled => js[w].at = "drawing"
  <2>1. PICK j \in JobType : j = jobs[w]
    BY <1>5 DEF JobsTyped
  <2>2. PICK c \in BOOLEAN : c = (j.cancelled \/ tasks[p] = w)
    OBVIOUS
  <2>3. js[w] = [j EXCEPT !.cancelled = c]
    BY <1>1, <2>1, <2>2
  <2>4. js[w] \in JobType /\ js[w].page = j.page /\ js[w].at = j.at /\ js[w].cancelled = c
    BY <2>3 DEF JobType
  <2>5. j.cancelled => j.at = "drawing"
    BY <1>5, <2>1 DEF JobsTyped
  <2>6. tasks[p] = w => j.at = "drawing"
    BY <1>3, <2>1, WorkersAre DEF TasksOwn
  <2> QED
    BY <2>1, <2>2, <2>4, <2>5, <2>6
<1>7. JobsTyped(js)
  <2>1. js \in [Pdf!Workers -> JobType]
    BY <1>1, <1>6
  <2>2. ASSUME NEW w \in Pdf!Workers PROVE js[w].at = "idle" <=> js[w].page = 0
    <3>1. js[w].page = jobs[w].page /\ js[w].at = jobs[w].at
      BY <1>6
    <3>2. jobs[w].at = "idle" <=> jobs[w].page = 0
      BY <1>5 DEF JobsTyped
    <3> QED
      BY <3>1, <3>2
  <2> QED
    BY <1>6, <2>1, <2>2 DEF JobsTyped
<1>8. Held(js, rendered, canvas, twice)
  BY <1>3, <1>6 DEF Drawings, Held
<1>9. Served(vis', canvas, queue, js, exc, twice)
  BY <1>0, <1>2, <1>3, <1>6 DEF Drawings, Served
<1>10. TasksOwn(tasks', js)
  <2>1. ASSUME NEW x \in Pages, tasks[x] # 0 PROVE js[tasks[x]].page = x /\ js[tasks[x]].at = "drawing"
    <3>1. tasks[x] \in Pdf!Workers
      BY <1>3, <2>1, WorkersAre DEF TasksOwn
    <3> QED
      BY <1>3, <1>6, <2>1, <3>1 DEF TasksOwn
  <2> QED
    BY <1>2, <1>3, <2>1 DEF TasksOwn
<1>11. Len(rendered) <= MaxCanvases + 1
  BY <1>3, <1>5 DEF Drawings, Pdf!PdfAssumption
<1>12. Ready(rendered, queue, js, canvas, exc, vis')
  BY <1>0, <1>3, <1>7, <1>8, <1>9, <1>11 DEF Drawings, Ready
<1> QED
  BY <1>2, <1>4, <1>10, <1>12, SettleStep

\* A job that ends leaves the other as it is.
Ended(js, w) ==
  /\ JobsTyped(js) /\ js[w].page = 0 /\ js[w].at = "idle" /\ \A v \in Pdf!Workers \ {w} : js[v] = jobs[v]
  /\ Held(js, rendered, canvas, twice)

LEMMA JobEnds ==
  ASSUME Pdf!PdfAssumption, PdfInv, NEW w \in Pdf!Workers, NEW js, js = Pdf!Finished(w)
  PROVE  Ended(js, w)
<1>1. PICK idle : idle = Pdf!Idle
  OBVIOUS
<1>2. idle \in JobType /\ idle.at = "idle" /\ idle.page = 0 /\ ~idle.cancelled
  <2>1. PICK no \in BOOLEAN : no = FALSE
    OBVIOUS
  <2>2. idle = [page |-> 0, at |-> "idle", cancelled |-> no]
    BY <1>1, <2>1 DEF Pdf!Idle
  <2>3. idle \in JobType /\ idle.at = "idle" /\ idle.page = 0 /\ idle.cancelled = no
    BY <2>2 DEF JobType
  <2> QED
    BY <2>1, <2>3
<1>3. JobsTyped(jobs) /\ Held(jobs, rendered, canvas, twice)
  BY DEF PdfInv, Drawings
<1>4. js = [jobs EXCEPT ![w] = idle]
  BY <1>1 DEF Pdf!Finished
<1>5. /\ js \in [Pdf!Workers -> JobType] /\ js[w] = idle
      /\ \A v \in Pdf!Workers \ {w} : js[v] = jobs[v]
  BY <1>2, <1>3, <1>4 DEF JobsTyped
<1>6. JobsTyped(js)
  <2> SUFFICES ASSUME NEW v \in Pdf!Workers
               PROVE  (js[v].at = "idle" <=> js[v].page = 0) /\ (js[v].cancelled => js[v].at = "drawing")
    BY <1>5 DEF JobsTyped
  <2>1. CASE v = w
    BY <1>2, <1>5, <2>1
  <2>2. CASE v # w
    BY <1>3, <1>5, <2>2 DEF JobsTyped
  <2> QED
    BY <2>1, <2>2
<1>7. Held(js, rendered, canvas, twice)
  <2>1. \A v \in Pdf!Workers : js[v] = jobs[v] \/ (js[v].at = "idle" /\ js[v].page = 0)
    BY <1>2, <1>5
  <2>2. \A p \in Elements(rendered) : p \in Pages /\ p # 0
    BY DEF PdfInv, Drawings, Elements, Pdf!PdfAssumption
  <2>3. \A v \in Pdf!Workers : js[v].at = "drawing" => js[v].page \in canvas \cup twice
    BY <1>3, <2>1 DEF Held
  <2>4. \A u, v \in Pdf!Workers : u # v /\ js[u].page = js[v].page => js[u].page \in twice \cup {0}
    BY <1>3, <2>1 DEF Held
  <2>5. \A p \in Elements(rendered) : p \in canvas \cup twice /\ \A v \in Pdf!Workers : js[v].page = p => p \in twice
    BY <1>3, <2>1, <2>2 DEF Held
  <2> QED
    BY <2>3, <2>4, <2>5 DEF Held
<1> QED
  BY <1>2, <1>5, <1>6, <1>7 DEF Ended

\* The entries left when a job has ended, its page's deleted or never set.
LEMMA EntriesLeft ==
  ASSUME Pdf!PdfAssumption, PdfInv, NEW w \in Pdf!Workers, jobs[w].at # "idle", NEW js, Ended(js, w), NEW ts,
         ts = [tasks EXCEPT ![jobs[w].page] = 0] \/ (ts = tasks /\ jobs[w].at # "drawing")
  PROVE  TasksOwn(ts, js)
<1>1. TasksOwn(tasks, jobs) /\ JobsTyped(jobs)
  BY DEF PdfInv, Drawings
<1>2. jobs[w].page \in Pages
  BY <1>1 DEF JobsTyped, JobType
<1>3. ts \in [Pages -> 0..2] /\ \A x \in Pages : ts[x] # 0 => ts[x] = tasks[x] /\ (x # jobs[w].page \/ jobs[w].at # "drawing")
  <2>1. tasks \in [Pages -> 0..2]
    BY <1>1 DEF TasksOwn
  <2>2. CASE ts = tasks /\ jobs[w].at # "drawing"
    BY <2>1, <2>2
  <2>3. CASE ts = [tasks EXCEPT ![jobs[w].page] = 0]
    BY <1>2, <2>1, <2>3
  <2> QED
    BY <2>2, <2>3
<1>4. ASSUME NEW x \in Pages, ts[x] # 0 PROVE js[ts[x]].page = x /\ js[ts[x]].at = "drawing"
  <2>1. ts[x] = tasks[x] /\ tasks[x] # 0 /\ ts[x] \in 0..2
    BY <1>3, <1>4
  <2>2. jobs[ts[x]].page = x /\ jobs[ts[x]].at = "drawing"
    BY <1>1, <2>1 DEF TasksOwn
  <2>3. ts[x] \in Pdf!Workers \ {w}
    BY <1>3, <1>4, <2>1, <2>2, WorkersAre
  <2> QED
    BY <2>2, <2>3 DEF Ended
<1> QED
  BY <1>3, <1>4 DEF TasksOwn

\* What the pages in view have when a job has ended: its own is out of view, on a canvas or excused.
LEMMA StillServed ==
  ASSUME PdfInv, NEW w \in Pdf!Workers, NEW js, Ended(js, w), NEW exc, excused \subseteq exc,
         jobs[w].page \notin vis \/ jobs[w].page \in canvas \cup twice \/ jobs[w].page \in exc
  PROVE  Served(vis, canvas, queue, js, exc, twice)
<1> SUFFICES ASSUME NEW x \in vis, x \notin exc, x \notin twice
             PROVE  x \in canvas \/ x \in Elements(queue) \/ \E v \in Pdf!Workers : js[v].page = x
  BY DEF Served
<1>1. x \in canvas \/ x \in Elements(queue) \/ \E v \in Pdf!Workers : jobs[v].page = x
  BY DEF PdfInv, Drawings, Served
<1>2. ASSUME NEW v \in Pdf!Workers, jobs[v].page = x PROVE x \in canvas \/ js[v].page = x
  <2>1. CASE v = w
    BY <1>2, <2>1
  <2>2. CASE v # w
    BY <1>2, <2>2 DEF Ended
  <2> QED
    BY <2>1, <2>2
<1> QED
  BY <1>1, <1>2

LEMMA GotStep == ASSUME Pdf!PdfAssumption, PdfInv, NEW w \in Pdf!Workers, Pdf!Got(w) PROVE PdfInv'
<1>1. jobs[w].at = "getting" /\ vis' = vis /\ UNCHANGED <<loads, preview, holder>>
  BY DEF Pdf!Got
<1>2. Drawings(rendered, queue, jobs, canvas, excused, twice, vis) /\ TasksOwn(tasks, jobs)
      /\ IsFiniteSet(vis) /\ vis \subseteq Pages
  BY DEF PdfInv
<1>3. JobsTyped(jobs) /\ Held(jobs, rendered, canvas, twice) /\ rendered \in Seq(Pages)
  BY <1>2 DEF Drawings
<1>p. PICK p : p = jobs[w].page
  OBVIOUS
<1>4. p \in Pages
  BY <1>1, <1>3, <1>p DEF JobsTyped, JobType
<1>5. CASE jobs[w].page \in vis
  <2>1. /\ jobs' = [jobs EXCEPT ![w].at = "drawing"] /\ canvas' = canvas \cup {p}
        /\ tasks' = [tasks EXCEPT ![p] = w] /\ UNCHANGED <<queue, rendered, excused, twice>>
    BY <1>5, <1>p DEF Pdf!Got
  <2>2. PICK j \in JobType : j = jobs[w]
    BY <1>3 DEF JobsTyped
  <2>3. PICK k : k = [j EXCEPT !.at = "drawing"]
    OBVIOUS
  <2>4. k \in JobType /\ k.page = p /\ k.at = "drawing"
    BY <1>p, <2>2, <2>3 DEF JobType
  <2>5. jobs' = [jobs EXCEPT ![w] = k]
    BY <2>1, <2>2, <2>3
  <2>6. jobs' \in [Pdf!Workers -> JobType] /\ jobs'[w] = k /\ \A v \in Pdf!Workers \ {w} : jobs'[v] = jobs[v]
    BY <1>3, <2>4, <2>5 DEF JobsTyped
  <2>7. JobsTyped(jobs')
    <3>1. p # 0
      BY <1>4 DEF Pdf!PdfAssumption
    <3>2. ASSUME NEW v \in Pdf!Workers
          PROVE (jobs'[v].at = "idle" <=> jobs'[v].page = 0) /\ (jobs'[v].cancelled => jobs'[v].at = "drawing")
      <4>1. CASE v = w
        BY <2>4, <2>6, <3>1, <4>1
      <4>2. CASE v # w
        BY <1>3, <2>6, <4>2 DEF JobsTyped
      <4> QED
        BY <4>1, <4>2
    <3> QED
      BY <2>6, <3>2 DEF JobsTyped
  <2>8. \A v \in Pdf!Workers : jobs'[v].page = jobs[v].page /\ (jobs'[v].at = "drawing" => jobs[v].at = "drawing" \/ jobs[v].page = p)
    BY <1>p, <2>4, <2>6
  <2>9. Held(jobs', rendered, canvas', twice)
    BY <1>3, <2>1, <2>8 DEF Held
  <2>10. Served(vis, canvas', queue, jobs', excused, twice)
    BY <1>2, <2>1, <2>8 DEF Drawings, Served
  <2>11. Drawings(rendered', queue', jobs', canvas', excused', twice', vis')
    <3>1. canvas' \subseteq Pages
      BY <1>2, <1>4, <2>1 DEF Drawings
    <3>2. Drawings(rendered, queue, jobs', canvas', excused, twice, vis)
      BY <1>2, <2>7, <2>9, <2>10, <3>1 DEF Drawings
    <3> QED
      BY <1>1, <2>1, <3>2
  <2>12. TasksOwn(tasks', jobs')
    <3>1. tasks' \in [Pages -> 0..2] /\ \A x \in Pages : tasks'[x] = IF x = p THEN w ELSE tasks[x]
      BY <1>2, <1>4, <2>1, WorkersAre DEF TasksOwn
    <3>2. ASSUME NEW x \in Pages, tasks'[x] # 0 PROVE jobs'[tasks'[x]].page = x /\ jobs'[tasks'[x]].at = "drawing"
      <4>1. CASE x = p
        BY <2>4, <2>6, <3>1, <4>1
      <4>2. CASE x # p
        <5>1. tasks'[x] = tasks[x] /\ tasks[x] # 0 /\ tasks[x] \in 0..2
          BY <1>2, <3>1, <3>2, <4>2 DEF TasksOwn
        <5>2. jobs[tasks[x]].page = x /\ jobs[tasks[x]].at = "drawing"
          BY <1>2, <5>1 DEF TasksOwn
        <5>3. tasks[x] \in Pdf!Workers \ {w}
          BY <1>1, <5>1, <5>2, WorkersAre
        <5> QED
          BY <2>6, <5>1, <5>2, <5>3
      <4> QED
        BY <4>1, <4>2
    <3> QED
      BY <3>1, <3>2 DEF TasksOwn
  <2>13. LoadsTyped' /\ Pdf!ErrorIsItsOwn'
    BY <1>1 DEF PdfInv, LoadsTyped, Pdf!ErrorIsItsOwn
  <2> QED
    BY <1>1, <1>2, <2>11, <2>12, <2>13 DEF PdfInv
<1>6. CASE jobs[w].page \notin vis
  <2>0. PICK js : js = Pdf!Finished(w)
    OBVIOUS
  <2>1. Pdf!Settle(rendered, queue, js, canvas, excused) /\ tasks' = tasks
    BY <1>6, <2>0 DEF Pdf!Got
  <2>2. Ended(js, w)
    BY <2>0, JobEnds
  <2>3. TasksOwn(tasks', js)
    BY <1>1, <2>1, <2>2, EntriesLeft
  <2>4. Served(vis', canvas, queue, js, excused, twice)
    BY <1>1, <1>6, <2>2, StillServed
  <2>5. Len(rendered) <= MaxCanvases + 1
    BY <1>2, <1>3 DEF Drawings, Pdf!PdfAssumption
  <2>6. Ready(rendered, queue, js, canvas, excused, vis')
    BY <1>2, <2>2, <2>4, <2>5 DEF Drawings, Ready, Ended
  <2> QED
    BY <1>1, <1>2, <2>1, <2>3, <2>6, SettleStep
<1> QED
  BY <1>5, <1>6

LEMMA DrawnStep == ASSUME Pdf!PdfAssumption, PdfInv, NEW w \in Pdf!Workers, Pdf!Drawn(w) PROVE PdfInv'
<1>p. PICK p : p = jobs[w].page
  OBVIOUS
<1>0. PICK js : js = Pdf!Finished(w)
  OBVIOUS
<1>r. PICK ren : ren = IF Pdf!Contains(rendered, p) THEN rendered ELSE Append(rendered, p)
  OBVIOUS
<1>1. /\ jobs[w].at = "drawing" /\ vis' = vis /\ UNCHANGED <<loads, preview, holder>>
      /\ tasks' = [tasks EXCEPT ![jobs[w].page] = 0]
      /\ Pdf!Settle(ren, queue, js, canvas, excused)
  BY <1>p, <1>0, <1>r, Zenon DEF Pdf!Drawn
<1>2. Drawings(rendered, queue, jobs, canvas, excused, twice, vis) /\ IsFiniteSet(vis) /\ vis \subseteq Pages
  BY DEF PdfInv
<1>3. JobsTyped(jobs) /\ Held(jobs, rendered, canvas, twice) /\ rendered \in Seq(Pages) /\ Once(rendered)
  BY <1>2 DEF Drawings
<1>4. p \in Pages /\ p # 0
  BY <1>1, <1>3, <1>p DEF JobsTyped, JobType
<1>5. Ended(js, w)
  BY <1>0, JobEnds
<1>6. p \in canvas \cup twice
  BY <1>1, <1>3, <1>p DEF Held
<1>7. /\ ren \in Seq(Pages) /\ Once(ren) /\ Len(ren) <= MaxCanvases + 1
      /\ \A x \in Elements(ren) : x \in Elements(rendered) \/ x = p
  <2>1. Len(rendered) \in Nat /\ MaxCanvases \in Nat /\ Len(rendered) <= MaxCanvases
    BY <1>2, <1>3 DEF Drawings, Pdf!PdfAssumption
  <2>2. CASE p \in Elements(rendered)
    <3>1. ren = rendered
      BY <1>3, <1>r, <2>2, HoldsIt
    <3> QED
      BY <1>3, <2>1, <3>1
  <2>3. CASE p \notin Elements(rendered)
    <3>1. ren = Append(rendered, p)
      BY <1>3, <1>r, <2>3, HoldsIt
    <3>2. PICK X : X = Pages
      OBVIOUS
    <3>3. PICK s : s = rendered
      OBVIOUS
    <3>4. ren \in Seq(X) /\ Longer(s, p, ren)
      BY <1>3, <1>4, <2>3, <3>1, <3>2, <3>3, OnceMore
    <3>5. Once(ren) /\ Len(ren) = Len(rendered) + 1 /\ Elements(ren) = Elements(rendered) \cup {p}
      BY <3>3, <3>4 DEF Longer
    <3> QED
      BY <2>1, <3>2, <3>4, <3>5
  <2> QED
    BY <2>2, <2>3
<1>8. Held(js, ren, canvas, twice)
  <2>1. ASSUME NEW v \in Pdf!Workers, js[v].page = p PROVE p \in twice
    <3>1. v # w
      BY <1>4, <1>5, <2>1 DEF Ended
    <3>2. jobs[v].page = jobs[w].page
      BY <1>5, <1>p, <2>1, <3>1 DEF Ended
    <3> QED
      BY <1>3, <1>4, <1>p, <3>1, <3>2 DEF Held
  <2>2. Held(js, rendered, canvas, twice)
    BY <1>5 DEF Ended
  <2> QED
    BY <1>6, <1>7, <2>1, <2>2 DEF Held
<1>9. Served(vis', canvas, queue, js, excused, twice)
  BY <1>1, <1>5, <1>6, <1>p, StillServed
<1>10. TasksOwn(tasks', js)
  BY <1>1, <1>5, EntriesLeft
<1>11. Ready(ren, queue, js, canvas, excused, vis')
  BY <1>2, <1>5, <1>7, <1>8, <1>9 DEF Drawings, Ready, Ended
<1> QED
  BY <1>1, <1>2, <1>10, <1>11, SettleStep

LEMMA DrawFailsStep == ASSUME Pdf!PdfAssumption, PdfInv, NEW w \in Pdf!Workers, Pdf!DrawFails(w) PROVE PdfInv'
<1>p. PICK p : p = jobs[w].page
  OBVIOUS
<1>0. PICK js : js = Pdf!Finished(w)
  OBVIOUS
<1>e. PICK exc : exc = IF jobs[w].cancelled THEN excused ELSE excused \cup {p}
  OBVIOUS
<1>1. /\ jobs[w].at # "idle" /\ vis' = vis /\ UNCHANGED <<loads, preview, holder>>
      /\ tasks' = [tasks EXCEPT ![jobs[w].page] = 0]
      /\ Pdf!Settle(rendered, queue, js, canvas, exc)
  BY <1>p, <1>0, <1>e, Zenon DEF Pdf!DrawFails
<1>2. Drawings(rendered, queue, jobs, canvas, excused, twice, vis) /\ IsFiniteSet(vis) /\ vis \subseteq Pages
  BY DEF PdfInv
<1>3. JobsTyped(jobs) /\ Held(jobs, rendered, canvas, twice) /\ rendered \in Seq(Pages) /\ Once(rendered)
  BY <1>2 DEF Drawings
<1>4. p \in Pages
  BY <1>1, <1>3, <1>p DEF JobsTyped, JobType
<1>5. Ended(js, w)
  BY <1>0, JobEnds
<1>6. p \in exc \/ p \in canvas \cup twice
  <2>1. jobs[w].cancelled => jobs[w].at = "drawing"
    BY <1>3 DEF JobsTyped
  <2>2. jobs[w].at = "drawing" => p \in canvas \cup twice
    BY <1>3, <1>p DEF Held
  <2> QED
    BY <1>e, <2>1, <2>2
<1>7. exc \subseteq Pages /\ excused \subseteq exc
  BY <1>2, <1>4, <1>e DEF Drawings
<1>8. Served(vis', canvas, queue, js, exc, twice)
  BY <1>1, <1>5, <1>6, <1>7, <1>p, StillServed
<1>9. TasksOwn(tasks', js)
  BY <1>1, <1>5, EntriesLeft
<1>10. Len(rendered) <= MaxCanvases + 1
  BY <1>2, <1>3 DEF Drawings, Pdf!PdfAssumption
<1>11. Ready(rendered, queue, js, canvas, exc, vis')
  BY <1>2, <1>5, <1>7, <1>8, <1>10 DEF Drawings, Ready, Ended
<1> QED
  BY <1>1, <1>2, <1>9, <1>11, SettleStep

LEMMA PdfInitHolds == ASSUME Pdf!PdfAssumption, Pdf!Init PROVE PdfInv
<1>1. /\ loads = <<>> /\ preview = 0 /\ holder = "closed"
      /\ vis = {} /\ queue = <<>> /\ jobs = [w \in Pdf!Workers |-> Pdf!Idle]
      /\ tasks = [p \in Pages |-> 0] /\ rendered = <<>> /\ canvas = {} /\ excused = {} /\ twice = {}
  BY DEF Pdf!Init
<1>2. LoadsTyped /\ Pdf!ErrorIsItsOwn
  BY <1>1 DEF LoadsTyped, Pdf!ErrorIsItsOwn
<1>3. Drawings(rendered, queue, jobs, canvas, excused, twice, vis) /\ TasksOwn(tasks, jobs)
  BY <1>1, NothingHolds
<1>4. vis \subseteq Pages /\ IsFiniteSet(vis)
  BY <1>1, FS_EmptySet
<1> QED
  BY <1>2, <1>3, <1>4 DEF PdfInv

LEMMA PdfStep == ASSUME Pdf!PdfAssumption, PdfInv, [Pdf!Next]_(Pdf!pdfVars) PROVE PdfInv'
<1>1. CASE UNCHANGED Pdf!pdfVars
  <2>1. UNCHANGED <<loads, preview, holder, vis, queue, jobs, tasks, rendered, canvas, excused, twice>>
    BY <1>1 DEF Pdf!pdfVars, Pdf!drawVars
  <2> QED
    BY <2>1 DEF PdfInv, LoadsTyped, Pdf!ErrorIsItsOwn
<1>2. CASE Pdf!Next
  BY <1>2, OpenStep, CloseStep, LoadedStep, LoadFailsStep, ScrollInStep, ScrollOutStep, GotStep, DrawnStep, DrawFailsStep,
     Zenon DEF Pdf!Next
<1> QED
  BY <1>1, <1>2

LEMMA PdfHolds == Spec => []PdfInv
<1>1. Pdf!PdfAssumption
  BY PartsAssumption
<1>2. Pdf!Init => PdfInv
  BY <1>1, PdfInitHolds
<1>3. PdfInv /\ [Pdf!Next]_(Pdf!pdfVars) => PdfInv'
  BY <1>1, PdfStep
<1>4. Pdf!Spec => []PdfInv
  BY <1>2, <1>3, PTL DEF Pdf!Spec
<1> QED
  BY <1>4, PdfMoves, PTL

\* THEOREM: a page of the previewed document in view is on a canvas, waiting or some
\* job's, unless its drawing failed, it was evicted from a crowd or two jobs had it at
\* once; and an error is shown only for the preview on screen: a job under way has its
\* canvas from the moment getPage answers, and the cut of the queue drops only what a
\* job took, what is finished and what is out of view.
THEOREM VisiblePagesAreServed == Spec => []PreviewIsTrue
<1>1. PdfInv => Pdf!VisibleIsServed /\ Pdf!ErrorIsItsOwn
  <2> SUFFICES ASSUME PdfInv PROVE Pdf!VisibleIsServed /\ Pdf!ErrorIsItsOwn
    OBVIOUS
  <2>1. Served(vis, canvas, queue, jobs, excused, twice) /\ queue \in Seq(Pages) /\ Pdf!ErrorIsItsOwn
    BY DEF PdfInv, Drawings
  <2>2. \A p : Pdf!Contains(queue, p) <=> p \in Elements(queue)
    BY <2>1, HoldsIt
  <2> QED
    BY <2>1, <2>2 DEF Pdf!VisibleIsServed, Served
<1>2. PreviewIsTrue <=> Pdf!VisibleIsServed /\ Pdf!ErrorIsItsOwn
  BY Zenon DEF PreviewIsTrue
<1> QED
  BY <1>1, <1>2, PdfHolds, PTL

-----------------------------------------------------------------------------
(* The types of the gestures: Gestures *)

\* What a press would swipe, what carries the pane, and the taps that are held.
GestureTyped ==
  /\ swRow \in Gesture!Elements /\ swPane \in Gesture!Elements /\ axis \in {"none", "h", "v"}
  /\ clicked \in Gesture!Elements /\ toward \in Swipes \cup {"none"}
  /\ pending \in [on : Gesture!Elements, timer : Nat]
  /\ timers \subseteq [id : Nat, on : Gesture!Elements]

\* The held taps leave a number for the next.
LEMMA NumberLeft ==
  ASSUME IsFiniteSet(timers)
  PROVE  \E n \in 1..(Gesture!Cardinality(timers) + 1) : \A u \in timers : u.id # n
<1> DEFINE c == Cardinality(timers)
           ids == {u.id : u \in timers}
<1>1. c \in Nat /\ Gesture!Cardinality(timers) = c
  BY FS_CardinalityType, SameCount
<1>2. IsFiniteSet(ids) /\ Cardinality(ids) <= c
  <2> DEFINE f == [u \in timers |-> u.id]
  <2>1. f \in Surjection(timers, ids)
    BY DEF Surjection
  <2> HIDE DEF f, ids, c
  <2>2. IsFiniteSet(ids) /\ Cardinality(ids) <= Cardinality(timers)
    BY <2>1, FS_Surjection
  <2> QED
    BY <2>2 DEF c
<1>3. Cardinality(1..(c + 1)) = c + 1
  BY <1>1, FS_Interval
<1> HIDE DEF c
<1>4. ASSUME 1..(c + 1) \subseteq ids PROVE FALSE
  <2>1. Cardinality(1..(c + 1)) <= Cardinality(ids)
    BY <1>2, <1>4, FS_Subset
  <2>2. Cardinality(ids) \in Nat
    BY <1>2, FS_CardinalityType
  <2> QED
    BY <1>1, <1>2, <1>3, <2>1, <2>2
<1>5. PICK n \in 1..(c + 1) : n \notin ids
  BY <1>4
<1> QED
  BY <1>1, <1>5

\* A tap that is held has a number of its own.
LEMMA TapHeld ==
  ASSUME IsFiniteSet(timers), GestureTyped, NEW el \in Gesture!Elements, Gesture!FirstTap(el)
  PROVE  /\ pending' \in [on : Gesture!Elements, timer : Nat]
         /\ timers' \subseteq [id : Nat, on : Gesture!Elements]
<1> DEFINE id == CHOOSE n \in 1..(Gesture!Cardinality(timers) + 1) : \A u \in timers : u.id # n
<1>1. timers' = timers \cup {[id |-> id, on |-> el]} /\ pending' = [on |-> el, timer |-> id]
  BY Zenon DEF Gesture!FirstTap
<1>2. id \in 1..(Gesture!Cardinality(timers) + 1)
  BY NumberLeft
<1>3. Gesture!Cardinality(timers) \in Nat
  BY FS_CardinalityType, SameCount
<1> HIDE DEF id
<1>4. id \in Nat
  BY <1>2, <1>3
<1> QED
  BY <1>1, <1>4 DEF GestureTyped

LEMMA GestureTypesInit == ASSUME Gesture!Init PROVE GestureTyped
BY DEF Gesture!Init, GestureTyped, Gesture!Elements, Gesture!NotPending

LEMMA GestureTypesStep ==
  ASSUME Gesture!GestureAssumption, GestureInv, GestureTyped, [Gesture!Next]_Gesture!gestureVars
  PROVE  GestureTyped'
<1>1. Gesture!NoRow \in Gesture!Elements /\ Gesture!NotPending \in [on : Gesture!Elements, timer : Nat]
  BY DEF Gesture!Elements, Gesture!NotPending
<1>2. CASE \E r \in Rows : Gesture!PressDown(r, "touch") \/ Gesture!PressDown(r, "mouse")
  <2>1. PICK r \in Rows : Gesture!PressDown(r, "touch") \/ Gesture!PressDown(r, "mouse")
    BY <1>2
  <2>2. <<r, render>> \in Gesture!Elements
    BY DEF Gesture!Elements, GestureInv
  <2> QED
    BY <2>1, <2>2 DEF GestureTyped, Gesture!PressDown
<1>3. CASE \E dir \in {"left", "right"} : Gesture!Move(dir)
  BY <1>1, <1>3 DEF GestureTyped, Gesture!Move
<1>4. CASE Gesture!LongPress \/ Gesture!TouchLost \/ Gesture!ListReplaced
  BY <1>4 DEF GestureTyped, Gesture!LongPress, Gesture!TouchLost, Gesture!ListReplaced
<1>5. CASE Gesture!TouchEnd
  <2>1. UNCHANGED <<axis, toward, clicked>> /\ swRow' = Gesture!NoRow /\ swPane' \in {swPane, Gesture!NoRow}
    BY <1>5, Zenon DEF Gesture!TouchEnd, Gesture!SwipeEnds
  <2>2. \/ UNCHANGED <<pending, timers>>
        \/ Gesture!SecondTap(press.on)
        \/ Gesture!FirstTap(press.on)
    BY <1>5, Zenon DEF Gesture!TouchEnd, Gesture!Tap
  <2>3. press.on \in Gesture!Elements /\ IsFiniteSet(timers)
    BY DEF GestureInv, PressInv, HeldInv
  <2>4. /\ pending' \in [on : Gesture!Elements, timer : Nat]
        /\ timers' \subseteq [id : Nat, on : Gesture!Elements]
    <3>1. CASE UNCHANGED <<pending, timers>>
      BY <3>1 DEF GestureTyped
    <3>2. CASE Gesture!SecondTap(press.on)
      BY <1>1, <3>2 DEF GestureTyped, Gesture!SecondTap
    <3>3. CASE Gesture!FirstTap(press.on)
      BY <2>3, <3>3, TapHeld
    <3> QED
      BY <2>2, <3>1, <3>2, <3>3
  <2> QED
    BY <1>1, <2>1, <2>4 DEF GestureTyped
<1>6. CASE Gesture!MouseUp \/ Gesture!MouseLeaves
  <2>1. /\ UNCHANGED <<axis, toward, pending, timers>> /\ swRow' = Gesture!NoRow
        /\ swPane' \in {swPane, Gesture!NoRow} /\ clicked' \in {press.on, Gesture!NoRow}
    BY <1>6, Zenon DEF Gesture!MouseUp, Gesture!MouseLeaves, Gesture!SwipeEnds
  <2>2. press.on \in Gesture!Elements
    BY DEF GestureInv, PressInv
  <2> QED
    BY <1>1, <2>1, <2>2 DEF GestureTyped
<1>7. CASE \E t \in timers : Gesture!Held(t)
  BY <1>1, <1>7 DEF GestureTyped, Gesture!Held
<1>8. CASE UNCHANGED Gesture!gestureVars
  BY <1>8 DEF GestureTyped, Gesture!gestureVars
<1> QED
  BY <1>2, <1>3, <1>4, <1>5, <1>6, <1>7, <1>8, Zenon DEF Gesture!Next

LEMMA GestureTypes == ASSUME Gesture!GestureAssumption PROVE Gesture!Spec => []Gesture!TypeOK
<1>1. Gesture!Init => GestureInv /\ GestureTyped
  BY GestureInit, GestureTypesInit
<1>2. GestureInv /\ GestureTyped /\ [Gesture!Next]_Gesture!gestureVars => GestureInv' /\ GestureTyped'
  BY GestureStep, GestureTypesStep
<1>3. GestureInv /\ GestureTyped => Gesture!TypeOK
  BY Zenon DEF GestureInv, GestureTyped, TallyType, PressInv, Gesture!TypeOK
<1> QED
  BY <1>1, <1>2, <1>3, PTL DEF Gesture!Spec

-----------------------------------------------------------------------------
(* The types of the keyboard: Keybindings *)

\* Beside the recorder: what the page was loaded with, the keys of a recording, the
\* prefix that is pending.
KeyTyped ==
  /\ live \in [Key!Actions -> Key!Bindings]
  /\ keys = <<>> \/ \E k \in KeySet : keys = <<k>>
  /\ first \in KeySet \cup {""} /\ hands \in 0..MaxHands

LEMMA ShapesAreBindings == \A a : Key!Shape(a) \subseteq Key!Bindings
BY DEF Key!Shape, Key!Bindings

LEMMA KeyTypesInit == ASSUME Key!KeysAssumption, Key!Init PROVE KeyTyped
<1>1. live \in [Key!Actions -> Key!Bindings]
  BY Zenon DEF Key!Init, Key!Sets
<1>2. hands = MaxHands
  BY Zenon DEF Key!Init
<1>3. MaxHands \in Nat
  BY Zenon DEF Key!KeysAssumption
<1>4. hands \in 0..MaxHands
  BY <1>2, <1>3
<1>5. keys = <<>> /\ first = ""
  BY Zenon DEF Key!Init
<1> QED
  BY <1>1, <1>4, <1>5, Zenon DEF KeyTyped

\* The hand that is used up.
LEMMA HandUsed == ASSUME Key!KeysAssumption, KeyTyped, Key!Hand PROVE hands' \in 0..MaxHands
<1>1. MaxHands \in Nat /\ hands \in 0..MaxHands
  BY Zenon DEF Key!KeysAssumption, KeyTyped
<1>2. hands > 0 /\ hands' = hands - 1
  BY Zenon DEF Key!Hand
<1> QED
  BY <1>1, <1>2

LEMMA FirstKey == ASSUME NEW k PROVE Append(<<>>, k) = <<k>>
OBVIOUS

LEMMA KeyTypesStep ==
  ASSUME Key!KeysAssumption, KeyInv, KeyTyped, [Key!Next]_Key!keyVars
  PROVE  KeyTyped'
<1>1. CASE \E a \in Key!Actions : Key!Begin(a) \/ Key!Reset(a)
  <2>1. Key!Hand /\ (keys' = keys \/ keys' = <<>>) /\ UNCHANGED <<live, first>>
    BY <1>1, Zenon DEF Key!Begin, Key!Reset
  <2> QED
    BY <2>1, HandUsed DEF KeyTyped
<1>2. CASE Key!ResetAll \/ Key!Escape
  <2>1. Key!Hand /\ (keys' = keys \/ keys' = <<>>) /\ UNCHANGED <<live, first>>
    BY <1>2, Zenon DEF Key!ResetAll, Key!Escape
  <2> QED
    BY <2>1, HandUsed DEF KeyTyped
<1>3. CASE Key!Submit
  <2>1. Key!Hand /\ (keys' = keys \/ keys' = <<>>) /\ first' \in {first, ""} /\ boxes' = Key!Restored
        /\ (live' = live \/ (live' = boxes' /\ Key!Valid(boxes')))
    BY <1>3 DEF Key!Submit
  <2>2. ASSUME live' = boxes', Key!Valid(boxes') PROVE live' \in [Key!Actions -> Key!Bindings]
    <3>1. live' \in [Key!Actions -> Shows]
      BY <2>1, <2>2 DEF KeyInv, BoxesInv, Good
    <3>2. \A a \in Key!Actions : live'[a] \in Key!Shape(a)
      BY <2>2, Zenon DEF Key!Valid
    <3> QED
      BY <3>1, <3>2, ShapesAreBindings
  <2> QED
    BY <2>1, <2>2, HandUsed DEF KeyTyped
<1>4. CASE \E k \in KeySet : Key!Record(k)
  <2>1. PICK k \in KeySet : Key!Record(k)
    BY <1>4
  <2>2. Key!Hand /\ UNCHANGED <<live, first>>
        /\ (keys' = <<>> \/ (keys' = Append(keys, k) /\ Len(Append(keys, k)) = 1))
    BY <2>1, Zenon DEF Key!Record
  <2>3. Len(Append(keys, k)) = 1 => keys = <<>>
    <3>1. CASE keys = <<>>
      BY <3>1
    <3>2. CASE \E l \in KeySet : keys = <<l>>
      <4>1. PICK l \in KeySet : keys = <<l>>
        BY <3>2
      <4>2. Len(<<l, k>>) = 2
        OBVIOUS
      <4>3. Len(Append(keys, k)) = 2
        BY <4>1, <4>2, TwoInTurn
      <4> QED
        BY <4>3
    <3> QED
      BY <3>1, <3>2, Zenon DEF KeyTyped
  <2>4. keys' = <<>> \/ \E l \in KeySet : keys' = <<l>>
    BY <2>2, <2>3, FirstKey
  <2> QED
    BY <2>2, <2>4, HandUsed DEF KeyTyped
<1>5. CASE \E k \in KeySet \cup {"Shift"} : Key!Press(k)
  <2>1. PICK k : Key!Press(k)
    BY <1>5
  <2>2. Key!Hand /\ UNCHANGED <<live, keys>> /\ (first' = "" \/ (first' = k /\ k \in Key!Prefixes(live)))
    BY <2>1, Zenon DEF Key!Press, Key!After
  <2>3. Key!Prefixes(live) \subseteq KeySet
    <3>1. ASSUME NEW b \in Key!Actions, Len(live[b]) = 2 PROVE live[b][1] \in KeySet
      <4>1. live[b] \in Key!Bindings
        BY DEF KeyTyped
      <4>2. live[b] \in Key!Singles => live[b][1] \in KeySet
        BY OneKey
      <4>3. live[b] \in Key!Pairs => live[b][1] \in KeySet
        BY TwoKeys
      <4> QED
        BY <4>1, <4>2, <4>3 DEF Key!Bindings
    <3> QED
      BY <3>1 DEF Key!Prefixes
  <2>4. first' \in KeySet \cup {""}
    BY <2>2, <2>3
  <2> QED
    BY <2>2, <2>4, HandUsed DEF KeyTyped
<1>6. CASE Key!Forgotten \/ UNCHANGED Key!keyVars
  BY <1>6 DEF KeyTyped, Key!Forgotten, Key!keyVars
<1> QED
  BY <1>1, <1>2, <1>3, <1>4, <1>5, <1>6, Zenon DEF Key!Next

LEMMA KeyTypes == ASSUME Key!KeysAssumption PROVE Key!Spec => []Key!TypeOK
<1>1. Key!Init => KeyInv /\ KeyTyped
  BY KeyInit, KeyTypesInit
<1>2. KeyInv /\ KeyTyped /\ [Key!Next]_Key!keyVars => KeyInv' /\ KeyTyped'
  BY KeyStep, KeyTypesStep
<1>3. KeyInv /\ KeyTyped => Key!TypeOK
  <2> SUFFICES ASSUME KeyInv, KeyTyped PROVE Key!TypeOK
    OBVIOUS
  <2>1. default \in [Key!Actions -> Key!Bindings]
    <3>1. default \in [Key!Actions -> Shows] /\ \A a \in Key!Actions : default[a] \in Key!Shape(a)
      BY DEF KeyInv, DefaultInv, Good
    <3> QED
      BY <3>1, ShapesAreBindings
  <2>2. ASSUME NEW a \in Key!Actions
        PROVE  boxes[a] \in Key!Shape(a) \cup {Key!Prompt} \cup {Key!Then(k) : k \in KeySet}
    BY BoxesAreGood DEF Good, Shows, Halves
  <2>3. keys \in Seq(KeySet) /\ Len(keys) <= 1
    <3>1. CASE keys = <<>>
      BY <3>1
    <3>2. CASE \E l \in KeySet : keys = <<l>>
      BY <3>2
    <3> QED
      BY <3>1, <3>2, Zenon DEF KeyTyped
  <2> QED
    BY <2>1, <2>2, <2>3 DEF Key!TypeOK, KeyTyped, KeyInv, RecordingInv
<1> QED
  BY <1>1, <1>2, <1>3, PTL DEF Key!Spec

=============================================================================
