----------------------------- MODULE Till_proofs -----------------------------
(***************************************************************************)
(* What the till promises, for every number of sales, lines, calls, tabs   *)
(* and devices, and for every price, quantity, discount and fault the      *)
(* models have.                                                            *)
(*                                                                         *)
(* The first part is about the queue of sales (OfflineSales): they are     *)
(* neither doubled nor lost.  The second part is about the cart and its    *)
(* checkout (TillCart): lines are sold once and for what was shown, and    *)
(* the server refuses nothing that the till got right.                     *)
(***************************************************************************)
EXTENDS OfflineSales, TillCart, QuantitySums_proofs, SequenceTheorems

-----------------------------------------------------------------------------
(* The queue of sales.                                                     *)

Tills  == {"cart", "asking", "receipted", "refused"}
Status == {"absent", "PENDING", "NEEDS_REVIEW"}

Typed ==
  /\ rows \in [Sales -> {0, 1}]
  /\ till \in [Sales -> Tills]
  /\ queue \in [Devices -> [Sales -> Status]]
  /\ calls \in SUBSET Call
  /\ tab \in [Tabs -> Tab]

\* The server answers ok for sales that it has.
OkIsRecorded == \A c \in calls : c.at = "ok" => rows[c.sale] = 1

\* Whatever a pass has still to send or is waiting for is in the queue or on the
\* server: passes of two tabs share a queue and take entries off each other.
PassesAreSafe ==
  /\ \A t \in Tabs : \A i \in tab[t].todo : i \in Queued(DeviceOf[t]) \/ rows[i] = 1
  /\ \A c \in calls : c.for = "replay" /\ c.tab # Nobody =>
       c.sale \in Queued(DeviceOf[c.tab]) \/ rows[c.sale] = 1

IInv == Typed /\ OkIsRecorded /\ PassesAreSafe /\ ReceiptsKept

PutBack ==
  \A d \in Devices, i \in Sales :
    queue[d][i] = "absent" /\ queue'[d][i] = "NEEDS_REVIEW" => rows[i] = 1

-----------------------------------------------------------------------------
LEMMA CallType ==
  ASSUME Typed, NEW c \in calls
  PROVE  /\ c \in Call /\ c.sale \in Sales
         /\ c.tab # Nobody => c.tab \in Tabs /\ DeviceOf[c.tab] \in Devices
BY TabsOnDevices DEF Typed, Call

\* A call moves on at the server.
LEMMA Advanced ==
  ASSUME Typed, NEW c \in calls, NEW at \in {"body", "ok", "error"}, Advance(c, at)
  PROVE  /\ calls' \in SUBSET Call
         /\ \A e \in calls' :
              \/ e \in calls
              \/ e.sale = c.sale /\ e.for = c.for /\ e.tab = c.tab /\ e.at = at
<1>1. [c EXCEPT !.at = at] \in Call
  BY DEF Typed, Call
<1>2. [c EXCEPT !.at = at].sale = c.sale /\ [c EXCEPT !.at = at].for = c.for
      /\ [c EXCEPT !.at = at].tab = c.tab /\ [c EXCEPT !.at = at].at = at
  BY DEF Typed, Call
<1> QED BY <1>1, <1>2 DEF Advance, Typed

LEMMA OrphanType ==
  ASSUME Typed, NEW S \in SUBSET calls
  PROVE  /\ Orphans(S) \in SUBSET Call
         /\ \A e \in Orphans(S) : e.tab = Nobody /\ e.at \in {"sent", "body"}
<1>1. ASSUME NEW c \in calls, c.at \in {"sent", "body"}
      PROVE  /\ [c EXCEPT !.tab = Nobody] \in Call /\ [c EXCEPT !.tab = Nobody].tab = Nobody
             /\ [c EXCEPT !.tab = Nobody].at \in {"sent", "body"}
  BY <1>1 DEF Typed, Call
<1> QED BY <1>1 DEF Orphans

LEMMA Start == Init => IInv
<1> SUFFICES ASSUME Init PROVE IInv
  OBVIOUS
<1>1. Typed
  BY DEF Init, Typed, Tills, Status, Tab, Call
<1> QED BY <1>1 DEF Init, IInv, OkIsRecorded, PassesAreSafe, ReceiptsKept

\* What is left to show of a step: rows stay, an entry leaves a queue when its sale
\* has a row, ok and receipts come with a row, passes read the queue.
LEMMA StepKeeps ==
  ASSUME IInv, Typed',
         \A i \in Sales : rows[i] = 1 => rows'[i] = 1,
         \A d \in Devices, i \in Sales :
           queue[d][i] # "absent" => queue'[d][i] # "absent" \/ rows[i] = 1,
         \A c \in calls' : c.at = "ok" => rows'[c.sale] = 1,
         \A c \in calls' : c.for = "replay" /\ c.tab # Nobody =>
           \/ \E e \in calls : e.sale = c.sale /\ e.for = "replay" /\ e.tab = c.tab
           \/ c.sale \in tab[c.tab].todo,
         \A t \in Tabs : tab'[t].todo \subseteq tab[t].todo \cup Queued(DeviceOf[t]),
         \A i \in Sales : till'[i] = "receipted" =>
           till[i] = "receipted" \/ rows'[i] = 1 \/ \E d \in Devices : queue'[d][i] # "absent"
  PROVE  IInv'
<1>1. OkIsRecorded'
  BY DEF OkIsRecorded
<1>2. \A d \in Devices, i \in Sales : i \in Queued(d) \/ rows[i] = 1 =>
        i \in Queued(d)' \/ rows'[i] = 1
  BY DEF Queued
<1>3. PassesAreSafe'
  <2>1. ASSUME NEW t \in Tabs, NEW i \in tab'[t].todo
        PROVE  i \in Queued(DeviceOf[t])' \/ rows'[i] = 1
    <3>1. i \in Sales /\ DeviceOf[t] \in Devices
      BY <2>1, TabsOnDevices DEF Typed, Tab
    <3>2. i \in Queued(DeviceOf[t]) \/ rows[i] = 1
      BY <2>1 DEF IInv, PassesAreSafe
    <3> QED BY <1>2, <3>1, <3>2
  <2>2. ASSUME NEW c \in calls', c.for = "replay", c.tab # Nobody
        PROVE  c.sale \in Queued(DeviceOf[c.tab])' \/ rows'[c.sale] = 1
    <3>1. c.sale \in Sales /\ c.tab \in Tabs /\ DeviceOf[c.tab] \in Devices
      BY <2>2, TabsOnDevices DEF Typed, Call
    <3>2. c.sale \in Queued(DeviceOf[c.tab]) \/ rows[c.sale] = 1
      BY <2>2, <3>1 DEF IInv, PassesAreSafe
    <3> QED BY <1>2, <3>1, <3>2
  <2> QED BY <2>1, <2>2 DEF PassesAreSafe
<1>4. ReceiptsKept'
  <2> SUFFICES ASSUME NEW i \in Sales, till'[i] = "receipted"
               PROVE  rows'[i] > 0 \/ \E d \in Devices : queue'[d][i] # "absent"
    BY DEF ReceiptsKept, Queued
  <2>1. CASE till[i] = "receipted"
    <3>1. rows[i] = 1 \/ \E d \in Devices : queue[d][i] # "absent"
      BY <2>1 DEF IInv, ReceiptsKept, Queued, Typed
    <3> QED BY <3>1
  <2>2. CASE till[i] # "receipted"
    BY <2>2
  <2> QED BY <2>1, <2>2
<1> QED BY <1>1, <1>3, <1>4 DEF IInv

-----------------------------------------------------------------------------
LEMMA ServerKeeps ==
  ASSUME IInv, Server
  PROVE  IInv' /\ queue' = queue
<1> PICK c \in calls : Unauthorised(c) \/ Lookup(c) \/ Complete(c) \/ Refuse(c) \/ Forget(c)
  BY DEF Server
<1>1. Typed /\ OkIsRecorded
  BY DEF IInv
<1>2. UNCHANGED <<till, queue, tab>>
  BY DEF Unauthorised, Lookup, Complete, Refuse, Forget
<1>3. c \in Call /\ c.sale \in Sales
  BY <1>1, CallType
<1>4. CASE Forget(c)
  <2>1. rows' = rows /\ calls' \subseteq calls
    BY <1>4 DEF Forget
  <2>2. Typed'
    BY <1>1, <1>2, <2>1 DEF Typed
  <2> QED BY <1>1, <1>2, <2>1, <2>2, StepKeeps DEF OkIsRecorded
<1>5. CASE Unauthorised(c) \/ Lookup(c) \/ Complete(c) \/ Refuse(c)
  <2>1. PICK at \in {"body", "ok", "error"} :
          /\ Advance(c, at)
          /\ rows' = rows \/ rows' = [rows EXCEPT ![c.sale] = 1]
          /\ at = "ok" => rows'[c.sale] = 1
    <3>1. CASE Unauthorised(c) \/ Refuse(c)
      BY <3>1 DEF Unauthorised, Refuse
    <3>2. CASE Lookup(c)
      <4>1. rows[c.sale] \in {0, 1}
        BY <1>1, <1>3 DEF Typed
      <4> QED BY <3>2, <4>1 DEF Lookup
    <3>3. CASE Complete(c)
      BY <3>3, <1>1, <1>3 DEF Complete, Typed
    <3> QED BY <1>5, <3>1, <3>2, <3>3
  <2>2. /\ calls' \in SUBSET Call
        /\ \A e \in calls' :
             \/ e \in calls
             \/ e.sale = c.sale /\ e.for = c.for /\ e.tab = c.tab /\ e.at = at
    BY <1>1, <2>1, Advanced
  <2>3. Typed' /\ \A i \in Sales : rows[i] = 1 => rows'[i] = 1
    BY <1>1, <1>2, <1>3, <2>1, <2>2 DEF Typed
  <2>4. \A e \in calls' : e.at = "ok" => rows'[e.sale] = 1
    <3> TAKE e \in calls'
    <3>1. CASE e \in calls
      BY <1>1, <2>3, <3>1, CallType DEF OkIsRecorded
    <3>2. CASE e.sale = c.sale /\ e.at = at
      BY <2>1, <3>2
    <3> QED BY <2>2, <3>1, <3>2
  <2>5. \A e \in calls' : e.for = "replay" /\ e.tab # Nobody =>
          \E f \in calls : f.sale = e.sale /\ f.for = "replay" /\ f.tab = e.tab
    BY <2>2
  <2> QED BY <1>2, <2>3, <2>4, <2>5, StepKeeps
<1> QED BY <1>4, <1>5, <1>2

\* A queue gets or loses one entry.
LEMMA PutEffect ==
  ASSUME Typed, NEW t \in Tabs, NEW i \in Sales, NEW status \in Status, Put(t, i, status)
  PROVE  /\ queue' \in [Devices -> [Sales -> Status]]
         /\ \A d \in Devices, j \in Sales :
              queue'[d][j] = IF d = DeviceOf[t] /\ j = i THEN status ELSE queue[d][j]
<1>1. DeviceOf[t] \in Devices
  BY TabsOnDevices
<1> QED BY <1>1 DEF Typed, Put

LEMMA TillKeeps ==
  ASSUME IInv, Till
  PROVE  IInv' /\ PutBack
<1>1. Typed /\ OkIsRecorded
  BY DEF IInv
<1>2. ASSUME NEW t \in Tabs, NEW i \in Sales, Pay(t, i) PROVE IInv' /\ PutBack
  <2> DEFINE request == [sale |-> i, tab |-> t, for |-> "till", authorised |-> tab[t].token, at |-> "sent"]
  <2>1. calls' = calls \cup {request} /\ UNCHANGED <<rows, queue, tab>> /\ till' = [till EXCEPT ![i] = "asking"]
    BY <1>2 DEF Pay, Send
  <2>2. request \in Call /\ request.at = "sent" /\ request.for = "till"
    BY <1>1 DEF Typed, Tab, Call
  <2> HIDE DEF request
  <2>3. Typed'
    BY <1>1, <2>1, <2>2 DEF Typed, Tills
  <2>4. \A e \in calls' : e.at = "ok" => rows'[e.sale] = 1
    BY <1>1, <2>1, <2>2 DEF OkIsRecorded
  <2>5. \A j \in Sales : till'[j] = "receipted" => till[j] = "receipted"
    BY <1>1, <2>1 DEF Typed
  <2>6. \A e \in calls' : e.for = "replay" /\ e.tab # Nobody =>
          \E f \in calls : f.sale = e.sale /\ f.for = "replay" /\ f.tab = e.tab
    BY <2>1, <2>2
  <2> QED BY <2>1, <2>3, <2>4, <2>5, <2>6, StepKeeps DEF PutBack
<1>3. ASSUME NEW c \in calls, PayDone(c) \/ PayRefused(c) PROVE IInv' /\ PutBack
  <2>1. /\ calls' \subseteq calls /\ UNCHANGED <<rows, queue>> /\ c.sale \in Sales /\ c.tab \in Tabs
        /\ \/ till' = [till EXCEPT ![c.sale] = "receipted"] /\ c.at = "ok"
              /\ tab' = [tab EXCEPT ![c.tab].believes = (shift = "OPEN")]
           \/ till' = [till EXCEPT ![c.sale] = "refused"] /\ tab' = tab
    BY <1>1, <1>3, CallType DEF PayDone, PayRefused
  <2>2. \A t \in Tabs : tab'[t] \in Tab /\ tab'[t].todo = tab[t].todo
    <3> DEFINE row == [tab[c.tab] EXCEPT !.believes = (shift = "OPEN")]
    <3>1. tab[c.tab] \in Tab /\ (shift = "OPEN") \in BOOLEAN
      BY <1>1, <2>1 DEF Typed
    <3>2. row \in Tab /\ row.todo = tab[c.tab].todo
      BY <3>1 DEF Tab
    <3>3. tab' = [tab EXCEPT ![c.tab] = row] \/ tab' = tab
      BY <1>1, <2>1 DEF Typed
    <3> HIDE DEF row
    <3> QED BY <1>1, <2>1, <3>2, <3>3 DEF Typed
  <2>3. Typed'
    BY <1>1, <2>1, <2>2 DEF Typed, Tills
  <2>4. \A i \in Sales : till'[i] = "receipted" => till[i] = "receipted" \/ rows'[i] = 1
    BY <1>1, <2>1 DEF Typed, OkIsRecorded
  <2>5. \A e \in calls' : e.at = "ok" => rows'[e.sale] = 1
    BY <1>1, <2>1 DEF OkIsRecorded
  <2> QED BY <2>1, <2>2, <2>3, <2>4, <2>5, StepKeeps DEF PutBack
<1>4. ASSUME NEW c \in calls, PayLost(c) PROVE IInv' /\ PutBack
  <2>1. c.sale \in Sales /\ c.tab \in Tabs /\ UNCHANGED <<rows, tab>>
        /\ calls' = (calls \ {c}) \cup Orphans({c})
    BY <1>1, <1>4, CallType DEF PayLost
  <2>2. {c} \in SUBSET calls
    OBVIOUS
  <2>3. \A e \in Orphans({c}) : e.tab = Nobody /\ e.at \in {"sent", "body"} /\ e \in Call
    BY <1>1, <2>2, OrphanType
  <2>4. calls' \in SUBSET Call /\ \A e \in calls' : e.at = "ok" => rows'[e.sale] = 1
    BY <1>1, <2>1, <2>3 DEF Typed, OkIsRecorded
  <2>5. \A e \in calls' : e.for = "replay" /\ e.tab # Nobody =>
          \E f \in calls : f.sale = e.sale /\ f.for = "replay" /\ f.tab = e.tab
    BY <2>1, <2>3
  <2>6. CASE CanCheckout(c.tab)
    <3>1. till' = [till EXCEPT ![c.sale] = "receipted"] /\ Put(c.tab, c.sale, "PENDING")
      BY <1>4, <2>6 DEF PayLost
    <3>2. queue' \in [Devices -> [Sales -> Status]]
          /\ \A d \in Devices, j \in Sales :
               queue'[d][j] = IF d = DeviceOf[c.tab] /\ j = c.sale THEN "PENDING" ELSE queue[d][j]
      BY <1>1, <2>1, <3>1, PutEffect DEF Status
    <3>3. Typed'
      BY <1>1, <2>1, <2>4, <3>1, <3>2 DEF Typed, Tills
    <3>4. \A j \in Sales : till'[j] = "receipted" =>
            till[j] = "receipted" \/ \E d \in Devices : queue'[d][j] # "absent"
      BY <1>1, <2>1, <3>1, <3>2, TabsOnDevices DEF Typed
    <3> QED BY <2>1, <2>4, <2>5, <3>2, <3>3, <3>4, StepKeeps DEF PutBack
  <2>7. CASE ~CanCheckout(c.tab)
    <3>1. till' = [till EXCEPT ![c.sale] = "refused"] /\ queue' = queue
      BY <1>4, <2>7 DEF PayLost
    <3>2. Typed'
      BY <1>1, <2>1, <2>4, <3>1 DEF Typed, Tills
    <3>3. \A j \in Sales : till'[j] = "receipted" => till[j] = "receipted"
      BY <1>1, <2>1, <3>1 DEF Typed
    <3> QED BY <2>1, <2>4, <2>5, <3>1, <3>2, <3>3, StepKeeps DEF PutBack
  <2> QED BY <2>6, <2>7
<1> QED BY <1>2, <1>3, <1>4 DEF Till

LEMMA ReplayKeeps ==
  ASSUME IInv, Replay
  PROVE  IInv' /\ PutBack
<1>1. Typed /\ OkIsRecorded /\ PassesAreSafe
  BY DEF IInv
<1>2. ASSUME NEW t \in Tabs, ReplayBegin(t) \/ ReplayEnd(t) PROVE IInv' /\ PutBack
  <2>1. UNCHANGED <<rows, till, queue, calls>> /\ tab[t] \in Tab
    BY <1>1, <1>2 DEF ReplayBegin, ReplayEnd, Typed
  <2>2. PICK row \in {Pass(tab[t], DeviceOf[t]), [tab[t] EXCEPT !.replaying = FALSE]} :
          tab' = [tab EXCEPT ![t] = row]
    BY <1>2 DEF ReplayBegin, ReplayEnd
  <2>3. row \in Tab /\ row.todo \subseteq tab[t].todo \cup Queued(DeviceOf[t])
    <3>1. CASE row = Pass(tab[t], DeviceOf[t])
      BY <2>1, <3>1 DEF Pass, Tab, Queued
    <3>2. CASE row = [tab[t] EXCEPT !.replaying = FALSE]
      BY <2>1, <3>2 DEF Tab
    <3> QED BY <2>2, <3>1, <3>2
  <2>4. \A s \in Tabs : tab'[s] \in Tab /\ tab'[s].todo \subseteq tab[s].todo \cup Queued(DeviceOf[s])
    BY <1>1, <2>2, <2>3 DEF Typed
  <2>5. Typed'
    BY <1>1, <2>1, <2>2, <2>4 DEF Typed
  <2> QED BY <1>1, <2>1, <2>4, <2>5, StepKeeps DEF PutBack, OkIsRecorded
<1>3. ASSUME NEW t \in Tabs, ReplaySend(t) PROVE IInv' /\ PutBack
  <2>1. PICK i \in tab[t].todo :
          /\ tab' = [tab EXCEPT ![t].todo = @ \ {i}]
          /\ Send(i, t, "replay", tab[t].token /\ tab[t].own)
    BY <1>3 DEF ReplaySend, InOrder
  <2> DEFINE request == [sale |-> i, tab |-> t, for |-> "replay",
                         authorised |-> tab[t].token /\ tab[t].own, at |-> "sent"]
  <2>2. calls' = calls \cup {request} /\ UNCHANGED <<rows, till, queue>>
    BY <1>3, <2>1 DEF ReplaySend, Send
  <2>3. i \in Sales /\ (tab[t].token /\ tab[t].own) \in BOOLEAN
    BY <1>1 DEF Typed, Tab
  <2>4. request \in Call /\ request.sale = i /\ request.tab = t /\ request.at = "sent"
    BY <2>3 DEF Call
  <2> HIDE DEF request
  <2>5. \A s \in Tabs : tab'[s] \in Tab /\ tab'[s].todo \subseteq tab[s].todo
    <3> DEFINE row == [tab[t] EXCEPT !.todo = @ \ {i}]
    <3>1. row \in Tab /\ row.todo \subseteq tab[t].todo
      BY <1>1 DEF Typed, Tab
    <3>2. tab' = [tab EXCEPT ![t] = row]
      BY <2>1
    <3> HIDE DEF row
    <3> QED BY <1>1, <3>1, <3>2 DEF Typed
  <2>6. Typed'
    BY <1>1, <2>1, <2>2, <2>4, <2>5 DEF Typed
  <2>7. \A e \in calls' : e.at = "ok" => rows'[e.sale] = 1
    BY <1>1, <2>2, <2>4 DEF OkIsRecorded
  <2>8. \A e \in calls' : e.for = "replay" /\ e.tab # Nobody =>
          \/ \E f \in calls : f.sale = e.sale /\ f.for = "replay" /\ f.tab = e.tab
          \/ e.sale \in tab[e.tab].todo
    BY <2>1, <2>2, <2>4
  <2> QED BY <2>2, <2>5, <2>6, <2>7, <2>8, StepKeeps DEF PutBack
<1>4. ASSUME NEW c \in calls, ReplayDone(c) \/ ReplayRefused(c) \/ ReplayLost(c) PROVE IInv' /\ PutBack
  <2>1. /\ c.sale \in Sales /\ c.tab \in Tabs /\ c.tab # Nobody /\ c.for = "replay" /\ UNCHANGED <<rows, till, tab>>
        /\ calls' \subseteq calls \cup Orphans({c})
    BY <1>1, <1>4, CallType DEF ReplayDone, ReplayRefused, ReplayLost
  <2>2. \A e \in Orphans({c}) : e.tab = Nobody /\ e.at \in {"sent", "body"} /\ e \in Call
    BY <1>1, OrphanType
  <2>3. calls' \in SUBSET Call /\ \A e \in calls' : e.at = "ok" => rows'[e.sale] = 1
    BY <1>1, <2>1, <2>2 DEF Typed, OkIsRecorded
  <2>4. \A e \in calls' : e.for = "replay" /\ e.tab # Nobody =>
          \E f \in calls : f.sale = e.sale /\ f.for = "replay" /\ f.tab = e.tab
    BY <2>1, <2>2
  <2>5. PICK status \in {"absent", "NEEDS_REVIEW"} :
          Put(c.tab, c.sale, status) /\ (status = "absent" => rows[c.sale] = 1)
    BY <1>1, <1>4 DEF ReplayDone, ReplayRefused, ReplayLost, OkIsRecorded
  <2>6. queue' \in [Devices -> [Sales -> Status]]
        /\ \A d \in Devices, j \in Sales :
             queue'[d][j] = IF d = DeviceOf[c.tab] /\ j = c.sale THEN status ELSE queue[d][j]
    BY <1>1, <2>1, <2>5, PutEffect DEF Status
  <2>7. Typed'
    BY <1>1, <2>1, <2>3, <2>6 DEF Typed
  <2>8. \A d \in Devices, i \in Sales :
          queue[d][i] # "absent" => queue'[d][i] # "absent" \/ rows[i] = 1
    BY <2>5, <2>6
  <2>9. PutBack
    <3>1. c.sale \in Queued(DeviceOf[c.tab]) \/ rows[c.sale] = 1
      BY <1>1, <2>1 DEF PassesAreSafe
    <3> QED BY <2>6, <3>1 DEF PutBack, Queued
  <2> QED BY <2>1, <2>3, <2>4, <2>7, <2>8, <2>9, StepKeeps
<1> QED BY <1>2, <1>3, <1>4 DEF Replay

\* Closing, and leaving the page, change tabs, and give up calls in a reload.
CallsGivenUp ==
  /\ calls' \in SUBSET Call
  /\ \A c \in calls' : c \in calls \/ (c.tab = Nobody /\ c.at # "ok")

ReceiptsRemain ==
  /\ till' \in [Sales -> Tills]
  /\ \A i \in Sales : till'[i] = "receipted" => till[i] = "receipted"

PassesRead ==
  /\ tab' \in [Tabs -> Tab]
  /\ \A t \in Tabs : tab'[t].todo \subseteq tab[t].todo \cup Queued(DeviceOf[t])

LEMMA TabsKeep ==
  ASSUME IInv, rows' = rows, queue' = queue, CallsGivenUp, ReceiptsRemain, PassesRead
  PROVE  IInv' /\ PutBack
<1>1. Typed'
  BY DEF IInv, Typed, CallsGivenUp, ReceiptsRemain, PassesRead
<1>2. \A c \in calls' : c.at = "ok" => rows'[c.sale] = 1
  BY DEF IInv, OkIsRecorded, CallsGivenUp
<1>3. \A c \in calls' : c.for = "replay" /\ c.tab # Nobody =>
        \E e \in calls : e.sale = c.sale /\ e.for = "replay" /\ e.tab = c.tab
  BY DEF CallsGivenUp
<1>4. /\ \A i \in Sales : rows[i] = 1 => rows'[i] = 1
      /\ \A d \in Devices, i \in Sales : queue[d][i] # "absent" => queue'[d][i] # "absent"
  OBVIOUS
<1>5. \A i \in Sales : till'[i] = "receipted" => till[i] = "receipted"
  BY DEF ReceiptsRemain
<1>6. \A t \in Tabs : tab'[t].todo \subseteq tab[t].todo \cup Queued(DeviceOf[t])
  BY DEF PassesRead
<1> QED BY <1>1, <1>2, <1>3, <1>4, <1>5, <1>6, StepKeeps DEF PutBack

LEMMA CloseKeeps ==
  ASSUME IInv, Close
  PROVE  IInv' /\ PutBack
<1>0. rows' = rows /\ queue' = queue /\ till' = till /\ calls' = calls
  BY DEF Close, AutoClose, CloseBegin, CloseCheck, CloseShift
<1>1. CallsGivenUp /\ ReceiptsRemain
  BY <1>0 DEF IInv, Typed, CallsGivenUp, ReceiptsRemain
<1>2. CASE AutoClose
  <2>1. PassesRead
    BY <1>2 DEF AutoClose, IInv, Typed, PassesRead
  <2> QED BY <1>0, <1>1, <2>1, TabsKeep
<1>3. ASSUME NEW t \in Tabs, CloseBegin(t) \/ CloseCheck(t) \/ CloseShift(t)
      PROVE  PassesRead
  <2>1. tab[t] \in Tab
    BY DEF IInv, Typed
  <2>2. PICK row \in Tab : tab' = [tab EXCEPT ![t] = row]
                           /\ row.todo \subseteq tab[t].todo \cup Queued(DeviceOf[t])
    <3>1. CASE CloseBegin(t)
      <4> DEFINE waits == [tab[t] EXCEPT !.closing = "sync", !.awaits = ~tab[t].replaying]
      <4>1. waits \in Tab /\ waits.todo = tab[t].todo
        BY <2>1 DEF Tab
      <4> HIDE DEF waits
      <4>2. Pass(waits, DeviceOf[t]) \in Tab /\ Pass(waits, DeviceOf[t]).todo = Queued(DeviceOf[t])
        BY <4>1 DEF Pass, Tab, Queued
      <4>3. tab' = [tab EXCEPT ![t] = IF waits.awaits THEN Pass(waits, DeviceOf[t]) ELSE waits]
        BY <3>1 DEF CloseBegin, waits
      <4> QED BY <4>1, <4>2, <4>3
    <3>2. CASE CloseCheck(t)
      <4> DEFINE next == IF Queued(DeviceOf[t]) = {} THEN "close" ELSE "no"
      <4>1. tab' = [tab EXCEPT ![t] = [tab[t] EXCEPT !.closing = next]] /\ next \in {"no", "sync", "close"}
        BY <3>2 DEF CloseCheck, IInv, Typed
      <4> HIDE DEF next
      <4> DEFINE row == [tab[t] EXCEPT !.closing = next]
      <4>2. row \in Tab /\ row.todo = tab[t].todo
        BY <2>1, <4>1 DEF Tab
      <4> QED BY <4>1, <4>2
    <3>3. CASE CloseShift(t)
      <4>1. tab' = [tab EXCEPT ![t] = [tab[t] EXCEPT !.closing = "no", !.believes = FALSE]]
        BY <3>3 DEF CloseShift, IInv, Typed
      <4> DEFINE row == [tab[t] EXCEPT !.closing = "no", !.believes = FALSE]
      <4>2. row \in Tab /\ row.todo = tab[t].todo
        BY <2>1 DEF Tab
      <4> QED BY <4>1, <4>2
    <3> QED BY <1>3, <3>1, <3>2, <3>3
  <2> QED BY <2>2 DEF IInv, Typed, PassesRead
<1>4. CASE \E t \in Tabs : CloseBegin(t) \/ CloseCheck(t) \/ CloseShift(t)
  BY <1>0, <1>1, <1>3, <1>4, TabsKeep
<1> QED BY <1>2, <1>4 DEF Close

LEMMA LeaveKeeps ==
  ASSUME IInv, Leave
  PROVE  IInv' /\ PutBack
<1> PICK t \in Tabs : Reload(t) \/ Restore(t) \/ RestoreOffline(t) \/ SignIn(t) \/ Expire(t)
  BY DEF Leave
<1>1. UNCHANGED <<rows, queue>> /\ tab[t] \in Tab /\ Typed
  BY DEF Reload, Restore, RestoreOffline, SignIn, Expire, IInv, Typed
<1>2. PICK row \in Tab : tab' = [tab EXCEPT ![t] = row] /\ row.todo \subseteq tab[t].todo
  <2>0. (shift = "OPEN") \in BOOLEAN
    OBVIOUS
  <2>1. CASE Reload(t)
    <3> DEFINE row == [tab[t] EXCEPT !.up = FALSE, !.replaying = FALSE, !.todo = {},
                                     !.closing = "no", !.awaits = FALSE]
    <3>1. row \in Tab /\ row.todo \subseteq tab[t].todo
      BY <1>1 DEF Tab
    <3>2. tab' = [tab EXCEPT ![t] = row]
      BY <1>1, <2>1 DEF Reload, Typed
    <3> QED BY <3>1, <3>2
  <2>2. CASE Restore(t)
    <3> DEFINE row == [tab[t] EXCEPT !.up = TRUE, !.token = TRUE, !.believes = (shift = "OPEN")]
    <3>1. row \in Tab /\ row.todo \subseteq tab[t].todo
      BY <1>1, <2>0 DEF Tab
    <3>2. tab' = [tab EXCEPT ![t] = row]
      BY <1>1, <2>2 DEF Restore, Typed
    <3> QED BY <3>1, <3>2
  <2>3. CASE RestoreOffline(t)
    <3> DEFINE row == [tab[t] EXCEPT !.up = TRUE, !.token = FALSE]
    <3>1. row \in Tab /\ row.todo \subseteq tab[t].todo
      BY <1>1 DEF Tab
    <3>2. tab' = [tab EXCEPT ![t] = row]
      BY <1>1, <2>3 DEF RestoreOffline, Typed
    <3> QED BY <3>1, <3>2
  <2>4. CASE SignIn(t)
    <3>1. PICK own \in BOOLEAN :
            tab' = [tab EXCEPT ![t] = [up |-> TRUE, believes |-> shift = "OPEN", own |-> own,
                                       token |-> TRUE, replaying |-> FALSE, todo |-> {},
                                       closing |-> "no", awaits |-> FALSE]]
      BY <2>4 DEF SignIn
    <3> DEFINE row == [up |-> TRUE, believes |-> shift = "OPEN", own |-> own, token |-> TRUE,
                       replaying |-> FALSE, todo |-> {}, closing |-> "no", awaits |-> FALSE]
    <3>2. row \in Tab /\ row.todo \subseteq tab[t].todo
      BY <2>0 DEF Tab
    <3> QED BY <3>1, <3>2
  <2>5. CASE Expire(t)
    <3> DEFINE row == [tab[t] EXCEPT !.token = FALSE]
    <3>1. row \in Tab /\ row.todo \subseteq tab[t].todo
      BY <1>1 DEF Tab
    <3>2. tab' = [tab EXCEPT ![t] = row]
      BY <1>1, <2>5 DEF Expire, Typed
    <3> QED BY <3>1, <3>2
  <2> QED BY <2>1, <2>2, <2>3, <2>4, <2>5
<1>3. PassesRead /\ rows' = rows /\ queue' = queue /\ IInv
  BY <1>1, <1>2 DEF Typed, PassesRead
<1>4. CASE Reload(t)
  <2> DEFINE mine == {c \in calls : c.tab = t}
  <2>1. calls' = (calls \ mine) \cup Orphans(mine) /\ mine \in SUBSET calls
    BY <1>4 DEF Reload
  <2>2. till' = [i \in Sales |-> IF \E c \in mine : c.for = "till" /\ c.sale = i
                                 THEN "refused" ELSE till[i]]
    BY <1>4 DEF Reload
  <2> HIDE DEF mine
  <2>3. \A e \in Orphans(mine) : e.tab = Nobody /\ e.at \in {"sent", "body"} /\ e \in Call
    BY <1>1, <2>1, OrphanType
  <2>4. ReceiptsRemain
    BY <1>1, <2>2 DEF Typed, Tills, ReceiptsRemain
  <2>5. CallsGivenUp
    <3>1. \A c \in calls' : c \in calls \/ c \in Orphans(mine)
      BY <2>1
    <3>2. \A c \in calls : c \in Call
      BY <1>1 DEF Typed
    <3>3. \A c \in calls' : c \in Call
      BY <2>3, <3>1, <3>2
    <3>4. \A c \in calls' : c \in calls \/ (c.tab = Nobody /\ c.at # "ok")
      BY <2>3, <3>1
    <3> QED BY <3>3, <3>4 DEF CallsGivenUp
  <2> QED BY <1>3, <2>4, <2>5, TabsKeep
<1>5. CASE ~Reload(t)
  <2>1. till' = till /\ calls' = calls
    BY <1>5 DEF Restore, RestoreOffline, SignIn, Expire
  <2>2. CallsGivenUp /\ ReceiptsRemain
    BY <1>1, <2>1 DEF Typed, CallsGivenUp, ReceiptsRemain
  <2> QED BY <1>3, <2>2, TabsKeep
<1> QED BY <1>4, <1>5

LEMMA Step ==
  ASSUME IInv, [Next]_vars
  PROVE  IInv' /\ PutBack
<1>1. CASE UNCHANGED vars
  <2>1. IInv'
    BY <1>1 DEF vars, IInv, Typed, OkIsRecorded, PassesAreSafe, ReceiptsKept, Queued
  <2> QED BY <1>1, <2>1 DEF vars, PutBack
<1>2. CASE Server
  BY <1>2, ServerKeeps DEF PutBack
<1> QED BY <1>1, <1>2, TillKeeps, ReplayKeeps, CloseKeeps, LeaveKeeps DEF Next

LEMMA Invariant == Spec => []IInv
<1>1. Init => IInv
  BY Start
<1>2. IInv /\ [Next]_vars => IInv'
  BY Step
<1> QED BY <1>1, <1>2, PTL DEF Spec

\* Retries, orphans of calls given up, reloads and passes of any number of tabs
\* never make a second sale of an id (the look-up and the unique key of offlineId).
THEOREM NeverTwice == Spec => []OneSalePerId
<1>1. IInv => OneSalePerId
  BY DEF IInv, Typed, OneSalePerId
<1> QED BY <1>1, Invariant, PTL

\* A sale with a receipt is never lost (queueOfflineSale, replayOfflineSales).
THEOREM NeverLost == Spec => []ReceiptsKept
<1>1. IInv => ReceiptsKept
  BY DEF IInv
<1> QED BY <1>1, Invariant, PTL

\* When a pass puts back an entry that another pass has taken off, its sale is on
\* the server (replayOfflineSales in two tabs of one device).
THEOREM PutBackIsHarmless == Spec => PutBackWasRecorded
<1>1. IInv /\ [Next]_vars => [PutBack]_vars
  BY Step
<1>2. Spec => [][PutBack]_vars
  <2> HIDE DEF PutBack
  <2> QED BY <1>1, Invariant, PTL DEF Spec
<1> QED BY <1>2 DEF PutBackWasRecorded, PutBack

-----------------------------------------------------------------------------
(* The cart.                                                               *)

\* Discounts as they are typed, or none.
Discount ==
  {NoDiscount} \cup [type : {"PERCENTAGE"}, value : 1 .. 100, quantity : Nat]
               \cup [type : {"FIXED"}, value : Nat, quantity : Nat]

Line == [id : Nat, item : Items, tariff : 1 .. Len(Tariffs), quantity : Nat, discount : Discount]

\* A fixed discount is no more than the line it is on.
Fits(l) == l.discount.type = "FIXED" => l.discount.value * Cent <= LineGross(l)

-----------------------------------------------------------------------------
(* What a line comes to.                                                   *)

LEMMA DiscountCases ==
  ASSUME NEW x \in Discount
  PROVE  /\ x.value \in Nat
         /\ \/ x.type = "NONE" /\ x.value = 0
            \/ x.type = "PERCENTAGE" /\ x.value \in 1 .. 100
            \/ x.type = "FIXED"
<1>1. CASE x = NoDiscount
  BY <1>1 DEF NoDiscount
<1>2. CASE x \in [type : {"PERCENTAGE"}, value : 1 .. 100, quantity : Nat]
  BY <1>2
<1>3. CASE x \in [type : {"FIXED"}, value : Nat, quantity : Nat]
  BY <1>3
<1> QED BY <1>1, <1>2, <1>3 DEF Discount

LEMMA PricesAreNat ==
  ASSUME NEW l \in Line
  PROVE  Price(l) \in Nat
<1>1. l.tariff \in 1 .. Len(Tariffs) /\ l.item \in Items
  BY DEF Line
<1>2. Tariffs[l.tariff] \in [Items -> [price : Nat \ {0}, cost : Nat]]
  BY <1>1, TariffDomain
<1>3. Tariffs[l.tariff][l.item] \in [price : Nat \ {0}, cost : Nat]
  BY <1>1, <1>2
<1> QED BY <1>3 DEF Price

\* A line's price is in hundredths of a millionth of a cent.
LEMMA GrossIsWhole ==
  ASSUME NEW l \in Line
  PROVE  \E p \in Nat : LineGross(l) = 100 * p /\ LineGross(l) \div 100 = p
<1> DEFINE p == Price(l) * l.quantity
<1>1. Price(l) \in Nat /\ l.quantity \in Nat
  BY PricesAreNat DEF Line
<1>2. p \in Nat
  BY <1>1
<1>3. LineGross(l) = 100 * p
  BY <1>1 DEF LineGross
<1>4. (100 * p) \div 100 = p
  <2> HIDE DEF p
  <2> QED BY <1>2
<1> QED BY <1>2, <1>3, <1>4

\* The four amounts of a line, by the kind of its discount: p is the price of the
\* line in hundredths of a millionth of a cent, G and D what the server makes of it.
LEMMA LineAmounts ==
  ASSUME NEW l \in Line
  PROVE  /\ LineGross(l) \in Nat /\ GrossCents(l) \in Nat
         /\ DiscountAmount(l) \in 0 .. LineGross(l) /\ DiscountCents(l) \in Nat
         /\ Roundings(l) \in Nat
<1>1. PICK p \in Nat : LineGross(l) = 100 * p /\ LineGross(l) \div 100 = p
  BY GrossIsWhole
<1>2. LineGross(l) \in Nat /\ GrossCents(l) \in Nat
  BY <1>1 DEF GrossCents, Cent
<1>3. Roundings(l) \in Nat
  BY DEF Roundings
<1>4. CASE l.discount = NoDiscount
  BY <1>2, <1>3, <1>4 DEF DiscountAmount, DiscountCents, NoDiscount, Least, Cent
<1>5. CASE l.discount.type = "FIXED" /\ l.discount.value \in Nat
  BY <1>2, <1>3, <1>5 DEF DiscountAmount, DiscountCents, Least, Cent
<1>6. CASE l.discount.type = "PERCENTAGE" /\ l.discount.value \in 1 .. 100
  <2>1. p * l.discount.value \in 0 .. 100 * p
    BY <1>6
  <2>2. GrossCents(l) * l.discount.value \in Nat
    BY <1>2, <1>6
  <2>3. DiscountCents(l) = (2 * (GrossCents(l) * l.discount.value) + 100) \div 200
    BY <1>2, <1>6 DEF DiscountCents
  <2>4. DiscountCents(l) \in Nat
    BY <2>2, <2>3
  <2> QED BY <1>1, <1>2, <1>3, <1>6, <2>1, <2>4 DEF DiscountAmount
<1> QED BY <1>4, <1>5, <1>6 DEF Line, Discount

\* What the server's rounding of a gross of 100 p and of a percentage v of it
\* comes to: at most half a cent each.
LEMMA PercentageRounded ==
  ASSUME NEW p \in Nat, NEW v \in 1 .. 100, NEW G \in Nat, NEW D \in Nat,
         G = (100 * p + 500000) \div 1000000, D = (2 * G * v + 100) \div 200,
         NEW e, e = 1000000 * G - 100 * p,
         NEW d, d = 1000000 * (G - D) - (100 * p - p * v)
  PROVE  /\ e \in Int /\ -500000 <= e /\ e <= 500000
         /\ d \in Int /\ -1000000 < d /\ d < 1000000
         /\ e = 0 => -500000 <= d /\ d <= 500000
<1>1. e \in Int /\ -500000 <= e /\ e <= 500000
  OBVIOUS
<1> DEFINE w == e * v
<1>2. w \in Int /\ (e = 0 => w = 0)
  BY <1>1
<1>3. G * v \in Nat /\ p * v \in Int
  OBVIOUS
<1>4. 1000000 * (G * v) = 100 * (p * v) + w
  BY <1>1
<1>5. 200 * D <= 2 * (G * v) + 100 /\ 2 * (G * v) + 100 < 200 * D + 200
  <2>1. 2 * G * v = 2 * (G * v)
    OBVIOUS
  <2> QED BY <1>3, <2>1
<1>6. -49500000 <= 100 * e - w /\ 100 * e - w <= 49500000
  <2> DEFINE x == 100 - v
  <2>1. x \in Nat /\ x <= 99 /\ 100 * e - w = e * x
    BY <1>1
  <2> HIDE DEF x, w
  <2>2. x * (500000 - e) >= 0 /\ x * (500000 + e) >= 0
    BY <1>1, <2>1
  <2>3. x * (500000 - e) = 500000 * x - e * x /\ x * (500000 + e) = 500000 * x + e * x
    BY <1>1, <2>1
  <2>4. e * x \in Int
    BY <1>1, <2>1
  <2> QED BY <2>1, <2>2, <2>3, <2>4
<1>7. d \in Int /\ 200 * d = 200 * e - 1000000 * (200 * D) + 200 * (p * v)
  BY <1>3
<1>8. /\ -199000000 <= 200 * d /\ 200 * d <= 199000000
      /\ e = 0 => -100000000 <= 200 * d /\ 200 * d <= 100000000
  <2> DEFINE a == p * v
  <2> DEFINE b == G * v
  <2>1. /\ a \in Int /\ b \in Int /\ 1000000 * b = 100 * a + w
        /\ 200 * D <= 2 * b + 100 /\ 2 * b + 100 < 200 * D + 200
        /\ 200 * d = 200 * e - 1000000 * (200 * D) + 200 * a
    BY <1>3, <1>4, <1>5, <1>7
  <2> HIDE DEF a, b, w
  <2> QED BY <1>1, <1>2, <1>6, <1>7, <2>1
<1> QED BY <1>1, <1>7, <1>8

Half == Cent \div 2

\* The server's amount of a line is within the roundings it makes of the till's.
LEMMA LineRounded ==
  ASSUME NEW l \in Line, CanDiscount(l),
         NEW d, d = Cent * (GrossCents(l) - DiscountCents(l)) - (LineGross(l) - DiscountAmount(l))
  PROVE  /\ d \in Int
         /\ -(Half * Roundings(l)) <= d /\ d <= Half * Roundings(l)
         /\ ~Fractional(l) /\ Fits(l) => d = 0
<1>0. Half = 500000
  BY DEF Half, Cent
<1>1. PICK p \in Nat : LineGross(l) = 100 * p /\ LineGross(l) \div 100 = p
  BY GrossIsWhole
<1>2. /\ GrossCents(l) \in Nat /\ GrossCents(l) = (100 * p + 500000) \div 1000000
      /\ DiscountAmount(l) \in Int /\ DiscountCents(l) \in Nat
  BY <1>1, LineAmounts DEF GrossCents, Cent
<1> DEFINE G == GrossCents(l)
<1> DEFINE v == l.discount.value
<1> DEFINE e == 1000000 * G - 100 * p
<1>3. e \in Int /\ -500000 <= e /\ e <= 500000 /\ (WholeCents(100 * p) => e = 0)
  BY <1>2 DEF WholeCents, Cent
<1>4. d \in Int
  BY <1>1, <1>2 DEF Cent
<1>5. CASE l.discount.type \in {"NONE", "FIXED"} /\ v \in Nat /\ (l.discount.type = "NONE" => v = 0)
  <2>1. DiscountAmount(l) = IF 100 * p < v * 1000000 THEN 100 * p ELSE v * 1000000
    BY <1>1, <1>5 DEF DiscountAmount, Least, Cent
  <2>2. DiscountCents(l) = v /\ v <= G
    BY <1>2, <1>5 DEF DiscountCents, CanDiscount
  <2>3. Roundings(l) = IF WholeCents(100 * p) THEN 0 ELSE 1
    BY <1>1, <1>5 DEF Roundings
  <2>4. d = IF 100 * p < v * 1000000 THEN 1000000 * (G - v) ELSE e
    BY <1>1, <1>2, <1>5, <2>1, <2>2 DEF Cent
  <2>5. 100 * p < v * 1000000 => d = 0
    BY <1>2, <1>3, <1>4, <1>5, <2>2, <2>4
  <2>6. ~Fractional(l) /\ Fits(l) => d = 0
    <3> SUFFICES ASSUME ~Fractional(l), Fits(l), ~(100 * p < v * 1000000) PROVE d = 0
      BY <2>5
    <3>1. WholeCents(100 * p - v * 1000000)
      BY <1>1, <2>1 DEF Fractional
    <3>2. (100 * p) % 1000000 = 0
      BY <1>5, <3>1 DEF WholeCents, Cent
    <3> QED BY <1>3, <2>4, <3>2 DEF WholeCents, Cent
  <2> QED BY <1>0, <1>3, <1>4, <2>3, <2>4, <2>5, <2>6
<1>6. CASE l.discount.type = "PERCENTAGE" /\ v \in 1 .. 100
  <2>1. DiscountAmount(l) = p * v
    BY <1>1, <1>6 DEF DiscountAmount
  <2>2. DiscountCents(l) = (2 * G * v + 100) \div 200
    BY <1>6 DEF DiscountCents
  <2>3. Roundings(l) = IF WholeCents(100 * p) THEN 1 ELSE 2
    BY <1>1, <1>6 DEF Roundings
  <2>4. d = 1000000 * (G - DiscountCents(l)) - (100 * p - p * v)
    BY <1>1, <2>1 DEF Cent
  <2>5. /\ -1000000 < d /\ d < 1000000
        /\ e = 0 => -500000 <= d /\ d <= 500000
    <3> HIDE DEF G, v
    <3> DEFINE D == DiscountCents(l)
    <3>1. p \in Nat /\ v \in 1 .. 100 /\ G \in Nat /\ D \in Nat /\ G = (100 * p + 500000) \div 1000000
          /\ D = (2 * G * v + 100) \div 200 /\ d = 1000000 * (G - D) - (100 * p - p * v)
      BY <1>2, <1>6, <2>2, <2>4 DEF G
    <3> HIDE DEF D
    <3> QED BY <3>1, PercentageRounded
  <2>6. ~Fractional(l) => d = 0
    <3> SUFFICES ASSUME ~Fractional(l) PROVE d = 0
      OBVIOUS
    <3> DEFINE a == p * v
    <3>1. a \in Int
      BY <1>6
    <3> HIDE DEF a
    <3>2. (100 * p - a) % 1000000 = 0
      BY <1>1, <2>1 DEF Fractional, WholeCents, Cent, a
    <3>3. d = 1000000 * (G - DiscountCents(l)) - (100 * p - a)
      BY <2>4 DEF a
    <3>4. d % 1000000 = 0
      BY <1>2, <3>1, <3>2, <3>3
    <3> QED BY <1>4, <2>5, <3>4
  <2> QED BY <1>0, <1>3, <1>4, <2>3, <2>5, <2>6
<1>7. l.discount \in Discount
  BY DEF Line
<1>8. v \in Nat /\ \/ l.discount.type = "NONE" /\ v = 0
                   \/ l.discount.type = "PERCENTAGE" /\ v \in 1 .. 100
                   \/ l.discount.type = "FIXED"
  BY <1>7, DiscountCases
<1> QED BY <1>5, <1>6, <1>8

\* A line that fits its discount when unrounded fits it when rounded.
LEMMA FitsRounded ==
  ASSUME NEW l \in Line, Fits(l)
  PROVE  CanDiscount(l)
<1>1. LineGross(l) \in Nat
  BY LineAmounts
<1>2. CASE l.discount.type = "FIXED"
  <2>0. l.discount \in Discount
    BY DEF Line
  <2>1. l.discount.value \in Nat
    BY <2>0, DiscountCases
  <2> QED BY <1>1, <1>2, <2>1 DEF Fits, CanDiscount, GrossCents, Cent
<1> QED BY <1>2 DEF CanDiscount

-----------------------------------------------------------------------------
(* What a cart comes to.                                                   *)

LEMMA SumScaled ==
  ASSUME NEW n \in Nat, NEW f \in [1 .. n -> Int], NEW g \in [1 .. n -> Int], NEW m \in Int,
         \A k \in 1 .. n : g[k] = m * f[k]
  PROVE  SumOf(g, n) = m * SumOf(f, n)
<1> DEFINE F == PartialSums(f, n)
<1> DEFINE H == PartialSums(g, n)
<1> DEFINE S == {k \in Nat : k <= n => H[k] = m * F[k]}
<1>0. /\ F[0] = 0 /\ H[0] = 0
      /\ \A k \in 1 .. n : F[k] = F[k - 1] + f[k]
      /\ \A k \in 1 .. n : H[k] = H[k - 1] + g[k]
  BY PartialSumsEquation
<1>t. \A k \in 0 .. n : F[k] \in Int /\ H[k] \in Int
  BY PartialSumsType
<1> HIDE DEF F, H
<1>1. 0 \in S
  BY <1>0
<1>2. \A k \in Nat : k \in S => k + 1 \in S
  <2> SUFFICES ASSUME NEW k \in Nat, k \in S, k + 1 <= n PROVE H[k + 1] = m * F[k + 1]
    OBVIOUS
  <2>1. k + 1 \in 1 .. n /\ k \in 0 .. n /\ (k + 1) - 1 = k
    OBVIOUS
  <2>2. F[k + 1] = F[k] + f[k + 1] /\ H[k + 1] = H[k] + g[k + 1]
    BY <1>0, <2>1
  <2>3. H[k] = m * F[k]
    BY <2>1
  <2>4. g[k + 1] = m * f[k + 1] /\ f[k + 1] \in Int /\ F[k] \in Int
    BY <1>t, <2>1
  <2>5. m * (F[k] + f[k + 1]) = m * F[k] + m * f[k + 1]
    BY <2>4
  <2> QED BY <2>2, <2>3, <2>4, <2>5
<1> HIDE DEF S
<1>3. Nat \subseteq S
  BY <1>1, <1>2, NatSetInduction
<1> QED BY <1>3 DEF S, F, H, SumOf

LEMMA SumLeq ==
  ASSUME NEW n \in Nat, NEW f \in [1 .. n -> Int], NEW g \in [1 .. n -> Int],
         \A k \in 1 .. n : f[k] <= g[k]
  PROVE  SumOf(f, n) <= SumOf(g, n)
<1> DEFINE h == [k \in 1 .. n |-> g[k] - f[k]]
<1>1. h \in [1 .. n -> Nat] /\ h \in [1 .. n -> Int] /\ \A k \in 1 .. n : g[k] = f[k] + h[k]
  OBVIOUS
<1> HIDE DEF h
<1>2. SumOf(g, n) = SumOf(f, n) + SumOf(h, n)
  BY <1>1, SumAdd, ZenonT(30)
<1>3. SumOf(h, n) \in Nat /\ SumOf(f, n) \in Int
  BY <1>1, SumBounds, SumType
<1> QED BY <1>2, <1>3

\* What each line counts at the till, at the server, and in roundings.
Shown(ls) == [i \in DOMAIN ls |-> LineGross(ls[i]) - DiscountAmount(ls[i])]
Sold(ls)  == [i \in DOMAIN ls |-> GrossCents(ls[i]) - DiscountCents(ls[i])]
Slack(ls) == [i \in DOMAIN ls |-> Roundings(ls[i])]

LEMMA CartAmounts ==
  ASSUME NEW ls \in Seq(Line)
  PROVE  /\ Len(ls) \in Nat /\ DOMAIN ls = 1 .. Len(ls)
         /\ Shown(ls) \in [1 .. Len(ls) -> Int] /\ Sold(ls) \in [1 .. Len(ls) -> Int]
         /\ Slack(ls) \in [1 .. Len(ls) -> Int]
         /\ Total(ls) = SumOf(Shown(ls), Len(ls)) /\ Total(ls) \in Int
         /\ GrandTotal(ls) = SumOf(Sold(ls), Len(ls)) /\ GrandTotal(ls) \in Int
         /\ SlackOf(ls) = SumOf(Slack(ls), Len(ls)) /\ SlackOf(ls) \in Int
<1>1. Len(ls) \in Nat /\ DOMAIN ls = 1 .. Len(ls) /\ \A i \in 1 .. Len(ls) : ls[i] \in Line
  OBVIOUS
<1>2. ASSUME NEW i \in 1 .. Len(ls)
      PROVE  /\ LineGross(ls[i]) - DiscountAmount(ls[i]) \in Int
             /\ GrossCents(ls[i]) - DiscountCents(ls[i]) \in Int /\ Roundings(ls[i]) \in Int
  <2>1. ls[i] \in Line
    BY <1>1, Zenon
  <2> QED BY <2>1, LineAmounts
<1>3. Shown(ls) \in [1 .. Len(ls) -> Int] /\ Sold(ls) \in [1 .. Len(ls) -> Int]
      /\ Slack(ls) \in [1 .. Len(ls) -> Int]
  BY <1>1, <1>2 DEF Shown, Sold, Slack
<1>4. Total(ls) = SumOf(Shown(ls), Len(ls)) /\ GrandTotal(ls) = SumOf(Sold(ls), Len(ls))
      /\ SlackOf(ls) = SumOf(Slack(ls), Len(ls))
  BY DEF Total, GrandTotal, SlackOf, Shown, Sold, Slack
<1> QED BY <1>1, <1>3, <1>4, SumType

LEMMA TotalIsNat ==
  ASSUME NEW ls \in Seq(Line)
  PROVE  Total(ls) \in Nat
<1>1. Len(ls) \in Nat /\ DOMAIN ls = 1 .. Len(ls) /\ Total(ls) = SumOf(Shown(ls), Len(ls))
  BY CartAmounts
<1>2. ASSUME NEW i \in 1 .. Len(ls) PROVE LineGross(ls[i]) - DiscountAmount(ls[i]) \in Nat
  <2>1. ls[i] \in Line
    BY <1>1, SMTT(20)
  <2> QED BY <2>1, LineAmounts
<1>3. Shown(ls) \in [1 .. Len(ls) -> Nat]
  BY <1>1, <1>2 DEF Shown
<1> QED BY <1>1, <1>3, SumBounds

\* The server's total is within its roundings of the till's.
LEMMA TotalsAgree ==
  ASSUME NEW ls \in Seq(Line), \A i \in DOMAIN ls : CanDiscount(ls[i])
  PROVE  /\ Cent * GrandTotal(ls) <= Total(ls) + Half * SlackOf(ls)
         /\ Total(ls) <= Cent * GrandTotal(ls) + Half * SlackOf(ls)
<1> DEFINE n == Len(ls)
<1> DEFINE sold == [i \in 1 .. n |-> Cent * Sold(ls)[i]]
<1> DEFINE slack == [i \in 1 .. n |-> Half * Slack(ls)[i]]
<1> DEFINE high == [i \in 1 .. n |-> Shown(ls)[i] + slack[i]]
<1> DEFINE higher == [i \in 1 .. n |-> sold[i] + slack[i]]
<1>0. Cent \in Int /\ Half \in Int
  BY DEF Cent, Half
<1>1. /\ n \in Nat /\ DOMAIN ls = 1 .. n
      /\ Shown(ls) \in [1 .. n -> Int] /\ Sold(ls) \in [1 .. n -> Int] /\ Slack(ls) \in [1 .. n -> Int]
      /\ Total(ls) = SumOf(Shown(ls), n) /\ GrandTotal(ls) = SumOf(Sold(ls), n)
      /\ SlackOf(ls) = SumOf(Slack(ls), n)
  BY CartAmounts
<1>2. /\ sold \in [1 .. n -> Int] /\ slack \in [1 .. n -> Int]
      /\ high \in [1 .. n -> Int] /\ higher \in [1 .. n -> Int]
      /\ \A i \in 1 .. n : sold[i] = Cent * Sold(ls)[i]
      /\ \A i \in 1 .. n : slack[i] = Half * Slack(ls)[i]
      /\ \A i \in 1 .. n : high[i] = Shown(ls)[i] + slack[i]
      /\ \A i \in 1 .. n : higher[i] = sold[i] + slack[i]
  BY <1>0, <1>1
<1>3. ASSUME NEW i \in 1 .. n PROVE sold[i] <= high[i] /\ Shown(ls)[i] <= higher[i]
  <2>1. ls[i] \in Line /\ CanDiscount(ls[i])
    BY <1>1
  <2>2. /\ Sold(ls)[i] = GrossCents(ls[i]) - DiscountCents(ls[i])
        /\ Shown(ls)[i] = LineGross(ls[i]) - DiscountAmount(ls[i])
        /\ Slack(ls)[i] = Roundings(ls[i])
    BY <1>1 DEF Sold, Shown, Slack
  <2> DEFINE d == Cent * (GrossCents(ls[i]) - DiscountCents(ls[i]))
                    - (LineGross(ls[i]) - DiscountAmount(ls[i]))
  <2>3. /\ d \in Int /\ -(Half * Roundings(ls[i])) <= d /\ d <= Half * Roundings(ls[i])
    BY <2>1, LineRounded
  <2>4. d = sold[i] - Shown(ls)[i]
    BY <1>2, <2>2
  <2>5. slack[i] = Half * Roundings(ls[i]) /\ Roundings(ls[i]) \in Int
    BY <1>1, <1>2, <2>2
  <2>6. sold[i] \in Int /\ Shown(ls)[i] \in Int /\ high[i] = Shown(ls)[i] + slack[i]
        /\ higher[i] = sold[i] + slack[i]
    BY <1>1, <1>2
  <2>7. Half * Roundings(ls[i]) \in Int
    BY <1>0, <2>5
  <2> HIDE DEF d, sold, slack, high, higher
  <2> QED BY <2>3, <2>4, <2>5, <2>6, <2>7
<1> DEFINE shown == Shown(ls)
<1> DEFINE booked == Sold(ls)
<1> DEFINE rounding == Slack(ls)
<1>4. /\ shown \in [1 .. n -> Int] /\ booked \in [1 .. n -> Int] /\ rounding \in [1 .. n -> Int]
      /\ sold \in [1 .. n -> Int] /\ slack \in [1 .. n -> Int]
      /\ high \in [1 .. n -> Int] /\ higher \in [1 .. n -> Int] /\ n \in Nat
      /\ Total(ls) = SumOf(shown, n) /\ GrandTotal(ls) = SumOf(booked, n)
      /\ SlackOf(ls) = SumOf(rounding, n)
  BY <1>1, <1>2
<1>5. /\ \A i \in 1 .. n : sold[i] = Cent * booked[i]
      /\ \A i \in 1 .. n : slack[i] = Half * rounding[i]
      /\ \A i \in 1 .. n : high[i] = shown[i] + slack[i]
      /\ \A i \in 1 .. n : higher[i] = sold[i] + slack[i]
      /\ \A i \in 1 .. n : sold[i] <= high[i]
      /\ \A i \in 1 .. n : shown[i] <= higher[i]
  BY <1>2, <1>3
<1> HIDE DEF n, sold, slack, high, higher, shown, booked, rounding
<1>6. SumOf(sold, n) = Cent * SumOf(booked, n) /\ SumOf(slack, n) = Half * SumOf(rounding, n)
  BY <1>0, <1>4, <1>5, SumScaled, ZenonT(30)
<1>7. SumOf(high, n) = SumOf(shown, n) + SumOf(slack, n)
  <2>1. \A i \in 1 .. n : high[i] = shown[i] + slack[i]
    BY <1>5
  <2>2. /\ n \in Nat /\ high \in [1 .. n -> Int]
        /\ shown \in [1 .. n -> Int] /\ slack \in [1 .. n -> Int]
    BY <1>4
  <2> QED BY <2>1, <2>2, SumAdd
<1>8. SumOf(higher, n) = SumOf(sold, n) + SumOf(slack, n)
  <2>1. \A i \in 1 .. n : higher[i] = sold[i] + slack[i]
    BY <1>5
  <2>2. /\ n \in Nat /\ higher \in [1 .. n -> Int]
        /\ sold \in [1 .. n -> Int] /\ slack \in [1 .. n -> Int]
    BY <1>4
  <2> QED BY <2>1, <2>2, SumAdd
<1>9. SumOf(sold, n) <= SumOf(high, n) /\ SumOf(shown, n) <= SumOf(higher, n)
  BY <1>4, <1>5, SumLeq, ZenonT(30)
<1> QED BY <1>4, <1>6, <1>7, <1>8, <1>9

\* Without fractions of cents the server's total is the till's.
LEMMA WholeTotals ==
  ASSUME NEW ls \in Seq(Line), \A i \in DOMAIN ls : ~Fractional(ls[i]) /\ Fits(ls[i])
  PROVE  Cent * GrandTotal(ls) = Total(ls)
<1> DEFINE n == Len(ls)
<1>1. /\ n \in Nat /\ DOMAIN ls = 1 .. n
      /\ Shown(ls) \in [1 .. n -> Int] /\ Sold(ls) \in [1 .. n -> Int]
      /\ Total(ls) = SumOf(Shown(ls), n) /\ GrandTotal(ls) = SumOf(Sold(ls), n)
  BY CartAmounts
<1>2. ASSUME NEW i \in 1 .. n PROVE Shown(ls)[i] = Cent * Sold(ls)[i]
  <2>1. ls[i] \in Line /\ ~Fractional(ls[i]) /\ Fits(ls[i])
    BY <1>1
  <2> DEFINE d == Cent * (GrossCents(ls[i]) - DiscountCents(ls[i]))
                    - (LineGross(ls[i]) - DiscountAmount(ls[i]))
  <2>2. d = 0
    BY <2>1, FitsRounded, LineRounded
  <2>3. /\ Sold(ls)[i] = GrossCents(ls[i]) - DiscountCents(ls[i])
        /\ Shown(ls)[i] = LineGross(ls[i]) - DiscountAmount(ls[i])
    BY <1>1 DEF Sold, Shown
  <2>4. Sold(ls)[i] \in Int /\ Shown(ls)[i] \in Int
    BY <1>1
  <2>5. d = Cent * Sold(ls)[i] - Shown(ls)[i]
    BY <2>3
  <2> HIDE DEF d
  <2> QED BY <2>2, <2>4, <2>5, SMT DEF Cent
<1>3. Cent \in Int
  BY DEF Cent
<1> HIDE DEF n
<1> QED BY <1>1, <1>2, <1>3, SumScaled, ZenonT(30)

-----------------------------------------------------------------------------
(* A cart at another tariff.                                               *)

LEMMA PricedLines ==
  ASSUME NEW ls \in Seq(Line), NEW t \in 1 .. Len(Tariffs)
  PROVE  /\ Priced(ls, t) \in Seq(Line) /\ Len(Priced(ls, t)) = Len(ls)
         /\ DOMAIN Priced(ls, t) = DOMAIN ls
         /\ \A i \in DOMAIN ls :
              /\ Priced(ls, t)[i] = At(ls[i], t)
              /\ Priced(ls, t)[i].discount = ls[i].discount
              /\ Priced(ls, t)[i].item = ls[i].item
              /\ Priced(ls, t)[i].quantity = ls[i].quantity
<1> DEFINE new == Priced(ls, t)
<1>1. Len(ls) \in Nat /\ DOMAIN ls = 1 .. Len(ls) /\ \A i \in 1 .. Len(ls) : ls[i] \in Line
  OBVIOUS
<1>2. ASSUME NEW l \in Line
      PROVE  /\ At(l, t) \in Line /\ At(l, t).discount = l.discount /\ At(l, t).item = l.item
             /\ At(l, t).quantity = l.quantity
  BY DEF At, Line
<1>3. new = [i \in 1 .. Len(ls) |-> At(ls[i], t)]
  BY <1>1 DEF Priced
<1> HIDE DEF new
<1>4. \A i \in 1 .. Len(ls) : new[i] = At(ls[i], t) /\ new[i] \in Line
  BY <1>1, <1>2, <1>3
<1>5. new \in [1 .. Len(ls) -> Line]
  BY <1>3, <1>4
<1>6. new \in Seq(Line) /\ Len(new) = Len(ls) /\ DOMAIN new = 1 .. Len(ls)
  BY <1>1, <1>5, SeqDef, LenProperties
<1> QED BY <1>1, <1>2, <1>4, <1>6 DEF new

\* What a line comes to grows by no more than its price, whatever its discount.
LEMMA LineMoves ==
  ASSUME NEW k \in Line, NEW l \in Line, l.discount = k.discount
  PROVE  LineGross(l) - DiscountAmount(l) <=
           (LineGross(k) - DiscountAmount(k))
             + (IF LineGross(l) > LineGross(k) THEN LineGross(l) - LineGross(k) ELSE 0)
<1>1. PICK p \in Nat : LineGross(k) = 100 * p /\ LineGross(k) \div 100 = p
  BY GrossIsWhole
<1>2. PICK q \in Nat : LineGross(l) = 100 * q /\ LineGross(l) \div 100 = q
  BY GrossIsWhole
<1> DEFINE v == k.discount.value
<1>3. CASE k.discount.type \in {"NONE", "FIXED"} /\ v \in Nat
  <2>1. /\ DiscountAmount(k) = IF 100 * p < v * Cent THEN 100 * p ELSE v * Cent
        /\ DiscountAmount(l) = IF 100 * q < v * Cent THEN 100 * q ELSE v * Cent
    BY <1>1, <1>2, <1>3 DEF DiscountAmount, Least
  <2>2. v * Cent \in Nat
    BY <1>3 DEF Cent
  <2> QED BY <1>1, <1>2, <2>1, <2>2
<1>4. CASE k.discount.type = "PERCENTAGE" /\ v \in 1 .. 100
  <2>1. DiscountAmount(k) = p * v /\ DiscountAmount(l) = q * v
    BY <1>1, <1>2, <1>4 DEF DiscountAmount
  <2> DEFINE w == 100 - v
  <2>2. w \in 0 .. 99 /\ 100 * p - p * v = p * w /\ 100 * q - q * v = q * w
    BY <1>4
  <2> HIDE DEF v, w
  <2>3. CASE q <= p
    <3>1. q * w <= p * w /\ p * w \in Int /\ q * w \in Int
      BY <2>2, <2>3
    <3> QED BY <1>1, <1>2, <2>1, <2>2, <2>3, <3>1
  <2>4. CASE q > p
    <3> DEFINE x == q - p
    <3>1. x \in Nat /\ q * w = p * w + x * w /\ 100 * q - 100 * p = 100 * x
      BY <2>2, <2>4
    <3> HIDE DEF x
    <3>2. x * w <= 100 * x /\ p * w \in Int /\ x * w \in Int
      BY <2>2, <3>1
    <3>3. 100 * q > 100 * p
      BY <2>4
    <3> QED BY <1>1, <1>2, <2>1, <2>2, <3>1, <3>2, <3>3
  <2>5. q \in Nat /\ p \in Nat
    OBVIOUS
  <2> QED BY <2>3, <2>4, <2>5
<1>5. k.discount \in Discount
  BY DEF Line
<1>6. v \in Nat /\ \/ k.discount.type = "NONE" /\ v = 0
                   \/ k.discount.type = "PERCENTAGE" /\ v \in 1 .. 100
                   \/ k.discount.type = "FIXED"
  BY <1>5, DiscountCases
<1> QED BY <1>3, <1>4, <1>6

Dearer(old, new) == [i \in DOMAIN new |->
  IF LineGross(new[i]) > LineGross(old[i]) THEN LineGross(new[i]) - LineGross(old[i]) ELSE 0]

LEMMA TotalsMove ==
  ASSUME NEW old \in Seq(Line), NEW new \in Seq(Line), Len(new) = Len(old),
         \A i \in DOMAIN old : new[i].discount = old[i].discount
  PROVE  DearerOf(old, new) \in Int /\ Total(new) <= Total(old) + DearerOf(old, new)
<1> DEFINE n == Len(old)
<1> DEFINE f == Shown(old)
<1> DEFINE g == Shown(new)
<1> DEFINE d == Dearer(old, new)
<1> DEFINE h == [i \in 1 .. n |-> f[i] + d[i]]
<1>1. /\ n \in Nat /\ DOMAIN old = 1 .. n /\ DOMAIN new = 1 .. n
      /\ f \in [1 .. n -> Int] /\ g \in [1 .. n -> Int]
      /\ Total(old) = SumOf(f, n) /\ Total(new) = SumOf(g, n)
  BY CartAmounts
<1>2. ASSUME NEW i \in 1 .. n
      PROVE  d[i] \in Int /\ g[i] <= f[i] + d[i]
  <2>1. old[i] \in Line /\ new[i] \in Line /\ new[i].discount = old[i].discount
    BY <1>1
  <2>2. LineGross(old[i]) \in Nat /\ LineGross(new[i]) \in Nat
    BY <2>1, LineAmounts
  <2>3. d[i] = IF LineGross(new[i]) > LineGross(old[i]) THEN LineGross(new[i]) - LineGross(old[i]) ELSE 0
    BY <1>1 DEF Dearer
  <2>4. /\ f[i] = LineGross(old[i]) - DiscountAmount(old[i])
        /\ g[i] = LineGross(new[i]) - DiscountAmount(new[i])
    BY <1>1 DEF Shown
  <2>5. LineGross(new[i]) - DiscountAmount(new[i]) <=
          (LineGross(old[i]) - DiscountAmount(old[i]))
            + (IF LineGross(new[i]) > LineGross(old[i]) THEN LineGross(new[i]) - LineGross(old[i]) ELSE 0)
    BY <2>1, LineMoves
  <2> HIDE DEF f, g, d
  <2> QED BY <2>2, <2>3, <2>4, <2>5
<1>3. d \in [1 .. n -> Int] /\ DearerOf(old, new) = SumOf(d, n)
  BY <1>1, <1>2 DEF Dearer, DearerOf
<1>4. h \in [1 .. n -> Int] /\ \A i \in 1 .. n : h[i] = f[i] + d[i]
  BY <1>1, <1>3
<1> HIDE DEF n, f, g, d, h
<1>5. SumOf(h, n) = SumOf(f, n) + SumOf(d, n)
  BY <1>1, <1>3, <1>4, SumAdd
<1>6. SumOf(g, n) <= SumOf(h, n)
  <2>1. \A i \in 1 .. n : g[i] <= h[i]
    BY <1>2, <1>4
  <2> QED BY <1>1, <1>4, <2>1, SumLeq
<1>7. SumOf(d, n) \in Int
  BY <1>1, <1>3, SumType
<1> QED BY <1>1, <1>3, <1>5, <1>6, <1>7

\* Lines that cost and come to the same make the same total.
LEMMA SameTotals ==
  ASSUME NEW old \in Seq(Line), NEW new \in Seq(Line), Len(new) = Len(old),
         \A i \in DOMAIN old : LineGross(new[i]) - DiscountAmount(new[i])
                                = LineGross(old[i]) - DiscountAmount(old[i])
  PROVE  Total(new) = Total(old)
<1> DEFINE n == Len(old)
<1> DEFINE f == Shown(old)
<1> DEFINE g == Shown(new)
<1>1. /\ n \in Nat /\ DOMAIN old = 1 .. n /\ DOMAIN new = 1 .. n
      /\ f \in [1 .. n -> Int] /\ g \in [1 .. n -> Int]
      /\ Total(old) = SumOf(f, n) /\ Total(new) = SumOf(g, n)
  BY CartAmounts
<1>2. \A i \in 1 .. n : g[i] <= f[i] /\ f[i] <= g[i]
  <2>1. \A i \in 1 .. n : g[i] = f[i]
    BY <1>1 DEF Shown
  <2> HIDE DEF f, g
  <2> QED BY <1>1, <2>1
<1> HIDE DEF n, f, g
<1>3. SumOf(g, n) <= SumOf(f, n)
  BY <1>1, <1>2, SumLeq
<1>4. SumOf(f, n) <= SumOf(g, n)
  BY <1>1, <1>2, SumLeq
<1>5. SumOf(f, n) \in Int /\ SumOf(g, n) \in Int
  BY <1>1, SumType
<1> QED BY <1>1, <1>3, <1>4, <1>5

-----------------------------------------------------------------------------
(* The inductive invariant.                                                *)

CallRow == [at : {"NONE", "CREDIT", "SENT", "SOLD", "REFUSED", "DONE", "QUEUED", "LEFT"},
            here : BOOLEAN, method : {"CASH", "CARD", "SPLIT"}, due : Nat, lines : Seq(Line), joined : Nat,
            applied : Nat, paid : Nat, tariff : 0 .. Len(Tariffs), changed : BOOLEAN]

CartTyped ==
  /\ cart \in Seq(Line) /\ lines \in Nat
  /\ \A i \in DOMAIN cart : cart[i].id \in 1 .. lines
  /\ credit \in BOOLEAN /\ replaced \in BOOLEAN
  /\ balance \in Nat
  /\ tariff \in 1 .. Len(Tariffs) /\ lapses \in Nat /\ joined \in Nat
  /\ call \in [Calls -> CallRow]

\* A line as it was when its discount was typed.
AsTyped(l) == [l EXCEPT !.quantity = l.discount.quantity]

\* A discount was checked against its line when it was typed.
Honest(l) == l.discount # NoDiscount => Fits(AsTyped(l))

LinesHonest == \A i \in DOMAIN cart : Honest(cart[i])

\* While nothing has changed, a call is of the cart.
Followed(c) ==
  /\ call[c].at \in {"CREDIT", "SENT", "SOLD"} /\ ~call[c].changed =>
       cart # <<>> /\ call[c].due = Total(cart)
  /\ call[c].at \in {"SENT", "SOLD"} /\ ~call[c].changed => call[c].lines = cart
  /\ call[c].at \in {"DONE", "QUEUED"} /\ ~call[c].changed => call[c].due = Total(call[c].lines)

\* What a call is sent with.
WellSent(c) ==
  /\ call[c].at = "SENT" =>
       /\ \A i \in DOMAIN call[c].lines : Honest(call[c].lines[i])
       /\ call[c].applied <= call[c].due
       /\ call[c].paid \in Payments(call[c].method, call[c].due - call[c].applied, call[c].due)
       /\ call[c].method = "SPLIT" => call[c].applied = 0
  /\ call[c].at = "CREDIT" => call[c].method # "SPLIT"
  /\ call[c].at \in {"NONE", "CREDIT"} => call[c].applied = 0

\* Only another exchange can take the credit that a call was sent with.
CreditKept ==
  /\ replaced => \E c \in Calls : call[c].applied > 0
  /\ \A c \in Calls : call[c].at = "SENT" /\ call[c].applied > 0 =>
       \/ \E d \in Calls \ {c} : call[d].applied > 0
       \/ ~replaced /\ call[c].applied = Least(balance * Cent, call[c].due)

\* Calls share lines only when these were confirmed again while a call was open;
\* the cart has nothing of a call that was answered.
Apart ==
  /\ \A c, d \in Calls :
       /\ c # d /\ {call[c].at, call[d].at} \subseteq {"SENT", "SOLD", "DONE", "QUEUED"}
       => Ids(call[c].lines) \cap Ids(call[d].lines) \subseteq exposed
  /\ \A c \in Calls : call[c].at \in {"DONE", "QUEUED"} =>
       Ids(call[c].lines) \cap Ids(cart) = {}
  /\ \A c \in Calls : Ids(call[c].lines) \subseteq 1 .. lines

CartInv ==
  /\ CartTyped /\ LinesHonest
  /\ \A c \in Calls : Followed(c) /\ WellSent(c)
  /\ CreditKept /\ Apart

-----------------------------------------------------------------------------
(* Changes of the cart.                                                    *)

\* A change of the cart marks the calls that are of it, and does nothing else to
\* a call.
LEMMA CallsMarked ==
  ASSUME CartTyped, NEW ls \in Seq(Line), CartBecomes(ls)
  PROVE  /\ cart' = ls /\ call' \in [Calls -> CallRow]
         /\ \A c \in Calls :
              /\ call'[c].at = call[c].at /\ call'[c].here = call[c].here
              /\ call'[c].method = call[c].method /\ call'[c].due = call[c].due
              /\ call'[c].lines = call[c].lines /\ call'[c].applied = call[c].applied
              /\ call'[c].paid = call[c].paid /\ call'[c].joined = call[c].joined
              /\ call'[c].tariff = call[c].tariff
              /\ call[c].changed => call'[c].changed
              /\ call[c].at \in {"CREDIT", "SENT", "SOLD"} /\ ~call'[c].changed => ls = cart
              /\ call[c].at = "NONE" => call'[c] = call[c]
<1>1. \A c \in Calls : call[c] \in CallRow
  BY DEF CartTyped
<1>2. call' = [c \in Calls |->
       IF call[c].at \in {"CREDIT", "SENT", "SOLD"} /\ ls # cart
       THEN [call[c] EXCEPT !.changed = TRUE] ELSE call[c]]
  BY DEF CartBecomes
<1>3. ASSUME NEW c \in Calls
      PROVE  /\ call'[c] \in CallRow
             /\ call'[c].at = call[c].at /\ call'[c].here = call[c].here
             /\ call'[c].method = call[c].method /\ call'[c].due = call[c].due
             /\ call'[c].lines = call[c].lines /\ call'[c].applied = call[c].applied
             /\ call'[c].paid = call[c].paid /\ call'[c].joined = call[c].joined
              /\ call'[c].tariff = call[c].tariff
             /\ call[c].changed => call'[c].changed
             /\ call[c].at \in {"CREDIT", "SENT", "SOLD"} /\ ~call'[c].changed => ls = cart
             /\ call[c].at = "NONE" => call'[c] = call[c]
  <2>1. call[c] \in CallRow
    BY <1>1
  <2>2. CASE call[c].at \in {"CREDIT", "SENT", "SOLD"} /\ ls # cart
    <3>1. call'[c] = [call[c] EXCEPT !.changed = TRUE]
      BY <1>2, <2>2
    <3> QED BY <2>1, <2>2, <3>1 DEF CallRow
  <2>3. CASE ~(call[c].at \in {"CREDIT", "SENT", "SOLD"} /\ ls # cart)
    <3>1. call'[c] = call[c]
      BY <1>2, <2>3
    <3> QED BY <2>1, <2>3, <3>1
  <2> QED BY <2>2, <2>3
<1>4. cart' = ls /\ call' = [c \in Calls |-> call'[c]]
  BY <1>2 DEF CartBecomes
<1> QED BY <1>3, <1>4

\* What the invariant says of calls survives any change of the cart that adds
\* only lines of a new id, and whatever grants a new credit when there is none.
LEMMA CallsFollow ==
  ASSUME CartInv, NEW ls \in Seq(Line), CartBecomes(ls),
         lines' \in Nat, lines' >= lines,
         \A i \in DOMAIN ls : ls[i].id \in Ids(cart) \cup {lines + 1},
         UNCHANGED <<replaced, exposed>>,
         balance' = balance \/ (balance = 0 /\ balance' \in Nat)
  PROVE  /\ call' \in [Calls -> CallRow]
         /\ (\A c \in Calls : Followed(c) /\ WellSent(c))'
         /\ CreditKept' /\ Apart'
<1>1. /\ cart' = ls /\ call' \in [Calls -> CallRow]
      /\ \A c \in Calls :
           /\ call'[c].at = call[c].at /\ call'[c].here = call[c].here
           /\ call'[c].method = call[c].method /\ call'[c].due = call[c].due
           /\ call'[c].lines = call[c].lines /\ call'[c].applied = call[c].applied
           /\ call'[c].paid = call[c].paid /\ call'[c].joined = call[c].joined
              /\ call'[c].tariff = call[c].tariff
           /\ call[c].changed => call'[c].changed
           /\ call[c].at \in {"CREDIT", "SENT", "SOLD"} /\ ~call'[c].changed => ls = cart
  BY CallsMarked DEF CartInv
<1>2. ASSUME NEW c \in Calls PROVE Followed(c)' /\ WellSent(c)'
  <2>1. Followed(c) /\ WellSent(c)
    BY DEF CartInv
  <2>2. Followed(c)'
    BY <1>1, <2>1 DEF Followed
  <2>3. WellSent(c)'
    BY <1>1, <2>1 DEF WellSent
  <2> QED BY <2>2, <2>3
<1>3. CreditKept'
  <2>1. replaced' => \E c \in Calls : call'[c].applied > 0
    BY <1>1 DEF CartInv, CreditKept
  <2>2. ASSUME NEW c \in Calls, call'[c].at = "SENT", call'[c].applied > 0
        PROVE  \/ \E d \in Calls \ {c} : call'[d].applied > 0
               \/ ~replaced' /\ call'[c].applied = Least(balance' * Cent, call'[c].due)
    <3>1. \/ \E d \in Calls \ {c} : call[d].applied > 0
          \/ ~replaced /\ call[c].applied = Least(balance * Cent, call[c].due)
      BY <1>1, <2>2 DEF CartInv, CreditKept
    <3>2. CASE \E d \in Calls \ {c} : call[d].applied > 0
      BY <1>1, <3>2
    <3>3. CASE ~replaced /\ call[c].applied = Least(balance * Cent, call[c].due)
      <4>1. call[c].applied > 0 /\ call[c].due \in Nat
        BY <1>1, <2>2 DEF CallRow
      <4>2. balance # 0
        BY <3>3, <4>1 DEF Least, Cent
      <4> QED BY <1>1, <3>3, <4>2
    <3> QED BY <3>1, <3>2, <3>3
  <2> QED BY <2>1, <2>2 DEF CreditKept
<1>4. Apart'
  <2>1. Ids(ls) \subseteq Ids(cart) \cup {lines + 1}
    BY DEF Ids
  <2>2. lines \in Nat /\ \A c \in Calls : Ids(call[c].lines) \subseteq 1 .. lines
    BY DEF CartInv, Apart, CartTyped
  <2>3. \A c \in Calls : call'[c].at \in {"DONE", "QUEUED"} =>
          Ids(call'[c].lines) \cap Ids(cart') = {}
    <3> SUFFICES ASSUME NEW c \in Calls, call[c].at \in {"DONE", "QUEUED"}
                 PROVE  Ids(call[c].lines) \cap Ids(ls) = {}
      BY <1>1
    <3>1. Ids(call[c].lines) \cap Ids(cart) = {}
      BY DEF CartInv, Apart
    <3>2. lines + 1 \notin 1 .. lines /\ Ids(call[c].lines) \subseteq 1 .. lines
      BY <2>2
    <3> QED BY <2>1, <3>1, <3>2
  <2>4. \A c \in Calls : Ids(call'[c].lines) \subseteq 1 .. lines'
    <3>1. 1 .. lines \subseteq 1 .. lines'
      BY <2>2
    <3> QED BY <1>1, <2>2, <3>1
  <2>5. \A c, d \in Calls :
       c # d /\ {call'[c].at, call'[d].at} \subseteq {"SENT", "SOLD", "DONE", "QUEUED"}
       => Ids(call'[c].lines) \cap Ids(call'[d].lines) \subseteq exposed'
    BY <1>1 DEF CartInv, Apart
  <2> QED BY <2>3, <2>4, <2>5 DEF Apart, Ids
<1> QED BY <1>1, <1>2, <1>3, <1>4

\* A handler that changes the cart.
LEMMA EditKeeps ==
  ASSUME CartInv, NEW ls \in Seq(Line), CartBecomes(ls),
         lines' \in {lines, lines + 1},
         \A k \in DOMAIN ls :
           Honest(ls[k]) /\ (ls[k].id \in Ids(cart) \/ (ls[k].id = lines + 1 /\ lines' = lines + 1)),
         UNCHANGED <<replaced, exposed, server, joined>>,
         balance' = balance \/ (balance = 0 /\ balance' \in Nat),
         credit' \in BOOLEAN
  PROVE  CartInv'
<1>1. lines \in Nat /\ lines' \in Nat /\ lines' >= lines /\ balance' \in Nat
  BY DEF CartInv, CartTyped
<1>2. \A k \in DOMAIN ls : ls[k].id \in Ids(cart) \cup {lines + 1}
  OBVIOUS
<1>3. /\ call' \in [Calls -> CallRow]
      /\ (\A c \in Calls : Followed(c) /\ WellSent(c))'
      /\ CreditKept' /\ Apart'
  BY <1>1, <1>2, CallsFollow
<1>4. cart' = ls
  BY DEF CartBecomes
<1>5. \A k \in DOMAIN ls : ls[k].id \in 1 .. lines'
  <2>1. Ids(cart) \subseteq 1 .. lines
    BY DEF CartInv, CartTyped, Ids
  <2> QED BY <1>1, <2>1
<1>6. CartTyped'
  BY <1>1, <1>3, <1>4, <1>5 DEF CartInv, CartTyped, server
<1>7. LinesHonest'
  BY <1>4 DEF LinesHonest, Honest, AsTyped, Fits, LineGross, Price
<1> QED BY <1>3, <1>6, <1>7 DEF CartInv

\* A line replaced by one of the same id and item.
LEMMA LineReplaced ==
  ASSUME CartInv, NEW i \in DOMAIN cart, NEW l \in Line, l.id = cart[i].id, l.item = cart[i].item
  PROVE  /\ [cart EXCEPT ![i] = l] \in Seq(Line) /\ DOMAIN [cart EXCEPT ![i] = l] = DOMAIN cart
         /\ [cart EXCEPT ![i] = l][i] = l
         /\ \A k \in DOMAIN cart : k # i => [cart EXCEPT ![i] = l][k] = cart[k]
         /\ \A k \in DOMAIN cart : /\ [cart EXCEPT ![i] = l][k].id = cart[k].id
                                   /\ [cart EXCEPT ![i] = l][k].item = cart[k].item
BY DEF CartInv, CartTyped

LEMMA LineAdded ==
  ASSUME CartInv, NEW l \in Line
  PROVE  /\ Append(cart, l) \in Seq(Line)
         /\ \A k \in DOMAIN Append(cart, l) : \/ Append(cart, l)[k] = l
                                              \/ k \in DOMAIN cart /\ Append(cart, l)[k] = cart[k]
BY DEF CartInv, CartTyped

LEMMA LineRemoved ==
  ASSUME CartInv, NEW i \in DOMAIN cart
  PROVE  /\ RemoveAt(cart, i) \in Seq(Line)
         /\ \A k \in DOMAIN RemoveAt(cart, i) :
              \E j \in DOMAIN cart : RemoveAt(cart, i)[k] = cart[j]
<1>1. cart \in Seq(Line) /\ i \in 1 .. Len(cart) /\ Len(cart) \in Nat
  BY DEF CartInv, CartTyped
<1> DEFINE a == SubSeq(cart, 1, i - 1)
<1> DEFINE b == SubSeq(cart, i + 1, Len(cart))
<1>2. /\ a \in Seq(Line) /\ Len(a) = i - 1 /\ \A k \in 1 .. i - 1 : a[k] = cart[k]
  BY <1>1
<1>3. /\ b \in Seq(Line) /\ Len(b) = Len(cart) - i
      /\ \A k \in 1 .. Len(cart) - i : b[k] = cart[k + i]
  BY <1>1
<1> HIDE DEF a, b
<1>4. /\ a \o b \in Seq(Line) /\ Len(a \o b) = Len(a) + Len(b)
      /\ \A k \in 1 .. Len(a) + Len(b) : (a \o b)[k] = IF k <= Len(a) THEN a[k] ELSE b[k - Len(a)]
  BY <1>2, <1>3, ConcatProperties
<1>5. ASSUME NEW k \in 1 .. Len(cart) - 1 PROVE \E j \in 1 .. Len(cart) : (a \o b)[k] = cart[j]
  <2>1. k \in 1 .. Len(a) + Len(b)
    BY <1>1, <1>2, <1>3
  <2>2. CASE k <= i - 1
    <3>1. (a \o b)[k] = a[k]
      BY <1>2, <1>4, <2>1, <2>2
    <3>2. a[k] = cart[k]
      BY <1>1, <1>2, <2>2
    <3> QED BY <1>1, <3>1, <3>2
  <2>3. CASE ~(k <= i - 1)
    <3> DEFINE m == k - (i - 1)
    <3>1. (a \o b)[k] = b[m]
      BY <1>2, <1>4, <2>1, <2>3
    <3>2. m \in 1 .. Len(cart) - i /\ m + i = k + 1 /\ k + 1 \in 1 .. Len(cart)
      BY <1>1, <2>3
    <3> HIDE DEF m
    <3>3. b[m] = cart[m + i]
      BY <1>3, <3>2
    <3> QED BY <3>1, <3>2, <3>3
  <2> QED BY <2>2, <2>3
<1>6. RemoveAt(cart, i) = a \o b
  BY DEF RemoveAt, a, b
<1> DEFINE ls == a \o b
<1>7. ls \in Seq(Line) /\ Len(ls) = Len(cart) - 1
  BY <1>1, <1>2, <1>3, <1>4
<1> HIDE DEF ls
<1>8. DOMAIN ls = 1 .. Len(cart) - 1 /\ DOMAIN cart = 1 .. Len(cart)
  BY <1>1, <1>7
<1> QED BY <1>5, <1>6, <1>7, <1>8 DEF ls

LEMMA ReplaceKeeps ==
  ASSUME CartInv, NEW i \in DOMAIN cart, NEW l \in Line, l.id = cart[i].id, l.item = cart[i].item,
         CartBecomes([cart EXCEPT ![i] = l]), Honest(l),
         UNCHANGED <<lines, credit, balance, replaced, server, joined, exposed>>
  PROVE  CartInv'
<1> DEFINE ls == [cart EXCEPT ![i] = l]
<1>1. /\ ls \in Seq(Line) /\ DOMAIN ls = DOMAIN cart /\ ls[i] = l
      /\ \A k \in DOMAIN cart : k # i => ls[k] = cart[k]
      /\ \A k \in DOMAIN cart : ls[k].id = cart[k].id /\ ls[k].item = cart[k].item
  BY LineReplaced
<1>2. credit' \in BOOLEAN
  BY DEF CartInv, CartTyped
<1>3. CartBecomes(ls)
  OBVIOUS
<1> HIDE DEF ls
<1>4. ASSUME NEW k \in DOMAIN ls PROVE Honest(ls[k]) /\ ls[k].id \in Ids(cart)
  <2>1. ls[k].id \in Ids(cart)
    BY <1>1 DEF Ids
  <2>2. CASE k = i
    BY <1>1, <2>1, <2>2
  <2>3. CASE k # i
    BY <1>1, <2>1, <2>3 DEF CartInv, LinesHonest
  <2> QED BY <2>2, <2>3
<1> QED BY <1>1, <1>2, <1>3, <1>4, EditKeeps

\* What is said of a discounted line does not depend on its quantity now.
LEMMA QuantityHonest ==
  ASSUME NEW l \in Line, NEW q \in Nat, Honest(l)
  PROVE  [l EXCEPT !.quantity = q] \in Line /\ Honest([l EXCEPT !.quantity = q])
<1> DEFINE k == [l EXCEPT !.quantity = q]
<1>1. /\ k \in Line /\ k.id = l.id /\ k.discount = l.discount /\ k.item = l.item
  BY DEF Line
<1>2. AsTyped(k) = AsTyped(l)
  BY DEF AsTyped, Line
<1> HIDE DEF k
<1>3. Honest(k)
  BY <1>1, <1>2 DEF Honest
<1> QED BY <1>1, <1>3 DEF k

LEMMA NoDiscountHonest ==
  ASSUME NEW l, l.discount = NoDiscount
  PROVE  Honest(l)
BY DEF Honest

\* A step that leaves the cart and the calls alone.
LEMMA QuietKeeps ==
  ASSUME CartInv, UNCHANGED <<cart, lines, balance, replaced, call, exposed>>, credit' \in BOOLEAN,
         tariff' \in 1 .. Len(Tariffs), lapses' \in Nat, joined' \in Nat
  PROVE  CartInv'
<1>1. CartTyped'
  BY DEF CartInv, CartTyped
<1>2. LinesHonest' /\ (\A c \in Calls : Followed(c) /\ WellSent(c))'
  BY DEF CartInv, LinesHonest, Followed, WellSent
<1>3. CreditKept' /\ Apart'
  BY DEF CartInv, CreditKept, Apart
<1> QED BY <1>1, <1>2, <1>3 DEF CartInv

-----------------------------------------------------------------------------
(* The cashier's steps.                                                    *)

LEMMA AppendKeeps ==
  ASSUME CartInv, NEW item \in Items, NEW t \in 1 .. tariff,
         CartBecomes(Append(cart, NewLine(item, t))), lines' = lines + 1,
         UNCHANGED <<replaced, server, joined, exposed>>,
         balance' = balance \/ (balance = 0 /\ balance' \in Nat), credit' \in BOOLEAN
  PROVE  CartInv'
<1> DEFINE l == NewLine(item, t)
<1> DEFINE ls == Append(cart, l)
<1>1. l \in Line /\ l.id = lines + 1 /\ l.discount = NoDiscount
  <2>1. lines + 1 \in Nat /\ t \in 1 .. Len(Tariffs) /\ NoDiscount \in Discount
    BY TariffDomain DEF CartInv, CartTyped, Discount
  <2> QED BY <2>1 DEF NewLine, Line, Unit
<1>2. ls \in Seq(Line) /\ \A k \in DOMAIN ls : ls[k] = l \/ (k \in DOMAIN cart /\ ls[k] = cart[k])
  BY <1>1, LineAdded
<1>3. CartBecomes(ls)
  OBVIOUS
<1> HIDE DEF l, ls
<1>4. ASSUME NEW k \in DOMAIN ls
      PROVE  Honest(ls[k]) /\ (ls[k].id \in Ids(cart) \/ (ls[k].id = lines + 1 /\ lines' = lines + 1))
  <2>1. CASE ls[k] = l
    BY <1>1, <2>1, NoDiscountHonest
  <2>2. CASE k \in DOMAIN cart /\ ls[k] = cart[k]
    <3>1. Honest(cart[k]) /\ cart[k].id \in Ids(cart)
      BY <2>2 DEF CartInv, LinesHonest, Ids
    <3> QED BY <2>2, <3>1
  <2> QED BY <1>2, <2>1, <2>2
<1> QED BY <1>2, <1>3, <1>4, EditKeeps

LEMMA AddProductKeeps ==
  ASSUME CartInv, NEW item \in Items, AddProduct(item)
  PROVE  CartInv'
<1>1. UNCHANGED <<credit, balance, replaced, server, joined, exposed>> /\ credit' \in BOOLEAN
  BY DEF AddProduct, CartInv, CartTyped
<1>2. CASE Mergeable(item) = {}
  <2>1. lines' = lines + 1 /\ \E t \in 1 .. tariff : CartBecomes(Append(cart, NewLine(item, t)))
    BY <1>2 DEF AddProduct
  <2>2. PICK t \in 1 .. tariff : CartBecomes(Append(cart, NewLine(item, t)))
    BY <2>1
  <2> QED BY <1>1, <2>1, <2>2, AppendKeeps
<1>3. CASE Mergeable(item) # {}
  <2>1. PICK i \in Mergeable(item) :
          CartBecomes([cart EXCEPT ![i].quantity = @ + Unit]) /\ lines' = lines
    BY <1>3 DEF AddProduct
  <2>2. i \in DOMAIN cart /\ cart[i] \in Line /\ cart[i].discount = NoDiscount
    BY <2>1 DEF Mergeable, CartInv, CartTyped
  <2> DEFINE l == [cart[i] EXCEPT !.quantity = @ + Unit]
  <2>3. l \in Line /\ l.id = cart[i].id /\ l.item = cart[i].item /\ l.discount = NoDiscount
    BY <2>2 DEF Line, Unit
  <2>4. [cart EXCEPT ![i].quantity = @ + Unit] = [cart EXCEPT ![i] = l]
    OBVIOUS
  <2> HIDE DEF l
  <2>5. Honest(l)
    BY <2>3, NoDiscountHonest
  <2> QED BY <1>1, <2>1, <2>2, <2>3, <2>4, <2>5, ReplaceKeeps
<1> QED BY <1>2, <1>3

LEMMA ChangeQuantityKeeps ==
  ASSUME CartInv, NEW i \in DOMAIN cart, ChangeQuantity(i)
  PROVE  CartInv'
<1>1. UNCHANGED <<lines, credit, balance, replaced, server, joined, exposed>>
  BY DEF ChangeQuantity
<1>2. PICK q \in 1 .. MaxQuantity : CartBecomes([cart EXCEPT ![i].quantity = q])
  BY DEF ChangeQuantity
<1>3. cart[i] \in Line /\ Honest(cart[i])
  BY DEF CartInv, CartTyped, LinesHonest
<1> DEFINE l == [cart[i] EXCEPT !.quantity = q]
<1>4. l \in Line /\ Honest(l)
  <2>1. q \in Nat
    OBVIOUS
  <2> QED BY <1>3, <2>1, QuantityHonest
<1>5. l.id = cart[i].id /\ l.item = cart[i].item
  BY <1>3 DEF Line
<1>6. [cart EXCEPT ![i].quantity = q] = [cart EXCEPT ![i] = l]
  OBVIOUS
<1> HIDE DEF l
<1> QED BY <1>1, <1>2, <1>4, <1>5, <1>6, ReplaceKeeps

LEMMA RemoveLineKeeps ==
  ASSUME CartInv, NEW i \in DOMAIN cart, RemoveLine(i)
  PROVE  CartInv'
<1> DEFINE ls == RemoveAt(cart, i)
<1>1. CartBecomes(ls) /\ UNCHANGED <<lines, credit, balance, replaced, server, joined, exposed>>
  BY DEF RemoveLine
<1>2. ls \in Seq(Line) /\ \A k \in DOMAIN ls : \E j \in DOMAIN cart : ls[k] = cart[j]
  BY LineRemoved
<1> HIDE DEF ls
<1>3. credit' \in BOOLEAN
  BY <1>1 DEF CartInv, CartTyped
<1>4. ASSUME NEW k \in DOMAIN ls PROVE Honest(ls[k]) /\ ls[k].id \in Ids(cart)
  <2>1. PICK j \in DOMAIN cart : ls[k] = cart[j]
    BY <1>2
  <2>2. Honest(cart[j]) /\ cart[j].id \in Ids(cart)
    BY DEF CartInv, LinesHonest, Ids
  <2> QED BY <2>1, <2>2
<1> QED BY <1>1, <1>2, <1>3, <1>4, EditKeeps

LEMMA RemoveDiscountKeeps ==
  ASSUME CartInv, NEW i \in DOMAIN cart, RemoveDiscount(i)
  PROVE  CartInv'
<1>1. /\ CartBecomes([cart EXCEPT ![i].discount = NoDiscount])
      /\ UNCHANGED <<lines, credit, balance, replaced, server, joined, exposed>>
  BY DEF RemoveDiscount
<1> DEFINE l == [cart[i] EXCEPT !.discount = NoDiscount]
<1>2. cart[i] \in Line
  BY DEF CartInv, CartTyped
<1>3. l \in Line /\ l.id = cart[i].id /\ l.item = cart[i].item /\ l.discount = NoDiscount
  BY <1>2 DEF Line, Discount
<1>4. [cart EXCEPT ![i].discount = NoDiscount] = [cart EXCEPT ![i] = l]
  OBVIOUS
<1> HIDE DEF l
<1>5. Honest(l)
  BY <1>3, NoDiscountHonest
<1> QED BY <1>1, <1>3, <1>4, <1>5, ReplaceKeeps

LEMMA ApplyInlineDiscountKeeps ==
  ASSUME CartInv, NEW i \in DOMAIN cart, NEW input \in Discounts, ApplyInlineDiscount(i, input)
  PROVE  CartInv'
<1> DEFINE discount == [type |-> input.type, value |-> input.value, quantity |-> cart[i].quantity]
<1> DEFINE l == [cart[i] EXCEPT !.discount = discount]
<1>1. UNCHANGED <<lines, credit, balance, replaced, server, joined, exposed>>
  BY DEF ApplyInlineDiscount
<1>2. cart[i] \in Line /\ credit \in BOOLEAN
  BY DEF CartInv, CartTyped
<1>3. input.type \in {"PERCENTAGE", "FIXED"} /\ input.value \in Nat \ {0}
      /\ (input.type = "PERCENTAGE" => input.value <= 100)
  BY DiscountDomain
<1>4. CASE input.type = "FIXED" /\ input.value * Cent > LineGross(cart[i])
  <2>1. UNCHANGED <<cart, call>>
    BY <1>4 DEF ApplyInlineDiscount
  <2>2. UNCHANGED <<cart, lines, credit, balance, replaced, tariff, lapses, joined, call, exposed>>
    BY <1>1, <2>1 DEF server
  <2>3. credit \in BOOLEAN /\ tariff \in 1 .. Len(Tariffs) /\ lapses \in Nat /\ joined \in Nat
    BY DEF CartInv, CartTyped
  <2> QED BY <2>2, <2>3, QuietKeeps
<1>5. CASE ~(input.type = "FIXED" /\ input.value * Cent > LineGross(cart[i]))
  <2>1. CartBecomes([cart EXCEPT ![i].discount = discount])
    BY <1>5 DEF ApplyInlineDiscount
  <2>2. discount \in Discount /\ discount.quantity = cart[i].quantity
        /\ discount.type = input.type /\ discount.value = input.value
    <3>1. cart[i].quantity \in Nat
      BY <1>2 DEF Line
    <3>2. discount \in Discount
      <4>1. CASE input.type = "FIXED"
        BY <1>3, <3>1, <4>1 DEF Discount
      <4>2. CASE input.type = "PERCENTAGE"
        BY <1>3, <3>1, <4>2 DEF Discount
      <4> QED BY <1>3, <4>1, <4>2
    <3> QED BY <3>2
  <2>3. [cart EXCEPT ![i].discount = discount] = [cart EXCEPT ![i] = l]
    OBVIOUS
  <2> HIDE DEF discount
  <2>4. /\ l \in Line /\ l.id = cart[i].id /\ l.item = cart[i].item /\ l.discount = discount
        /\ l.tariff = cart[i].tariff /\ l.quantity = cart[i].quantity
    BY <1>2, <2>2 DEF Line
  <2> HIDE DEF l
  <2>5. AsTyped(l) = l
    BY <2>2, <2>4 DEF AsTyped, Line
  <2>6. LineGross(l) = LineGross(cart[i]) /\ LineGross(l) \in Nat
    <3>1. LineGross(l) = LineGross(cart[i])
      BY <2>4 DEF LineGross, Price
    <3> QED BY <2>4, <3>1, LineAmounts
  <2>7. Fits(l)
    BY <1>3, <1>5, <2>2, <2>4, <2>6 DEF Fits, Cent
  <2>8. Honest(l)
    BY <2>5, <2>7 DEF Honest
  <2>9. CartBecomes([cart EXCEPT ![i] = l])
    BY <2>1, <2>3
  <2> QED BY <1>1, <2>4, <2>8, <2>9, ReplaceKeeps
<1> QED BY <1>4, <1>5

LEMMA CompleteExchangeKeeps ==
  ASSUME CartInv, NEW item \in Items, CompleteExchange(item)
  PROVE  CartInv'
<1>1. /\ UNCHANGED <<replaced, server, joined, exposed>>
      /\ balance = 0 /\ balance' = CreditValue /\ credit' = TRUE /\ lines' = lines + 1
      /\ \E t \in 1 .. tariff : CartBecomes(Append(cart, NewLine(item, t)))
  BY DEF CompleteExchange
<1>2. CreditValue \in Nat
  BY TariffDomain
<1>3. PICK t \in 1 .. tariff : CartBecomes(Append(cart, NewLine(item, t)))
  BY <1>1
<1> QED BY <1>1, <1>2, <1>3, AppendKeeps

LEMMA ReloadPageKeeps ==
  ASSUME CartInv, ReloadPage
  PROVE  CartInv'
<1>1. credit' = FALSE /\ UNCHANGED <<cart, lines, balance, replaced, server, joined, exposed>>
  BY DEF ReloadPage
<1>0. call' = [c \in Calls |-> [call[c] EXCEPT !.here = @ /\ call[c] = NoCall,
                                            !.at = IF @ = "CREDIT" THEN "LEFT" ELSE @]]
  BY DEF ReloadPage
<1>2. \A c \in Calls : call[c] \in CallRow
  BY DEF CartInv, CartTyped
<1>3. ASSUME NEW c \in Calls
      PROVE  /\ call'[c] \in CallRow
             /\ call'[c].at # "CREDIT"
             /\ \A at \in {"NONE", "SENT", "SOLD", "REFUSED", "DONE", "QUEUED"} :
                  call'[c].at = at <=> call[c].at = at
             /\ call'[c].method = call[c].method /\ call'[c].due = call[c].due
             /\ call'[c].lines = call[c].lines /\ call'[c].applied = call[c].applied
             /\ call'[c].paid = call[c].paid /\ call'[c].changed = call[c].changed
  <2>1. call'[c] = [call[c] EXCEPT !.here = @ /\ call[c] = NoCall,
                                   !.at = IF @ = "CREDIT" THEN "LEFT" ELSE @]
    BY <1>0
  <2> QED BY <1>2, <2>1 DEF CallRow
<1>4. CartTyped'
  <2>1. call' \in [Calls -> CallRow]
    <3>1. call' = [c \in Calls |-> call'[c]]
      BY <1>0
    <3> QED BY <1>3, <3>1
  <2> QED BY <1>1, <2>1 DEF CartInv, CartTyped, server
<1>5. LinesHonest'
  BY <1>1 DEF CartInv, LinesHonest
<1>7. ASSUME NEW c \in Calls PROVE Followed(c)' /\ WellSent(c)'
  <2>1. Followed(c) /\ WellSent(c)
    BY DEF CartInv
  <2>2. Followed(c)'
    <3>1. cart' = cart /\ call'[c].at # "CREDIT"
      BY <1>1, <1>3
    <3>2. /\ call'[c].at = "SENT" <=> call[c].at = "SENT"
          /\ call'[c].at = "SOLD" <=> call[c].at = "SOLD"
          /\ call'[c].at = "DONE" <=> call[c].at = "DONE"
          /\ call'[c].at = "QUEUED" <=> call[c].at = "QUEUED"
      BY <1>3
    <3> QED BY <1>3, <2>1, <3>1, <3>2 DEF Followed
  <2>3. WellSent(c)'
    BY <1>1, <1>3, <2>1 DEF WellSent
  <2> QED BY <2>2, <2>3
<1>8. CreditKept'
  <2>1. \A c \in Calls : call'[c].at = "SENT" <=> call[c].at = "SENT"
    BY <1>3
  <2>2. \A c \in Calls : call'[c].applied = call[c].applied /\ call'[c].due = call[c].due
    BY <1>3
  <2> QED BY <1>1, <2>1, <2>2 DEF CartInv, CreditKept
<1>9. Apart'
  <2>1. \A c \in Calls : call'[c].lines = call[c].lines
    BY <1>3
  <2>2. \A c \in Calls : \A at \in {"SENT", "SOLD", "DONE", "QUEUED"} : call'[c].at = at <=> call[c].at = at
    BY <1>3
  <2> QED BY <1>1, <2>1, <2>2 DEF CartInv, Apart
<1> QED BY <1>4, <1>5, <1>7, <1>8, <1>9 DEF CartInv

-----------------------------------------------------------------------------
(* The steps of a checkout.                                                *)

\* A step of one call.
LEMMA CallKeeps ==
  ASSUME CartInv, NEW c \in Calls, NEW r \in CallRow, call' = [call EXCEPT ![c] = r],
         UNCHANGED <<cart, lines, credit, server, joined>>,
         balance' \in Nat, replaced' \in BOOLEAN,
         Followed(c)', WellSent(c)', CreditKept', Apart'
  PROVE  CartInv'
<1>1. /\ call' \in [Calls -> CallRow] /\ call'[c] = r
      /\ \A d \in Calls : d # c => call'[d] = call[d]
  BY DEF CartInv, CartTyped
<1>2. CartTyped'
  BY <1>1 DEF CartInv, CartTyped, server
<1>3. LinesHonest'
  BY DEF CartInv, LinesHonest
<1>4. ASSUME NEW d \in Calls PROVE Followed(d)' /\ WellSent(d)'
  <2>1. CASE d = c
    BY <2>1
  <2>2. CASE d # c
    <3>1. Followed(d) /\ WellSent(d) /\ call'[d] = call[d]
      BY <1>1, <2>2 DEF CartInv
    <3> QED BY <3>1 DEF Followed, WellSent
  <2> QED BY <2>1, <2>2
<1> QED BY <1>2, <1>3, <1>4 DEF CartInv

\* The cart is sent: what it shares with open calls is exposed, and with answered
\* ones it shares nothing.
LEMMA SentApart ==
  ASSUME CartInv, NEW c \in Calls, NEW r \in CallRow, call' = [call EXCEPT ![c] = r],
         UNCHANGED <<cart, lines>>, r.lines = cart, r.at = "SENT", Expose
  PROVE  Apart'
<1>1. /\ call'[c] = r /\ \A d \in Calls : d # c => call'[d] = call[d]
  BY DEF CartInv, CartTyped
<1>2. exposed' = exposed \cup (Ids(cart) \cap UNION {Ids(call[d].lines) : d \in {e \in Calls : Open(e)}})
  BY DEF Expose
<1>3. ASSUME NEW d \in Calls, d # c, call[d].at \in {"SENT", "SOLD", "DONE", "QUEUED"}
      PROVE  Ids(call[d].lines) \cap Ids(cart) \subseteq exposed'
  <2>1. CASE Open(d)
    BY <1>2, <2>1
  <2>2. CASE ~Open(d)
    BY <1>3, <2>2 DEF Open, CartInv, Apart
  <2> QED BY <2>1, <2>2
<1>4. ASSUME NEW d \in Calls, NEW e \in Calls, d # e,
             {call'[d].at, call'[e].at} \subseteq {"SENT", "SOLD", "DONE", "QUEUED"}
      PROVE  Ids(call'[d].lines) \cap Ids(call'[e].lines) \subseteq exposed'
  <2>1. CASE d = c
    BY <1>1, <1>3, <1>4, <2>1
  <2>2. CASE e = c
    BY <1>1, <1>3, <1>4, <2>2
  <2>3. CASE d # c /\ e # c
    <3>1. call'[d] = call[d] /\ call'[e] = call[e]
      BY <1>1, <2>3
    <3>2. Ids(call[d].lines) \cap Ids(call[e].lines) \subseteq exposed
      BY <1>4, <3>1 DEF CartInv, Apart
    <3> QED BY <1>2, <3>1, <3>2
  <2> QED BY <2>1, <2>2, <2>3
<1>5. \A d \in Calls : call'[d].at \in {"DONE", "QUEUED"} => Ids(call'[d].lines) \cap Ids(cart') = {}
  BY <1>1 DEF CartInv, Apart
<1>6. \A d \in Calls : Ids(call'[d].lines) \subseteq 1 .. lines'
  <2>1. Ids(cart) \subseteq 1 .. lines
    BY DEF CartInv, CartTyped, Ids
  <2> QED BY <1>1, <2>1 DEF CartInv, Apart
<1> QED BY <1>4, <1>5, <1>6 DEF Apart

\* A call whose step leaves the credit alone.
LEMMA CreditStays ==
  ASSUME CartInv, NEW c \in Calls, NEW r \in CallRow, call' = [call EXCEPT ![c] = r],
         UNCHANGED <<balance, replaced>>, call[c].applied > 0 => r.applied > 0,
         r.at = "SENT" /\ r.applied > 0 =>
           \/ \E d \in Calls \ {c} : call[d].applied > 0
           \/ ~replaced /\ r.applied = Least(balance * Cent, r.due)
  PROVE  CreditKept'
<1>1. /\ call'[c] = r /\ \A d \in Calls : d # c => call'[d] = call[d]
  BY DEF CartInv, CartTyped
<1>2. \A d \in Calls : call[d].applied > 0 => call'[d].applied > 0
  BY <1>1
<1>3. replaced' => \E d \in Calls : call'[d].applied > 0
  BY <1>2 DEF CartInv, CreditKept
<1>4. ASSUME NEW d \in Calls, call'[d].at = "SENT", call'[d].applied > 0
      PROVE  \/ \E e \in Calls \ {d} : call'[e].applied > 0
             \/ ~replaced' /\ call'[d].applied = Least(balance' * Cent, call'[d].due)
  <2>1. CASE d = c
    BY <1>1, <1>2, <1>4, <2>1
  <2>2. CASE d # c
    <3>1. call'[d] = call[d]
      BY <1>1, <2>2
    <3>2. \/ \E e \in Calls \ {d} : call[e].applied > 0
          \/ ~replaced /\ call[d].applied = Least(balance * Cent, call[d].due)
      BY <1>4, <3>1 DEF CartInv, CreditKept
    <3> QED BY <1>2, <3>1, <3>2
  <2> QED BY <2>1, <2>2
<1> QED BY <1>3, <1>4 DEF CreditKept

LEMMA PaymentsAreNat ==
  ASSUME NEW method \in {"CASH", "CARD", "SPLIT"}, NEW remaining \in Nat, NEW total \in Nat,
         NEW paid \in Payments(method, remaining, total)
  PROVE  paid \in Nat
<1>1. CASE method = "SPLIT"
  <2>1. PICK amount \in Rounded(total) : paid = amount * Cent
    BY <1>1 DEF Payments
  <2>2. amount \in Nat
    BY <2>1 DEF Rounded, Cent
  <2> QED BY <2>1, <2>2 DEF Cent
<1>2. CASE method = "CASH"
  <2>1. paid = ((remaining + Cent - 1) \div Cent) * Cent
    BY <1>2 DEF Payments
  <2> QED BY <2>1 DEF Cent
<1>3. CASE method = "CARD"
  BY <1>3 DEF Payments
<1> QED BY <1>1, <1>2, <1>3

LEMMA ConfirmCheckoutKeeps ==
  ASSUME CartInv, NEW c \in Calls, NEW method \in {"CASH", "CARD", "SPLIT"},
         ConfirmCheckout(c, method)
  PROVE  CartInv'
<1>1. /\ call[c] = NoCall /\ cart # <<>> /\ (method = "SPLIT" => ~credit)
      /\ UNCHANGED <<cart, lines, credit, balance, replaced, server, joined>>
  BY DEF ConfirmCheckout
<1>2. /\ cart \in Seq(Line) /\ joined \in Nat /\ balance \in Nat /\ replaced \in BOOLEAN
      /\ call \in [Calls -> CallRow] /\ NoCall \in CallRow
  BY <1>1 DEF CartInv, CartTyped
<1>3. Total(cart) \in Nat
  BY <1>2, TotalIsNat
<1>4. ~(call[c].applied > 0)
  BY <1>1 DEF NoCall
<1>5. CASE credit
  <2> DEFINE r == [NoCall EXCEPT !.at = "CREDIT", !.method = method, !.due = Total(cart)]
  <2>1. call' = [call EXCEPT ![c] = r] /\ UNCHANGED exposed
    BY <1>5 DEF ConfirmCheckout
  <2>2. /\ r \in CallRow /\ r.at = "CREDIT" /\ r.due = Total(cart) /\ r.method = method
        /\ r.applied = 0 /\ r.lines = <<>> /\ ~r.changed
    BY <1>2, <1>3 DEF NoCall, CallRow
  <2> HIDE DEF r
  <2>3. call'[c] = r /\ \A d \in Calls : d # c => call'[d] = call[d]
    BY <1>2, <2>1
  <2>4. Followed(c)'
    BY <1>1, <2>2, <2>3 DEF Followed
  <2>5. WellSent(c)'
    BY <1>1, <1>5, <2>2, <2>3 DEF WellSent
  <2>6. CreditKept'
    BY <1>1, <1>4, <2>1, <2>2, CreditStays
  <2>7. Apart'
    <3>1. Ids(r.lines) = {}
      BY <2>2 DEF Ids
    <3>2. /\ r.at \notin {"SENT", "SOLD", "DONE", "QUEUED"}
          /\ cart' = cart /\ lines' = lines /\ exposed' = exposed
      BY <1>1, <2>1, <2>2
    <3> QED BY <2>3, <3>1, <3>2 DEF CartInv, Apart
  <2> QED BY <1>1, <1>2, <2>1, <2>2, <2>4, <2>5, <2>6, <2>7, CallKeeps
<1>6. CASE ~credit
  <2>1. PICK paid \in Payments(method, Total(cart), Total(cart)) :
          call' = [call EXCEPT ![c] = Sent([NoCall EXCEPT !.method = method, !.due = Total(cart)], 0, paid)]
    BY <1>6 DEF ConfirmCheckout
  <2> DEFINE r == Sent([NoCall EXCEPT !.method = method, !.due = Total(cart)], 0, paid)
  <2>2. call' = [call EXCEPT ![c] = r] /\ Expose
    BY <1>6, <2>1 DEF ConfirmCheckout
  <2>3. paid \in Nat
    BY <1>3, PaymentsAreNat
  <2>4. /\ r \in CallRow /\ r.at = "SENT" /\ r.due = Total(cart) /\ r.method = method
        /\ r.applied = 0 /\ r.paid = paid /\ r.lines = cart /\ ~r.changed
    BY <1>2, <1>3, <2>3 DEF NoCall, CallRow, Sent
  <2> HIDE DEF r
  <2>5. call'[c] = r
    BY <1>2, <2>2
  <2>6. Followed(c)'
    BY <1>1, <2>4, <2>5 DEF Followed
  <2>7. WellSent(c)'
    <3>1. \A i \in DOMAIN cart : Honest(cart[i])
      BY DEF CartInv, LinesHonest
    <3>2. 0 <= Total(cart) /\ Total(cart) - 0 = Total(cart)
      BY <1>3
    <3> QED BY <1>1, <2>4, <2>5, <3>1, <3>2 DEF WellSent
  <2>8. CreditKept'
    <3>1. ~(r.applied > 0)
      BY <2>4
    <3> QED BY <1>1, <1>4, <2>2, <2>4, <3>1, CreditStays
  <2>9. Apart'
    BY <1>1, <2>2, <2>4, SentApart
  <2> QED BY <1>1, <1>2, <2>2, <2>4, <2>6, <2>7, <2>8, <2>9, CallKeeps
<1> QED BY <1>5, <1>6

LEMMA CreditFetchedKeeps ==
  ASSUME CartInv, NEW c \in Calls, CreditFetched(c)
  PROVE  CartInv'
<1> DEFINE applied == Applied(call[c].due)
<1>1. /\ call[c].at = "CREDIT" /\ Expose
      /\ UNCHANGED <<cart, lines, credit, balance, replaced, server, joined>>
  BY DEF CreditFetched
<1>2. /\ cart \in Seq(Line) /\ joined \in Nat /\ balance \in Nat /\ replaced \in BOOLEAN
      /\ call \in [Calls -> CallRow] /\ call[c] \in CallRow
      /\ call[c].due \in Nat /\ call[c].method \in {"CASH", "CARD", "SPLIT"}
  BY DEF CartInv, CartTyped, CallRow
<1>3. applied \in Nat /\ applied <= call[c].due /\ Least(applied, call[c].due) = applied
      /\ applied = Least(balance * Cent, call[c].due)
  BY <1>2 DEF Applied, Least, Cent
<1>4. PICK paid \in Payments(call[c].method, call[c].due - Least(applied, call[c].due), call[c].due) :
        call' = [call EXCEPT ![c] = Sent(call[c], applied, paid)]
  BY <1>2 DEF CreditFetched
<1> HIDE DEF applied
<1>5. paid \in Payments(call[c].method, call[c].due - applied, call[c].due)
  BY <1>3, <1>4
<1>6. paid \in Nat
  <2>1. call[c].due - applied \in Nat
    BY <1>2, <1>3
  <2> QED BY <1>2, <1>5, <2>1, PaymentsAreNat
<1>7. call[c].applied = 0 /\ call[c].method # "SPLIT"
      /\ (~call[c].changed => cart # <<>> /\ call[c].due = Total(cart))
  BY <1>1 DEF CartInv, WellSent, Followed
<1> DEFINE r == Sent(call[c], applied, paid)
<1>8. /\ r \in CallRow /\ r.at = "SENT" /\ r.due = call[c].due /\ r.method = call[c].method
      /\ r.applied = applied /\ r.paid = paid /\ r.lines = cart
      /\ r.changed = call[c].changed
  BY <1>2, <1>3, <1>6 DEF CallRow, Sent
<1>9. call' = [call EXCEPT ![c] = r]
  BY <1>4
<1> HIDE DEF r
<1>10. call'[c] = r
  BY <1>2, <1>9
<1>11. Followed(c)'
  BY <1>1, <1>7, <1>8, <1>10 DEF Followed
<1>12. WellSent(c)'
  <2>1. \A i \in DOMAIN cart : Honest(cart[i])
    BY DEF CartInv, LinesHonest
  <2> QED BY <1>1, <1>3, <1>5, <1>7, <1>8, <1>10, <2>1 DEF WellSent
<1>13. CreditKept'
  <2>1. ASSUME replaced PROVE \E d \in Calls \ {c} : call[d].applied > 0
    <3>1. PICK d \in Calls : call[d].applied > 0
      BY <2>1 DEF CartInv, CreditKept
    <3> QED BY <1>7, <3>1
  <2>2. /\ call[c].applied > 0 => r.applied > 0
        /\ r.applied = Least(balance * Cent, r.due)
        /\ UNCHANGED <<balance, replaced>>
    BY <1>1, <1>3, <1>7, <1>8
  <2> QED BY <1>2, <1>8, <1>9, <2>1, <2>2, CreditStays
<1>14. Apart'
  BY <1>1, <1>8, <1>9, SentApart
<1> QED BY <1>1, <1>2, <1>8, <1>9, <1>11, <1>12, <1>13, <1>14, CallKeeps

LEMMA ServerSellsKeeps ==
  ASSUME CartInv, NEW c \in Calls, ServerSells(c)
  PROVE  CartInv'
<1>1. /\ call[c].at = "SENT" /\ CreditGood(call[c])
      /\ call' = [call EXCEPT ![c] = [call[c] EXCEPT !.at = "SOLD", !.tariff = tariff]]
      /\ balance' = balance - call[c].applied \div Cent
      /\ replaced' = (replaced \/ call[c].applied > 0)
      /\ UNCHANGED <<cart, lines, credit, server, joined, exposed>>
  BY DEF ServerSells, Acceptable
<1>2. /\ call \in [Calls -> CallRow] /\ call[c] \in CallRow /\ balance \in Nat
      /\ replaced \in BOOLEAN /\ call[c].applied \in Nat /\ call[c].lines \in Seq(Line)
      /\ tariff \in 1 .. Len(Tariffs)
  BY DEF CartInv, CartTyped, CallRow
<1>3. balance' \in Nat /\ (call[c].applied = 0 => balance' = balance)
  <2>1. CASE call[c].applied = 0
    BY <1>1, <1>2, <2>1 DEF Cent
  <2>2. CASE call[c].applied > 0
    <3> DEFINE total == GrandTotal(Bill(call[c]))
    <3>1. total \in Int
      <4>1. Priced(call[c].lines, tariff) \in Seq(Line)
        BY <1>2, PricedLines
      <4> QED BY <4>1, CartAmounts DEF Bill
    <3>2. call[c].applied = Least(balance, total) * Cent
      BY <1>1, <2>2 DEF CreditGood
    <3> HIDE DEF total
    <3>3. Least(balance, total) \in Int /\ Least(balance, total) <= balance
      BY <1>2, <3>1 DEF Least
    <3>4. call[c].applied \div Cent = Least(balance, total)
      BY <3>2, <3>3 DEF Cent
    <3> QED BY <1>1, <1>2, <2>2, <3>3, <3>4
  <2> QED BY <1>2, <2>1, <2>2
<1> DEFINE r == [call[c] EXCEPT !.at = "SOLD", !.tariff = tariff]
<1>4. /\ r \in CallRow /\ r.at = "SOLD" /\ r.due = call[c].due /\ r.lines = call[c].lines
      /\ r.applied = call[c].applied /\ r.changed = call[c].changed
  <2>0. tariff \in 0 .. Len(Tariffs)
    BY <1>2
  <2>1. r \in CallRow
    <3> HIDE DEF r
    <3>1. r = [call[c] EXCEPT !.at = "SOLD", !.tariff = tariff]
      BY DEF r
    <3> QED BY <1>2, <2>0, <3>1 DEF CallRow
  <2>2. call[c] = [call[c] EXCEPT !.at = @]
    BY <1>2 DEF CallRow
  <2> QED BY <1>2, <2>1 DEF CallRow
<1>5. call' = [call EXCEPT ![c] = r]
  BY <1>1
<1> HIDE DEF r
<1>6. call'[c] = r /\ \A d \in Calls : d # c => call'[d] = call[d]
  BY <1>2, <1>5
<1>7. Followed(c)'
  <2>1. Followed(c)
    BY DEF CartInv
  <2> QED BY <1>1, <1>4, <1>6, <2>1 DEF Followed
<1>8. WellSent(c)'
  BY <1>4, <1>6 DEF WellSent
<1>9. CreditKept'
  <2>1. \A d \in Calls : call'[d].applied = call[d].applied
    BY <1>4, <1>6
  <2>2. replaced' => \E d \in Calls : call'[d].applied > 0
    BY <1>1, <2>1 DEF CartInv, CreditKept
  <2>3. ASSUME NEW d \in Calls, call'[d].at = "SENT", call'[d].applied > 0
        PROVE  \/ \E e \in Calls \ {d} : call'[e].applied > 0
               \/ ~replaced' /\ call'[d].applied = Least(balance' * Cent, call'[d].due)
    <3>1. d # c /\ call'[d] = call[d]
      BY <1>4, <1>6, <2>3
    <3>2. \/ \E e \in Calls \ {d} : call[e].applied > 0
          \/ ~replaced /\ call[d].applied = Least(balance * Cent, call[d].due)
      BY <2>3, <3>1 DEF CartInv, CreditKept
    <3>3. CASE call[c].applied > 0
      BY <2>1, <3>1, <3>3
    <3>4. CASE call[c].applied = 0
      BY <1>1, <1>3, <2>1, <3>1, <3>2, <3>4
    <3> QED BY <1>2, <3>3, <3>4
  <2> QED BY <2>2, <2>3 DEF CreditKept
<1>10. Apart'
  <2>1. \A d \in Calls : call'[d].lines = call[d].lines
    BY <1>4, <1>6
  <2>2. \A d \in Calls : /\ call'[d].at \in {"DONE", "QUEUED"} => call[d].at \in {"DONE", "QUEUED"}
                         /\ call'[d].at \in {"SENT", "SOLD", "DONE", "QUEUED"} =>
                              call[d].at \in {"SENT", "SOLD", "DONE", "QUEUED"}
    BY <1>1, <1>4, <1>6
  <2> QED BY <1>1, <2>1, <2>2 DEF CartInv, Apart
<1>11. replaced' \in BOOLEAN /\ UNCHANGED <<cart, lines, credit, server, joined>>
  BY <1>1, <1>2, <1>4
<1> QED BY <1>3, <1>4, <1>5, <1>7, <1>8, <1>9, <1>10, <1>11, CallKeeps

\* A total in whole cents leaves nothing to round.
LEMMA WholePayments ==
  ASSUME NEW method \in {"CASH", "CARD", "SPLIT"}, NEW cents \in Int, NEW n \in Nat,
         NEW total \in Nat, NEW applied \in Nat, total = Cent * cents, applied = Cent * n,
         applied <= total, method = "SPLIT" => applied = 0,
         NEW paid \in Payments(method, total - applied, total)
  PROVE  applied + paid = total /\ WholeCents(paid)
<1>1. CASE method = "SPLIT"
  <2>1. PICK amount \in Rounded(total) : paid = amount * Cent
    BY <1>1 DEF Payments
  <2>2. /\ amount \in {total \div Cent, total \div Cent + 1}
        /\ 2 * total \in (2 * amount - 1) * Cent .. (2 * amount + 1) * Cent
    BY <2>1 DEF Rounded
  <2>3. amount = cents
    BY <2>2, SMT DEF Cent
  <2> QED BY <1>1, <2>1, <2>3, SMT DEF WholeCents, Cent
<1>2. CASE method = "CASH"
  <2>1. paid = ((total - applied + Cent - 1) \div Cent) * Cent
    BY <1>2 DEF Payments
  <2> DEFINE rest == cents - n
  <2>2. rest \in Int /\ total - applied = Cent * rest
    BY DEF Cent
  <2> HIDE DEF rest
  <2>3. (Cent * rest + Cent - 1) \div Cent = rest
    BY <2>2, SMT DEF Cent
  <2>4. paid = rest * Cent
    BY <2>1, <2>2, <2>3
  <2> QED BY <2>2, <2>4, SMT DEF WholeCents, Cent
<1>3. CASE method = "CARD"
  <2>1. paid = total - applied
    BY <1>3 DEF Payments
  <2> QED BY <2>1, SMT DEF WholeCents, Cent
<1> QED BY <1>1, <1>2, <1>3

\* A line that has nothing the server may object to, at the server's tariff.
LEMMA SoundLine ==
  ASSUME NEW l \in Line, NEW k \in Line, k = At(l, tariff), Honest(l), ~Objectionable(l)
  PROVE  /\ Fits(k) /\ ~Fractional(k) /\ Sellable(k)
         /\ LineGross(k) - DiscountAmount(k) = LineGross(l) - DiscountAmount(l)
<1>1. /\ k.discount = l.discount /\ k.item = l.item /\ k.quantity = l.quantity
      /\ l.quantity \in Nat /\ l.discount \in Discount
  BY DEF At, Line
<1>2. Price(k) = Price(l) /\ Price(l) \in Nat
  BY PricesAreNat DEF Objectionable, Repriced
<1>3. LineGross(k) = LineGross(l)
  BY <1>1, <1>2 DEF LineGross
<1>4. DiscountAmount(k) = DiscountAmount(l)
  BY <1>1, <1>3 DEF DiscountAmount
<1>5. ~Fractional(k)
  BY <1>3, <1>4 DEF Objectionable, Fractional
<1>6. Fits(l)
  <2> SUFFICES ASSUME l.discount.type = "FIXED" PROVE l.discount.value * Cent <= LineGross(l)
    BY DEF Fits
  <2>1. l.discount # NoDiscount /\ l.discount.quantity \in Nat
    BY <1>1 DEF NoDiscount, Discount
  <2>2. Fits(AsTyped(l)) /\ ~(l.quantity < l.discount.quantity)
    BY <2>1 DEF Honest, Objectionable, Outgrown
  <2>3. /\ AsTyped(l).discount = l.discount /\ AsTyped(l).quantity = l.discount.quantity
        /\ Price(AsTyped(l)) = Price(l)
    BY DEF AsTyped, Line, Price
  <2>4. l.discount.value * Cent <= Price(l) * l.discount.quantity * 100
    BY <2>2, <2>3 DEF Fits, LineGross
  <2>5. LineGross(l) = Price(l) * l.quantity * 100
    BY DEF LineGross
  <2>6. Price(l) * l.discount.quantity <= Price(l) * l.quantity
    BY <1>1, <1>2, <2>1, <2>2
  <2> DEFINE a == Price(l) * l.discount.quantity
  <2> DEFINE b == Price(l) * l.quantity
  <2>7. a \in Nat /\ b \in Nat /\ l.discount.value * Cent \in Int
    BY <1>1, <1>2, <2>1 DEF Discount, NoDiscount, Cent
  <2> HIDE DEF a, b
  <2>8. l.discount.value * Cent <= a * 100 /\ LineGross(l) = b * 100 /\ a <= b
    BY <2>4, <2>5, <2>6 DEF a, b
  <2> QED BY <2>7, <2>8
<1>7. Fits(k)
  BY <1>1, <1>3, <1>6 DEF Fits
<1>8. Sellable(k)
  <2>1. CanDiscount(k)
    BY <1>7, FitsRounded
  <2>2. k.item \notin withdrawn /\ (k.discount # NoDiscount => ~BelowCost(k))
    BY <1>1 DEF Objectionable
  <2> QED BY <2>1, <2>2 DEF Sellable
<1> QED BY <1>3, <1>4, <1>5, <1>7, <1>8

\* What the till was right about, the server agrees with.
LEMMA SoundCallsAreAcceptable ==
  ASSUME CartInv, NEW c \in Calls, call[c].at = "SENT", ~Explained(c)
  PROVE  Acceptable(call[c])
<1> DEFINE r == call[c]
<1> DEFINE ls == call[c].lines
<1> DEFINE new == Priced(ls, tariff)
<1> DEFINE total == GrandTotal(new)
<1>1. /\ r.applied \in Nat /\ r.paid \in Nat /\ r.due \in Nat /\ ls \in Seq(Line)
      /\ r.method \in {"CASH", "CARD", "SPLIT"} /\ balance \in Nat /\ tariff \in 1 .. Len(Tariffs)
  BY DEF CartInv, CartTyped, CallRow
<1>2. /\ ~r.changed /\ r.joined = lapses /\ r.applied + r.paid # 0
      /\ \A i \in DOMAIN ls : ~Objectionable(ls[i])
      /\ ~(r.applied > 0 /\ \E d \in Calls \ {c} : call[d].applied > 0)
  BY DEF Explained
<1>3. ls = cart /\ ls # <<>> /\ r.due = Total(ls)
  BY <1>2 DEF CartInv, Followed
<1>4. /\ \A i \in DOMAIN ls : Honest(ls[i])
      /\ r.applied <= r.due /\ r.paid \in Payments(r.method, r.due - r.applied, r.due)
      /\ r.method = "SPLIT" => r.applied = 0
  BY DEF CartInv, WellSent
<1>5. r.applied > 0 => ~replaced /\ r.applied = Least(balance * Cent, r.due)
  BY <1>2 DEF CartInv, CreditKept
<1>6. /\ new \in Seq(Line) /\ Len(new) = Len(ls) /\ DOMAIN new = DOMAIN ls
      /\ \A i \in DOMAIN ls : new[i] = At(ls[i], tariff)
  BY <1>1, PricedLines
<1> HIDE DEF new
<1>7. ASSUME NEW i \in DOMAIN ls
      PROVE  /\ Fits(new[i]) /\ ~Fractional(new[i]) /\ Sellable(new[i])
             /\ LineGross(new[i]) - DiscountAmount(new[i]) = LineGross(ls[i]) - DiscountAmount(ls[i])
  <2>1. ls[i] \in Line /\ new[i] \in Line /\ new[i] = At(ls[i], tariff)
    BY <1>1, <1>6
  <2>2. Honest(ls[i]) /\ ~Objectionable(ls[i])
    BY <1>2, <1>4
  <2> QED BY <2>1, <2>2, SoundLine
<1>8. total \in Int /\ r.due = Cent * total
  <2>1. \A i \in DOMAIN new : ~Fractional(new[i]) /\ Fits(new[i])
    BY <1>6, <1>7
  <2>2. Cent * total = Total(new) /\ total \in Int
    BY <1>6, <2>1, WholeTotals, CartAmounts
  <2>3. Total(new) = Total(ls)
    BY <1>1, <1>6, <1>7, SameTotals
  <2> QED BY <1>3, <2>2, <2>3
<1> HIDE DEF total
<1>9. PICK n \in Nat : r.applied = Cent * n /\ (r.applied > 0 => r.applied = Least(balance, total) * Cent)
  <2>1. CASE r.applied = 0
    <3>1. r.applied = Cent * 0 /\ ~(r.applied > 0)
      BY <2>1, SMT DEF Cent
    <3> QED BY <3>1
  <2>2. CASE r.applied > 0
    <3> DEFINE n == Least(balance, total)
    <3>1. r.applied = Least(balance * Cent, Cent * total)
      BY <1>5, <1>8, <2>2
    <3>2. n \in Int /\ r.applied = n * Cent /\ r.applied = Cent * n
      BY <1>1, <1>8, <3>1, SMT DEF Least, Cent
    <3>3. n \in Nat
      BY <1>1, <2>2, <3>2, SMT DEF Cent
    <3> QED BY <3>2, <3>3
  <2> QED BY <1>1, <2>1, <2>2
<1> HIDE DEF r, ls
<1>10. r.applied + r.paid = r.due /\ WholeCents(r.paid) /\ WholeCents(r.applied)
  <2>1. WholeCents(r.applied)
    BY <1>9, SMT DEF WholeCents, Cent
  <2> QED BY <1>1, <1>4, <1>8, <1>9, <2>1, WholePayments
<1>11. Bill(r) = new /\ r.lines = ls
  BY DEF Bill, new, ls, r
<1>12. CreditGood(r)
  BY <1>5, <1>9, <1>11 DEF CreditGood, total
<1>13. Settles(r)
  <2>1. r.applied + r.paid = GrandTotal(Bill(r)) * Cent /\ r.due \in Int
    BY <1>1, <1>8, <1>10, <1>11, SMT DEF total, Cent
  <2> QED BY <1>10, <2>1 DEF Settles
<1>14. ValidAmounts(r)
  BY <1>1, <1>2, <1>10 DEF ValidAmounts
<1>15. r.lines # <<>> /\ \A i \in DOMAIN r.lines : Sellable(Bill(r)[i])
  BY <1>3, <1>7, <1>11
<1>16. Acceptable(r)
  BY <1>2, <1>12, <1>13, <1>14, <1>15 DEF Acceptable
<1> QED BY <1>16 DEF r

LEMMA ServerRefusesKeeps ==
  ASSUME CartInv, NEW c \in Calls, ServerRefuses(c)
  PROVE  CartInv'
<1>1. /\ call[c].at = "SENT"
      /\ call' = [call EXCEPT ![c] = [call[c] EXCEPT !.at = "REFUSED"]]
      /\ UNCHANGED <<cart, lines, credit, balance, replaced, server, joined, exposed>>
  BY DEF ServerRefuses
<1>2. call \in [Calls -> CallRow] /\ call[c] \in CallRow /\ balance \in Nat /\ replaced \in BOOLEAN
  BY DEF CartInv, CartTyped
<1> DEFINE r == [call[c] EXCEPT !.at = "REFUSED"]
<1>3. /\ r \in CallRow /\ r.at = "REFUSED" /\ r.lines = call[c].lines
      /\ r.applied = call[c].applied
  BY <1>2 DEF CallRow
<1>4. call' = [call EXCEPT ![c] = r]
  BY <1>1
<1> HIDE DEF r
<1>5. call'[c] = r /\ \A d \in Calls : d # c => call'[d] = call[d]
  BY <1>2, <1>4
<1>6. Followed(c)' /\ WellSent(c)'
  BY <1>3, <1>5 DEF Followed, WellSent
<1>7. \A d \in Calls : call'[d].applied = call[d].applied /\ call'[d].lines = call[d].lines
  BY <1>3, <1>5
<1>8. CreditKept'
  <2>1. \A d \in Calls : call'[d].at = "SENT" => call'[d] = call[d]
    BY <1>3, <1>5
  <2> QED BY <1>1, <1>7, <2>1 DEF CartInv, CreditKept
<1>9. Apart'
  <2>1. \A d \in Calls : call'[d].at # "REFUSED" => call'[d] = call[d]
    BY <1>3, <1>5
  <2> QED BY <1>1, <1>7, <2>1 DEF CartInv, Apart
<1>10. balance' \in Nat /\ replaced' \in BOOLEAN /\ UNCHANGED <<cart, lines, credit, server, joined>>
  BY <1>1, <1>2
<1> QED BY <1>3, <1>4, <1>6, <1>8, <1>9, <1>10, CallKeeps

\* The cart is emptied for whatever call the till has done with.
LEMMA AnsweredKeeps ==
  ASSUME CartInv, NEW c \in Calls, Open(c), NEW at \in {"DONE", "QUEUED"}, Answered(c, at),
         UNCHANGED <<lines, balance, replaced, server, joined, exposed>>
  PROVE  CartInv'
<1>1. /\ cart' = <<>> /\ credit' = FALSE
      /\ call' = [d \in Calls |->
           IF d = c THEN [call[c] EXCEPT !.at = at, !.due = IF at = "QUEUED" THEN Total(cart) ELSE @]
           ELSE [call[d] EXCEPT !.changed = @ \/ cart # <<>>]]
  BY DEF Answered
<1>2. call \in [Calls -> CallRow] /\ cart \in Seq(Line) /\ lines \in Nat
  BY DEF CartInv, CartTyped
<1>3. Total(cart) \in Nat
  BY <1>2, TotalIsNat
<1>4. /\ call'[c] \in CallRow /\ call'[c].at = at /\ call'[c].lines = call[c].lines
      /\ call'[c].applied = call[c].applied /\ call'[c].changed = call[c].changed
      /\ call'[c].due = IF at = "QUEUED" THEN Total(cart) ELSE call[c].due
  <2>1. call[c] \in CallRow
    BY <1>2
  <2>2. call'[c] = [call[c] EXCEPT !.at = at, !.due = IF at = "QUEUED" THEN Total(cart) ELSE @]
    BY <1>1
  <2> QED BY <1>3, <2>1, <2>2 DEF CallRow
<1>5. ASSUME NEW d \in Calls, d # c
      PROVE  /\ call'[d] \in CallRow /\ call'[d].at = call[d].at /\ call'[d].lines = call[d].lines
             /\ call'[d].applied = call[d].applied /\ call'[d].due = call[d].due
             /\ call'[d].paid = call[d].paid /\ call'[d].method = call[d].method
             /\ ~call'[d].changed => ~call[d].changed /\ cart = <<>>
  <2>1. call[d] \in CallRow
    BY <1>2
  <2>2. call'[d] = [call[d] EXCEPT !.changed = @ \/ cart # <<>>]
    BY <1>1, <1>5
  <2>3. (call[d].changed \/ cart # <<>>) \in BOOLEAN
    OBVIOUS
  <2> QED BY <2>1, <2>2, <2>3 DEF CallRow
<1>6. call[c].at \in {"SENT", "SOLD"}
  BY DEF Open
<1>7. \A d \in Calls : call'[d].applied = call[d].applied /\ call'[d].lines = call[d].lines
  BY <1>4, <1>5
<1>8. CartTyped'
  <2>1. call' \in [Calls -> CallRow]
    <3>1. call' = [d \in Calls |-> call'[d]]
      BY <1>1
    <3>2. \A d \in Calls : call'[d] \in CallRow
      BY <1>4, <1>5
    <3> QED BY <3>1, <3>2
  <2>2. cart' \in Seq(Line) /\ DOMAIN cart' = {}
    BY <1>1
  <2> QED BY <1>1, <2>1, <2>2 DEF CartInv, CartTyped, server
<1>9. DOMAIN cart' = {} /\ Ids(cart') = {}
  BY <1>1 DEF Ids
<1>10. LinesHonest'
  BY <1>9 DEF LinesHonest
<1>12. ASSUME NEW d \in Calls PROVE Followed(d)' /\ WellSent(d)'
  <2>1. Followed(d) /\ WellSent(d)
    BY DEF CartInv
  <2>2. CASE d = c
    <3>1. WellSent(c)'
      BY <1>4 DEF WellSent
    <3>2. ASSUME ~call[c].changed PROVE call'[c].due = Total(call'[c].lines)
      BY <1>4, <1>6, <2>1, <2>2, <3>2 DEF Followed
    <3>3. Followed(c)'
      BY <1>4, <3>2 DEF Followed
    <3> QED BY <2>2, <3>1, <3>3
  <2>3. CASE d # c
    <3>1. WellSent(d)'
      BY <1>5, <2>1, <2>3 DEF WellSent
    <3>2. Followed(d)'
      BY <1>5, <2>1, <2>3 DEF Followed
    <3> QED BY <3>1, <3>2
  <2> QED BY <2>2, <2>3
<1>13. CreditKept'
  <2>1. \A d \in Calls : call'[d].at = "SENT" => call[d].at = "SENT" /\ call'[d].due = call[d].due
    BY <1>4, <1>5
  <2> QED BY <1>7, <2>1 DEF CartInv, CreditKept
<1>14. Apart'
  <2>1. \A d \in Calls : call'[d].at \in {"SENT", "SOLD", "DONE", "QUEUED"} =>
          call[d].at \in {"SENT", "SOLD", "DONE", "QUEUED"}
    BY <1>4, <1>5, <1>6
  <2> QED BY <1>7, <1>9, <2>1 DEF CartInv, Apart
<1> QED BY <1>8, <1>10, <1>12, <1>13, <1>14 DEF CartInv

LEMMA AnswersKeep ==
  ASSUME CartInv, NEW c \in Calls, TillAnswered(c) \/ QueueOfflineSale(c)
  PROVE  CartInv'
BY AnsweredKeeps DEF TillAnswered, QueueOfflineSale, Open

-----------------------------------------------------------------------------
(* The theorems.                                                           *)

LEMMA CartStarts == CartInit => CartInv
<1> SUFFICES ASSUME CartInit PROVE CartInv
  OBVIOUS
<1>1. /\ cart = <<>> /\ lines = 0 /\ credit = FALSE /\ balance = 0 /\ replaced = FALSE
      /\ tariff = 1 /\ lapses = 0 /\ joined = 0
      /\ call = [c \in Calls |-> NoCall] /\ exposed = {}
  BY DEF CartInit
<1>2. 1 \in 1 .. Len(Tariffs)
  <2>1. Tariffs # <<>> /\ Len(Tariffs) \in Nat
    BY TariffDomain
  <2>2. Len(Tariffs) # 0
    BY <2>1, TariffDomain, EmptySeq
  <2> QED BY <2>1, <2>2
<1>3. /\ NoCall \in CallRow /\ NoCall.at = "NONE" /\ NoCall.lines = <<>> /\ NoCall.applied = 0
  <2>1. 0 \in 0 .. Len(Tariffs) /\ <<>> \in Seq(Line)
    BY <1>2
  <2> QED BY <2>1 DEF NoCall, CallRow
<1>4. \A c \in Calls : call[c] = NoCall
  BY <1>1
<1>5. CartTyped
  <2>1. call \in [Calls -> CallRow]
    BY <1>1, <1>3
  <2>2. cart \in Seq(Line) /\ DOMAIN cart = {}
    BY <1>1
  <2> QED BY <1>1, <1>2, <2>1, <2>2 DEF CartTyped
<1>6. LinesHonest
  BY <1>1 DEF LinesHonest
<1>7. \A c \in Calls : Followed(c) /\ WellSent(c)
  BY <1>3, <1>4 DEF Followed, WellSent
<1>8. CreditKept
  BY <1>1, <1>3, <1>4 DEF CreditKept
<1>9. Apart
  BY <1>3, <1>4 DEF Apart, Ids
<1> QED BY <1>5, <1>6, <1>7, <1>8, <1>9 DEF CartInv

\* What changes elsewhere leaves the cart alone.
LEMMA OthersKeep ==
  ASSUME CartInv, Others \/ JoinShift \/ ClearExchangeCredit
                    \/ (\E i \in DOMAIN cart : TypeInvalidDiscount(i)) \/ UNCHANGED cartVars
  PROVE  CartInv'
<1>1. /\ credit \in BOOLEAN /\ tariff \in 1 .. Len(Tariffs) /\ lapses \in Nat /\ joined \in Nat
      /\ Len(Tariffs) \in Nat
  BY TariffDomain DEF CartInv, CartTyped
<1>2. UNCHANGED <<cart, lines, balance, replaced, call, exposed>> /\ credit' \in BOOLEAN
  BY <1>1 DEF Others, NewTariff, Withdraw, Lapse, JoinShift, ClearExchangeCredit, TypeInvalidDiscount,
              cartVars
<1>3. tariff' \in 1 .. Len(Tariffs) /\ lapses' \in Nat /\ joined' \in Nat
  BY <1>1 DEF Others, NewTariff, Withdraw, Lapse, JoinShift, ClearExchangeCredit, TypeInvalidDiscount,
              cartVars, server
<1> QED BY <1>2, <1>3, QuietKeeps

LEMMA CartStep == CartInv /\ [CartNext]_cartVars => CartInv'
<1> SUFFICES ASSUME CartInv, [CartNext]_cartVars PROVE CartInv'
  OBVIOUS
<1>1. CASE Cashier
  <2>1. ASSUME NEW item \in Items, AddProduct(item) \/ CompleteExchange(item) PROVE CartInv'
    BY <2>1, AddProductKeeps, CompleteExchangeKeeps
  <2>2. ASSUME NEW i \in DOMAIN cart,
               ChangeQuantity(i) \/ RemoveLine(i) \/ RemoveDiscount(i)
        PROVE  CartInv'
    BY <2>2, ChangeQuantityKeeps, RemoveLineKeeps, RemoveDiscountKeeps
  <2>3. ASSUME NEW i \in DOMAIN cart, TypeInvalidDiscount(i) PROVE CartInv'
    BY <2>3, OthersKeep
  <2>4. ASSUME NEW i \in DOMAIN cart, NEW input \in Discounts, ApplyInlineDiscount(i, input)
        PROVE  CartInv'
    BY <2>4, ApplyInlineDiscountKeeps
  <2>5. CASE ClearExchangeCredit \/ JoinShift
    BY <2>5, OthersKeep
  <2>6. CASE ReloadPage
    BY <2>6, ReloadPageKeeps
  <2>7. ASSUME NEW c \in Calls, NEW method \in {"CASH", "CARD", "SPLIT"}, ConfirmCheckout(c, method)
        PROVE  CartInv'
    BY <2>7, ConfirmCheckoutKeeps
  <2> QED BY <1>1, <2>1, <2>2, <2>3, <2>4, <2>5, <2>6, <2>7 DEF Cashier
<1>2. CASE Answers
  <2>1. ASSUME NEW c \in Calls, CreditFetched(c) \/ ServerSells(c) \/ ServerRefuses(c) PROVE CartInv'
    BY <2>1, CreditFetchedKeeps, ServerSellsKeeps, ServerRefusesKeeps
  <2>2. ASSUME NEW c \in Calls, TillAnswered(c) \/ QueueOfflineSale(c) PROVE CartInv'
    BY <2>2, AnswersKeep
  <2> QED BY <1>2, <2>1, <2>2 DEF Answers
<1>3. CASE Others \/ UNCHANGED cartVars
  BY <1>3, OthersKeep
<1> QED BY <1>1, <1>2, <1>3 DEF CartNext

\* Only the server refuses a call.
LEMMA OnlyServerRefuses ==
  ASSUME CartInv, [CartNext]_cartVars, NEW c \in Calls, call'[c].at = "REFUSED", call[c].at # "REFUSED"
  PROVE  ServerRefuses(c)
<1>0. call \in [Calls -> CallRow] /\ call[c] \in CallRow
  BY DEF CartInv, CartTyped
<1>1. ASSUME NEW ls, CartBecomes(ls) PROVE FALSE
  <2>1. call'[c] = [call[c] EXCEPT !.changed = TRUE] \/ call'[c] = call[c]
    BY <1>1 DEF CartBecomes
  <2> QED BY <1>0, <2>1 DEF CallRow
<1>2. call' # call
  OBVIOUS
<1>3. CASE Cashier
  <2>1. ASSUME NEW item \in Items, AddProduct(item) \/ CompleteExchange(item) PROVE FALSE
    BY <1>1, <2>1 DEF AddProduct, CompleteExchange
  <2>2. ASSUME NEW i \in DOMAIN cart, ChangeQuantity(i) \/ RemoveLine(i) \/ RemoveDiscount(i) PROVE FALSE
    BY <1>1, <2>2 DEF ChangeQuantity, RemoveLine, RemoveDiscount
  <2>3. ASSUME NEW i \in DOMAIN cart, NEW input \in Discounts, ApplyInlineDiscount(i, input) PROVE FALSE
    BY <1>1, <1>2, <2>3 DEF ApplyInlineDiscount
  <2>4. ASSUME ReloadPage PROVE FALSE
    <3>1. call'[c].at = IF call[c].at = "CREDIT" THEN "LEFT" ELSE call[c].at
      BY <1>0, <2>4 DEF ReloadPage, CallRow
    <3> QED BY <3>1
  <2>5. ASSUME NEW d \in Calls, NEW method \in {"CASH", "CARD", "SPLIT"}, ConfirmCheckout(d, method)
        PROVE  FALSE
    <3>1. CASE credit
      BY <1>0, <2>5, <3>1 DEF ConfirmCheckout, NoCall
    <3>2. CASE ~credit
      <4>1. PICK paid \in Payments(method, Total(cart), Total(cart)) :
              call' = [call EXCEPT ![d] = Sent([NoCall EXCEPT !.method = method, !.due = Total(cart)], 0, paid)]
        BY <2>5, <3>2 DEF ConfirmCheckout
      <4> QED BY <1>0, <4>1 DEF Sent, NoCall
    <3> QED BY <3>1, <3>2
  <2>6. UNCHANGED call => FALSE
    BY <1>2
  <2> QED BY <1>3, <2>1, <2>2, <2>3, <2>4, <2>5, <2>6
          DEF Cashier, TypeInvalidDiscount, ClearExchangeCredit, JoinShift
<1>4. CASE Answers
  <2>1. PICK d \in Calls :
          CreditFetched(d) \/ ServerSells(d) \/ ServerRefuses(d) \/ TillAnswered(d) \/ QueueOfflineSale(d)
    BY <1>4 DEF Answers
  <2>2. call[d] \in CallRow
    BY <1>0
  <2>3. CASE CreditFetched(d)
    <3>1. \E r : call' = [call EXCEPT ![d] = r] /\ r.at = "SENT"
      BY <2>2, <2>3 DEF CreditFetched, Sent, CallRow
    <3> QED BY <1>0, <3>1
  <2>4. CASE ServerSells(d)
    <3>1. \E r : call' = [call EXCEPT ![d] = r] /\ r.at = "SOLD"
      <4>1. call' = [call EXCEPT ![d] = [call[d] EXCEPT !.at = "SOLD", !.tariff = tariff]]
        BY <2>4 DEF ServerSells
      <4> QED BY <2>2, <4>1 DEF CallRow
    <3> QED BY <1>0, <3>1
  <2>5. CASE ServerRefuses(d)
    <3>1. d = c
      BY <1>0, <2>5 DEF ServerRefuses
    <3> QED BY <2>5, <3>1
  <2>6. CASE TillAnswered(d) \/ QueueOfflineSale(d)
    <3>1. \E at \in {"DONE", "QUEUED"} : Answered(d, at)
      BY <2>6 DEF TillAnswered, QueueOfflineSale
    <3>2. PICK at \in {"DONE", "QUEUED"} : Answered(d, at)
      BY <3>1
    <3>3. CASE c = d
      <4>1. call'[c] = [call[c] EXCEPT !.at = at, !.due = IF at = "QUEUED" THEN Total(cart) ELSE @]
        BY <3>2, <3>3 DEF Answered
      <4>2. call'[c].at = at
        BY <1>0, <4>1 DEF CallRow
      <4> QED BY <3>2, <4>2
    <3>4. CASE c # d
      <4>1. call'[c] = [call[c] EXCEPT !.changed = @ \/ cart # <<>>]
        BY <3>2, <3>4 DEF Answered
      <4> QED BY <1>0, <4>1 DEF CallRow
    <3> QED BY <3>3, <3>4
  <2> QED BY <2>1, <2>3, <2>4, <2>5, <2>6
<1>5. CASE Others \/ UNCHANGED cartVars
  BY <1>2, <1>5 DEF Others, NewTariff, Withdraw, Lapse, cartVars
<1> QED BY <1>3, <1>4, <1>5 DEF CartNext

LEMMA CartHolds == CartSpec => []CartInv
BY CartStarts, CartStep, PTL DEF CartSpec

\* No line is in two sales, unless it was confirmed again while a call with it had
\* no answer (completeCheckout, queueOfflineSale).
THEOREM LinesAreSoldOnce == CartSpec => []LinesSoldOnce
<1>1. CartInv => LinesSoldOnce
  <2> SUFFICES ASSUME CartInv, NEW c \in Kept, NEW d \in Kept, c # d
               PROVE  Ids(call[c].lines) \cap Ids(call[d].lines) \subseteq exposed
    BY DEF LinesSoldOnce
  <2>1. c \in Calls /\ d \in Calls /\ {call[c].at, call[d].at} \subseteq {"SENT", "SOLD", "DONE", "QUEUED"}
    BY DEF Kept
  <2> QED BY <2>1 DEF CartInv, Apart
<1> QED BY <1>1, CartHolds, PTL

\* What is booked is what was shown, up to changes of price since the lines were
\* added and the server's own roundings, for every cart, tariff, quantity and
\* discount (totals, restoreCart, complete, calculateCheckout).
THEOREM TotalsShownAreSold == CartSpec => []ShownIsSold
<1>1. CartInv => ShownIsSold
  <2> SUFFICES ASSUME CartInv, NEW c \in Kept, ~call[c].changed, NEW t \in SaleTariffs(c),
                      \A i \in DOMAIN Priced(call[c].lines, t) : CanDiscount(Priced(call[c].lines, t)[i])
               PROVE  /\ GrandTotal(Priced(call[c].lines, t)) * Cent <=
                           call[c].due + DearerOf(call[c].lines, Priced(call[c].lines, t))
                             + SlackOf(Priced(call[c].lines, t)) * (Cent \div 2)
                      /\ call[c].due <= GrandTotal(Priced(call[c].lines, t)) * Cent
                           + DearerOf(Priced(call[c].lines, t), call[c].lines)
                           + SlackOf(Priced(call[c].lines, t)) * (Cent \div 2)
    BY DEF ShownIsSold
  <2> DEFINE old == call[c].lines
  <2> DEFINE new == Priced(old, t)
  <2>1. c \in Calls /\ call[c].at \in {"SOLD", "DONE", "QUEUED"}
    BY DEF Kept
  <2>2. old \in Seq(Line) /\ t \in 1 .. Len(Tariffs) /\ call[c].due \in Int
    <3>1. /\ call[c] \in CallRow /\ tariff \in 1 .. Len(Tariffs) /\ Len(Tariffs) \in Nat
      BY <2>1, TariffDomain DEF CartInv, CartTyped
    <3>2. call[c].tariff \in 0 .. Len(Tariffs) /\ old \in Seq(Line) /\ call[c].due \in Nat
      BY <3>1 DEF CallRow
    <3> QED BY <3>1, <3>2 DEF SaleTariffs
  <2>3. call[c].due = Total(old)
    BY <2>1 DEF CartInv, Followed
  <2>4. /\ new \in Seq(Line) /\ Len(new) = Len(old) /\ DOMAIN new = DOMAIN old
        /\ \A i \in DOMAIN old : new[i].discount = old[i].discount
    BY <2>2, PricedLines
  <2>5. \A i \in DOMAIN new : CanDiscount(new[i])
    OBVIOUS
  <2> HIDE DEF old, new
  <2>6. /\ Cent * GrandTotal(new) <= Total(new) + Half * SlackOf(new)
        /\ Total(new) <= Cent * GrandTotal(new) + Half * SlackOf(new)
    BY <2>4, <2>5, TotalsAgree
  <2>7. GrandTotal(new) \in Int /\ SlackOf(new) \in Int /\ Total(new) \in Int /\ Total(old) \in Int
    BY <2>2, <2>4, CartAmounts
  <2>8. DearerOf(old, new) \in Int /\ Total(new) <= Total(old) + DearerOf(old, new)
    BY <2>2, <2>4, TotalsMove
  <2>9. DearerOf(new, old) \in Int /\ Total(old) <= Total(new) + DearerOf(new, old)
    <3>1. Len(old) = Len(new) /\ \A i \in DOMAIN new : old[i].discount = new[i].discount
      BY <2>4
    <3> QED BY <2>2, <2>4, <3>1, TotalsMove
  <2>10. GrandTotal(new) * Cent = Cent * GrandTotal(new) /\ SlackOf(new) * (Cent \div 2) = Half * SlackOf(new)
    BY <2>7, SMT DEF Half, Cent
  <2>11. Cent * GrandTotal(new) \in Int /\ Half * SlackOf(new) \in Int
    BY <2>7 DEF Half, Cent
  <2> QED BY <2>3, <2>6, <2>7, <2>8, <2>9, <2>10, <2>11 DEF old, new
<1> QED BY <1>1, CartHolds, PTL

Refusals == \A c \in Calls : call'[c].at = "REFUSED" /\ call[c].at # "REFUSED" => Explained(c)

\* A checkout that nothing has disturbed since its lines were added, in whole cents
\* and above cost, passes every check of the server (completeCheckout, complete,
\* calculateCheckout, settlePayments, assertApproval).
THEOREM RefusalsHaveReasons == CartSpec => RefusalsExplained
<1>1. CartInv /\ [CartNext]_cartVars => [Refusals]_cartVars
  <2> SUFFICES ASSUME CartInv, [CartNext]_cartVars, NEW c \in Calls,
                      call'[c].at = "REFUSED", call[c].at # "REFUSED", ~Explained(c)
               PROVE  FALSE
    BY DEF Refusals
  <2>1. ServerRefuses(c)
    BY OnlyServerRefuses
  <2>2. call[c].at = "SENT" /\ (Acceptable(call[c]) => Noisy(call[c]))
    BY <2>1 DEF ServerRefuses
  <2>3. Acceptable(call[c])
    BY <2>2, SoundCallsAreAcceptable
  <2> QED BY <2>2, <2>3 DEF Explained
<1>2. CartSpec => [][Refusals]_cartVars
  <2> HIDE DEF Refusals
  <2> QED BY <1>1, CartHolds, PTL DEF CartSpec
<1> QED BY <1>2 DEF RefusalsExplained, Refusals
=============================================================================
