---------------------------- MODULE OfflineSales ----------------------------
(***************************************************************************)
(* Selling through an unreliable network.  The till in a browser tab sends *)
(* every checkout under an id of its own (offlineId).  When the network    *)
(* fails the sale is kept in a queue in IndexedDB, which the tabs of a     *)
(* device share, and a later pass sends the queued sales again under the   *)
(* same ids.  The server returns the original sale of an id it knows.      *)
(*                                                                         *)
(* One shift of one cashier is modelled, and the sales rung up in it.  A   *)
(* call that the client has given up on may still reach the server.        *)
(***************************************************************************)
EXTENDS Integers, FiniteSets

CONSTANTS
  MaxSales,    \* bound on the sales; sale i is created before sale i + 1
  Devices,     \* browsers, each with a queue
  Tabs,        \* tabs that show the till
  DeviceOf,    \* the device of each tab
  Unapproved,  \* sales with a discount below cost: the server wants an approval, and
               \* no till has one to send
  Closers,     \* tabs where the shift may be closed
  Strangers,   \* whether other cashiers sign in
  AutoCloses,  \* whether the scheduler may close the shift
  Lapses       \* whether sessions lapse: tokens expire, and a page that comes back
               \* offline has none

ASSUME SalesBound  == MaxSales \in Nat
ASSUME TabsOnDevices == DeviceOf \in [Tabs -> Devices]
ASSUME SalesBelowCost == Unapproved \subseteq 1 .. MaxSales
ASSUME ClosingTabs == Closers \subseteq Tabs
ASSUME Switches    == {Strangers, AutoCloses, Lapses} \subseteq BOOLEAN

Sales == 1 .. MaxSales
Nobody == "nobody"

VARIABLES
  shift,  \* "OPEN" or "CLOSED"
  rows,   \* rows[i]: number of Sale rows with the offlineId of sale i
  till,   \* till[i]: the sale as the customer sees it
  queue,  \* queue[d][i]: the entry of sale i in the queue of d
  calls,  \* checkout calls between a tab and the server
  tab     \* state of each tab

vars == <<shift, rows, till, queue, calls, tab>>

Call == [sale : Sales, tab : Tabs \cup {Nobody}, for : {"till", "replay"},
         authorised : BOOLEAN, at : {"sent", "body", "ok", "error"}]

\* up: the page is loaded; believes: state.verifiedShift matches; own: the
\* cashier of the shift is the one signed in; token: the page sends a token
\* that is valid; replaying and todo: a pass of replayOfflineSales; closing: how
\* far closeShiftFromDialog has come; awaits: it waits for its own pass.
Tab == [up : BOOLEAN, believes : BOOLEAN, own : BOOLEAN, token : BOOLEAN,
        replaying : BOOLEAN, todo : SUBSET Sales, closing : {"no", "sync", "close"},
        awaits : BOOLEAN]

Queued(d) == {i \in Sales : queue[d][i] # "absent"}
CallsOf(t, for) == {c \in calls : c.tab = t /\ c.for = for}
InOrder(S) == {i \in S : \A j \in S : i <= j}

Init ==
  /\ shift = "OPEN"
  /\ rows = [i \in Sales |-> 0]
  /\ till = [i \in Sales |-> "cart"]
  /\ queue = [d \in Devices |-> [i \in Sales |-> "absent"]]
  /\ calls = {}
  /\ tab = [t \in Tabs |-> [up |-> TRUE, believes |-> TRUE, own |-> TRUE, token |-> TRUE,
                            replaying |-> FALSE, todo |-> {}, closing |-> "no",
                            awaits |-> FALSE]]

-----------------------------------------------------------------------------
(* The server.                                                             *)

Advance(c, at) == calls' = (calls \ {c}) \cup {[c EXCEPT !.at = at]}

\* The session middleware asks for a valid token and that the sale is of the
\* cashier it names.
Unauthorised(c) ==
  /\ c.at = "sent"
  /\ ~c.authorised
  /\ Advance(c, "error")
  /\ UNCHANGED <<shift, rows, till, queue, tab>>

\* checkout looks the id up before it begins its transaction.
Lookup(c) ==
  /\ c.at = "sent"
  /\ c.authorised
  /\ Advance(c, IF rows[c.sale] > 0 THEN "ok" ELSE "body")
  /\ UNCHANGED <<shift, rows, till, queue, tab>>

\* Mutant: the id has no unique key.
CompleteAnyway(c) ==
  /\ c.at = "body"
  /\ c.sale \notin Unapproved
  /\ shift = "OPEN"
  /\ rows' = [rows EXCEPT ![c.sale] = @ + 1]
  /\ Advance(c, "ok")
  /\ UNCHANGED <<shift, till, queue, tab>>

Complete(c) ==
  /\ c.at = "body"
  /\ c.sale \notin Unapproved
  /\ shift = "OPEN"
  /\ rows[c.sale] = 0
  /\ rows' = [rows EXCEPT ![c.sale] = 1]
  /\ Advance(c, "ok")
  /\ UNCHANGED <<shift, till, queue, tab>>

\* The transaction fails: the shift is closed, the id has been written since it
\* was looked up, a discount is below cost, or for any reason of the sale's own.
Refuse(c) ==
  /\ c.at = "body"
  /\ Advance(c, "error")
  /\ UNCHANGED <<shift, rows, till, queue, tab>>

\* A call without a client is over, or never arrives.
Forget(c) ==
  /\ c.tab = Nobody
  /\ calls' = calls \ {c}
  /\ UNCHANGED <<shift, rows, till, queue, tab>>

AutoClose ==
  /\ AutoCloses
  /\ shift = "OPEN"
  /\ shift' = "CLOSED"
  /\ UNCHANGED <<rows, till, queue, calls, tab>>

-----------------------------------------------------------------------------
(* The till.                                                               *)

\* canCheckout: the shift that was last verified is this cashier's.
CanCheckout(t) == tab[t].up /\ tab[t].believes /\ tab[t].own

Send(i, t, for, authorised) ==
  calls' = calls \cup {[sale |-> i, tab |-> t, for |-> for, authorised |-> authorised,
                        at |-> "sent"]}

\* An expired token is refused like any sale: the page does not notice.
Pay(t, i) ==
  /\ CanCheckout(t)
  /\ CallsOf(t, "till") = {}
  /\ i \in InOrder({j \in Sales : till[j] = "cart"})
  /\ till' = [till EXCEPT ![i] = "asking"]
  /\ Send(i, t, "till", tab[t].token)
  /\ UNCHANGED <<shift, rows, queue, tab>>

\* The sale has a receipt, and the shift is verified again.
PayDone(c) ==
  /\ c.tab # Nobody /\ c.for = "till" /\ c.at = "ok"
  /\ calls' = calls \ {c}
  /\ till' = [till EXCEPT ![c.sale] = "receipted"]
  /\ tab' = [tab EXCEPT ![c.tab].believes = (shift = "OPEN")]
  /\ UNCHANGED <<shift, rows, queue>>

\* An error is shown; the cart is paid again under another id or not at all.
PayRefused(c) ==
  /\ c.tab # Nobody /\ c.for = "till" /\ c.at = "error"
  /\ calls' = calls \ {c}
  /\ till' = [till EXCEPT ![c.sale] = "refused"]
  /\ UNCHANGED <<shift, rows, queue, tab>>

\* What is left of calls whose client is gone: the server may not have finished.
\* A call that it only refuses leaves nothing.
Orphans(S) ==
  {[c EXCEPT !.tab = Nobody] :
     c \in {e \in S : e.at \in {"sent", "body"} /\ e.authorised /\ e.sale \notin Unapproved}}

Put(t, i, status) == queue' = [queue EXCEPT ![DeviceOf[t]][i] = status]

\* The network fails a checkout: queueOfflineSale.
PayLost(c) ==
  /\ c.tab # Nobody /\ c.for = "till"
  /\ calls' = (calls \ {c}) \cup Orphans({c})
  /\ IF CanCheckout(c.tab)
     THEN till' = [till EXCEPT ![c.sale] = "receipted"] /\ Put(c.tab, c.sale, "PENDING")
     ELSE till' = [till EXCEPT ![c.sale] = "refused"] /\ UNCHANGED queue
  /\ UNCHANGED <<shift, rows, tab>>

-----------------------------------------------------------------------------
(* Sending queued sales again: replayOfflineSales.                         *)

\* Mutant: entries for review are passed over.
PassOfPending(row, d) ==
  [row EXCEPT !.replaying = TRUE, !.todo = {i \in Sales : queue[d][i] = "PENDING"}]

\* All entries are sent again, those for review too.
Pass(row, d) == [row EXCEPT !.replaying = TRUE, !.todo = Queued(d)]

\* The browser comes online, someone presses Sync now or signs in, or a session is
\* restored: the handler first asks for the catalogue or the shift, and may fail
\* before it comes to this.  No timer does it.
ReplayBegin(t) ==
  /\ tab[t].up
  /\ ~tab[t].replaying
  /\ tab' = [tab EXCEPT ![t] = Pass(@, DeviceOf[t])]
  /\ UNCHANGED <<shift, rows, till, queue, calls>>

ReplaySend(t) ==
  /\ tab[t].replaying
  /\ CallsOf(t, "replay") = {}
  /\ \E i \in InOrder(tab[t].todo) :
       /\ tab' = [tab EXCEPT ![t].todo = @ \ {i}]
       /\ Send(i, t, "replay", tab[t].token /\ tab[t].own)
  /\ UNCHANGED <<shift, rows, till, queue>>

ReplayDone(c) ==
  /\ c.tab # Nobody /\ c.for = "replay" /\ c.at = "ok"
  /\ calls' = calls \ {c}
  /\ Put(c.tab, c.sale, "absent")
  /\ UNCHANGED <<shift, rows, till, tab>>

\* Mutant: a refused sale is dropped from the queue.
ReplayRefusedDropping(c) ==
  /\ c.tab # Nobody /\ c.for = "replay" /\ c.at = "error"
  /\ calls' = calls \ {c}
  /\ Put(c.tab, c.sale, "absent")
  /\ UNCHANGED <<shift, rows, till, tab>>

\* The entry as the pass has read it goes back into the queue, for review.
ReplayRefused(c) ==
  /\ c.tab # Nobody /\ c.for = "replay" /\ c.at = "error"
  /\ calls' = calls \ {c}
  /\ Put(c.tab, c.sale, "NEEDS_REVIEW")
  /\ UNCHANGED <<shift, rows, till, tab>>

\* So it does when there is no answer.
ReplayLost(c) ==
  /\ c.tab # Nobody /\ c.for = "replay"
  /\ calls' = (calls \ {c}) \cup Orphans({c})
  /\ Put(c.tab, c.sale, "NEEDS_REVIEW")
  /\ UNCHANGED <<shift, rows, till, tab>>

ReplayEnd(t) ==
  /\ tab[t].replaying
  /\ tab[t].todo = {}
  /\ CallsOf(t, "replay") = {}
  /\ tab' = [tab EXCEPT ![t].replaying = FALSE]
  /\ UNCHANGED <<shift, rows, till, queue, calls>>

-----------------------------------------------------------------------------
(* Closing the shift: closeShiftFromDialog; and leaving the page.          *)

\* A pass that is already running makes replayOfflineSales return at once.
CloseBegin(t) ==
  /\ t \in Closers
  /\ tab[t].up
  /\ tab[t].believes
  /\ tab[t].closing = "no"
  /\ LET row == [tab[t] EXCEPT !.closing = "sync", !.awaits = ~tab[t].replaying]
     IN  tab' = [tab EXCEPT ![t] = IF row.awaits THEN Pass(row, DeviceOf[t]) ELSE row]
  /\ UNCHANGED <<shift, rows, till, queue, calls>>

CloseCheck(t) ==
  /\ tab[t].closing = "sync"
  /\ tab[t].awaits => ~tab[t].replaying
  /\ tab' = [tab EXCEPT ![t].closing = IF Queued(DeviceOf[t]) = {} THEN "close" ELSE "no"]
  /\ UNCHANGED <<shift, rows, till, queue, calls>>

CloseShift(t) ==
  /\ tab[t].closing = "close"
  /\ shift' = "CLOSED"
  /\ tab' = [tab EXCEPT ![t].closing = "no", ![t].believes = FALSE]
  /\ UNCHANGED <<rows, till, queue, calls>>

\* A reload keeps the queue and the session and forgets all else.
Reload(t) ==
  LET mine == {c \in calls : c.tab = t}
  IN  /\ tab[t].up
      /\ calls' = (calls \ mine) \cup Orphans(mine)
      /\ till' = [i \in Sales |-> IF \E c \in mine : c.for = "till" /\ c.sale = i
                                  THEN "refused" ELSE till[i]]
      /\ tab' = [tab EXCEPT ![t] = [@ EXCEPT !.up = FALSE, !.replaying = FALSE,
                                             !.todo = {}, !.closing = "no", !.awaits = FALSE]]
      /\ UNCHANGED <<shift, rows, queue>>

\* restorePersistentSession: the stored token is still good, or the cashier
\* signs in again; the shift is asked for, and then a pass may begin.
Restore(t) ==
  /\ ~tab[t].up
  /\ tab' = [tab EXCEPT ![t].up = TRUE, ![t].token = TRUE, ![t].believes = (shift = "OPEN")]
  /\ UNCHANGED <<shift, rows, till, queue, calls>>

\* restoreOfflineSession: the page trusts what it knew of the shift and has no
\* token, also when the network is back.
RestoreOffline(t) ==
  /\ Lapses
  /\ ~tab[t].up
  /\ tab' = [tab EXCEPT ![t].up = TRUE, ![t].token = FALSE]
  /\ UNCHANGED <<shift, rows, till, queue, calls>>

\* The page is left by signing out, and another cashier signs in, or the same
\* one for a new token; the page asks for the shift, and then a pass may begin.
SignIn(t) ==
  /\ tab[t].up
  /\ {c \in calls : c.tab = t} = {}
  /\ \E own \in BOOLEAN :
       /\ IF own = tab[t].own THEN ~tab[t].token ELSE Strangers
       /\ tab' = [tab EXCEPT ![t] = [up |-> TRUE, believes |-> shift = "OPEN", own |-> own,
                                    token |-> TRUE, replaying |-> FALSE, todo |-> {},
                                    closing |-> "no", awaits |-> FALSE]]
  /\ UNCHANGED <<shift, rows, till, queue, calls>>

\* Twelve hours are over, or the server has come back with another secret.
Expire(t) ==
  /\ Lapses
  /\ tab[t].token
  /\ tab' = [tab EXCEPT ![t].token = FALSE]
  /\ UNCHANGED <<shift, rows, till, queue, calls>>

-----------------------------------------------------------------------------
Server == \E c \in calls : Unauthorised(c) \/ Lookup(c) \/ Complete(c) \/ Refuse(c) \/ Forget(c)
Till   == \/ \E t \in Tabs, i \in Sales : Pay(t, i)
          \/ \E c \in calls : PayDone(c) \/ PayRefused(c) \/ PayLost(c)
Replay == \/ \E t \in Tabs : ReplayBegin(t) \/ ReplaySend(t) \/ ReplayEnd(t)
          \/ \E c \in calls : ReplayDone(c) \/ ReplayRefused(c) \/ ReplayLost(c)
Close  == \/ AutoClose
          \/ \E t \in Tabs : CloseBegin(t) \/ CloseCheck(t) \/ CloseShift(t)
Leave  == \E t \in Tabs : \/ Reload(t) \/ Restore(t) \/ RestoreOffline(t)
                           \/ SignIn(t) \/ Expire(t)

Next == Server \/ Till \/ Replay \/ Close \/ Leave

Spec == Init /\ [][Next]_vars

OfSale(i) == {c \in calls : c.sale = i /\ c.for = "replay" /\ c.tab # Nobody}

\* A pass of the tab goes on.
PassGoesOn(t) ==
  \/ ReplaySend(t) \/ ReplayEnd(t)
  \/ \E c \in CallsOf(t, "replay") : \/ Unauthorised(c) \/ Lookup(c) \/ Complete(c) \/ Refuse(c)
                                     \/ ReplayDone(c) \/ ReplayRefused(c)

\* A pass that has begun runs to its end, and of the calls of one sale that passes
\* make again and again not all are lost or refused.  Nothing makes a pass begin.
FairSpec ==
  /\ Spec
  /\ \A t \in Tabs : WF_vars(PassGoesOn(t))
  /\ \A i \in Sales \ Unapproved :
       /\ SF_vars(\E c \in OfSale(i) : Lookup(c))
       /\ SF_vars(\E c \in OfSale(i) : Complete(c))
       /\ SF_vars(\E c \in OfSale(i) : ReplayDone(c))

-----------------------------------------------------------------------------
(* Properties.                                                             *)

\* Rows, calls and tabs hold values of their types; a tab has at most one
\* checkout and one replay under way.
TypeOK ==
  /\ shift \in {"OPEN", "CLOSED"}
  /\ rows \in [Sales -> Nat]
  /\ till \in [Sales -> {"cart", "asking", "receipted", "refused"}]
  /\ queue \in [Devices -> [Sales -> {"absent", "PENDING", "NEEDS_REVIEW"}]]
  /\ calls \subseteq Call
  /\ tab \in [Tabs -> Tab]
  /\ \A t \in Tabs, for \in {"till", "replay"} : Cardinality(CallsOf(t, for)) <= 1

\* Retrying an id never makes a second sale, whichever calls of it overlap at
\* the server: an orphan of the first attempt, a pass in each of two tabs.
OneSalePerId == \A i \in Sales : rows[i] <= 1

\* A sale whose customer has a receipt is on the server or in a queue at all
\* times, through lost answers, reloads and passes that race.
ReceiptsKept ==
  \A i \in Sales : till[i] = "receipted" => rows[i] > 0 \/ \E d \in Devices : i \in Queued(d)

\* A sale that a pass puts back for review, when another has taken it off the
\* queue meanwhile, is on the server already.
PutBackWasRecorded ==
  [][\A d \in Devices, i \in Sales :
       queue[d][i] = "absent" /\ queue'[d][i] = "NEEDS_REVIEW" => rows[i] = 1]_vars

\* Passes of tab t are under way again and again, of the shift's cashier with a
\* token, and in the end none is cut off.
PassesComeAgain(t) ==
  /\ []<>(tab[t].replaying /\ tab[t].token /\ tab[t].own)
  /\ <>[][~Reload(t) /\ ~Expire(t)]_vars

\* While passes of a tab of the device come again and again, as they do when the
\* browser comes online or someone presses Sync now, signs in or closes, a queued
\* sale reaches the server, unless its shift is closed first or it needs an
\* approval that no till asks for.  Without them it waits.
QueuedSalesSync ==
  \A t \in Tabs, i \in Sales \ Unapproved :
    PassesComeAgain(t) =>
      (i \in Queued(DeviceOf[t])
         ~> (i \notin Queued(DeviceOf[t]) /\ rows[i] = 1) \/ shift = "CLOSED")

=============================================================================
