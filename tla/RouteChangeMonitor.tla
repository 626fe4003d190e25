------------------------ MODULE RouteChangeMonitor ------------------------
(***************************************************************************)
(* route/cmd/route/main_windows.go: run registers a callback for changes   *)
(* of the routing table and waits for a signal.  The callback runs on      *)
(* threads of the system and sends each notification on an unbuffered      *)
(* channel; one consumer goroutine receives, asks the system for the route *)
(* again and logs it.  The first of the two initial notifications makes it *)
(* log the table.                                                          *)
(*                                                                         *)
(* The system is not part of the repository.  Of it this module assumes    *)
(* what the code relies on: a change of the table while a registration is  *)
(* active makes one callback for the route, callbacks come in any order    *)
(* and may overlap, NotifyRouteChange2 returns after the callbacks of its  *)
(* initial notifications have, and CancelMibChangeNotify2, unless it       *)
(* fails, after every callback that has started.                           *)
(***************************************************************************)
EXTENDS Naturals, FiniteSets

CONSTANTS
    Route,
    DefaultRoute,   \* the routes whose destination is 0.0.0.0/0 or ::/0
    Metric,         \* what a row says of a route that may change
    DumpAll,        \* the flag of the same name
    MaxChanges,     \* bound: how often the system changes its table
    nil

ASSUME MonitorAssumption ==
    /\ DefaultRoute \subseteq Route
    /\ DumpAll \in BOOLEAN
    /\ MaxChanges \in Nat
    /\ nil \notin Metric \cup Route
    /\ "initial" \notin Route

InitialNotifications == 2   \* with AF_UNSPEC, one per address family

Notification == Route \cup {"initial"}
NoCallbacks == [m \in Notification |-> 0]

VARIABLES
    table,        \* the system's rows: the metric of each route, nil if none
    active,       \* whether a registration is active
    queued,       \* callbacks to come, how many for each notification
    calling,      \* callbacks blocked in their send on notifyCh
    changes,      \* how often the table has changed
    main,         \* where the goroutine of run is
    signalled,    \* whether ctx is done
    closed,       \* whether notifyCh is closed
    consumer,     \* the consumer goroutine: pc, and what it is handling
    initialNotificationHandled,
    logged,       \* the last metric logged for each route, nil if none
    panicked,     \* whether a callback has sent on the closed channel
    cancelFailed, \* history: whether CancelMibChangeNotify2 has failed
    reported      \* history: the routes whose current row should be logged

systemVars == <<table, queued, changes>>
consumerVars == <<consumer, initialNotificationHandled, logged>>
vars == <<table, active, queued, calling, changes, main, signalled, closed,
          consumer, initialNotificationHandled, logged, panicked,
          cancelFailed, reported>>

Row == [route : Route, metric : Metric]
Consuming(pc) == [pc |-> pc, msg |-> nil, rows |-> {}]

Init ==
    /\ table \in [Route -> Metric \cup {nil}]
    /\ active = FALSE
    /\ queued = NoCallbacks
    /\ calling = NoCallbacks
    /\ changes = 0
    /\ main = "start"
    /\ signalled = FALSE
    /\ closed = FALSE
    /\ consumer = Consuming("not started")
    /\ initialNotificationHandled = FALSE
    /\ logged = [r \in Route |-> nil]
    /\ panicked = FALSE
    /\ cancelFailed = FALSE
    /\ reported = {}

\* After a panic, and when run has returned, the process is gone.
Exited == main = "done" \/ panicked

-----------------------------------------------------------------------------
(* The system.                                                             *)

ChangeTable(r, metric) ==
    /\ ~Exited
    /\ changes < MaxChanges
    /\ metric # table[r]
    /\ changes' = changes + 1
    /\ table' = [table EXCEPT ![r] = metric]
    /\ IF active
           THEN /\ queued' = [queued EXCEPT ![r] = @ + 1]
                /\ reported' = reported \cup {r}
           ELSE UNCHANGED <<queued, reported>>
    /\ UNCHANGED <<active, calling, main, signalled, closed, consumerVars,
                   panicked, cancelFailed>>

\* notifyRouteChange2Callback, as far as its send.  A send on a closed
\* channel panics, and so does one that is blocked when the channel closes.
StartCallback(m) ==
    /\ ~Exited
    /\ active
    /\ queued[m] > 0
    /\ queued' = [queued EXCEPT ![m] = @ - 1]
    /\ calling' = [calling EXCEPT ![m] = @ + 1]
    /\ panicked' = (panicked \/ closed)
    /\ UNCHANGED <<table, active, changes, main, signalled, closed,
                   consumerVars, cancelFailed, reported>>

Signal ==
    /\ ~Exited
    /\ ~signalled
    /\ signalled' = TRUE
    /\ UNCHANGED <<systemVars, active, calling, main, closed, consumerVars,
                   panicked, cancelFailed, reported>>

-----------------------------------------------------------------------------
(* run.                                                                    *)

StartConsumer ==
    /\ ~Exited
    /\ main = "start"
    /\ main' = "register"
    /\ consumer' = Consuming("receive")
    /\ UNCHANGED <<systemVars, active, calling, signalled, closed,
                   initialNotificationHandled, logged, panicked, cancelFailed,
                   reported>>

\* The call of NotifyRouteChange2, which makes the initial callbacks.
Register ==
    /\ ~Exited
    /\ main = "register"
    /\ main' = "registering"
    /\ active' = TRUE
    /\ calling' = [calling EXCEPT !["initial"] = InitialNotifications]
    /\ UNCHANGED <<systemVars, signalled, closed, consumerVars, panicked,
                   cancelFailed, reported>>

RegisterReturns ==
    /\ ~Exited
    /\ main = "registering"
    /\ calling["initial"] = 0
    /\ main' = "waiting"
    /\ UNCHANGED <<systemVars, active, calling, signalled, closed,
                   consumerVars, panicked, cancelFailed, reported>>

RegisterFails ==
    /\ ~Exited
    /\ main = "register"
    /\ main' = "close"
    /\ UNCHANGED <<systemVars, active, calling, signalled, closed,
                   consumerVars, panicked, cancelFailed, reported>>

\* Seeded fault: the registration is not cancelled.
CancelForgotten ==
    /\ ~Exited
    /\ main = "waiting"
    /\ signalled
    /\ main' = "close"
    /\ UNCHANGED <<systemVars, active, calling, signalled, closed,
                   consumerVars, panicked, cancelFailed, reported>>

\* <-ctx.Done(), and the call of CancelMibChangeNotify2.
Cancel ==
    /\ ~Exited
    /\ main = "waiting"
    /\ signalled
    /\ main' = "canceling"
    /\ UNCHANGED <<systemVars, active, calling, signalled, closed,
                   consumerVars, panicked, cancelFailed, reported>>

CancelReturns ==
    /\ ~Exited
    /\ main = "canceling"
    /\ calling = NoCallbacks
    /\ main' = "close"
    /\ active' = FALSE
    /\ queued' = NoCallbacks
    /\ UNCHANGED <<table, changes, calling, signalled, closed, consumerVars,
                   panicked, cancelFailed, reported>>

CancelFails ==
    /\ ~Exited
    /\ main = "canceling"
    /\ main' = "close"
    /\ cancelFailed' = TRUE
    /\ UNCHANGED <<systemVars, active, calling, signalled, closed,
                   consumerVars, panicked, reported>>

\* The deferred close(notifyCh).
Close ==
    /\ ~Exited
    /\ main = "close"
    /\ main' = "wait"
    /\ closed' = TRUE
    /\ panicked' = (panicked \/ calling # NoCallbacks)
    /\ UNCHANGED <<systemVars, active, calling, signalled, consumerVars,
                   cancelFailed, reported>>

\* The deferred wg.Wait().
Return ==
    /\ ~Exited
    /\ main = "wait"
    /\ consumer.pc = "done"
    /\ main' = "done"
    /\ UNCHANGED <<systemVars, active, calling, signalled, closed,
                   consumerVars, panicked, cancelFailed, reported>>

-----------------------------------------------------------------------------
(* The consumer goroutine.                                                 *)

\* Seeded fault: changes that come before the dump are dropped.
ReceiveAfterDump(m) ==
    /\ ~Exited
    /\ consumer.pc = "receive"
    /\ calling[m] > 0
    /\ calling' = [calling EXCEPT ![m] = @ - 1]
    /\ consumer' = IF m = "initial" \/ initialNotificationHandled
                       THEN [pc |-> "handle", msg |-> m, rows |-> {}]
                       ELSE Consuming("receive")
    /\ UNCHANGED <<systemVars, active, main, signalled, closed,
                   initialNotificationHandled, logged, panicked, cancelFailed,
                   reported>>

Receive(m) ==
    /\ ~Exited
    /\ consumer.pc = "receive"
    /\ calling[m] > 0
    /\ calling' = [calling EXCEPT ![m] = @ - 1]
    /\ consumer' = [pc |-> "handle", msg |-> m, rows |-> {}]
    /\ UNCHANGED <<systemVars, active, main, signalled, closed,
                   initialNotificationHandled, logged, panicked, cancelFailed,
                   reported>>

\* Seeded fault: the consumer ends on the signal, not with the channel.
ReceiveSignalled ==
    /\ ~Exited
    /\ consumer.pc = "receive"
    /\ signalled
    /\ consumer' = Consuming("done")
    /\ UNCHANGED <<systemVars, active, calling, main, signalled, closed,
                   initialNotificationHandled, logged, panicked, cancelFailed,
                   reported>>

ReceiveClosed ==
    /\ ~Exited
    /\ consumer.pc = "receive"
    /\ closed
    /\ consumer' = Consuming("done")
    /\ UNCHANGED <<systemVars, active, calling, main, signalled, closed,
                   initialNotificationHandled, logged, panicked, cancelFailed,
                   reported>>

\* Seeded fault: a row that was not found is logged like any other.
QueryRouteUnchecked(r) ==
    /\ ~Exited
    /\ consumer.pc = "handle"
    /\ consumer.msg = r
    /\ consumer' = [consumer EXCEPT !.pc = "log",
                       !.rows = {[route |-> r, metric |-> table[r]]}]
    /\ UNCHANGED <<systemVars, active, calling, main, signalled, closed,
                   initialNotificationHandled, logged, panicked, cancelFailed,
                   reported>>

\* GetIpForwardEntry2: the row as it is now, ERROR_NOT_FOUND, or another error.
QueryRoute(r) ==
    /\ ~Exited
    /\ consumer.pc = "handle"
    /\ consumer.msg = r
    /\ \/ /\ table[r] # nil
          /\ consumer' = [consumer EXCEPT !.pc = "log",
                              !.rows = {[route |-> r, metric |-> table[r]]}]
          /\ UNCHANGED reported
       \/ /\ table[r] = nil
          /\ consumer' = Consuming("receive")
          /\ UNCHANGED reported
       \/ /\ consumer' = Consuming("receive")
          /\ reported' = reported \ {r}
    /\ UNCHANGED <<systemVars, active, calling, main, signalled, closed,
                   initialNotificationHandled, logged, panicked, cancelFailed>>

\* The rows that logMibIpForwardRow2 does not leave out of the dump.
Dumped == IF DumpAll THEN Route ELSE DefaultRoute

\* GetIpForwardTable2, once.
QueryTable ==
    /\ ~Exited
    /\ consumer.pc = "handle"
    /\ consumer.msg = "initial"
    /\ initialNotificationHandled' = TRUE
    /\ \/ /\ initialNotificationHandled
          /\ consumer' = Consuming("receive")
          /\ UNCHANGED reported
       \/ /\ ~initialNotificationHandled
          /\ consumer' = [consumer EXCEPT !.pc = "log",
                              !.rows = {[route |-> r, metric |-> table[r]] :
                                 r \in {d \in Dumped : table[d] # nil}}]
          /\ reported' = reported \cup Dumped
       \/ /\ ~initialNotificationHandled
          /\ consumer' = Consuming("receive")
          /\ UNCHANGED reported
    /\ UNCHANGED <<systemVars, active, calling, main, signalled, closed,
                   logged, panicked, cancelFailed>>

LogRow(row) ==
    /\ ~Exited
    /\ consumer.pc = "log"
    /\ row \in consumer.rows
    /\ logged' = [logged EXCEPT ![row.route] = row.metric]
    /\ consumer' = [consumer EXCEPT !.rows = @ \ {row}]
    /\ UNCHANGED <<systemVars, active, calling, main, signalled, closed,
                   initialNotificationHandled, panicked, cancelFailed, reported>>

EndLog ==
    /\ ~Exited
    /\ consumer.pc = "log"
    /\ consumer.rows = {}
    /\ consumer' = Consuming("receive")
    /\ UNCHANGED <<systemVars, active, calling, main, signalled, closed,
                   initialNotificationHandled, logged, panicked, cancelFailed,
                   reported>>

-----------------------------------------------------------------------------
System ==
    \/ \E r \in Route, metric \in Metric \cup {nil} : ChangeTable(r, metric)
    \/ \E m \in Notification : StartCallback(m)
    \/ Signal

Run ==
    \/ StartConsumer \/ Register \/ RegisterReturns
    \/ Cancel \/ CancelReturns \/ Close \/ Return

RunFails == RegisterFails \/ CancelFails

Consume ==
    \/ \E m \in Notification : Receive(m)
    \/ ReceiveClosed
    \/ \E r \in Route : QueryRoute(r)
    \/ QueryTable
    \/ \E row \in consumer.rows : LogRow(row)
    \/ EndLog

Next == System \/ Run \/ RunFails \/ Consume

Spec == Init /\ [][Next]_vars

\* Goroutines and the threads of the system keep running.  A call that blocks
\* may block for ever: no fairness makes it fail.
FairSpec ==
    /\ Spec
    /\ WF_vars(Run)
    /\ WF_vars(Consume)
    /\ WF_vars(\E m \in Notification : StartCallback(m))

-----------------------------------------------------------------------------
(* Properties.                                                             *)

TypeOK ==
    /\ table \in [Route -> Metric \cup {nil}]
    /\ queued \in [Notification -> Nat]
    /\ calling \in [Notification -> Nat]
    /\ changes \in 0 .. MaxChanges
    /\ main \in {"start", "register", "registering", "waiting", "canceling",
                 "close", "wait", "done"}
    /\ consumer \in [pc : {"not started", "receive", "handle", "log", "done"},
                     msg : Notification \cup {nil}, rows : SUBSET Row]
    /\ logged \in [Route -> Metric \cup {nil}]
    /\ reported \subseteq Route
    /\ {active, signalled, closed, initialNotificationHandled, panicked,
        cancelFailed} \subseteq BOOLEAN

\* The callbacks hold a pointer to a channel that run closes: as long as
\* CancelMibChangeNotify2 does its work no callback meets it closed, in
\* whatever order changes, callbacks, the signal and the handler come.
NoSendOnClosed == panicked => cancelFailed

\* Something is still on its way to the log for route r.
Outstanding(r) ==
    \/ queued[r] > 0
    \/ calling[r] > 0
    \/ consumer.msg = r
    \/ \E row \in consumer.rows : row.route = r

\* Notifications come late and in any order, and carry no metric that could
\* be trusted then: the handler asks for the route again.  So what the log
\* last said of a route that exists is what the table says, unless a
\* notification for it is still to be handled or a query has failed.
LogIsCurrent ==
    main = "waiting" =>
        \A r \in reported :
            table[r] = nil \/ Outstanding(r) \/ logged[r] = table[r]

\* A callback blocks its thread of the system until the consumer receives.  So
\* the consumer is there before the first callback and outlives the last one,
\* unless the cancellation has failed.
ConsumerOutlivesCallbacks ==
    consumer.pc \in {"not started", "done"} => calling = NoCallbacks \/ cancelFailed

\* "NotifyRouteChange2 sends initial notifications and blocks until the
\* callback calls return" (main_windows.go:75-77), and so does the
\* cancellation for its part: a signal always ends the program, and no failure
\* of a call that would wait for ever is needed for it.
SignalEndsRun == signalled ~> Exited
=============================================================================
