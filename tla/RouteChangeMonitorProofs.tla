---------------------- MODULE RouteChangeMonitorProofs ----------------------
(***************************************************************************)
(* Proofs about RouteChangeMonitor, for every set of routes and metrics,   *)
(* any number of changes of the table, and with and without dumpAll.       *)
(***************************************************************************)
EXTENDS RouteChangeMonitor, TLAPS

(***************************************************************************)
(* The inductive invariant.                                                *)
(***************************************************************************)

\* How far run is says whether a registration and callbacks can exist: none
\* before it, and none after it unless the cancellation has failed.
RunInv ==
    /\ main \in {"start", "register"} =>
           /\ ~active /\ calling = NoCallbacks /\ reported = {}
           /\ consumer.pc \in {"not started", "receive"}
    /\ main \in {"registering", "waiting", "canceling"} => active
    /\ main \in {"close", "wait", "done"} =>
           cancelFailed \/ (~active /\ calling = NoCallbacks)
    /\ closed => main \in {"wait", "done"}
    /\ panicked => cancelFailed

\* The consumer runs from before the registration until the channel closes,
\* and holds rows only while it logs them, at most one of each route.
ConsumerInv ==
    /\ consumer.pc = "not started" => main = "start"
    /\ consumer.pc = "done" => closed
    /\ consumer.pc # "log" => consumer.rows = {}
    /\ \A row1, row2 \in consumer.rows : row1.route = row2.route => row1 = row2

\* What keeps the log of route r current: there is nothing to log, a callback
\* is still to come or to be received, the query is still to be made, the row
\* that it has returned is current and still to be logged, or it is logged
\* and no older row can come after it.
Current(r) ==
    \/ table[r] = nil
    \/ queued[r] > 0
    \/ calling[r] > 0
    \/ consumer.pc = "handle" /\ consumer.msg = r
    \/ \E row \in consumer.rows : row.route = r /\ row.metric = table[r]
    \/ logged[r] = table[r] /\ \A row \in consumer.rows : row.route # r

CurrentInv == active => \A r \in reported : Current(r)

IInv == TypeOK /\ RunInv /\ ConsumerInv /\ CurrentInv

\* What the steps need to know of the constants.
LEMMA Constants ==
    /\ Route \subseteq Notification /\ "initial" \in Notification
    /\ "initial" \notin Route /\ nil \notin Route /\ nil \notin Metric
    /\ DefaultRoute \subseteq Route
    /\ MaxChanges \in Nat
    /\ NoCallbacks \in [Notification -> Nat]
    /\ InitialNotifications \in Nat
BY MonitorAssumption DEF Notification, NoCallbacks, InitialNotifications

\* Counting a callback in, and out again.
LEMMA Increment ==
    ASSUME NEW q \in [Notification -> Nat], NEW m \in Notification
    PROVE  [q EXCEPT ![m] = @ + 1] \in [Notification -> Nat]
OBVIOUS

LEMMA Decrement ==
    ASSUME NEW q \in [Notification -> Nat], NEW m \in Notification, q[m] > 0
    PROVE  [q EXCEPT ![m] = @ - 1] \in [Notification -> Nat]
OBVIOUS

\* Every step keeps the types.
LEMMA TypeStep ==
    ASSUME TypeOK, [Next]_vars PROVE TypeOK'
<1> USE DEF systemVars, consumerVars
<1>1. ASSUME NEW r \in Route, NEW metric \in Metric \cup {nil}, ChangeTable(r, metric)
      PROVE  TypeOK'
  <2>1. r \in Notification /\ queued \in [Notification -> Nat]
    BY Constants DEF TypeOK
  <2>2. queued' = [queued EXCEPT ![r] = @ + 1] \/ queued' = queued
    BY <1>1 DEF ChangeTable
  <2>3. queued' \in [Notification -> Nat]
    <3>1. CASE queued' = queued
      BY <2>1, <3>1
    <3>2. CASE queued' = [queued EXCEPT ![r] = @ + 1]
      BY <2>1, <3>2, Increment
    <3> QED
      BY <2>2, <3>1, <3>2
  <2>4. table' \in [Route -> Metric \cup {nil}]
    BY <1>1 DEF ChangeTable, TypeOK
  <2>5. changes' \in 0 .. MaxChanges
    <3>1. MaxChanges \in Nat
      BY Constants
    <3>2. changes \in 0 .. MaxChanges
      BY DEF TypeOK
    <3>3. changes < MaxChanges /\ changes' = changes + 1
      BY <1>1 DEF ChangeTable
    <3> QED
      BY <3>1, <3>2, <3>3
  <2>6. reported' \subseteq Route
    BY <1>1 DEF ChangeTable, TypeOK
  <2> QED
    BY <1>1, <2>3, <2>4, <2>5, <2>6 DEF ChangeTable, TypeOK
<1>2. ASSUME NEW m \in Notification, StartCallback(m)
      PROVE  TypeOK'
  <2>1. queued \in [Notification -> Nat] /\ calling \in [Notification -> Nat]
    BY DEF TypeOK
  <2>2. queued' \in [Notification -> Nat]
    BY <1>2, <2>1, Decrement DEF StartCallback
  <2>3. calling' \in [Notification -> Nat]
    BY <1>2, <2>1, Increment DEF StartCallback
  <2>4. panicked' \in BOOLEAN
    BY <1>2 DEF StartCallback, TypeOK
  <2> QED
    BY <1>2, <2>2, <2>3, <2>4 DEF StartCallback, TypeOK
<1>3. CASE Signal
  BY <1>3, Constants DEF Signal, TypeOK
<1>4. CASE StartConsumer
  BY <1>4, Constants DEF StartConsumer, Consuming, TypeOK
<1>5. CASE Register
  BY <1>5, Constants DEF Register, TypeOK
<1>6. CASE RegisterReturns
  BY <1>6, Constants DEF RegisterReturns, TypeOK
<1>7. CASE RegisterFails
  BY <1>7, Constants DEF RegisterFails, TypeOK
<1>8. CASE Cancel
  BY <1>8, Constants DEF Cancel, TypeOK
<1>9. CASE CancelReturns
  BY <1>9, Constants DEF CancelReturns, TypeOK
<1>10. CASE CancelFails
  BY <1>10, Constants DEF CancelFails, TypeOK
<1>11. CASE Close
  BY <1>11, Constants DEF Close, TypeOK
<1>12. CASE Return
  BY <1>12, Constants DEF Return, TypeOK
<1>13. ASSUME NEW m \in Notification, Receive(m)
      PROVE  TypeOK'
  <2>1. calling' \in [Notification -> Nat]
    BY <1>13, Decrement DEF Receive, TypeOK
  <2>2. consumer' \in [pc : {"handle"}, msg : Notification \cup {nil}, rows : SUBSET Row]
    BY <1>13 DEF Receive
  <2> QED
    BY <1>13, <2>1, <2>2 DEF Receive, TypeOK
<1>14. CASE ReceiveClosed
  BY <1>14, Constants DEF ReceiveClosed, Consuming, TypeOK
<1>15. ASSUME NEW r \in Route, QueryRoute(r)
      PROVE  TypeOK'
  <2>1. CASE consumer' = Consuming("receive")
    BY <1>15, <2>1 DEF QueryRoute, Consuming, TypeOK
  <2>2. CASE /\ table[r] # nil /\ reported' = reported
             /\ consumer' = [consumer EXCEPT !.pc = "log",
                                 !.rows = {[route |-> r, metric |-> table[r]]}]
    <3>1. [route |-> r, metric |-> table[r]] \in Row
      BY <2>2 DEF Row, TypeOK
    <3>2. consumer' \in [pc : {"log"}, msg : Notification \cup {nil}, rows : SUBSET Row]
      BY <2>2, <3>1 DEF TypeOK
    <3> QED
      BY <1>15, <2>2, <3>2 DEF QueryRoute, TypeOK
  <2> QED
    BY <1>15, <2>1, <2>2 DEF QueryRoute
<1>16. CASE QueryTable
  <2>1. CASE consumer' = Consuming("receive") /\ reported' = reported
    BY <1>16, <2>1 DEF QueryTable, Consuming, TypeOK
  <2>2. CASE /\ consumer' = [consumer EXCEPT !.pc = "log",
                                 !.rows = {[route |-> r, metric |-> table[r]] :
                                    r \in {d \in Dumped : table[d] # nil}}]
             /\ reported' = reported \cup Dumped
    <3>1. Dumped \subseteq Route
      BY Constants DEF Dumped
    <3>2. {[route |-> r, metric |-> table[r]] :
              r \in {d \in Dumped : table[d] # nil}} \subseteq Row
      <4>1. ASSUME NEW r \in Dumped, table[r] # nil
            PROVE  [route |-> r, metric |-> table[r]] \in Row
        BY <3>1, <4>1 DEF Row, TypeOK
      <4> QED
        BY <4>1
    <3>3. consumer' \in [pc : {"log"}, msg : Notification \cup {nil}, rows : SUBSET Row]
      BY <2>2, <3>2 DEF TypeOK
    <3> QED
      BY <1>16, <2>2, <3>1, <3>3 DEF QueryTable, TypeOK
  <2> QED
    BY <1>16, <2>1, <2>2 DEF QueryTable
<1>17. ASSUME NEW row \in consumer.rows, LogRow(row)
      PROVE  TypeOK'
  <2>1. row.route \in Route /\ row.metric \in Metric
    BY DEF TypeOK, Row
  <2>2. logged' \in [Route -> Metric \cup {nil}]
    BY <1>17, <2>1 DEF LogRow, TypeOK
  <2>3. consumer' \in [pc : {"log"}, msg : Notification \cup {nil}, rows : SUBSET Row]
    BY <1>17 DEF LogRow, TypeOK
  <2> QED
    BY <1>17, <2>2, <2>3 DEF LogRow, TypeOK
<1>18. CASE EndLog
  BY <1>18, Constants DEF EndLog, Consuming, TypeOK
<1>19. CASE UNCHANGED vars
  BY <1>19, Constants DEF vars, TypeOK
<1> QED
  BY <1>1, <1>2, <1>3, <1>4, <1>5, <1>6, <1>7, <1>8, <1>9, <1>10, <1>11, <1>12, <1>13, <1>14, <1>15, <1>16, <1>17, <1>18, <1>19
     DEF Next, System, Run, RunFails, Consume

\* Every step keeps the order in which run goes on.
LEMMA RunStep ==
    ASSUME TypeOK, RunInv, ConsumerInv, [Next]_vars PROVE RunInv'
<1> USE DEF RunInv, systemVars, consumerVars
<1>1. ASSUME NEW r \in Route, NEW metric \in Metric \cup {nil}, ChangeTable(r, metric)
      PROVE  RunInv'
  BY <1>1 DEF ChangeTable
<1>2. ASSUME NEW m \in Notification, StartCallback(m)
      PROVE  RunInv'
  BY <1>2 DEF StartCallback
<1>3. CASE Signal
  BY <1>3 DEF Signal
<1>4. CASE StartConsumer
  BY <1>4 DEF StartConsumer, Consuming
<1>5. CASE Register
  BY <1>5 DEF Register
<1>6. CASE RegisterReturns
  BY <1>6 DEF RegisterReturns
<1>7. CASE RegisterFails
  BY <1>7 DEF RegisterFails
<1>8. CASE Cancel
  BY <1>8 DEF Cancel
<1>9. CASE CancelReturns
  BY <1>9 DEF CancelReturns
<1>10. CASE CancelFails
  BY <1>10 DEF CancelFails
<1>11. CASE Close
  BY <1>11 DEF Close
<1>12. CASE Return
  BY <1>12 DEF Return
<1>13. ASSUME NEW m \in Notification, Receive(m)
      PROVE  RunInv'
  <2>1. calling # NoCallbacks
    BY <1>13 DEF Receive, NoCallbacks
  <2> QED
    BY <1>13, <2>1 DEF Receive
<1>14. CASE ReceiveClosed
  BY <1>14 DEF ReceiveClosed, Consuming
<1>15. ASSUME NEW r \in Route, QueryRoute(r)
      PROVE  RunInv'
  BY <1>15 DEF QueryRoute, Consuming
<1>16. CASE QueryTable
  BY <1>16 DEF QueryTable, Consuming, Dumped
<1>17. ASSUME NEW row \in consumer.rows, LogRow(row)
      PROVE  RunInv'
  BY <1>17 DEF LogRow
<1>18. CASE EndLog
  BY <1>18 DEF EndLog, Consuming
<1>19. CASE UNCHANGED vars
  BY <1>19 DEF vars
<1> QED
  BY <1>1, <1>2, <1>3, <1>4, <1>5, <1>6, <1>7, <1>8, <1>9, <1>10, <1>11, <1>12, <1>13, <1>14, <1>15, <1>16, <1>17, <1>18, <1>19
     DEF Next, System, Run, RunFails, Consume

\* Every step keeps the consumer in bounds.
LEMMA ConsumerStep ==
    ASSUME TypeOK, RunInv, ConsumerInv, [Next]_vars PROVE ConsumerInv'
<1> USE DEF RunInv, ConsumerInv, systemVars, consumerVars
<1>1. ASSUME NEW r \in Route, NEW metric \in Metric \cup {nil}, ChangeTable(r, metric)
      PROVE  ConsumerInv'
  BY <1>1 DEF ChangeTable
<1>2. ASSUME NEW m \in Notification, StartCallback(m)
      PROVE  ConsumerInv'
  BY <1>2 DEF StartCallback
<1>3. CASE Signal
  BY <1>3 DEF Signal
<1>4. CASE StartConsumer
  BY <1>4 DEF StartConsumer, Consuming
<1>5. CASE Register
  BY <1>5 DEF Register
<1>6. CASE RegisterReturns
  BY <1>6 DEF RegisterReturns
<1>7. CASE RegisterFails
  BY <1>7 DEF RegisterFails
<1>8. CASE Cancel
  BY <1>8 DEF Cancel
<1>9. CASE CancelReturns
  BY <1>9 DEF CancelReturns
<1>10. CASE CancelFails
  BY <1>10 DEF CancelFails
<1>11. CASE Close
  BY <1>11 DEF Close
<1>12. CASE Return
  BY <1>12 DEF Return
<1>13. ASSUME NEW m \in Notification, Receive(m)
      PROVE  ConsumerInv'
  BY <1>13 DEF Receive
<1>14. CASE ReceiveClosed
  BY <1>14 DEF ReceiveClosed, Consuming
<1>15. ASSUME NEW r \in Route, QueryRoute(r)
      PROVE  ConsumerInv'
  <2>1. CASE consumer' = Consuming("receive")
    BY <1>15, <2>1 DEF QueryRoute, Consuming
  <2>2. CASE consumer' = [consumer EXCEPT !.pc = "log",
                              !.rows = {[route |-> r, metric |-> table[r]]}]
    <3>1. consumer'.pc = "log" /\ consumer'.rows = {[route |-> r, metric |-> table[r]]}
      BY <2>2 DEF TypeOK
    <3> QED
      BY <1>15, <3>1 DEF QueryRoute
  <2> QED
    BY <1>15, <2>1, <2>2 DEF QueryRoute
<1>16. CASE QueryTable
  <2>1. CASE consumer' = Consuming("receive")
    BY <1>16, <2>1 DEF QueryTable, Consuming
  <2>2. CASE consumer' = [consumer EXCEPT !.pc = "log",
                              !.rows = {[route |-> r, metric |-> table[r]] :
                                 r \in {d \in Dumped : table[d] # nil}}]
    <3>1. /\ consumer'.pc = "log"
          /\ consumer'.rows = {[route |-> r, metric |-> table[r]] :
                                  r \in {d \in Dumped : table[d] # nil}}
      BY <2>2 DEF TypeOK
    <3> QED
      BY <1>16, <3>1 DEF QueryTable
  <2> QED
    BY <1>16, <2>1, <2>2 DEF QueryTable
<1>17. ASSUME NEW row \in consumer.rows, LogRow(row)
      PROVE  ConsumerInv'
  <2>1. consumer'.pc = consumer.pc /\ consumer'.rows = consumer.rows \ {row}
    BY <1>17 DEF LogRow, TypeOK
  <2> QED
    BY <1>17, <2>1 DEF LogRow
<1>18. CASE EndLog
  BY <1>18 DEF EndLog, Consuming
<1>19. CASE UNCHANGED vars
  BY <1>19 DEF vars
<1> QED
  BY <1>1, <1>2, <1>3, <1>4, <1>5, <1>6, <1>7, <1>8, <1>9, <1>10, <1>11, <1>12, <1>13, <1>14, <1>15, <1>16, <1>17, <1>18, <1>19
     DEF Next, System, Run, RunFails, Consume

\* Every step keeps what the log is made current by.
LEMMA CurrentStep ==
    ASSUME TypeOK, RunInv, ConsumerInv, CurrentInv, [Next]_vars PROVE CurrentInv'
<1> SUFFICES ASSUME active', NEW x \in reported' PROVE Current(x)'
  BY DEF CurrentInv
<1>t. TypeOK'
  BY TypeStep
<1>x. x \in Route /\ x \in Notification
  BY <1>t, Constants DEF TypeOK
<1>c. active /\ x \in reported => Current(x)
  BY DEF CurrentInv
<1>e. consumer.pc # "log" => consumer.rows = {}
  BY DEF ConsumerInv
<1>1. ASSUME NEW r \in Route, NEW metric \in Metric \cup {nil}, ChangeTable(r, metric)
      PROVE  Current(x)'
  <2>1. CASE x = r
    <3>1. active /\ r \in Notification /\ queued \in [Notification -> Nat]
      BY <1>1, Constants DEF ChangeTable, TypeOK
    <3>2. queued' = [queued EXCEPT ![r] = @ + 1]
      BY <1>1, <3>1 DEF ChangeTable
    <3>3. queued'[r] > 0
      BY <3>1, <3>2
    <3> QED
      BY <2>1, <3>3 DEF Current
  <2>2. CASE x # r
    <3>1. table'[x] = table[x] /\ queued'[x] = queued[x]
      BY <1>1, <1>x, <2>2 DEF ChangeTable, TypeOK
    <3>2. active /\ x \in reported /\ UNCHANGED <<calling, consumer, logged>>
      BY <1>1, <2>2 DEF ChangeTable, consumerVars
    <3> QED
      BY <1>c, <3>1, <3>2 DEF Current
  <2> QED
    BY <2>1, <2>2
<1>2. ASSUME NEW m \in Notification, StartCallback(m)
      PROVE  Current(x)'
  <2>1. queued \in [Notification -> Nat] /\ calling \in [Notification -> Nat]
    BY DEF TypeOK
  <2>2. CASE x = m
    <3>1. calling' = [calling EXCEPT ![m] = @ + 1]
      BY <1>2 DEF StartCallback
    <3>2. calling'[m] > 0
      BY <2>1, <3>1
    <3> QED
      BY <2>2, <3>2 DEF Current
  <2>3. CASE x # m
    <3>1. calling'[x] = calling[x] /\ queued'[x] = queued[x]
      BY <1>2, <1>x, <2>1, <2>3 DEF StartCallback
    <3>2. active /\ x \in reported /\ UNCHANGED <<table, consumer, logged>>
      BY <1>2 DEF StartCallback, consumerVars
    <3> QED
      BY <1>c, <3>1, <3>2 DEF Current
  <2> QED
    BY <2>2, <2>3
<1>3. CASE Signal \/ RegisterReturns \/ RegisterFails \/ Cancel \/ CancelFails
           \/ Close \/ Return \/ UNCHANGED vars
  <2>1. UNCHANGED <<table, active, queued, calling, consumer, logged, reported>>
    BY <1>3 DEF Signal, RegisterReturns, RegisterFails, Cancel, CancelFails, Close,
                Return, vars, systemVars, consumerVars
  <2> QED
    BY <1>c, <2>1 DEF Current
<1>4. CASE StartConsumer \/ Register \/ CancelReturns
  BY <1>4 DEF StartConsumer, Register, CancelReturns, RunInv
<1>5. ASSUME NEW m \in Notification, Receive(m)
      PROVE  Current(x)'
  <2>1. consumer' = [pc |-> "handle", msg |-> m, rows |-> {}]
    BY <1>5 DEF Receive
  <2>2. CASE x = m
    BY <2>1, <2>2 DEF Current
  <2>3. CASE x # m
    <3>1. calling'[x] = calling[x]
      BY <1>5, <1>x, <2>3 DEF Receive, TypeOK
    <3>2. /\ active /\ x \in reported /\ UNCHANGED <<table, queued, logged>>
          /\ consumer.pc = "receive"
      BY <1>5 DEF Receive, systemVars
    <3> QED
      BY <1>c, <1>e, <2>1, <3>1, <3>2 DEF Current
  <2> QED
    BY <2>2, <2>3
<1>6. CASE ReceiveClosed \/ EndLog
  <2>1. /\ active /\ x \in reported /\ UNCHANGED <<table, queued, calling, logged>>
        /\ consumer.pc # "handle" /\ consumer.rows = {} /\ consumer'.rows = {}
    <3>1. consumer.pc # "handle" /\ consumer.rows = {}
      BY <1>6, <1>e DEF ReceiveClosed, EndLog
    <3>2. consumer' = Consuming("done") \/ consumer' = Consuming("receive")
      BY <1>6 DEF ReceiveClosed, EndLog
    <3>3. consumer'.rows = {}
      BY <3>2 DEF Consuming
    <3> QED
      BY <1>6, <3>1, <3>3 DEF ReceiveClosed, EndLog, systemVars
  <2> QED
    BY <1>c, <2>1 DEF Current
<1>7. ASSUME NEW r \in Route, QueryRoute(r)
      PROVE  Current(x)'
  <2>1. /\ active /\ x \in reported /\ UNCHANGED <<table, queued, calling, logged>>
        /\ consumer.rows = {} /\ consumer.msg = r
    BY <1>7, <1>e DEF QueryRoute, systemVars
  <2>2. CASE table[r] # nil /\ consumer' = [consumer EXCEPT !.pc = "log",
                                   !.rows = {[route |-> r, metric |-> table[r]]}]
    <3>1. consumer'.rows = {[route |-> r, metric |-> table[r]]}
      BY <2>2 DEF TypeOK
    <3> QED
      BY <1>c, <2>1, <3>1 DEF Current
  <2>3. CASE /\ consumer' = Consuming("receive")
             /\ table[r] = nil \/ reported' = reported \ {r}
    <3>1. consumer'.rows = {} /\ (table[x] = nil \/ x # r)
      BY <2>3 DEF Consuming
    <3> QED
      BY <1>c, <2>1, <3>1 DEF Current
  <2> QED
    BY <1>7, <2>2, <2>3 DEF QueryRoute
<1>8. CASE QueryTable
  <2>1. /\ active /\ UNCHANGED <<table, queued, calling, logged>>
        /\ consumer.rows = {} /\ consumer.msg # x
    BY <1>8, <1>e, <1>x, Constants DEF QueryTable, systemVars
  <2>2. CASE /\ consumer' = [consumer EXCEPT !.pc = "log",
                                 !.rows = {[route |-> r, metric |-> table[r]] :
                                    r \in {d \in Dumped : table[d] # nil}}]
             /\ reported' = reported \cup Dumped
    <3>1. consumer'.rows = {[route |-> r, metric |-> table[r]] :
                              r \in {d \in Dumped : table[d] # nil}}
      BY <2>2 DEF TypeOK
    <3>2. CASE x \in Dumped
      <4>1. table[x] # nil => [route |-> x, metric |-> table[x]] \in consumer'.rows
        BY <3>1, <3>2
      <4> QED
        BY <2>1, <4>1 DEF Current
    <3>3. CASE x \notin Dumped
      <4>1. \A row \in consumer'.rows : row.route # x
        BY <3>1, <3>3
      <4> QED
        BY <1>c, <2>1, <2>2, <3>3, <4>1 DEF Current
    <3> QED
      BY <3>2, <3>3
  <2>3. CASE consumer' = Consuming("receive") /\ reported' = reported
    <3>1. consumer'.rows = {}
      BY <2>3 DEF Consuming
    <3> QED
      BY <1>c, <2>1, <2>3, <3>1 DEF Current
  <2> QED
    BY <1>8, <2>2, <2>3 DEF QueryTable
<1>9. ASSUME NEW row \in consumer.rows, LogRow(row)
      PROVE  Current(x)'
  <2>1. /\ active /\ x \in reported /\ UNCHANGED <<table, queued, calling>>
        /\ consumer.pc = "log" /\ Current(x)
    BY <1>9, <1>c DEF LogRow, systemVars
  <2>2. consumer'.rows = consumer.rows \ {row}
    BY <1>9 DEF LogRow, TypeOK
  <2>3. \A other \in consumer.rows : other.route = row.route => other = row
    BY DEF ConsumerInv
  <2>4. CASE x = row.route
    <3>1. logged'[x] = row.metric
      BY <1>9, <1>x, <2>4 DEF LogRow, TypeOK
    <3> QED
      BY <2>1, <2>2, <2>3, <2>4, <3>1 DEF Current
  <2>5. CASE x # row.route
    <3>1. logged'[x] = logged[x]
      BY <1>9, <1>x, <2>5 DEF LogRow, TypeOK
    <3> QED
      BY <2>1, <2>2, <2>5, <3>1 DEF Current
  <2> QED
    BY <2>4, <2>5
<1> QED
  BY <1>1, <1>2, <1>3, <1>4, <1>5, <1>6, <1>7, <1>8, <1>9
     DEF Next, System, Run, RunFails, Consume

(***************************************************************************)
(* The theorems.                                                           *)
(***************************************************************************)

\* The invariant holds of every reachable state, whatever the order in which
\* changes, callbacks, the signal and the goroutines' steps come.
THEOREM Invariance == Spec => []IInv
<1>1. Init => IInv
  <2> SUFFICES ASSUME Init PROVE IInv
    OBVIOUS
  <2>1. TypeOK
    <3>1. NoCallbacks \in [Notification -> Nat] /\ 0 \in 0 .. MaxChanges
      BY Constants
    <3>2. consumer \in [pc : {"not started"}, msg : Notification \cup {nil},
                         rows : SUBSET Row]
      BY DEF Init, Consuming
    <3> QED
      BY <3>1, <3>2 DEF Init, TypeOK
  <2>2. RunInv /\ ConsumerInv /\ CurrentInv
    BY DEF Init, RunInv, ConsumerInv, CurrentInv, Consuming
  <2> QED
    BY <2>1, <2>2 DEF IInv
<1>2. IInv /\ [Next]_vars => IInv'
  BY TypeStep, RunStep, ConsumerStep, CurrentStep DEF IInv
<1> QED
  BY <1>1, <1>2, PTL DEF Spec

\* Every variable keeps its type.
THEOREM TypeCorrect == Spec => []TypeOK
<1>1. IInv => TypeOK
  BY DEF IInv
<1> QED
  BY <1>1, Invariance, PTL

\* No callback sends on the closed channel unless CancelMibChangeNotify2 has
\* failed: run closes notifyCh after the registration is gone.
THEOREM SendsMeetOpenChannel == Spec => []NoSendOnClosed
<1>1. IInv => NoSendOnClosed
  BY DEF IInv, RunInv, NoSendOnClosed
<1> QED
  BY <1>1, Invariance, PTL

\* While run waits, what the log last said of a reported route is what the
\* table says of it, unless a notification of it is still on its way.
THEOREM CurrentLog == Spec => []LogIsCurrent
<1>1. IInv => LogIsCurrent
  BY DEF IInv, RunInv, CurrentInv, Current, LogIsCurrent, Outstanding
<1> QED
  BY <1>1, Invariance, PTL

\* No callback is blocked in its send when nobody receives.
THEOREM CallbacksHaveConsumer == Spec => []ConsumerOutlivesCallbacks
<1>1. IInv => ConsumerOutlivesCallbacks
  BY DEF IInv, RunInv, ConsumerInv, ConsumerOutlivesCallbacks
<1> QED
  BY <1>1, Invariance, PTL
=============================================================================
