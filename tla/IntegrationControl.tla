------------------------- MODULE IntegrationControl -------------------------
(***************************************************************************)
(* The delivery of requests to a token that waits in receive activities:   *)
(* org.jbpm.bpel.integration.jms (IntegrationControl, RequestListener,     *)
(* JmsIntegrationService).  A request is delivered by the thread of a JMS  *)
(* session, in a database transaction of its own.  The listeners of the    *)
(* receptions and the outstanding requests live in memory, shared by all   *)
(* threads and changed before the transaction ends; the token lives in the *)
(* database, changed when it commits; the request is acknowledged after    *)
(* that.  Transactions collide, are rolled back and are tried again, the   *)
(* reception is cancelled by another thread, and the server crashes.       *)
(*                                                                         *)
(* The token executes a line of receives; an action that occurs twice is   *)
(* the receive of a loop.                                                  *)
(***************************************************************************)
EXTENDS Naturals, Sequences, FiniteSets, FiniteSetsExt

CONSTANTS
  Action,        \* receive actions
  Waits,         \* the receive actions that the token executes, in order
  TwoWay,        \* actions with an output, whose requests are replied to
  Replies,       \* position -> actions replied to when the token leaves it
  MaxSent,       \* bound: action -> requests for it
  Troubles,      \* bounds: how many conflicts, failures and crashes come together
  None           \* null

ASSUME IntegrationAssumption ==
  /\ IsFiniteSet(Action)
  /\ Waits \in Seq(Action) /\ Waits # <<>>
  /\ TwoWay \subseteq Action
  /\ Replies \in [1 .. Len(Waits) -> SUBSET TwoWay]
  /\ MaxSent \in [Action -> Nat]
  /\ Troubles \subseteq [conflicts : Nat, failures : Nat, crashes : Nat]

Message == UNION {{a} \X (1 .. MaxSent[a]) : a \in Action}
Position == 1 .. Len(Waits) + 1

VARIABLES
  \* the database
  pos,           \* the receive in which the token is; past the last one, it has ended
  ended,         \* the token has an end date
  version,       \* of the rows that the transactions of the token write
  \* the request queue
  queue,         \* request -> where it is
  holder,        \* request -> the listener to whose session it was delivered
  \* the memory of the server
  up,            \* the server runs
  listener,      \* the request listeners, in order of creation
  registered,    \* IntegrationControl.requestListeners
  outstanding,   \* IntegrationControl.outstandingRequests
  terminator,    \* the transaction that terminates the scope of the token
  \* history
  accepted,      \* action -> the last request that a transaction has committed
  moves,         \* request -> how often it has moved the token
  replies,       \* request -> how often it was replied to
  count          \* of conflicts, failures, crashes, cancelled listeners and lost commits

database == <<pos, ended, version>>
jms == <<queue, holder>>
memory == <<up, listener, registered, outstanding>>
history == <<accepted, moves, replies, count>>
vars == <<database, jms, memory, terminator, history>>

(* A listener with its session, which runs one message at a time, and the  *)
(* transaction of that message, with the token as the transaction has it.  *)
(* `made' is the listener that the transaction has created, 0 if there is  *)
(* none; `dirty' says that it has changed the token.                       *)
Idle(a, s) == [action |-> a, state |-> s, phase |-> "idle", message |-> None, made |-> 0,
               pos |-> 1, ended |-> FALSE, version |-> 0, dirty |-> FALSE]

Listener == [action : Action, state : {"new", "open", "closed"},
             phase : {"idle", "received", "loaded", "delivered", "committed", "stale",
                      "opened", "recovering"},
             message : Message \cup {None}, made : Nat,
             pos : Position, ended : BOOLEAN, version : Nat, dirty : BOOLEAN]

NoTermination == [phase |-> "idle", action |-> None, listener |-> 0, version |-> 0]

TypeOK ==
  /\ pos \in Position /\ ended \in BOOLEAN /\ version \in Nat
  /\ queue \in [Message -> {"unsent", "queued", "delivered", "redelivery", "kept", "acknowledged"}]
  /\ holder \in [Message -> 0 .. Len(listener)]
  /\ up \in BOOLEAN
  /\ listener \in Seq(Listener)
  /\ registered \in [Action -> 0 .. Len(listener)]
  /\ outstanding \in [Action -> Message \cup {None}]
  /\ terminator \in [phase : {"idle", "loaded", "removed", "closed", "stale", "done"},
                     action : Action \cup {None}, listener : 0 .. Len(listener), version : Nat]
  /\ accepted \in [Action -> Message \cup {None}]
  /\ moves \in [Message -> Nat] /\ replies \in [Message -> Nat]
  /\ count \in [conflicts : Nat, failures : Nat, crashes : Nat, cancelled : Nat, lost : Nat]

Init ==
  /\ pos = 1 /\ ended = FALSE /\ version = 0
  /\ queue = [m \in Message |-> "unsent"] /\ holder = [m \in Message |-> 0]
  /\ up = TRUE
  /\ listener = <<Idle(Waits[1], "open")>>
  /\ registered = [a \in Action |-> IF a = Waits[1] THEN 1 ELSE 0]
  /\ outstanding = [a \in Action |-> None]
  /\ terminator = NoTermination
  /\ accepted = [a \in Action |-> None]
  /\ moves = [m \in Message |-> 0] /\ replies = [m \in Message |-> 0]
  /\ count = [conflicts |-> 0, failures |-> 0, crashes |-> 0, cancelled |-> 0, lost |-> 0]

(* The bound on what collides, fails by itself and crashes.                *)
Within(c) ==
  \E b \in Troubles : /\ c.conflicts <= b.conflicts
                      /\ c.failures <= b.failures
                      /\ c.crashes <= b.crashes

-----------------------------------------------------------------------------
(* The delivery of a request. *)

(* A partner sends a request, whether or not the token waits for it. *)
Send(m) ==
  /\ queue[m] = "unsent"
  /\ m[2] > 1 => queue[<<m[1], m[2] - 1>>] # "unsent"
  /\ queue' = [queue EXCEPT ![m] = "queued"]
  /\ UNCHANGED <<database, holder, memory, terminator, history>>

Deliverable(l, m) ==
  /\ listener[l].state = "open" /\ listener[l].phase = "idle"
  /\ \/ queue[m] = "redelivery" /\ holder[m] = l
     \/ /\ queue[m] = "queued" /\ m[1] = listener[l].action
        /\ \A k \in Message : queue[k] = "redelivery" => holder[k] # l

(* RequestListener.onMessage: the listener is removed first, unless its    *)
(* place is taken by another one.                                          *)
OnMessage(l, m) ==
  /\ Deliverable(l, m)
  /\ queue' = [queue EXCEPT ![m] = "delivered"]
  /\ holder' = [holder EXCEPT ![m] = l]
  /\ listener' = [listener EXCEPT ![l].phase = "received", ![l].message = m]
  /\ registered' = [registered EXCEPT ![m[1]] = IF @ = l THEN 0 ELSE @]
  /\ UNCHANGED <<database, up, outstanding, terminator, history>>

(* JbpmContext.loadTokenForUpdate *)
LoadToken(l) ==
  /\ listener[l].phase = "received"
  /\ listener' = [listener EXCEPT ![l].phase = "loaded", ![l].pos = pos, ![l].ended = ended,
                                  ![l].version = version]
  /\ UNCHANGED <<database, jms, up, registered, outstanding, terminator, history>>

(* The receive after an action: that of the position of the token, if the  *)
(* token is in the action, which it leaves wherever it is.                 *)
After(a, i) ==
  1 + IF i <= Len(Waits) /\ Waits[i] = a THEN i ELSE Min({j \in 1 .. Len(Waits) : Waits[j] = a})

(* Mutant of AddOutstandingRequest: the first request stays. *)
AddFirstRequest(a, m) ==
  [requests |-> IF a \in TwoWay /\ outstanding[a] = None THEN [outstanding EXCEPT ![a] = m]
                ELSE outstanding,
   conflict |-> FALSE]

(* IntegrationControl.addOutstandingRequest files the request, and throws  *)
(* if there was one.                                                       *)
AddOutstandingRequest(a, m) ==
  [requests |-> IF a \in TwoWay THEN [outstanding EXCEPT ![a] = m] ELSE outstanding,
   conflict |-> a \in TwoWay /\ outstanding[a] # None]

Filed(l) == AddOutstandingRequest(listener[l].action, listener[l].message)

(* A token that has ended does not leave the receive. *)
DeliverToEnded(l) ==
  /\ listener[l].phase = "loaded"
  /\ listener[l].ended
  /\ ~ Filed(l).conflict
  /\ outstanding' = Filed(l).requests
  /\ listener' = [listener EXCEPT ![l].phase = "delivered"]
  /\ UNCHANGED <<database, jms, up, registered, terminator, history>>

(* The actions that the token replies to before the next receive. *)
Answered(l) == Replies[After(listener[l].action, listener[l].pos) - 1]

(* A conflicting or a missing request: the fault ends the token.           *)
DeliverFaults(l) ==
  /\ listener[l].phase = "loaded"
  /\ \/ Filed(l).conflict
     \/ ~ listener[l].ended /\ \E b \in Answered(l) : Filed(l).requests[b] = None
  /\ outstanding' = Filed(l).requests
  /\ listener' = [listener EXCEPT ![l].phase = "delivered", ![l].ended = TRUE,
                                  ![l].dirty = ~ listener[l].ended]
  /\ UNCHANGED <<database, jms, up, registered, terminator, history>>

(* RequestListener.deliverRequest: the token leaves the receive, replies   *)
(* and executes the next receive, which creates a listener; after the last *)
(* one it ends (Flow.leave).  The token is that of the session; what the   *)
(* others see is the maps and the replies.                                 *)
Deliver(l) ==
  LET next == After(listener[l].action, listener[l].pos)
      more == next <= Len(Waits)
      new == Len(listener) + 1
  IN  /\ listener[l].phase = "loaded"
      /\ ~ listener[l].ended
      /\ ~ Filed(l).conflict
      /\ \A b \in Answered(l) : Filed(l).requests[b] # None
      /\ replies' = [m \in Message |->
                       replies[m] + Cardinality({b \in Answered(l) : Filed(l).requests[b] = m})]
      /\ outstanding' = [b \in Action |-> IF b \in Answered(l) THEN None ELSE Filed(l).requests[b]]
      /\ listener' = [listener EXCEPT ![l].phase = "delivered", ![l].pos = next,
                                      ![l].ended = ~ more, ![l].dirty = TRUE,
                                      ![l].made = IF more THEN new ELSE 0] \o
                     (IF more THEN <<Idle(Waits[next], "new")>> ELSE <<>>)
      /\ registered' = [b \in Action |-> IF more /\ b = Waits[next] THEN new ELSE registered[b]]
      /\ UNCHANGED <<database, jms, up, terminator, accepted, moves, count>>

-----------------------------------------------------------------------------
(* The end of a delivery. *)

(* Hibernate compares the version of a row that it writes. *)
Stale(l) == listener[l].dirty /\ listener[l].version # version

Commit(l) ==
  /\ listener[l].phase = "delivered"
  /\ ~ Stale(l)
  /\ IF listener[l].dirty
     THEN pos' = listener[l].pos /\ ended' = listener[l].ended /\ version' = version + 1
     ELSE UNCHANGED database
  /\ LET m == listener[l].message
     IN  IF pos' # pos
         THEN /\ accepted' = [accepted EXCEPT ![m[1]] = m]
              /\ moves' = [moves EXCEPT ![m] = @ + 1]
         ELSE UNCHANGED <<accepted, moves>>
  /\ listener' = [listener EXCEPT ![l].phase = "committed"]
  /\ UNCHANGED <<jms, up, registered, outstanding, terminator, replies, count>>

(* The flush or the commit fails: a row has changed, or the transaction is *)
(* the victim of a deadlock.  The transaction is rolled back but was never *)
(* marked for rollback; `lost' counts the ones that had made a listener.   *)
CommitFails(l) ==
  LET made == listener[l].made # 0
  IN  /\ listener[l].phase = "delivered"
      /\ count' = [count EXCEPT !.failures = IF Stale(l) THEN @ ELSE @ + 1,
                                !.lost = IF made THEN @ + 1 ELSE @]
      /\ ~ Stale(l) => Within(count')
      /\ listener' = [listener EXCEPT ![l].phase = "stale"]
      /\ UNCHANGED <<database, jms, up, registered, outstanding, terminator, accepted, moves,
                    replies>>

(* After the last receive Flow.mustReactivateParent locks the row of       *)
(* another branch, which has changed.  The transaction is marked for       *)
(* rollback.                                                               *)
LockFails(l) ==
  /\ listener[l].phase = "loaded"
  /\ After(listener[l].action, listener[l].pos) > Len(Waits)
  /\ ~ listener[l].ended
  /\ listener[l].version # version
  /\ ~ Filed(l).conflict
  /\ outstanding' = Filed(l).requests
  /\ listener' = [listener EXCEPT ![l].phase = "recovering"]
  /\ UNCHANGED <<database, jms, up, registered, terminator, history>>

(* A run that ends without acknowledging keeps the request unacknowledged. *)
GiveUp(l) ==
  queue' = [queue EXCEPT ![listener[l].message] = "kept"]

Rest(l) == Idle(listener[l].action, listener[l].state)

Settle(l, state) ==
  listener' = [k \in DOMAIN listener |->
                 IF k = l THEN Rest(l)
                 ELSE IF k = listener[l].made THEN [listener[k] EXCEPT !.state = state]
                 ELSE listener[k]]

(* Mutant of Rollback: new listeners are opened. *)
RollbackAndOpen(l) ==
  /\ listener[l].phase \in {"loaded", "delivered"}
  /\ count' = [count EXCEPT !.failures = @ + 1]
  /\ Within(count')
  /\ GiveUp(l)
  /\ Settle(l, "open")
  /\ UNCHANGED <<database, holder, up, registered, outstanding, terminator, accepted, moves, replies>>

(* The transaction is marked for rollback by an exception of its own.  The *)
(* listener that it has created is closed, but not removed.                *)
Rollback(l) ==
  /\ listener[l].phase \in {"loaded", "delivered"}
  /\ count' = [count EXCEPT !.failures = @ + 1]
  /\ Within(count')
  /\ GiveUp(l)
  /\ Settle(l, "closed")
  /\ UNCHANGED <<database, holder, up, registered, outstanding, terminator, accepted, moves, replies>>

(* JmsIntegrationService.close opens what the transaction has created. *)
OpenListeners(l) ==
  LET made == listener[l].made
      next == IF listener[l].phase = "committed" THEN "opened" ELSE "recovering"
  IN  /\ listener[l].phase \in {"committed", "stale"}
      /\ made # 0 => listener[made].state = "new"
      /\ listener' = [k \in DOMAIN listener |->
                        IF k = l THEN [listener[k] EXCEPT !.phase = next]
                        ELSE IF k = made THEN [listener[k] EXCEPT !.state = "open"]
                        ELSE listener[k]]
      /\ UNCHANGED <<database, jms, up, registered, outstanding, terminator, history>>

(* It cannot open a listener that somebody has cancelled: after a commit   *)
(* the request stays unacknowledged, and a failed commit is recovered, as  *)
(* its exception came first.                                               *)
OpenCancelled(l) ==
  LET made == listener[l].made
  IN  /\ listener[l].phase \in {"committed", "stale"}
      /\ made # 0
      /\ listener[made].state = "closed"
      /\ IF listener[l].phase = "committed"
         THEN /\ GiveUp(l)
              /\ listener' = [listener EXCEPT ![l] = Rest(l)]
              /\ count' = [count EXCEPT !.cancelled = @ + 1]
         ELSE /\ listener' = [listener EXCEPT ![l].phase = "recovering"]
              /\ UNCHANGED <<queue, count>>
      /\ UNCHANGED <<database, holder, up, registered, outstanding, terminator, accepted, moves,
                    replies>>

(* Mutant of Acknowledge: the session is recovered after a success. *)
AcknowledgeLate(l) ==
  /\ listener[l].phase = "opened"
  /\ queue' = [queue EXCEPT ![listener[l].message] = "queued"]
  /\ listener' = [listener EXCEPT ![l] = [Rest(l) EXCEPT !.state = "closed"]]
  /\ UNCHANGED <<database, holder, up, registered, outstanding, terminator, history>>

(* What a closed consumer has not consumed goes to others. *)
Returned(l) ==
  [m \in Message |-> IF holder[m] = l /\ queue[m] = "redelivery" THEN "queued" ELSE queue[m]]

(* The acknowledgement covers what the session has consumed before; then   *)
(* the listener is closed.                                                 *)
Acknowledge(l) ==
  /\ listener[l].phase = "opened"
  /\ queue' = [m \in Message |-> IF holder[m] = l /\ queue[m] \in {"delivered", "kept"}
                                 THEN "acknowledged" ELSE Returned(l)[m]]
  /\ holder' = [m \in Message |-> IF holder[m] = l THEN 0 ELSE holder[m]]
  /\ listener' = [listener EXCEPT ![l] = [Rest(l) EXCEPT !.state = "closed"]]
  /\ UNCHANGED <<database, up, registered, outstanding, terminator, history>>

(* Mutant of Recover: the listener is closed with its message. *)
RecoverAndClose(l) ==
  /\ listener[l].phase = "recovering"
  /\ queue' = [queue EXCEPT ![listener[l].message] = "queued"]
  /\ listener' = [listener EXCEPT ![l] = [Rest(l) EXCEPT !.state = "closed"]]
  /\ UNCHANGED <<database, holder, up, registered, outstanding, terminator, history>>

(* Session.recover: what the session has consumed is delivered again. *)
Recover(l) ==
  /\ listener[l].phase = "recovering"
  /\ queue' = [m \in Message |-> IF holder[m] = l /\ queue[m] \in {"delivered", "kept"}
                                 THEN "redelivery" ELSE queue[m]]
  /\ listener' = [listener EXCEPT ![l] = Rest(l)]
  /\ UNCHANGED <<database, holder, up, registered, outstanding, terminator, history>>

(* An exception that is not recoverable, or a recovery that fails. *)
RecoverFails(l) ==
  /\ listener[l].phase = "recovering"
  /\ count' = [count EXCEPT !.failures = @ + 1]
  /\ Within(count')
  /\ GiveUp(l)
  /\ listener' = [listener EXCEPT ![l] = Rest(l)]
  /\ UNCHANGED <<database, holder, up, registered, outstanding, terminator, accepted, moves, replies>>

-----------------------------------------------------------------------------
(* Other transactions. *)

(* Another transaction commits a row that the deliveries of this token     *)
(* write: the token is suspended or resumed, another branch receives into  *)
(* the same variable or ends.                                              *)
Conflict ==
  /\ count' = [count EXCEPT !.conflicts = @ + 1]
  /\ Within(count')
  /\ version' = version + 1
  /\ UNCHANGED <<pos, ended, jms, memory, terminator, accepted, moves, replies>>

(* The termination of the scope: a fault, an alarm. *)
TerminateToken ==
  /\ terminator.phase \in {"idle", "stale"}
  /\ up
  /\ IF ended
     THEN terminator.phase = "stale" /\ terminator' = [NoTermination EXCEPT !.phase = "done"]
     ELSE terminator' = [phase |-> "loaded", action |-> Waits[pos], listener |-> 0,
                         version |-> version]
  /\ UNCHANGED <<database, jms, memory, history>>

(* JmsIntegrationService.jmsCancelReception removes the listener, and then *)
(* closes it, for which it waits until the listener has returned.          *)
RemoveRequestListener ==
  /\ terminator.phase = "loaded"
  /\ terminator' = [terminator EXCEPT !.phase = "removed",
                                      !.listener = registered[terminator.action]]
  /\ registered' = [registered EXCEPT ![terminator.action] = 0]
  /\ UNCHANGED <<database, jms, up, listener, outstanding, history>>

CloseRequestListener ==
  LET l == terminator.listener
  IN  /\ terminator.phase = "removed"
      /\ l # 0 => listener[l].phase = "idle"
      /\ terminator' = [terminator EXCEPT !.phase = "closed"]
      /\ listener' = [k \in DOMAIN listener |->
                        IF k = l THEN [listener[k] EXCEPT !.state = "closed"] ELSE listener[k]]
      /\ queue' = Returned(l)
      /\ UNCHANGED <<database, holder, up, registered, outstanding, history>>

CommitTermination ==
  /\ terminator.phase = "closed"
  /\ IF terminator.version = version
     THEN /\ ended' = TRUE
          /\ version' = version + 1
          /\ terminator' = [NoTermination EXCEPT !.phase = "done"]
     ELSE /\ terminator' = [NoTermination EXCEPT !.phase = "stale"]
          /\ UNCHANGED <<ended, version>>
  /\ UNCHANGED <<pos, jms, memory, history>>

-----------------------------------------------------------------------------
(* The server. *)

Requeued ==
  [m \in Message |-> IF queue[m] \in {"delivered", "redelivery", "kept"} THEN "queued" ELSE queue[m]]

LostTermination ==
  IF terminator.phase = "done" THEN terminator ELSE NoTermination

(* Mutant of Crash: requests stay with their listeners. *)
CrashHolding ==
  /\ up
  /\ count' = [count EXCEPT !.crashes = @ + 1, !.lost = 0]
  /\ Within(count')
  /\ up' = FALSE
  /\ listener' = <<>>
  /\ registered' = [a \in Action |-> 0]
  /\ outstanding' = [a \in Action |-> None]
  /\ terminator' = LostTermination
  /\ UNCHANGED <<database, jms, accepted, moves, replies>>

(* A crash loses the memory; what was not acknowledged is queued again. *)
Crash ==
  /\ up
  /\ count' = [count EXCEPT !.crashes = @ + 1, !.lost = 0]
  /\ Within(count')
  /\ up' = FALSE
  /\ listener' = <<>>
  /\ registered' = [a \in Action |-> 0]
  /\ outstanding' = [a \in Action |-> None]
  /\ terminator' = LostTermination
  /\ queue' = Requeued
  /\ holder' = [m \in Message |-> 0]
  /\ UNCHANGED <<database, accepted, moves, replies>>

(* Mutant of EnableInboundMessageActivities: only start activities. *)
EnableStartActivities ==
  /\ ~ up
  /\ up' = TRUE
  /\ UNCHANGED <<listener, registered, database, jms, outstanding, terminator, history>>

(* IntegrationControl.enableInboundMessageActivities finds the tokens that *)
(* wait in a receive.                                                      *)
EnableInboundMessageActivities ==
  /\ ~ up
  /\ up' = TRUE
  /\ IF ended THEN UNCHANGED <<listener, registered>>
     ELSE /\ listener' = <<Idle(Waits[pos], "open")>>
          /\ registered' = [registered EXCEPT ![Waits[pos]] = 1]
  /\ UNCHANGED <<database, jms, outstanding, terminator, history>>

-----------------------------------------------------------------------------
Run(l) ==
  \/ LoadToken(l) \/ DeliverToEnded(l) \/ DeliverFaults(l) \/ Deliver(l)
  \/ Commit(l) \/ CommitFails(l) \/ LockFails(l) \/ OpenListeners(l) \/ OpenCancelled(l)
  \/ Acknowledge(l) \/ Recover(l)

Terminate == RemoveRequestListener \/ CloseRequestListener \/ CommitTermination

Next ==
  \/ \E m \in Message : Send(m) \/ \E l \in DOMAIN listener : OnMessage(l, m)
  \/ \E l \in DOMAIN listener : Run(l) \/ Rollback(l) \/ RecoverFails(l)
  \/ Conflict \/ TerminateToken \/ Terminate \/ Crash \/ EnableInboundMessageActivities

(* Sessions deliver what they may and listeners run to their end; a        *)
(* termination that has begun, or has to be tried again, goes on; the      *)
(* server is started again.                                                *)
Fairness ==
  /\ WF_vars(\E l \in DOMAIN listener : Run(l))
  /\ WF_vars(\E m \in Message, l \in DOMAIN listener : OnMessage(l, m))
  /\ WF_vars(Terminate)
  /\ WF_vars(terminator.phase = "stale" /\ TerminateToken)
  /\ WF_vars(EnableInboundMessageActivities)

Spec == Init /\ [][Next]_vars /\ Fairness

-----------------------------------------------------------------------------
(* Properties *)

Waiting(a) == ~ ended /\ Waits[pos] = a

(* While the server runs, a token that waits in a receive can be reached:  *)
(* its action has an open listener, or a delivery or a termination is      *)
(* still under way, whatever transactions collided, failed or were lost in *)
(* a crash before (RequestListener.onMessage, JmsIntegrationService.close, *)
(* IntegrationControl.enableInboundMessageActivities).                     *)
WaitingTokenIsReachable ==
  up /\ ~ ended =>
    \/ \E l \in DOMAIN listener : /\ listener[l].action = Waits[pos]
                                 /\ listener[l].state = "open"
    \/ \E l \in DOMAIN listener : listener[l].phase # "idle"
    \/ terminator.phase \notin {"idle", "done"}

MoveInOrder ==
  pos' # pos =>
    /\ pos' = pos + 1
    /\ \E m \in Message : moves'[m] = moves[m] + 1 /\ m[1] = Waits[pos]

(* The token moves by one receive at a time, and only by a request for the *)
(* receive in which it is, although Receive.messageReceived does not look  *)
(* where the token is: through rollbacks, redeliveries and restarts no     *)
(* listener outlives its reception.  Two things break the order and no     *)
(* others: a failed commit, whose new listener is opened all the same      *)
(* (JmsIntegrationService.close), until the next restart; and a            *)
(* termination that cancels a new listener, so that the one that made it   *)
(* gives up and stays open (OpenCancelled).                                *)
MovesInOrder ==
  [][count.lost = 0 /\ terminator.phase = "idle" => MoveInOrder]_vars

(* Violated: the same, whether or not a commit has failed.  A receive      *)
(* blocks for its message, and listeners are not opened for a transaction  *)
(* that is rolled back (Receive, JmsIntegrationService.close).             *)
ReceivesBlock ==
  [][terminator.phase = "idle" => MoveInOrder]_vars

(* A request moves the token once.  It may do so again for each crash that *)
(* comes between the commit and the acknowledgement, and for each listener *)
(* that a termination cancels between the commit and the opening, so that  *)
(* the request is kept and later recovered (RequestListener.onMessage).    *)
RequestsMoveOnce ==
  \A m \in Message : moves[m] <= 1 + count.crashes + count.cancelled

ReplyToAccepted ==
  \A m \in Message : replies'[m] # replies[m] =>
    \/ accepted[m[1]] = m
    \/ \E l \in DOMAIN listener : listener[l].phase = "loaded" /\ listener[l].message = m

(* A reply goes to the partner whose request the token has accepted last   *)
(* or is about to accept, and not to one whose delivery was rolled back by *)
(* an exception, a collision or the end of the scope, although the map     *)
(* keeps it (IntegrationControl.addOutstandingRequest).  After a failed    *)
(* commit that had made a listener this is not promised, until the next    *)
(* restart.                                                                *)
RepliesToAccepted == [][count.lost = 0 => ReplyToAccepted]_vars

(* It is never for ever that a request is in the queue, or to be delivered *)
(* again, and the token waits for it (RequestListener.onMessage).          *)
RequestsAreServed ==
  []<>(\A m \in Message : queue[m] \in {"queued", "redelivery"} => ~ Waiting(m[1]))
=============================================================================
