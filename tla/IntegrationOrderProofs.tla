----------------------- MODULE IntegrationOrderProofs -----------------------
(***************************************************************************)
(* Theorems about IntegrationControl: the order in which requests move the *)
(* token and the requests that replies go to.  They hold while no          *)
(* termination is under way and no commit of a transaction that had made a *)
(* listener has failed since the server was started: such a commit leaves  *)
(* two open listeners behind, its own and the one that it has made.        *)
(***************************************************************************)
EXTENDS IntegrationControlProofs

USE DEF database, jms, memory, history, vars

(* The token waits, nobody terminates it, and no commit has left a         *)
(* listener behind.                                                        *)
Orderly == Live /\ count.lost = 0

-----------------------------------------------------------------------------
(* The inductive invariant, in parts. *)

(* The reception of a waiting token has no second owner. *)
OneOwner == \A h, k \in DOMAIN listener : Owner(h) /\ Owner(k) => h = k

(* A transaction has the token of the database, or the next receive; one   *)
(* whose commit has failed had created no listener.                        *)
InStep(l) ==
  /\ listener[l].phase = "loaded" => listener[l].pos = pos
  /\ listener[l].phase = "delivered" /\ ~ listener[l].ended => listener[l].pos = pos + 1
  /\ listener[l].phase = "stale" => listener[l].made = 0

(* Nobody has read the token before its end and still has to deliver. *)
NoLateDelivery ==
  terminator.phase = "idle" /\ ended /\ count.lost = 0 =>
    \A l \in DOMAIN listener : listener[l].phase = "loaded" => listener[l].ended

OwnerInv == Orderly => OneOwner /\ \A l \in DOMAIN listener : InStep(l)

(* An outstanding request was accepted, or its delivery is for the receive *)
(* in which the token is.                                                  *)
RequestOK(b) ==
  outstanding[b] # None =>
    /\ b \in TwoWay /\ outstanding[b][1] = b
    /\ accepted[b] = outstanding[b] \/ b = Waits[pos]

(* What the delivery has filed is there until it commits, or answered. *)
FiledOK(l) ==
  listener[l].phase = "delivered" /\ ~ listener[l].ended =>
    outstanding[listener[l].action] \in {None, listener[l].message}

ReplyInv ==
  /\ ~ up => \A b \in Action : outstanding[b] = None
  /\ Orderly => /\ \A b \in Action : RequestOK(b)
                /\ \A l \in DOMAIN listener : FiledOK(l)

OrderInv == IndInv /\ OwnerInv /\ NoLateDelivery /\ ReplyInv

-----------------------------------------------------------------------------
(* The only owner *)

(* A delivery that has not committed is for the receive of the token. *)
LEMMA DeliveryOwns ==
  ASSUME IndInv, OwnerInv, Orderly, NEW l \in DOMAIN listener,
         listener[l].phase \in {"received", "loaded", "delivered", "stale", "recovering"}
  PROVE  Owner(l) /\ listener[l].action = Waits[pos]
<1>1. Owner(l)
  BY DEF Owner, IndInv, MadeInv, MadeOK
<1>2. PICK h \in DOMAIN listener : Owner(h) /\ listener[h].action = Waits[pos]
  BY DEF IndInv, ReachInv, Orderly
<1>3. h = l
  BY <1>1, <1>2 DEF OwnerInv, OneOwner
<1>. QED  BY <1>1, <1>2, <1>3

LEMMA OneDelivery ==
  ASSUME IndInv, OwnerInv, Orderly, NEW l \in DOMAIN listener, NEW k \in DOMAIN listener, k # l,
         listener[l].phase \in {"received", "loaded", "delivered", "stale", "recovering"}
  PROVE  listener[k].phase \notin {"received", "loaded", "delivered", "stale", "recovering"}
<1>1. SUFFICES ASSUME listener[k].phase \in {"received", "loaded", "delivered", "stale", "recovering"}
               PROVE  FALSE
  OBVIOUS
<1>2. Owner(l) /\ Owner(k)
  BY <1>1, DeliveryOwns
<1>. QED  BY <1>2 DEF OwnerInv, OneOwner

(* A delivery is of a request for the action of its listener. *)
LEMMA MessageAction ==
  ASSUME IndInv, NEW l \in DOMAIN listener, listener[l].phase # "idle"
  PROVE  listener[l].message \in Message /\ listener[l].message[1] = listener[l].action
<1>1. listener[l].message \in Message
  BY FieldTypes DEF IndInv
<1>2. holder[listener[l].message] = l /\ l # 0
  BY FieldTypes DEF IndInv, QueueInv
<1>. QED  BY <1>1, <1>2 DEF IndInv, QueueInv

(* The listener k keeps its transaction. *)
Stays(k) ==
  /\ k \in DOMAIN listener
  /\ listener'[k].phase = listener[k].phase /\ listener'[k].pos = listener[k].pos
  /\ listener'[k].ended = listener[k].ended /\ listener'[k].version = listener[k].version
  /\ listener'[k].made = listener[k].made /\ listener'[k].action = listener[k].action
  /\ listener'[k].message = listener[k].message

(* The listener k is not delivering. *)
Quiet(k) == listener'[k].phase \notin {"loaded", "delivered", "stale"}

(* What the steps other than commits and the start of the server do to a   *)
(* delivery.                                                               *)
Begins(k) ==
  /\ k \in DOMAIN listener /\ LoadToken(k)
  /\ listener'[k].phase = "loaded" /\ listener'[k].pos = pos /\ listener'[k].version = version

Goes(k) ==
  /\ k \in DOMAIN listener /\ Deliver(k) /\ listener[k].phase = "loaded"
  /\ listener'[k].phase = "delivered" /\ listener'[k].pos = NextOf(k)
  /\ listener'[k].version = listener[k].version
  /\ listener'[k].action = listener[k].action /\ listener'[k].message = listener[k].message

Faults(k) ==
  /\ k \in DOMAIN listener /\ listener[k].phase = "loaded"
  /\ listener'[k].phase = "delivered" /\ listener'[k].ended
  /\ listener'[k].version = listener[k].version

Fails(k) ==
  /\ k \in DOMAIN listener /\ CommitFails(k)
  /\ listener'[k].phase = "stale" /\ listener'[k].made = listener[k].made

Step(k) == Stays(k) \/ Quiet(k) \/ Begins(k) \/ Goes(k) \/ Faults(k) \/ Fails(k)

LEMMA UpdateSteps ==
  ASSUME NEW l \in DOMAIN listener, OnlyListener(l), Step(l)
  PROVE  \A k \in DOMAIN listener' : Step(k)
<1>1. \A k \in DOMAIN listener' : k # l => Stays(k)
  BY DEF OnlyListener, Stays
<1>. QED  BY <1>1 DEF Step

(* A termination ends in a crash or in the end of the token. *)
LEMMA NoTerminationStep ==
  ASSUME TypeInv, [Next]_vars, up', terminator'.phase = "idle"
  PROVE  /\ terminator.phase = "idle" /\ ~ Terminate
         /\ ended' = ended \/ \E l \in DOMAIN listener : Commit(l)
<1>1. ~ Terminate
  <2>1. RemoveRequestListener => terminator'.phase = "removed"
    BY DEF RemoveRequestListener, TypeInv, TypeOK
  <2>2. CloseRequestListener => terminator'.phase = "closed"
    BY DEF CloseRequestListener, TypeInv, TypeOK
  <2>3. CommitTermination => terminator'.phase \in {"done", "stale"}
    BY DEF CommitTermination, NoTermination
  <2>. QED  BY <2>1, <2>2, <2>3 DEF Terminate
<1>2. ~ TerminateToken
  <2>1. TerminateToken => terminator'.phase \in {"done", "loaded"}
    BY DEF TerminateToken, NoTermination
  <2>. QED  BY <2>1
<1>3. ~ Crash
  BY DEF Crash
<1>4. ASSUME NEW l \in DOMAIN listener, Run(l) \/ Rollback(l) \/ RecoverFails(l)
      PROVE  terminator' = terminator /\ (ended' = ended \/ Commit(l))
  <2>1. CASE Rollback(l) \/ RecoverFails(l) \/ Deliver(l) \/ Commit(l)
    BY <2>1 DEF Rollback, RecoverFails, Deliver, Commit
  <2>2. CASE LoadToken(l) \/ DeliverToEnded(l) \/ DeliverFaults(l)
    BY <2>2 DEF LoadToken, DeliverToEnded, DeliverFaults
  <2>3. CASE CommitFails(l) \/ LockFails(l)
    BY <2>3 DEF CommitFails, LockFails
  <2>4. CASE OpenListeners(l) \/ OpenCancelled(l) \/ Acknowledge(l) \/ Recover(l)
    BY <2>4 DEF OpenListeners, OpenCancelled, Acknowledge, Recover
  <2>. QED  BY <1>4, <2>1, <2>2, <2>3, <2>4 DEF Run
<1>5. \A m \in Message : Send(m) => UNCHANGED <<terminator, ended>>
  BY DEF Send
<1>6. \A m \in Message, l \in DOMAIN listener : OnMessage(l, m) => UNCHANGED <<terminator, ended>>
  BY DEF OnMessage
<1>7. Conflict \/ EnableInboundMessageActivities => UNCHANGED <<terminator, ended>>
  BY DEF Conflict, EnableInboundMessageActivities
<1>. QED  BY <1>1, <1>2, <1>3, <1>4, <1>5, <1>6, <1>7 DEF Next

LEMMA DeliverySteps ==
  ASSUME TypeInv, [Next]_vars, up', terminator'.phase = "idle",
         ~ EnableInboundMessageActivities, ~ \E l \in DOMAIN listener : Commit(l)
  PROVE  \A k \in DOMAIN listener' : Step(k)
<1>0. ~ Terminate
  BY NoTerminationStep
<1>1. CASE UNCHANGED listener
  BY <1>1 DEF Step, Stays
<1>2. ASSUME NEW m \in Message, NEW l \in DOMAIN listener, OnMessage(l, m)
      PROVE  \A k \in DOMAIN listener' : Step(k)
  BY <1>2, OnMessageShape, UpdateSteps DEF Step, Quiet
<1>3. ASSUME NEW l \in DOMAIN listener, Run(l) \/ Rollback(l) \/ RecoverFails(l)
      PROVE  \A k \in DOMAIN listener' : Step(k)
  <2>1. CASE LoadToken(l)
    BY <2>1, LoadTokenShape, UpdateSteps DEF Step, Begins
  <2>2. CASE DeliverToEnded(l)
    <3>1. OnlyListener(l) /\ Faults(l)
      BY <2>2, DeliverToEndedShape DEF Faults, DeliverToEnded, KeepsToken
    <3>. QED  BY <3>1, UpdateSteps DEF Step
  <2>3. CASE DeliverFaults(l)
    <3>1. OnlyListener(l) /\ Faults(l)
      BY <2>3, DeliverFaultsShape DEF Faults, DeliverFaults
    <3>. QED  BY <3>1, UpdateSteps DEF Step
  <2>4. CASE Deliver(l)
    <3>1. Goes(l)
      <4>1. listener[l].phase = "loaded"
        BY <2>4 DEF Deliver
      <4>. QED  BY <2>4, <4>1, DeliverShape DEF Goes
    <3>2. \A k \in DOMAIN listener : k # l => Stays(k)
      BY <2>4, DeliverShape DEF Stays
    <3>3. \A k \in DOMAIN listener' : k \notin DOMAIN listener => Quiet(k)
      <4>1. CASE NextOf(l) <= Len(Waits)
        <5>1. /\ DOMAIN listener' = DOMAIN listener \cup {Len(listener) + 1}
              /\ listener'[Len(listener) + 1] = Idle(Waits[NextOf(l)], "new")
          BY <2>4, <4>1, DeliverShape
        <5>2. listener'[Len(listener) + 1].phase = "idle"
          BY <5>1 DEF Idle
        <5>. QED  BY <5>1, <5>2 DEF Quiet
      <4>2. CASE ~ NextOf(l) <= Len(Waits)
        BY <2>4, <4>2, DeliverShape
      <4>. QED  BY <4>1, <4>2
    <3>. QED  BY <3>1, <3>2, <3>3 DEF Step
  <2>5. CASE CommitFails(l)
    <3>1. OnlyListener(l) /\ Fails(l)
      BY <2>5, CommitFailsShape DEF Fails, Keeps
    <3>. QED  BY <3>1, UpdateSteps DEF Step
  <2>6. CASE LockFails(l)
    BY <2>6, LockFailsShape, UpdateSteps DEF Step, Quiet
  <2>7. CASE OpenListeners(l)
    <3>1. Quiet(l)
      BY <2>7, OpenListenersShape DEF Quiet
    <3>2. \A k \in DOMAIN listener : k # l => Stays(k)
      BY <2>7, OpenListenersShape DEF Stays, Switches, KeepsToken
    <3>3. DOMAIN listener' = DOMAIN listener
      BY <2>7, OpenListenersShape
    <3>. QED  BY <3>1, <3>2, <3>3 DEF Step
  <2>8. CASE OpenCancelled(l)
    <3>1. OnlyListener(l) /\ Quiet(l)
      BY <2>8, OpenCancelledShape DEF Quiet, Rests
    <3>. QED  BY <3>1, UpdateSteps DEF Step
  <2>9. CASE Acknowledge(l)
    BY <2>9, AcknowledgeShape, UpdateSteps DEF Step, Quiet, Rests
  <2>10. CASE Recover(l) \/ RecoverFails(l)
    BY <2>10, RecoverShape, UpdateSteps DEF Step, Quiet, Rests
  <2>11. CASE Rollback(l)
    <3>1. Quiet(l)
      BY <2>11, RollbackShape DEF Quiet, Rests
    <3>2. \A k \in DOMAIN listener : k # l => Stays(k)
      BY <2>11, RollbackShape DEF Stays, Switches, KeepsToken
    <3>3. DOMAIN listener' = DOMAIN listener
      BY <2>11, RollbackShape
    <3>. QED  BY <3>1, <3>2, <3>3 DEF Step
  <2>. QED  BY <1>3, <2>1, <2>2, <2>3, <2>4, <2>5, <2>6, <2>7, <2>8, <2>9, <2>10, <2>11 DEF Run
<1>4. CASE Crash \/ Conflict \/ TerminateToken \/ UNCHANGED vars \/ \E m \in Message : Send(m)
  <2>1. ~ Crash
    BY DEF Crash
  <2>2. UNCHANGED listener
    BY <1>4, <2>1 DEF Conflict, TerminateToken, Send
  <2>. QED  BY <1>1, <2>2
<1>. QED  BY <1>0, <1>2, <1>3, <1>4 DEF Next

(* A commit that fails while the order lasts has made no listener. *)
LEMMA NothingLost ==
  ASSUME TypeInv, [Next]_vars, up', count'.lost = 0
  PROVE  /\ count.lost = 0
         /\ \A l \in DOMAIN listener : CommitFails(l) => listener[l].made = 0
<1>1. count.lost \in Nat
  BY DEF TypeInv, TypeOK
<1>2. ASSUME NEW l \in DOMAIN listener, CommitFails(l)
      PROVE  count.lost = 0 /\ listener[l].made = 0
  <2>1. count'.lost = IF listener[l].made # 0 THEN count.lost + 1 ELSE count.lost
    BY <1>2 DEF CommitFails, TypeInv, TypeOK
  <2>. QED  BY <1>1, <2>1
<1>3. ASSUME NEW l \in DOMAIN listener, Run(l) \/ Rollback(l) \/ RecoverFails(l)
      PROVE  count'.lost = count.lost \/ CommitFails(l)
  <2>1. CASE Rollback(l) \/ RecoverFails(l)
    BY <2>1 DEF Rollback, RecoverFails, TypeInv, TypeOK
  <2>2. CASE LoadToken(l) \/ DeliverToEnded(l) \/ DeliverFaults(l) \/ Deliver(l)
    BY <2>2 DEF LoadToken, DeliverToEnded, DeliverFaults, Deliver
  <2>3. CASE Commit(l) \/ LockFails(l) \/ OpenListeners(l)
    BY <2>3 DEF Commit, LockFails, OpenListeners
  <2>4. CASE Acknowledge(l) \/ Recover(l)
    BY <2>4 DEF Acknowledge, Recover
  <2>5. CASE OpenCancelled(l)
    BY <2>5 DEF OpenCancelled, TypeInv, TypeOK
  <2>. QED  BY <1>3, <2>1, <2>2, <2>3, <2>4, <2>5 DEF Run
<1>4. ~ Crash
  BY DEF Crash
<1>5. \A m \in Message : Send(m) => UNCHANGED count
  BY DEF Send
<1>6. \A m \in Message, l \in DOMAIN listener : OnMessage(l, m) => UNCHANGED count
  BY DEF OnMessage
<1>7. Conflict => count'.lost = count.lost
  BY DEF Conflict, TypeInv, TypeOK
<1>8. TerminateToken \/ EnableInboundMessageActivities => UNCHANGED count
  BY DEF TerminateToken, EnableInboundMessageActivities
<1>9. Terminate => UNCHANGED count
  BY DEF Terminate, RemoveRequestListener, CloseRequestListener, CommitTermination
<1>10. count'.lost = count.lost \/ \E l \in DOMAIN listener : CommitFails(l)
  BY <1>3, <1>4, <1>5, <1>6, <1>7, <1>8, <1>9 DEF Next
<1>. QED  BY <1>2, <1>10

LEMMA NextOwner ==
  ASSUME IndInv, IndInv', OwnerInv, [Next]_vars
  PROVE  OwnerInv'
<1>. SUFFICES ASSUME Orderly' PROVE (OneOwner /\ \A l \in DOMAIN listener : InStep(l))'
  BY DEF OwnerInv
<1>0. TypeInv /\ MadeInv /\ SnapshotInv /\ TypeInv'
  BY DEF IndInv
<1>9. /\ Live' /\ count.lost = 0
      /\ \A l \in DOMAIN listener : CommitFails(l) => listener[l].made = 0
  BY <1>0, NothingLost DEF Orderly, Live
<1>1. CASE EnableInboundMessageActivities
  <2>1. DOMAIN listener' = {1} /\ listener'[1].phase = "idle"
    BY <1>1, <1>9, StartOwners DEF Idle
  <2>. QED  BY <2>1 DEF OneOwner, InStep
<1>2. ASSUME NEW l \in DOMAIN listener, Commit(l)
      PROVE  (OneOwner /\ \A k \in DOMAIN listener : InStep(k))'
  <2>1. /\ Orderly /\ DOMAIN listener' = DOMAIN listener
        /\ \A h \in DOMAIN listener : Owner(h)' => h = listener[l].made \/ (Owner(h) /\ h # l)
    BY <1>0, <1>2, <1>9, CommitOwners DEF Orderly
  <2>2. listener[l].phase = "delivered"
    BY <1>2 DEF Commit
  <2>3. Owner(l)
    BY <2>1, <2>2, DeliveryOwns
  <2>4. OneOwner'
    <3>1. \A h \in DOMAIN listener' : Owner(h)' => h = listener[l].made
      BY <2>1, <2>3 DEF OwnerInv, OneOwner
    <3>. QED  BY <3>1 DEF OneOwner
  <2>5. /\ listener'[l].phase = "committed"
        /\ \A k \in DOMAIN listener : k # l => listener'[k] = listener[k]
    BY <1>0, <1>2, CommitShape DEF OnlyListener
  <2>6. \A k \in DOMAIN listener : k # l => listener[k].phase \notin {"loaded", "delivered", "stale"}
    BY <2>1, <2>2, OneDelivery
  <2>7. \A k \in DOMAIN listener' : InStep(k)'
    BY <2>1, <2>5, <2>6 DEF InStep
  <2>. QED  BY <2>4, <2>7
<1>3. CASE ~ EnableInboundMessageActivities /\ ~ \E l \in DOMAIN listener : Commit(l)
  <2>1. Orderly /\ pos' = pos /\ (NothingLeftOver => NoNewOwner)
    BY <1>0, <1>3, <1>9, NextOwners DEF Orderly
  <2>2. OneOwner /\ \A l \in DOMAIN listener : InStep(l)
    BY <2>1 DEF OwnerInv
  <2>3. NoNewOwner
    BY <2>1, <2>2 DEF NothingLeftOver, InStep
  <2>4. OneOwner'
    BY <2>2, <2>3 DEF OneOwner, NoNewOwner
  <2>6. ASSUME NEW k \in DOMAIN listener'
        PROVE  InStep(k)'
    <3>0. Step(k)
      BY <1>0, <1>3, <1>9, DeliverySteps DEF Orderly, Live
    <3>1. CASE Stays(k)
      <4>1. InStep(k)
        BY <2>2, <3>1 DEF Stays
      <4>. QED  BY <2>1, <3>1, <4>1 DEF Stays, InStep
    <3>2. CASE Quiet(k)
      BY <3>2 DEF Quiet, InStep
    <3>3. CASE Begins(k)
      BY <2>1, <3>3 DEF Begins, InStep
    <3>4. CASE Goes(k)
      <4>1. k \in DOMAIN listener /\ listener[k].phase = "loaded"
        BY <3>4 DEF Goes
      <4>2. InStep(k) /\ listener[k].action = Waits[pos]
        BY <2>1, <2>2, <4>1, DeliveryOwns
      <4>3. listener[k].pos = pos /\ pos <= Len(Waits)
        BY <2>1, <4>1, <4>2 DEF InStep, IndInv, TypeInv, Orderly, Live
      <4>4. NextOf(k) = pos + 1
        BY <1>0, <4>1, <4>2, <4>3, NextOfType
      <4>. QED  BY <2>1, <3>4, <4>1, <4>2, <4>4 DEF Goes, InStep
    <3>5. CASE Faults(k)
      BY <3>5 DEF Faults, InStep
    <3>6. CASE Fails(k)
      BY <1>9, <3>6 DEF Fails, InStep
    <3>. QED  BY <3>0, <3>1, <3>2, <3>3, <3>4, <3>5, <3>6 DEF Step
  <2>. QED  BY <2>4, <2>6
<1>. QED  BY <1>1, <1>2, <1>3

(* A commit that moves the token is that of the only owner, which is for   *)
(* the receive of the token: the token goes to the next receive.           *)
LEMMA CommitInOrder ==
  ASSUME IndInv, OwnerInv, NEW l \in DOMAIN listener, Commit(l), Orderly, pos' # pos
  PROVE  /\ pos' = pos + 1 /\ listener[l].action = Waits[pos]
         /\ listener[l].message \in Message /\ listener[l].message[1] = Waits[pos]
         /\ moves' = [moves EXCEPT ![listener[l].message] = @ + 1]
         /\ accepted' = [accepted EXCEPT ![listener[l].action] = listener[l].message]
<1>0. TypeInv /\ SnapshotInv /\ pos <= Len(Waits) /\ pos \in Position
  BY DEF IndInv, TypeInv, TypeOK, Orderly, Live
<1>1. /\ listener[l].phase = "delivered"
      /\ pos' = listener[l].pos /\ listener[l].pos = After(listener[l].action, pos)
  BY <1>0, CommitFacts
<1>2. listener[l].action = Waits[pos]
  BY <1>1, DeliveryOwns
<1>3. listener[l].message \in Message /\ listener[l].message[1] = listener[l].action
  BY <1>1, MessageAction
<1>4. pos' = pos + 1
  <2>1. pos \in 1 .. Len(Waits)
    BY <1>0, LineFacts DEF Position
  <2>. QED  BY <1>0, <1>1, <1>2, <2>1, AfterType
<1>5. /\ moves' = [moves EXCEPT ![listener[l].message] = @ + 1]
      /\ accepted' = [accepted EXCEPT ![listener[l].message[1]] = listener[l].message]
  BY DEF Commit
<1>. QED  BY <1>2, <1>3, <1>4, <1>5

(* Nothing but a commit changes the position of the token. *)
LEMMA OnlyCommitsMove ==
  ASSUME [Next]_vars, pos' # pos
  PROVE  \E l \in DOMAIN listener : Commit(l)
<1>1. ASSUME NEW l \in DOMAIN listener, Run(l) \/ Rollback(l) \/ RecoverFails(l)
      PROVE  Commit(l)
  <2>1. ~ Rollback(l) /\ ~ RecoverFails(l) /\ ~ Deliver(l)
    BY DEF Rollback, RecoverFails, Deliver
  <2>2. ~ LoadToken(l) /\ ~ DeliverToEnded(l) /\ ~ DeliverFaults(l)
    BY DEF LoadToken, DeliverToEnded, DeliverFaults
  <2>3. ~ CommitFails(l) /\ ~ LockFails(l)
    BY DEF CommitFails, LockFails
  <2>4. ~ OpenListeners(l) /\ ~ OpenCancelled(l) /\ ~ Acknowledge(l) /\ ~ Recover(l)
    BY DEF OpenListeners, OpenCancelled, Acknowledge, Recover
  <2>. QED  BY <1>1, <2>1, <2>2, <2>3, <2>4 DEF Run
<1>2. \A m \in Message : ~ Send(m)
  BY DEF Send
<1>3. \A m \in Message, l \in DOMAIN listener : ~ OnMessage(l, m)
  BY DEF OnMessage
<1>4. ~ Conflict /\ ~ TerminateToken /\ ~ Crash /\ ~ EnableInboundMessageActivities
  BY DEF Conflict, TerminateToken, Crash, EnableInboundMessageActivities
<1>5. ~ Terminate
  BY DEF Terminate, RemoveRequestListener, CloseRequestListener, CommitTermination
<1>6. ~ UNCHANGED vars
  OBVIOUS
<1>. QED  BY <1>1, <1>2, <1>3, <1>4, <1>5, <1>6 DEF Next

-----------------------------------------------------------------------------
(* Outstanding requests *)

(* What a delivery files is its own request, for the receive of the token. *)
LEMMA FiledFacts ==
  ASSUME IndInv, OwnerInv, ReplyInv, Orderly, NEW l \in DOMAIN listener, listener[l].phase = "loaded"
  PROVE  /\ \A b \in Action : Filed(l).requests[b] # None =>
              /\ b \in TwoWay /\ Filed(l).requests[b][1] = b
              /\ \/ accepted[b] = Filed(l).requests[b]
                 \/ b = Waits[pos] /\ Filed(l).requests[b] = listener[l].message
         /\ Filed(l).requests[listener[l].action] \in {None, listener[l].message}
         /\ listener[l].action = Waits[pos] /\ listener[l].action \in Action
<1>1. listener[l].action = Waits[pos]
  BY DeliveryOwns
<1>2. listener[l].message[1] = listener[l].action
  BY MessageAction
<1>3. outstanding \in [Action -> Message \cup {None}] /\ listener[l].action \in Action
  BY FieldTypes DEF IndInv, TypeInv, TypeOK
<1>4. \A b \in Action : RequestOK(b)
  BY DEF ReplyInv
<1>5. ASSUME NEW b \in Action
      PROVE  Filed(l).requests[b] = IF b = listener[l].action /\ b \in TwoWay
                                    THEN listener[l].message ELSE outstanding[b]
  BY <1>3 DEF Filed, AddOutstandingRequest
<1>. QED  BY <1>1, <1>2, <1>3, <1>4, <1>5 DEF RequestOK

Files(l) == DeliverToEnded(l) \/ DeliverFaults(l) \/ Deliver(l) \/ LockFails(l)

(* Deliveries and crashes change the outstanding requests, commits the     *)
(* accepted ones.                                                          *)
LEMMA RequestSteps ==
  ASSUME [Next]_vars
  PROVE  /\ UNCHANGED <<outstanding, up>> \/ Crash \/ EnableInboundMessageActivities
            \/ \E l \in DOMAIN listener : Files(l)
         /\ UNCHANGED accepted \/ \E l \in DOMAIN listener : Commit(l)
         /\ UNCHANGED replies \/ \E l \in DOMAIN listener : Deliver(l)
<1>1. ASSUME NEW l \in DOMAIN listener, Run(l) \/ Rollback(l) \/ RecoverFails(l)
      PROVE  /\ UNCHANGED <<outstanding, up>> \/ Files(l)
             /\ UNCHANGED accepted \/ Commit(l)
             /\ UNCHANGED replies \/ Deliver(l)
  <2>1. CASE Rollback(l) \/ RecoverFails(l) \/ Commit(l)
    BY <2>1 DEF Rollback, RecoverFails, Commit
  <2>2. CASE DeliverToEnded(l) \/ DeliverFaults(l) \/ LockFails(l)
    BY <2>2 DEF Files, DeliverToEnded, DeliverFaults, LockFails
  <2>3. CASE Deliver(l)
    BY <2>3 DEF Files, Deliver
  <2>4. CASE LoadToken(l) \/ CommitFails(l)
    BY <2>4 DEF LoadToken, CommitFails
  <2>5. CASE OpenListeners(l) \/ OpenCancelled(l) \/ Acknowledge(l) \/ Recover(l)
    BY <2>5 DEF OpenListeners, OpenCancelled, Acknowledge, Recover
  <2>. QED  BY <1>1, <2>1, <2>2, <2>3, <2>4, <2>5 DEF Run
<1>2. \A m \in Message : Send(m) => UNCHANGED <<outstanding, up, accepted, replies>>
  BY DEF Send
<1>3. \A m \in Message, l \in DOMAIN listener :
        OnMessage(l, m) => UNCHANGED <<outstanding, up, accepted, replies>>
  BY DEF OnMessage
<1>4. Conflict \/ TerminateToken => UNCHANGED <<outstanding, up, accepted, replies>>
  BY DEF Conflict, TerminateToken
<1>5. Terminate => UNCHANGED <<outstanding, up, accepted, replies>>
  BY DEF Terminate, RemoveRequestListener, CloseRequestListener, CommitTermination
<1>6. Crash \/ EnableInboundMessageActivities => UNCHANGED <<accepted, replies>>
  BY DEF Crash, EnableInboundMessageActivities
<1>. QED  BY <1>1, <1>2, <1>3, <1>4, <1>5, <1>6 DEF Next

LEMMA InitOrder == Init => OwnerInv /\ NoLateDelivery /\ ReplyInv
<1>. SUFFICES ASSUME Init PROVE OwnerInv /\ NoLateDelivery /\ ReplyInv
  OBVIOUS
<1>1. DOMAIN listener = {1} /\ listener[1].phase = "idle"
  BY DEF Init, Idle
<1>2. up /\ \A b \in Action : outstanding[b] = None
  BY DEF Init
<1>3. OneOwner
  BY <1>1 DEF OneOwner
<1>. QED  BY <1>1, <1>2, <1>3 DEF OwnerInv, InStep, NoLateDelivery, ReplyInv, RequestOK, FiledOK

LEMMA NextLate ==
  ASSUME IndInv, IndInv', OwnerInv, NoLateDelivery, [Next]_vars
  PROVE  NoLateDelivery'
<1>. SUFFICES ASSUME terminator'.phase = "idle", ended', count'.lost = 0,
                     NEW k \in DOMAIN listener', listener'[k].phase = "loaded"
              PROVE  listener'[k].ended
  BY DEF NoLateDelivery
<1>0. TypeInv /\ SnapshotInv /\ TypeInv'
  BY DEF IndInv
<1>1. up'
  <2>1. ~ up' => listener' = <<>>
    BY <1>0 DEF TypeInv
  <2>. QED  BY <2>1
<1>2. /\ terminator.phase = "idle" /\ count.lost = 0
      /\ ended' = ended \/ \E l \in DOMAIN listener : Commit(l)
  BY <1>0, <1>1, NoTerminationStep, NothingLost
<1>3. CASE EnableInboundMessageActivities
  <2>1. UNCHANGED <<listener, ended>>
    BY <1>3 DEF EnableInboundMessageActivities
  <2>. QED  BY <1>2, <2>1 DEF NoLateDelivery
<1>4. ASSUME NEW l \in DOMAIN listener, Commit(l)
      PROVE  listener'[k].ended
  <2>1. /\ DOMAIN listener' = DOMAIN listener /\ listener'[l].phase = "committed"
        /\ \A h \in DOMAIN listener : h # l => listener'[h] = listener[h]
    BY <1>0, <1>4, CommitShape DEF OnlyListener
  <2>2. k \in DOMAIN listener /\ k # l /\ listener'[k] = listener[k]
    BY <2>1
  <2>3. listener[l].phase = "delivered" /\ up
    BY <1>0, <1>4, RunsWhileUp DEF Commit
  <2>4. CASE ~ ended
    <3>1. Orderly
      BY <1>2, <2>3, <2>4 DEF Orderly, Live
    <3>. QED  BY <2>2, <2>3, <3>1, OneDelivery
  <2>5. CASE ended
    BY <1>2, <2>2, <2>5 DEF NoLateDelivery
  <2>. QED  BY <2>4, <2>5
<1>5. CASE ~ EnableInboundMessageActivities /\ ~ \E l \in DOMAIN listener : Commit(l)
  <2>1. Step(k) /\ ended
    BY <1>0, <1>1, <1>2, <1>5, DeliverySteps
  <2>2. CASE Stays(k)
    BY <1>2, <2>1, <2>2 DEF Stays, NoLateDelivery
  <2>3. CASE Begins(k)
    BY <1>0, <2>1, <2>3, LoadTokenShape DEF Begins
  <2>4. ~ Quiet(k) /\ ~ Goes(k) /\ ~ Faults(k) /\ ~ Fails(k)
    BY DEF Quiet, Goes, Faults, Fails
  <2>. QED  BY <2>1, <2>2, <2>3, <2>4 DEF Step
<1>. QED  BY <1>3, <1>4, <1>5

LEMMA NextReply ==
  ASSUME IndInv, OwnerInv, ReplyInv, [Next]_vars
  PROVE  ReplyInv'
<1>0. TypeInv /\ MadeInv /\ SnapshotInv
  BY DEF IndInv
<1>1. ASSUME ~ up'
      PROVE  \A b \in Action : outstanding'[b] = None
  <2>1. CASE Crash
    BY <2>1 DEF Crash
  <2>2. CASE UNCHANGED <<outstanding, up>>
    BY <1>1, <2>2 DEF ReplyInv
  <2>3. ~ EnableInboundMessageActivities
    BY <1>1 DEF EnableInboundMessageActivities
  <2>4. ASSUME NEW l \in DOMAIN listener, Files(l)
        PROVE  FALSE
    <3>1. up' = up
      BY <2>4 DEF Files, DeliverToEnded, DeliverFaults, LockFails, Deliver
    <3>. QED  BY <1>0, <1>1, <3>1, RunsWhileUp
  <2>. QED  BY <2>1, <2>2, <2>3, <2>4, RequestSteps
<1>. SUFFICES ASSUME Orderly'
              PROVE  /\ \A b \in Action : RequestOK(b)'
                     /\ \A l \in DOMAIN listener' : FiledOK(l)'
  BY <1>1 DEF ReplyInv
<1>9. Live' /\ count.lost = 0
  BY <1>0, NothingLost DEF Orderly, Live
<1>2. CASE EnableInboundMessageActivities
  <2>1. DOMAIN listener' = {1} /\ listener'[1].phase = "idle"
    BY <1>2, <1>9, StartOwners DEF Idle
  <2>2. \A b \in Action : outstanding'[b] = None
    BY <1>2 DEF EnableInboundMessageActivities, ReplyInv
  <2>. QED  BY <2>1, <2>2 DEF RequestOK, FiledOK
<1>3. ASSUME NEW l \in DOMAIN listener, Commit(l)
      PROVE  /\ \A b \in Action : RequestOK(b)'
             /\ \A k \in DOMAIN listener' : FiledOK(k)'
  <2>1. Orderly /\ ~ listener[l].ended /\ pos' = listener[l].pos /\ DOMAIN listener' = DOMAIN listener
    BY <1>0, <1>3, <1>9, CommitOwners DEF Orderly
  <2>2. listener[l].phase = "delivered" /\ UNCHANGED outstanding
    BY <1>3 DEF Commit
  <2>3. pos' # pos
    <3>1. listener[l].pos = pos + 1
      BY <2>1, <2>2 DEF OwnerInv, InStep
    <3>2. pos \in Nat
      BY <1>0, LineFacts DEF TypeInv, TypeOK, Position
    <3>. QED  BY <2>1, <3>1, <3>2
  <2>4. /\ listener[l].action = Waits[pos]
        /\ accepted' = [accepted EXCEPT ![listener[l].action] = listener[l].message]
    BY <1>3, <2>1, <2>3, CommitInOrder
  <2>5. accepted \in [Action -> Message \cup {None}]
    BY <1>0 DEF TypeInv, TypeOK
  <2>6. \A b \in Action : accepted'[b] = IF b = listener[l].action THEN listener[l].message ELSE accepted[b]
    BY <2>4, <2>5
  <2>7. FiledOK(l) /\ \A b \in Action : RequestOK(b)
    BY <2>1 DEF ReplyInv
  <2>8. \A b \in Action : RequestOK(b)'
    BY <2>1, <2>2, <2>4, <2>6, <2>7 DEF RequestOK, FiledOK
  <2>9. /\ listener'[l].phase = "committed"
        /\ \A k \in DOMAIN listener : k # l => listener'[k] = listener[k]
    BY <1>0, <1>3, CommitShape DEF OnlyListener
  <2>10. \A k \in DOMAIN listener : k # l => listener[k].phase # "delivered"
    BY <2>1, <2>2, OneDelivery
  <2>11. \A k \in DOMAIN listener' : FiledOK(k)'
    BY <2>1, <2>9, <2>10 DEF FiledOK
  <2>. QED  BY <2>8, <2>11
<1>4. CASE ~ EnableInboundMessageActivities /\ ~ \E l \in DOMAIN listener : Commit(l)
  <2>1. Orderly /\ pos' = pos /\ accepted' = accepted
    BY <1>0, <1>4, <1>9, NextOwners, RequestSteps DEF Orderly
  <2>2. \A k \in DOMAIN listener' : Step(k)
    BY <1>0, <1>4, <1>9, DeliverySteps DEF Live
  <2>3. /\ \A b \in Action : RequestOK(b)
        /\ \A l \in DOMAIN listener : FiledOK(l)
    BY <2>1 DEF ReplyInv
  <2>4. ASSUME NEW l \in DOMAIN listener, Files(l)
        PROVE  /\ \A b \in Action : RequestOK(b)'
               /\ \A k \in DOMAIN listener' : FiledOK(k)'
    <3>1. listener[l].phase = "loaded"
      BY <2>4 DEF Files, DeliverToEnded, DeliverFaults, LockFails, Deliver
    <3>2. /\ \A b \in Action : Filed(l).requests[b] # None =>
               /\ b \in TwoWay /\ Filed(l).requests[b][1] = b
               /\ accepted[b] = Filed(l).requests[b] \/ b = Waits[pos]
          /\ Filed(l).requests[listener[l].action] \in {None, listener[l].message}
          /\ listener[l].action \in Action
      BY <2>1, <3>1, FiledFacts
    <3>3. \A b \in Action : outstanding'[b] \in {None, Filed(l).requests[b]}
      BY <2>4 DEF Files, DeliverToEnded, DeliverFaults, LockFails, Deliver
    <3>4. \A b \in Action : RequestOK(b)'
      BY <2>1, <3>2, <3>3 DEF RequestOK
    <3>5. ASSUME NEW k \in DOMAIN listener', k # l
          PROVE  FiledOK(k)'
      <4>1. k \in DOMAIN listener => listener[k].phase \notin {"loaded", "delivered"}
        BY <2>1, <3>1, <3>5, OneDelivery
      <4>2. Stays(k) \/ Quiet(k) \/ Begins(k) \/ Fails(k)
        BY <2>2, <4>1 DEF Step, Goes, Faults
      <4>. QED  BY <4>1, <4>2 DEF Stays, Quiet, Begins, Fails, FiledOK
    <3>6. ASSUME l \in DOMAIN listener'
          PROVE  FiledOK(l)'
      <4>1. CASE Goes(l)
        BY <3>2, <3>3, <4>1 DEF Goes, FiledOK
      <4>2. CASE Stays(l) \/ Quiet(l) \/ Begins(l) \/ Faults(l) \/ Fails(l)
        BY <3>1, <4>2 DEF Stays, Quiet, Begins, Faults, Fails, FiledOK
      <4>. QED  BY <2>2, <3>6, <4>1, <4>2 DEF Step
    <3>. QED  BY <3>4, <3>5, <3>6
  <2>5. CASE UNCHANGED <<outstanding, up>> /\ ~ \E l \in DOMAIN listener : Files(l)
    <3>1. \A b \in Action : RequestOK(b)'
      BY <2>1, <2>3, <2>5 DEF RequestOK
    <3>2. ASSUME NEW k \in DOMAIN listener'
          PROVE  FiledOK(k)'
      <4>1. ~ Goes(k)
        BY <2>5 DEF Goes, Files
      <4>2. CASE Stays(k)
        <5>1. FiledOK(k)
          BY <2>3, <4>2 DEF Stays
        <5>. QED  BY <2>5, <4>2, <5>1 DEF Stays, FiledOK
      <4>3. CASE Quiet(k) \/ Begins(k) \/ Faults(k) \/ Fails(k)
        BY <4>3 DEF Quiet, Begins, Faults, Fails, FiledOK
      <4>. QED  BY <2>2, <4>1, <4>2, <4>3 DEF Step
    <3>. QED  BY <3>1, <3>2
  <2>6. ~ Crash
    BY <1>9 DEF Crash, Live
  <2>. QED  BY <1>4, <2>4, <2>5, <2>6, RequestSteps
<1>. QED  BY <1>2, <1>3, <1>4

LEMMA OrderInvariant == Spec => []OrderInv
<1>1. Init => OwnerInv /\ NoLateDelivery /\ ReplyInv
  BY InitOrder
<1>2. IndInv /\ IndInv' /\ OwnerInv /\ NoLateDelivery /\ ReplyInv /\ [Next]_vars =>
        OwnerInv' /\ NoLateDelivery' /\ ReplyInv'
  BY NextOwner, NextLate, NextReply
<1>. QED  BY <1>1, <1>2, InductiveInvariant, PTL DEF Spec, OrderInv

(* The token moves by one receive at a time, and only by a request for the *)
(* receive in which it is (RequestListener.deliverRequest), loops in the   *)
(* line included, wherever other transactions collide with the deliveries: *)
(* until a commit fails that had made a listener, and while nobody         *)
(* terminates the scope, a listener and the one that replaces it are never *)
(* both open for a token that waits.                                       *)
THEOREM TheTokenMovesInOrder == Spec => MovesInOrder
<1>. DEFINE Ordered == count.lost = 0 /\ terminator.phase = "idle" => MoveInOrder
<1>1. OrderInv /\ [Next]_vars => [Ordered]_vars
  <2>. SUFFICES ASSUME OrderInv, [Next]_vars, pos' # pos, terminator.phase = "idle", count.lost = 0
                PROVE  /\ pos' = pos + 1
                       /\ \E m \in Message : moves'[m] = moves[m] + 1 /\ m[1] = Waits[pos]
    BY DEF MoveInOrder
  <2>0. IndInv /\ OwnerInv /\ TypeInv /\ SnapshotInv
    BY DEF OrderInv, IndInv
  <2>1. PICK l \in DOMAIN listener : Commit(l)
    BY OnlyCommitsMove
  <2>2. Orderly
    <3>1. ~ ended
      BY <2>0, <2>1, CommitFacts
    <3>2. up
      BY <2>0, RunsWhileUp
    <3>. QED  BY <3>1, <3>2 DEF Orderly, Live
  <2>3. /\ pos' = pos + 1
        /\ listener[l].message \in Message /\ listener[l].message[1] = Waits[pos]
        /\ moves' = [moves EXCEPT ![listener[l].message] = @ + 1]
    BY <2>0, <2>1, <2>2, CommitInOrder
  <2>4. moves \in [Message -> Nat]
    BY <2>0 DEF TypeInv, TypeOK
  <2>5. moves'[listener[l].message] = moves[listener[l].message] + 1
    BY <2>3, <2>4
  <2>. QED  BY <2>3, <2>5
<1>. QED  BY <1>1, OrderInvariant, PTL DEF Spec, MovesInOrder

(* While nobody terminates the scope of the token, and until a commit      *)
(* fails that had made a listener, a reply goes to the partner whose       *)
(* request the token has accepted, or is accepting, although deliveries    *)
(* that are rolled back leave their requests in the map                    *)
(* (IntegrationControl.addOutstandingRequest).                             *)
THEOREM RepliesGoToAcceptedRequests ==
  Spec => [][count.lost = 0 /\ terminator.phase = "idle" => ReplyToAccepted]_vars
<1>1. OrderInv /\ [Next]_vars =>
        [count.lost = 0 /\ terminator.phase = "idle" => ReplyToAccepted]_vars
  <2>. SUFFICES ASSUME OrderInv, [Next]_vars, count.lost = 0, terminator.phase = "idle",
                       NEW m \in Message, replies'[m] # replies[m]
                PROVE  \/ accepted[m[1]] = m
                       \/ \E l \in DOMAIN listener : /\ listener[l].phase = "loaded"
                                                    /\ listener[l].message = m
    BY DEF ReplyToAccepted
  <2>0. IndInv /\ OwnerInv /\ ReplyInv /\ TypeInv /\ SnapshotInv
    BY DEF OrderInv, IndInv
  <2>1. PICK l \in DOMAIN listener : Deliver(l)
    BY RequestSteps
  <2>2. /\ listener[l].phase = "loaded" /\ ~ listener[l].ended
        /\ \A b \in Answered(l) : Filed(l).requests[b] # None
        /\ replies'[m] = replies[m] + Cardinality({b \in Answered(l) : Filed(l).requests[b] = m})
    BY <2>1 DEF Deliver
  <2>3. Orderly
    <3>1. ~ ended
      BY <2>2 DEF OrderInv, NoLateDelivery
    <3>2. up
      BY <2>0, RunsWhileUp
    <3>. QED  BY <3>1, <3>2 DEF Orderly, Live
  <2>4. PICK b \in Answered(l) : Filed(l).requests[b] = m
    <3>1. replies[m] \in Nat
      BY <2>0 DEF TypeInv, TypeOK
    <3>. DEFINE S == {b \in Answered(l) : Filed(l).requests[b] = m}
    <3>2. replies'[m] = replies[m] + Cardinality(S)
      BY <2>2
    <3>. HIDE DEF S
    <3>3. S # {}
      <4>1. Cardinality({}) = 0
        BY FS_EmptySet
      <4>2. replies[m] + 0 = replies[m]
        BY <3>1
      <4>. QED  BY <3>2, <4>1, <4>2
    <3>. QED  BY <3>3 DEF S
  <2>5. b \in Action /\ Filed(l).requests[b] # None
    <3>1. Answered(l) \in SUBSET Action
      <4>1. NextOf(l) - 1 \in 1 .. Len(Waits)
        BY <2>0, NextOfType
      <4>. QED  BY <4>1, IntegrationAssumption DEF Answered, NextOf
    <3>. QED  BY <2>2, <3>1
  <2>6. m[1] = b /\ (accepted[b] = m \/ listener[l].message = m)
    BY <2>0, <2>2, <2>3, <2>4, <2>5, FiledFacts
  <2>. QED  BY <2>2, <2>6
<1>. QED  BY <1>1, OrderInvariant, PTL DEF Spec
====
