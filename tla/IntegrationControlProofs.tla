---------------------- MODULE IntegrationControlProofs ----------------------
(***************************************************************************)
(* What the delivery of requests guarantees, for every line of receives    *)
(* and any number of requests, conflicts, failures and crashes: a waiting  *)
(* token can be reached, and a request moves the token once.               *)
(***************************************************************************)
EXTENDS IntegrationControl, TLAPS, FiniteSetTheorems, WellFoundedInduction

USE DEF database, jms, memory, history, vars

-----------------------------------------------------------------------------
(* Facts about naturals and sequences. *)

(* A nonempty set of natural numbers has a least element. *)
LEMMA NatMin ==
  ASSUME NEW S \in SUBSET Nat, S # {}
  PROVE  Min(S) \in S
<1>. DEFINE R == {z \in Nat \X Nat : z[1] < z[2]}
<1>1. IsWellFoundedOn(R, Nat)
  BY NatLessThanWellFounded DEF OpToRel
<1>2. \A x, y \in Nat : <<y, x>> \notin R => x <= y
  <2>. SUFFICES ASSUME NEW x \in Nat, NEW y \in Nat, y < x
                PROVE  <<y, x>> \in R
    OBVIOUS
  <2>. QED  OBVIOUS
<1>. HIDE DEF R
<1>3. PICK x \in S : \A y \in S : ~ (<<y, x>> \in R)
  BY <1>1, WFMin
<1>4. \A y \in S : x <= y
  BY <1>2, <1>3
<1>. QED  BY <1>4 DEF Min

(* The sequence with one element replaced. *)
LEMMA UpdateSeq ==
  ASSUME NEW S, NEW s \in Seq(S), NEW l \in DOMAIN s, NEW e \in S,
         NEW t, t = [s EXCEPT ![l] = e]
  PROVE  /\ t \in Seq(S) /\ DOMAIN t = DOMAIN s /\ Len(t) = Len(s) /\ t[l] = e
         /\ \A k \in DOMAIN s : k # l => t[k] = s[k]
  OBVIOUS

(* A function with the domain of a sequence. *)
LEMMA MapSeq ==
  ASSUME NEW S, NEW s \in Seq(S), NEW t, t = [k \in DOMAIN s |-> t[k]],
         \A k \in DOMAIN s : t[k] \in S
  PROVE  t \in Seq(S) /\ DOMAIN t = DOMAIN s /\ Len(t) = Len(s)
  OBVIOUS

(* The line of receives. *)
LEMMA LineFacts ==
  /\ Len(Waits) \in Nat /\ 1 <= Len(Waits)
  /\ \A i \in 1 .. Len(Waits) : Waits[i] \in Action
  BY IntegrationAssumption

-----------------------------------------------------------------------------
(* The inductive invariant, in parts. *)

ListenerOK(l) ==
  /\ \E i \in 1 .. Len(Waits) : Waits[i] = listener[l].action
  /\ listener[l].phase # "idle" => listener[l].message \in Message
  /\ listener[l].made <= Len(listener)
  /\ ~ listener[l].ended => listener[l].pos <= Len(Waits)

(* Types, with what the guards rely on: listeners are for receives of the  *)
(* line, a transaction has its message, a token that has not ended is in a *)
(* receive, and there is no memory while the server is down.               *)
TypeInv ==
  /\ TypeOK
  /\ \A l \in DOMAIN listener : ListenerOK(l)
  /\ ~ ended => pos <= Len(Waits)
  /\ terminator.phase = "loaded" => terminator.action \in Action
  /\ terminator.phase \notin {"removed", "closed"} => terminator.listener = 0
  /\ ~ up => listener = <<>> /\ terminator.phase \in {"idle", "done"}

(* What a transaction knows of the listener that it has created: no other  *)
(* transaction has, and it is not open.                                    *)
MadeOK(l) ==
  /\ listener[l].phase # "idle" => listener[l].state = "open"
  /\ listener[l].phase \in {"idle", "received", "loaded"} => listener[l].made = 0
  /\ listener[l].made # 0 => l < listener[l].made
  /\ \A k \in DOMAIN listener :
       listener[k].made = listener[l].made /\ listener[l].made # 0 => k = l
  /\ listener[l].phase \in {"delivered", "committed", "stale"} =>
       IF listener[l].ended THEN listener[l].made = 0
       ELSE /\ listener[l].made # 0
            /\ listener[listener[l].made].state \in {"new", "closed"}
            /\ terminator.phase = "idle" => listener[listener[l].made].state = "new"
            /\ listener[listener[l].made].action = Waits[listener[l].pos]

MadeInv == \A l \in DOMAIN listener : MadeOK(l)

(* A transaction that has the version of the database has its token too,   *)
(* or the one that it makes of it; what it read as ended has ended.        *)
SnapshotOK(l) ==
  /\ listener[l].version <= version
  /\ listener[l].phase \in {"idle", "received", "loaded"} => ~ listener[l].dirty
  /\ listener[l].phase = "loaded" =>
       /\ listener[l].ended => ended
       /\ listener[l].version = version => listener[l].pos = pos /\ (ended => listener[l].ended)
  /\ listener[l].phase = "delivered" =>
       IF listener[l].dirty
       THEN listener[l].version = version =>
              /\ ~ ended
              /\ \/ listener[l].pos = After(listener[l].action, pos)
                 \/ listener[l].pos = pos /\ listener[l].ended
       ELSE ended

SnapshotInv ==
  /\ terminator.phase = "done" => ended
  /\ \A l \in DOMAIN listener : SnapshotOK(l)

(* A request that is being delivered belongs to one listener.              *)
QueueInv ==
  /\ \A m \in Message : holder[m] # 0 => listener[holder[m]].action = m[1]
  /\ \A l \in DOMAIN listener :
       listener[l].phase # "idle" => /\ holder[listener[l].message] = l
                                     /\ queue[listener[l].message] = "delivered"

(* A request has no move left once a commit has counted, until a crash or  *)
(* a cancelled listener gives it another one.                              *)
MoveInv ==
  \A m \in Message :
    \/ moves[m] <= count.crashes + count.cancelled
    \/ /\ moves[m] <= 1 + count.crashes + count.cancelled
       /\ \/ queue[m] = "acknowledged"
          \/ \E l \in DOMAIN listener : /\ listener[l].phase \in {"committed", "opened"}
                                       /\ listener[l].message = m

(* The token waits, and nobody terminates it. *)
Live == up /\ terminator.phase = "idle" /\ ~ ended

(* The listener that owns the reception: an open one whose delivery has    *)
(* not committed, or the one that a committed delivery is about to open.   *)
Owner(h) ==
  \/ listener[h].state = "open" /\ listener[h].phase \notin {"committed", "opened"}
  \/ /\ listener[h].state = "new"
     /\ \E l \in DOMAIN listener : listener[l].phase = "committed" /\ listener[l].made = h

(* The reception of a waiting token has an owner. *)
ReachInv == Live => \E h \in DOMAIN listener : Owner(h) /\ listener[h].action = Waits[pos]

IndInv == TypeInv /\ MadeInv /\ SnapshotInv /\ QueueInv /\ MoveInv /\ ReachInv

-----------------------------------------------------------------------------
(* What the operations do to the listeners. *)

(* The receive after an action is one past a receive with this action. *)
LEMMA AfterType ==
  ASSUME NEW a, NEW i \in Position, NEW j \in 1 .. Len(Waits), Waits[j] = a
  PROVE  /\ After(a, i) \in Position /\ After(a, i) - 1 \in 1 .. Len(Waits)
         /\ i <= Len(Waits) /\ Waits[i] = a => After(a, i) = i + 1
<1>1. Len(Waits) \in Nat
  BY LineFacts
<1>. DEFINE S == {k \in 1 .. Len(Waits) : Waits[k] = a}
<1>2. S \in SUBSET Nat /\ S # {}
  BY <1>1
<1>3. Min(S) \in 1 .. Len(Waits)
  <2>1. Min(S) \in S
    BY <1>2, NatMin
  <2>. QED  BY <2>1
<1>. HIDE DEF S
<1>4. After(a, i) = 1 + IF i <= Len(Waits) /\ Waits[i] = a THEN i ELSE Min(S)
  BY DEF After, S
<1>. QED  BY <1>1, <1>3, <1>4 DEF Position

(* Nothing but the listener l changes. *)
OnlyListener(l) ==
  /\ listener' \in Seq(Listener) /\ Len(listener') = Len(listener)
  /\ DOMAIN listener' = DOMAIN listener
  /\ \A k \in DOMAIN listener : k # l => listener'[k] = listener[k]

LEMMA UpdateListener ==
  ASSUME listener \in Seq(Listener), NEW l \in DOMAIN listener, NEW e \in Listener,
         listener' = [listener EXCEPT ![l] = e]
  PROVE  OnlyListener(l) /\ listener'[l] = e
  BY UpdateSeq DEF OnlyListener

(* A delivery keeps its listener, or goes on with the token that it has.   *)
Keeps(l) ==
  /\ listener'[l].action = listener[l].action /\ listener'[l].state = listener[l].state
  /\ listener'[l].message = listener[l].message /\ listener'[l].made = listener[l].made

KeepsToken(l) ==
  /\ listener'[l].pos = listener[l].pos /\ listener'[l].ended = listener[l].ended
  /\ listener'[l].version = listener[l].version /\ listener'[l].dirty = listener[l].dirty

(* The session is idle again. *)
Rests(l) ==
  /\ listener'[l].action = listener[l].action /\ listener'[l].phase = "idle"
  /\ listener'[l].message = None /\ listener'[l].made = 0 /\ listener'[l].version = 0
  /\ listener'[l].pos = 1 /\ ~ listener'[l].ended /\ ~ listener'[l].dirty

(* The types of the fields of a listener. *)
LEMMA FieldTypes ==
  ASSUME TypeInv, NEW l \in DOMAIN listener
  PROVE  /\ listener[l].action \in Action /\ listener[l].made \in 0 .. Len(listener)
         /\ listener[l].state \in {"new", "open", "closed"}
         /\ listener[l].pos \in Position /\ listener[l].version \in Nat
         /\ listener[l].ended \in BOOLEAN /\ listener[l].dirty \in BOOLEAN
         /\ listener[l].phase # "idle" => listener[l].message \in Message
         /\ ~ listener[l].ended => listener[l].pos <= Len(Waits)
         /\ l \in 1 .. Len(listener) /\ Len(listener) \in Nat
<1>1. listener \in Seq(Listener) /\ listener[l] \in Listener /\ ListenerOK(l)
  BY DEF TypeInv, TypeOK
<1>2. listener[l].made \in Nat /\ Len(listener) \in Nat
  BY <1>1 DEF Listener
<1>. QED  BY <1>1, <1>2 DEF Listener, ListenerOK

(* The listener when its session is idle again. *)
LEMMA RestType ==
  ASSUME TypeInv, NEW l \in DOMAIN listener
  PROVE  Rest(l) \in Listener
<1>1. listener[l] \in Listener
  BY DEF TypeInv, TypeOK
<1>. QED  BY <1>1, LineFacts DEF Listener, Rest, Idle, Position

LEMMA OnMessageShape ==
  ASSUME TypeInv, NEW m \in Message, NEW l \in DOMAIN listener, OnMessage(l, m)
  PROVE  /\ OnlyListener(l)
         /\ listener'[l].action = listener[l].action /\ listener'[l].state = listener[l].state
         /\ listener'[l].phase = "received" /\ listener'[l].message = m
         /\ listener'[l].made = listener[l].made /\ KeepsToken(l)
<1>. DEFINE e == [listener[l] EXCEPT !.phase = "received", !.message = m]
<1>1. listener \in Seq(Listener) /\ listener[l] \in Listener
  BY DEF TypeInv, TypeOK
<1>2. e \in Listener
  BY <1>1 DEF Listener
<1>3. listener' = [listener EXCEPT ![l] = e]
  BY DEF OnMessage
<1>. HIDE DEF e
<1>4. OnlyListener(l) /\ listener'[l] = e
  BY <1>1, <1>2, <1>3, UpdateListener
<1>. QED  BY <1>1, <1>4 DEF e, Listener, KeepsToken

LEMMA LoadTokenShape ==
  ASSUME TypeInv, NEW l \in DOMAIN listener, LoadToken(l)
  PROVE  /\ OnlyListener(l)
         /\ Keeps(l) /\ listener'[l].phase = "loaded" /\ listener'[l].dirty = listener[l].dirty
         /\ listener'[l].pos = pos /\ listener'[l].ended = ended /\ listener'[l].version = version
<1>. DEFINE e == [listener[l] EXCEPT !.phase = "loaded", !.pos = pos, !.ended = ended,
                                 !.version = version]
<1>1. listener \in Seq(Listener) /\ listener[l] \in Listener
  BY DEF TypeInv, TypeOK
<1>2. e \in Listener
  BY <1>1 DEF Listener, TypeInv, TypeOK
<1>3. listener' = [listener EXCEPT ![l] = e]
  BY DEF LoadToken
<1>. HIDE DEF e
<1>4. OnlyListener(l) /\ listener'[l] = e
  BY <1>1, <1>2, <1>3, UpdateListener
<1>. QED  BY <1>1, <1>4 DEF e, Listener, Keeps

LEMMA DeliverToEndedShape ==
  ASSUME TypeInv, NEW l \in DOMAIN listener, DeliverToEnded(l)
  PROVE  /\ OnlyListener(l)
         /\ Keeps(l) /\ KeepsToken(l) /\ listener'[l].phase = "delivered"
<1>. DEFINE e == [listener[l] EXCEPT !.phase = "delivered"]
<1>1. listener \in Seq(Listener) /\ listener[l] \in Listener
  BY DEF TypeInv, TypeOK
<1>2. e \in Listener
  BY <1>1 DEF Listener
<1>3. listener' = [listener EXCEPT ![l] = e]
  BY DEF DeliverToEnded
<1>. HIDE DEF e
<1>4. OnlyListener(l) /\ listener'[l] = e
  BY <1>1, <1>2, <1>3, UpdateListener
<1>. QED  BY <1>1, <1>4 DEF e, Listener, Keeps, KeepsToken

LEMMA DeliverFaultsShape ==
  ASSUME TypeInv, NEW l \in DOMAIN listener, DeliverFaults(l)
  PROVE  /\ OnlyListener(l)
         /\ Keeps(l) /\ listener'[l].phase = "delivered" /\ listener'[l].ended
         /\ listener'[l].pos = listener[l].pos /\ listener'[l].version = listener[l].version
         /\ listener'[l].dirty = ~ listener[l].ended
<1>. DEFINE e == [listener[l] EXCEPT !.phase = "delivered", !.ended = TRUE,
                                 !.dirty = ~ listener[l].ended]
<1>1. listener \in Seq(Listener) /\ listener[l] \in Listener
  BY DEF TypeInv, TypeOK
<1>2. e \in Listener
  BY <1>1 DEF Listener
<1>3. listener' = [listener EXCEPT ![l] = e]
  BY DEF DeliverFaults
<1>. HIDE DEF e
<1>4. OnlyListener(l) /\ listener'[l] = e
  BY <1>1, <1>2, <1>3, UpdateListener
<1>. QED  BY <1>1, <1>4 DEF e, Listener, Keeps

LEMMA CommitShape ==
  ASSUME TypeInv, NEW l \in DOMAIN listener, Commit(l)
  PROVE  /\ OnlyListener(l)
         /\ Keeps(l) /\ KeepsToken(l) /\ listener'[l].phase = "committed"
<1>. DEFINE e == [listener[l] EXCEPT !.phase = "committed"]
<1>1. listener \in Seq(Listener) /\ listener[l] \in Listener
  BY DEF TypeInv, TypeOK
<1>2. e \in Listener
  BY <1>1 DEF Listener
<1>3. listener' = [listener EXCEPT ![l] = e]
  BY DEF Commit
<1>. HIDE DEF e
<1>4. OnlyListener(l) /\ listener'[l] = e
  BY <1>1, <1>2, <1>3, UpdateListener
<1>. QED  BY <1>1, <1>4 DEF e, Listener, Keeps, KeepsToken

LEMMA CommitFailsShape ==
  ASSUME TypeInv, NEW l \in DOMAIN listener, CommitFails(l)
  PROVE  /\ OnlyListener(l)
         /\ Keeps(l) /\ KeepsToken(l) /\ listener'[l].phase = "stale"
<1>. DEFINE e == [listener[l] EXCEPT !.phase = "stale"]
<1>1. listener \in Seq(Listener) /\ listener[l] \in Listener
  BY DEF TypeInv, TypeOK
<1>2. e \in Listener
  BY <1>1 DEF Listener
<1>3. listener' = [listener EXCEPT ![l] = e]
  BY DEF CommitFails
<1>. HIDE DEF e
<1>4. OnlyListener(l) /\ listener'[l] = e
  BY <1>1, <1>2, <1>3, UpdateListener
<1>. QED  BY <1>1, <1>4 DEF e, Listener, Keeps, KeepsToken

LEMMA LockFailsShape ==
  ASSUME TypeInv, NEW l \in DOMAIN listener, LockFails(l)
  PROVE  /\ OnlyListener(l)
         /\ Keeps(l) /\ KeepsToken(l) /\ listener'[l].phase = "recovering"
<1>. DEFINE e == [listener[l] EXCEPT !.phase = "recovering"]
<1>1. listener \in Seq(Listener) /\ listener[l] \in Listener
  BY DEF TypeInv, TypeOK
<1>2. e \in Listener
  BY <1>1 DEF Listener
<1>3. listener' = [listener EXCEPT ![l] = e]
  BY DEF LockFails
<1>. HIDE DEF e
<1>4. OnlyListener(l) /\ listener'[l] = e
  BY <1>1, <1>2, <1>3, UpdateListener
<1>. QED  BY <1>1, <1>4 DEF e, Listener, Keeps, KeepsToken

LEMMA AcknowledgeShape ==
  ASSUME TypeInv, NEW l \in DOMAIN listener, Acknowledge(l)
  PROVE  /\ OnlyListener(l)
         /\ Rests(l) /\ listener'[l].state = "closed"
<1>. DEFINE e == [Rest(l) EXCEPT !.state = "closed"]
<1>1. listener \in Seq(Listener) /\ listener[l] \in Listener
  BY DEF TypeInv, TypeOK
<1>2. e \in Listener
  BY <1>1, RestType DEF Listener
<1>3. listener' = [listener EXCEPT ![l] = e]
  BY DEF Acknowledge
<1>. HIDE DEF e
<1>4. OnlyListener(l) /\ listener'[l] = e
  BY <1>1, <1>2, <1>3, UpdateListener
<1>. QED  BY <1>1, <1>4 DEF e, Listener, Rests, Rest, Idle

LEMMA RecoverShape ==
  ASSUME TypeInv, NEW l \in DOMAIN listener, Recover(l) \/ RecoverFails(l)
  PROVE  /\ OnlyListener(l)
         /\ Rests(l) /\ listener'[l].state = listener[l].state
<1>. DEFINE e == Rest(l)
<1>1. listener \in Seq(Listener) /\ listener[l] \in Listener
  BY DEF TypeInv, TypeOK
<1>2. e \in Listener
  BY <1>1, RestType DEF Listener
<1>3. listener' = [listener EXCEPT ![l] = e]
  BY DEF Recover, RecoverFails
<1>. HIDE DEF e
<1>4. OnlyListener(l) /\ listener'[l] = e
  BY <1>1, <1>2, <1>3, UpdateListener
<1>. QED  BY <1>1, <1>4 DEF e, Listener, Rests, Rest, Idle

LEMMA OpenCancelledShape ==
  ASSUME TypeInv, NEW l \in DOMAIN listener, OpenCancelled(l)
  PROVE  /\ OnlyListener(l)
         /\ listener[l].phase = "committed" =>
              Rests(l) /\ listener'[l].state = listener[l].state
         /\ listener[l].phase # "committed" =>
              Keeps(l) /\ KeepsToken(l) /\ listener'[l].phase = "recovering"
<1>. DEFINE e == [listener[l] EXCEPT !.phase = "recovering"]
<1>1. listener \in Seq(Listener) /\ listener[l] \in Listener
  BY DEF TypeInv, TypeOK
<1>2. CASE listener[l].phase = "committed"
  <2>1. listener' = [listener EXCEPT ![l] = Rest(l)]
    BY <1>2 DEF OpenCancelled
  <2>2. OnlyListener(l) /\ listener'[l] = Rest(l)
    BY <1>1, <2>1, RestType, UpdateListener
  <2>. QED  BY <1>2, <2>2 DEF Rests, Rest, Idle
<1>3. CASE listener[l].phase # "committed"
  <2>1. e \in Listener
    BY <1>1 DEF Listener
  <2>2. listener' = [listener EXCEPT ![l] = e]
    BY <1>3 DEF OpenCancelled
  <2>. HIDE DEF e
  <2>3. OnlyListener(l) /\ listener'[l] = e
    BY <1>1, <2>1, <2>2, UpdateListener
  <2>. QED  BY <1>1, <1>3, <2>3 DEF e, Listener, Keeps, KeepsToken
<1>. QED  BY <1>2, <1>3

(* Only the state of the listener k changes. *)
Switches(k, s) ==
  /\ listener'[k].state = s
  /\ listener'[k].action = listener[k].action /\ listener'[k].phase = listener[k].phase
  /\ listener'[k].message = listener[k].message /\ listener'[k].made = listener[k].made
  /\ KeepsToken(k)

(* The listener l and the one that it has made change. *)
LEMMA RollbackShape ==
  ASSUME TypeInv, NEW l \in DOMAIN listener, Rollback(l)
  PROVE  /\ listener' \in Seq(Listener) /\ Len(listener') = Len(listener)
         /\ DOMAIN listener' = DOMAIN listener
         /\ Rests(l) /\ listener'[l].state = listener[l].state
         /\ \A k \in DOMAIN listener : k # l =>
              IF k = listener[l].made THEN Switches(k, "closed") ELSE listener'[k] = listener[k]
<1>1. listener \in Seq(Listener) /\ listener[l] \in Listener
  BY DEF TypeInv, TypeOK
<1>2. Rest(l) \in Listener
  BY RestType
<1>3. listener' = [k \in DOMAIN listener |->
                     IF k = l THEN Rest(l)
                     ELSE IF k = listener[l].made THEN [listener[k] EXCEPT !.state = "closed"]
                     ELSE listener[k]]
  BY DEF Rollback, Settle
<1>4. \A k \in DOMAIN listener : listener'[k] \in Listener
  <2>. TAKE k \in DOMAIN listener
  <2>1. listener[k] \in Listener
    BY <1>1
  <2>2. [listener[k] EXCEPT !.state = "closed"] \in Listener
    BY <2>1 DEF Listener
  <2>. QED  BY <1>2, <1>3, <2>1, <2>2
<1>5. listener' = [k \in DOMAIN listener |-> listener'[k]]
  BY <1>3
<1>6. listener' \in Seq(Listener) /\ DOMAIN listener' = DOMAIN listener /\ Len(listener') = Len(listener)
  BY <1>1, <1>4, <1>5, MapSeq
<1>7. listener'[l] = Rest(l)
  BY <1>3
<1>8. Rests(l) /\ listener'[l].state = listener[l].state
  BY <1>7 DEF Rests, Rest, Idle
<1>9. ASSUME NEW k \in DOMAIN listener, k # l
      PROVE  IF k = listener[l].made THEN Switches(k, "closed") ELSE listener'[k] = listener[k]
  <2>1. /\ listener[k] \in Listener
        /\ listener'[k] = IF k = listener[l].made THEN [listener[k] EXCEPT !.state = "closed"]
                          ELSE listener[k]
    BY <1>1, <1>3, <1>9
  <2>. QED  BY <2>1 DEF Switches, KeepsToken, Listener
<1>. QED  BY <1>6, <1>8, <1>9

LEMMA OpenListenersShape ==
  ASSUME TypeInv, NEW l \in DOMAIN listener, OpenListeners(l)
  PROVE  /\ listener' \in Seq(Listener) /\ Len(listener') = Len(listener)
         /\ DOMAIN listener' = DOMAIN listener
         /\ Keeps(l) /\ KeepsToken(l)
         /\ listener'[l].phase = IF listener[l].phase = "committed" THEN "opened" ELSE "recovering"
         /\ \A k \in DOMAIN listener : k # l =>
              IF k = listener[l].made THEN Switches(k, "open") ELSE listener'[k] = listener[k]
<1>1. listener \in Seq(Listener) /\ listener[l] \in Listener
  BY DEF TypeInv, TypeOK
<1>. DEFINE e == [listener[l] EXCEPT !.phase = IF listener[l].phase = "committed"
                                               THEN "opened" ELSE "recovering"]
<1>2. e \in Listener
  BY <1>1 DEF Listener
<1>3. listener' = [k \in DOMAIN listener |->
                     IF k = l THEN e
                     ELSE IF k = listener[l].made THEN [listener[k] EXCEPT !.state = "open"]
                     ELSE listener[k]]
  BY DEF OpenListeners
<1>. HIDE DEF e
<1>4. \A k \in DOMAIN listener : listener'[k] \in Listener
  <2>. TAKE k \in DOMAIN listener
  <2>1. listener[k] \in Listener
    BY <1>1
  <2>2. [listener[k] EXCEPT !.state = "open"] \in Listener
    BY <2>1 DEF Listener
  <2>. QED  BY <1>2, <1>3, <2>1, <2>2
<1>5. listener' = [k \in DOMAIN listener |-> listener'[k]]
  BY <1>3
<1>6. listener' \in Seq(Listener) /\ DOMAIN listener' = DOMAIN listener /\ Len(listener') = Len(listener)
  BY <1>1, <1>4, <1>5, MapSeq
<1>7. listener'[l] = e
  BY <1>3
<1>8. /\ Keeps(l) /\ KeepsToken(l)
      /\ listener'[l].phase = IF listener[l].phase = "committed" THEN "opened" ELSE "recovering"
  BY <1>1, <1>7 DEF e, Keeps, KeepsToken, Listener
<1>9. ASSUME NEW k \in DOMAIN listener, k # l
      PROVE  IF k = listener[l].made THEN Switches(k, "open") ELSE listener'[k] = listener[k]
  <2>1. /\ listener[k] \in Listener
        /\ listener'[k] = IF k = listener[l].made THEN [listener[k] EXCEPT !.state = "open"]
                          ELSE listener[k]
    BY <1>1, <1>3, <1>9
  <2>. QED  BY <2>1 DEF Switches, KeepsToken, Listener
<1>. QED  BY <1>6, <1>8, <1>9

LEMMA CloseRequestListenerShape ==
  ASSUME TypeInv, CloseRequestListener
  PROVE  /\ listener' \in Seq(Listener) /\ Len(listener') = Len(listener)
         /\ DOMAIN listener' = DOMAIN listener
         /\ \A k \in DOMAIN listener :
              IF k = terminator.listener THEN Switches(k, "closed") ELSE listener'[k] = listener[k]
<1>1. listener \in Seq(Listener)
  BY DEF TypeInv, TypeOK
<1>2. listener' = [k \in DOMAIN listener |->
                     IF k = terminator.listener THEN [listener[k] EXCEPT !.state = "closed"]
                     ELSE listener[k]]
  BY DEF CloseRequestListener
<1>3. \A k \in DOMAIN listener : listener'[k] \in Listener
  <2>. TAKE k \in DOMAIN listener
  <2>1. listener[k] \in Listener
    BY <1>1
  <2>2. [listener[k] EXCEPT !.state = "closed"] \in Listener
    BY <2>1 DEF Listener
  <2>. QED  BY <1>2, <2>1, <2>2
<1>4. listener' = [k \in DOMAIN listener |-> listener'[k]]
  BY <1>2
<1>5. listener' \in Seq(Listener) /\ DOMAIN listener' = DOMAIN listener /\ Len(listener') = Len(listener)
  BY <1>1, <1>3, <1>4, MapSeq
<1>6. ASSUME NEW k \in DOMAIN listener
      PROVE  IF k = terminator.listener THEN Switches(k, "closed") ELSE listener'[k] = listener[k]
  <2>1. /\ listener[k] \in Listener
        /\ listener'[k] = IF k = terminator.listener THEN [listener[k] EXCEPT !.state = "closed"]
                          ELSE listener[k]
    BY <1>1, <1>2
  <2>. QED  BY <2>1 DEF Switches, KeepsToken, Listener
<1>. QED  BY <1>5, <1>6

(* The next receive of the delivery of l. *)
NextOf(l) == After(listener[l].action, listener[l].pos)

LEMMA NextOfType ==
  ASSUME TypeInv, NEW l \in DOMAIN listener
  PROVE  /\ NextOf(l) \in Position /\ NextOf(l) - 1 \in 1 .. Len(Waits)
         /\ listener[l].pos <= Len(Waits) /\ Waits[listener[l].pos] = listener[l].action =>
              NextOf(l) = listener[l].pos + 1
<1>1. listener[l].pos \in Position
  <2>1. listener[l] \in Listener
    BY DEF TypeInv, TypeOK
  <2>. QED  BY <2>1 DEF Listener
<1>2. PICK j \in 1 .. Len(Waits) : Waits[j] = listener[l].action
  BY DEF TypeInv, ListenerOK
<1>. QED  BY <1>1, <1>2, AfterType DEF NextOf

LEMMA DeliverShape ==
  ASSUME TypeInv, NEW l \in DOMAIN listener, Deliver(l)
  PROVE  /\ listener' \in Seq(Listener)
         /\ IF NextOf(l) <= Len(Waits)
            THEN /\ Len(listener') = Len(listener) + 1
                 /\ DOMAIN listener' = DOMAIN listener \cup {Len(listener) + 1}
                 /\ Len(listener) + 1 \notin DOMAIN listener
                 /\ listener'[Len(listener) + 1] = Idle(Waits[NextOf(l)], "new")
            ELSE Len(listener') = Len(listener) /\ DOMAIN listener' = DOMAIN listener
         /\ listener'[l].action = listener[l].action /\ listener'[l].state = listener[l].state
         /\ listener'[l].message = listener[l].message /\ listener'[l].version = listener[l].version
         /\ listener'[l].phase = "delivered" /\ listener'[l].dirty /\ listener'[l].pos = NextOf(l)
         /\ listener'[l].ended = ~ (NextOf(l) <= Len(Waits))
         /\ listener'[l].made = IF NextOf(l) <= Len(Waits) THEN Len(listener) + 1 ELSE 0
         /\ \A k \in DOMAIN listener : k # l => listener'[k] = listener[k]
<1>. DEFINE more == NextOf(l) <= Len(Waits)
            e == [listener[l] EXCEPT !.phase = "delivered", !.pos = NextOf(l), !.ended = ~ more,
                    !.dirty = TRUE, !.made = IF more THEN Len(listener) + 1 ELSE 0]
            s == [listener EXCEPT ![l] = e]
            i == Idle(Waits[NextOf(l)], "new")
<1>1. listener \in Seq(Listener) /\ listener[l] \in Listener /\ Len(listener) \in Nat
  BY DEF TypeInv, TypeOK
<1>2. NextOf(l) \in Position
  BY NextOfType
<1>3. e \in Listener
  <2>. DEFINE made == IF more THEN Len(listener) + 1 ELSE 0
              after == ~ more
  <2>1. made \in Nat /\ after \in BOOLEAN
    BY <1>1
  <2>. HIDE DEF made, after
  <2>2. [listener[l] EXCEPT !.phase = "delivered", !.pos = NextOf(l), !.ended = after,
                            !.dirty = TRUE, !.made = made] \in Listener
    BY <1>1, <1>2, <2>1 DEF Listener
  <2>. QED  BY <2>2 DEF made, after
<1>4. listener' = s \o (IF more THEN <<i>> ELSE <<>>)
  BY DEF Deliver, NextOf
<1>9. /\ e.action = listener[l].action /\ e.state = listener[l].state
      /\ e.message = listener[l].message /\ e.version = listener[l].version
      /\ e.phase = "delivered" /\ e.dirty /\ e.pos = NextOf(l)
      /\ e.ended = ~ more /\ e.made = IF more THEN Len(listener) + 1 ELSE 0
  BY <1>1 DEF Listener
<1>5. more => i \in Listener
  BY <1>2, LineFacts DEF Listener, Idle, Position
<1>. HIDE DEF e, i
<1>6. /\ s \in Seq(Listener) /\ DOMAIN s = DOMAIN listener /\ Len(s) = Len(listener) /\ s[l] = e
      /\ \A k \in DOMAIN listener : k # l => s[k] = listener[k]
  BY <1>1, <1>3, UpdateSeq
<1>. HIDE DEF s
<1>7. CASE more
  <2>1. listener' = s \o <<i>>
    BY <1>4, <1>7
  <2>2. /\ listener' \in Seq(Listener) /\ Len(listener') = Len(s) + 1
        /\ DOMAIN listener' = DOMAIN s \cup {Len(s) + 1} /\ Len(s) + 1 \notin DOMAIN s
        /\ listener'[Len(s) + 1] = i
        /\ \A k \in DOMAIN s : listener'[k] = s[k]
    <3>1. i \in Listener
      BY <1>5, <1>7
    <3>. HIDE DEF more
    <3>. QED  BY <1>6, <2>1, <3>1
  <2>. QED  BY <1>1, <1>6, <1>7, <1>9, <2>2 DEF i
<1>8. CASE ~ more
  <2>1. listener' = s
    BY <1>4, <1>6, <1>8
  <2>. QED  BY <1>1, <1>6, <1>8, <1>9, <2>1
<1>. QED  BY <1>7, <1>8

-----------------------------------------------------------------------------
(* Types *)

DatabaseOK ==
  /\ pos \in Position /\ ended \in BOOLEAN /\ version \in Nat
  /\ ~ ended => pos <= Len(Waits)

QueueOK ==
  /\ queue \in [Message -> {"unsent", "queued", "delivered", "redelivery", "kept", "acknowledged"}]
  /\ holder \in [Message -> 0 .. Len(listener)]

ControlOK ==
  /\ up \in BOOLEAN
  /\ registered \in [Action -> 0 .. Len(listener)]
  /\ outstanding \in [Action -> Message \cup {None}]

TerminatorOK ==
  /\ terminator \in [phase : {"idle", "loaded", "removed", "closed", "stale", "done"},
                     action : Action \cup {None}, listener : 0 .. Len(listener), version : Nat]
  /\ terminator.phase = "loaded" => terminator.action \in Action
  /\ terminator.phase \notin {"removed", "closed"} => terminator.listener = 0
  /\ ~ up => listener = <<>> /\ terminator.phase \in {"idle", "done"}

HistoryOK ==
  /\ accepted \in [Action -> Message \cup {None}]
  /\ moves \in [Message -> Nat] /\ replies \in [Message -> Nat]
  /\ count \in [conflicts : Nat, failures : Nat, crashes : Nat, cancelled : Nat, lost : Nat]

ListenersOK ==
  listener \in Seq(Listener) /\ \A l \in DOMAIN listener : ListenerOK(l)

LEMMA TypesSplit ==
  TypeInv <=> DatabaseOK /\ QueueOK /\ ControlOK /\ TerminatorOK /\ HistoryOK /\ ListenersOK
  BY DEF TypeInv, TypeOK, DatabaseOK, QueueOK, ControlOK, TerminatorOK, HistoryOK, ListenersOK

(* The listeners exist only while the server runs. *)
LEMMA RunsWhileUp ==
  ASSUME TypeInv, NEW l \in DOMAIN listener
  PROVE  up
  BY DEF TypeInv

(* What a step leaves alone keeps its type. *)
LEMMA UnchangedTypes ==
  ASSUME TypeInv
  PROVE  /\ UNCHANGED database => DatabaseOK'
         /\ UNCHANGED <<jms, Len(listener)>> => QueueOK'
         /\ UNCHANGED <<up, registered, outstanding, Len(listener)>> => ControlOK'
         /\ UNCHANGED <<up, terminator, Len(listener)>> /\ up => TerminatorOK'
         /\ UNCHANGED history => HistoryOK'
         /\ UNCHANGED listener => ListenersOK'
<1>1. DatabaseOK /\ QueueOK /\ ControlOK /\ TerminatorOK /\ HistoryOK /\ ListenersOK
  BY TypesSplit
<1>2. UNCHANGED database => DatabaseOK'
  BY <1>1 DEF DatabaseOK
<1>3. UNCHANGED <<jms, Len(listener)>> => QueueOK'
  BY <1>1 DEF QueueOK
<1>4. UNCHANGED <<up, registered, outstanding, Len(listener)>> => ControlOK'
  BY <1>1 DEF ControlOK
<1>5. UNCHANGED <<up, terminator, Len(listener)>> /\ up => TerminatorOK'
  BY <1>1 DEF TerminatorOK
<1>6. UNCHANGED history => HistoryOK'
  BY <1>1 DEF HistoryOK
<1>7. UNCHANGED listener => ListenersOK'
  BY <1>1 DEF ListenersOK, ListenerOK
<1>. QED  BY <1>2, <1>3, <1>4, <1>5, <1>6, <1>7

(* A step that changes one listener keeps the types of all. *)
LEMMA UpdateTypes ==
  ASSUME TypeInv, NEW l \in DOMAIN listener, OnlyListener(l),
         listener'[l].action = listener[l].action,
         listener'[l].phase # "idle" => listener'[l].message \in Message,
         listener'[l].made = listener[l].made \/ listener'[l].made = 0,
         ~ listener'[l].ended => listener'[l].pos <= Len(Waits)
  PROVE  ListenersOK' /\ UNCHANGED Len(listener)
<1>1. /\ listener' \in Seq(Listener) /\ Len(listener') = Len(listener) /\ Len(listener) \in Nat
      /\ DOMAIN listener' = DOMAIN listener
      /\ \A k \in DOMAIN listener : k # l => listener'[k] = listener[k]
  BY DEF OnlyListener, TypeInv, TypeOK
<1>2. \A k \in DOMAIN listener : ListenerOK(k)
  BY DEF TypeInv
<1>3. ListenerOK(l)'
  BY <1>1, <1>2 DEF ListenerOK
<1>4. \A k \in DOMAIN listener : k # l => ListenerOK(k)'
  BY <1>1, <1>2 DEF ListenerOK
<1>. QED  BY <1>1, <1>3, <1>4 DEF ListenersOK

(* What a delivery does to the outstanding requests. *)
LEMMA FiledType ==
  ASSUME TypeInv, NEW l \in DOMAIN listener, listener[l].phase = "loaded"
  PROVE  Filed(l).requests \in [Action -> Message \cup {None}]
<1>1. listener[l].message \in Message
  BY DEF TypeInv, ListenerOK
<1>. QED  BY <1>1 DEF Filed, AddOutstandingRequest, TypeInv, TypeOK

(* The counters. *)
LEMMA CountTypes ==
  ASSUME TypeInv, UNCHANGED <<accepted, moves, replies>>,
         \/ count' = [count EXCEPT !.conflicts = @ + 1]
         \/ count' = [count EXCEPT !.failures = @ + 1]
         \/ count' = [count EXCEPT !.crashes = @ + 1, !.lost = 0]
         \/ count' = [count EXCEPT !.cancelled = @ + 1]
  PROVE  HistoryOK'
<1>1. HistoryOK
  BY TypesSplit
<1>2. CASE count' = [count EXCEPT !.conflicts = @ + 1]
  BY <1>1, <1>2 DEF HistoryOK
<1>3. CASE count' = [count EXCEPT !.failures = @ + 1]
  BY <1>1, <1>3 DEF HistoryOK
<1>4. CASE count' = [count EXCEPT !.crashes = @ + 1, !.lost = 0]
  <2>. DEFINE c == count.crashes + 1
  <2>1. c \in Nat
    BY <1>1 DEF HistoryOK
  <2>2. count' = [count EXCEPT !.crashes = c, !.lost = 0]
    BY <1>4
  <2>. HIDE DEF c
  <2>. QED  BY <1>1, <2>1, <2>2 DEF HistoryOK
<1>5. CASE count' = [count EXCEPT !.cancelled = @ + 1]
  BY <1>1, <1>5 DEF HistoryOK
<1>. QED  BY <1>2, <1>3, <1>4, <1>5

LEMMA FailureTypes ==
  ASSUME TypeInv, UNCHANGED <<accepted, moves, replies>>,
         NEW f \in Nat, NEW n \in Nat, count' = [count EXCEPT !.failures = f, !.lost = n]
  PROVE  HistoryOK'
<1>1. HistoryOK
  BY TypesSplit
<1>. QED  BY <1>1 DEF HistoryOK

LEMMA InitTypes == Init => TypeInv
<1>. SUFFICES ASSUME Init PROVE TypeInv
  OBVIOUS
<1>1. Waits[1] \in Action /\ 1 \in 1 .. Len(Waits) /\ Len(Waits) \in Nat
  BY LineFacts
<1>2. Idle(Waits[1], "open") \in Listener
  BY <1>1 DEF Idle, Listener, Position
<1>3. /\ listener \in Seq(Listener) /\ Len(listener) = 1 /\ DOMAIN listener = {1}
      /\ listener[1] = Idle(Waits[1], "open")
  BY <1>2 DEF Init
<1>4. DatabaseOK
  <2>1. pos = 1 /\ ~ ended /\ ended \in BOOLEAN /\ version = 0
    BY DEF Init
  <2>. QED  BY <1>1, <2>1 DEF DatabaseOK, Position
<1>5. QueueOK
  BY <1>3 DEF Init, QueueOK
<1>6. ControlOK
  BY <1>3 DEF Init, ControlOK
<1>7. TerminatorOK
  BY <1>3 DEF Init, TerminatorOK, NoTermination
<1>8. HistoryOK
  BY DEF Init, HistoryOK
<1>9. ListenersOK
  BY <1>1, <1>3 DEF ListenersOK, ListenerOK, Idle
<1>. QED  BY <1>4, <1>5, <1>6, <1>7, <1>8, <1>9, TypesSplit

(* Every step keeps the types. *)
LEMMA NextTypes == TypeInv /\ [Next]_vars => TypeInv'
<1>. SUFFICES ASSUME TypeInv, [Next]_vars PROVE TypeInv'
  OBVIOUS
<1>. DEFINE Goal == DatabaseOK' /\ QueueOK' /\ ControlOK' /\ TerminatorOK' /\ HistoryOK' /\ ListenersOK'
<1>. SUFFICES Goal
  BY DEF TypeInv, TypeOK, DatabaseOK, QueueOK, ControlOK, TerminatorOK, HistoryOK, ListenersOK
<1>0. /\ DatabaseOK /\ QueueOK /\ ControlOK /\ TerminatorOK /\ HistoryOK /\ ListenersOK
      /\ listener \in Seq(Listener) /\ Len(listener) \in Nat
      /\ DOMAIN listener = 1 .. Len(listener)
  BY TypesSplit DEF ListenersOK
<1>1. CASE UNCHANGED vars
  <2>1. TerminatorOK'
    BY <1>0, <1>1 DEF TerminatorOK
  <2>. QED  BY <1>1, <2>1, UnchangedTypes
<1>2. ASSUME NEW m \in Message, Send(m)
      PROVE  Goal
  <2>1. QueueOK'
    BY <1>0, <1>2 DEF Send, QueueOK
  <2>2. TerminatorOK'
    BY <1>0, <1>2 DEF TerminatorOK, Send
  <2>. QED  BY <1>2, <2>1, <2>2, UnchangedTypes DEF Send
<1>3. ASSUME NEW m \in Message, NEW l \in DOMAIN listener, OnMessage(l, m)
      PROVE  Goal
  <2>1. ListenersOK' /\ UNCHANGED Len(listener)
    BY <1>3, OnMessageShape, FieldTypes, UpdateTypes DEF KeepsToken
  <2>2. m[1] \in Action
    BY DEF Message
  <2>3. QueueOK' /\ ControlOK'
    BY <1>0, <1>3, <2>1, <2>2 DEF OnMessage, QueueOK, ControlOK
  <2>. QED  BY <1>3, <2>1, <2>3, UnchangedTypes, RunsWhileUp DEF OnMessage
<1>4. ASSUME NEW l \in DOMAIN listener, LoadToken(l)
      PROVE  Goal
  <2>1. ListenersOK' /\ UNCHANGED Len(listener)
    <3>1. OnlyListener(l) /\ listener'[l].action = listener[l].action
      BY <1>4, LoadTokenShape DEF Keeps
    <3>2. /\ listener'[l].phase # "idle" => listener'[l].message \in Message
          /\ listener'[l].made = listener[l].made \/ listener'[l].made = 0
      BY <1>4, LoadTokenShape, FieldTypes DEF Keeps, LoadToken
    <3>3. ~ listener'[l].ended => listener'[l].pos <= Len(Waits)
      BY <1>0, <1>4, LoadTokenShape, FieldTypes, LineFacts DEF Keeps, DatabaseOK
    <3>. QED  BY <3>1, <3>2, <3>3, UpdateTypes
  <2>. QED  BY <1>4, <2>1, UnchangedTypes, RunsWhileUp DEF LoadToken
<1>5. ASSUME NEW l \in DOMAIN listener, DeliverToEnded(l)
      PROVE  Goal
  <2>1. ListenersOK' /\ UNCHANGED Len(listener)
    <3>1. OnlyListener(l) /\ listener'[l].action = listener[l].action
      BY <1>5, DeliverToEndedShape DEF Keeps, KeepsToken
    <3>2. /\ listener'[l].phase # "idle" => listener'[l].message \in Message
          /\ listener'[l].made = listener[l].made \/ listener'[l].made = 0
      BY <1>5, DeliverToEndedShape, FieldTypes DEF Keeps, KeepsToken, DeliverToEnded
    <3>3. ~ listener'[l].ended => listener'[l].pos <= Len(Waits)
      BY <1>0, <1>5, DeliverToEndedShape, FieldTypes, LineFacts DEF Keeps, KeepsToken
    <3>. QED  BY <3>1, <3>2, <3>3, UpdateTypes
  <2>2. ControlOK'
    BY <1>0, <1>5, <2>1, FiledType DEF DeliverToEnded, ControlOK
  <2>. QED  BY <1>5, <2>1, <2>2, UnchangedTypes, RunsWhileUp DEF DeliverToEnded
<1>6. ASSUME NEW l \in DOMAIN listener, DeliverFaults(l)
      PROVE  Goal
  <2>1. ListenersOK' /\ UNCHANGED Len(listener)
    <3>1. OnlyListener(l) /\ listener'[l].action = listener[l].action
      BY <1>6, DeliverFaultsShape DEF Keeps
    <3>2. /\ listener'[l].phase # "idle" => listener'[l].message \in Message
          /\ listener'[l].made = listener[l].made \/ listener'[l].made = 0
      BY <1>6, DeliverFaultsShape, FieldTypes DEF Keeps, DeliverFaults
    <3>3. ~ listener'[l].ended => listener'[l].pos <= Len(Waits)
      BY <1>0, <1>6, DeliverFaultsShape, FieldTypes, LineFacts DEF Keeps
    <3>. QED  BY <3>1, <3>2, <3>3, UpdateTypes
  <2>2. ControlOK'
    BY <1>0, <1>6, <2>1, FiledType DEF DeliverFaults, ControlOK
  <2>. QED  BY <1>6, <2>1, <2>2, UnchangedTypes, RunsWhileUp DEF DeliverFaults
<1>7. ASSUME NEW l \in DOMAIN listener, Commit(l)
      PROVE  Goal
  <2>1. ListenersOK' /\ UNCHANGED Len(listener)
    <3>1. OnlyListener(l) /\ listener'[l].action = listener[l].action
      BY <1>7, CommitShape DEF Keeps, KeepsToken
    <3>2. /\ listener'[l].phase # "idle" => listener'[l].message \in Message
          /\ listener'[l].made = listener[l].made \/ listener'[l].made = 0
      BY <1>7, CommitShape, FieldTypes DEF Keeps, KeepsToken, Commit
    <3>3. ~ listener'[l].ended => listener'[l].pos <= Len(Waits)
      BY <1>0, <1>7, CommitShape, FieldTypes, LineFacts DEF Keeps, KeepsToken
    <3>. QED  BY <3>1, <3>2, <3>3, UpdateTypes
  <2>2. DatabaseOK'
    BY <1>0, <1>7, FieldTypes DEF Commit, DatabaseOK
  <2>3. listener[l].message \in Message /\ listener[l].message[1] \in Action
    BY <1>7, FieldTypes DEF Commit, Message
  <2>4. accepted' \in [Action -> Message \cup {None}] /\ moves' \in [Message -> Nat]
    <3>0. accepted \in [Action -> Message \cup {None}] /\ moves \in [Message -> Nat]
      BY <1>0 DEF HistoryOK
    <3>1. CASE pos' # pos
      <4>1. /\ accepted' = [accepted EXCEPT ![listener[l].message[1]] = listener[l].message]
            /\ moves' = [moves EXCEPT ![listener[l].message] = @ + 1]
        BY <1>7, <3>1 DEF Commit
      <4>. QED  BY <2>3, <3>0, <4>1
    <3>2. CASE pos' = pos
      <4>1. UNCHANGED <<accepted, moves>>
        BY <1>7, <3>2 DEF Commit
      <4>. QED  BY <3>0, <4>1
    <3>. QED  BY <3>1, <3>2
  <2>5. HistoryOK'
    BY <1>0, <1>7, <2>4 DEF Commit, HistoryOK
  <2>. QED  BY <1>7, <2>1, <2>2, <2>3, <2>4, <2>5, UnchangedTypes, RunsWhileUp DEF Commit
<1>8. ASSUME NEW l \in DOMAIN listener, CommitFails(l)
      PROVE  Goal
  <2>1. ListenersOK' /\ UNCHANGED Len(listener)
    <3>1. OnlyListener(l) /\ listener'[l].action = listener[l].action
      BY <1>8, CommitFailsShape DEF Keeps, KeepsToken
    <3>2. /\ listener'[l].phase # "idle" => listener'[l].message \in Message
          /\ listener'[l].made = listener[l].made \/ listener'[l].made = 0
      BY <1>8, CommitFailsShape, FieldTypes DEF Keeps, KeepsToken, CommitFails
    <3>3. ~ listener'[l].ended => listener'[l].pos <= Len(Waits)
      BY <1>0, <1>8, CommitFailsShape, FieldTypes, LineFacts DEF Keeps, KeepsToken
    <3>. QED  BY <3>1, <3>2, <3>3, UpdateTypes
  <2>2. HistoryOK'
    <3>1. count.failures \in Nat /\ count.lost \in Nat
      BY <1>0 DEF HistoryOK
    <3>. DEFINE f == IF Stale(l) THEN count.failures ELSE count.failures + 1
                n == IF listener[l].made # 0 THEN count.lost + 1 ELSE count.lost
    <3>2. f \in Nat /\ n \in Nat
      BY <3>1
    <3>3. count' = [count EXCEPT !.failures = f, !.lost = n]
      BY <1>8 DEF CommitFails
    <3>. HIDE DEF f, n
    <3>4. UNCHANGED <<accepted, moves, replies>>
      BY <1>8 DEF CommitFails
    <3>. QED  BY <3>2, <3>3, <3>4, FailureTypes
  <2>. QED  BY <1>8, <2>1, <2>2, UnchangedTypes, RunsWhileUp DEF CommitFails
<1>9. ASSUME NEW l \in DOMAIN listener, LockFails(l)
      PROVE  Goal
  <2>1. ListenersOK' /\ UNCHANGED Len(listener)
    <3>1. OnlyListener(l) /\ listener'[l].action = listener[l].action
      BY <1>9, LockFailsShape DEF Keeps, KeepsToken
    <3>2. /\ listener'[l].phase # "idle" => listener'[l].message \in Message
          /\ listener'[l].made = listener[l].made \/ listener'[l].made = 0
      BY <1>9, LockFailsShape, FieldTypes DEF Keeps, KeepsToken, LockFails
    <3>3. ~ listener'[l].ended => listener'[l].pos <= Len(Waits)
      BY <1>0, <1>9, LockFailsShape, FieldTypes, LineFacts DEF Keeps, KeepsToken
    <3>. QED  BY <3>1, <3>2, <3>3, UpdateTypes
  <2>2. ControlOK'
    BY <1>0, <1>9, <2>1, FiledType DEF LockFails, ControlOK
  <2>. QED  BY <1>9, <2>1, <2>2, UnchangedTypes, RunsWhileUp DEF LockFails
<1>10. ASSUME NEW l \in DOMAIN listener, Acknowledge(l)
      PROVE  Goal
  <2>1. ListenersOK' /\ UNCHANGED Len(listener)
    <3>1. OnlyListener(l) /\ listener'[l].action = listener[l].action
      BY <1>10, AcknowledgeShape DEF Rests
    <3>2. /\ listener'[l].phase # "idle" => listener'[l].message \in Message
          /\ listener'[l].made = listener[l].made \/ listener'[l].made = 0
      BY <1>10, AcknowledgeShape, FieldTypes DEF Rests, Acknowledge
    <3>3. ~ listener'[l].ended => listener'[l].pos <= Len(Waits)
      BY <1>0, <1>10, AcknowledgeShape, FieldTypes, LineFacts DEF Rests
    <3>. QED  BY <3>1, <3>2, <3>3, UpdateTypes
  <2>2. QueueOK'
    BY <1>0, <1>10, <2>1 DEF Acknowledge, Returned, QueueOK
  <2>. QED  BY <1>10, <2>1, <2>2, UnchangedTypes, RunsWhileUp DEF Acknowledge
<1>11. ASSUME NEW l \in DOMAIN listener, Recover(l) \/ RecoverFails(l)
      PROVE  Goal
  <2>1. ListenersOK' /\ UNCHANGED Len(listener)
    <3>1. OnlyListener(l) /\ listener'[l].action = listener[l].action
      BY <1>11, RecoverShape DEF Rests
    <3>2. /\ listener'[l].phase # "idle" => listener'[l].message \in Message
          /\ listener'[l].made = listener[l].made \/ listener'[l].made = 0
      BY <1>11, RecoverShape, FieldTypes DEF Rests
    <3>3. ~ listener'[l].ended => listener'[l].pos <= Len(Waits)
      BY <1>0, <1>11, RecoverShape, FieldTypes, LineFacts DEF Rests
    <3>. QED  BY <3>1, <3>2, <3>3, UpdateTypes
  <2>2. QueueOK'
    <3>1. CASE Recover(l)
      BY <1>0, <2>1, <3>1 DEF Recover, QueueOK
    <3>2. CASE RecoverFails(l)
      <4>1. listener[l].message \in Message
        BY <3>2, FieldTypes DEF RecoverFails
      <4>. QED  BY <1>0, <2>1, <3>2, <4>1 DEF RecoverFails, GiveUp, QueueOK
    <3>. QED  BY <1>11, <3>1, <3>2
  <2>3. HistoryOK'
    <3>1. CASE Recover(l)
      BY <3>1, UnchangedTypes DEF Recover
    <3>2. CASE RecoverFails(l)
      BY <3>2, CountTypes DEF RecoverFails
    <3>. QED  BY <1>11, <3>1, <3>2
  <2>. QED  BY <1>11, <2>1, <2>2, <2>3, UnchangedTypes, RunsWhileUp DEF Recover, RecoverFails
<1>12. ASSUME NEW l \in DOMAIN listener, OpenCancelled(l)
      PROVE  Goal
  <2>1. ListenersOK' /\ UNCHANGED Len(listener)
    <3>1. CASE listener[l].phase = "committed"
      <4>1. OnlyListener(l) /\ Rests(l)
        BY <1>12, <3>1, OpenCancelledShape
      <4>. QED  BY <4>1, UpdateTypes, LineFacts DEF Rests
    <3>2. CASE listener[l].phase # "committed"
      BY <1>12, <3>2, OpenCancelledShape, FieldTypes, UpdateTypes DEF Keeps, KeepsToken, OpenCancelled
    <3>. QED  BY <3>1, <3>2
  <2>2. listener[l].message \in Message
    BY <1>12, FieldTypes DEF OpenCancelled
  <2>3. QueueOK'
    BY <1>0, <1>12, <2>1, <2>2 DEF OpenCancelled, GiveUp, QueueOK
  <2>4. HistoryOK'
    BY <1>12, CountTypes, UnchangedTypes DEF OpenCancelled
  <2>. QED  BY <1>12, <2>1, <2>3, <2>4, UnchangedTypes, RunsWhileUp DEF OpenCancelled
<1>13. ASSUME NEW l \in DOMAIN listener, Deliver(l)
      PROVE  Goal
  <2>1. listener' \in Seq(Listener) /\ Len(listener') \in {Len(listener), Len(listener) + 1}
    BY <1>13, DeliverShape
  <2>2. ListenersOK'
    <3>1. ListenerOK(l)
      BY <1>0 DEF ListenersOK
    <3>2. ListenerOK(l)'
      <4>1. /\ listener'[l].action = listener[l].action /\ listener'[l].message \in Message
            /\ listener'[l].made <= Len(listener')
            /\ ~ listener'[l].ended => listener'[l].pos <= Len(Waits)
        <5>1. listener[l].phase = "loaded"
          BY <1>13 DEF Deliver
        <5>2. listener[l].message \in Message
          BY <5>1, FieldTypes
        <5>3. listener'[l].made <= Len(listener')
          BY <1>0, <1>13, DeliverShape
        <5>. QED  BY <1>13, <5>2, <5>3, DeliverShape
      <4>. QED  BY <3>1, <4>1 DEF ListenerOK
    <3>3. \A k \in DOMAIN listener : k # l => ListenerOK(k)'
      <4>. SUFFICES ASSUME NEW k \in DOMAIN listener, k # l PROVE ListenerOK(k)'
        OBVIOUS
      <4>1. ListenerOK(k) /\ listener'[k] = listener[k] /\ listener[k].made \in Nat
        BY <1>0, <1>13, DeliverShape, FieldTypes DEF ListenersOK
      <4>. QED  BY <1>0, <2>1, <4>1 DEF ListenerOK
    <3>4. ASSUME NextOf(l) <= Len(Waits), NEW n, n = Len(listener) + 1
          PROVE  ListenerOK(n)'
      <4>1. listener'[n] = Idle(Waits[NextOf(l)], "new") /\ Len(listener') = Len(listener) + 1
        BY <1>13, <3>4, DeliverShape
      <4>2. NextOf(l) \in 1 .. Len(Waits)
        BY <3>4, NextOfType, LineFacts DEF Position
      <4>3. /\ listener'[n].action = Waits[NextOf(l)] /\ listener'[n].phase = "idle"
            /\ listener'[n].made = 0 /\ listener'[n].pos = 1
        BY <4>1 DEF Idle
      <4>4. \E i \in 1 .. Len(Waits) : Waits[i] = listener'[n].action
        BY <4>2, <4>3
      <4>5. 0 <= Len(listener') /\ 1 <= Len(Waits)
        BY <1>0, <4>1, LineFacts
      <4>. QED  BY <4>3, <4>4, <4>5 DEF ListenerOK
    <3>5. \A k \in DOMAIN listener' : ListenerOK(k)'
      <4>1. CASE NextOf(l) <= Len(Waits)
        <5>1. DOMAIN listener' = DOMAIN listener \cup {Len(listener) + 1}
          BY <1>13, <4>1, DeliverShape
        <5>. QED  BY <3>2, <3>3, <3>4, <4>1, <5>1
      <4>2. CASE ~ (NextOf(l) <= Len(Waits))
        <5>1. DOMAIN listener' = DOMAIN listener
          BY <1>13, <4>2, DeliverShape
        <5>. QED  BY <3>2, <3>3, <5>1
      <4>. QED  BY <4>1, <4>2
    <3>. QED  BY <2>1, <3>5 DEF ListenersOK
  <2>3. HistoryOK'
    <3>1. NextOf(l) - 1 \in 1 .. Len(Waits)
      BY NextOfType
    <3>2. Answered(l) \subseteq Action
      BY <3>1, IntegrationAssumption DEF Answered, NextOf
    <3>3. \A m \in Message : Cardinality({b \in Answered(l) : Filed(l).requests[b] = m}) \in Nat
      <4>. TAKE m \in Message
      <4>1. {b \in Answered(l) : Filed(l).requests[b] = m} \subseteq Action
        BY <3>2
      <4>. QED  BY <4>1, IntegrationAssumption, FS_Subset, FS_CardinalityType
    <3>4. \A m \in Message : replies[m] \in Nat
      BY <1>0 DEF HistoryOK
    <3>5. replies' \in [Message -> Nat]
      <4>1. replies' = [m \in Message |->
                          replies[m] + Cardinality({b \in Answered(l) : Filed(l).requests[b] = m})]
        BY <1>13 DEF Deliver
      <4>2. \A m \in Message : replies[m] + Cardinality({b \in Answered(l) : Filed(l).requests[b] = m}) \in Nat
        BY <3>3, <3>4
      <4>. QED  BY <4>1, <4>2
    <3>. QED  BY <1>0, <1>13, <3>5 DEF Deliver, HistoryOK
  <2>4. ControlOK'
    <3>1. registered' \in [Action -> 0 .. Len(listener')]
      <4>. SUFFICES ASSUME NEW b \in Action
                    PROVE  (IF NextOf(l) <= Len(Waits) /\ b = Waits[NextOf(l)] THEN Len(listener) + 1
                            ELSE registered[b]) \in 0 .. Len(listener')
        BY <1>13 DEF Deliver, NextOf
      <4>1. NextOf(l) <= Len(Waits) => Len(listener') = Len(listener) + 1
        BY <1>13, DeliverShape
      <4>2. registered[b] \in 0 .. Len(listener)
        BY <1>0 DEF ControlOK
      <4>. QED  BY <1>0, <2>1, <4>1, <4>2
    <3>2. outstanding' \in [Action -> Message \cup {None}]
      BY <1>13, FiledType DEF Deliver
    <3>. QED  BY <1>0, <1>13, <3>1, <3>2 DEF Deliver, ControlOK
  <2>5. QueueOK' /\ TerminatorOK'
    <3>1. 0 .. Len(listener) \subseteq 0 .. Len(listener')
      BY <1>0, <2>1
    <3>2. UNCHANGED <<queue, holder, terminator, up>> /\ up
      BY <1>13, RunsWhileUp DEF Deliver
    <3>3. QueueOK'
      BY <1>0, <3>1, <3>2 DEF QueueOK
    <3>4. TerminatorOK'
      BY <1>0, <3>1, <3>2 DEF TerminatorOK
    <3>. QED  BY <3>3, <3>4
  <2>. QED  BY <1>13, <2>2, <2>3, <2>4, <2>5, UnchangedTypes DEF Deliver
<1>14. ASSUME NEW l \in DOMAIN listener, Rollback(l)
      PROVE  Goal
  <2>1. /\ listener' \in Seq(Listener) /\ Len(listener') = Len(listener)
        /\ DOMAIN listener' = DOMAIN listener
    BY <1>14, RollbackShape
  <2>2. ListenerOK(l)'
    <3>1. ListenerOK(l)
      BY <1>0 DEF ListenersOK
    <3>2. /\ listener'[l].action = listener[l].action /\ listener'[l].made \in {0, listener[l].made}
          /\ listener'[l].phase # "idle" => listener'[l].message \in Message
          /\ ~ listener'[l].ended => listener'[l].pos <= Len(Waits)
      <4>1. listener[l].phase # "idle"
        BY <1>14 DEF Rollback
      <4>. QED  BY <1>14, <4>1, RollbackShape, FieldTypes, LineFacts DEF Rests
    <3>. QED  BY <1>0, <2>1, <3>1, <3>2 DEF ListenerOK
  <2>3. ASSUME NEW k \in DOMAIN listener, k # l
        PROVE  ListenerOK(k)'
    <3>1. ListenerOK(k)
      BY <1>0 DEF ListenersOK
    <3>2. listener'[k] = listener[k] \/ Switches(k, "closed")
      BY <1>14, <2>3, RollbackShape
    <3>. QED  BY <1>0, <2>1, <3>1, <3>2 DEF ListenerOK, Switches, KeepsToken
  <2>4. ListenersOK'
    BY <2>1, <2>2, <2>3 DEF ListenersOK
  <2>5. listener[l].message \in Message
    BY <1>14, FieldTypes DEF Rollback
  <2>6. QueueOK'
    BY <1>0, <1>14, <2>1, <2>5 DEF Rollback, GiveUp, QueueOK
  <2>7. HistoryOK'
    BY <1>14, CountTypes DEF Rollback
  <2>. QED  BY <1>14, <2>1, <2>4, <2>6, <2>7, UnchangedTypes, RunsWhileUp DEF Rollback
<1>15. ASSUME NEW l \in DOMAIN listener, OpenListeners(l)
      PROVE  Goal
  <2>1. /\ listener' \in Seq(Listener) /\ Len(listener') = Len(listener)
        /\ DOMAIN listener' = DOMAIN listener
    BY <1>15, OpenListenersShape
  <2>2. ListenerOK(l)'
    <3>1. ListenerOK(l)
      BY <1>0 DEF ListenersOK
    <3>2. /\ listener'[l].action = listener[l].action /\ listener'[l].made \in {0, listener[l].made}
          /\ listener'[l].phase # "idle" => listener'[l].message \in Message
          /\ ~ listener'[l].ended => listener'[l].pos <= Len(Waits)
      <4>1. listener[l].phase # "idle"
        BY <1>15 DEF OpenListeners
      <4>. QED  BY <1>15, <4>1, OpenListenersShape, FieldTypes, LineFacts DEF Keeps, KeepsToken
    <3>. QED  BY <1>0, <2>1, <3>1, <3>2 DEF ListenerOK
  <2>3. ASSUME NEW k \in DOMAIN listener, k # l
        PROVE  ListenerOK(k)'
    <3>1. ListenerOK(k)
      BY <1>0 DEF ListenersOK
    <3>2. listener'[k] = listener[k] \/ Switches(k, "open")
      BY <1>15, <2>3, OpenListenersShape
    <3>. QED  BY <1>0, <2>1, <3>1, <3>2 DEF ListenerOK, Switches, KeepsToken
  <2>4. ListenersOK'
    BY <2>1, <2>2, <2>3 DEF ListenersOK
  <2>. QED  BY <1>15, <2>1, <2>4, UnchangedTypes, RunsWhileUp DEF OpenListeners
<1>16. CASE Conflict
  <2>1. HistoryOK'
    BY <1>16, CountTypes DEF Conflict
  <2>2. DatabaseOK'
    BY <1>0, <1>16 DEF Conflict, DatabaseOK
  <2>3. TerminatorOK'
    BY <1>0, <1>16 DEF Conflict, TerminatorOK
  <2>. QED  BY <1>16, <2>1, <2>2, <2>3, UnchangedTypes DEF Conflict
<1>17. CASE TerminateToken
  <2>1. ~ ended => Waits[pos] \in Action
    BY <1>0, LineFacts DEF DatabaseOK, Position
  <2>2. TerminatorOK'
    BY <1>0, <1>17, <2>1 DEF TerminateToken, NoTermination, TerminatorOK, DatabaseOK
  <2>. QED  BY <1>17, <2>2, UnchangedTypes DEF TerminateToken
<1>18. CASE RemoveRequestListener
  <2>1. TerminatorOK'
    BY <1>0, <1>18 DEF RemoveRequestListener, TerminatorOK, ControlOK
  <2>2. ControlOK'
    <3>1. terminator.action \in Action
      BY <1>0, <1>18 DEF RemoveRequestListener, TerminatorOK
    <3>. QED  BY <1>0, <1>18, <3>1 DEF RemoveRequestListener, ControlOK
  <2>. QED  BY <1>18, <2>1, <2>2, UnchangedTypes DEF RemoveRequestListener
<1>19. CASE CloseRequestListener
  <2>1. /\ listener' \in Seq(Listener) /\ Len(listener') = Len(listener)
        /\ DOMAIN listener' = DOMAIN listener
    BY <1>19, CloseRequestListenerShape
  <2>3. ASSUME NEW k \in DOMAIN listener
        PROVE  ListenerOK(k)'
    <3>1. ListenerOK(k)
      BY <1>0 DEF ListenersOK
    <3>2. listener'[k] = listener[k] \/ Switches(k, "closed")
      BY <1>19, CloseRequestListenerShape
    <3>. QED  BY <1>0, <2>1, <3>1, <3>2 DEF ListenerOK, Switches, KeepsToken
  <2>4. ListenersOK'
    BY <2>1, <2>3 DEF ListenersOK
  <2>5. TerminatorOK'
    BY <1>0, <1>19, <2>1 DEF CloseRequestListener, TerminatorOK
  <2>6. QueueOK'
    BY <1>0, <1>19, <2>1 DEF CloseRequestListener, Returned, QueueOK
  <2>. QED  BY <1>19, <2>1, <2>4, <2>5, <2>6, UnchangedTypes DEF CloseRequestListener
<1>20. CASE CommitTermination
  <2>1. TerminatorOK'
    BY <1>0, <1>20 DEF CommitTermination, TerminatorOK, NoTermination
  <2>2. DatabaseOK'
    <3>1. CASE terminator.version = version
      BY <1>0, <1>20, <3>1 DEF CommitTermination, DatabaseOK
    <3>2. CASE terminator.version # version
      BY <1>0, <1>20, <3>2 DEF CommitTermination, DatabaseOK
    <3>. QED  BY <3>1, <3>2
  <2>. QED  BY <1>20, <2>1, <2>2, UnchangedTypes DEF CommitTermination
<1>21. CASE Crash
  <2>1. listener' = <<>> /\ Len(listener') = 0 /\ DOMAIN listener' = {}
    BY <1>21 DEF Crash
  <2>2. QueueOK'
    BY <1>0, <1>21, <2>1 DEF Crash, QueueOK, Requeued
  <2>3. ControlOK'
    <3>1. up' \in BOOLEAN /\ registered' = [a \in Action |-> 0] /\ outstanding' = [a \in Action |-> None]
      BY <1>21 DEF Crash
    <3>. QED  BY <2>1, <3>1 DEF ControlOK
  <2>4. TerminatorOK'
    BY <1>0, <1>21, <2>1 DEF Crash, TerminatorOK, LostTermination, NoTermination
  <2>5. HistoryOK'
    BY <1>21, CountTypes DEF Crash
  <2>6. ListenersOK'
    BY <2>1 DEF ListenersOK
  <2>. QED  BY <1>21, <2>2, <2>3, <2>4, <2>5, <2>6, UnchangedTypes DEF Crash
<1>22. CASE EnableInboundMessageActivities
  <2>1. listener = <<>> /\ Len(listener) = 0 /\ DOMAIN listener = {}
    BY <1>0, <1>22 DEF EnableInboundMessageActivities, TerminatorOK
  <2>2. /\ Len(listener') \in Nat /\ ListenersOK'
        /\ ~ ended => Len(listener') = 1 /\ Waits[pos] \in Action
    <3>1. CASE ended
      BY <1>0, <1>22, <2>1, <3>1 DEF EnableInboundMessageActivities, ListenersOK
    <3>2. CASE ~ ended
      <4>1. pos \in 1 .. Len(Waits) /\ Waits[pos] \in Action
        BY <1>0, <3>2, LineFacts DEF DatabaseOK, Position
      <4>2. Idle(Waits[pos], "open") \in Listener
        BY <4>1, LineFacts DEF Idle, Listener, Position
      <4>. DEFINE i == Idle(Waits[pos], "open")
      <4>3. /\ listener' \in Seq(Listener) /\ Len(listener') = 1 /\ DOMAIN listener' = {1}
            /\ listener'[1] = i
        <5>1. listener' = <<i>>
          BY <1>22, <3>2 DEF EnableInboundMessageActivities
        <5>. HIDE DEF i
        <5>. QED  BY <4>2, <5>1 DEF i
      <4>4. ListenerOK(1)'
        BY <4>1, <4>3 DEF ListenerOK, Idle
      <4>. QED  BY <4>1, <4>3, <4>4 DEF ListenersOK
    <3>. QED  BY <3>1, <3>2
  <2>3. QueueOK'
    BY <1>0, <1>22, <2>1, <2>2 DEF EnableInboundMessageActivities, QueueOK
  <2>4. ControlOK'
    <3>1. up' \in BOOLEAN /\ UNCHANGED outstanding
      BY <1>22 DEF EnableInboundMessageActivities
    <3>2. registered' \in [Action -> 0 .. Len(listener')]
      <4>1. CASE ended
        BY <1>0, <1>22, <4>1 DEF EnableInboundMessageActivities, ControlOK
      <4>2. CASE ~ ended
        <5>1. registered' = [registered EXCEPT ![Waits[pos]] = 1]
          BY <1>22, <4>2 DEF EnableInboundMessageActivities
        <5>2. registered \in [Action -> 0 .. 1] /\ Len(listener') = 1 /\ Waits[pos] \in Action
          BY <1>0, <2>1, <2>2, <4>2 DEF ControlOK
        <5>. QED  BY <5>1, <5>2
      <4>. QED  BY <4>1, <4>2
    <3>. QED  BY <1>0, <3>1, <3>2 DEF ControlOK
  <2>5. TerminatorOK'
    BY <1>0, <1>22, <2>1, <2>2 DEF EnableInboundMessageActivities, TerminatorOK
  <2>. QED  BY <1>22, <2>2, <2>3, <2>4, <2>5, UnchangedTypes DEF EnableInboundMessageActivities
<1>. QED  BY <1>1, <1>2, <1>3, <1>4, <1>5, <1>6, <1>7, <1>8, <1>9, <1>10, <1>11, <1>12, <1>13, <1>14, <1>15, <1>16, <1>17, <1>18, <1>19, <1>20, <1>21, <1>22 DEF Next, Run, Terminate

-----------------------------------------------------------------------------
(* The listeners that transactions create *)

(* A listener that runs is open, and one that a transaction has created is *)
(* not, until it is opened.                                                *)
LEMMA MadeUpdate ==
  ASSUME TypeInv, MadeInv, NEW l \in DOMAIN listener, OnlyListener(l),
         terminator'.phase = "idle" => terminator.phase = "idle",
         listener'[l].action = listener[l].action,
         listener'[l].state = listener[l].state \/ listener[l].state = "open",
         listener'[l].phase # "idle" => listener'[l].state = "open",
         listener'[l].made = listener[l].made \/ listener'[l].made = 0,
         listener'[l].phase \in {"idle", "received", "loaded"} => listener'[l].made = 0,
         listener'[l].phase \in {"delivered", "committed", "stale"} =>
           \/ listener'[l].ended /\ listener'[l].made = 0
           \/ /\ listener[l].phase \in {"delivered", "committed", "stale"}
              /\ listener'[l].ended = listener[l].ended /\ listener'[l].pos = listener[l].pos
              /\ listener'[l].made = listener[l].made
  PROVE  MadeInv'
<1>1. /\ DOMAIN listener' = DOMAIN listener
      /\ \A k \in DOMAIN listener : k # l => listener'[k] = listener[k]
      /\ \A k \in DOMAIN listener : listener[k].made \in Nat /\ k \in Nat
      /\ \A k \in DOMAIN listener : listener[k].made # 0 => listener[k].made \in DOMAIN listener
  <2>1. DOMAIN listener = 1 .. Len(listener)
    BY DEF TypeInv, TypeOK
  <2>. QED  BY <2>1, FieldTypes DEF OnlyListener
<1>. SUFFICES ASSUME NEW k \in DOMAIN listener PROVE MadeOK(k)'
  BY <1>1 DEF MadeInv
<1>2. /\ listener'[k].phase # "idle" => listener'[k].state = "open"
      /\ listener'[k].phase \in {"idle", "received", "loaded"} => listener'[k].made = 0
      /\ listener'[k].made # 0 => k < listener'[k].made
  BY <1>1 DEF MadeInv, MadeOK
<1>3. \A j \in DOMAIN listener :
        listener'[j].made = listener'[k].made /\ listener'[k].made # 0 => j = k
  BY <1>1 DEF MadeInv, MadeOK
<1>4. ASSUME listener'[k].phase \in {"delivered", "committed", "stale"}, ~ listener'[k].ended
      PROVE  /\ listener'[k].made # 0
             /\ listener'[listener'[k].made].state \in {"new", "closed"}
             /\ terminator'.phase = "idle" => listener'[listener'[k].made].state = "new"
             /\ listener'[listener'[k].made].action = Waits[listener'[k].pos]
  <2>. DEFINE j == listener[k].made
  <2>1. /\ listener[k].phase \in {"delivered", "committed", "stale"} /\ ~ listener[k].ended
        /\ listener'[k].pos = listener[k].pos /\ listener'[k].made = j
    BY <1>1, <1>4
  <2>2. /\ j # 0 /\ listener[j].state \in {"new", "closed"}
        /\ terminator.phase = "idle" => listener[j].state = "new"
        /\ listener[j].action = Waits[listener[k].pos] /\ j \in DOMAIN listener
    BY <1>1, <2>1 DEF MadeInv, MadeOK
  <2>3. listener'[j].state = listener[j].state /\ listener'[j].action = listener[j].action
    BY <1>1, <2>2
  <2>. QED  BY <2>1, <2>2, <2>3
<1>5. listener'[k].phase \in {"delivered", "committed", "stale"} /\ listener'[k].ended => listener'[k].made = 0
  BY <1>1 DEF MadeInv, MadeOK
<1>. QED  BY <1>1, <1>2, <1>3, <1>4, <1>5 DEF MadeOK

LEMMA InitMade == Init => MadeInv
<1>. SUFFICES ASSUME Init PROVE MadeInv
  OBVIOUS
<1>1. DOMAIN listener = {1} /\ listener[1] = Idle(Waits[1], "open")
  BY DEF Init
<1>. QED  BY <1>1 DEF MadeInv, MadeOK, Idle

LEMMA NextMade == TypeInv /\ MadeInv /\ [Next]_vars => MadeInv'
<1>. SUFFICES ASSUME TypeInv, MadeInv, [Next]_vars PROVE MadeInv'
  OBVIOUS
<1>0. /\ DOMAIN listener = 1 .. Len(listener) /\ Len(listener) \in Nat
      /\ \A k \in DOMAIN listener : listener[k].made \in 0 .. Len(listener)
  <2>1. listener \in Seq(Listener)
    BY DEF TypeInv, TypeOK
  <2>. QED  BY <2>1, FieldTypes
<1>1. ASSUME UNCHANGED listener, terminator'.phase = "idle" => terminator.phase = "idle"
      PROVE  MadeInv'
  BY <1>1 DEF MadeInv, MadeOK
<1>2. ASSUME NEW m \in Message, NEW l \in DOMAIN listener, OnMessage(l, m)
      PROVE  MadeInv'
  <2>1. /\ listener[l].phase = "idle" /\ listener[l].state = "open" /\ listener[l].made = 0
        /\ UNCHANGED terminator
    BY <1>2 DEF OnMessage, Deliverable, MadeInv, MadeOK
  <2>. QED  BY <1>2, <2>1, OnMessageShape, MadeUpdate
<1>3. ASSUME NEW l \in DOMAIN listener, LoadToken(l)
      PROVE  MadeInv'
  <2>1. /\ listener[l].phase = "received" /\ listener[l].state = "open" /\ UNCHANGED terminator
        /\ listener[l].phase \in {"received", "loaded"} => listener[l].made = 0
    BY <1>3 DEF LoadToken, MadeInv, MadeOK
  <2>2. OnlyListener(l) /\ listener'[l].action = listener[l].action
    BY <1>3, LoadTokenShape DEF Keeps
  <2>. QED  BY <1>3, <2>1, <2>2, LoadTokenShape, FieldTypes, MadeUpdate DEF Keeps
<1>4. ASSUME NEW l \in DOMAIN listener, DeliverToEnded(l)
      PROVE  MadeInv'
  <2>1. /\ listener[l].phase = "loaded" /\ listener[l].state = "open" /\ UNCHANGED terminator /\ listener[l].ended
        /\ listener[l].phase \in {"received", "loaded"} => listener[l].made = 0
    BY <1>4 DEF DeliverToEnded, MadeInv, MadeOK
  <2>2. OnlyListener(l) /\ listener'[l].action = listener[l].action
    BY <1>4, DeliverToEndedShape DEF Keeps, KeepsToken
  <2>. QED  BY <1>4, <2>1, <2>2, DeliverToEndedShape, FieldTypes, MadeUpdate DEF Keeps, KeepsToken
<1>5. ASSUME NEW l \in DOMAIN listener, DeliverFaults(l)
      PROVE  MadeInv'
  <2>1. /\ listener[l].phase = "loaded" /\ listener[l].state = "open" /\ UNCHANGED terminator
        /\ listener[l].phase \in {"received", "loaded"} => listener[l].made = 0
    BY <1>5 DEF DeliverFaults, MadeInv, MadeOK
  <2>2. OnlyListener(l) /\ listener'[l].action = listener[l].action
    BY <1>5, DeliverFaultsShape DEF Keeps
  <2>. QED  BY <1>5, <2>1, <2>2, DeliverFaultsShape, FieldTypes, MadeUpdate DEF Keeps
<1>6. ASSUME NEW l \in DOMAIN listener, Commit(l)
      PROVE  MadeInv'
  <2>1. /\ listener[l].phase = "delivered" /\ listener[l].state = "open" /\ UNCHANGED terminator
        /\ listener[l].phase \in {"received", "loaded"} => listener[l].made = 0
    BY <1>6 DEF Commit, MadeInv, MadeOK
  <2>2. OnlyListener(l) /\ listener'[l].action = listener[l].action
    BY <1>6, CommitShape DEF Keeps, KeepsToken
  <2>. QED  BY <1>6, <2>1, <2>2, CommitShape, FieldTypes, MadeUpdate DEF Keeps, KeepsToken
<1>7. ASSUME NEW l \in DOMAIN listener, CommitFails(l)
      PROVE  MadeInv'
  <2>1. /\ listener[l].phase = "delivered" /\ listener[l].state = "open" /\ UNCHANGED terminator
        /\ listener[l].phase \in {"received", "loaded"} => listener[l].made = 0
    BY <1>7 DEF CommitFails, MadeInv, MadeOK
  <2>2. OnlyListener(l) /\ listener'[l].action = listener[l].action
    BY <1>7, CommitFailsShape DEF Keeps, KeepsToken
  <2>. QED  BY <1>7, <2>1, <2>2, CommitFailsShape, FieldTypes, MadeUpdate DEF Keeps, KeepsToken
<1>8. ASSUME NEW l \in DOMAIN listener, LockFails(l)
      PROVE  MadeInv'
  <2>1. /\ listener[l].phase = "loaded" /\ listener[l].state = "open" /\ UNCHANGED terminator
        /\ listener[l].phase \in {"received", "loaded"} => listener[l].made = 0
    BY <1>8 DEF LockFails, MadeInv, MadeOK
  <2>2. OnlyListener(l) /\ listener'[l].action = listener[l].action
    BY <1>8, LockFailsShape DEF Keeps, KeepsToken
  <2>. QED  BY <1>8, <2>1, <2>2, LockFailsShape, FieldTypes, MadeUpdate DEF Keeps, KeepsToken
<1>9. ASSUME NEW l \in DOMAIN listener, Acknowledge(l)
      PROVE  MadeInv'
  <2>1. /\ listener[l].phase = "opened" /\ listener[l].state = "open" /\ UNCHANGED terminator
        /\ listener[l].phase \in {"received", "loaded"} => listener[l].made = 0
    BY <1>9 DEF Acknowledge, MadeInv, MadeOK
  <2>2. OnlyListener(l) /\ listener'[l].action = listener[l].action
    BY <1>9, AcknowledgeShape DEF Rests
  <2>. QED  BY <1>9, <2>1, <2>2, AcknowledgeShape, FieldTypes, MadeUpdate DEF Rests
<1>10. ASSUME NEW l \in DOMAIN listener, Recover(l) \/ RecoverFails(l)
      PROVE  MadeInv'
  <2>1. /\ listener[l].phase = "recovering" /\ listener[l].state = "open" /\ UNCHANGED terminator
        /\ listener[l].phase \in {"received", "loaded"} => listener[l].made = 0
    BY <1>10 DEF Recover, RecoverFails, MadeInv, MadeOK
  <2>2. OnlyListener(l) /\ listener'[l].action = listener[l].action
    BY <1>10, RecoverShape DEF Rests
  <2>. QED  BY <1>10, <2>1, <2>2, RecoverShape, FieldTypes, MadeUpdate DEF Rests
<1>11. ASSUME NEW l \in DOMAIN listener, OpenCancelled(l)
      PROVE  MadeInv'
  <2>1. /\ listener[l].phase \in {"committed", "stale"} /\ listener[l].state = "open"
        /\ UNCHANGED terminator
    BY <1>11 DEF OpenCancelled, MadeInv, MadeOK
  <2>2. CASE listener[l].phase = "committed"
    <3>1. OnlyListener(l) /\ Rests(l) /\ listener'[l].state = listener[l].state
      BY <1>11, <2>2, OpenCancelledShape
    <3>. QED  BY <2>1, <3>1, MadeUpdate DEF Rests
  <2>3. CASE listener[l].phase # "committed"
    <3>1. OnlyListener(l) /\ Keeps(l) /\ listener'[l].phase = "recovering"
      BY <1>11, <2>3, OpenCancelledShape
    <3>. QED  BY <2>1, <3>1, MadeUpdate DEF Keeps
  <2>. QED  BY <2>2, <2>3
<1>12. ASSUME NEW l \in DOMAIN listener, Deliver(l)
      PROVE  MadeInv'
  <2>1. /\ listener[l].phase = "loaded" /\ listener[l].state = "open" /\ listener[l].made = 0
        /\ UNCHANGED terminator
    BY <1>12 DEF Deliver, MadeInv, MadeOK
  <2>2. \A k \in DOMAIN listener : k # l => listener'[k] = listener[k]
    BY <1>12, DeliverShape
  <2>3. /\ listener'[l].action = listener[l].action /\ listener'[l].state = listener[l].state
        /\ listener'[l].phase = "delivered" /\ listener'[l].pos = NextOf(l)
        /\ listener'[l].ended = ~ (NextOf(l) <= Len(Waits))
        /\ listener'[l].made = IF NextOf(l) <= Len(Waits) THEN Len(listener) + 1 ELSE 0
    BY <1>12, DeliverShape
  <2>4. \A k \in DOMAIN listener : listener'[k].action = listener[k].action /\ listener'[k].state = listener[k].state
    BY <2>2, <2>3
  <2>5. \A k \in DOMAIN listener' : k \notin DOMAIN listener =>
          /\ k = Len(listener) + 1 /\ NextOf(l) <= Len(Waits)
          /\ listener'[k].phase = "idle" /\ listener'[k].made = 0
    <3>1. CASE NextOf(l) <= Len(Waits)
      <4>1. /\ DOMAIN listener' = DOMAIN listener \cup {Len(listener) + 1}
            /\ listener'[Len(listener) + 1] = Idle(Waits[NextOf(l)], "new")
        BY <1>12, <3>1, DeliverShape
      <4>2. listener'[Len(listener) + 1].phase = "idle" /\ listener'[Len(listener) + 1].made = 0
        BY <4>1 DEF Idle
      <4>. QED  BY <3>1, <4>1, <4>2
    <3>2. CASE ~ (NextOf(l) <= Len(Waits))
      BY <1>12, <3>2, DeliverShape
    <3>. QED  BY <3>1, <3>2
  <2>6. ASSUME NEW k \in DOMAIN listener, k # l
        PROVE  MadeOK(k)'
    <3>1. MadeOK(k) /\ listener'[k] = listener[k] /\ listener[k].made \in 0 .. Len(listener)
      BY <1>0, <2>2, <2>6 DEF MadeInv
    <3>2. \A j \in DOMAIN listener' :
            listener'[j].made = listener[k].made /\ listener[k].made # 0 => j = k
      <4>. SUFFICES ASSUME NEW j \in DOMAIN listener', listener'[j].made = listener[k].made,
                           listener[k].made # 0
                    PROVE  j = k
        OBVIOUS
      <4>1. j \in DOMAIN listener
        BY <2>5
      <4>2. j # l
        BY <1>0, <2>3, <3>1
      <4>. QED  BY <2>2, <3>1, <4>1, <4>2 DEF MadeOK
    <3>. QED  BY <1>0, <2>1, <2>4, <3>1, <3>2 DEF MadeOK
  <2>7. MadeOK(l)'
    <3>1. \A j \in DOMAIN listener' :
            listener'[j].made = listener'[l].made /\ listener'[l].made # 0 => j = l
      <4>. SUFFICES ASSUME NEW j \in DOMAIN listener', listener'[j].made = Len(listener) + 1, j # l
                    PROVE  FALSE
        BY <2>3
      <4>1. j \in DOMAIN listener
        BY <1>0, <2>5
      <4>. QED  BY <1>0, <2>2, <4>1
    <3>2. NextOf(l) <= Len(Waits) =>
            /\ listener'[Len(listener) + 1].state = "new"
            /\ listener'[Len(listener) + 1].action = Waits[NextOf(l)]
      <4>1. NextOf(l) <= Len(Waits) => listener'[Len(listener) + 1] = Idle(Waits[NextOf(l)], "new")
        BY <1>12, DeliverShape
      <4>. QED  BY <4>1 DEF Idle
    <3>3. l < Len(listener) + 1 /\ Len(listener) + 1 # 0
      BY <1>0
    <3>. QED  BY <2>1, <2>3, <3>1, <3>2, <3>3 DEF MadeOK
  <2>8. ASSUME NEW k \in DOMAIN listener', k \notin DOMAIN listener
        PROVE  MadeOK(k)'
    BY <2>5, <2>8 DEF MadeOK
  <2>. QED  BY <2>6, <2>7, <2>8 DEF MadeInv
<1>13. ASSUME NEW l \in DOMAIN listener, Rollback(l)
      PROVE  MadeInv'
  <2>. DEFINE j == listener[l].made
  <2>1. /\ listener[l].phase \in {"loaded", "delivered"} /\ listener[l].state = "open"
        /\ MadeOK(l) /\ j \in 0 .. Len(listener) /\ j # l /\ UNCHANGED terminator
    BY <1>0, <1>13 DEF Rollback, MadeInv, MadeOK
  <2>2. j # 0 => j \in DOMAIN listener /\ listener[j].phase = "idle" /\ listener[j].made = 0
    <3>. SUFFICES ASSUME j # 0 PROVE listener[j].phase = "idle" /\ listener[j].made = 0 /\ j \in DOMAIN listener
      OBVIOUS
    <3>1. listener[j].state \in {"new", "closed"} /\ j \in DOMAIN listener
      BY <1>0, <2>1 DEF MadeOK
    <3>. QED  BY <3>1 DEF MadeInv, MadeOK
  <2>3. /\ DOMAIN listener' = DOMAIN listener
        /\ \A k \in DOMAIN listener : k # l /\ k # j => listener'[k] = listener[k]
        /\ j # 0 => Switches(j, "closed")
        /\ listener'[l].action = listener[l].action /\ listener'[l].state = listener[l].state
    BY <1>13, <2>1, <2>2, RollbackShape DEF Rests
  <2>4. \A k \in DOMAIN listener :
          /\ k # j => listener'[k].state = listener[k].state
          /\ listener'[k].action = listener[k].action
          /\ k # l => listener'[k].made = listener[k].made
    BY <1>0, <2>3 DEF Switches
  <2>5. listener'[l].made \in {0, j}
    BY <1>13, RollbackShape DEF Rests
  <2>6. MadeOK(l)'
    <3>1. /\ listener'[l].phase \in {"idle", "opened", "recovering"}
          /\ listener'[l].phase = "idle" => listener'[l].made = 0
      BY <1>13, RollbackShape DEF Rests
    <3>2. ASSUME NEW i \in DOMAIN listener, listener'[i].made = listener'[l].made, listener'[l].made # 0
          PROVE  i = l
      <4>1. CASE i # l
        <5>1. listener[i].made = listener[l].made /\ listener[l].made # 0
          BY <2>4, <2>5, <3>2, <4>1
        <5>. QED  BY <2>1, <5>1 DEF MadeOK
      <4>. QED  BY <4>1
    <3>3. listener'[l].made # 0 => l < listener'[l].made
      BY <2>1, <2>5 DEF MadeOK
    <3>. QED  BY <2>1, <2>3, <3>1, <3>2, <3>3 DEF MadeOK
  <2>7. ASSUME NEW k \in DOMAIN listener, k = j
        PROVE  MadeOK(k)'
    BY <1>0, <2>1, <2>2, <2>3, <2>7 DEF MadeOK, Switches
  <2>8. ASSUME NEW k \in DOMAIN listener, k # l, k # j
        PROVE  MadeOK(k)'
    <3>1. MadeOK(k) /\ listener'[k] = listener[k]
      BY <2>3, <2>8 DEF MadeInv
    <3>2. listener[k].made # 0 => listener[k].made # j /\ listener[k].made \in DOMAIN listener
      BY <1>0, <2>8, <3>1 DEF MadeOK
    <3>3. ASSUME NEW i \in DOMAIN listener, listener'[i].made = listener[k].made, listener[k].made # 0
          PROVE  i = k
      <4>1. i # l
        BY <2>5, <3>2, <3>3
      <4>2. listener[i].made = listener[k].made
        BY <2>4, <3>3, <4>1
      <4>. QED  BY <3>1, <3>3, <4>2 DEF MadeOK
    <3>4. listener[k].made # 0 =>
            /\ listener'[listener[k].made].state = listener[listener[k].made].state
            /\ listener'[listener[k].made].action = listener[listener[k].made].action
      BY <2>4, <3>2
    <3>. QED  BY <2>1, <2>3, <3>1, <3>3, <3>4 DEF MadeOK
  <2>. QED  BY <2>3, <2>6, <2>7, <2>8 DEF MadeInv
<1>14. ASSUME NEW l \in DOMAIN listener, OpenListeners(l)
      PROVE  MadeInv'
  <2>. DEFINE j == listener[l].made
  <2>1. /\ listener[l].phase \in {"committed", "stale"} /\ listener[l].state = "open"
        /\ MadeOK(l) /\ j \in 0 .. Len(listener) /\ j # l /\ UNCHANGED terminator
    BY <1>0, <1>14 DEF OpenListeners, MadeInv, MadeOK
  <2>2. j # 0 => j \in DOMAIN listener /\ listener[j].phase = "idle" /\ listener[j].made = 0
    <3>. SUFFICES ASSUME j # 0 PROVE listener[j].phase = "idle" /\ listener[j].made = 0 /\ j \in DOMAIN listener
      OBVIOUS
    <3>1. listener[j].state \in {"new", "closed"} /\ j \in DOMAIN listener
      BY <1>0, <2>1 DEF MadeOK
    <3>. QED  BY <3>1 DEF MadeInv, MadeOK
  <2>3. /\ DOMAIN listener' = DOMAIN listener
        /\ \A k \in DOMAIN listener : k # l /\ k # j => listener'[k] = listener[k]
        /\ j # 0 => Switches(j, "open")
        /\ listener'[l].action = listener[l].action /\ listener'[l].state = listener[l].state
    BY <1>14, <2>1, <2>2, OpenListenersShape DEF Keeps, KeepsToken
  <2>4. \A k \in DOMAIN listener :
          /\ k # j => listener'[k].state = listener[k].state
          /\ listener'[k].action = listener[k].action
          /\ k # l => listener'[k].made = listener[k].made
    BY <1>0, <2>3 DEF Switches
  <2>5. listener'[l].made \in {0, j}
    BY <1>14, OpenListenersShape DEF Keeps, KeepsToken
  <2>6. MadeOK(l)'
    <3>1. /\ listener'[l].phase \in {"idle", "opened", "recovering"}
          /\ listener'[l].phase = "idle" => listener'[l].made = 0
      BY <1>14, OpenListenersShape DEF Keeps, KeepsToken
    <3>2. ASSUME NEW i \in DOMAIN listener, listener'[i].made = listener'[l].made, listener'[l].made # 0
          PROVE  i = l
      <4>1. CASE i # l
        <5>1. listener[i].made = listener[l].made /\ listener[l].made # 0
          BY <2>4, <2>5, <3>2, <4>1
        <5>. QED  BY <2>1, <5>1 DEF MadeOK
      <4>. QED  BY <4>1
    <3>3. listener'[l].made # 0 => l < listener'[l].made
      BY <2>1, <2>5 DEF MadeOK
    <3>. QED  BY <2>1, <2>3, <3>1, <3>2, <3>3 DEF MadeOK
  <2>7. ASSUME NEW k \in DOMAIN listener, k = j
        PROVE  MadeOK(k)'
    BY <1>0, <2>1, <2>2, <2>3, <2>7 DEF MadeOK, Switches
  <2>8. ASSUME NEW k \in DOMAIN listener, k # l, k # j
        PROVE  MadeOK(k)'
    <3>1. MadeOK(k) /\ listener'[k] = listener[k]
      BY <2>3, <2>8 DEF MadeInv
    <3>2. listener[k].made # 0 => listener[k].made # j /\ listener[k].made \in DOMAIN listener
      BY <1>0, <2>8, <3>1 DEF MadeOK
    <3>3. ASSUME NEW i \in DOMAIN listener, listener'[i].made = listener[k].made, listener[k].made # 0
          PROVE  i = k
      <4>1. i # l
        BY <2>5, <3>2, <3>3
      <4>2. listener[i].made = listener[k].made
        BY <2>4, <3>3, <4>1
      <4>. QED  BY <3>1, <3>3, <4>2 DEF MadeOK
    <3>4. listener[k].made # 0 =>
            /\ listener'[listener[k].made].state = listener[listener[k].made].state
            /\ listener'[listener[k].made].action = listener[listener[k].made].action
      BY <2>4, <3>2
    <3>. QED  BY <2>1, <2>3, <3>1, <3>3, <3>4 DEF MadeOK
  <2>. QED  BY <2>3, <2>6, <2>7, <2>8 DEF MadeInv
<1>15. CASE CloseRequestListener
  <2>. DEFINE c == terminator.listener
  <2>1. terminator'.phase = "closed" /\ (c # 0 => listener[c].phase = "idle")
    <3>1. terminator \in [phase : {"idle", "loaded", "removed", "closed", "stale", "done"},
                          action : Action \cup {None}, listener : 0 .. Len(listener), version : Nat]
      BY DEF TypeInv, TypeOK
    <3>. QED  BY <1>15, <3>1 DEF CloseRequestListener
  <2>2. /\ DOMAIN listener' = DOMAIN listener
        /\ \A k \in DOMAIN listener : k # c => listener'[k] = listener[k]
        /\ c \in DOMAIN listener => Switches(c, "closed")
    BY <1>15, CloseRequestListenerShape
  <2>3. \A k \in DOMAIN listener :
          /\ k # c => listener'[k].state = listener[k].state
          /\ listener'[k].action = listener[k].action
          /\ listener'[k].phase = listener[k].phase
          /\ listener'[k].made = listener[k].made
          /\ listener'[k].pos = listener[k].pos
          /\ listener'[k].ended = listener[k].ended
    BY <2>2 DEF Switches, KeepsToken
  <2>4. c \in DOMAIN listener => listener'[c].state = "closed" /\ listener'[c].phase = "idle"
    BY <1>0, <2>1, <2>2 DEF Switches
  <2>5. ASSUME NEW k \in DOMAIN listener
        PROVE  MadeOK(k)'
    <3>1. MadeOK(k)
      BY DEF MadeInv
    <3>2. listener[k].made # 0 => listener[k].made \in DOMAIN listener
      BY <1>0
    <3>. QED  BY <2>1, <2>2, <2>3, <2>4, <3>1, <3>2 DEF MadeOK
  <2>. QED  BY <2>2, <2>5 DEF MadeInv
<1>16. CASE Crash
  <2>1. DOMAIN listener' = {}
    BY <1>16 DEF Crash
  <2>. QED  BY <2>1 DEF MadeInv
<1>17. CASE EnableInboundMessageActivities
  <2>1. CASE ended
    BY <1>1, <1>17, <2>1 DEF EnableInboundMessageActivities
  <2>2. CASE ~ ended
    <3>1. DOMAIN listener' = {1} /\ listener'[1] = Idle(Waits[pos], "open")
      BY <1>17, <2>2 DEF EnableInboundMessageActivities
    <3>. QED  BY <3>1 DEF MadeInv, MadeOK, Idle
  <2>. QED  BY <2>1, <2>2
<1>18. CASE UNCHANGED vars
  BY <1>1, <1>18
<1>19. CASE \E m \in Message : Send(m)
  BY <1>1, <1>19 DEF Send
<1>20. CASE Conflict \/ TerminateToken
  BY <1>1, <1>20 DEF Conflict, TerminateToken, NoTermination
<1>21. CASE RemoveRequestListener \/ CommitTermination
  <2>1. terminator'.phase # "idle"
    BY <1>21 DEF RemoveRequestListener, CommitTermination, NoTermination, TypeInv, TypeOK
  <2>. QED  BY <1>1, <1>21, <2>1 DEF RemoveRequestListener, CommitTermination
<1>. QED  BY <1>2, <1>3, <1>4, <1>5, <1>6, <1>7, <1>8, <1>9, <1>10, <1>11, <1>12, <1>13, <1>14, <1>15, <1>16, <1>17, <1>18, <1>19, <1>20, <1>21 DEF Next, Run, Terminate

-----------------------------------------------------------------------------
(* What transactions have read *)

(* The listener k, as far as its transaction is concerned. *)
SameTransaction(k) ==
  /\ listener'[k].action = listener[k].action /\ listener'[k].phase = listener[k].phase
  /\ KeepsToken(k)

LEMMA SnapshotKept ==
  ASSUME TypeInv, SnapshotInv, NEW k \in DOMAIN listener, SameTransaction(k),
         \/ UNCHANGED database
         \/ version' = version + 1 /\ (ended => ended')
  PROVE  SnapshotOK(k)'
<1>1. SnapshotOK(k) /\ listener[k].version \in Nat /\ version \in Nat
  BY FieldTypes DEF SnapshotInv, TypeInv, TypeOK
<1>2. CASE UNCHANGED database
  BY <1>1, <1>2 DEF SnapshotOK, SameTransaction, KeepsToken
<1>3. CASE version' = version + 1 /\ (ended => ended')
  BY <1>1, <1>3 DEF SnapshotOK, SameTransaction, KeepsToken
<1>. QED  BY <1>2, <1>3

LEMMA SnapshotUpdate ==
  ASSUME TypeInv, SnapshotInv, NEW l \in DOMAIN listener, OnlyListener(l), SnapshotOK(l)',
         \/ UNCHANGED database
         \/ version' = version + 1 /\ (ended => ended'),
         UNCHANGED terminator
  PROVE  SnapshotInv'
<1>1. \A k \in DOMAIN listener : k # l => SameTransaction(k)
  BY DEF OnlyListener, SameTransaction, KeepsToken
<1>2. \A k \in DOMAIN listener : k # l => SnapshotOK(k)'
  BY <1>1, SnapshotKept
<1>3. terminator'.phase = "done" => ended'
  BY DEF SnapshotInv
<1>. QED  BY <1>2, <1>3 DEF SnapshotInv, OnlyListener

LEMMA InitSnapshot == Init => SnapshotInv
<1>. SUFFICES ASSUME Init PROVE SnapshotInv
  OBVIOUS
<1>1. DOMAIN listener = {1} /\ listener[1] = Idle(Waits[1], "open") /\ version = 0 /\ terminator.phase = "idle"
  BY DEF Init, NoTermination
<1>. QED  BY <1>1 DEF SnapshotInv, SnapshotOK, Idle

(* A commit that writes the token found the token that it had read, which  *)
(* had not ended: no end is undone.                                        *)
LEMMA CommitFacts ==
  ASSUME TypeInv, SnapshotInv, NEW l \in DOMAIN listener, Commit(l)
  PROVE  /\ listener[l].phase = "delivered"
         /\ \/ /\ listener[l].dirty /\ ~ ended
               /\ pos' = listener[l].pos /\ ended' = listener[l].ended /\ version' = version + 1
               /\ \/ listener[l].pos = After(listener[l].action, pos)
                  \/ listener[l].pos = pos /\ listener[l].ended
            \/ ~ listener[l].dirty /\ UNCHANGED database /\ ended
<1>1. SnapshotOK(l) /\ listener[l].phase = "delivered"
  BY DEF SnapshotInv, Commit
<1>2. CASE listener[l].dirty
  <2>1. listener[l].version = version
    BY <1>2 DEF Commit, Stale
  <2>2. pos' = listener[l].pos /\ ended' = listener[l].ended /\ version' = version + 1
    BY <1>2 DEF Commit
  <2>. QED  BY <1>1, <1>2, <2>1, <2>2 DEF SnapshotOK
<1>3. CASE ~ listener[l].dirty
  <2>1. UNCHANGED database
    BY <1>3 DEF Commit
  <2>. QED  BY <1>1, <1>3, <2>1 DEF SnapshotOK
<1>. QED  BY <1>2, <1>3

LEMMA NextSnapshot == TypeInv /\ SnapshotInv /\ [Next]_vars => SnapshotInv'
<1>. SUFFICES ASSUME TypeInv, SnapshotInv, [Next]_vars PROVE SnapshotInv'
  OBVIOUS
<1>0. version \in Nat /\ \A k \in DOMAIN listener : SnapshotOK(k)
  BY DEF TypeInv, TypeOK, SnapshotInv
<1>1. ASSUME UNCHANGED listener, terminator'.phase = "done" => ended',
             \/ UNCHANGED database
             \/ version' = version + 1 /\ (ended => ended')
      PROVE  SnapshotInv'
  <2>1. \A k \in DOMAIN listener : SameTransaction(k)
    BY <1>1 DEF SameTransaction, KeepsToken
  <2>2. \A k \in DOMAIN listener : SnapshotOK(k)'
    BY <1>1, <2>1, SnapshotKept
  <2>. QED  BY <1>1, <2>2 DEF SnapshotInv
<1>2. ASSUME NEW m \in Message, NEW l \in DOMAIN listener, OnMessage(l, m)
      PROVE  SnapshotInv'
  <2>1. OnlyListener(l) /\ KeepsToken(l) /\ listener'[l].phase = "received"
    BY <1>2, OnMessageShape
  <2>2. UNCHANGED <<database, terminator>> /\ listener[l].phase = "idle"
    BY <1>2 DEF OnMessage, Deliverable
  <2>3. SnapshotOK(l)'
    BY <1>0, <2>1, <2>2 DEF SnapshotOK, KeepsToken
  <2>. QED  BY <2>1, <2>2, <2>3, SnapshotUpdate
<1>3. ASSUME NEW l \in DOMAIN listener, LoadToken(l)
      PROVE  SnapshotInv'
  <2>1. OnlyListener(l)
    BY <1>3, LoadTokenShape
  <2>2. UNCHANGED <<database, terminator>> /\ listener[l].phase = "received"
    BY <1>3 DEF LoadToken
  <2>3. SnapshotOK(l)'
    BY <1>0, <1>3, <2>2, LoadTokenShape DEF SnapshotOK
  <2>. QED  BY <2>1, <2>2, <2>3, SnapshotUpdate
<1>4. ASSUME NEW l \in DOMAIN listener, DeliverToEnded(l)
      PROVE  SnapshotInv'
  <2>1. OnlyListener(l) /\ KeepsToken(l) /\ listener'[l].phase = "delivered"
    BY <1>4, DeliverToEndedShape
  <2>2. UNCHANGED <<database, terminator>> /\ listener[l].phase = "loaded" /\ listener[l].ended
    BY <1>4 DEF DeliverToEnded
  <2>3. SnapshotOK(l)'
    BY <1>0, <2>1, <2>2 DEF SnapshotOK, KeepsToken
  <2>. QED  BY <2>1, <2>2, <2>3, SnapshotUpdate
<1>5. ASSUME NEW l \in DOMAIN listener, DeliverFaults(l)
      PROVE  SnapshotInv'
  <2>1. /\ OnlyListener(l) /\ listener'[l].phase = "delivered" /\ listener'[l].ended
        /\ listener'[l].dirty = ~ listener[l].ended
        /\ listener'[l].pos = listener[l].pos /\ listener'[l].version = listener[l].version
    BY <1>5, DeliverFaultsShape
  <2>2. UNCHANGED <<database, terminator>> /\ listener[l].phase = "loaded"
    BY <1>5 DEF DeliverFaults
  <2>3. SnapshotOK(l)'
    BY <1>0, <2>1, <2>2 DEF SnapshotOK
  <2>. QED  BY <2>1, <2>2, <2>3, SnapshotUpdate
<1>6. ASSUME NEW l \in DOMAIN listener, Deliver(l)
      PROVE  SnapshotInv'
  <2>1. /\ listener'[l].phase = "delivered" /\ listener'[l].dirty /\ listener'[l].pos = NextOf(l)
        /\ listener'[l].version = listener[l].version /\ listener'[l].action = listener[l].action
        /\ \A k \in DOMAIN listener : k # l => listener'[k] = listener[k]
    BY <1>6, DeliverShape
  <2>2. UNCHANGED <<database, terminator>> /\ listener[l].phase = "loaded" /\ ~ listener[l].ended
    BY <1>6 DEF Deliver
  <2>3. SnapshotOK(l)'
    BY <1>0, <2>1, <2>2 DEF SnapshotOK, NextOf
  <2>4. \A k \in DOMAIN listener : k # l => SnapshotOK(k)'
    <3>1. \A k \in DOMAIN listener : k # l => SameTransaction(k)
      BY <2>1 DEF SameTransaction, KeepsToken
    <3>. QED  BY <2>2, <3>1, SnapshotKept
  <2>5. ASSUME NEW k \in DOMAIN listener', k \notin DOMAIN listener
        PROVE  SnapshotOK(k)'
    <3>1. listener'[k] = Idle(Waits[NextOf(l)], "new")
      BY <1>6, <2>5, DeliverShape
    <3>2. listener'[k].phase = "idle" /\ listener'[k].version = 0 /\ ~ listener'[k].dirty
      BY <3>1 DEF Idle
    <3>. QED  BY <1>0, <2>2, <3>2 DEF SnapshotOK
  <2>6. terminator'.phase = "done" => ended'
    BY <2>2 DEF SnapshotInv
  <2>. QED  BY <2>3, <2>4, <2>5, <2>6 DEF SnapshotInv
<1>7. ASSUME NEW l \in DOMAIN listener, Commit(l)
      PROVE  SnapshotInv'
  <2>1. OnlyListener(l) /\ KeepsToken(l) /\ listener'[l].phase = "committed"
    BY <1>7, CommitShape
  <2>2. \/ UNCHANGED database
        \/ version' = version + 1 /\ (ended => ended')
    BY <1>7, CommitFacts
  <2>3. SnapshotOK(l)'
    BY <1>0, <2>1, <2>2, FieldTypes DEF SnapshotOK, KeepsToken
  <2>4. UNCHANGED terminator
    BY <1>7 DEF Commit
  <2>. QED  BY <2>1, <2>2, <2>3, <2>4, SnapshotUpdate
<1>8. ASSUME NEW l \in DOMAIN listener, CommitFails(l) \/ LockFails(l)
      PROVE  SnapshotInv'
  <2>1. OnlyListener(l) /\ KeepsToken(l) /\ listener'[l].phase \in {"stale", "recovering"}
    BY <1>8, CommitFailsShape, LockFailsShape
  <2>2. UNCHANGED <<database, terminator>>
    BY <1>8 DEF CommitFails, LockFails
  <2>3. SnapshotOK(l)'
    BY <1>0, <2>1, <2>2 DEF SnapshotOK, KeepsToken
  <2>. QED  BY <2>1, <2>2, <2>3, SnapshotUpdate
<1>9. ASSUME NEW l \in DOMAIN listener, Acknowledge(l) \/ Recover(l) \/ RecoverFails(l) \/ OpenCancelled(l)
      PROVE  SnapshotInv'
  <2>. DEFINE Recovering == KeepsToken(l) /\ listener'[l].phase = "recovering"
  <2>1. OnlyListener(l) /\ (Rests(l) \/ Recovering)
    <3>1. CASE Acknowledge(l)
      BY <3>1, AcknowledgeShape
    <3>2. CASE Recover(l) \/ RecoverFails(l)
      BY <3>2, RecoverShape
    <3>3. CASE OpenCancelled(l)
      BY <3>3, OpenCancelledShape
    <3>. QED  BY <1>9, <3>1, <3>2, <3>3
  <2>2. UNCHANGED <<database, terminator>>
    BY <1>9 DEF Acknowledge, Recover, RecoverFails, OpenCancelled
  <2>3. SnapshotOK(l)'
    BY <1>0, <2>1, <2>2 DEF SnapshotOK, KeepsToken, Rests
  <2>. QED  BY <2>1, <2>2, <2>3, SnapshotUpdate
<1>10. ASSUME NEW l \in DOMAIN listener, Rollback(l) \/ OpenListeners(l)
       PROVE  SnapshotInv'
  <2>. DEFINE Over == KeepsToken(l) /\ listener'[l].phase \in {"opened", "recovering"}
  <2>1. /\ DOMAIN listener' = DOMAIN listener
        /\ Rests(l) \/ Over
        /\ \A k \in DOMAIN listener : k # l =>
             listener'[k] = listener[k] \/ Switches(k, "closed") \/ Switches(k, "open")
    <3>1. CASE Rollback(l)
      BY <3>1, RollbackShape
    <3>2. CASE OpenListeners(l)
      BY <3>2, OpenListenersShape
    <3>. QED  BY <1>10, <3>1, <3>2
  <2>2. UNCHANGED <<database, terminator>>
    BY <1>10 DEF Rollback, OpenListeners
  <2>3. SnapshotOK(l)'
    BY <1>0, <2>1, <2>2 DEF SnapshotOK, KeepsToken, Rests
  <2>4. \A k \in DOMAIN listener : k # l => SnapshotOK(k)'
    <3>1. \A k \in DOMAIN listener : k # l => SameTransaction(k)
      BY <2>1 DEF SameTransaction, KeepsToken, Switches
    <3>. QED  BY <2>2, <3>1, SnapshotKept
  <2>. QED  BY <2>1, <2>2, <2>3, <2>4 DEF SnapshotInv
<1>11. CASE CloseRequestListener
  <2>1. /\ DOMAIN listener' = DOMAIN listener
        /\ \A k \in DOMAIN listener : listener'[k] = listener[k] \/ Switches(k, "closed")
    BY <1>11, CloseRequestListenerShape
  <2>2. UNCHANGED database /\ terminator'.phase = "closed"
    BY <1>11 DEF CloseRequestListener, TypeInv, TypeOK
  <2>3. \A k \in DOMAIN listener : SnapshotOK(k)'
    <3>1. \A k \in DOMAIN listener : SameTransaction(k)
      BY <2>1 DEF SameTransaction, KeepsToken, Switches
    <3>. QED  BY <2>2, <3>1, SnapshotKept
  <2>. QED  BY <2>1, <2>2, <2>3 DEF SnapshotInv
<1>12. CASE Crash
  <2>1. DOMAIN listener' = {} /\ UNCHANGED database /\ terminator' = LostTermination
    BY <1>12 DEF Crash
  <2>2. terminator'.phase = "done" => ended'
    BY <2>1 DEF SnapshotInv, LostTermination, NoTermination
  <2>. QED  BY <2>1, <2>2 DEF SnapshotInv
<1>13. CASE EnableInboundMessageActivities
  <2>1. UNCHANGED <<database, terminator>>
    BY <1>13 DEF EnableInboundMessageActivities
  <2>2. CASE ended
    BY <1>1, <1>13, <2>1, <2>2 DEF EnableInboundMessageActivities, SnapshotInv
  <2>3. CASE ~ ended
    <3>1. DOMAIN listener' = {1} /\ listener'[1] = Idle(Waits[pos], "open")
      BY <1>13, <2>3 DEF EnableInboundMessageActivities
    <3>2. SnapshotOK(1)'
      BY <1>0, <2>1, <3>1 DEF SnapshotOK, Idle
    <3>. QED  BY <2>1, <3>1, <3>2 DEF SnapshotInv
  <2>. QED  BY <2>2, <2>3
<1>14. CASE UNCHANGED vars \/ \E m \in Message : Send(m)
  BY <1>1, <1>14 DEF Send, SnapshotInv
<1>15. CASE Conflict \/ TerminateToken
  BY <1>1, <1>15 DEF Conflict, TerminateToken, NoTermination, SnapshotInv
<1>16. CASE RemoveRequestListener
  <2>1. terminator'.phase = "removed"
    BY <1>16 DEF RemoveRequestListener, TypeInv, TypeOK
  <2>. QED  BY <1>1, <1>16, <2>1 DEF RemoveRequestListener
<1>17. CASE CommitTermination
  <2>1. CASE terminator.version = version
    BY <1>1, <1>17, <2>1 DEF CommitTermination
  <2>2. CASE terminator.version # version
    <3>1. terminator'.phase = "stale"
      BY <1>17, <2>2 DEF CommitTermination, NoTermination
    <3>. QED  BY <1>1, <1>17, <2>2, <3>1 DEF CommitTermination
  <2>. QED  BY <2>1, <2>2
<1>. QED  BY <1>2, <1>3, <1>4, <1>5, <1>6, <1>7, <1>8, <1>9, <1>10, <1>11, <1>12, <1>13, <1>14,
             <1>15, <1>16, <1>17 DEF Next, Run, Terminate

-----------------------------------------------------------------------------
(* Requests and their listeners *)

(* No listener is lost or starts to run. *)
RunsOn ==
  /\ \A k \in DOMAIN listener : k \in DOMAIN listener' /\ listener'[k].action = listener[k].action
  /\ \A k \in DOMAIN listener' : listener'[k].phase # "idle" =>
       /\ k \in DOMAIN listener /\ listener[k].phase # "idle"
       /\ listener'[k].message = listener[k].message

(* A delivery that goes on keeps its listener and its request. *)
LEMMA RunGoesOn ==
  ASSUME TypeInv, NEW l \in DOMAIN listener, Run(l) \/ Rollback(l) \/ RecoverFails(l)
  PROVE  /\ RunsOn
         /\ \A k \in DOMAIN listener : k # l => listener'[k].phase = listener[k].phase
         /\ listener[l].phase # "idle"
<1>0. listener[l].phase # "idle"
  BY DEF Run, Rollback, LoadToken, DeliverToEnded, DeliverFaults, Deliver, Commit, CommitFails,
         LockFails, OpenListeners, OpenCancelled, Acknowledge, Recover, RecoverFails
<1>1. ASSUME OnlyListener(l), listener'[l].action = listener[l].action,
             listener'[l].phase = "idle" \/ listener'[l].message = listener[l].message
      PROVE  /\ RunsOn
             /\ \A k \in DOMAIN listener : k # l => listener'[k].phase = listener[k].phase
  BY <1>0, <1>1 DEF OnlyListener, RunsOn
<1>2. CASE LoadToken(l)
  BY <1>0, <1>1, <1>2, LoadTokenShape DEF Keeps
<1>3. CASE DeliverToEnded(l)
  BY <1>0, <1>1, <1>3, DeliverToEndedShape DEF Keeps
<1>4. CASE DeliverFaults(l)
  BY <1>0, <1>1, <1>4, DeliverFaultsShape DEF Keeps
<1>5. CASE Commit(l)
  BY <1>0, <1>1, <1>5, CommitShape DEF Keeps
<1>6. CASE CommitFails(l)
  BY <1>0, <1>1, <1>6, CommitFailsShape DEF Keeps
<1>7. CASE LockFails(l)
  BY <1>0, <1>1, <1>7, LockFailsShape DEF Keeps
<1>8. CASE Acknowledge(l)
  BY <1>0, <1>1, <1>8, AcknowledgeShape DEF Rests
<1>9. CASE Recover(l) \/ RecoverFails(l)
  BY <1>0, <1>1, <1>9, RecoverShape DEF Rests
<1>10. CASE OpenCancelled(l)
  BY <1>0, <1>1, <1>10, OpenCancelledShape DEF Rests, Keeps
<1>11. CASE Rollback(l) \/ OpenListeners(l)
  <2>1. /\ DOMAIN listener' = DOMAIN listener
        /\ Rests(l) \/ Keeps(l)
        /\ \A k \in DOMAIN listener : k # l =>
             listener'[k] = listener[k] \/ Switches(k, "closed") \/ Switches(k, "open")
    <3>1. CASE Rollback(l)
      BY <3>1, RollbackShape
    <3>2. CASE OpenListeners(l)
      BY <3>2, OpenListenersShape
    <3>. QED  BY <1>11, <3>1, <3>2
  <2>2. /\ listener'[l].action = listener[l].action
        /\ listener'[l].phase # "idle" => listener'[l].message = listener[l].message
    BY <2>1 DEF Rests, Keeps
  <2>3. \A k \in DOMAIN listener : k # l =>
          /\ listener'[k].action = listener[k].action /\ listener'[k].phase = listener[k].phase
          /\ listener'[k].message = listener[k].message
    BY <2>1 DEF Switches
  <2>. QED  BY <1>0, <2>1, <2>2, <2>3 DEF RunsOn
<1>12. CASE Deliver(l)
  <2>1. /\ listener'[l].action = listener[l].action /\ listener'[l].message = listener[l].message
        /\ \A k \in DOMAIN listener : k # l => listener'[k] = listener[k]
    BY <1>12, DeliverShape
  <2>2. DOMAIN listener \subseteq DOMAIN listener'
    BY <1>12, DeliverShape
  <2>3. \A k \in DOMAIN listener' : k \notin DOMAIN listener => listener'[k].phase = "idle"
    <3>. SUFFICES ASSUME NEW k \in DOMAIN listener', k \notin DOMAIN listener
                  PROVE  listener'[k].phase = "idle"
      OBVIOUS
    <3>1. listener'[k] = Idle(Waits[NextOf(l)], "new")
      BY <1>12, DeliverShape
    <3>. QED  BY <3>1 DEF Idle
  <2>. QED  BY <1>0, <2>1, <2>2, <2>3 DEF RunsOn
<1>. QED  BY <1>0, <1>2, <1>3, <1>4, <1>5, <1>6, <1>7, <1>8, <1>9, <1>10, <1>11, <1>12 DEF Run

LEMMA QueueKept ==
  ASSUME TypeInv, TypeInv', QueueInv, RunsOn,
         \A m \in Message : holder'[m] = 0 \/ holder'[m] = holder[m],
         \A k \in DOMAIN listener : listener'[k].phase # "idle" =>
           /\ holder'[listener[k].message] = holder[listener[k].message]
           /\ queue'[listener[k].message] = queue[listener[k].message]
  PROVE  QueueInv'
<1>1. \A m \in Message : holder[m] # 0 => holder[m] \in DOMAIN listener
  <2>1. holder \in [Message -> 0 .. Len(listener)] /\ DOMAIN listener = 1 .. Len(listener)
    BY DEF TypeInv, TypeOK
  <2>. QED  BY <2>1
<1>2. \A m \in Message : holder'[m] # 0 => listener'[holder'[m]].action = m[1]
  BY <1>1 DEF QueueInv, RunsOn
<1>3. \A k \in DOMAIN listener' : listener'[k].phase # "idle" =>
        /\ holder'[listener'[k].message] = k
        /\ queue'[listener'[k].message] = "delivered"
  BY DEF QueueInv, RunsOn
<1>. QED  BY <1>2, <1>3 DEF QueueInv

(* A request is with one listener. *)
LEMMA OneListener ==
  ASSUME TypeInv, QueueInv, NEW l \in DOMAIN listener, NEW k \in DOMAIN listener, k # l,
         listener[l].phase # "idle", listener[k].phase # "idle"
  PROVE  listener[l].message # listener[k].message
  BY DEF QueueInv

LEMMA InitQueue == Init => QueueInv
<1>. SUFFICES ASSUME Init PROVE QueueInv
  OBVIOUS
<1>1. /\ DOMAIN listener = {1} /\ listener[1] = Idle(Waits[1], "open")
      /\ \A m \in Message : holder[m] = 0
  BY DEF Init
<1>. QED  BY <1>1 DEF QueueInv, Idle

LEMMA NextQueue == TypeInv /\ TypeInv' /\ QueueInv /\ [Next]_vars => QueueInv'
<1>. SUFFICES ASSUME TypeInv, TypeInv', QueueInv, [Next]_vars PROVE QueueInv'
  OBVIOUS
<1>0. /\ queue \in [Message -> {"unsent", "queued", "delivered", "redelivery", "kept", "acknowledged"}]
      /\ holder \in [Message -> 0 .. Len(listener)] /\ DOMAIN listener = 1 .. Len(listener)
      /\ Len(listener) \in Nat
  <2>1. listener \in Seq(Listener)
    BY DEF TypeInv, TypeOK
  <2>2. DOMAIN listener = 1 .. Len(listener) /\ Len(listener) \in Nat
    BY <2>1
  <2>. QED  BY <2>2 DEF TypeInv, TypeOK
<1>1. ASSUME UNCHANGED <<jms, listener>>
      PROVE  QueueInv'
  BY <1>1 DEF QueueInv
<1>2. ASSUME NEW m \in Message, Send(m)
      PROVE  QueueInv'
  <2>1. RunsOn
    BY <1>2 DEF Send, RunsOn
  <2>2. \A k \in DOMAIN listener : listener[k].phase # "idle" => listener[k].message # m
    BY <1>2 DEF Send, QueueInv
  <2>3. \A k \in DOMAIN listener : listener[k].phase # "idle" =>
          listener[k].message \in Message /\ queue'[listener[k].message] = queue[listener[k].message]
    BY <1>0, <1>2, <2>2, FieldTypes DEF Send
  <2>. QED  BY <1>2, <2>1, <2>3, QueueKept DEF Send
<1>3. ASSUME NEW m \in Message, NEW l \in DOMAIN listener, OnMessage(l, m)
      PROVE  QueueInv'
  <2>1. /\ DOMAIN listener' = DOMAIN listener
        /\ \A k \in DOMAIN listener : k # l => listener'[k] = listener[k]
        /\ listener'[l].action = listener[l].action /\ listener'[l].message = m
    BY <1>3, OnMessageShape DEF OnlyListener
  <2>2. /\ holder' = [holder EXCEPT ![m] = l] /\ queue' = [queue EXCEPT ![m] = "delivered"]
        /\ queue[m] # "delivered"
    BY <1>3 DEF OnMessage, Deliverable
  <2>3. m[1] = listener[l].action
    <3>1. holder[m] = l \/ m[1] = listener[l].action
      BY <1>3 DEF OnMessage, Deliverable
    <3>2. l # 0
      BY <1>0
    <3>. QED  BY <3>1, <3>2 DEF QueueInv
  <2>4. ASSUME NEW n \in Message, holder'[n] # 0
        PROVE  listener'[holder'[n]].action = n[1]
    <3>1. CASE n = m
      BY <1>0, <2>1, <2>2, <2>3, <3>1
    <3>2. CASE n # m
      <4>1. holder'[n] = holder[n] /\ holder[n] \in DOMAIN listener
        BY <1>0, <2>2, <2>4, <3>2
      <4>2. listener[holder[n]].action = n[1]
        BY <2>4, <4>1 DEF QueueInv
      <4>. QED  BY <2>1, <4>1, <4>2
    <3>. QED  BY <3>1, <3>2
  <2>5. ASSUME NEW k \in DOMAIN listener, listener'[k].phase # "idle"
        PROVE  holder'[listener'[k].message] = k /\ queue'[listener'[k].message] = "delivered"
    <3>1. CASE k = l
      BY <1>0, <2>1, <2>2, <3>1
    <3>2. CASE k # l
      <4>1. listener'[k] = listener[k]
        BY <2>1, <3>2
      <4>2. /\ listener[k].message \in Message /\ listener[k].message # m
            /\ holder[listener[k].message] = k /\ queue[listener[k].message] = "delivered"
        BY <2>2, <2>5, <4>1, FieldTypes DEF QueueInv
      <4>. QED  BY <1>0, <2>2, <4>1, <4>2
    <3>. QED  BY <3>1, <3>2
  <2>. QED  BY <2>1, <2>4, <2>5 DEF QueueInv
<1>4. ASSUME NEW l \in DOMAIN listener, Run(l) \/ Rollback(l) \/ RecoverFails(l)
      PROVE  QueueInv'
  <2>0. /\ RunsOn /\ listener[l].phase # "idle"
        /\ \A k \in DOMAIN listener : k # l => listener'[k].phase = listener[k].phase
    BY <1>4, RunGoesOn
  <2>1. CASE UNCHANGED jms
    BY <2>0, <2>1, QueueKept
  <2>2. CASE GiveUp(l) /\ UNCHANGED holder /\ listener'[l].phase = "idle"
    <3>1. ASSUME NEW k \in DOMAIN listener, listener'[k].phase # "idle"
          PROVE  queue'[listener[k].message] = queue[listener[k].message]
      <4>1. k # l /\ listener[k].phase # "idle"
        BY <2>0, <2>2, <3>1
      <4>2. listener[l].message # listener[k].message /\ listener[k].message \in Message
        BY <2>0, <4>1, OneListener, FieldTypes
      <4>. QED  BY <1>0, <2>2, <4>2 DEF GiveUp
    <3>. QED  BY <2>0, <2>2, <3>1, QueueKept
  <2>3. CASE Acknowledge(l) \/ Recover(l)
    <3>1. listener'[l].phase = "idle"
      <4>1. CASE Acknowledge(l)
        BY <4>1, AcknowledgeShape DEF Rests
      <4>2. CASE Recover(l)
        BY <4>2, RecoverShape DEF Rests
      <4>. QED  BY <2>3, <4>1, <4>2
    <3>2. \A m \in Message : holder[m] # l => holder'[m] = holder[m] /\ queue'[m] = queue[m]
      BY <2>3 DEF Acknowledge, Returned, Recover
    <3>3. \A m \in Message : holder'[m] = 0 \/ holder'[m] = holder[m]
      BY <2>3 DEF Acknowledge, Returned, Recover
    <3>4. ASSUME NEW k \in DOMAIN listener, listener'[k].phase # "idle"
          PROVE  /\ holder'[listener[k].message] = holder[listener[k].message]
                 /\ queue'[listener[k].message] = queue[listener[k].message]
      <4>1. k # l /\ listener[k].phase # "idle"
        BY <2>0, <3>1, <3>4
      <4>2. listener[k].message \in Message /\ holder[listener[k].message] = k
        BY <4>1, FieldTypes DEF QueueInv
      <4>. QED  BY <3>2, <4>1, <4>2
    <3>. QED  BY <2>0, <3>3, <3>4, QueueKept
  <2>4. CASE Rollback(l) \/ RecoverFails(l)
    BY <2>2, <2>4, RollbackShape, RecoverShape DEF Rollback, RecoverFails, Rests
  <2>5. CASE OpenCancelled(l)
    <3>1. CASE listener[l].phase = "committed"
      BY <2>2, <2>5, <3>1, OpenCancelledShape DEF OpenCancelled, Rests
    <3>2. CASE listener[l].phase # "committed"
      BY <2>1, <2>5, <3>2 DEF OpenCancelled
    <3>. QED  BY <3>1, <3>2
  <2>6. CASE LoadToken(l) \/ DeliverToEnded(l) \/ DeliverFaults(l) \/ Deliver(l) \/ Commit(l)
             \/ CommitFails(l) \/ LockFails(l) \/ OpenListeners(l)
    BY <2>1, <2>6 DEF LoadToken, DeliverToEnded, DeliverFaults, Deliver, Commit, CommitFails,
                      LockFails, OpenListeners
  <2>. QED  BY <1>4, <2>3, <2>4, <2>5, <2>6 DEF Run
<1>5. CASE CloseRequestListener
  <2>1. /\ DOMAIN listener' = DOMAIN listener
        /\ \A k \in DOMAIN listener : listener'[k] = listener[k] \/ Switches(k, "closed")
    BY <1>5, CloseRequestListenerShape
  <2>2. RunsOn
    BY <2>1 DEF RunsOn, Switches
  <2>3. UNCHANGED holder /\ \A m \in Message : queue[m] = "delivered" => queue'[m] = "delivered"
    BY <1>5 DEF CloseRequestListener, Returned
  <2>4. \A k \in DOMAIN listener : listener[k].phase # "idle" =>
          listener[k].message \in Message /\ queue'[listener[k].message] = queue[listener[k].message]
    BY <2>3, FieldTypes DEF QueueInv
  <2>. QED  BY <2>2, <2>3, <2>4, QueueKept DEF RunsOn
<1>6. CASE Crash
  <2>1. DOMAIN listener' = {} /\ \A m \in Message : holder'[m] = 0
    BY <1>6 DEF Crash
  <2>. QED  BY <2>1 DEF QueueInv
<1>7. CASE EnableInboundMessageActivities
  <2>1. UNCHANGED jms /\ listener = <<>>
    BY <1>7 DEF EnableInboundMessageActivities, TypeInv
  <2>2. \A m \in Message : holder'[m] = 0
    BY <1>0, <2>1
  <2>3. \A k \in DOMAIN listener' : listener'[k].phase = "idle"
    <3>1. CASE ended
      BY <1>7, <2>1, <3>1 DEF EnableInboundMessageActivities
    <3>2. CASE ~ ended
      <4>1. DOMAIN listener' = {1} /\ listener'[1] = Idle(Waits[pos], "open")
        BY <1>7, <3>2 DEF EnableInboundMessageActivities
      <4>. QED  BY <4>1 DEF Idle
    <3>. QED  BY <3>1, <3>2
  <2>. QED  BY <2>2, <2>3 DEF QueueInv
<1>8. CASE UNCHANGED vars \/ Conflict \/ TerminateToken \/ RemoveRequestListener \/ CommitTermination
  BY <1>1, <1>8 DEF Conflict, TerminateToken, RemoveRequestListener, CommitTermination
<1>. QED  BY <1>2, <1>3, <1>4, <1>5, <1>6, <1>7, <1>8 DEF Next, Terminate

-----------------------------------------------------------------------------
(* Moves of the token *)

LEMMA CounterNumbers ==
  ASSUME TypeInv, TypeInv'
  PROVE  /\ count.crashes \in Nat /\ count.cancelled \in Nat
         /\ count'.crashes \in Nat /\ count'.cancelled \in Nat
  BY DEF TypeInv, TypeOK

LEMMA MoveKept ==
  ASSUME TypeInv, TypeInv', MoveInv, UNCHANGED moves,
         count'.crashes + count'.cancelled >= count.crashes + count.cancelled,
         \A m \in Message : queue[m] = "acknowledged" => queue'[m] = "acknowledged",
         \A k \in DOMAIN listener : listener[k].phase \in {"committed", "opened"} =>
           \/ /\ k \in DOMAIN listener' /\ listener'[k].phase \in {"committed", "opened"}
              /\ listener'[k].message = listener[k].message
           \/ count'.crashes + count'.cancelled >= 1 + count.crashes + count.cancelled
           \/ queue'[listener[k].message] = "acknowledged"
  PROVE  MoveInv'
<1>. DEFINE c == count.crashes + count.cancelled
            d == count'.crashes + count'.cancelled
<1>0. /\ count.crashes \in Nat /\ count.cancelled \in Nat
      /\ count'.crashes \in Nat /\ count'.cancelled \in Nat
  BY CounterNumbers
<1>1. c \in Nat /\ d \in Nat /\ 1 + count.crashes + count.cancelled = 1 + c
      /\ 1 + count'.crashes + count'.cancelled = 1 + d
  BY <1>0
<1>. SUFFICES ASSUME NEW m \in Message
              PROVE  \/ moves[m] <= d
                     \/ /\ moves[m] <= 1 + d
                        /\ \/ queue'[m] = "acknowledged"
                           \/ \E l \in DOMAIN listener' :
                                /\ listener'[l].phase \in {"committed", "opened"}
                                /\ listener'[l].message = m
  BY <1>1 DEF MoveInv
<1>2. moves[m] \in Nat /\ d >= c
  BY DEF TypeInv, TypeOK
<1>3. \/ moves[m] <= c
      \/ /\ moves[m] <= 1 + c
         /\ \/ queue[m] = "acknowledged"
            \/ \E l \in DOMAIN listener : /\ listener[l].phase \in {"committed", "opened"}
                                         /\ listener[l].message = m
  BY <1>1 DEF MoveInv
<1>4. ASSUME NEW k \in DOMAIN listener, listener[k].phase \in {"committed", "opened"},
             listener[k].message = m
      PROVE  \/ \E l \in DOMAIN listener' : /\ listener'[l].phase \in {"committed", "opened"}
                                           /\ listener'[l].message = m
             \/ d >= 1 + c
             \/ queue'[m] = "acknowledged"
  BY <1>1, <1>4
<1>. HIDE DEF c, d
<1>. QED  BY <1>1, <1>2, <1>3, <1>4

LEMMA InitMove == Init => MoveInv
  BY DEF Init, MoveInv

LEMMA NextMove == TypeInv /\ TypeInv' /\ SnapshotInv /\ QueueInv /\ MoveInv /\ [Next]_vars => MoveInv'
<1>. SUFFICES ASSUME TypeInv, TypeInv', SnapshotInv, QueueInv, MoveInv, [Next]_vars PROVE MoveInv'
  OBVIOUS
<1>0. count.crashes \in Nat /\ count.cancelled \in Nat
  BY CounterNumbers
<1>1. ASSUME UNCHANGED <<listener, moves, count>>,
             \A m \in Message : queue[m] = "acknowledged" => queue'[m] = "acknowledged"
      PROVE  MoveInv'
  BY <1>0, <1>1, MoveKept
<1>2. ASSUME NEW m \in Message, Send(m)
      PROVE  MoveInv'
  <2>1. \A n \in Message : queue[n] = "acknowledged" => queue'[n] = "acknowledged"
    BY <1>2 DEF Send, TypeInv, TypeOK
  <2>. QED  BY <1>1, <1>2, <2>1 DEF Send
<1>3. ASSUME NEW m \in Message, NEW l \in DOMAIN listener, OnMessage(l, m)
      PROVE  MoveInv'
  <2>1. \A n \in Message : queue[n] = "acknowledged" => queue'[n] = "acknowledged"
    BY <1>3 DEF OnMessage, Deliverable, TypeInv, TypeOK
  <2>2. OnlyListener(l) /\ listener[l].phase = "idle" /\ UNCHANGED <<moves, count>>
    BY <1>3, OnMessageShape DEF OnMessage, Deliverable
  <2>3. \A k \in DOMAIN listener : listener[k].phase \in {"committed", "opened"} =>
          k \in DOMAIN listener' /\ listener'[k] = listener[k]
    BY <2>2 DEF OnlyListener
  <2>. QED  BY <1>0, <2>1, <2>2, <2>3, MoveKept
<1>4. ASSUME NEW l \in DOMAIN listener, Run(l) \/ Rollback(l) \/ RecoverFails(l)
      PROVE  MoveInv'
  <2>0. /\ RunsOn /\ listener[l].phase # "idle"
        /\ \A k \in DOMAIN listener : k # l => listener'[k].phase = listener[k].phase
    BY <1>4, RunGoesOn
  <2>1. \A k \in DOMAIN listener : k # l /\ listener[k].phase \in {"committed", "opened"} =>
          /\ k \in DOMAIN listener' /\ listener'[k].phase \in {"committed", "opened"}
          /\ listener'[k].message = listener[k].message
    BY <2>0 DEF RunsOn
  <2>2. listener[l].message \in Message /\ holder[listener[l].message] = l
        /\ queue[listener[l].message] = "delivered"
    BY <2>0, FieldTypes DEF QueueInv
  <2>3. ASSUME UNCHANGED <<moves, count, queue>>, listener[l].phase \notin {"committed", "opened"}
        PROVE  MoveInv'
    BY <1>0, <2>1, <2>3, MoveKept
  <2>4. CASE LoadToken(l) \/ DeliverToEnded(l) \/ DeliverFaults(l) \/ Deliver(l)
             \/ LockFails(l)
    BY <2>3, <2>4 DEF LoadToken, DeliverToEnded, DeliverFaults, Deliver, LockFails
  <2>5. CASE Commit(l)
    <3>. DEFINE m == listener[l].message
                c == count.crashes + count.cancelled
    <3>1. /\ UNCHANGED <<queue, count>> /\ listener[l].phase = "delivered"
          /\ moves' = moves \/ moves' = [moves EXCEPT ![m] = @ + 1]
      BY <2>5 DEF Commit
    <3>2. CASE moves' = moves
      BY <2>3, <3>1, <3>2
    <3>3. CASE moves' = [moves EXCEPT ![m] = @ + 1]
      <4>1. moves[m] <= c
        <5>1. ASSUME NEW k \in DOMAIN listener, listener[k].phase \in {"committed", "opened"}
              PROVE  listener[k].message # m
          BY <2>0, <3>1, <5>1, OneListener
        <5>. QED  BY <2>2, <5>1 DEF MoveInv
      <4>2. l \in DOMAIN listener' /\ listener'[l].phase = "committed" /\ listener'[l].message = m
        BY <2>5, CommitShape DEF OnlyListener, Keeps
      <4>3. moves \in [Message -> Nat] /\ c \in Nat /\ 1 + count.crashes + count.cancelled = 1 + c
        <5>1. moves \in [Message -> Nat]
          BY DEF TypeInv, TypeOK
        <5>. QED  BY <1>0, <5>1
      <4>4. moves'[m] <= 1 + c /\ \A n \in Message : n # m => moves'[n] = moves[n]
        BY <2>2, <3>3, <4>1, <4>3
      <4>5. ASSUME NEW n \in Message, n # m
            PROVE  \/ moves'[n] <= c
                   \/ /\ moves'[n] <= 1 + c
                      /\ \/ queue'[n] = "acknowledged"
                         \/ \E k \in DOMAIN listener' : /\ listener'[k].phase \in {"committed", "opened"}
                                                       /\ listener'[k].message = n
        <5>1. \/ moves[n] <= c
              \/ /\ moves[n] <= 1 + c
                 /\ \/ queue[n] = "acknowledged"
                    \/ \E k \in DOMAIN listener : /\ listener[k].phase \in {"committed", "opened"}
                                                 /\ listener[k].message = n
          BY <4>3 DEF MoveInv
        <5>. QED  BY <2>1, <3>1, <4>4, <4>5, <5>1
      <4>. HIDE DEF m
      <4>. QED  BY <3>1, <4>2, <4>3, <4>4, <4>5 DEF MoveInv
    <3>. QED  BY <3>1, <3>2, <3>3
  <2>6. CASE Rollback(l) \/ RecoverFails(l)
    <3>1. listener[l].phase \in {"loaded", "delivered", "recovering"} /\ UNCHANGED moves
          /\ queue' = [queue EXCEPT ![listener[l].message] = "kept"]
      BY <2>6 DEF Rollback, RecoverFails, GiveUp
    <3>2. \A n \in Message : queue[n] = "acknowledged" => queue'[n] = "acknowledged"
      BY <2>2, <3>1 DEF TypeInv, TypeOK
    <3>3. count'.crashes = count.crashes /\ count'.cancelled = count.cancelled
      BY <2>6 DEF Rollback, RecoverFails, TypeInv, TypeOK
    <3>. QED  BY <1>0, <2>1, <3>1, <3>2, <3>3, MoveKept
  <2>10. CASE CommitFails(l)
    <3>1. listener[l].phase = "delivered" /\ UNCHANGED <<moves, queue>>
      BY <2>10 DEF CommitFails
    <3>2. count'.crashes = count.crashes /\ count'.cancelled = count.cancelled
      BY <2>10 DEF CommitFails, TypeInv, TypeOK
    <3>. QED  BY <1>0, <2>1, <3>1, <3>2, MoveKept
  <2>7. CASE OpenListeners(l)
    <3>1. UNCHANGED <<moves, count, queue>>
      BY <2>7 DEF OpenListeners
    <3>2. listener[l].phase = "committed" =>
            /\ l \in DOMAIN listener' /\ listener'[l].phase = "opened"
            /\ listener'[l].message = listener[l].message
      BY <2>7, OpenListenersShape DEF Keeps
    <3>3. listener[l].phase # "opened"
      BY <2>7 DEF OpenListeners
    <3>. QED  BY <1>0, <2>1, <3>1, <3>2, <3>3, MoveKept
  <2>8. CASE OpenCancelled(l)
    <3>1. CASE listener[l].phase = "committed"
      <4>1. /\ UNCHANGED moves /\ queue' = [queue EXCEPT ![listener[l].message] = "kept"]
            /\ count' = [count EXCEPT !.cancelled = @ + 1]
        BY <2>8, <3>1 DEF OpenCancelled, GiveUp
      <4>2. \A n \in Message : queue[n] = "acknowledged" => queue'[n] = "acknowledged"
        BY <2>2, <4>1 DEF TypeInv, TypeOK
      <4>3. count'.crashes = count.crashes /\ count'.cancelled = count.cancelled + 1
        BY <4>1 DEF TypeInv, TypeOK
      <4>. QED  BY <1>0, <2>1, <4>1, <4>2, <4>3, MoveKept
    <3>2. CASE listener[l].phase # "committed"
      BY <2>3, <2>8, <3>2 DEF OpenCancelled
    <3>. QED  BY <3>1, <3>2
  <2>9. CASE Acknowledge(l) \/ Recover(l)
    <3>1. UNCHANGED <<moves, count>>
      BY <2>9 DEF Acknowledge, Recover
    <3>2. \A n \in Message : queue[n] = "acknowledged" => queue'[n] = "acknowledged"
      BY <2>9 DEF Acknowledge, Returned, Recover
    <3>3. Acknowledge(l) => queue'[listener[l].message] = "acknowledged"
      BY <2>2 DEF Acknowledge
    <3>4. Recover(l) => listener[l].phase = "recovering"
      BY DEF Recover
    <3>. QED  BY <1>0, <2>1, <2>9, <3>1, <3>2, <3>3, <3>4, MoveKept
  <2>. QED  BY <1>4, <2>4, <2>5, <2>6, <2>7, <2>8, <2>9, <2>10 DEF Run
<1>5. CASE CloseRequestListener
  <2>1. /\ DOMAIN listener' = DOMAIN listener
        /\ \A k \in DOMAIN listener : listener'[k] = listener[k] \/ Switches(k, "closed")
    BY <1>5, CloseRequestListenerShape
  <2>2. \A k \in DOMAIN listener : /\ k \in DOMAIN listener' /\ listener'[k].phase = listener[k].phase
                                  /\ listener'[k].message = listener[k].message
    BY <2>1 DEF Switches
  <2>3. /\ UNCHANGED <<moves, count>>
        /\ \A n \in Message : queue[n] = "acknowledged" => queue'[n] = "acknowledged"
    BY <1>5 DEF CloseRequestListener, Returned
  <2>. QED  BY <1>0, <2>2, <2>3, MoveKept
<1>6. CASE Crash
  <2>1. /\ UNCHANGED moves /\ queue' = Requeued /\ count' = [count EXCEPT !.crashes = @ + 1, !.lost = 0]
    BY <1>6 DEF Crash
  <2>2. \A n \in Message : queue[n] = "acknowledged" => queue'[n] = "acknowledged"
    BY <2>1 DEF Requeued
  <2>3. count'.crashes = count.crashes + 1 /\ count'.cancelled = count.cancelled
    BY <2>1 DEF TypeInv, TypeOK
  <2>. QED  BY <1>0, <2>1, <2>2, <2>3, MoveKept
<1>7. CASE EnableInboundMessageActivities
  <2>1. UNCHANGED <<moves, count, queue>> /\ listener = <<>>
    BY <1>7 DEF EnableInboundMessageActivities, TypeInv
  <2>2. DOMAIN listener = {}
    BY <2>1
  <2>. QED  BY <1>0, <2>1, <2>2, MoveKept
<1>8. CASE Conflict
  <2>1. /\ UNCHANGED <<moves, queue, listener>> /\ count' = [count EXCEPT !.conflicts = @ + 1]
    BY <1>8 DEF Conflict
  <2>2. count'.crashes = count.crashes /\ count'.cancelled = count.cancelled
    BY <2>1 DEF TypeInv, TypeOK
  <2>. QED  BY <1>0, <2>1, <2>2, MoveKept
<1>9. CASE UNCHANGED vars \/ TerminateToken \/ RemoveRequestListener \/ CommitTermination
  BY <1>1, <1>9 DEF TerminateToken, RemoveRequestListener, CommitTermination
<1>. QED  BY <1>2, <1>3, <1>4, <1>5, <1>6, <1>7, <1>8, <1>9 DEF Next, Terminate

-----------------------------------------------------------------------------
(* The owner of the reception *)

OwnersKept ==
  \A h \in DOMAIN listener : Owner(h) =>
    h \in DOMAIN listener' /\ Owner(h)' /\ listener'[h].action = listener[h].action

NoNewOwner ==
  \A h \in DOMAIN listener' : Owner(h)' => h \in DOMAIN listener /\ Owner(h)

(* A failed commit has created nothing: what it has created would be       *)
(* opened next to its own listener.                                        *)
NothingLeftOver ==
  \A l \in DOMAIN listener : listener[l].phase = "stale" => listener[l].made = 0

LEMMA UpdateOwners ==
  ASSUME NEW l \in DOMAIN listener, OnlyListener(l),
         listener'[l].action = listener[l].action, listener'[l].state = listener[l].state,
         listener[l].phase \notin {"committed", "opened"},
         listener'[l].phase \notin {"committed", "opened"}
  PROVE  OwnersKept /\ NoNewOwner
<1>1. /\ DOMAIN listener' = DOMAIN listener
      /\ \A k \in DOMAIN listener : k # l => listener'[k] = listener[k]
  BY DEF OnlyListener
<1>2. \A k \in DOMAIN listener : /\ listener'[k].action = listener[k].action
                                /\ listener'[k].state = listener[k].state
  BY <1>1
<1>3. ASSUME NEW h
      PROVE  (\E k \in DOMAIN listener : listener[k].phase = "committed" /\ listener[k].made = h)
             <=> (\E k \in DOMAIN listener : listener'[k].phase = "committed" /\ listener'[k].made = h)
  BY <1>1
<1>4. \A h \in DOMAIN listener : listener[h].phase \notin {"committed", "opened"}
                                <=> listener'[h].phase \notin {"committed", "opened"}
  BY <1>1
<1>5. \A h \in DOMAIN listener : Owner(h) <=> Owner(h)'
  BY <1>1, <1>2, <1>3, <1>4 DEF Owner
<1>. QED  BY <1>1, <1>2, <1>5 DEF OwnersKept, NoNewOwner

LEMMA SameOwners ==
  ASSUME UNCHANGED listener
  PROVE  OwnersKept /\ NoNewOwner
  BY DEF OwnersKept, NoNewOwner, Owner

LEMMA DeliverOwners ==
  ASSUME TypeInv, NEW l \in DOMAIN listener, Deliver(l)
  PROVE  OwnersKept /\ NoNewOwner
<1>1. CASE NextOf(l) <= Len(Waits)
  <2>. DEFINE n == Len(listener) + 1
  <2>1. /\ DOMAIN listener' = DOMAIN listener \cup {n} /\ n \notin DOMAIN listener
        /\ listener'[n] = Idle(Waits[NextOf(l)], "new")
        /\ listener'[l].action = listener[l].action /\ listener'[l].state = listener[l].state
        /\ listener'[l].phase = "delivered"
        /\ \A k \in DOMAIN listener : k # l => listener'[k] = listener[k]
    BY <1>1, DeliverShape
  <2>2. listener[l].phase = "loaded"
    BY DEF Deliver
  <2>3. \A k \in DOMAIN listener : listener[k].made # n
    <3>1. \A k \in DOMAIN listener : listener[k].made \in 0 .. Len(listener) /\ Len(listener) \in Nat
      BY FieldTypes
    <3>. QED  BY <3>1
  <2>4. listener'[n].state = "new" /\ listener'[n].phase = "idle"
    BY <2>1 DEF Idle
  <2>. HIDE DEF n
  <2>5. \A h : (\E k \in DOMAIN listener : listener[k].phase = "committed" /\ listener[k].made = h)
               <=> (\E k \in DOMAIN listener' : listener'[k].phase = "committed" /\ listener'[k].made = h)
    BY <2>1, <2>2, <2>4
  <2>6. \A h : h = n => ~ Owner(h)'
    <3>. SUFFICES ASSUME NEW h, h = n
                  PROVE  ~ Owner(h)'
      OBVIOUS
    <3>1. listener'[h].state = "new"
      BY <2>4
    <3>2. ~ \E k \in DOMAIN listener' : listener'[k].phase = "committed" /\ listener'[k].made = h
      BY <2>3, <2>5
    <3>. QED  BY <3>1, <3>2 DEF Owner
  <2>7. \A h \in DOMAIN listener : /\ listener'[h].action = listener[h].action
                                  /\ Owner(h) <=> Owner(h)'
    BY <2>1, <2>2, <2>5 DEF Owner
  <2>. QED  BY <2>1, <2>6, <2>7 DEF OwnersKept, NoNewOwner
<1>2. CASE ~ NextOf(l) <= Len(Waits)
  <2>1. /\ listener' \in Seq(Listener) /\ Len(listener') = Len(listener)
        /\ DOMAIN listener' = DOMAIN listener
        /\ listener'[l].action = listener[l].action /\ listener'[l].state = listener[l].state
        /\ listener'[l].phase = "delivered"
        /\ \A k \in DOMAIN listener : k # l => listener'[k] = listener[k]
    BY <1>2, DeliverShape
  <2>2. listener[l].phase = "loaded"
    BY DEF Deliver
  <2>. QED  BY <2>1, <2>2, UpdateOwners DEF OnlyListener
<1>. QED  BY <1>1, <1>2

LEMMA RollbackOwners ==
  ASSUME TypeInv, MadeInv, NEW l \in DOMAIN listener, Rollback(l)
  PROVE  OwnersKept /\ NoNewOwner
<1>1. /\ DOMAIN listener' = DOMAIN listener
      /\ Rests(l) /\ listener'[l].state = listener[l].state
      /\ \A k \in DOMAIN listener : k # l =>
           IF k = listener[l].made THEN Switches(k, "closed") ELSE listener'[k] = listener[k]
  BY RollbackShape
<1>2. listener[l].phase \in {"loaded", "delivered"}
  BY DEF Rollback
<1>3. \A k \in DOMAIN listener :
        /\ listener'[k].action = listener[k].action
        /\ k # l => listener'[k].phase = listener[k].phase /\ listener'[k].made = listener[k].made
        /\ k # listener[l].made => listener'[k].state = listener[k].state
  BY <1>1 DEF Rests, Switches
<1>4. listener'[l].phase = "idle"
  BY <1>1 DEF Rests
<1>5. \A h : (\E k \in DOMAIN listener : listener[k].phase = "committed" /\ listener[k].made = h)
             <=> (\E k \in DOMAIN listener' : listener'[k].phase = "committed" /\ listener'[k].made = h)
  BY <1>1, <1>2, <1>3, <1>4
<1>6. ASSUME NEW h \in DOMAIN listener, h = listener[l].made
      PROVE  ~ Owner(h) /\ ~ Owner(h)'
  <2>0. h # 0 /\ h # l
    <3>1. l \in 1 .. Len(listener) /\ h \in 1 .. Len(listener) /\ Len(listener) \in Nat
      BY FieldTypes
    <3>2. listener[l].made # 0 => l < listener[l].made
      BY DEF MadeInv, MadeOK
    <3>. QED  BY <1>6, <3>1, <3>2
  <2>1. listener'[h].state = "closed"
    BY <1>1, <1>6, <2>0 DEF Switches
  <2>2. listener[h].state \in {"new", "closed"}
    BY <1>2, <1>6, <2>0 DEF MadeInv, MadeOK
  <2>3. ASSUME NEW k \in DOMAIN listener, listener[k].phase = "committed", listener[k].made = h
        PROVE  FALSE
    <3>1. k = l
      BY <1>6, <2>0, <2>3 DEF MadeInv, MadeOK
    <3>. QED  BY <1>2, <2>3, <3>1
  <2>. QED  BY <2>1, <2>2, <2>3 DEF Owner
<1>7. \A h \in DOMAIN listener : h # listener[l].made => (Owner(h) <=> Owner(h)')
  BY <1>1, <1>2, <1>3, <1>4, <1>5 DEF Owner
<1>. QED  BY <1>1, <1>3, <1>6, <1>7 DEF OwnersKept, NoNewOwner

LEMMA OpenListenersOwners ==
  ASSUME TypeInv, MadeInv, NEW l \in DOMAIN listener, OpenListeners(l)
  PROVE  OwnersKept /\ (NothingLeftOver => NoNewOwner)
<1>1. /\ DOMAIN listener' = DOMAIN listener
      /\ Keeps(l)
      /\ listener'[l].phase = IF listener[l].phase = "committed" THEN "opened" ELSE "recovering"
      /\ \A k \in DOMAIN listener : k # l =>
           IF k = listener[l].made THEN Switches(k, "open") ELSE listener'[k] = listener[k]
  BY OpenListenersShape
<1>2. /\ listener[l].phase \in {"committed", "stale"}
      /\ listener[l].made # 0 => listener[listener[l].made].state = "new"
  BY DEF OpenListeners
<1>3. \A k \in DOMAIN listener :
        /\ listener'[k].action = listener[k].action /\ listener'[k].made = listener[k].made
        /\ k # l => listener'[k].phase = listener[k].phase
        /\ k # listener[l].made => listener'[k].state = listener[k].state
  BY <1>1 DEF Keeps, Switches
<1>4. listener[l].made # 0 => listener[l].made # l
  <2>1. l \in 1 .. Len(listener) /\ listener[l].made \in 0 .. Len(listener) /\ Len(listener) \in Nat
    BY FieldTypes
  <2>2. listener[l].made # 0 => l < listener[l].made
    BY DEF MadeInv, MadeOK
  <2>. QED  BY <2>1, <2>2
<1>5. listener[l].state = "open"
  BY <1>2 DEF MadeInv, MadeOK
<1>6. 0 \notin DOMAIN listener
  BY FieldTypes
<1>7. ASSUME NEW h \in DOMAIN listener, h # listener[l].made, h # l
      PROVE  Owner(h) <=> Owner(h)'
  <2>1. (\E k \in DOMAIN listener : listener[k].phase = "committed" /\ listener[k].made = h)
        <=> (\E k \in DOMAIN listener : listener'[k].phase = "committed" /\ listener'[k].made = h)
    BY <1>1, <1>3, <1>7
  <2>. QED  BY <1>1, <1>3, <1>7, <2>1 DEF Owner
<1>8. Owner(l) <=> Owner(l)'
  <2>1. l # listener[l].made
    BY <1>4, <1>6
  <2>. QED  BY <1>1, <1>2, <1>3, <1>5, <2>1 DEF Owner
<1>9. ASSUME NEW h \in DOMAIN listener, h = listener[l].made
      PROVE  Owner(h)' /\ (NothingLeftOver => Owner(h))
  <2>1. h # 0 /\ h # l /\ listener[h].state = "new"
    BY <1>2, <1>4, <1>6, <1>9
  <2>2. listener'[h].state = "open" /\ listener'[h].phase = listener[h].phase
    BY <1>1, <1>9, <2>1 DEF Switches
  <2>3. listener[h].phase = "idle"
    BY <2>1 DEF MadeInv, MadeOK
  <2>4. NothingLeftOver => listener[l].phase = "committed"
    BY <1>2, <1>9, <2>1 DEF NothingLeftOver
  <2>. QED  BY <1>9, <2>1, <2>2, <2>3, <2>4 DEF Owner
<1>. QED  BY <1>1, <1>3, <1>7, <1>8, <1>9 DEF OwnersKept, NoNewOwner

(* While nobody terminates the token, only a commit and the start of the   *)
(* server change the owner of its reception.                               *)
LEMMA NextOwners ==
  ASSUME TypeInv, MadeInv, SnapshotInv, [Next]_vars, Live',
         ~ EnableInboundMessageActivities, ~ \E l \in DOMAIN listener : Commit(l)
  PROVE  Live /\ pos' = pos /\ OwnersKept /\ (NothingLeftOver => NoNewOwner)
<1>1. CASE UNCHANGED vars
  BY <1>1, SameOwners DEF Live
<1>2. CASE Conflict \/ \E m \in Message : Send(m)
  <2>1. UNCHANGED <<listener, up, terminator, ended, pos>>
    BY <1>2 DEF Conflict, Send
  <2>. QED  BY <2>1, SameOwners DEF Live
<1>3. ASSUME NEW m \in Message, NEW l \in DOMAIN listener, OnMessage(l, m)
      PROVE  Live /\ pos' = pos /\ OwnersKept /\ NoNewOwner
  <2>1. listener[l].phase = "idle" /\ UNCHANGED <<up, terminator, database>>
    BY <1>3 DEF OnMessage, Deliverable
  <2>. QED  BY <1>3, <2>1, OnMessageShape, UpdateOwners DEF Live
<1>4. ASSUME NEW l \in DOMAIN listener, Run(l) \/ Rollback(l) \/ RecoverFails(l)
      PROVE  Live /\ pos' = pos /\ OwnersKept /\ (NothingLeftOver => NoNewOwner)
  <2>0. Live /\ pos' = pos
    <3>1. UNCHANGED <<pos, ended, up, terminator>>
      <4>1. ~ Commit(l)
        OBVIOUS
      <4>2. CASE Rollback(l) \/ RecoverFails(l) \/ Deliver(l)
        BY <4>2 DEF Rollback, RecoverFails, Deliver
      <4>3. CASE LoadToken(l) \/ DeliverToEnded(l) \/ DeliverFaults(l)
        BY <4>3 DEF LoadToken, DeliverToEnded, DeliverFaults
      <4>4. CASE CommitFails(l) \/ LockFails(l)
        BY <4>4 DEF CommitFails, LockFails
      <4>5. CASE OpenListeners(l) \/ OpenCancelled(l) \/ Acknowledge(l) \/ Recover(l)
        BY <4>5 DEF OpenListeners, OpenCancelled, Acknowledge, Recover
      <4>. QED  BY <1>4, <4>1, <4>2, <4>3, <4>4, <4>5 DEF Run
    <3>. QED  BY <3>1 DEF Live
  <2>1. CASE LoadToken(l)
    BY <2>0, <2>1, LoadTokenShape, UpdateOwners DEF LoadToken, Keeps
  <2>2. CASE DeliverToEnded(l)
    BY <2>0, <2>2, DeliverToEndedShape, UpdateOwners DEF DeliverToEnded, Keeps
  <2>3. CASE DeliverFaults(l)
    BY <2>0, <2>3, DeliverFaultsShape, UpdateOwners DEF DeliverFaults, Keeps
  <2>4. CASE Deliver(l)
    BY <2>0, <2>4, DeliverOwners
  <2>5. CASE CommitFails(l)
    BY <2>0, <2>5, CommitFailsShape, UpdateOwners DEF CommitFails, Keeps
  <2>6. CASE LockFails(l)
    BY <2>0, <2>6, LockFailsShape, UpdateOwners DEF LockFails, Keeps
  <2>7. CASE OpenListeners(l)
    BY <2>0, <2>7, OpenListenersOwners
  <2>8. CASE OpenCancelled(l)
    <3>1. /\ listener[l].phase \in {"committed", "stale"} /\ listener[l].made # 0
          /\ listener[listener[l].made].state = "closed"
      BY <2>8 DEF OpenCancelled
    <3>2. listener[listener[l].made].state = "new"
      BY <2>0, <3>1 DEF MadeInv, MadeOK, Live
    <3>. QED  BY <3>1, <3>2
  <2>9. CASE Acknowledge(l)
    <3>1. /\ OnlyListener(l) /\ listener'[l].action = listener[l].action
          /\ listener'[l].state = "closed" /\ listener'[l].phase = "idle"
      BY <2>9, AcknowledgeShape DEF Rests
    <3>2. listener[l].phase = "opened" /\ listener[l].state = "open"
      BY <2>9 DEF Acknowledge, MadeInv, MadeOK
    <3>3. /\ DOMAIN listener' = DOMAIN listener
          /\ \A k \in DOMAIN listener : k # l => listener'[k] = listener[k]
      BY <3>1 DEF OnlyListener
    <3>4. \A h : (\E k \in DOMAIN listener : listener[k].phase = "committed" /\ listener[k].made = h)
                 <=> (\E k \in DOMAIN listener : listener'[k].phase = "committed" /\ listener'[k].made = h)
      BY <3>1, <3>2, <3>3
    <3>5. \A h \in DOMAIN listener : Owner(h) <=> Owner(h)'
      BY <3>1, <3>2, <3>3, <3>4 DEF Owner
    <3>6. \A k \in DOMAIN listener : listener'[k].action = listener[k].action
      BY <3>1, <3>3
    <3>. QED  BY <2>0, <3>3, <3>5, <3>6 DEF OwnersKept, NoNewOwner
  <2>10. CASE Recover(l) \/ RecoverFails(l)
    <3>1. listener[l].phase = "recovering"
      BY <2>10 DEF Recover, RecoverFails
    <3>2. /\ OnlyListener(l) /\ listener'[l].action = listener[l].action
          /\ listener'[l].state = listener[l].state /\ listener'[l].phase = "idle"
      BY <2>10, RecoverShape DEF Rests
    <3>. QED  BY <2>0, <3>1, <3>2, UpdateOwners
  <2>11. CASE Rollback(l)
    BY <2>0, <2>11, RollbackOwners
  <2>. QED  BY <1>4, <2>1, <2>2, <2>3, <2>4, <2>5, <2>6, <2>7, <2>8, <2>9, <2>10, <2>11 DEF Run
<1>5. ~ Crash
  BY DEF Crash, Live
<1>6. ~ TerminateToken
  <2>1. TerminateToken => terminator'.phase \in {"done", "loaded"}
    BY DEF TerminateToken, NoTermination
  <2>. QED  BY <2>1 DEF Live
<1>7. ~ Terminate
  <2>1. RemoveRequestListener => terminator'.phase = "removed"
    BY DEF RemoveRequestListener, TypeInv, TypeOK
  <2>2. CloseRequestListener => terminator'.phase = "closed"
    BY DEF CloseRequestListener, TypeInv, TypeOK
  <2>3. CommitTermination => terminator'.phase \in {"done", "stale"}
    BY DEF CommitTermination, NoTermination
  <2>. QED  BY <2>1, <2>2, <2>3 DEF Terminate, Live
<1>. QED  BY <1>1, <1>2, <1>3, <1>4, <1>5, <1>6, <1>7 DEF Next

(* A commit hands the reception on to the listener that it has created,    *)
(* for the receive in which the token is now.                              *)
LEMMA CommitOwners ==
  ASSUME TypeInv, MadeInv, SnapshotInv, NEW l \in DOMAIN listener, Commit(l), Live'
  PROVE  /\ Live /\ listener[l].dirty /\ ~ listener[l].ended /\ pos' = listener[l].pos
         /\ listener[l].made \in DOMAIN listener /\ DOMAIN listener' = DOMAIN listener
         /\ \A h \in DOMAIN listener : h = listener[l].made =>
              Owner(h)' /\ listener'[h].action = Waits[pos']
         /\ \A h \in DOMAIN listener : Owner(h)' => h = listener[l].made \/ (Owner(h) /\ h # l)
<1>1. /\ Live /\ listener[l].dirty /\ ~ listener[l].ended /\ pos' = listener[l].pos
      /\ listener[l].phase = "delivered"
  BY CommitFacts DEF Commit, Live
<1>2. /\ listener[l].made \in DOMAIN listener
      /\ listener[l].state = "open"
      /\ listener[listener[l].made].state = "new"
      /\ listener[listener[l].made].action = Waits[listener[l].pos]
  <2>1. /\ listener[l].state = "open"
        /\ listener[l].made # 0
        /\ listener[listener[l].made].state = "new"
        /\ listener[listener[l].made].action = Waits[listener[l].pos]
    BY <1>1 DEF MadeInv, MadeOK, Live
  <2>2. listener[l].made \in 0 .. Len(listener) /\ Len(listener) \in Nat /\ listener \in Seq(Listener)
    BY FieldTypes DEF TypeInv, TypeOK
  <2>3. DOMAIN listener = 1 .. Len(listener)
    BY <2>2
  <2>. QED  BY <2>1, <2>2, <2>3
<1>3. /\ DOMAIN listener' = DOMAIN listener /\ listener'[l].phase = "committed"
      /\ listener'[l].made = listener[l].made
      /\ listener'[l].state = listener[l].state /\ listener'[l].action = listener[l].action
      /\ \A k \in DOMAIN listener : k # l => listener'[k] = listener[k]
  BY CommitShape DEF OnlyListener, Keeps
<1>4. ASSUME NEW h \in DOMAIN listener, h = listener[l].made
      PROVE  Owner(h)' /\ listener'[h].action = Waits[pos']
  <2>1. h # l /\ listener'[h] = listener[h]
    BY <1>2, <1>3, <1>4
  <2>. QED  BY <1>1, <1>2, <1>3, <1>4, <2>1 DEF Owner
<1>5. ASSUME NEW h \in DOMAIN listener, Owner(h)', h # listener[l].made
      PROVE  Owner(h) /\ h # l
  <2>1. h # l
    BY <1>2, <1>3, <1>5 DEF Owner
  <2>2. listener'[h] = listener[h]
    BY <1>3, <2>1
  <2>3. (\E k \in DOMAIN listener : listener'[k].phase = "committed" /\ listener'[k].made = h) =>
          \E k \in DOMAIN listener : listener[k].phase = "committed" /\ listener[k].made = h
    BY <1>3, <1>5
  <2>. QED  BY <1>3, <1>5, <2>1, <2>2, <2>3 DEF Owner
<1>. QED  BY <1>1, <1>2, <1>3, <1>4, <1>5

(* The server starts with one listener, for the receive of the token. *)
LEMMA StartOwners ==
  ASSUME EnableInboundMessageActivities, Live'
  PROVE  /\ DOMAIN listener' = {1} /\ listener'[1] = Idle(Waits[pos], "open")
         /\ Owner(1)' /\ listener'[1].action = Waits[pos'] /\ pos' = pos
<1>1. listener' = <<Idle(Waits[pos], "open")>> /\ pos' = pos
  BY DEF EnableInboundMessageActivities, Live
<1>2. DOMAIN listener' = {1} /\ listener'[1] = Idle(Waits[pos], "open")
  BY <1>1
<1>. QED  BY <1>1, <1>2 DEF Owner, Idle

-----------------------------------------------------------------------------
(* A waiting token can be reached *)

LEMMA InitReach == Init => ReachInv
<1>. SUFFICES ASSUME Init PROVE ReachInv
  OBVIOUS
<1>1. DOMAIN listener = {1} /\ listener[1] = Idle(Waits[1], "open") /\ pos = 1
  BY DEF Init
<1>2. Owner(1) /\ listener[1].action = Waits[pos]
  BY <1>1 DEF Owner, Idle
<1>. QED  BY <1>1, <1>2 DEF ReachInv

LEMMA NextReach == TypeInv /\ MadeInv /\ SnapshotInv /\ ReachInv /\ [Next]_vars => ReachInv'
<1>. SUFFICES ASSUME TypeInv, MadeInv, SnapshotInv, ReachInv, [Next]_vars, Live'
              PROVE  \E h \in DOMAIN listener' : Owner(h)' /\ listener'[h].action = Waits[pos']
  BY DEF ReachInv
<1>1. CASE EnableInboundMessageActivities
  BY <1>1, StartOwners
<1>2. CASE \E l \in DOMAIN listener : Commit(l)
  <2>1. PICK l \in DOMAIN listener : Commit(l)
    BY <1>2
  <2>2. /\ listener[l].made \in DOMAIN listener /\ DOMAIN listener' = DOMAIN listener
        /\ \A h \in DOMAIN listener : h = listener[l].made =>
             Owner(h)' /\ listener'[h].action = Waits[pos']
    BY <2>1, CommitOwners
  <2>. QED  BY <2>2
<1>3. CASE ~ EnableInboundMessageActivities /\ ~ \E l \in DOMAIN listener : Commit(l)
  <2>1. Live /\ pos' = pos /\ OwnersKept
    BY <1>3, NextOwners
  <2>2. PICK h \in DOMAIN listener : Owner(h) /\ listener[h].action = Waits[pos]
    BY <2>1 DEF ReachInv
  <2>. QED  BY <2>1, <2>2 DEF OwnersKept
<1>. QED  BY <1>1, <1>2, <1>3

LEMMA InductiveInvariant == Spec => []IndInv
<1>1. Init => IndInv
  BY InitTypes, InitMade, InitSnapshot, InitQueue, InitMove, InitReach DEF IndInv
<1>2. IndInv /\ [Next]_vars => IndInv'
  <2>. SUFFICES ASSUME IndInv, [Next]_vars PROVE IndInv'
    OBVIOUS
  <2>1. TypeInv /\ MadeInv /\ SnapshotInv /\ QueueInv /\ MoveInv /\ ReachInv
    BY DEF IndInv
  <2>2. TypeInv'
    BY <2>1, NextTypes
  <2>. QED  BY <2>1, <2>2, NextMade, NextSnapshot, NextQueue, NextMove, NextReach DEF IndInv
<1>. QED  BY <1>1, <1>2, PTL DEF Spec

(* The state keeps its types through collisions, failures, terminations    *)
(* and crashes: every listener that a map, a message or the termination    *)
(* names exists (IntegrationControl, RequestListener).                     *)
THEOREM TypesOfReception == Spec => []TypeOK
<1>1. IndInv => TypeOK
  BY DEF IndInv, TypeInv
<1>. QED  BY <1>1, InductiveInvariant, PTL

(* While the server runs, the token that waits in a receive has an open    *)
(* listener, or a delivery or a termination is under way (RequestListener. *)
(* onMessage, JmsIntegrationService.close, IntegrationControl.             *)
(* enableInboundMessageActivities), for every line of receives, loops      *)
(* included, and every number of requests, collisions and crashes.         *)
THEOREM WaitingTokensAreReachable == Spec => []WaitingTokenIsReachable
<1>1. IndInv => WaitingTokenIsReachable
  <2>. SUFFICES ASSUME IndInv, up, ~ ended, terminator.phase \in {"idle", "done"}
                PROVE  \/ \E l \in DOMAIN listener : /\ listener[l].action = Waits[pos]
                                                    /\ listener[l].state = "open"
                       \/ \E l \in DOMAIN listener : listener[l].phase # "idle"
    BY DEF WaitingTokenIsReachable
  <2>1. Live
    BY DEF IndInv, SnapshotInv, Live
  <2>2. PICK h \in DOMAIN listener : Owner(h) /\ listener[h].action = Waits[pos]
    BY <2>1 DEF IndInv, ReachInv
  <2>. QED  BY <2>2 DEF Owner
<1>. QED  BY <1>1, InductiveInvariant, PTL

(* A request moves the token once, and once more at most for each crash    *)
(* and for each cancelled listener (RequestListener.onMessage commits      *)
(* before it acknowledges).                                                *)
THEOREM RequestsMoveTheTokenOnce == Spec => []RequestsMoveOnce
<1>1. IndInv => RequestsMoveOnce
  <2>. SUFFICES ASSUME IndInv, NEW m \in Message
                PROVE  moves[m] <= 1 + count.crashes + count.cancelled
    BY DEF RequestsMoveOnce
  <2>1. moves[m] \in Nat /\ count.crashes \in Nat /\ count.cancelled \in Nat
    BY DEF IndInv, TypeInv, TypeOK
  <2>2. moves[m] <= count.crashes + count.cancelled \/ moves[m] <= 1 + count.crashes + count.cancelled
    BY DEF IndInv, MoveInv
  <2>. QED  BY <2>1, <2>2
<1>. QED  BY <1>1, InductiveInvariant, PTL
====
