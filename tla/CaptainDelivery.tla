-------------------------- MODULE CaptainDelivery --------------------------
(***************************************************************************)
(* A captain confirms the outcome of a delivery.  The screen is            *)
(* captain-deliveries.tsx of src/apps/app-captain: it stores a completion  *)
(* attempt before sending it, shows it again after a restart, and lets     *)
(* go of it only for a result the server confirms or a readback that shows *)
(* it was not executed.  The server completes an assignment under its      *)
(* version and an idempotency key; an operator may take a failed delivery  *)
(* up again (captain_assignment_mutations.go).                             *)
(***************************************************************************)
EXTENDS Naturals, FiniteSets

CONSTANTS Copy,       \* bound: requests on their way or at the server
          MaxAttempt, \* bound: attempts the captain confirms
          MaxVersion, \* bound: versions of the assignment
          MaxFaults   \* bound: crashes, sign-outs, lost and refused messages

ASSUME DeliveryAssumption ==
  /\ IsFiniteSet(Copy) /\ MaxAttempt \in Nat \ {0}
  /\ MaxVersion \in Nat \ {0} /\ MaxFaults \in Nat

VARIABLES
  signedIn,   \* the session of the phone is the captain's
  screen,     \* the mounted screen
  load,       \* its latest readback, the others are outdated by the sequence
  op,         \* op[a]: a mutation inside an await
  stored,     \* the attempt in the secure store, 0 if none
  attempt,    \* attempt[k]: the result and the version it was confirmed for
  net,        \* net[c]: a copy of a request
  assignment, \* the server's row: state, version
  done,       \* the attempts with a row of captain_operation_idempotency
  settled,    \* history: the attempts whose confirmation reached the phone
  crossed,    \* history: a screen was opened over a running mutation, or an
              \* attempt was given up while a copy of it still ran
  faults

phone == <<signedIn, screen, load, op, stored, attempt>>
server == <<assignment, done>>
deliveryVars == <<signedIn, screen, load, op, stored, attempt, net, assignment,
                  done, settled, crossed, faults>>

----------------------------------------------------------------------------
Activity == {"cur", "old"}
Attempt == 1..MaxAttempt
Result == {"delivered", "delivery_failed"}
State == {"assigned", "in_custody"} \union Result
Idle == [kind |-> "none", pc |-> "idle", key |-> 0, result |-> "none", ver |-> 0, state |-> "none"]
Free == [st |-> "free", key |-> 0, to |-> "none", state |-> "none", ver |-> 0]
NoLoad == [pc |-> "none", quiet |-> FALSE]

(* The fields of a screen: open; loaded, its data is the current actor's;  *)
(* ready, the secure store was read; pending and rejected, the attempt it  *)
(* shows; state and ver, the listed assignment; task, the state its        *)
(* delivery task gave.                                                     *)
NoScreen == [open |-> FALSE, loaded |-> FALSE, ready |-> FALSE, pending |-> 0,
             rejected |-> FALSE, state |-> "none", ver |-> 0, task |-> "none"]

Busy == op["cur"] # Idle
Loading == load.pc # "none" /\ ~load.quiet
Used == {k \in Attempt : attempt[k].ver # 0}
Running(k) == \E c \in Copy : net[c].key = k /\ net[c].st \in {"sent", "committed"}

MaybeState == State \union {"none"}
Screens == [open : BOOLEAN, loaded : BOOLEAN, ready : BOOLEAN, pending : 0..MaxAttempt,
            rejected : BOOLEAN, state : MaybeState, ver : 0..MaxVersion, task : MaybeState]
Loads == [pc : {"none", "token", "list", "task"}, quiet : BOOLEAN]
Mutations == [kind : {"none", "pickup", "complete", "retry", "replace"},
              pc : {"idle", "token", "kept", "wait", "read", "seen"},
              key : 0..MaxAttempt, result : Result \union {"none"},
              ver : 0..MaxVersion, state : MaybeState]
Attempts == [result : Result \union {"none"}, ver : 0..MaxVersion]
Requests == [st : {"free", "sent", "committed", "answered", "refused"},
             key : 0..MaxAttempt, to : Activity \union {"none"},
             state : MaybeState, ver : 0..MaxVersion]
Assignments == [state : State, ver : 1..MaxVersion]

TypeOK ==
  /\ signedIn \in BOOLEAN /\ screen \in Screens /\ load \in Loads
  /\ op \in [Activity -> Mutations]
  /\ stored \in 0..MaxAttempt /\ attempt \in [Attempt -> Attempts]
  /\ net \in [Copy -> Requests] /\ assignment \in Assignments
  /\ done \subseteq Attempt /\ settled \subseteq Attempt
  /\ crossed \in BOOLEAN /\ faults \in 0..MaxFaults

DeliveryInit ==
  /\ signedIn = TRUE /\ screen = NoScreen /\ load = NoLoad
  /\ op = [a \in Activity |-> Idle]
  /\ stored = 0
  /\ attempt = [k \in Attempt |-> [result |-> "none", ver |-> 0]]
  /\ net = [c \in Copy |-> Free]
  /\ assignment = [state |-> "assigned", ver |-> 1]
  /\ done = {} /\ settled = {} /\ crossed = FALSE /\ faults = 0

Fault == faults < MaxFaults /\ faults' = faults + 1
NoFault == UNCHANGED faults

----------------------------------------------------------------------------
(* The screen comes and goes; a mutation it started runs on without it.    *)

Reload(s) ==
  /\ screen' = [NoScreen EXCEPT !.open = s.open, !.rejected = s.rejected]
  /\ load' = [pc |-> "token", quiet |-> FALSE]

Open ==
  /\ signedIn /\ ~screen.open
  /\ Reload([NoScreen EXCEPT !.open = TRUE])
  /\ UNCHANGED <<signedIn, op, stored, attempt, net, server, settled, crossed, faults>>

Unmounted ==
  /\ Busy => op["old"] = Idle
  /\ screen' = NoScreen /\ load' = NoLoad
  /\ op' = IF Busy THEN [op EXCEPT !["old"] = op["cur"], !["cur"] = Idle] ELSE op
  /\ net' = [c \in Copy |-> IF net[c].to = "cur" THEN [net[c] EXCEPT !.to = "old"] ELSE net[c]]

Leave ==
  /\ screen.open /\ Fault
  /\ Unmounted
  /\ UNCHANGED <<signedIn, stored, attempt, server, settled, crossed>>

(* CaptainProtectedScreen shows the screen to a signed-in captain only.    *)
SignOut ==
  /\ signedIn /\ Fault
  /\ signedIn' = FALSE
  /\ Unmounted
  /\ UNCHANGED <<stored, attempt, server, settled, crossed>>

SignIn ==
  /\ ~signedIn
  /\ signedIn' = TRUE
  /\ UNCHANGED <<screen, load, op, stored, attempt, net, server, settled, crossed, faults>>

Kill ==
  /\ Fault
  /\ screen' = NoScreen /\ load' = NoLoad
  /\ op' = [a \in Activity |-> Idle]
  /\ net' = [c \in Copy |-> IF net[c].st \in {"answered", "refused"} THEN Free
                            ELSE [net[c] EXCEPT !.to = "none"]]
  /\ UNCHANGED <<signedIn, stored, attempt, server, settled, crossed>>

----------------------------------------------------------------------------
(* load: the stored attempt first, then the assignments, then their tasks. *)
(* A quiet readback gives way to a mutation.                               *)

Current == signedIn /\ (load.quiet => ~Busy)

Poll ==
  /\ screen.open /\ signedIn /\ load.pc = "none" /\ ~Busy
  /\ load' = [pc |-> "token", quiet |-> TRUE]
  /\ UNCHANGED <<signedIn, screen, op, stored, attempt, net, server, settled, crossed, faults>>

(* Pressed by a captain whose readback failed.                             *)
Reread ==
  /\ screen.open /\ signedIn /\ ~screen.loaded /\ load.pc = "none"
  /\ Reload(screen)
  /\ UNCHANGED <<signedIn, op, stored, attempt, net, server, settled, crossed, faults>>

LoadStored ==
  /\ load.pc = "token" /\ Current
  /\ screen' = [screen EXCEPT !.loaded = TRUE, !.ready = TRUE,
                              !.pending = stored, !.rejected = FALSE]
  /\ load' = [load EXCEPT !.pc = "list"]
  /\ crossed' = (crossed \/ op["old"] # Idle)
  /\ UNCHANGED <<signedIn, op, stored, attempt, net, server, settled, faults>>

LoadList ==
  /\ load.pc = "list" /\ Current
  /\ screen' = [screen EXCEPT !.state = assignment.state, !.ver = assignment.ver]
  /\ load' = [load EXCEPT !.pc = "task"]
  /\ UNCHANGED <<signedIn, op, stored, attempt, net, server, settled, crossed, faults>>

LoadTask ==
  /\ load.pc = "task" /\ Current
  /\ screen' = [screen EXCEPT !.task = assignment.state]
  /\ load' = NoLoad
  /\ UNCHANGED <<signedIn, op, stored, attempt, net, server, settled, crossed, faults>>

LoadFails ==
  /\ load.pc # "none"
  /\ \/ Current /\ Fault
        /\ screen' = [screen EXCEPT !.state = "none", !.ver = 0, !.task = "none"]
     \/ ~Current /\ UNCHANGED <<screen, faults>>
  /\ load' = NoLoad
  /\ UNCHANGED <<signedIn, op, stored, attempt, net, server, settled, crossed>>

----------------------------------------------------------------------------
(* What the captain can press.  mutationInFlight belongs to one mounted    *)
(* screen: it does not see a mutation an earlier screen left behind.       *)

MayConfirmAgain == screen.ready   \* mutant: forgets the attempt it shows
MayConfirm == screen.ready /\ screen.pending = 0

CanAct(state) ==
  /\ screen.loaded /\ signedIn /\ ~Busy /\ ~Loading /\ MayConfirm
  /\ screen.state = state /\ screen.task = state

Begin(o) ==
  /\ op' = [op EXCEPT !["cur"] = o]
  /\ UNCHANGED <<signedIn, load, stored, attempt, net, server, settled, crossed, faults>>

pickup ==
  /\ CanAct("assigned")
  /\ Begin([Idle EXCEPT !.kind = "pickup", !.pc = "kept"])
  /\ UNCHANGED screen

complete(r) ==
  /\ CanAct("in_custody")
  /\ Begin([Idle EXCEPT !.kind = "complete", !.pc = "token", !.result = r, !.ver = screen.ver])
  /\ UNCHANGED screen

CanResume == screen.loaded /\ signedIn /\ screen.pending # 0 /\ ~Busy

retryPendingCompletion ==
  /\ CanResume /\ screen.ready
  /\ Begin([Idle EXCEPT !.kind = "retry", !.pc = "kept", !.key = screen.pending])
  /\ screen' = [screen EXCEPT !.rejected = FALSE]

replaceRejectedCompletion ==
  /\ CanResume /\ screen.rejected
  /\ Begin([Idle EXCEPT !.kind = "replace", !.pc = "read", !.key = screen.pending])
  /\ UNCHANGED screen

----------------------------------------------------------------------------
(* A mutation after each of its awaits. *)

End(a) == op' = [op EXCEPT ![a] = Idle]
Rejected(a, b) == screen' = IF a = "cur" THEN [screen EXCEPT !.rejected = b] ELSE screen

(* The token is there: the attempt gets its keys and is stored.            *)
Keep(a) ==
  /\ op[a].pc = "token"
  /\ \/ /\ signedIn /\ NoFault
        /\ \E k \in Attempt \ Used :
             /\ \A j \in Attempt \ Used : k <= j
             /\ attempt' = [attempt EXCEPT ![k] = [result |-> op[a].result, ver |-> op[a].ver]]
             /\ stored' = k
             /\ op' = [op EXCEPT ![a].pc = "kept", ![a].key = k]
        /\ UNCHANGED screen
     \/ /\ signedIn /\ Fault /\ End(a) /\ Rejected(a, FALSE)
        /\ UNCHANGED <<stored, attempt>>
     \/ /\ ~signedIn /\ End(a) /\ NoFault
        /\ UNCHANGED <<screen, stored, attempt>>
  /\ UNCHANGED <<signedIn, load, net, server, settled, crossed>>

(* completeCaptainAssignment, or completeCaptainPickup with key 0.         *)
Send(a) ==
  /\ op[a].pc = "kept"
  /\ \/ /\ signedIn /\ NoFault
        /\ \E c \in Copy :
             /\ net[c] = Free
             /\ net' = [net EXCEPT ![c] = [Free EXCEPT !.st = "sent", !.key = op[a].key, !.to = a]]
        /\ op' = [op EXCEPT ![a].pc = "wait"]
        /\ screen' = IF a = "cur" /\ op[a].kind = "complete"
                     THEN [screen EXCEPT !.pending = op[a].key, !.rejected = FALSE] ELSE screen
     \/ /\ signedIn /\ op[a].kind # "complete" /\ Fault
        /\ End(a) /\ Rejected(a, IF op[a].kind = "retry" THEN FALSE ELSE screen.rejected)
        /\ UNCHANGED net
     \/ ~signedIn /\ End(a) /\ NoFault /\ UNCHANGED <<screen, net>>
  /\ UNCHANGED <<signedIn, load, stored, attempt, server, settled, crossed>>

(* The time limit, a lost connection or an answer that says nothing.       *)
Listened(a) == \E c \in Copy : net[c].to = a
GiveUp(a) ==
  /\ op[a].pc = "wait"
  /\ IF Listened(a) THEN Fault ELSE NoFault
  /\ End(a)
  /\ IF signedIn /\ op[a].kind # "pickup" THEN Rejected(a, FALSE) ELSE UNCHANGED screen
  /\ net' = [c \in Copy |->
       IF net[c].to # a THEN net[c]
       ELSE IF net[c].st \in {"answered", "refused"} THEN Free ELSE [net[c] EXCEPT !.to = "none"]]
  /\ UNCHANGED <<signedIn, load, stored, attempt, server, settled, crossed>>

isConfirmedCaptainCompletion(k, c) ==
  /\ net[c].state = attempt[k].result
  /\ net[c].ver > attempt[k].ver

(* deleteItemAsync names the captain, not the attempt.                     *)
Forget(a) ==
  /\ stored' = 0
  /\ IF a = "cur" THEN Reload([screen EXCEPT !.rejected = FALSE]) ELSE UNCHANGED <<screen, load>>

Receive(a, c) ==
  /\ op[a].pc = "wait" /\ net[c].to = a /\ net[c].st \in {"answered", "refused"}
  /\ net' = [net EXCEPT ![c] = Free]
  /\ End(a)
  /\ LET k == op[a].key
     IN \/ /\ ~signedIn \/ (k = 0 /\ net[c].st = "refused")
           /\ NoFault /\ UNCHANGED <<screen, load, stored, settled>>
        \/ /\ signedIn /\ k = 0 /\ net[c].st = "answered"
           /\ IF a = "cur" THEN Reload(screen) ELSE UNCHANGED <<screen, load>>
           /\ NoFault /\ UNCHANGED <<stored, settled>>
        \/ /\ signedIn /\ k # 0 /\ net[c].st = "refused"
           /\ Rejected(a, TRUE) /\ NoFault /\ UNCHANGED <<load, stored, settled>>
        \/ /\ signedIn /\ k # 0 /\ net[c].st = "answered" /\ ~isConfirmedCaptainCompletion(k, c)
           /\ Rejected(a, FALSE) /\ NoFault /\ UNCHANGED <<load, stored, settled>>
        \/ /\ signedIn /\ k # 0 /\ net[c].st = "answered" /\ isConfirmedCaptainCompletion(k, c)
           /\ settled' = settled \union {k}
           /\ \/ Forget(a) /\ NoFault
              \/ Rejected(a, FALSE) /\ Fault /\ UNCHANGED <<load, stored>>
  /\ UNCHANGED <<signedIn, attempt, server, crossed>>

(* replaceRejectedCompletionAfterReadback: the list is read, and what it   *)
(* showed decides.                                                         *)
ReadForReplace(a) ==
  /\ op[a].pc = "read"
  /\ \/ /\ signedIn /\ NoFault
        /\ op' = [op EXCEPT ![a].pc = "seen", ![a].state = assignment.state, ![a].ver = assignment.ver]
        /\ crossed' = (crossed \/ Running(op[a].key))
     \/ Fault /\ End(a) /\ UNCHANGED crossed
     \/ ~signedIn /\ NoFault /\ End(a) /\ UNCHANGED crossed
  /\ UNCHANGED <<signedIn, screen, load, stored, attempt, net, server, settled>>

UnexecutedByState(o) == o.state = "in_custody"   \* mutant: does not compare the version
Unexecuted(o) == o.state = "in_custody" /\ o.ver = attempt[o.key].ver

Replace(a) ==
  /\ op[a].pc = "seen"
  /\ End(a)
  /\ \/ signedIn /\ Unexecuted(op[a]) /\ Forget(a) /\ NoFault
     \/ signedIn /\ Unexecuted(op[a]) /\ Fault /\ UNCHANGED <<screen, load, stored>>
     \/ signedIn /\ ~Unexecuted(op[a]) /\ Rejected(a, FALSE) /\ NoFault /\ UNCHANGED <<load, stored>>
     \/ ~signedIn /\ NoFault /\ UNCHANGED <<screen, load, stored>>
  /\ UNCHANGED <<signedIn, attempt, net, server, settled, crossed>>

----------------------------------------------------------------------------
(* The server. *)

Answer(c, n) == net' = [net EXCEPT ![c] = IF net[c].to = "none" THEN Free ELSE n]
Refused(c) == [net[c] EXCEPT !.st = "refused"]

CompleteCaptainPickup(c) ==
  /\ net[c].st = "sent" /\ net[c].key = 0
  /\ IF assignment.state = "assigned" /\ assignment.ver < MaxVersion
     THEN /\ assignment' = [state |-> "in_custody", ver |-> assignment.ver + 1]
          /\ Answer(c, [net[c] EXCEPT !.st = "answered"])
     ELSE Answer(c, Refused(c)) /\ UNCHANGED assignment
  /\ UNCHANGED <<phone, done, settled, crossed, faults>>

Completes(k) == assignment.state = "in_custody" /\ assignment.ver = attempt[k].ver

(* captainOperationReplayTx: a key with its row only reads the assignment. *)
ReplaysNothing(k) == FALSE   \* mutant: the row of the key is not looked up
Replays(k) == k \in done

CompleteCaptainAssignment(c) ==
  /\ net[c].st = "sent" /\ net[c].key # 0
  /\ LET k == net[c].key
     IN \/ /\ Replays(k)
           /\ net' = [net EXCEPT ![c].st = "committed"]
           /\ UNCHANGED server
        \/ /\ ~Replays(k) /\ Completes(k) /\ assignment.ver < MaxVersion
           /\ assignment' = [state |-> attempt[k].result, ver |-> assignment.ver + 1]
           /\ done' = done \union {k}
           /\ net' = [net EXCEPT ![c].st = "committed"]
        \/ /\ ~Replays(k) /\ ~Completes(k)
           /\ Answer(c, Refused(c))
           /\ UNCHANGED server
  /\ UNCHANGED <<phone, settled, crossed, faults>>

(* ReadCaptainAssignment after the commit: what it is by then.             *)
Respond(c) ==
  /\ net[c].st = "committed"
  /\ Answer(c, [net[c] EXCEPT !.st = "answered", !.state = assignment.state, !.ver = assignment.ver])
  /\ UNCHANGED <<phone, server, settled, crossed, faults>>

(* Refused before the assignment is looked at: the session, the rate, the  *)
(* proof or payment of the order.                                          *)
Refuse(c) ==
  /\ net[c].st = "sent" /\ Fault
  /\ Answer(c, Refused(c))
  /\ UNCHANGED <<phone, server, settled, crossed>>

Lose(c) ==
  /\ net[c].st # "free" /\ Fault
  /\ net' = [net EXCEPT ![c] = Free]
  /\ UNCHANGED <<phone, server, settled, crossed>>

RecoverCaptainAssignment ==
  /\ assignment.state = "delivery_failed" /\ assignment.ver + 1 < MaxVersion
  /\ assignment' = [state |-> "in_custody", ver |-> assignment.ver + 1]
  /\ UNCHANGED <<phone, net, done, settled, crossed, faults>>

----------------------------------------------------------------------------
Screen ==
  \/ Open \/ Leave \/ SignOut \/ SignIn \/ Kill
  \/ Poll \/ Reread \/ LoadStored \/ LoadList \/ LoadTask \/ LoadFails
  \/ pickup \/ retryPendingCompletion \/ replaceRejectedCompletion
  \/ \E r \in Result : complete(r)
  \/ \E a \in Activity :
       \/ Keep(a) \/ Send(a) \/ GiveUp(a) \/ ReadForReplace(a) \/ Replace(a)
       \/ \E c \in Copy : Receive(a, c)

Server ==
  \/ RecoverCaptainAssignment
  \/ \E c \in Copy : \/ CompleteCaptainPickup(c) \/ CompleteCaptainAssignment(c)
                     \/ Respond(c) \/ Refuse(c) \/ Lose(c)

DeliveryNext == Screen \/ Server
DeliverySpec == DeliveryInit /\ [][DeliveryNext]_deliveryVars

(* The captain comes back and presses the button the screen offers; awaits *)
(* end; the server answers what reached it.                                *)
DeliveryFairness ==
  /\ WF_deliveryVars(SignIn) /\ WF_deliveryVars(Open) /\ WF_deliveryVars(Reread)
  /\ WF_deliveryVars(LoadStored) /\ WF_deliveryVars(LoadList) /\ WF_deliveryVars(LoadTask)
  /\ WF_deliveryVars(~Current /\ LoadFails)
  /\ SF_deliveryVars(retryPendingCompletion) /\ SF_deliveryVars(replaceRejectedCompletion)
  /\ \A a \in Activity :
       /\ WF_deliveryVars(Keep(a)) /\ WF_deliveryVars(Send(a))
       /\ WF_deliveryVars(ReadForReplace(a)) /\ WF_deliveryVars(Replace(a))
       /\ WF_deliveryVars(~Listened(a) /\ GiveUp(a))
       /\ \A c \in Copy : WF_deliveryVars(Receive(a, c))
  /\ \A c \in Copy : WF_deliveryVars(CompleteCaptainPickup(c) \/ CompleteCaptainAssignment(c) \/ Respond(c))
DeliveryFairSpec == DeliverySpec /\ DeliveryFairness

----------------------------------------------------------------------------
(* Whatever the captain confirmed and the server may still carry out is    *)
(* known to the phone: told, or stored to be asked for again.  Not claimed *)
(* once a screen was opened over a mutation an earlier one had running, or *)
(* a copy outlived the readback that gave its attempt up.                  *)
AttemptAccounted ==
  crossed \/ \A k \in Attempt : k \in done \/ Running(k) => k \in settled \/ stored = k

(* The captain is never asked for a second decision on a delivery that the *)
(* server has already ended by an earlier one.                             *)
DecidedOnce ==
  crossed \/ \A k \in done, j \in Used : j > k => attempt[j].ver # attempt[k].ver

(* A stored attempt gets its result, unless the assignment moved on: an    *)
(* operator took the delivery up again before the captain saw that it had  *)
(* failed, or another attempt ended the same delivery.                     *)
Moved(k) == assignment.ver > attempt[k].ver + IF k \in done THEN 1 ELSE 0
AttemptResolvesUnlessMoved ==
  stored # 0 ~> stored = 0 \/ crossed \/ Moved(stored)

(* The same without exception: the screen stops new confirmations until    *)
(* the stored attempt is gone, so it has to go.                            *)
AttemptResolves == stored # 0 ~> stored = 0 \/ crossed
=============================================================================
