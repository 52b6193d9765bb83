------------------------- MODULE SubscriptionManager -------------------------
(***************************************************************************)
(* The account-subscription service of geyser_account_subscriber:          *)
(*   - SubscriptionManager::run serves commands from a bounded mpsc        *)
(*     channel one at a time (Update, Shutdown);                           *)
(*   - update_subscription spawns a fresh AccountConsumer task, waits 10 s *)
(*     for its one-shot stability signal, then either cancels and joins   *)
(*     the previous task and installs the new one, or cancels and joins    *)
(*     the new one and reports failure;                                    *)
(*   - each AccountConsumer runs a reconnect loop: connect, subscribe,     *)
(*     signal stability once, select between cancellation and the next    *)
(*     stream item, push decoded price events into the bounded event      *)
(*     channel drained by the Kafka producer task;                         *)
(*   - callers (main's initial update and one spawned task per price_req   *)
(*     message) send Update through SubscriptionManagerHandle and await   *)
(*     the one-shot response.                                              *)
(* An account set is the caller that sent it; RllClients are those whose  *)
(* set tracks a Raydium LaunchLab pool-state (the only platform whose      *)
(* snapshot decoder can panic).                                            *)
(***************************************************************************)
EXTENDS Naturals, Sequences, FiniteSets

CONSTANTS
    Clients,        \* tasks that call SubscriptionManagerHandle::update_subscription
    RllClients,     \* those whose tracked_accounts contain an RLL pool-state
    CmdCap,         \* capacity of the command channel (mpsc::channel(32))
    EventCap,       \* capacity of the event channel (mpsc::channel::<KEvent>(1000))
    ShutdownCaller  \* TRUE when some holder of the handle calls shutdown()

ASSUME RllClients \subseteq Clients
ASSUME CmdCap \in Nat \ {0} /\ EventCap \in Nat \ {0}
ASSUME ShutdownCaller \in BOOLEAN

\* One consumer task is spawned per Update command, so this many suffice.
Tasks == 1..Cardinality(Clients)
NoTask == 0
NoClient == "none"

VARIABLES
    cstate,     \* caller: "start" | "waiting" (response_rx.await) | "done"
    result,     \* what the caller's update_subscription returned
    cmdq,       \* the command channel: sequence of commands
    mstate,     \* where SubscriptionManager::run is suspended
    mclient,    \* the caller whose Update is being served
    current,    \* self.current_task
    newTask,    \* the task spawned by the Update being served
    nextTask,   \* id of the next task to spawn
    tstate,     \* program point of each AccountConsumer task
    cancelled,  \* its CancellationToken
    stab,       \* whether it has sent on its stability one-shot
    accts,      \* whose tracked_accounts it streams (NoClient: not built)
    events,     \* the event channel: ids of the tasks that sent each event
    shutdownSent

vars == <<cstate, result, cmdq, mstate, mclient, current, newTask, nextTask,
          tstate, cancelled, stab, accts, events, shutdownSent>>

TaskStates == {"idle", "top", "connect", "stream", "send", "retry", "sleep",
               "done", "panicked"}
Finished(t) == tstate[t] \in {"done", "panicked"}
Spawned(t) == tstate[t] # "idle"
\* A task that has not finished and whose token is not cancelled.
Live(t) == Spawned(t) /\ ~Finished(t) /\ ~cancelled[t]

Command == [kind : {"update"}, client : Clients]
           \cup [kind : {"shutdown"}, client : {NoClient}]

-----------------------------------------------------------------------------
(* SubscriptionManagerHandle::update_subscription                         *)

\* Mutant: the command channel is unbounded (send never waits for room).
ClientSend_Unbounded(c) ==
    /\ cstate[c] = "start"
    /\ mstate # "stopped"
    /\ cmdq' = Append(cmdq, [kind |-> "update", client |-> c])
    /\ cstate' = [cstate EXCEPT ![c] = "waiting"]
    /\ UNCHANGED <<result, mstate, mclient, current, newTask, nextTask, tstate,
                   cancelled, stab, accts, events, shutdownSent>>

\* cmd_tx.send(Update{..}).await: blocks while the channel is full.
ClientSend(c) ==
    /\ cstate[c] = "start"
    /\ mstate # "stopped"
    /\ Len(cmdq) < CmdCap
    /\ cmdq' = Append(cmdq, [kind |-> "update", client |-> c])
    /\ cstate' = [cstate EXCEPT ![c] = "waiting"]
    /\ UNCHANGED <<result, mstate, mclient, current, newTask, nextTask, tstate,
                   cancelled, stab, accts, events, shutdownSent>>

\* The receiver is gone: send fails with "Manager disconnected".
ClientSendFails(c) ==
    /\ cstate[c] = "start"
    /\ mstate = "stopped"
    /\ cstate' = [cstate EXCEPT ![c] = "done"]
    /\ result' = [result EXCEPT ![c] = "err"]
    /\ UNCHANGED <<cmdq, mstate, mclient, current, newTask, nextTask, tstate,
                   cancelled, stab, accts, events, shutdownSent>>

\* SubscriptionManagerHandle::shutdown
SendShutdown ==
    /\ ShutdownCaller
    /\ ~shutdownSent
    /\ mstate # "stopped"
    /\ Len(cmdq) < CmdCap
    /\ cmdq' = Append(cmdq, [kind |-> "shutdown", client |-> NoClient])
    /\ shutdownSent' = TRUE
    /\ UNCHANGED <<cstate, result, mstate, mclient, current, newTask, nextTask,
                   tstate, cancelled, stab, accts, events>>

-----------------------------------------------------------------------------
(* SubscriptionManager::run and update_subscription                       *)

\* Reply on the one-shot of the caller being served and go back to recv().
Reply(r) ==
    /\ result' = [result EXCEPT ![mclient] = r]
    /\ cstate' = [cstate EXCEPT ![mclient] = "done"]
    /\ mclient' = NoClient
    /\ mstate' = "recv"

\* recv() an Update: build the consumer and spawn it with a fresh token.
RecvUpdate ==
    /\ mstate = "recv"
    /\ cmdq # <<>>
    /\ Head(cmdq).kind = "update"
    /\ LET c == Head(cmdq).client
           t == nextTask
       IN /\ cmdq' = Tail(cmdq)
          /\ mclient' = c
          /\ newTask' = t
          /\ nextTask' = nextTask + 1
          /\ tstate' = [tstate EXCEPT ![t] = "top"]
          /\ accts' = [accts EXCEPT ![t] = c]
          /\ mstate' = "waitStable"
    /\ UNCHANGED <<cstate, result, current, cancelled, stab, events, shutdownSent>>

\* Mutant: Ok(_) installs the new task without cancelling and joining
\* the previous one.
StableOk_KeepOld ==
    /\ mstate = "waitStable"
    /\ stab[newTask] \/ Finished(newTask)
    /\ current' = newTask
    /\ newTask' = NoTask
    /\ Reply("ok")
    /\ UNCHANGED <<cmdq, nextTask, tstate, cancelled, stab, accts, events,
                   shutdownSent>>

\* Mutant: the stability wait is not awaited (the result of the timeout
\* is taken as success whether or not the signal came).
StableOk_NoWait ==
    /\ mstate = "waitStable"
    /\ IF current # NoTask
         THEN /\ cancelled' = [cancelled EXCEPT ![current] = TRUE]
              /\ mstate' = "joinOld"
              /\ UNCHANGED <<cstate, result, mclient, current, newTask>>
         ELSE /\ current' = newTask
              /\ newTask' = NoTask
              /\ Reply("ok")
              /\ UNCHANGED cancelled
    /\ UNCHANGED <<cmdq, nextTask, tstate, stab, accts, events, shutdownSent>>

\* timeout(10s, stability_rx) yields Ok(_): the signal arrived, or the
\* sender was dropped because the task ended.  Cancel the previous task.
StableOk ==
    /\ mstate = "waitStable"
    /\ stab[newTask] \/ Finished(newTask)
    /\ IF current # NoTask
         THEN /\ cancelled' = [cancelled EXCEPT ![current] = TRUE]
              /\ mstate' = "joinOld"
              /\ UNCHANGED <<cstate, result, mclient, current, newTask>>
         ELSE /\ current' = newTask
              /\ newTask' = NoTask
              /\ Reply("ok")
              /\ UNCHANGED cancelled
    /\ UNCHANGED <<cmdq, nextTask, tstate, stab, accts, events, shutdownSent>>

\* old_handle.await returned: install the new task and answer Ok(()).
JoinOld ==
    /\ mstate = "joinOld"
    /\ Finished(current)
    /\ current' = newTask
    /\ newTask' = NoTask
    /\ Reply("ok")
    /\ UNCHANGED <<cmdq, nextTask, tstate, cancelled, stab, accts, events,
                   shutdownSent>>

\* The 10 s deadline elapses before the signal is ready: cancel the new task.
Timeout ==
    /\ mstate = "waitStable"
    /\ ~stab[newTask]
    /\ ~Finished(newTask)
    /\ cancelled' = [cancelled EXCEPT ![newTask] = TRUE]
    /\ mstate' = "joinNew"
    /\ UNCHANGED <<cstate, result, cmdq, mclient, current, newTask, nextTask,
                   tstate, stab, accts, events, shutdownSent>>

\* Mutant: the timeout branch reports success once the new task is joined.
JoinNew_ReplyOk ==
    /\ mstate = "joinNew"
    /\ Finished(newTask)
    /\ newTask' = NoTask
    /\ Reply("ok")
    /\ UNCHANGED <<cmdq, current, nextTask, tstate, cancelled, stab, accts,
                   events, shutdownSent>>

\* new_handle.await returned: answer Err("Failed to reach stability").
JoinNew ==
    /\ mstate = "joinNew"
    /\ Finished(newTask)
    /\ newTask' = NoTask
    /\ Reply("err")
    /\ UNCHANGED <<cmdq, current, nextTask, tstate, cancelled, stab, accts,
                   events, shutdownSent>>

\* recv() a Shutdown: cancel the current task (if any) and join it.
RecvShutdown ==
    /\ mstate = "recv"
    /\ cmdq # <<>>
    /\ Head(cmdq).kind = "shutdown"
    /\ cmdq' = Tail(cmdq)
    /\ IF current # NoTask
         THEN /\ cancelled' = [cancelled EXCEPT ![current] = TRUE]
              /\ mstate' = "joinShutdown"
         ELSE /\ mstate' = "stopped"
              /\ UNCHANGED cancelled
    /\ UNCHANGED <<cstate, result, mclient, current, newTask, nextTask, tstate,
                   stab, accts, events, shutdownSent>>

\* handle.await returned; run() breaks out of its loop and drops command_rx.
JoinShutdown ==
    /\ mstate = "joinShutdown"
    /\ Finished(current)
    /\ current' = NoTask
    /\ mstate' = "stopped"
    /\ UNCHANGED <<cstate, result, cmdq, mclient, newTask, nextTask, tstate,
                   cancelled, stab, accts, events, shutdownSent>>

\* Dropping command_rx drops every queued Update's response sender: each
\* waiting caller's response_rx.await fails with "Response channel closed".
DropQueued(c) ==
    /\ mstate = "stopped"
    /\ cstate[c] = "waiting"
    /\ cstate' = [cstate EXCEPT ![c] = "done"]
    /\ result' = [result EXCEPT ![c] = "err"]
    /\ cmdq' = SelectSeq(cmdq, LAMBDA m : m.client # c)
    /\ UNCHANGED <<mstate, mclient, current, newTask, nextTask, tstate,
                   cancelled, stab, accts, events, shutdownSent>>

-----------------------------------------------------------------------------
(* AccountConsumer::run                                                    *)

SetT(t, s) == tstate' = [tstate EXCEPT ![t] = s]

TaskUnchanged == UNCHANGED <<cstate, result, cmdq, mstate, mclient, current,
                             newTask, nextTask, cancelled, accts, shutdownSent>>

\* Loop head: if cancel_token.is_cancelled() { break }.
LoopHead(t) ==
    /\ tstate[t] = "top"
    /\ SetT(t, IF cancelled[t] THEN "done" ELSE "connect")
    /\ TaskUnchanged /\ UNCHANGED <<stab, events>>

\* connect() and subscribe_once() succeed: signal stability the first time.
Subscribed(t) ==
    /\ tstate[t] = "connect"
    /\ SetT(t, "stream")
    /\ stab' = [stab EXCEPT ![t] = TRUE]
    /\ TaskUnchanged /\ UNCHANGED events

\* Invalid URL, connect error or subscribe error: fall through to the retry.
ConnectFailed(t) ==
    /\ tstate[t] = "connect"
    /\ SetT(t, "retry")
    /\ TaskUnchanged /\ UNCHANGED <<stab, events>>

\* Mutant: the cancelled() branch continues the stream loop instead of
\* breaking out of it.
StreamCancelled_Continue(t) ==
    /\ tstate[t] = "stream"
    /\ cancelled[t]
    /\ SetT(t, "stream")
    /\ TaskUnchanged /\ UNCHANGED <<stab, events>>

\* select! picks the cancelled() branch: break out of the stream loop.
StreamCancelled(t) ==
    /\ tstate[t] = "stream"
    /\ cancelled[t]
    /\ SetT(t, "retry")
    /\ TaskUnchanged /\ UNCHANGED <<stab, events>>

\* select! picks stream.next() = Some(Ok(account update)) and
\* handle_price_update decodes it: go on to event_tx.send(kevent).await.
StreamUpdate(t) ==
    /\ tstate[t] = "stream"
    /\ SetT(t, "send")
    /\ TaskUnchanged /\ UNCHANGED <<stab, events>>

\* handle_rll_price_update indexes data[18] and data[19] without a length
\* check: a short pool-state snapshot panics and ends the task.
StreamPanic(t) ==
    /\ tstate[t] = "stream"
    /\ accts[t] \in RllClients
    /\ SetT(t, "panicked")
    /\ TaskUnchanged /\ UNCHANGED <<stab, events>>

\* stream.next() = None: "Stream ended", leave the stream loop.
StreamEnded(t) ==
    /\ tstate[t] = "stream"
    /\ SetT(t, "retry")
    /\ TaskUnchanged /\ UNCHANGED <<stab, events>>

\* event_tx.send(kevent).await: waits while the channel is full.
SendEvent(t) ==
    /\ tstate[t] = "send"
    /\ Len(events) < EventCap
    /\ events' = Append(events, t)
    /\ SetT(t, "stream")
    /\ TaskUnchanged /\ UNCHANGED stab

\* After the attempt: if cancelled { break } else sleep(backoff).
RetryCheck(t) ==
    /\ tstate[t] = "retry"
    /\ SetT(t, IF cancelled[t] THEN "done" ELSE "sleep")
    /\ TaskUnchanged /\ UNCHANGED <<stab, events>>

\* The backoff sleep ends (backoff = min(backoff * 2, MAX_BACKOFF)).
Wake(t) ==
    /\ tstate[t] = "sleep"
    /\ SetT(t, "top")
    /\ TaskUnchanged /\ UNCHANGED <<stab, events>>

-----------------------------------------------------------------------------
(* kafka_producer: the task that drains event_rx into broadcast_event.     *)

ProduceEvent ==
    /\ events # <<>>
    /\ events' = Tail(events)
    /\ UNCHANGED <<cstate, result, cmdq, mstate, mclient, current, newTask,
                   nextTask, tstate, cancelled, stab, accts, shutdownSent>>

-----------------------------------------------------------------------------

Init ==
    /\ cstate = [c \in Clients |-> "start"]
    /\ result = [c \in Clients |-> "none"]
    /\ cmdq = <<>>
    /\ mstate = "recv"
    /\ mclient = NoClient
    /\ current = NoTask
    /\ newTask = NoTask
    /\ nextTask = 1
    /\ tstate = [t \in Tasks |-> "idle"]
    /\ cancelled = [t \in Tasks |-> FALSE]
    /\ stab = [t \in Tasks |-> FALSE]
    /\ accts = [t \in Tasks |-> NoClient]
    /\ events = <<>>
    /\ shutdownSent = FALSE

ManagerStep ==
    \/ RecvUpdate \/ StableOk \/ JoinOld \/ Timeout \/ JoinNew
    \/ RecvShutdown \/ JoinShutdown

TaskStep(t) ==
    \/ LoopHead(t) \/ Subscribed(t) \/ ConnectFailed(t) \/ StreamCancelled(t)
    \/ StreamUpdate(t) \/ StreamPanic(t) \/ StreamEnded(t) \/ SendEvent(t)
    \/ RetryCheck(t) \/ Wake(t)

Next ==
    \/ \E c \in Clients : ClientSend(c) \/ ClientSendFails(c) \/ DropQueued(c)
    \/ SendShutdown
    \/ ManagerStep
    \/ \E t \in Tasks : TaskStep(t)
    \/ ProduceEvent

(***************************************************************************)
(* Fairness.  The manager, the producer and the consumer's own control     *)
(* steps run on the tokio runtime and are weakly fair; the 10 s timer is   *)
(* weakly fair.  select! chooses at random among ready branches, so a     *)
(* cancelled token is eventually observed even while items keep arriving: *)
(* strong fairness on StreamCancelled.  Connection outcomes, stream items *)
(* and the callers are the environment and get no fairness, except that  *)
(* a waiting caller's DropQueued is the runtime dropping the channel.     *)
(***************************************************************************)
Fairness ==
    /\ WF_vars(ManagerStep)
    /\ WF_vars(ProduceEvent)
    /\ \A c \in Clients : WF_vars(DropQueued(c))
    /\ \A t \in Tasks :
         /\ WF_vars(LoopHead(t)) /\ WF_vars(RetryCheck(t)) /\ WF_vars(Wake(t))
         /\ SF_vars(SendEvent(t))
         /\ SF_vars(StreamCancelled(t))
         /\ WF_vars(Subscribed(t) \/ ConnectFailed(t))

Spec == Init /\ [][Next]_vars /\ Fairness

-----------------------------------------------------------------------------

TypeOK ==
    /\ cstate \in [Clients -> {"start", "waiting", "done"}]
    /\ result \in [Clients -> {"none", "ok", "err"}]
    /\ cmdq \in Seq(Command) /\ Len(cmdq) <= CmdCap
    /\ mstate \in {"recv", "waitStable", "joinOld", "joinNew", "joinShutdown",
                   "stopped"}
    /\ mclient \in Clients \cup {NoClient}
    /\ current \in Tasks \cup {NoTask}
    /\ newTask \in Tasks \cup {NoTask}
    /\ nextTask \in 1..Cardinality(Clients) + 1
    /\ tstate \in [Tasks -> TaskStates]
    /\ cancelled \in [Tasks -> BOOLEAN]
    /\ stab \in [Tasks -> BOOLEAN]
    /\ accts \in [Tasks -> Clients \cup {NoClient}]
    /\ events \in Seq(Tasks) /\ Len(events) <= EventCap
    /\ shutdownSent \in BOOLEAN

(***************************************************************************)
(* NoLeakedTask: whenever SubscriptionManager::run is back at recv(), the  *)
(* only consumer task still running is current_task.  update_subscription  *)
(* must have joined the task it replaced (Ok branch) or the task it gave   *)
(* up on (timeout branch); a task left running keeps streaming accounts    *)
(* nobody asked for and pushing duplicate events.                          *)
(***************************************************************************)
NoLeakedTask ==
    mstate = "recv" =>
        \A t \in Tasks : (Spawned(t) /\ ~Finished(t)) => t = current

(***************************************************************************)
(* NoBlindGap: once an update has been installed and until shutdown, some  *)
(* consumer task that is neither cancelled nor finished has reached        *)
(* stability (subscribed at least once).  It fails if the old token is     *)
(* cancelled before the new task is stable, if an unstable task is        *)
(* installed, or if the installed task dies.                               *)
(***************************************************************************)
NoBlindGap ==
    (current # NoTask /\ mstate \notin {"joinShutdown", "stopped"}) =>
        \E t \in Tasks : Live(t) /\ stab[t]

(***************************************************************************)
(* NoSwapGap: the swap protocol never opens a blind gap of its own: once   *)
(* an update has been installed and until shutdown, some task that reached *)
(* stability still holds an uncancelled token.  Unlike NoBlindGap it      *)
(* counts a task that ended by a decoder panic, so it fails only if the   *)
(* manager cancels the old task before the new one is stable or installs  *)
(* a task that never became stable.                                        *)
(***************************************************************************)
NoSwapGap ==
    (current # NoTask /\ mstate \notin {"joinShutdown", "stopped"}) =>
        \E t \in Tasks : Spawned(t) /\ stab[t] /\ ~cancelled[t]

(***************************************************************************)
(* The refinement mapping: the live subscription is the account set of    *)
(* current_task, whether or not its token is cancelled yet, and the        *)
(* service has stopped once run() has left its loop.                       *)
(***************************************************************************)
Service == INSTANCE SubscriptionService
               WITH sub <- IF current = NoTask THEN NoClient ELSE accts[current],
                    stopped <- mstate = "stopped"

(***************************************************************************)
(* ImplementsService: SubscriptionManager implements SubscriptionService.  *)
(* Each Ok answered by update_subscription coincides with current_task     *)
(* becoming a task built from that caller's accounts, each Err leaves      *)
(* current_task as it was, and no step of the swap (cancel old, join old,  *)
(* join new) exposes another subscription.  Its fairness is that every    *)
(* caller waiting on response_rx is answered, which needs every cancelled *)
(* consumer to leave its loop so that old_handle.await and              *)
(* new_handle.await return.                                                *)
(***************************************************************************)
ImplementsService == Service!Spec

=============================================================================
