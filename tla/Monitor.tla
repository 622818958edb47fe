------------------------------- MODULE Monitor -------------------------------
(***************************************************************************)
(* lib/discord-security-monitor.ts: one Discord message that every cron    *)
(* invocation edits, guarded by a lease in the row security_monitor_state. *)
(* An invocation acquires the row, writes the message (and posts a new one *)
(* when Discord says the old one is gone), then releases the row.  It may  *)
(* die in between, outlive its lease, or lose the answer to a post.        *)
(***************************************************************************)
EXTENDS Naturals, FiniteSets

CONSTANTS
    Run,           \* cron invocations; the message a run posts carries its name
    Config,        \* channel and token, as the environment may name them
    NoRun          \* no invocation, no message

ASSUME MonitorConstants == NoRun \notin Run /\ Config # {}

VARIABLES
    monitor,       \* the row security_monitor_state
    run,           \* the invocations
    setting,       \* the configuration in force
    live,          \* the messages that exist in Discord: [run, config]
    causes         \* what has gone wrong so far, and how much still may

monitorVars == <<monitor, run, setting, live, causes>>

MonitorRow == [exists : BOOLEAN, message : Run \union {NoRun}, config : Config,
               state : {"active", "disabled"}, lease : Run \union {NoRun}, over : BOOLEAN]
Invocation == [pc : {"new", "edit", "post", "release", "done"}, config : Config,
               message : Run \union {NoRun}, state : {"active", "disabled"}]

MonitorInit(faults) ==
    /\ setting = (CHOOSE c \in Config : TRUE)
    /\ monitor = [exists |-> FALSE, message |-> NoRun, config |-> setting, state |-> "active",
                  lease |-> NoRun, over |-> FALSE]
    /\ run = [r \in Run |-> [pc |-> "new", config |-> setting, message |-> NoRun,
                             state |-> "active"]]
    /\ live = {}
    /\ causes = [spent |-> 0, left |-> faults]

\* Every fault of an execution is counted.
Fault == causes.left > 0 /\ causes' = [spent |-> causes.spent + 1, left |-> causes.left - 1]

----------------------------------------------------------------------------
\* Without the lease in the WHERE clause.
MutantMayAcquire == TRUE

MayAcquire == monitor.lease = NoRun \/ monitor.over

\* acquireState: INSERT OR IGNORE, then an UPDATE that takes a free or expired
\* lease and forgets the message of another configuration; whoever gets no row
\* is "busy".
Acquire(r) ==
    LET same == monitor.exists => monitor.config = setting
        message == IF same THEN monitor.message ELSE NoRun
        state == IF same THEN monitor.state ELSE "active"
    IN  /\ run[r].pc = "new"
        /\ IF MayAcquire
           THEN /\ monitor' = [exists |-> TRUE, message |-> message, config |-> setting,
                               state |-> state, lease |-> r, over |-> FALSE]
                /\ run' = [run EXCEPT ![r] =
                       [pc |-> CASE state = "disabled" -> "release"
                                 [] state = "active" /\ message # NoRun -> "edit"
                                 [] OTHER -> "post",
                        config |-> setting, message |-> message, state |-> state]]
           ELSE /\ run' = [run EXCEPT ![r].pc = "done"]
                /\ UNCHANGED monitor
        /\ UNCHANGED <<setting, live, causes>>

\* The PATCH: done, answered 404, refused for now, or refused for good.
Edit(r) ==
    LET there == \E m \in live : m.run = run[r].message /\ m.config = run[r].config
    IN  /\ run[r].pc = "edit"
        /\ \/ run' = [run EXCEPT ![r].pc = IF there THEN "release" ELSE "post"]
           \/ run' = [run EXCEPT ![r].pc = "release"]
           \/ run' = [run EXCEPT ![r].pc = "release", ![r].state = "disabled"]
        /\ UNCHANGED <<monitor, setting, live, causes>>

\* The POST succeeds, or fails for now or for good, or Discord has posted and
\* the answer is lost.
Post(r) ==
    LET posted == live \union {[run |-> r, config |-> run[r].config]}
    IN  /\ run[r].pc = "post"
        /\ \/ /\ live' = posted
              /\ run' = [run EXCEPT ![r].pc = "release", ![r].message = r]
              /\ UNCHANGED causes
           \/ /\ run' = [run EXCEPT ![r].pc = "release"]
              /\ UNCHANGED <<live, causes>>
           \/ /\ run' = [run EXCEPT ![r].pc = "release", ![r].state = "disabled"]
              /\ UNCHANGED <<live, causes>>
           \/ /\ Fault
              /\ live' = posted
              /\ run' = [run EXCEPT ![r].pc = "release"]
        /\ UNCHANGED <<monitor, setting>>

\* releaseState: the UPDATE is guarded by the lease token.
Release(r) ==
    /\ run[r].pc = "release"
    /\ monitor' = IF monitor.lease = r
                  THEN [monitor EXCEPT !.message = run[r].message, !.state = run[r].state,
                                       !.lease = NoRun, !.over = FALSE]
                  ELSE monitor
    /\ run' = [run EXCEPT ![r].pc = "done"]
    /\ UNCHANGED <<setting, live, causes>>

----------------------------------------------------------------------------
(* What the code does not control. *)

\* The invocation is evicted.
Die(r) ==
    /\ run[r].pc \in {"edit", "post", "release"} /\ Fault
    /\ run' = [run EXCEPT ![r].pc = "done"]
    /\ UNCHANGED <<monitor, setting, live>>

\* The lease time passes; a fault only when its holder is still at work.
LeaseEnds ==
    /\ monitor.lease # NoRun /\ ~monitor.over
    /\ IF run[monitor.lease].pc = "done" THEN UNCHANGED causes ELSE Fault
    /\ monitor' = [monitor EXCEPT !.over = TRUE]
    /\ UNCHANGED <<run, setting, live>>

\* Somebody deletes a message in Discord.
DeleteMessage(m) ==
    /\ live' = live \ {m}
    /\ UNCHANGED <<monitor, run, setting, causes>>

\* An operator changes the channel or the token.
Reconfigure ==
    /\ Fault
    /\ \E c \in Config \ {setting} : setting' = c
    /\ UNCHANGED <<monitor, run, live>>

MonitorStep ==
    \/ \E r \in Run : Acquire(r) \/ Edit(r) \/ Post(r) \/ Release(r) \/ Die(r)
    \/ LeaseEnds \/ Reconfigure
    \/ \E m \in live : DeleteMessage(m)

----------------------------------------------------------------------------
MonitorTypeOK ==
    /\ monitor \in MonitorRow
    /\ run \in [Run -> Invocation]
    /\ setting \in Config
    /\ live \subseteq [run : Run, config : Config]
    /\ causes \in [spent : Nat, left : Nat]

\* Overlapping cron invocations keep to one message in a channel: each further
\* one is the trace of a lost answer, a dead invocation, a lease outlived or a
\* change of configuration, and each of these leaves at most one.
OneMonitorMessage ==
    \A c \in Config : Cardinality({m \in live : m.config = c}) <= 1 + causes.spent
=============================================================================
