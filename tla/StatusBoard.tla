----------------------------- MODULE StatusBoard -----------------------------
(***************************************************************************)
(* lib/discord-status.ts: the public status message, edited by the end of  *)
(* each minute's cron invocation.  There is no lease: a publisher reads    *)
(* the row discord_status_messages, talks to Discord, and writes with a    *)
(* compare-and-set on the fields it has read.  Invocations overlap.        *)
(***************************************************************************)
EXTENDS Naturals, FiniteSets

CONSTANTS
    Publisher,     \* cron invocations; the message one posts carries its name
    Hook,          \* webhooks the environment may name
    NoMessage

ASSUME StatusConstants == NoMessage \notin Publisher /\ Hook # {}

VARIABLES
    status,        \* the row discord_status_messages
    publisher,     \* the invocations
    webhook,       \* the webhook in force
    posted,        \* the messages that exist in Discord
    refused,       \* messages a publisher found missing, and recorded as such
    tampering      \* bound: messages deleted, and webhooks changed, by hand

statusVars == <<status, publisher, webhook, posted, refused, tampering>>

StatusRow == [exists : BOOLEAN, message : Publisher \union {NoMessage}, hook : Hook,
              state : {"active", "disabled"}]

StatusInit(budget) ==
    /\ webhook = (CHOOSE w \in Hook : TRUE)
    /\ status = [exists |-> FALSE, message |-> NoMessage, hook |-> webhook, state |-> "active"]
    /\ publisher = [p \in Publisher |-> [pc |-> "new", hook |-> webhook, seen |-> status,
                                         message |-> NoMessage]]
    /\ posted = {}
    /\ refused = {}
    /\ tampering = budget

At(p, pc) == [publisher EXCEPT ![p].pc = pc]

\* Without the message in the WHERE clause.
MutantCanWrite(p) ==
    LET seen == publisher[p].seen
    IN  IF seen.exists THEN status.exists /\ status.hook = seen.hook ELSE ~status.exists

\* store.write: INSERT OR IGNORE when no row was read, else an UPDATE that
\* compares the webhook and the message, but not the state, with what was read.
CanWrite(p) ==
    LET seen == publisher[p].seen
    IN  IF seen.exists
        THEN status.exists /\ status.hook = seen.hook /\ status.message = seen.message
        ELSE ~status.exists

Written(p, message, state) ==
    [exists |-> TRUE, message |-> message, hook |-> publisher[p].hook, state |-> state]

----------------------------------------------------------------------------
(* publishDiscordStatus *)

\* A row another webhook disabled does not stop a publisher, nor does it edit
\* a message another webhook posted.
ReadStatus(p) ==
    LET same == status.exists /\ status.hook = webhook
    IN  /\ publisher[p].pc = "new"
        /\ publisher' = [publisher EXCEPT ![p] =
               [pc |-> CASE same /\ status.state = "disabled" -> "done"
                         [] same /\ status.state = "active" /\ status.message # NoMessage -> "edit"
                         [] OTHER -> "execute",
                hook |-> webhook, seen |-> status,
                message |-> IF same THEN status.message ELSE NoMessage]]
        /\ UNCHANGED <<status, webhook, posted, refused, tampering>>

\* editDiscordWebhookMessage: done, missing, refused for now or for good.
EditStatus(p) ==
    /\ publisher[p].pc = "edit"
    /\ \E pc \in {IF publisher[p].message \in posted THEN "remember" ELSE "clear",
                 "done", "disable"} : publisher' = At(p, pc)
    /\ UNCHANGED <<status, webhook, posted, refused, tampering>>

\* executeDiscordWebhook; the answer to a post that happened may be lost.
ExecuteStatus(p) ==
    /\ publisher[p].pc = "execute"
    /\ \/ /\ posted' = posted \union {p}
          /\ publisher' = [publisher EXCEPT ![p].pc = "remember", ![p].message = p]
       \/ /\ posted' \in {posted, posted \union {p}}
          /\ publisher' = At(p, "done")
       \/ /\ publisher' = [publisher EXCEPT ![p].pc = "disable", ![p].message = NoMessage]
          /\ UNCHANGED posted
    /\ UNCHANGED <<status, webhook, refused, tampering>>

\* rememberMessage and disableStatusDelivery; a conflict ends the publisher.
Conclude(p, pc, state) ==
    /\ publisher[p].pc = pc
    /\ status' = IF CanWrite(p) THEN Written(p, publisher[p].message, state) ELSE status
    /\ publisher' = At(p, "done")
    /\ UNCHANGED <<webhook, posted, refused, tampering>>

RememberMessage(p) == Conclude(p, "remember", "active")
DisableStatus(p) == Conclude(p, "disable", "disabled")

\* clearMissingStatusMessage: only then is a new message posted.
ClearMissing(p) ==
    LET missing == Written(p, NoMessage, "active")
    IN  /\ publisher[p].pc = "clear"
        /\ IF CanWrite(p)
           THEN /\ status' = missing
                /\ refused' = refused \union {publisher[p].message}
                /\ publisher' = [publisher EXCEPT ![p].pc = "execute", ![p].seen = missing]
           ELSE /\ publisher' = At(p, "done")
                /\ UNCHANGED <<status, refused>>
        /\ UNCHANGED <<webhook, posted, tampering>>

----------------------------------------------------------------------------
DropMessage(m) ==
    /\ tampering > 0 /\ tampering' = tampering - 1
    /\ posted' = posted \ {m}
    /\ UNCHANGED <<status, publisher, webhook, refused>>

ChangeWebhook ==
    /\ tampering > 0 /\ tampering' = tampering - 1
    /\ \E w \in Hook \ {webhook} : webhook' = w
    /\ UNCHANGED <<status, publisher, posted, refused>>

StatusStep ==
    \/ \E p \in Publisher : \/ ReadStatus(p) \/ EditStatus(p) \/ ExecuteStatus(p)
                            \/ RememberMessage(p) \/ DisableStatus(p) \/ ClearMissing(p)
    \/ \E m \in posted : DropMessage(m)
    \/ ChangeWebhook

----------------------------------------------------------------------------
StatusTypeOK ==
    /\ status \in StatusRow
    /\ publisher \in [Publisher ->
           [pc : {"new", "edit", "execute", "remember", "disable", "clear", "done"},
            hook : Hook, seen : StatusRow, message : Publisher \union {NoMessage}]]
    /\ webhook \in Hook /\ posted \subseteq Publisher /\ refused \subseteq Publisher
    /\ tampering \in Nat

\* An edit that was answered before the message disappeared, or a publisher of
\* the previous minute, never brings a message back that was found missing: the
\* row would then be edited in vain, minute after minute.
MissingStaysForgotten == status.message \notin refused
=============================================================================
