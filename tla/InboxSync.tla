------------------------------ MODULE InboxSync ------------------------------
(***************************************************************************)
(* The import of a mailbox.  A sync reads what the provider says is new    *)
(* since the stored cursor, saves the messages one commit at a time, and   *)
(* stores the cursor last.  Cursors expire, mail arrives and is deleted    *)
(* while a sync reads, the user connects another account or the same one   *)
(* anew, two syncs run at once, and the program may stop after any commit. *)
(* A cursor is the number of messages that had arrived when it was issued. *)
(***************************************************************************)
EXTENDS ApiRequests, FiniteSets

CONSTANTS
    MaxConnections,   \* bound: connections the user makes, one after the other
    AccountOf,        \* AccountOf[c]: the mailbox behind the connection
    MaxArrived,       \* bound: messages that arrive in a mailbox
    MaxItems,         \* MaxItems[p]: the limit on what one sync of provider p may read
    NoSync

ASSUME InboxAssumption ==
    /\ MaxArrived \in Nat /\ MaxConnections \in Nat \ {0}
    /\ \A p \in DOMAIN MaxItems : MaxItems[p] \in Nat

VARIABLES
    provider,         \* the provider this is about
    arrived,          \* messages that have arrived in each mailbox
    deleted,          \* those its owner has deleted, as <<account, number>>
    oldest,           \* the oldest cursor each provider account still takes
    connection,       \* the connection in force
    records,          \* stored messages, as <<connection, number>>
    syncState         \* the stored cursor with its connection

inboxVars == <<provider, arrived, deleted, oldest, connection, records, syncState>>

\* Before every cursor a provider issues.
NoCursor == -1

Accounts == {AccountOf[c] : c \in 1..MaxConnections}

Present(account) == {n \in 1..arrived[account] : <<account, n>> \notin deleted}

InboxInit(which) ==
    /\ provider = which
    /\ arrived = [a \in Accounts |-> 0] /\ deleted = {}
    /\ oldest = [a \in Accounts |-> 0]
    /\ connection = 1
    /\ records = {} /\ syncState = NoSync

-----------------------------------------------------------------------------
\* The sync binds itself to the connection in force, and takes the stored
\* cursor only if it was stored for that connection.
BeginSync(r) ==
    /\ Begin(r, [op |-> "sync", at |-> "cursor", binding |-> connection,
                 prior |-> IF syncState # NoSync /\ syncState.binding = connection
                           THEN syncState.cursor ELSE NoCursor,
                 mark |-> NoCursor, batch |-> {}])
    /\ UNCHANGED inboxVars

Syncing(r, at) == Doing(r, "sync") /\ work[r].at = at

\* A call reaches the provider with the token of the sync's own connection.
Calling(r, at) == Syncing(r, at) /\ connection = work[r].binding
Mailbox(r) == AccountOf[work[r].binding]

Fits(batch) == Cardinality(batch) <= MaxItems[provider]

\* Gmail lists names only; Outlook's listing holds the messages.
Listed == IF provider = "gmail" THEN "fetch" ELSE "save"

\* A first sync, or one whose cursor the provider no longer takes, reads the
\* whole mailbox.  Gmail's is asked for its position before it is listed;
\* Outlook's position comes with the end of the listing.  (A caller may have a
\* first sync begin at some time; the model's begins with the first message.)
Full(r) == work[r].prior < oldest[Mailbox(r)]

Position(r) == arrived[Mailbox(r)]

ReadPosition(r) ==
    /\ provider = "gmail" /\ Calling(r, "cursor") /\ Full(r)
    /\ Goes(r, [work[r] EXCEPT !.mark = Position(r), !.at = "list"])
    /\ UNCHANGED inboxVars

ListMailbox(r) ==
    /\ \/ Calling(r, "list")
       \/ provider = "outlook" /\ Calling(r, "cursor") /\ Full(r)
    /\ Fits(Present(Mailbox(r)))
    /\ Goes(r, [work[r] EXCEPT !.batch = Present(Mailbox(r)), !.at = Listed,
                               !.mark = IF provider = "gmail" THEN @ ELSE Position(r)])
    /\ UNCHANGED inboxVars

ListChanges(r) ==
    /\ Calling(r, "cursor") /\ ~Full(r)
    /\ LET new == {n \in 1..Position(r) : n > work[r].prior}
       IN  /\ Fits(new)
           /\ Goes(r, [work[r] EXCEPT !.batch = new, !.mark = Position(r), !.at = Listed])
    /\ UNCHANGED inboxVars

\* What Gmail lists is fetched message by message; one that is gone is left out.
FetchMessages(r) ==
    /\ Calling(r, "fetch")
    /\ Goes(r, [work[r] EXCEPT !.batch = @ \cap Present(Mailbox(r)), !.at = "save"])
    /\ UNCHANGED inboxVars

\* The next message is saved, unless a record of it is there.
SaveRecord(r) ==
    /\ Syncing(r, "save") /\ work[r].batch # {}
    /\ LET n == CHOOSE i \in work[r].batch : \A j \in work[r].batch : i <= j
       IN  /\ records' = records \cup {<<work[r].binding, n>>}
           /\ Goes(r, [work[r] EXCEPT !.batch = @ \ {n}])
    /\ UNCHANGED <<provider, arrived, deleted, oldest, connection, syncState>>

\* Mutant: the cursor stored is the mailbox's position by now.
PositionAtTheEnd(r) == Position(r)

NextCursor(r) == work[r].mark

\* The stored cursor is replaced if it is the one the sync began with or of
\* another connection; the check and the commit are two steps.
CheckCursor(r) ==
    /\ Syncing(r, "save") /\ work[r].batch = {}
    /\ IF /\ syncState # NoSync /\ syncState.binding = work[r].binding
          /\ syncState.cursor # work[r].prior
       THEN Finish(r)
       ELSE Goes(r, [work[r] EXCEPT !.at = IF syncState = NoSync THEN "insert" ELSE "store"])
    /\ UNCHANGED inboxVars

StoreCursor(r) ==
    /\ \/ Syncing(r, "store")
       \/ Syncing(r, "insert") /\ syncState = NoSync
    /\ syncState' = [binding |-> work[r].binding, cursor |-> NextCursor(r)]
    /\ Finish(r)
    /\ UNCHANGED <<provider, arrived, deleted, oldest, connection, records>>

-----------------------------------------------------------------------------
\* The mailboxes, the provider and the user.

MailArrives(a) ==
    /\ arrived[a] < MaxArrived
    /\ arrived' = [arrived EXCEPT ![a] = @ + 1]
    /\ UNCHANGED <<work, provider, deleted, oldest, connection, records, syncState>>

MailIsDeleted(a) ==
    /\ \E n \in Present(a) : deleted' = deleted \cup {<<a, n>>}
    /\ UNCHANGED <<work, provider, arrived, oldest, connection, records, syncState>>

CursorsExpire(a) ==
    /\ oldest[a] < arrived[a]
    /\ oldest' = [oldest EXCEPT ![a] = arrived[a]]
    /\ UNCHANGED <<work, provider, arrived, deleted, connection, records, syncState>>

Reconnect ==
    /\ connection < MaxConnections /\ connection' = connection + 1
    /\ UNCHANGED <<work, provider, arrived, deleted, oldest, records, syncState>>

SyncInbox(r) ==
    \/ BeginSync(r) \/ ReadPosition(r) \/ ListMailbox(r) \/ ListChanges(r)
    \/ FetchMessages(r) \/ SaveRecord(r) \/ CheckCursor(r) \/ StoreCursor(r)
    \/ Abandon(r, {"sync"}) /\ UNCHANGED inboxVars

InboxMoves ==
    \/ \E a \in Accounts : MailArrives(a) \/ MailIsDeleted(a) \/ CursorsExpire(a)
    \/ Reconnect

\* A message is never skipped for good: all that had arrived when the stored
\* cursor was issued, and that its owner has not deleted, is stored as mail of
\* the cursor's connection - though mail arrives while a sync reads, syncs
\* overtake each other, cursors expire and the account is changed.
NoMailIsSkipped ==
    syncState # NoSync =>
        \A n \in Present(AccountOf[syncState.binding]) :
            n <= syncState.cursor => <<syncState.binding, n>> \in records
=============================================================================
