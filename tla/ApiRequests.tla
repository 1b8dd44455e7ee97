---------------------------- MODULE ApiRequests ----------------------------
(***************************************************************************)
(* The requests the loopback API serves at the same time.  A handler runs  *)
(* in a thread with a database session of its own: what it reads, what it  *)
(* asks of the browser, a provider or the file system, and what it commits *)
(* are separate steps.  SELECTs take no lock, and a row that is read again *)
(* is read as it is by then; writers serialise at their commit.            *)
(***************************************************************************)
EXTENDS Integers

CONSTANTS
    Requests,      \* requests served at the same time
    Idle

VARIABLE
    work           \* the request each thread is serving, with what it has read

Begin(r, record) == work[r] = Idle /\ work' = [work EXCEPT ![r] = record]
Goes(r, record) == work' = [work EXCEPT ![r] = record]
Finish(r) == work' = [work EXCEPT ![r] = Idle]
Doing(r, op) == work[r] # Idle /\ work[r].op = op

RequestsInit == work = [r \in Requests |-> Idle]

\* The request ends in an error and changes nothing more: a row it relied
\* on is gone, a compare-and-set finds another revision, the database or
\* the file system refuses.
Abandon(r, ops) == work[r] # Idle /\ work[r].op \in ops /\ Finish(r)

\* The program stops: every request in flight is lost, what was committed stays.
Crash ==
    /\ \E r \in Requests : work[r] # Idle
    /\ work' = [r \in Requests |-> Idle]
=============================================================================
