------------------------- MODULE BibleTransactions -------------------------
(***************************************************************************)
(* The handlers of BibleLifecycle as the database sees them                *)
(* (db/database.py, db/repositories.py).                                   *)
(*                                                                         *)
(* confirm_bible is a synchronous handler: it runs in the thread pool, so  *)
(* several may run together, and with the one handler that the event loop  *)
(* is in.  transaction() starts a deferred transaction: its first SELECT   *)
(* fixes a snapshot, and its first write fails at once if anything has     *)
(* been committed since.  With immediate=True the lock is taken first and  *)
(* waited for, and the transaction is one step.  Once a deferred           *)
(* transaction writes, nobody else can, so that its writes and its COMMIT  *)
(* are one step too.  activate_branch reads the story outside of its       *)
(* transaction.                                                            *)
(***************************************************************************)
EXTENDS BibleLifecycle

CONSTANTS
  Confirmations    \* bible/confirm requests that may run together

VARIABLES
  confirming,    \* confirmations that have found a complete DRAFT
  loop,          \* the handler that the event loop is in, between two steps
  latest         \* open transactions that nothing has been committed since

dbVars == <<story, tables, request, written, confirmed, confirming, loop, latest>>

Free == [handler |-> "none"]
Loops == {Free} \cup [handler : {"replace"}, request : Requests]
                \cup [handler : {"activate"}, branch : Nat, seen : [
                        status : {"DRAFT", "IDLE"}, version : Nat \ {0}, current : Nat,
                        pauseRequested : BOOLEAN]]

DbTypeOK ==
  /\ TypeOK
  /\ confirming \in SUBSET Confirmations
  /\ loop \in Loops
  /\ latest \in SUBSET (Confirmations \cup Requests)

DbInit ==
  /\ Init
  /\ confirming = {}
  /\ loop = Free
  /\ latest = {}

-----------------------------------------------------------------------------
(* The thread pool *)

\* A story that is IDLE is confirmed without a write, on the snapshot.
ConfirmAgain ==
  /\ story.status = "IDLE"
  /\ ConfirmBible
  /\ UNCHANGED <<confirming, loop, latest>>

ConfirmReads(c) ==
  /\ c \notin confirming
  /\ story.status = "DRAFT"
  /\ Complete
  /\ confirming' = confirming \cup {c}
  /\ latest' = latest \cup {c}
  /\ UNCHANGED <<vars, loop>>

\* Mutant: a confirmation writes what it decided on an older snapshot.
ConfirmWritesLate(c) ==
  /\ c \in confirming
  /\ story.version < MaxVersion
  /\ story' = [story EXCEPT !.status = "IDLE", !.version = @ + 1]
  /\ confirmed' = TRUE
  /\ confirming' = confirming \ {c}
  /\ latest' = {}
  /\ UNCHANGED <<tables, request, written, loop>>

ConfirmWrites(c) ==
  /\ c \in confirming \cap latest
  /\ ConfirmBible
  /\ confirming' = confirming \ {c}
  /\ latest' = {}
  /\ UNCHANGED <<loop>>

\* database is locked, by a write to this story or to another.
ConfirmFails(c) ==
  /\ c \in confirming
  /\ confirming' = confirming \ {c}
  /\ latest' = latest \ {c}
  /\ UNCHANGED <<vars, loop>>

-----------------------------------------------------------------------------
(* The event loop *)

\* A handler that the loop runs in one step, with a commit or without.
Commits == latest' = {} /\ UNCHANGED <<confirming, loop>>
Reads == UNCHANGED <<confirming, loop, latest>>

\* The model has answered; the story is still the one that the request had read.
ReplaceReads(r) ==
  /\ loop = Free
  /\ request[r] # None
  /\ CanReplace(request[r])
  /\ loop' = [handler |-> "replace", request |-> r]
  /\ latest' = latest \cup {r}
  /\ UNCHANGED <<vars, confirming>>

ReplaceWrites(r) ==
  /\ loop = [handler |-> "replace", request |-> r]
  /\ r \in latest
  /\ BibleArrives(r)
  /\ loop' = Free
  /\ latest' = {}
  /\ UNCHANGED confirming

ReplaceFails(r) ==
  /\ loop = [handler |-> "replace", request |-> r]
  /\ BibleRejected(r)
  /\ loop' = Free
  /\ latest' = latest \ {r}
  /\ UNCHANGED <<confirming>>

ActivateReads(branch) ==
  /\ loop = Free
  /\ story.version < MaxVersion
  /\ loop' = [handler |-> "activate", branch |-> branch, seen |-> story]
  /\ UNCHANGED <<vars, confirming, latest>>

\* Mutant: a branch without a scene leaves the status that was read.
ActivateKeepsStatus ==
  /\ loop.handler = "activate"
  /\ story' = [loop.seen EXCEPT !.current = loop.branch, !.pauseRequested = FALSE,
                                !.version = @ + 1]
  /\ loop' = Free
  /\ latest' = {}
  /\ UNCHANGED <<tables, request, written, confirmed, confirming>>

\* The whole row is written back, made from the story that was read.
ActivateWrites ==
  /\ loop.handler = "activate"
  /\ story' = [loop.seen EXCEPT !.status = "IDLE", !.current = loop.branch,
                                !.pauseRequested = FALSE, !.version = @ + 1]
  /\ loop' = Free
  /\ latest' = {}
  /\ UNCHANGED <<tables, request, written, confirmed, confirming>>

\* Threads and tasks end with the process; an open transaction is rolled back.
Stop ==
  /\ Restart
  /\ confirming' = {}
  /\ loop' = Free
  /\ latest' = {}

DbNext ==
  \/ ConfirmAgain
  \/ \E c \in Confirmations : ConfirmReads(c) \/ ConfirmWrites(c) \/ ConfirmFails(c)
  \/ \E r \in Requests : loop = Free /\ (GenerateBible(r) \/ BibleRejected(r)) /\ Reads
  \/ \E r \in Requests : ReplaceReads(r) \/ ReplaceWrites(r) \/ ReplaceFails(r)
  \/ loop = Free /\ (RequestPause \/ Resume) /\ Commits
  \/ \E branch \in tables["branches"] : ActivateReads(branch)
  \/ ActivateWrites
  \/ Stop

DbSpec == DbInit /\ [][DbNext]_dbVars

-----------------------------------------------------------------------------
\* Threads, snapshots and the read before the transaction show nothing that the
\* handlers, run one after the other, could not do.
HandlersAreSteps == Spec

=============================================================================
