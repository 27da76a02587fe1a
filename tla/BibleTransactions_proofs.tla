---------------------- MODULE BibleTransactions_proofs ---------------------
(***************************************************************************)
(* What holds of Bible generation and confirmation for any number of       *)
(* requests in flight, with no bound on versions and bundles: first of the *)
(* handlers, then of the steps in which the database sees them, which      *)
(* implement the handlers for any number of requests and confirmations.    *)
(***************************************************************************)
EXTENDS BibleTransactions, TLAPS

-----------------------------------------------------------------------------
(* The handlers of BibleLifecycle *)

\* The initial state of the handlers is well typed.
LEMMA TypeInit == Init => TypeOK
<1> SUFFICES ASSUME Init PROVE TypeOK
  OBVIOUS
<1>1. story \in [status : {"DRAFT", "IDLE"}, version : Nat \ {0}, current : Nat,
                 pauseRequested : BOOLEAN]
  BY DEF Init, None
<1>2. tables \in [Tables -> SUBSET Nat] /\ request \in [Requests -> Nat]
  BY DEF Init, None
<1> QED
  BY <1>1, <1>2 DEF Init, TypeOK

\* Every handler keeps the types.
LEMMA TypeStep == TypeOK /\ [Next]_vars => TypeOK'
<1> SUFFICES ASSUME TypeOK, [Next]_vars PROVE TypeOK'
  OBVIOUS
<1> USE DEF TypeOK
<1>0. story.version + 1 \in Nat \ {0}
  OBVIOUS
<1>1. ASSUME NEW r \in Requests, GenerateBible(r) PROVE TypeOK'
  BY <1>1 DEF GenerateBible
<1>2. ASSUME NEW r \in Requests, BibleArrives(r) PROVE TypeOK'
  <2>1. written + 1 \in Nat
    OBVIOUS
  <2>2. tables' \in [Tables -> SUBSET Nat]
    BY <1>2, <2>1 DEF BibleArrives, ReplaceBundle
  <2>3. story' = [story EXCEPT !.current = written + 1]
    BY <1>2 DEF BibleArrives, ReplaceBundle
  <2> QED
    BY <1>2, <2>1, <2>2, <2>3 DEF BibleArrives, None
<1>3. ASSUME NEW r \in Requests, BibleRejected(r) PROVE TypeOK'
  BY <1>3 DEF BibleRejected, None
<1>4. CASE ConfirmBible
  BY <1>0, <1>4 DEF ConfirmBible
<1>5. CASE RequestPause
  BY <1>0, <1>5 DEF RequestPause
<1>6. CASE Resume
  BY <1>0, <1>6 DEF Resume
<1>7. CASE Activate
  <2>1. tables["branches"] \subseteq Nat
    BY DEF Tables
  <2> QED
    BY <1>0, <1>7, <2>1 DEF Activate
<1>8. CASE Restart
  BY <1>8 DEF Restart, None
<1>9. CASE UNCHANGED vars
  BY <1>9 DEF vars
<1> QED
  BY <1>1, <1>2, <1>3, <1>4, <1>5, <1>6, <1>7, <1>8, <1>9 DEF Next

\* Every state is well typed: the program's rows keep the shape that the
\* Pydantic models give them.
THEOREM TypeCorrect == Spec => []TypeOK
  BY TypeInit, TypeStep, PTL DEF Spec

\* The tables hold the rows of one bundle and the current branch is its branch,
\* whatever requests, confirmations and activations overlapped.
THEOREM OneBundleAlways == Spec => []OneBundle
<1>1. Init => OneBundle
  BY DEF Init, OneBundle, None, Tables
<1>2. TypeOK /\ OneBundle /\ [Next]_vars => OneBundle'
  <2> SUFFICES ASSUME TypeOK, OneBundle, [Next]_vars PROVE OneBundle'
    OBVIOUS
  <2> USE DEF OneBundle
  <2>1. ASSUME NEW r \in Requests, BibleArrives(r) PROVE OneBundle'
    <3>1. written + 1 # 0
      BY DEF TypeOK
    <3> QED
      BY <2>1, <3>1 DEF BibleArrives, ReplaceBundle, TypeOK
  <2>2. CASE Activate
    \* The only branch there is to activate is that of the bundle.
    <3>1. PICK branch \in tables["branches"], version \in {story.version, story.version + 1} :
            story' = [story EXCEPT !.status = "IDLE", !.current = branch,
                                   !.pauseRequested = FALSE, !.version = version]
      BY <2>2 DEF Activate
    <3>2. branch = written
      BY <3>1 DEF Tables
    <3> QED
      BY <2>2, <3>1, <3>2 DEF Activate, TypeOK
  <2>3. CASE \/ \E r \in Requests : GenerateBible(r) \/ BibleRejected(r)
             \/ Restart
             \/ UNCHANGED vars
    BY <2>3 DEF GenerateBible, BibleRejected, Restart, vars
  <2>4. CASE ConfirmBible \/ RequestPause \/ Resume
    BY <2>4 DEF ConfirmBible, RequestPause, Resume, TypeOK
  <2> QED
    BY <2>1, <2>2, <2>3, <2>4 DEF Next
<1> QED
  BY <1>1, <1>2, TypeCorrect, PTL DEF Spec

\* A story that can generate scenes has the Bible, the branch, the characters and
\* the arc of one bundle: Activate skips the confirmation but finds a branch only
\* where there is a bundle.
THEOREM ReadyStoryAlwaysComplete == Spec => []ReadyStoryIsComplete
<1> DEFINE Written == story.status # "DRAFT" => written # 0
<1>1. Init => Written
  BY DEF Init
<1>2. TypeOK /\ OneBundle /\ Written /\ [Next]_vars => Written'
  <2> SUFFICES ASSUME TypeOK, OneBundle, Written, [Next]_vars PROVE Written'
    OBVIOUS
  <2>1. ASSUME NEW r \in Requests, BibleArrives(r) PROVE Written'
    BY <2>1 DEF BibleArrives, TypeOK
  <2>2. CASE Activate
    <3>1. tables["branches"] # {}
      BY <2>2 DEF Activate
    <3>2. written # 0
      BY <3>1 DEF OneBundle, Tables
    <3> QED
      BY <2>2, <3>2 DEF Activate
  <2>3. CASE ConfirmBible
    <3>1. story.current # 0
      BY <2>3 DEF ConfirmBible, Complete, None
    <3> QED
      BY <2>3, <3>1 DEF ConfirmBible, OneBundle
  <2>4. CASE RequestPause \/ Resume
    BY <2>4 DEF RequestPause, Resume, TypeOK
  <2>5. CASE \/ \E r \in Requests : GenerateBible(r) \/ BibleRejected(r)
             \/ Restart
             \/ UNCHANGED vars
    BY <2>5 DEF GenerateBible, BibleRejected, Restart, vars
  <2> QED
    BY <2>1, <2>2, <2>3, <2>4, <2>5 DEF Next
<1>3. TypeOK /\ OneBundle /\ Written => ReadyStoryIsComplete
  BY DEF OneBundle, ReadyStoryIsComplete, Complete, Tables, None
<1> QED
  BY <1>1, <1>2, <1>3, TypeCorrect, OneBundleAlways, PTL DEF Spec

\* An accepted Bible stands: no answer that was on its way when the story left
\* DRAFT replaces a row or moves the story to another branch.
THEOREM AcceptedBibleAlwaysStands == Spec => AcceptedBibleStands
<1> DEFINE Stands == story.status # "DRAFT" =>
                       /\ UNCHANGED tables
                       /\ story'.status # "DRAFT"
                       /\ story'.current = story.current
<1>1. TypeOK /\ OneBundle /\ [Next]_vars => [Stands]_vars
  <2> SUFFICES ASSUME TypeOK, OneBundle, Next, story.status # "DRAFT" PROVE Stands
    OBVIOUS
  <2>1. ASSUME NEW r \in Requests, BibleArrives(r) PROVE Stands
    BY <2>1 DEF BibleArrives, CanReplace
  <2>2. CASE Activate
    <3>1. PICK branch \in tables["branches"], version \in {story.version, story.version + 1} :
            story' = [story EXCEPT !.status = "IDLE", !.current = branch,
                                   !.pauseRequested = FALSE, !.version = version]
      BY <2>2 DEF Activate
    <3>2. branch = story.current
      BY <3>1 DEF OneBundle, Tables
    <3> QED
      BY <2>2, <3>1, <3>2 DEF Activate, TypeOK
  <2>3. CASE ConfirmBible \/ RequestPause \/ Resume
    BY <2>3 DEF ConfirmBible, RequestPause, Resume, TypeOK
  <2>4. CASE (\E r \in Requests : GenerateBible(r) \/ BibleRejected(r)) \/ Restart
    BY <2>4 DEF GenerateBible, BibleRejected, Restart
  <2> QED
    BY <2>1, <2>2, <2>3, <2>4 DEF Next
<1> QED
  BY <1>1, TypeCorrect, OneBundleAlways, PTL DEF Spec, AcceptedBibleStands

\* A confirmation that has succeeded stands: no pause, resumption, activation or
\* late Bible makes the story a DRAFT again.
THEOREM ConfirmationAlwaysStands == Spec => []ConfirmationStands
<1>1. Init => ConfirmationStands
  BY DEF Init, ConfirmationStands
<1>2. TypeOK /\ ConfirmationStands /\ [Next]_vars => ConfirmationStands'
  <2> SUFFICES ASSUME TypeOK, ConfirmationStands, [Next]_vars PROVE ConfirmationStands'
    OBVIOUS
  <2> USE DEF ConfirmationStands
  <2>1. ASSUME NEW r \in Requests, BibleArrives(r) PROVE ConfirmationStands'
    BY <2>1 DEF BibleArrives, ReplaceBundle, TypeOK
  <2>2. CASE ConfirmBible \/ RequestPause \/ Resume \/ Activate
    BY <2>2 DEF ConfirmBible, RequestPause, Resume, Activate, TypeOK
  <2>3. CASE \/ \E r \in Requests : GenerateBible(r) \/ BibleRejected(r)
             \/ Restart
             \/ UNCHANGED vars
    BY <2>3 DEF GenerateBible, BibleRejected, Restart, vars
  <2> QED
    BY <2>1, <2>2, <2>3 DEF Next
<1> QED
  BY <1>1, <1>2, TypeCorrect, PTL DEF Spec

-----------------------------------------------------------------------------
(* The transactions *)

Row == [status : {"DRAFT", "IDLE"}, version : Nat \ {0}, current : Nat, pauseRequested : BOOLEAN]

\* What activate_branch has read is the story as it is, or the story as it was
\* just before a confirmation: nothing else commits while the loop is in the
\* handler.
Reading ==
  loop.handler = "activate" =>
    /\ loop.branch \in tables["branches"]
    /\ loop.seen \in Row
    /\ loop.seen.version < MaxVersion
    /\ \/ story = loop.seen
       \/ story = [loop.seen EXCEPT !.status = "IDLE", !.version = @ + 1]

\* Nothing has been read at the start.
LEMMA ReadingInit == DbInit => Reading
  BY DEF DbInit, Reading, Free

\* What a confirmation commits leaves an older reading one commit behind.
LEMMA ConfirmKeepsReading ==
  ASSUME Reading, ConfirmBible, UNCHANGED loop
  PROVE  Reading'
<1> SUFFICES ASSUME loop.handler = "activate"
             PROVE  \/ story' = loop.seen
                    \/ story' = [loop.seen EXCEPT !.status = "IDLE", !.version = @ + 1]
  BY DEF Reading, ConfirmBible
<1>1. CASE story.status = "IDLE"
  BY <1>1 DEF Reading, ConfirmBible
<1>2. CASE story.status # "IDLE" /\ story = loop.seen
  BY <1>2 DEF ConfirmBible
<1>3. CASE /\ story.status # "IDLE"
           /\ story = [loop.seen EXCEPT !.status = "IDLE", !.version = @ + 1]
  BY <1>3 DEF Reading, Row
<1> QED
  BY <1>1, <1>2, <1>3 DEF Reading

\* Every step keeps what activate_branch has read that old.
LEMMA ReadingStep == TypeOK /\ Reading /\ [DbNext]_dbVars => Reading'
<1> SUFFICES ASSUME TypeOK, Reading, [DbNext]_dbVars PROVE Reading'
  OBVIOUS
<1>1. CASE ConfirmAgain
  BY <1>1, ConfirmKeepsReading DEF ConfirmAgain
<1>2. ASSUME NEW c \in Confirmations, ConfirmWrites(c) PROVE Reading'
  BY <1>2, ConfirmKeepsReading DEF ConfirmWrites
<1>3. ASSUME NEW c \in Confirmations, ConfirmReads(c) \/ ConfirmFails(c) PROVE Reading'
  BY <1>3 DEF ConfirmReads, ConfirmFails, Reading, vars
<1>4. CASE loop = Free /\ UNCHANGED loop
  BY <1>4 DEF Reading, Free
<1>5. ASSUME NEW r \in Requests, ReplaceReads(r) PROVE Reading'
  BY <1>5 DEF ReplaceReads, Reading
<1>6. CASE loop' = Free
  BY <1>6 DEF Reading, Free
<1>7. ASSUME NEW branch \in tables["branches"], ActivateReads(branch) PROVE Reading'
  BY <1>7 DEF ActivateReads, Reading, Row, TypeOK, vars
<1>8. CASE UNCHANGED dbVars
  BY <1>8 DEF dbVars, Reading
<1> QED
  BY <1>1, <1>2, <1>3, <1>4, <1>5, <1>6, <1>7, <1>8
     DEF DbNext, ReplaceWrites, ReplaceFails, ActivateWrites, Stop, Reads, Commits

\* The whole row that activate_branch writes back is what activating the present
\* story gives, but for the version.
LEMMA ActivateWritesActivates ==
  ASSUME TypeOK, Reading, ActivateWrites
  PROVE  Activate
<1> DEFINE version == loop.seen.version + 1
<1>1. /\ loop.branch \in tables["branches"]
      /\ loop.seen \in Row
      /\ version <= MaxVersion
  BY BibleAssumption DEF ActivateWrites, Reading, Row
<1>2. version \in {story.version, story.version + 1}
  BY <1>1 DEF ActivateWrites, Reading, Row
<1>3. version = story.version => story.status = "IDLE"
  <2>1. version # loop.seen.version
    BY <1>1 DEF Row
  <2>2. CASE story = loop.seen
    BY <2>1, <2>2
  <2>3. CASE story = [loop.seen EXCEPT !.status = "IDLE", !.version = @ + 1]
    BY <1>1, <2>3 DEF Row
  <2> QED
    BY <2>2, <2>3 DEF ActivateWrites, Reading
<1>4. story' = [story EXCEPT !.status = "IDLE", !.current = loop.branch,
                             !.pauseRequested = FALSE, !.version = version]
  BY <1>1 DEF ActivateWrites, Reading, Row
<1> QED
  BY <1>1, <1>2, <1>3, <1>4 DEF Activate, ActivateWrites

\* Whatever the thread pool and the event loop interleave, a reader of the tables
\* sees handlers that run one after the other: confirm_bible, the write of a
\* bundle and activate_branch, which reads before its transaction.
THEOREM TransactionsImplementHandlers == DbSpec => HandlersAreSteps
<1>1. DbInit => Init
  BY DEF DbInit
<1>2. TypeOK /\ Reading /\ [DbNext]_dbVars => [Next]_vars
  <2> SUFFICES ASSUME TypeOK, Reading, [DbNext]_dbVars PROVE [Next]_vars
    OBVIOUS
  <2>1. CASE ConfirmAgain
    BY <2>1 DEF ConfirmAgain, Next
  <2>2. ASSUME NEW c \in Confirmations, ConfirmReads(c) \/ ConfirmWrites(c) \/ ConfirmFails(c)
        PROVE  [Next]_vars
    BY <2>2 DEF ConfirmReads, ConfirmWrites, ConfirmFails, Next
  <2>3. ASSUME NEW r \in Requests, GenerateBible(r) \/ BibleRejected(r)
        PROVE  [Next]_vars
    BY <2>3 DEF Next
  <2>4. ASSUME NEW r \in Requests, ReplaceReads(r) \/ ReplaceWrites(r) \/ ReplaceFails(r)
        PROVE  [Next]_vars
    BY <2>4 DEF ReplaceReads, ReplaceWrites, ReplaceFails, Next
  <2>5. CASE RequestPause \/ Resume
    BY <2>5 DEF Next
  <2>6. ASSUME NEW branch, ActivateReads(branch) PROVE [Next]_vars
    BY <2>6 DEF ActivateReads
  <2>7. CASE ActivateWrites
    BY <2>7, ActivateWritesActivates DEF Next
  <2>8. CASE Stop
    BY <2>8 DEF Stop, Next
  <2>9. CASE UNCHANGED dbVars
    BY <2>9 DEF dbVars, vars
  <2> QED
    BY <2>1, <2>2, <2>3, <2>4, <2>5, <2>6, <2>7, <2>8, <2>9 DEF DbNext
<1>4. TypeOK /\ [Next]_vars => TypeOK'
  BY TypeStep
<1>5. Init => TypeOK
  BY TypeInit
<1>6. TypeOK /\ Reading /\ [DbNext]_dbVars => TypeOK' /\ Reading'
  BY <1>2, <1>4, ReadingStep
<1> QED
  BY <1>1, <1>2, <1>5, <1>6, ReadingInit, PTL DEF DbSpec, HandlersAreSteps, Spec

\* Every state is well typed, the handlers' and the transactions' own.
THEOREM DbTypeCorrect == DbSpec => []DbTypeOK
<1> DEFINE Own == /\ confirming \in SUBSET Confirmations
                  /\ loop \in Loops
                  /\ latest \in SUBSET (Confirmations \cup Requests)
<1>1. DbInit => Own
  BY DEF DbInit, Loops
<1>2. TypeOK /\ Own /\ [DbNext]_dbVars => Own'
  <2> SUFFICES ASSUME TypeOK, Own, [DbNext]_dbVars PROVE Own'
    OBVIOUS
  <2>1. CASE ConfirmAgain
    BY <2>1 DEF ConfirmAgain
  <2>2. ASSUME NEW c \in Confirmations, ConfirmReads(c) \/ ConfirmWrites(c) \/ ConfirmFails(c)
        PROVE  Own'
    BY <2>2 DEF ConfirmReads, ConfirmWrites, ConfirmFails
  <2>3. CASE Reads \/ Commits
    BY <2>3 DEF Reads, Commits
  <2>4. ASSUME NEW r \in Requests, ReplaceReads(r) \/ ReplaceWrites(r) \/ ReplaceFails(r)
        PROVE  Own'
    BY <2>4 DEF ReplaceReads, ReplaceWrites, ReplaceFails, Loops
  <2>5. ASSUME NEW branch \in tables["branches"], ActivateReads(branch) PROVE Own'
    <3>1. branch \in Nat
      BY DEF TypeOK, Tables
    <3> QED
      BY <2>5, <3>1 DEF ActivateReads, Loops, TypeOK
  <2>6. CASE ActivateWrites \/ Stop
    BY <2>6 DEF ActivateWrites, Stop, Loops
  <2>7. CASE UNCHANGED dbVars
    BY <2>7 DEF dbVars
  <2> QED
    BY <2>1, <2>2, <2>3, <2>4, <2>5, <2>6, <2>7 DEF DbNext
<1>3. Own /\ TypeOK => DbTypeOK
  BY DEF DbTypeOK
<1> QED
  BY <1>1, <1>2, <1>3, TransactionsImplementHandlers, TypeCorrect, PTL
     DEF DbSpec, HandlersAreSteps

\* What holds of the handlers run one after the other holds of their
\* transactions, threads and snapshots.
THEOREM TransactionsAreSafe ==
  DbSpec => /\ []OneBundle
            /\ []ReadyStoryIsComplete
            /\ []ConfirmationStands
            /\ AcceptedBibleStands
BY TransactionsImplementHandlers, OneBundleAlways, ReadyStoryAlwaysComplete,
   ConfirmationAlwaysStands, AcceptedBibleAlwaysStands, PTL DEF HandlersAreSteps

=============================================================================
