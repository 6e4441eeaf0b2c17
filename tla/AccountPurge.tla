---------------------------- MODULE AccountPurge -----------------------------
(***************************************************************************)
(* What a deleted account leaves in storage, and how it is removed.        *)
(*                                                                         *)
(* One statement deletes the account's row and queues its storage prefix   *)
(* with a time before which files may still arrive (Users.Delete).  The    *)
(* handler then sweeps the prefix, and each API process's purge loop       *)
(* sweeps it again until a sweep is recorded as the last one               *)
(* (purgeAccountsOnce, MarkAccountPurged).  Meanwhile files still arrive:  *)
(* through upload forms handed out before, and from whatever was at work   *)
(* on a track of the account, a request, an import or a tag rewrite.       *)
(*                                                                         *)
(* A sweep lists the prefix while it removes what is listed: what is in    *)
(* storage when it begins it removes, what arrives later it may.           *)
(*                                                                         *)
(* Time passes in ticks, and what the code measures or takes is a number   *)
(* of them.  The account is one, since every statement here is about one   *)
(* account's row and prefix.                                               *)
(*                                                                         *)
(* What Sessions names as well has another name here, since                *)
(* Accounts_proofs extends both.                                           *)
(***************************************************************************)
EXTENDS Integers

CONSTANTS
  Processes,  \* the API processes, each with its purge loop
  Handler,    \* the sweep of the request that deletes the account
  Writers,    \* what may be at work on a track of the account at a time
  Objects,    \* keys under the account's prefix
  NoObject,
  FormLife,   \* how long an upload form is good for
  WriteTime,  \* how long a writer takes from finding the account to its write
  SweepTime,  \* how long a sweep takes
  Grace       \* how long after the deletion files may still arrive

ASSUME TimesAssumption ==
  /\ FormLife \in Nat \ {0}
  /\ WriteTime \in Nat
  /\ SweepTime \in Nat
  /\ Grace \in Nat

\* PENDING_UPLOAD_TTL must leave room for the slowest write, a form and a
\* sweep.  The defaults do (two hours against a form of one); no code checks it.
ASSUME GraceAssumption == WriteTime + FormLife + SweepTime <= Grace

ASSUME NamesAssumption == Handler \notin Processes /\ NoObject \notin Objects

Sweepers == Processes \cup {Handler}

VARIABLES
  \* The database: the account's row, and its row in account_deletions with
  \* the ticks until purge_after.
  hasRow,
  deletion,
  \* Storage: the objects under the prefix, and the ticks each form has left.
  stored,
  form,
  \* What each writer is going to store, and since when it is at work.
  work,
  \* Each sweep: is one under way, what it has yet to remove, since when.
  sweep

purgeVars == <<hasRow, deletion, stored, form, work, sweep>>

Deletion == [state : {"none", "pending", "purged"}, left : 0..Grace]
Work     == [object : Objects \cup {NoObject}, age : 0..WriteTime]
Sweep    == [on : BOOLEAN, todo : SUBSET Objects, age : 0..SweepTime]

NoWork  == [object |-> NoObject, age |-> 0]
NoSweep == [on |-> FALSE, todo |-> {}, age |-> 0]

PurgeTypeOK ==
  /\ hasRow \in BOOLEAN
  /\ deletion \in Deletion
  /\ stored \in SUBSET Objects
  /\ form \in [Objects -> 0..FormLife]
  /\ work \in [Writers -> Work]
  /\ sweep \in [Sweepers -> Sweep]

PurgeInit ==
  /\ hasRow = TRUE
  /\ deletion = [state |-> "none", left |-> 0]
  /\ stored = {}
  /\ form = [o \in Objects |-> 0]
  /\ work = [w \in Writers |-> NoWork]
  /\ sweep = [x \in Sweepers |-> NoSweep]

------------------------------------------------------------------------------
(* How files arrive. *)

Busy(w) == work[w].object # NoObject

Unused(o) ==
  /\ o \notin stored
  /\ form[o] = 0
  /\ \A w \in Writers : work[w].object # o

\* A reservation or a claim: it finds the account's row, through the track's
\* foreign key or by joining it, or does nothing (ReservePending).
Begin(w, o) ==
  /\ hasRow
  /\ ~ Busy(w)
  /\ Unused(o)
  /\ work' = [work EXCEPT ![w].object = o]
  /\ UNCHANGED <<hasRow, deletion, stored, form, sweep>>

\* handleCreateUpload hands out a form for the track it reserved.
HandOut(w) ==
  /\ Busy(w)
  /\ form' = [form EXCEPT ![work[w].object] = FormLife]
  /\ work' = [work EXCEPT ![w] = NoWork]
  /\ UNCHANGED <<hasRow, deletion, stored, sweep>>

\* An import, a copy or a rewrite stores its object itself.
Put(w) ==
  /\ Busy(w)
  /\ stored' = stored \cup {work[w].object}
  /\ work' = [work EXCEPT ![w] = NoWork]
  /\ UNCHANGED <<hasRow, deletion, form, sweep>>

\* The writer fails, or its process stops.
GiveUp(w) ==
  /\ Busy(w)
  /\ work' = [work EXCEPT ![w] = NoWork]
  /\ UNCHANGED <<hasRow, deletion, stored, form, sweep>>

\* A client posts a form that has not expired; it may do so again.
Land(o) ==
  /\ form[o] > 0
  /\ stored' = stored \cup {o}
  /\ UNCHANGED <<hasRow, deletion, form, work, sweep>>

------------------------------------------------------------------------------
(* The deletion and the sweeps. *)

Begun == [on |-> TRUE, todo |-> stored, age |-> 0]

DeleteAccountThenQueue(answered) ==              \* mutant: a second statement queues the prefix
  /\ hasRow
  /\ hasRow' = FALSE
  /\ IF answered THEN /\ deletion' = [state |-> "pending", left |-> Grace]
                      /\ sweep' = [sweep EXCEPT ![Handler] = Begun]
                 ELSE UNCHANGED <<deletion, sweep>>
  /\ UNCHANGED <<stored, form, work>>

\* handleDeleteAccount.  The statement commits; then the handler sweeps, in a
\* context of its own, unless it never learns of the commit.
DeleteAccount(answered) ==
  /\ hasRow
  /\ hasRow' = FALSE
  /\ deletion' = [state |-> "pending", left |-> Grace]
  /\ sweep' = IF answered THEN [sweep EXCEPT ![Handler] = Begun] ELSE sweep
  /\ UNCHANGED <<stored, form, work>>

\* A round of the purge loop finds the account pending (PendingAccountPurges)
\* and begins to list its prefix.
PurgeSelect(i) ==
  /\ ~ sweep[i].on
  /\ deletion.state = "pending"
  /\ sweep' = [sweep EXCEPT ![i] = Begun]
  /\ UNCHANGED <<hasRow, deletion, stored, form, work>>

\* RemovePrefix removes an object it listed: any that was there when it began,
\* and maybe one that came later.  Removing a missing object succeeds.
RemoveListed(x, o) ==
  /\ sweep[x].on
  /\ o \in stored \cup sweep[x].todo
  /\ stored' = stored \ {o}
  /\ sweep' = [sweep EXCEPT ![x].todo = sweep[x].todo \ {o}]
  /\ UNCHANGED <<hasRow, deletion, form, work>>

Swept(x) == sweep[x].on /\ sweep[x].todo = {}

PurgeableAtOnce ==                               \* mutant: the first sweep that ends is the last
  deletion.state = "pending"

\* MarkAccountPurged records the sweep that ended, unless files may still
\* arrive or another process recorded one already.
Purgeable == deletion.state = "pending" /\ deletion.left = 0

MarkPurged(i) ==
  /\ Swept(i)
  /\ deletion' = IF Purgeable THEN [deletion EXCEPT !.state = "purged"] ELSE deletion
  /\ sweep' = [sweep EXCEPT ![i] = NoSweep]
  /\ UNCHANGED <<hasRow, stored, form, work>>

\* The handler only answers.
HandlerAnswers ==
  /\ Swept(Handler)
  /\ sweep' = [sweep EXCEPT ![Handler] = NoSweep]
  /\ UNCHANGED <<hasRow, deletion, stored, form, work>>

\* A listing, a removal or the recording fails, the handler's time is over, or
\* the process stops; the loop's next round tries again.
SweepFails(x) ==
  /\ sweep[x].on
  /\ sweep' = [sweep EXCEPT ![x] = NoSweep]
  /\ UNCHANGED <<hasRow, deletion, stored, form, work>>

------------------------------------------------------------------------------

Less(n) == IF n > 0 THEN n - 1 ELSE 0

OlderWork(k)  == IF k.object = NoObject THEN k ELSE [k EXCEPT !.age = k.age + 1]
OlderSweep(s) == IF s.on THEN [s EXCEPT !.age = s.age + 1] ELSE s

\* A writer or a sweep that has taken all its time ends before time passes.
InTime ==
  /\ \A w \in Writers : work[w].age < WriteTime \/ ~ Busy(w)
  /\ \A x \in Sweepers : sweep[x].age < SweepTime \/ ~ sweep[x].on

TimePasses ==
  /\ InTime
  /\ deletion' = [deletion EXCEPT !.left = Less(deletion.left)]
  /\ form' = [o \in Objects |-> Less(form[o])]
  /\ work' = [w \in Writers |-> OlderWork(work[w])]
  /\ sweep' = [x \in Sweepers |-> OlderSweep(sweep[x])]
  /\ UNCHANGED <<hasRow, stored>>

WriterStep(w) == HandOut(w) \/ Put(w) \/ GiveUp(w)

LoopStep(i) ==
  PurgeSelect(i) \/ MarkPurged(i) \/ \E o \in sweep[i].todo : RemoveListed(i, o)

PurgeNext ==
  \/ \E w \in Writers : WriterStep(w) \/ \E o \in Objects : Begin(w, o)
  \/ \E o \in Objects : Land(o)
  \/ \E answered \in BOOLEAN : DeleteAccount(answered)
  \/ \E i \in Processes : PurgeSelect(i) \/ MarkPurged(i)
  \/ \E x \in Sweepers, o \in Objects : RemoveListed(x, o)
  \/ HandlerAnswers
  \/ \E x \in Sweepers : SweepFails(x)
  \/ TimePasses

PurgeSpec == PurgeInit /\ [][PurgeNext]_purgeVars

\* Time passes; a writer ends one way or the other; the handler's sweep ends,
\* by its timeout if nothing else; the loops run on their tickers, and from
\* some time on their calls succeed.
FairSpec ==
  /\ PurgeSpec
  /\ WF_purgeVars(TimePasses)
  /\ \A w \in Writers : WF_purgeVars(WriterStep(w))
  /\ WF_purgeVars(HandlerAnswers \/ SweepFails(Handler))
  /\ \A i \in Processes : WF_purgeVars(LoopStep(i)) /\ <>[][~ SweepFails(i)]_purgeVars

------------------------------------------------------------------------------
(* Properties *)

\* "So a prefix found empty from then on stays empty": once an account is
\* recorded as purged nothing is left under its prefix and nothing arrives any
\* more, although nobody looks again: no form is good, no writer at work.
PurgedStaysEmpty == deletion.state = "purged" => stored = {}

\* "A crash can never leave an account that signs in to find its audio gone":
\* sweeps remove objects only once the row is gone, and not when the deletion
\* failed (handleDeleteAccount's order).
AudioOutlivesAccount == [][~ stored \subseteq stored' => ~ hasRow]_purgeVars

\* Every deleted account is purged in the end, also when the handler stopped
\* right after its statement (purgeDeletedAccounts).  Needs FairSpec.
PurgeEnds == ~ hasRow ~> deletion.state = "purged"
==============================================================================
