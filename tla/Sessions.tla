------------------------------ MODULE Sessions -------------------------------
(***************************************************************************)
(* The sessions of one account: who is let in, and for how long after the  *)
(* account's sessions were ended.                                          *)
(*                                                                         *)
(* A token carries the epoch it was issued in.  Every request checks it    *)
(* against the account's current epoch (auth/sessions.go), which each API  *)
(* process caches for TTL.  A check reads the clock and the cache under    *)
(* the lock, looks the epoch up without it, and caches the answer under it *)
(* again: three steps, with anything in between.  Ending the sessions and  *)
(* deleting the account (httpapi/auth.go over store/users.go) change the   *)
(* row first and forget the cached epoch of their own process afterwards.  *)
(*                                                                         *)
(* Time passes in ticks.  Nothing reads a clock's value, so the module     *)
(* keeps for each thing how many ticks are left or have passed, up to TTL. *)
(* Tokens live for weeks; their own expiry is left out, so a token of any  *)
(* epoch there has been may still come.                                    *)
(***************************************************************************)
EXTENDS Integers

CONSTANTS
  Instances,  \* the API processes
  Requests,   \* the requests of the account being handled at a time
  Nowhere,    \* where a request that is not being handled runs
  Missing,    \* what is cached for an account that does not exist
  TTL,        \* sessionCacheTTL, in ticks
  MaxEpoch    \* bound on the revocations

ASSUME TTLAssumption == TTL \in Nat \ {0}
ASSUME MaxEpochAssumption == MaxEpoch \in Nat
ASSUME ValuesAssumption == Nowhere \notin Instances /\ Missing \notin Nat

VARIABLES
  \* The account's row: does it exist, its session_epoch.
  exists,
  epoch,
  \* Ticks since an epoch's tokens stopped being valid, up to TTL; 0 before.
  since,
  \* Each process's entry for the account: what it says and the ticks left.
  cache,
  \* The requests.  found is what a check's lookup returned, age the ticks
  \* since the check began, late what Lag says of its answer.
  req

vars == <<exists, epoch, since, cache, req>>

Epochs  == 0..MaxEpoch
Ticks   == 0..TTL
Answers == Epochs \cup {Missing}

Entry == [epoch : Answers, left : Ticks]

NoEntry == [epoch |-> Missing, left |-> 0]

\* accepted and refused are the answers of a check; revoked and deleted come
\* after the statement that ended the sessions and before Forget.
Request == [pc : {"idle", "lookup", "store", "accepted", "refused",
                  "revoked", "deleted"},
            at : Instances \cup {Nowhere},
            token : Epochs, found : Answers, age : Ticks, late : Ticks]

Idle == [pc |-> "idle", at |-> Nowhere,
         token |-> 0, found |-> Missing, age |-> 0, late |-> 0]

TypeOK ==
  /\ exists \in BOOLEAN
  /\ epoch \in Epochs
  /\ since \in [Epochs -> Ticks]
  /\ cache \in [Instances -> Entry]
  /\ req \in [Requests -> Request]

Init ==
  /\ exists = TRUE
  /\ epoch = 0
  /\ since = [e \in Epochs |-> 0]
  /\ cache = [i \in Instances |-> NoEntry]
  /\ req = [r \in Requests |-> Idle]

\* Is a token of epoch e one of a session that was not ended?
Valid(e) == exists /\ e = epoch

\* An answer that does not fit the account has missed that epoch e ended, or,
\* when it refuses the newest token, that the epoch before it did: how long
\* ago that was.  A token of the first epoch is not refused before it ended.
LagAccepted(e) == since[e]
LagRefused(e) ==
  IF ~ Valid(e) THEN 0 ELSE IF e = 0 THEN TTL ELSE since[e - 1]

At(r, i, pc) == [req EXCEPT ![r] = [Idle EXCEPT !.pc = pc, !.at = i]]

Done(r) == [req EXCEPT ![r] = Idle]

Answer(r, i, pc, late) ==
  req' = [req EXCEPT ![r] = [Idle EXCEPT !.pc = pc, !.at = i, !.late = late]]

------------------------------------------------------------------------------
(* The check of a token of epoch e. *)

Fresh(i) == cache[i].left > 0

\* check with an entry that has not expired.
CheckCached(r, i, e) ==
  /\ req[r].pc = "idle"
  /\ e <= epoch
  /\ Fresh(i)
  /\ IF cache[i].epoch = e
     THEN Answer(r, i, "accepted", LagAccepted(e))
     ELSE Answer(r, i, "refused", LagRefused(e))
  /\ UNCHANGED <<exists, epoch, since, cache>>

\* check without one: it goes on to the database.
CheckAfresh(r, i, e) ==
  /\ req[r].pc = "idle"
  /\ e <= epoch
  /\ ~ Fresh(i)
  /\ req' = [req EXCEPT ![r] = [Idle EXCEPT !.pc = "lookup", !.at = i,
                                            !.token = e, !.late = LagAccepted(e)]]
  /\ UNCHANGED <<exists, epoch, since, cache>>

\* SessionEpoch.
LookUp(r) ==
  /\ req[r].pc = "lookup"
  /\ req' = [req EXCEPT ![r].pc = "store",
                        ![r].found = IF exists THEN epoch ELSE Missing]
  /\ UNCHANGED <<exists, epoch, since, cache>>

\* A failed lookup fails the request and says nothing about the token.
LookUpFails(r) ==
  /\ req[r].pc = "lookup"
  /\ req' = Done(r)
  /\ UNCHANGED <<exists, epoch, since, cache>>

\* The entry lives from the start of the check, not from its storing.
Left(r) == TTL - req[r].age

NewEntryFromNow(r) ==                            \* mutant: a life that begins when the answer is cached
  [epoch |-> req[r].found, left |-> TTL]

NewEntry(r) ==
  IF Left(r) = 0 THEN NoEntry ELSE [epoch |-> req[r].found, left |-> Left(r)]

Store(r) ==
  /\ req[r].pc = "store"
  /\ cache' = [cache EXCEPT ![req[r].at] = NewEntry(r)]
  /\ IF req[r].found = req[r].token
     THEN Answer(r, req[r].at, "accepted", req[r].late)
     ELSE Answer(r, req[r].at, "refused", LagRefused(req[r].token))
  /\ UNCHANGED <<exists, epoch, since>>

------------------------------------------------------------------------------
(* The handlers behind it. *)

\* Any request that ends here: refused, or answered by its handler.
Finish(r) ==
  /\ req[r].pc \in {"accepted", "refused"}
  /\ req' = Done(r)
  /\ UNCHANGED <<exists, epoch, since, cache>>

\* A statement that committed although its answer was lost fails the request:
\* Forget is not called.
After(r, pc, answered) == IF answered THEN At(r, req[r].at, pc) ELSE Done(r)

\* handleRevokeSessions: RevokeSessions.
RevokeSessions(r, answered) ==
  /\ req[r].pc = "accepted"
  /\ exists
  /\ epoch < MaxEpoch
  /\ epoch' = epoch + 1
  /\ req' = After(r, "revoked", answered)
  /\ UNCHANGED <<exists, since, cache>>

\* handleDeleteAccount: Delete.
Delete(r, answered) ==
  /\ req[r].pc = "accepted"
  /\ exists
  /\ exists' = FALSE
  /\ req' = After(r, "deleted", answered)
  /\ UNCHANGED <<epoch, since, cache>>

Forget(r) ==
  /\ req[r].pc \in {"revoked", "deleted"}
  /\ cache' = [cache EXCEPT ![req[r].at] = NoEntry]
  /\ req' = Done(r)
  /\ UNCHANGED <<exists, epoch, since>>

------------------------------------------------------------------------------
(* The processes and time. *)

\* Another account's entry fills the cache, which is then emptied (check).
CacheCleared(i) ==
  /\ Fresh(i)
  /\ cache' = [cache EXCEPT ![i] = NoEntry]
  /\ UNCHANGED <<exists, epoch, since, req>>

Restart(i) ==
  /\ cache' = [cache EXCEPT ![i] = NoEntry]
  /\ req' = [r \in Requests |-> IF req[r].at = i THEN Idle ELSE req[r]]
  /\ UNCHANGED <<exists, epoch, since>>

Later(n) == IF n < TTL THEN n + 1 ELSE n

Aged(entry) == IF entry.left > 1 THEN [entry EXCEPT !.left = entry.left - 1]
                                 ELSE NoEntry

Older(q) == IF q.pc \in {"lookup", "store"} THEN [q EXCEPT !.age = Later(q.age)]
                                            ELSE q

Tick ==
  /\ since' = [e \in Epochs |-> IF e <= epoch /\ ~ Valid(e) THEN Later(since[e])
                                                             ELSE since[e]]
  /\ cache' = [i \in Instances |-> Aged(cache[i])]
  /\ req' = [r \in Requests |-> Older(req[r])]
  /\ UNCHANGED <<exists, epoch>>

Handle(r) ==
  \/ \E i \in Instances, e \in Epochs : CheckCached(r, i, e) \/ CheckAfresh(r, i, e)
  \/ LookUp(r) \/ LookUpFails(r) \/ Store(r) \/ Finish(r) \/ Forget(r)
  \/ \E answered \in BOOLEAN : RevokeSessions(r, answered) \/ Delete(r, answered)

Next ==
  \/ \E r \in Requests : Handle(r)
  \/ \E i \in Instances : CacheCleared(i) \/ Restart(i)
  \/ Tick

Spec == Init /\ [][Next]_vars

------------------------------------------------------------------------------
(* Properties *)

\* A session that was ended, by a revocation or with its account, lets in no
\* request that comes TTL after that or later, on whatever process: however
\* long checks hang between their lookup and their storing, and even where the
\* commit's answer was lost and nobody called Forget (Sessions.check).
TokensEnd == \A r \in Requests : req[r].pc = "accepted" => req[r].late < TTL

\* The session a revocation answers with, or a later login, is refused
\* nowhere once the revocation is TTL old (check caches the epoch for TTL).
NewTokensWork == \A r \in Requests : req[r].pc = "refused" => req[r].late < TTL
==============================================================================
